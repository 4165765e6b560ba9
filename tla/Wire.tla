-------------------------------- MODULE Wire --------------------------------
(***************************************************************************)
(* The wire format (internal/protocol, internal/identity): the envelope of *)
(* every datagram, the signed message inside most of them, the answer to a *)
(* peer query and the input of the join proof.  They are pure functions on *)
(* sequences of bytes; what the other modules take for granted of them is  *)
(* proved in WireProofs.                                                   *)
(*                                                                         *)
(* A parser is two operators: what it accepts, and what it then returns.   *)
(* The bodies that are JSON, the ciphers and the hashes are left out.      *)
(***************************************************************************)
EXTENDS Integers, Sequences

Byte == 0 .. 255

Bytes(n) == {s \in Seq(Byte) : Len(s) = n}

Version == 3
HeaderLen == 6
AddrLen == 4
SignOffset == 1 + AddrLen + AddrLen
SignatureSize == 64
KeySize == 32
PublicBlobSize == KeySize + KeySize

\* What follows the first n bytes.
After(s, n) == SubSeq(s, n + 1, Len(s))

-----------------------------------------------------------------------------
(* The envelope. *)

Envelope == [type: Byte, body: Seq(Byte)]

\* binary.BigEndian of a uint32, which the length of a datagram always fits.
PutUint32(n) ==
  LET shifted == n \div 256
      twice == shifted \div 256
  IN <<(twice \div 256) % 256, twice % 256, shifted % 256, n % 256>>

Uint32(s) == 256 * (256 * (256 * s[1] + s[2]) + s[3]) + s[4]

MaxUint32 == 4294967295

Marshal(env) == <<Version, env.type>> \o PutUint32(Len(env.body)) \o env.body

IsEnvelope(data) ==
  /\ Len(data) >= HeaderLen
  /\ data[1] = Version
  /\ Len(data) - HeaderLen = Uint32(SubSeq(data, 3, HeaderLen))

Unmarshal(data) == [type |-> data[2], body |-> After(data, HeaderLen)]

-----------------------------------------------------------------------------
(* Signed messages.  An address is its bytes: none, 4 or 16. *)

Address == Bytes(0) \cup Bytes(4) \cup Bytes(16)

SignedMessage == [type: Byte, src: Address, dst: Address, payload: Seq(Byte)]

Addr4(a) == IF Len(a) = AddrLen THEN a ELSE <<0, 0, 0, 0>>

SignBytes(m) == <<m.type>> \o Addr4(m.src) \o Addr4(m.dst) \o m.payload

\* sig is what sign returned for SignBytes(m).
MarshalSigned(m, sig) == SignBytes(m) \o sig

IsSigned(data) == Len(data) >= SignOffset + SignatureSize

Signature(data) == After(data, Len(data) - SignatureSize)

ParseSigned(data) ==
  [type    |-> data[1],
   src     |-> SubSeq(data, 2, 5),
   dst     |-> SubSeq(data, 6, SignOffset),
   payload |-> SubSeq(data, SignOffset + 1, Len(data) - SignatureSize)]

-----------------------------------------------------------------------------
(* Peer queries and their answers. *)

PeerQueryPayload(target) == target

IsPeerQuery(payload) == Len(payload) = AddrLen

Port == {n \in Nat : n <= 65535}

\* addr is the address, then the port; the zero value where there is none.
PeerAnswer == [found: BOOLEAN, hasAddr: BOOLEAN, canCall: BOOLEAN, canCallBack: BOOLEAN,
               addr: Address, port: Port, signPub: Seq(Byte), exchPub: Seq(Byte)]

NotFoundAnswer ==
  [found |-> FALSE, hasAddr |-> FALSE, canCall |-> FALSE, canCallBack |-> FALSE,
   addr |-> <<>>, port |-> 0, signPub |-> <<>>, exchPub |-> <<>>]

BoolByte(b) == IF b THEN 1 ELSE 0

Endpoint(a) ==
  IF a.hasAddr THEN Addr4(a.addr) \o <<a.port \div 256, a.port % 256>> ELSE <<>>

MarshalPeerAnswer(a) ==
  IF a.found
    THEN <<1, BoolByte(a.hasAddr), BoolByte(a.canCall), BoolByte(a.canCallBack)>>
           \o Endpoint(a) \o (a.signPub \o a.exchPub)
    ELSE <<0>>

KeysOffset(p) == IF p[2] = 1 THEN 10 ELSE 4

IsPeerAnswer(p) ==
  /\ Len(p) >= 1
  /\ p[1] # 0 => Len(p) >= 4 /\ Len(p) = KeysOffset(p) + PublicBlobSize

ParsePeerAnswer(p) ==
  IF p[1] = 0
    THEN NotFoundAnswer
    ELSE [found       |-> TRUE,
          hasAddr     |-> p[2] = 1,
          canCall     |-> p[3] = 1,
          canCallBack |-> p[4] = 1,
          addr        |-> IF p[2] = 1 THEN SubSeq(p, 5, 8) ELSE <<>>,
          port        |-> IF p[2] = 1 THEN 256 * p[9] + p[10] ELSE 0,
          signPub     |-> SubSeq(p, KeysOffset(p) + 1, KeysOffset(p) + KeySize),
          exchPub     |-> After(p, KeysOffset(p) + KeySize)]

\* identity.PublicBlob and SplitPublic: a machine's key is its two public keys.
PublicBlob(signPub, exchPub) == signPub \o exchPub

SplitPublic(blob) == <<SubSeq(blob, 1, KeySize), After(blob, KeySize)>>

-----------------------------------------------------------------------------
(* The join proof. *)

Terminated(name) == name \o <<0>>

\* What Proof feeds to the HMAC of the verifier.
ProofInput(nonce, user, machine, public) ==
  nonce \o (Terminated(user) \o (Terminated(machine) \o public))

=============================================================================
