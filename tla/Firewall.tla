------------------------------ MODULE Firewall ------------------------------
(***************************************************************************)
(* What the data plane promises (README, Access Control): who has been     *)
(* permitted to call a machine may send it anything; where only one        *)
(* direction has been permitted, the other side may only answer, and only  *)
(* after it has been sent something.  Between two machines of which none   *)
(* was permitted to call the other nothing gets through.                   *)
(*                                                                         *)
(* Nothing here is about addresses, keys, queries, the relay or direct     *)
(* paths: PeerCache, over Relay, is shown to implement this module.        *)
(***************************************************************************)
CONSTANT Node

VARIABLES
  permitted,  \* <<src, dst>> that src has ever been permitted to call
  sent,       \* <<src, dst>> of which src has sent something to dst
  heard       \* <<src, dst, kind>> that dst has got from src

vars == <<permitted, sent, heard>>

Init ==
  /\ permitted \in SUBSET (Node \X Node)
  /\ sent = {}
  /\ heard = {}

Permit ==
  /\ permitted \subseteq permitted'
  /\ permitted' \subseteq Node \X Node
  /\ UNCHANGED <<sent, heard>>

Send(src, dst) ==
  /\ sent' = sent \cup {<<src, dst>>}
  /\ UNCHANGED <<permitted, heard>>

\* dst has sent src something, as it was permitted to.
Answers(src, dst) == <<dst, src>> \in permitted \cap sent

Hear(src, dst, kind) ==
  /\ <<src, dst>> \in permitted \/ (kind = "reply" /\ Answers(src, dst))
  /\ heard' = heard \cup {<<src, dst, kind>>}
  /\ UNCHANGED <<permitted, sent>>

Next ==
  \/ Permit
  \/ \E src, dst \in Node :
       \/ Send(src, dst)
       \/ \E kind \in {"call", "reply"} : Hear(src, dst, kind)

Spec == Init /\ [][Next]_vars

=============================================================================
