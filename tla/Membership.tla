----------------------------- MODULE Membership -----------------------------
(***************************************************************************)
(* What the server promises about membership (README, Join Flow and        *)
(* Security): every machine key has one standing and at most one address.  *)
(* A key becomes active by an approval, or by lifting a block; only keys   *)
(* that still wait are forgotten; an address goes to a key that has been   *)
(* approved, and only while no other key holds it.  What has been decided  *)
(* is saved then or later, all of it at once, and a recovery falls back to *)
(* what was saved and to nothing else.                                     *)
(*                                                                         *)
(* Nothing here is about users, names, calls or threads: ControlPlane,     *)
(* while its handlers run one by one, is shown to implement this module.   *)
(***************************************************************************)
CONSTANTS Key, Address, NoAddress

VARIABLES
  standing,   \* Key -> "unknown", "pending", "active" or "blocked"
  address,    \* Key -> its VPN address or NoAddress
  saved       \* the standing and the address of every key, as last saved

vars == <<standing, address, saved>>

Standing == {"unknown", "pending", "active", "blocked"}

Now == [standing |-> standing, address |-> address]

Init ==
  /\ standing = [k \in Key |-> "unknown"]
  /\ address = [k \in Key |-> NoAddress]
  /\ saved = Now

Approved(k) == standing[k] \in {"active", "blocked"}

\* Several keys change together when their user is denied or unblocked.
Change(keys, to) ==
  /\ standing' = [k \in Key |-> IF k \in keys THEN to ELSE standing[k]]
  /\ UNCHANGED address

Register(k) == standing[k] = "unknown" /\ Change({k}, "pending")

Approve(k) == standing[k] = "pending" /\ Change({k}, "active")

Suspend(keys) == (\A k \in keys : standing[k] # "unknown") /\ Change(keys, "blocked")

Resume(keys) == (\A k \in keys : standing[k] = "blocked") /\ Change(keys, "active")

Forget(keys) == (\A k \in keys : standing[k] = "pending") /\ Change(keys, "unknown")

\* A key gets its address, or moves to another one that is free.
Lease(k, a) ==
  /\ Approved(k)
  /\ \A other \in Key : address[other] # a
  /\ address' = [address EXCEPT ![k] = a]
  /\ UNCHANGED standing

Decide ==
  \/ \E k \in Key : Register(k) \/ Approve(k)
  \/ \E keys \in SUBSET Key : Suspend(keys) \/ Resume(keys) \/ Forget(keys)
  \/ \E k \in Key, a \in Address : Lease(k, a)

\* The whole book is saved, or the save fails and the last one stays.
Save == saved' = Now' \/ UNCHANGED saved

Recover == Now' = saved /\ UNCHANGED saved

Next ==
  \/ Decide /\ Save
  \/ UNCHANGED <<standing, address>> /\ Save
  \/ Recover

Spec == Init /\ [][Next]_vars

=============================================================================
