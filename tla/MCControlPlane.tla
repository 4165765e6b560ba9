--------------------------- MODULE MCControlPlane ---------------------------
(***************************************************************************)
(* Instances of ControlPlane for TLC: the nodes' configs and the admins'   *)
(* commands, over a few users, names and keys.                             *)
(***************************************************************************)
EXTENDS ControlPlane

CONSTANTS me, friend, laptop, pc1, ka, kf, kg, lan, lan2

Conf(u, n, k, d) == [user |-> u, name |-> n, key |-> k, desired |-> d]

Cmd(o, u, n, to) == [op |-> o, user |-> u, name |-> n, to |-> to]

\* One admin machine, and one friend machine that may rename and pin itself.
RenameClaims == {Conf(me, pc1, ka, 0), Conf(friend, laptop, kf, 0), Conf(friend, pc1, kf, 3)}

\* Two friend machines that ask for the same name and the same pin.
RivalClaims == {Conf(me, pc1, ka, 0), Conf(friend, laptop, kf, 3), Conf(friend, laptop, kg, 0),
                Conf(friend, pc1, kg, 3)}

\* Commands on the friend and on its laptop.
FriendCommands ==
  {Cmd("allow", friend, n, ServerName) : n \in {NoName, laptop}}
  \cup {Cmd("deny", friend, n, NoTarget) : n \in {NoName, laptop}}

\* One admin machine, and one friend machine that comes to pin its address.
PinClaims == {Conf(me, pc1, ka, 0), Conf(friend, laptop, kf, 0), Conf(friend, laptop, kf, 3)}

ShortCommands == {Cmd("allow", friend, NoName, ServerName), Cmd("allow", friend, laptop, ServerName),
                  Cmd("deny", friend, NoName, NoTarget)}

\* Two friend machines that start with the same name, without the admin's.
TwinClaims == {Conf(friend, laptop, kf, 3), Conf(friend, laptop, kg, 0), Conf(friend, pc1, kg, 3)}

AllCommands == FriendCommands \cup {Cmd("deny", friend, NoName, ServerName)}
=============================================================================
