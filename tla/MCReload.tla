------------------------------ MODULE MCReload ------------------------------
(***************************************************************************)
(* An instance of Reload: a config pinned to an address, one with another  *)
(* name and no pin, one whose server cannot be found, and one that does    *)
(* not pass the checks.                                                    *)
(***************************************************************************)
EXTENDS Reload

CONSTANTS pinned, renamed, lost, broken, a1, a2, h1, h2

MCConfig == {pinned, renamed, lost, broken}
MCValid == MCConfig \ {broken}
MCResolves == MCValid \ {lost}
MCNameOf == [c \in MCConfig |-> IF c = renamed THEN "pcrenamed" ELSE "pc"]
MCPinOf == [c \in MCConfig |-> IF c = pinned THEN a1 ELSE NoAddress]
MCAddress == {a1, a2}
MCHandler == {h1, h2}
=============================================================================
