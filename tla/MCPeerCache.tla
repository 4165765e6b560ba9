---------------------------- MODULE MCPeerCache ----------------------------
(* Small networks of PeerCache for TLC. *)
EXTENDS PeerCache

CONSTANTS a, f, g, other

\* a is a machine of the admin; f and g are machines of one friend.
Owners == [n \in Node |-> IF n = a THEN Admin ELSE other]

\* f has a grant toward a, and an admin revokes it or blocks f.
OldGrant == {{<<f, a>>}}

NoGrants == {{}}

RevokeOrBlock == {[op |-> "deny", subject |-> f, to |-> t] : t \in {a, NoTarget}}

NoCommands == {}

\* f calls a, and a answers.
Conversation == {<<f, a, "call">>, <<a, f, "reply">>}

\* f calls its sibling g, and a calls f, which answers and tries to call a.
CallsAndAnswers ==
  {<<f, g, "call">>, <<a, f, "call">>, <<f, a, "reply">>, <<f, a, "call">>}

\* Between whom direct packets get through.
BothWays == {<<f, a>>, <<a, f>>}

FromFToG == {<<f, g>>}

\* Where workers are started; no pairs.
AtAAndF == {a, f} \X Worker

Nowhere == {}
=============================================================================
