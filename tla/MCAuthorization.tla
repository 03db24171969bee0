--------------------------- MODULE MCAuthorization ---------------------------
(* Three calls, and three rounds: one call may wait, a second find the       *)
(* session pending, and a third start a round of its own.                    *)
EXTENDS Authorization

CONSTANTS i1, i2, i3

MCInvocations == {i1, i2, i3}
==============================================================================
