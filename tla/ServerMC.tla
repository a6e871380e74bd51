----------------------------- MODULE ServerMC -----------------------------
(* Instances of Server for TLC.                                            *)
EXTENDS Server

CONSTANTS c1, c2

Byte(req, nl) == [req |-> req, nl |-> nl]
\* Requests of two and of three bytes, and the empty line that says goodbye.
TwoRequests == <<Byte(1, FALSE), Byte(1, TRUE), Byte(2, FALSE), Byte(2, FALSE), Byte(2, TRUE),
                 Byte(3, TRUE)>>
\* One request of two bytes, and one that does not fit into four.
LongRequest == <<Byte(1, FALSE), Byte(1, TRUE), Byte(2, FALSE), Byte(2, FALSE), Byte(2, FALSE),
                 Byte(2, FALSE), Byte(2, TRUE)>>
OneRequest  == <<Byte(1, FALSE), Byte(1, TRUE)>>

TwoScripts   == [c \in Clients |-> IF c = c1 THEN TwoRequests ELSE LongRequest]
ShortScripts == [c \in Clients |-> OneRequest]

\* What skvs_serve may return.
AnyResult == {-1, 0, 1}
===========================================================================
