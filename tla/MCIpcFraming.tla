---------------------------- MODULE MCIpcFraming ----------------------------
(* IpcFraming with one request of each kind: one that is answered, a list     *)
(* whose reply is too long, one that is no JSON, one the sender refuses and   *)
(* one that a sender does not refuse.                                        *)
EXTENDS IpcFraming

CONSTANTS status, list, junk, long, raw

Kinds      == {status, list, junk, long, raw}
KindLen    == [m \in Kinds |-> IF m \in {long, raw} THEN MaxFrame + 1 ELSE IF m = status THEN MaxFrame ELSE 1]
KindAnswer == [m \in Kinds |-> IF m = list THEN MaxFrame + 1 ELSE MaxFrame]
=============================================================================
