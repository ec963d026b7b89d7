----------------------------- MODULE MCOpenWebUI -----------------------------
(* Two processes and a few tasks of one chat.                              *)
EXTENDS OpenWebUI

CONSTANTS i1, i2, t1, t2, t3, chat

MCItemOf == [t \in Tasks |-> chat]
MCFocuses == {{"tasks"}, {"cleanup"}}
=============================================================================
