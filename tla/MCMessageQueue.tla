--------------------------- MODULE MCMessageQueue ---------------------------
(* Small instances of MessageQueue for TLC: all messages to one recipient,   *)
(* the recipients share nothing but the worker.                              *)
EXTENDS MessageQueue, TLC

CONSTANT contact

OneRecipient == {contact}
ToOne == [m \in 1..NMsg |-> contact]
=============================================================================
