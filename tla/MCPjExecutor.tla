---------------------------- MODULE MCPjExecutor ----------------------------
\* Instance of PjExecutor: the service starts the stack, tears it down and
\* starts it again (the watchdog's restart), while another thread makes an
\* asynchronous call, then a waiting one.
EXTENDS PjExecutor

MCKind == [c \in Calls |->
  CASE c \in {"startStack", "restart"} -> "startStack"
    [] c = "error"                     -> "errorDestroy"
    [] c = "cleanDestroy"              -> "cleanDestroy"
    [] OTHER                           -> "work"]

MCAfter == [c \in Calls |->
  CASE c = "cleanDestroy" -> {"startStack"} \cap Calls
    [] c = "restart"      -> {"cleanDestroy"} \cap Calls
    [] c = "sendMessage"  -> {"endCall"} \cap Calls
    [] OTHER              -> {}]

MCNested == [c \in Calls |-> IF c = "startStack" THEN "error" ELSE none]
=============================================================================
