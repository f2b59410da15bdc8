---------------------------- MODULE ControlCall ----------------------------
(* What System_linkControl(..., waitAck = TRUE) and System_linkGetInfo      *)
(* promise their callers (interfaces/link_api/system.h): the command is     *)
(* carried out by its link exactly once, and the call returns after that.   *)
CONSTANT Caller

VARIABLE call       \* call[c]: what has become of the command of c

Init == call = [c \in Caller |-> "none"]

Send(c) == call[c] = "none" /\ call' = [call EXCEPT ![c] = "sent"]
Execute(c) == call[c] = "sent" /\ call' = [call EXCEPT ![c] = "done"]
Return(c) == call[c] = "done" /\ call' = [call EXCEPT ![c] = "none"]

Next == \E c \in Caller : Send(c) \/ Execute(c) \/ Return(c)
Spec == Init /\ [][Next]_call
=============================================================================
