---------------------------- MODULE BoundedFifo ----------------------------
(* What a queue of the framework promises its callers: a first-in first-out *)
(* buffer of at most Capacity items shared by concurrent calls.  A call     *)
(* takes effect at one instant between its start and its return; a call     *)
(* that fails has no effect, and one that may wait for ever fails only when *)
(* the queue is being unblocked.                                            *)
EXTENDS Integers, Sequences

CONSTANTS Task,         \* the tasks that call the queue
          Data,         \* the items
          NoData,       \* the value an output argument has before a get
          Capacity      \* the number of items the queue holds

VARIABLES fifo,         \* the items in the queue, oldest first
          phase,        \* phase[t]: where the call of task t stands
          arg           \* arg[t]: direction, item and least fill of the call

absVars == <<fifo, phase, arg>>

Phase == {"idle", "called", "done", "failed"}
Arg == [side : {"get", "put"}, data : Data \cup {NoData}, minCount : Nat]

Outside(t) == phase[t] # "called"

Init == /\ fifo = <<>>
        /\ phase = [t \in Task |-> "idle"]
        /\ arg \in [Task -> Arg]

Start(t) == /\ Outside(t)
            /\ phase' = [phase EXCEPT ![t] = "called"]
            /\ arg' \in [Task -> Arg]
            /\ \A u \in Task \ {t} : arg'[u] = arg[u]
            /\ UNCHANGED fifo

\* The item a put carries becomes the youngest one.
Append1(t) == /\ phase[t] = "called" /\ arg[t].side = "put"
              /\ Len(fifo) < Capacity
              /\ fifo' = Append(fifo, arg[t].data)
              /\ phase' = [phase EXCEPT ![t] = "done"]
              /\ UNCHANGED arg

\* A get takes the oldest item, and only when the queue is filled enough.
Take(t) == /\ phase[t] = "called" /\ arg[t].side = "get"
           /\ fifo # <<>>
           /\ Len(fifo) >= arg[t].minCount \/ Len(fifo) = Capacity
           /\ arg' = [arg EXCEPT ![t].data = Head(fifo)]
           /\ fifo' = Tail(fifo)
           /\ phase' = [phase EXCEPT ![t] = "done"]

Fail(t) == /\ phase[t] = "called"
           /\ phase' = [phase EXCEPT ![t] = "failed"]
           /\ UNCHANGED <<fifo, arg>>

Empty == /\ fifo' = <<>>
         /\ UNCHANGED <<phase, arg>>

Next == \/ \E t \in Task : Start(t) \/ Append1(t) \/ Take(t) \/ Fail(t)
        \/ Empty

Spec == Init /\ [][Next]_absVars
=============================================================================
