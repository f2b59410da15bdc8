---------------------------- MODULE MCUtilsQue ----------------------------
(* Instances of UtilsQue for TLC: who calls the queue, and how.             *)
EXTENDS UtilsQue, TLC

CONSTANTS p1, p2, g1, g2, a, b

Tasks11 == {p1, g1}
Tasks22 == {p1, p2, g1, g2}
Items == {a, b}
BothSides == {"get", "put"}

Put(d, to) == [side |-> "put", data |-> d, minCount |-> 1, timeout |-> to]
Get(n, to) == [side |-> "get", data |-> NoData, minCount |-> n, timeout |-> to]

\* One producer and one consumer, every kind of call.
Pair == (p1 :> {Put(d, to) : d \in Items, to \in Timeout})
        @@ (g1 :> {Get(n, to) : n \in 0 .. 3, to \in Timeout})

\* Two producers and two consumers; the first of each gives up after a while.
Crowd == (p1 :> {Put(a, "timed")}) @@ (p2 :> {Put(a, "forever")})
         @@ (g1 :> {Get(1, "timed")}) @@ (g2 :> {Get(1, "forever")})
=============================================================================
