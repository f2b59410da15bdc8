-------------------------- MODULE FrameBroadcast --------------------------
(* What the duplicator link promises: every frame the source gives reaches  *)
(* every output once, in the order of the source, and the source gets it    *)
(* back only when every output has returned it.                             *)
EXTENDS Integers, Sequences, FiniteSets, Functions

CONSTANTS Frame, Output

VARIABLES free,     \* the frames the source may fill
          queue,    \* queue[q]: the frames on their way to output q
          held      \* held[q]: the frames output q uses

vars == <<free, queue, held>>

InFlight(f) == \E q \in Output : f \in held[q] \cup Range(queue[q])

Init == /\ free = Frame
        /\ queue = [q \in Output |-> <<>>]
        /\ held = [q \in Output |-> {}]

\* The source gives a list of frames.
Lists(S) == UNION {{s \in [1 .. n -> S] : IsInjective(s)} : n \in 1 .. Cardinality(S)}
Give(s) == /\ free' = free \ Range(s)
           /\ queue' = [q \in Output |-> queue[q] \o s]
           /\ UNCHANGED held

\* The output takes some frames from the front of its queue.
Take(q, n) == /\ queue' = [queue EXCEPT ![q] = SubSeq(@, n + 1, Len(@))]
              /\ held' = [held EXCEPT ![q] = @ \cup {queue[q][i] : i \in 1 .. n}]
              /\ UNCHANGED free

Return(q, f) == /\ f \in held[q]
                /\ held' = [held EXCEPT ![q] = @ \ {f}]
                /\ UNCHANGED <<free, queue>>

Reclaim(S) == /\ \A f \in S : f \notin free /\ ~InFlight(f)
              /\ free' = free \cup S
              /\ UNCHANGED <<queue, held>>

Next == \/ \E s \in Lists(free) : Give(s)
        \/ \E q \in Output : \E n \in 1 .. Len(queue[q]) : Take(q, n)
        \/ \E q \in Output, f \in Frame : Return(q, f)
        \/ \E S \in (SUBSET Frame) \ {{}} : Reclaim(S)

Spec == Init /\ [][Next]_vars
=============================================================================
