---------------------------- MODULE MCIpcFrames ----------------------------
(* Instances of IpcFrames, and with it of IpcM3, for TLC.                   *)
EXTENDS IpcFrames, TLC

CONSTANTS f1, f2, e1, e2, h1, h2

Events == [notifyNext |-> TRUE, notifyPrev |-> TRUE, outClock |-> FALSE, inClock |-> FALSE]
Clocks == [notifyNext |-> FALSE, notifyPrev |-> FALSE, outClock |-> TRUE, inClock |-> TRUE]
\* The clock alone on the way back, events and the clock on the way out.
Mixed == [notifyNext |-> TRUE, notifyPrev |-> FALSE, outClock |-> TRUE, inClock |-> TRUE]

AllModes == {Events, Clocks, Mixed}
SafetyPairs == {<<"m3", Mixed>>, <<"frames", Events>>, <<"process", Mixed>>}
ComesBackPairs == {<<"m3", Events>>, <<"m3", Clocks>>, <<"frames", Events>>,
                   <<"frames", Clocks>>, <<"process", Events>>}
Handles == Frame \cup Header
\* The channel of every frame is that of the second queue.
SecondChan == [f \in Frame |-> 1]
TwoQueues == <<1, 1>>
Symmetry == Permutations({f1, f2}) \cup Permutations({e1, e2}) \cup Permutations({h1, h2})
=============================================================================
