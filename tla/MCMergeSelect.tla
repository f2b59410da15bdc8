--------------------------- MODULE MCMergeSelect ---------------------------
(* Instances of MergeSelect for TLC.                                        *)
EXTENDS MergeSelect, TLC

CONSTANTS a, b, sel, n0, n1

\* Queue 0 has two channels, queue 1 has one; a frame of the last of each.
TwoOne == (0 :> 2) @@ (1 :> 1)
OwnerAB == (a :> 0) @@ (b :> 1)
ChanAB == (a :> 1) @@ (b :> 0)

\* Two next links; a's channel 1 is first mapped, b's channel 2 is not.
Next01 == (0 :> n0) @@ (1 :> n1)
First == (0 :> <<1>>) @@ (1 :> <<>>)
Lists12 == {<<>>, <<1>>, <<2>>, <<2, 1>>}
=============================================================================
