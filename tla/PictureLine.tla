---------------------------- MODULE PictureLine ----------------------------
(* What an encoder promises, channel by channel: pictures leave it in the   *)
(* order in which their frames came, each once, and each made of frames     *)
(* that followed each other.  It may leave out whole pictures.              *)
EXTENDS Integers, Sequences

CONSTANTS Ch,
          Frame,
          Size          \* Size[ch]: the frames in a picture, one or two fields

VARIABLES inside,       \* inside[ch]: the frames it has, in the order they came
          coded         \* coded[ch]: the pictures that can be taken from it

Init == /\ inside = [ch \in Ch |-> <<>>]
        /\ coded = [ch \in Ch |-> <<>>]

Has(f) == \E ch \in Ch : \E i \in DOMAIN inside[ch] : inside[ch][i] = f

\* Frames come, on any of the channels.
Enter == /\ \A ch \in Ch :
              /\ Len(inside'[ch]) >= Len(inside[ch])
              /\ SubSeq(inside'[ch], 1, Len(inside[ch])) = inside[ch]
              /\ \A i \in Len(inside[ch]) + 1 .. Len(inside'[ch]) :
                    inside'[ch][i] \in Frame /\ ~Has(inside'[ch][i])
         /\ UNCHANGED coded

\* The picture that begins with the i-th frame is left out.
Drop(ch, i) ==
    /\ i + Size[ch] - 1 <= Len(inside[ch])
    /\ inside' = [inside EXCEPT ![ch] = SubSeq(@, 1, i - 1)
                                        \o SubSeq(@, i + Size[ch], Len(@))]
    /\ UNCHANGED coded

\* Pictures are done: on each channel those that came first.
Picture(ch, k) == SubSeq(inside[ch], (k - 1) * Size[ch] + 1, k * Size[ch])
Code ==
    LET n == [ch \in Ch |-> Len(coded'[ch]) - Len(coded[ch])] IN
    /\ \A ch \in Ch : n[ch] >= 0 /\ n[ch] * Size[ch] <= Len(inside[ch])
    /\ coded' = [ch \in Ch |-> coded[ch] \o [k \in 1 .. n[ch] |-> Picture(ch, k)]]
    /\ inside' = [ch \in Ch |-> SubSeq(inside[ch], n[ch] * Size[ch] + 1, Len(inside[ch]))]

Take == /\ coded' = [ch \in Ch |-> <<>>]
        /\ UNCHANGED inside

Next == Enter \/ Code \/ Take \/ \E ch \in Ch : \E i \in DOMAIN inside[ch] : Drop(ch, i)

Spec == Init /\ [][Next]_<<inside, coded>>
=============================================================================
