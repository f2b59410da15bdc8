---------------------------- MODULE MCEncLink ----------------------------
(* An instance of EncLink: a channel of fields that are merged, and one of  *)
(* frames some of which may be skipped.                                     *)
EXTENDS EncLink, TLC

CONSTANTS t1, t2, f1, f2, g1, g2, b1, b2

FirstTask == [ch \in Ch |-> t1]
ChOfFrame == (f1 :> 0) @@ (f2 :> 0) @@ (g1 :> 1) @@ (g2 :> 1)
FieldsOf == (f1 :> {"top"}) @@ (f2 :> {"bottom"}) @@ (g1 :> {"frame"}) @@ (g2 :> {"frame"})
OnePool == [b \in Bit |-> 0]
PoolOfCh == [ch \in Ch |-> 0]
PerCalls == (0 :> 1) @@ (1 :> 2)
H264 == [ch \in Ch |-> "H264"]
Twos == [ch \in Ch |-> 2]
=============================================================================
