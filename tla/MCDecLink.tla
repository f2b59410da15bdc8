---------------------------- MODULE MCDecLink ----------------------------
(* An instance of DecLink: one channel that is deleted and created again,   *)
(* with two frames, one of which its codec may keep after it has put it     *)
(* out, and two fields to a picture.                                        *)
EXTENDS DecLink

CONSTANTS t1, b1, f1, f2

OneTask == [ch \in Ch |-> t1]
Bits0 == [b \in Bit |-> 0]
Frames0 == [f \in Frame |-> 0]
Ones == [ch \in Ch |-> 1]
Twos == [ch \in Ch |-> 2]
H264 == [ch \in Ch |-> "H264"]
=============================================================================
