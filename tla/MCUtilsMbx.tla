---------------------------- MODULE MCUtilsMbx ----------------------------
(* Instances of UtilsMbx for TLC.                                           *)
EXTENDS UtilsMbx, TLC

CONSTANTS c1, c2, c3, l1, m1, m2, m3

Ctl(l, ack) == [via |-> "msg", to |-> l, cmd |-> "control", ack |-> ack]
Cmds(l, cmd) == [via |-> "cmd", to |-> l, cmd |-> cmd, ack |-> FALSE]

\* Three tasks that may all want a slot, of which there are two.
Three == {c1, c2, c3}
ThreeReq == (c1 :> {Ctl(l1, TRUE)}) @@ (c2 :> {Ctl(l1, TRUE)})
            @@ (c3 :> {Cmds(l1, "processed"), Ctl(l1, FALSE)})
=============================================================================
