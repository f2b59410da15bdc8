--------------------------- MODULE MCSystemMsgQ ---------------------------
(* Instances of SystemMsgQ for TLC: a host with two application threads,    *)
(* its system link s and an IPC link h; an algorithm link d that sends      *)
(* events and an IPC link v, the previous one of h, on the DSP.             *)
EXTENDS SystemMsgQ, TLC

CONSTANTS host, dsp, a1, a2, s, h, d, v, m1, m2, m3

Where == (s :> host) @@ (h :> host) @@ (d :> dsp) @@ (v :> dsp)
Before == (s :> NoThread) @@ (h :> v) @@ (d :> NoThread) @@ (v :> NoThread)
Running == {s, v, d}

Ask(l, c, prm) == [to |-> l, cmd |-> c, prm |-> prm, ack |-> TRUE]
Tell(l, c, prm) == [to |-> l, cmd |-> c, prm |-> prm, ack |-> FALSE]

\* One thread creates and deletes a link of the host, the other controls a
\* link that sends no events.  d waits for the host with some of its events.
OneBuilder ==
    (a1 :> {Ask(h, "create", TRUE), Ask(h, "delete", FALSE)})
    @@ (a2 :> {Ask(v, "control", TRUE)})
    @@ (d :> {Ask(s, "event", TRUE), Tell(s, "event", FALSE)})
    @@ (v :> {}) @@ (s :> {}) @@ (h :> {})

\* One thread creates a host link, the other controls a DSP link that runs.
TwoBuilders ==
    (a1 :> {Ask(h, "create", TRUE)}) @@ (a2 :> {Ask(d, "control", TRUE)})
    @@ (d :> {Ask(s, "event", TRUE)}) @@ (v :> {}) @@ (s :> {}) @@ (h :> {})

\* The events of the decoder and of the VPSS that have parameters.
EventsWithPrms ==
    (a1 :> {}) @@ (a2 :> {}) @@ (d :> {}) @@ (v :> {Tell(s, "event", TRUE)})
    @@ (s :> {}) @@ (h :> {})
=============================================================================
