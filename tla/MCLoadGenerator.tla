--------------------------- MODULE MCLoadGenerator ---------------------------
(* Small instances of LoadGenerator for TLC. *)
EXTENDS LoadGenerator

\* The clock outlasts the deadline and the slot a late request waits for, so that
\* its bound never stops a run.
ASSUME MCClockSuffices == Duration > 0 => MaxClock >= Duration + Interval
=============================================================================
