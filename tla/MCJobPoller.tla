---------------------------- MODULE MCJobPoller ----------------------------
(* Model checking of JobPoller.                                            *)
EXTENDS JobPoller, TLC

\* Nothing of the pages reads the clock: it moves only as long as no job was
\* accepted, so that the limiter fills and empties apart from the polling.
ClockOrJobs == now = 0 \/ \A j \in Jobs : row[j] = "none"

=============================================================================
