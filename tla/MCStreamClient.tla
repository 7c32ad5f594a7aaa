--------------------------- MODULE MCStreamClient ---------------------------
(***************************************************************************)
(* Constants of StreamClient for TLC: what may go wrong in each run.       *)
(***************************************************************************)
EXTENDS StreamClient

\* One owner: publications succeed, and no wake-up is spurious.
OwnerFaults == {"startup", "interrupt"}
\* Several callers: the faults the run of one owner leaves out.
CallerFaults == {"publish", "spurious"}
StartupFaults == {"startup"}
PublishFaults == {"publish"}
=============================================================================
