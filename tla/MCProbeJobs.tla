----------------------------- MODULE MCProbeJobs -----------------------------
(* Probe lists: a Job probe followed by a network probe, and two Job probes. *)
EXTENDS ProbeJobs

McOneJob == <<"Job", "Network">>
McTwoJobs == <<"Job", "Job">>
=============================================================================
