---------------------------- MODULE MCUsageRecords ----------------------------
(* An instance of UsageRecords. *)
EXTENDS UsageRecords

NoReports == {{}}
\* What parseUsage lets through: cached tokens are read by no parser.
SomeReports == SUBSET {"prompt", "completion"}
=============================================================================
