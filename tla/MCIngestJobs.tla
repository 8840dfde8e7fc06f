----------------------------- MODULE MCIngestJobs -----------------------------
(***************************************************************************)
(* Instances of IngestJobs for TLC.                                        *)
(***************************************************************************)
EXTENDS IngestJobs, TLC

\* Documents differ in name only, and so do servers.
DocSymmetry == Permutations(Docs)
=============================================================================
