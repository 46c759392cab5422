---------------------------- MODULE MCExportRuns ----------------------------
(* Small instances of ExportRuns for TLC. *)
EXTENDS ExportRuns, TLC

CONSTANTS u1, u2, a1, a2

\* Requests are alike, and so are attempts.
Symmetry == Permutations(Requester) \cup Permutations(Attempt)
=============================================================================
