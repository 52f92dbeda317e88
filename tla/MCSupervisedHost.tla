------------------------- MODULE MCSupervisedHost ----------------------------
(* Small instances of SupervisedHost for TLC. *)
EXTENDS SupervisedHost, TLC

\* Hosts are not interchangeable in a temporal property, pids and requests are in an
\* invariant: used by the runs that check invariants only.
Interchangeable == Permutations(Pids) \cup Permutations(Requests) \cup Permutations(Hosts)
=============================================================================
