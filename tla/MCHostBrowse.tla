---------------------------- MODULE MCHostBrowse ----------------------------
(* Small instances of HostBrowse for TLC.                                  *)
EXTENDS HostBrowse, TLC

Symmetry == Permutations(Host) \cup Permutations(Req) \cup Permutations(Entry)

=============================================================================
