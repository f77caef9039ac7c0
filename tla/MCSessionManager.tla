-------------------------- MODULE MCSessionManager --------------------------
(* Small instances of SessionManager for TLC.                              *)
EXTENDS SessionManager, TLC

Symmetry ==
  Permutations(Id) \cup Permutations(Obj) \cup Permutations(Caller)
    \cup Permutations(Env) \cup Permutations(Label)

=============================================================================
