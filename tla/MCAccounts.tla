----------------------------- MODULE MCAccounts -----------------------------
EXTENDS Accounts, TLC

\* Ids, names, tokens, sessions and requests are interchangeable: no action or
\* property names one, and no liveness is checked in this run.
Symmetry == Permutations(Ids) \cup Permutations(Names) \cup Permutations(Tokens)
            \cup Permutations(Sessions) \cup Permutations(Requests)
=============================================================================
