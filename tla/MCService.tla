----------------------------- MODULE MCService -----------------------------
(* Service on small instances. *)
EXTENDS Service, TLC

\* Mentions, and contents, are interchangeable; used by safety runs only.
SymmetricAll == Permutations(Mentions) \cup Permutations(Contents)

\* Bound: the bite whose training thread does not start is the last one.
FaultyBiteIsLast == threadFaults = 0 \/ phase # "idle"
=============================================================================
