----------------------------- MODULE MCRunner -------------------------------
(***************************************************************************)
(* Small instances of Runner for TLC: two events with a job each, for the  *)
(* same instance.                                                          *)
(***************************************************************************)
EXTENDS Runner, TLC

CONSTANTS j1, j2, e1, e2, i1, k1, k2, n1, n2, n3

Apart == [j \in {j1, j2} |-> IF j = j1 THEN e1 ELSE e2]
Shared == [j \in {j1, j2} |-> i1]

\* Each fault and each act of a user once, but two errors: with two attempts
\* per message it takes two to reject one.
OneOfEach == [k \in EventKind |-> IF k = "error" THEN 2 ELSE 1]

\* How far TLC goes: any two of them while one job is there, one with both.
Scope == TotalSpent <= IF \A j \in Jobs : jobStatus[j] # "NONE" THEN 1 ELSE 2

\* The two jobs, with their events, and the two keys can be exchanged.
Swap == (j1 :> j2 @@ j2 :> j1 @@ e1 :> e2 @@ e2 :> e1)
Interchangeable == Permutations(Keys) \cup {Swap}
=============================================================================
