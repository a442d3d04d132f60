----------------------------- MODULE MCDispatch -----------------------------
(***************************************************************************)
(* Small instances of Dispatch for TLC.                                    *)
(***************************************************************************)
EXTENDS Dispatch, TLC

CONSTANTS j1, j2, j3, e1, e2, c1, c2, w1, w2, r1, r2

\* How often each fault, and the re-run, may happen in a run.
Once(kinds) == [k \in FaultKind |-> IF k \in kinds THEN 1 ELSE 0]

NoFault      == Once({})
Reruns       == [Once({"rerun"}) EXCEPT !["rerun"] = 2]
AllButRerun  == Once(FaultKind \ {"rerun"})
Lively       == Once({"crash", "error", "stop", "lost"})
OneCrash     == Once({"crash"})
OneAPICrash  == Once({"apiCrash"})

\* One event with two jobs, or with one.
OneEvent == [j \in {j1, j2} |-> e1]
OneJob   == [j \in {j1} |-> e1]

\* One consumer, or two, of one process or of two.
OneConsumer == [c \in {c1} |-> w1]
OneWorker   == [c \in {c1, c2} |-> w1]
TwoWorkers  == [c \in {c1, c2} |-> IF c = c1 THEN w1 ELSE w2]

\* Jobs of one event and the requests are interchangeable.
Interchangeable == Permutations({j1, j2}) \cup Permutations({r1, r2})
=============================================================================
