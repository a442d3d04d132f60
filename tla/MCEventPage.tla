----------------------------- MODULE MCEventPage ----------------------------
(***************************************************************************)
(* Small instances of EventPage for TLC.                                   *)
(***************************************************************************)
EXTENDS EventPage

CONSTANTS e1, e2, s1, s2

\* The jobs of the first event change once, by themselves or by a re-run, and
\* once it is over it may be re-run or worked on again; its clone only starts
\* and ends.
OnceFirst == [e \in Ids |-> IF e = First THEN 1 ELSE 0]
Never == [e \in Ids |-> 0]
=============================================================================
