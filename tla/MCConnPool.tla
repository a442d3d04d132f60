---------------------------- MODULE MCConnPool ------------------------------
(***************************************************************************)
(* Small instances of ConnPool for TLC.                                    *)
(***************************************************************************)
EXTENDS ConnPool

CONSTANTS q1, q2, q3, k1, k2
=============================================================================
