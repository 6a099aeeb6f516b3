--------------------------- MODULE MCAlibabaSync ---------------------------
(***************************************************************************)
(* Instances of AlibabaSync for TLC: two or three pages, at most two       *)
(* worker processes and two requests.                                      *)
(***************************************************************************)
EXTENDS AlibabaSync, TLC

CONSTANTS p1, p2, j1, j2, j3, j4, q1, q2

Times(f) == [e \in Events |-> IF e \in DOMAIN f THEN f[e] ELSE 0]
SyncSymmetry == Permutations(Procs)

CrashBudget == Times([start |-> 1, crash |-> 1, fail |-> 1])
LiveBudgets == {CrashBudget,
                Times([start |-> 1, dberror |-> 1]), Times([start |-> 1, runtime |-> 1]),
                Times([start |-> 1, unset |-> 1]), Times([oldrow |-> 1, fail |-> 1]),
                Times([start |-> 1, pause |-> 1, resume |-> 1])}
OperatorBudgets == {CrashBudget,
                    Times([start |-> 1, pause |-> 1, resume |-> 1]),
                    Times([start |-> 1, pause |-> 1, reset |-> 1]),
                    Times([start |-> 1, crash |-> 1, slow |-> 1]),
                    Times([start |-> 1, fail |-> 1, repeat |-> 1])}
PauseBudget == {Times([start |-> 1, pause |-> 1])}
=============================================================================
