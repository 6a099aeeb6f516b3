----------------------------- MODULE MCDelivery -----------------------------
(***************************************************************************)
(* Instances of Delivery for TLC: two recipients, and two delivery slots   *)
(* either in one worker process or in two.                                 *)
(***************************************************************************)
EXTENDS Delivery, TLC

CONSTANTS r1, r2, p1, p2, w1, w2

OneEach == (w1 :> p1) @@ (w2 :> p2)
AllInOne == [w \in Workers |-> p1]

\* Each event of S once, and n attempts that throw.
Once(S, n) ==
  [e \in Events \cup {"throw"} |->
     IF e = "throw" THEN n ELSE IF e \in S THEN 1 ELSE 0]
NoBudget == {Once({}, MaxFails)}
CrashBudget == {Once({"crash"}, MaxFails)}
LiveBudgets == {Once({"crash"}, 0), Once({}, 1), Once({"edit"}, 0), Once({"dberror"}, 0)}
EventBudgets == {Once({}, 1), Once({"dberror"}, 1), Once({"cancel", "dberror"}, 0),
                 Once({"pause", "cancel", "skip"}, 0), Once({"crash", "stop"}, 0),
                 Once({"stop", "evict"}, 0), Once({"edit"}, 0)}

RecipientSymmetry == Permutations(Recipients)
\* Sound where each process has one slot: processes are swapped with their slots.
PairSymmetry ==
  RecipientSymmetry \cup {(p1 :> p2) @@ (p2 :> p1) @@ (w1 :> w2) @@ (w2 :> w1)}
\* Sound where every slot belongs to the same process.
FullSymmetry == Permutations(Recipients) \cup Permutations(Workers)
=============================================================================
