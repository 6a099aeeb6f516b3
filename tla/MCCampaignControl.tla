------------------------- MODULE MCCampaignControl -------------------------
(***************************************************************************)
(* Instances of CampaignControl for TLC: two list members, imported one a  *)
(* chunk and cleaned up one a batch, and three requests.                   *)
(***************************************************************************)
EXTENDS CampaignControl, TLC

CONSTANTS q1, q2, q3

\* Three starts (a lock freed by the wrong owner needs a third), and a start
\* with the requests that may come in between, whichever request is which.
Asked(s, a) == {q \in Reqs : s.asks[q] = a}
Mixes ==
  {s \in [list : {{1}, {1, 2}}, asks : [Reqs -> Acts]] :
     \/ Asked(s, "start") = Reqs /\ s.list = {1}
     \/ /\ Cardinality(Asked(s, "start")) = 2 /\ Asked(s, "resume") # {}
        /\ s.list = {1, 2}
     \/ /\ Cardinality(Asked(s, "start")) = 1 /\ Cardinality(Asked(s, "cancel")) = 1
        /\ Asked(s, "delete") # {} /\ s.list = {1}}
RequestSymmetry == Permutations(Reqs)

\* For liveness: a start, and another or a cancel.
Pairs ==
  {s \in [list : {{1}, {1, 2}}, asks : [Reqs -> {"start", "cancel"}]] :
     /\ s.asks[q1] = "start"
     /\ s.asks[q2] = "cancel" <=> s.list = {1, 2}}

\* One start and one deletion.
StartAndDelete ==
  {s \in [list : {{1, 2}}, asks : [Reqs -> {"start", "delete"}]] :
     s.asks[q1] = "start" /\ s.asks[q2] = "delete"}
=============================================================================
