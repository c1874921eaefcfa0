---------------------------- MODULE MCLinkUnits -----------------------------
(* The link from a unit's pairs to the merged stream: one lane's bytes, cycle
   by cycle, for every layout; and the merge of what two such lanes announce.
   They do not share state; one of them acts in a behaviour.                  *)
EXTENDS MCReorder, LinkLane

VARIABLE part
parts == <<part, vars, lane>>

OtherLayouts == {[first |-> 0, count |-> LaneMin], [first |-> 3, count |-> LaneMax],
                 [first |-> LaneRing - 2, count |-> LaneMax]}

InitParts == part \in {"lane", "merge"} /\ Init /\ LaneInit
LaneAlone == part = "lane" /\ LaneNext /\ UNCHANGED <<part, vars>>
Merging(action) == part = "merge" /\ action /\ UNCHANGED <<part, lane>>
NextParts == LaneAlone \/ Merging(Next)

(* The fairness of Reorder's FairSpec, for the part that has it.              *)
SpecParts ==
    /\ InitParts /\ [][NextParts]_parts
    /\ WF_parts(Merging(Merge)) /\ WF_parts(Merging(TakePair)) /\ WF_parts(Merging(FinishSkip))
    /\ \A l \in Lanes : WF_parts(Merging(Drop(l))) /\ WF_parts(Merging(Arrive(l)))
=============================================================================
