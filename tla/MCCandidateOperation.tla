------------------------ MODULE MCCandidateOperation ------------------------
(* CandidateOperation on two or three entities with matching names. *)
EXTENDS CandidateOperation, TLC

CONSTANTS o1, o2, ann, anne, anna

\* Two tokens about one entity, and two about entities that match each other.
OneResource == [o \in Ops |-> ann]
TwoResources == [o \in Ops |-> IF o = o1 THEN ann ELSE anne]

MatchesTwo == (ann :> <<anne>>) @@ (anne :> <<ann>>)
MatchesThree ==
    (ann :> <<anne, anna>>) @@ (anne :> <<ann, anna>>) @@ (anna :> <<anne, ann>>)

Drop(o) == [op |-> o, act |-> "reject", sel |-> NoEntity]
Pick(o, e) == [op |-> o, act |-> "confirm", sel |-> e]

\* One item, and pairs that decide one operation twice or two together.
RequestsOne ==
    {<<Drop(o1)>>, <<Pick(o1, anne)>>, <<Pick(o2, anne)>>,
     <<Pick(o1, anne), Drop(o1)>>, <<Drop(o1), Pick(o2, anne)>>}
RequestsChain == {<<Pick(o1, anne)>>, <<Pick(o1, anne), Pick(o2, anna)>>}
RequestsSingle == {<<Pick(o1, anne)>>, <<Drop(o1)>>}
NoRequests == {}
Interchangeable == Permutations(Tasks)
=============================================================================
