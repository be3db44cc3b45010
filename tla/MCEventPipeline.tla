-------------------------- MODULE MCEventPipeline --------------------------
(* EventPipeline on one user's events. *)
EXTENDS EventPipeline, TLC

CONSTANT u1

OneOwner == [e \in Events |-> u1]

AllSteps == StepNames
Interchangeable == Permutations(Tasks) \cup Permutations(Events)
OneStep == {"step02_extract_entities"}
\* A step of each kind: its failure is retried by the user, is final, is only
\* recorded, or stops the run although the step is called non-critical.
StepOfEachKind == {"step01_verify_event", "step02_extract_entities",
                   "step05_promise_analysis", "step09_memory_storage",
                   "step10_association_discovery"}
=============================================================================
