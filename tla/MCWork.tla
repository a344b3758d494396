------------------------------- MODULE MCWork -------------------------------
(***************************************************************************)
(* Work that must come to an end: ingestion requests, tool streams, and    *)
(* the rotation of scheduled goals.  The components share no state, so a   *)
(* behaviour is about one of them.                                         *)
(***************************************************************************)
EXTENDS DocumentIngest, ToolRuntime, Rotation

VARIABLE component  \* the component this behaviour is about

(* Two requests for one collection, the first of two documents, one of them *)
(* named twice.                                                             *)
MCRefs == [b \in Batches |-> IF b = "b1" THEN <<"x", "y", "x">> ELSE <<"z">>]
MCTarget == [b \in Batches |-> "up"]
MCOwner == [b \in Batches |-> "alice"]

(* Two goals, the urgent one due in every slot.                             *)
MCPriority == <<1, 2>>
MCCadence == <<1, 2>>

vars == <<component, ingestVars, runtimeVars, rotationVars>>

(* The other components rest in an initial state.                          *)
Init ==
  /\ component \in {"ingest", "runtime", "rotation"}
  /\ IngestInit /\ (component # "ingest" => ~recreate)
  /\ RuntimeInit
  /\ RotationInit /\ (component # "rotation" => runs = <<>>)

IngestStep ==
  /\ component = "ingest" /\ IngestNext
  /\ UNCHANGED <<component, runtimeVars, rotationVars>>

RuntimeStep ==
  /\ component = "runtime" /\ RuntimeNext
  /\ UNCHANGED <<component, ingestVars, rotationVars>>

RotationStep ==
  /\ component = "rotation" /\ RotationNext
  /\ UNCHANGED <<component, ingestVars, runtimeVars>>

Next ==
  \/ IngestStep
  \/ RuntimeStep
  \/ RotationStep

(* Threads end and waits time out; invocations go on and readers read;      *)
(* slots keep coming due and not every run fails before its dispatch.       *)
Fairness ==
  /\ \A j \in Jobs : WF_ingestVars(component = "ingest" /\ DocumentStep(j))
  /\ \A b \in Batches :
       WF_ingestVars(/\ component = "ingest"
                     /\ \E d \in Docs(b) : Begin(b, d) \/ Accumulate(b, d))
  /\ \A r \in Runs : /\ WF_runtimeVars(component = "runtime" /\ Invoke(r))
                     /\ WF_runtimeVars(component = "runtime" /\ Read(r))
  /\ WF_rotationVars(component = "rotation" /\ Dispatch)

Spec == Init /\ [][Next]_vars /\ Fairness
-----------------------------------------------------------------------------
(* Threads never share a collection or write a document twice, and what a   *)
(* batch reports as indexed is searchable (nat_nv_ingest.py).               *)
IngestSafe == OneWriter /\ ReportedIsIndexed

(* Every active goal is worked on again and again, and no lane is passed    *)
(* over meanwhile (select_scheduled_goal).                                  *)
GoalsRotate == (component = "rotation" => NoGoalStarves) /\ []NoLaneSkipped
=============================================================================
