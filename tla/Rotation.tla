------------------------------ MODULE Rotation ------------------------------
(***************************************************************************)
(* What a scheduled run of the autonomous agent works on: the goal it picks*)
(* and the research lane it is given, derived from the bounded run history.*)
(*   builder/autonomous_agent: worker.py select_scheduled_goal,            *)
(*   exploration.py, store.py upsert_run and mark_goal_run                 *)
(* Time is relative: a goal keeps its age since lastRunAt.                 *)
(***************************************************************************)
EXTENDS Integers, Sequences, SequencesExt, FiniteSetsExt

CONSTANTS Goals,     \* active goals, numbered in list order
          Priority,  \* priority of a goal, 1 first
          Cadence,   \* ticks of its cadence tag
          MaxRuns,   \* maxRunsStored
          Slots,     \* possible ticks between two dispatched slots
          MaxAge     \* bound on ages

(* The worker's free exploration, and a goal that never ran.                *)
NoGoal == 0
Never == -1
NoStep == -1

ASSUME RotationAssumption ==
  /\ Goals \subseteq Nat \ {NoGoal}
  /\ Priority \in [Goals -> Nat] /\ Cadence \in [Goals -> Nat \ {0}]
  /\ MaxRuns \in Nat \ {0} /\ Slots \subseteq Nat \ {0} /\ MaxAge \in Nat

VARIABLES runs,    \* stored runs, newest first
          age,     \* ticks since lastRunAt of each goal
          picked   \* goal of the last scheduled run

rotationVars == <<runs, age, picked>>

Lanes == <<"known", "adjacent", "known", "scout">>  \* of steps 0 to 3
Lane(step) == Lanes[step + 1]

(***************************************************************************)
(* select_scheduled_goal                                                   *)
(***************************************************************************)

(* g ranks above h: never run first, then the most overdue in proportion to *)
(* its cadence, then priority, then list order.                             *)
Above(g, h, ages) ==
  LET overdue == ages[g] * Cadence[h]
      other == ages[h] * Cadence[g]
      tie == Priority[g] < Priority[h] \/ (Priority[g] = Priority[h] /\ g <= h)
  IN  CASE ages[g] = Never /\ ages[h] = Never -> tie
        [] ages[g] = Never -> TRUE
        [] ages[h] = Never -> FALSE
        [] OTHER -> overdue > other \/ (overdue = other /\ tie)

Due(g, ages) == ages[g] = Never \/ ages[g] >= Cadence[g]

(* Mutant: the first due goal of the list is taken.                         *)
FirstDueGoal(ages) ==
  IF \E g \in Goals : Due(g, ages) THEN Min({g \in Goals : Due(g, ages)}) ELSE NoGoal

SelectScheduledGoal(ages) ==
  IF Goals = {} THEN NoGoal
  ELSE LET top == CHOOSE g \in Goals : \A h \in Goals : Above(g, h, ages)
       IN  IF Due(top, ages) THEN top ELSE NoGoal

(***************************************************************************)
(* build_exploration_context                                               *)
(***************************************************************************)

Scoped(goal) == SelectSeq(runs, LAMBDA r : r.status = "completed" /\ r.goal = goal)

(* The step of a history without a cursor depends on the lanes of the feed: *)
(* two familiar slots to one of each exploratory lane.                      *)
Bootstrap == {0, 1, 3}

(* Completed runs without stored items at the head of the history, of five. *)
QuietRuns(completed) ==
  LET head == SubSeq(completed, 1, Min({5, Len(completed)}))
      loud == {i \in DOMAIN head : head[i].stored # 0}
  IN  IF loud = {} THEN Len(head) ELSE Min(loud) - 1

(* Mutant: two quiet runs skip the next step whatever its lane.             *)
StepsAnyLane(goal) ==
  LET completed == Scoped(goal)
      cursors == SelectSeq(completed, LAMBDA r : r.step # NoStep)
      next == IF cursors = <<>> THEN Bootstrap ELSE {(Head(cursors).step + 1) % 4}
  IN  {IF QuietRuns(completed) >= 2 THEN (s + 1) % 4 ELSE s : s \in next}

(* The steps a run on goal may be given.                                    *)
Steps(goal) ==
  LET completed == Scoped(goal)
      cursors == SelectSeq(completed, LAMBDA r : r.step # NoStep)
      next == IF cursors = <<>> THEN Bootstrap ELSE {(Head(cursors).step + 1) % 4}
  IN  {IF QuietRuns(completed) >= 2 /\ Lane(s) = "known" THEN (s + 1) % 4 ELSE s :
         s \in next}

(***************************************************************************)
(* Actions                                                                 *)
(***************************************************************************)

(* A history may come from a version that recorded no cursor.               *)
RotationInit ==
  /\ runs \in {<<>>, <<[goal |-> NoGoal, status |-> "completed", step |-> NoStep,
                        stored |-> 1]>>}
  /\ age = [g \in Goals |-> Never] /\ picked = NoGoal

Aged(dt) ==
  [g \in Goals |-> IF age[g] = Never THEN Never ELSE Min({age[g] + dt, MaxAge})]

UpsertRun(run) == runs' = SubSeq(<<run>> \o runs, 1, Min({MaxRuns, Len(runs) + 1}))

(* mark_goal_run follows the dispatch fence.                                *)
MarkGoal(goal, ages) == age' = [g \in Goals |-> IF g = goal THEN 0 ELSE ages[g]]

(* The next slot is due and its run reaches the backend.                    *)
ScheduledRun(dt, status, stored) ==
  LET goal == SelectScheduledGoal(Aged(dt))
  IN  /\ \E step \in Steps(goal) :
           UpsertRun([goal |-> goal, status |-> status, step |-> step,
                      stored |-> stored])
      /\ MarkGoal(goal, Aged(dt))
      /\ picked' = goal

Dispatch ==
  \E dt \in Slots : \/ \E n \in {0, 1} : ScheduledRun(dt, "completed", n)
                   \/ ScheduledRun(dt, "failed", 0)

(* A run that fails before dispatch leaves its goal unmarked.               *)
FailedBeforeDispatch ==
  /\ UpsertRun([goal |-> SelectScheduledGoal(age), status |-> "failed",
                step |-> NoStep, stored |-> 0])
  /\ UNCHANGED <<age, picked>>

RotationNext == Dispatch \/ FailedBeforeDispatch

RotationSpec == RotationInit /\ [][RotationNext]_rotationVars

(* Slots keep coming due, and not every run fails before its dispatch.      *)
RotationFairness == WF_rotationVars(Dispatch)

RotationFairSpec == RotationSpec /\ RotationFairness

(***************************************************************************)
(* Properties                                                              *)
(***************************************************************************)

(* In the retained history of one objective no exploratory lane is ever     *)
(* skipped between two successive completed runs, though quiet runs skip    *)
(* familiar steps, other goals and failures lie in between and old runs fall*)
(* out of the history (build_exploration_context).                          *)
NoLaneSkipped ==
  \A goal \in Goals \cup {NoGoal} :
    LET done == SelectSeq(Scoped(goal), LAMBDA r : r.step # NoStep)
    IN  \A i \in DOMAIN done \ {Len(done)} :
          LET old == done[i + 1].step
              new == done[i].step
          IN  \/ new = (old + 1) % 4
              \/ new = (old + 2) % 4 /\ Lane((old + 1) % 4) = "known"

(* Every active goal is worked on again and again, whatever the priorities  *)
(* and cadences of the others (select_scheduled_goal).                      *)
NoGoalStarves == \A g \in Goals : []<>(picked = g)
=============================================================================
