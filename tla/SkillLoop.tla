----------------------------- MODULE SkillLoop -----------------------------
(***************************************************************************)
(* The automatic improvement loop of a skill with scripted helpers: up to  *)
(* max_rounds proposals, each applied in a worktree, measured by the       *)
(* frozen judge on public and held-out cases, and committed on the         *)
(* candidate branch or swapped back.                                       *)
(*   tools/skill-loop/loop.py, tools/skill-eval/gate.py, evaluate.py       *)
(* The judge's files, its frozen measurements (baseline.json and           *)
(* reference.json) and the public cases can change at any time, a hook can *)
(* rewrite a candidate, a measurement can fail to run, and the loop can    *)
(* die.  A text is the set of edits applied to the skill; a measurement is *)
(* the set of cases that pass.                                             *)
(***************************************************************************)
EXTENDS Integers, Sequences, FiniteSets

CONSTANTS
    LoopIdeas,     \* idea keys
    Cases,         \* public cases
    MaxRounds,     \* --max-rounds, at most POLICY["max_rounds"]
    MaxLoopRuns,   \* bound: runs of the loop
    MaxInterventions \* bound: changes behind the loop's back

VARIABLES
    engine,     \* version of the judge's code and held-out cases
    cases,      \* version of the public cases and of the container image
    baseline,   \* baseline.json: the inputs it was measured on, committed or not
    reference,  \* reference.json: likewise, with the cases that passed
    log,        \* the hash-chained round history: its rows
    run,        \* the run in progress
    swapped,    \* history: in this run the judge was replaced and put back
    loopRuns,   \* number of runs so far
    interventions \* number of changes so far

loopVars == <<engine, cases, baseline, reference, log, run, swapped, loopRuns, interventions>>

ASSUME LoopAssumption == MaxRounds \in Nat /\ IsFiniteSet(Cases)

Frozen(inputs, passed) == [inputs |-> inputs, passed |-> passed, committed |-> TRUE]

LoopMissing == [inputs |-> "none"]

\* fingerprint(): every file of tools/skill-eval, the measurements included.
Fingerprint == <<engine, baseline, reference>>

Resting == [stage |-> "idle"]

\* A fingerprint does not tell a judge that was put back from one that stayed.
Watched == swapped' = (swapped \/ (run # Resting /\ Fingerprint # run.identity
                                   /\ Fingerprint' = run.identity))

----------------------------------------------------------------------------
(* evaluate.py                                                             *)

\* What a paired run is compared with: both measurements committed, and made
\* on the inputs of this run.
Comparable == \A m \in {baseline, reference} :
                 m # LoopMissing /\ m.committed /\ m.inputs = cases

\* The report of a public run: a case that passed in the reference and fails
\* now, or an absent case that drifted from the baseline, is a regression.
Report(passed, drift) ==
    [score  |-> Cardinality(passed),
     inputs |-> cases,
     pass   |-> reference.passed \subseteq passed /\ ~drift]

\* Writing a frozen measurement refuses to overwrite one.
RecordBaseline ==
    /\ interventions < MaxInterventions
    /\ baseline = LoopMissing
    /\ baseline' = [inputs |-> cases, passed |-> {}, committed |-> FALSE]
    /\ interventions' = interventions + 1
    /\ UNCHANGED <<engine, cases, reference, log, run, loopRuns>>
    /\ Watched

\* The reference is measured against a committed baseline of the same inputs.
RecordReference(passed) ==
    /\ interventions < MaxInterventions
    /\ reference = LoopMissing
    /\ baseline # LoopMissing /\ baseline.committed /\ baseline.inputs = cases
    /\ reference' = [inputs |-> cases, passed |-> passed, committed |-> FALSE]
    /\ interventions' = interventions + 1
    /\ UNCHANGED <<engine, cases, baseline, log, run, loopRuns>>
    /\ Watched

\* The evaluator's reviewer commits, removes or changes what belongs to the
\* judge.
Curate ==
    /\ interventions < MaxInterventions
    /\ interventions' = interventions + 1
    /\ \/ /\ baseline # LoopMissing
          /\ baseline' = [baseline EXCEPT !.committed = TRUE]
          /\ UNCHANGED <<engine, cases, reference>>
       \/ /\ reference # LoopMissing
          /\ reference' = [reference EXCEPT !.committed = TRUE]
          /\ UNCHANGED <<engine, cases, baseline>>
       \/ /\ baseline' = LoopMissing
          /\ reference' = LoopMissing
          /\ UNCHANGED <<engine, cases>>
       \/ /\ engine' = engine + 1
          /\ UNCHANGED <<cases, baseline, reference>>
       \/ /\ cases' = 1 - cases
          /\ UNCHANGED <<engine, baseline, reference>>
    /\ UNCHANGED <<log, run, loopRuns>>
    /\ Watched

----------------------------------------------------------------------------
(* loop.run                                                                *)

Judge == <<engine, cases, baseline, reference, swapped>>

\* A run starts from a clean repository with the judge's fingerprint and the
\* ideas the history has rejected.
StartRun ==
    /\ run = Resting
    /\ loopRuns < MaxLoopRuns
    /\ loopRuns' = loopRuns + 1 /\ swapped' = FALSE
    /\ run' = [stage |-> "next", identity |-> Fingerprint, number |-> 0,
               rejected |-> {row.idea : row \in {q \in log :
                                q.decision \in {"reverted", "rejected"}}},
               noGain |-> 0, previous |-> [score |-> -1],
               first |-> [score |-> -1], branch |-> <<>>, work |-> {},
               idea |-> "none", after |-> [score |-> -1], gain |-> 0]
    /\ UNCHANGED <<engine, cases, baseline, reference, log, interventions>>

LogRow(decision) == log' = log \cup {[idea |-> run.idea, decision |-> decision]}

\* The text of the branch: what the rounds so far have committed.
Committed == IF run.branch = <<>> THEN {} ELSE run.branch[Len(run.branch)].text

\* The run ends; its branch stays for whoever reads the result.
Stop(decision) ==
    /\ run' = [run EXCEPT !.stage = "stopped", !.work = Committed]
    /\ LogRow(decision)
    /\ UNCHANGED <<Judge, loopRuns, interventions>>

\* A proposal is validated: one outside the automatic surface, or with a new
\* execution capability, waits for a human; an idea of the rejected buffer
\* ends the run.  The first one also gets the worktree and its measurement.
NextProposal(idea) ==
    /\ run # Resting
    /\ run.stage = "next"
    /\ run.number < MaxRounds
    /\ IF idea \in run.rejected
       THEN /\ run' = [run EXCEPT !.stage = "stopped"]
            /\ log' = log \cup {[idea |-> idea, decision |-> "rejected"]}
            /\ UNCHANGED <<Judge, loopRuns, interventions>>
       ELSE /\ run' = [run EXCEPT !.number = @ + 1, !.idea = idea,
                          !.stage = IF run.previous.score = -1 THEN "previous" ELSE "edit"]
            /\ UNCHANGED <<Judge, log, loopRuns, interventions>>

InvalidProposal(idea, decision) ==
    /\ run # Resting
    /\ run.stage = "next"
    /\ run.number < MaxRounds
    /\ run' = [run EXCEPT !.stage = "stopped"]
    /\ log' = log \cup {[idea |-> idea, decision |-> decision]}
    /\ UNCHANGED <<Judge, loopRuns, interventions>>

\* The list of proposals is exhausted, or max_rounds is reached.
Exhausted ==
    /\ run # Resting
    /\ run.stage = "next"
    /\ run' = [run EXCEPT !.stage = "stopped"]
    /\ UNCHANGED <<Judge, log, loopRuns, interventions>>

\* gate.evaluate of the untouched worktree.
MeasurePrevious ==
    /\ run # Resting
    /\ run.stage = "previous"
    /\ \/ /\ Comparable
          /\ \E passed \in SUBSET Cases, drift \in BOOLEAN :
                run' = [run EXCEPT !.stage = "edit", !.previous = Report(passed, drift),
                                   !.first = Report(passed, drift)]
          /\ UNCHANGED <<Judge, log, loopRuns, interventions>>
       \/ Stop("rejected")

\* The edits are written; code with a new capability, an edit that changes
\* nothing, a hook that fails or rewrites the candidate, and a changed judge
\* end the run with the snapshot back in place.
ApplyEdit ==
    /\ run # Resting
    /\ run.stage = "edit"
    /\ \/ /\ run.idea \notin run.work
          /\ Fingerprint = run.identity
          /\ run' = [run EXCEPT !.stage = "after", !.work = @ \cup {run.idea}]
          /\ UNCHANGED <<Judge, log, loopRuns, interventions>>
       \/ \E decision \in {"rejected", "review_required"} : Stop(decision)

LoopMeasureAfter ==
    /\ run # Resting
    /\ run.stage = "after"
    /\ \/ /\ Comparable
          /\ \E passed \in SUBSET Cases, drift \in BOOLEAN :
                run' = [run EXCEPT !.stage = "heldout", !.after = Report(passed, drift)]
          /\ UNCHANGED <<Judge, log, loopRuns, interventions>>
       \/ Stop("rejected")

Gain == run.after.score - run.previous.score

\* Mutant: the held-out suite is measured and recorded, but not asked for.
EarnedInPublic(heldout) == run.after.pass /\ Gain >= 1

\* POLICY["min_gain"] is 1; every held-out case must pass.
Earned(heldout) == run.after.pass /\ heldout /\ Gain >= 1

\* The held-out suite has run and the judge is still the frozen one: the
\* candidate is committed, or its snapshot is written back.
DecideRound(heldout) ==
    /\ run # Resting
    /\ run.stage = "heldout"
    /\ Fingerprint = run.identity
    /\ LET earned == Earned(heldout)
           none   == IF earned THEN 0 ELSE run.noGain + 1
       IN /\ run' = [run EXCEPT
                 !.branch = IF earned
                            THEN Append(@, [text |-> run.work, heldout |-> heldout,
                                            before |-> run.previous,
                                            after |-> run.after])
                            ELSE @,
                 !.gain = IF earned THEN @ + Gain ELSE @,
                 !.previous = IF earned THEN run.after ELSE @,
                 !.work = IF earned THEN @ ELSE Committed,
                 !.rejected = IF earned THEN @ ELSE @ \cup {run.idea},
                 !.noGain = none,
                 !.stage = IF Gain < 1 \/ none >= 2 THEN "stopped" ELSE "next"]
          /\ LogRow(IF earned THEN "accepted" ELSE "reverted")
    /\ UNCHANGED <<Judge, loopRuns, interventions>>

\* The held-out measurement did not run, or the judge has changed meanwhile.
HeldoutInvalid ==
    /\ run # Resting
    /\ run.stage = "heldout"
    /\ Stop("rejected")

\* The result is printed, or the process dies: either way the next run starts
\* from the repository, not from this branch.
RunOver ==
    /\ run # Resting
    /\ run' = Resting
    /\ UNCHANGED <<Judge, log, loopRuns, interventions>>

LoopInit ==
    /\ engine = 0
    /\ cases = 0
    /\ baseline = Frozen(0, {})
    /\ reference \in {LoopMissing} \cup {Frozen(0, passed) : passed \in SUBSET Cases}
    /\ log = {}
    /\ run = Resting /\ swapped = FALSE
    /\ loopRuns = 0
    /\ interventions = 0

LoopNext ==
    \/ RecordBaseline
    \/ \E passed \in SUBSET Cases : RecordReference(passed)
    \/ Curate
    \/ StartRun
    \/ \E idea \in LoopIdeas :
          \/ NextProposal(idea)
          \/ \E decision \in {"rejected", "review_required"} :
                InvalidProposal(idea, decision)
    \/ Exhausted
    \/ MeasurePrevious
    \/ ApplyEdit
    \/ LoopMeasureAfter
    \/ \E heldout \in BOOLEAN : DecideRound(heldout)
    \/ HeldoutInvalid
    \/ RunOver

LoopSpec == LoopInit /\ [][LoopNext]_loopVars

----------------------------------------------------------------------------
\* Whatever happens to the judge while the loop measures: every commit of the
\* branch scores higher than the one before, on the same public cases (unless
\* the judge was replaced and then put back bit by bit), without a regression
\* and with the held-out suite passing; the reported gain is the
\* distance from the first measurement to the last; a rejected idea is neither
\* in the branch nor in the worktree of a later round; and a run takes at most
\* max_rounds rounds.
LoopEarnsItsCommits ==
    run # Resting =>
        /\ run.number <= MaxRounds
        /\ \A i \in DOMAIN run.branch :
              LET c == run.branch[i]
              IN /\ c.heldout
                 /\ c.after.pass
                 /\ c.after.score > c.before.score
                 /\ swapped \/ c.after.inputs = c.before.inputs
                 /\ c.before = IF i = 1 THEN run.first ELSE run.branch[i - 1].after
        /\ run.gain = IF run.branch = <<>> THEN 0
                      ELSE run.previous.score - run.first.score
        /\ run.stage \in {"next", "stopped"} => run.work = Committed
        /\ Committed \cap run.rejected = {}
=============================================================================
