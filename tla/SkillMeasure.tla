---------------------------- MODULE SkillMeasure ---------------------------
(***************************************************************************)
(* The measurement of a maintenance skill: a model works on every fixture  *)
(* of a public and a held-out suite without and with the skill, turn by    *)
(* turn, and a fixed judge grades the files and processes it left behind.  *)
(*   tools/skill-eval/maintenance/{actor,judge,run,common,sandbox}.py,     *)
(*   tools/skill-eval/maintenance_bridge.py                                *)
(* A fixture has a component (0 as delivered, 1 a wrong fix, 2 the fix) and *)
(* tests (0 as delivered, 1 with a regression test).                       *)
(***************************************************************************)
EXTENDS Naturals, Sequences, FiniteSets

CONSTANTS
    PublicOrder,   \* cases of the public suite, in file order
    HeldoutOrder,  \* cases of the held-out suite
    MaxSteps,      \* model.json: turns of one episode
    MaxMeasures,   \* bound: measurements
    MaxShifts      \* bound: changes of the judge or of the skill

VARIABLES
    judge,     \* identity() of the judge, its cases, image and model
    skillText, \* version of the skill's Markdown
    frozen,    \* baseline.json and reference.json
    measure,   \* the measurement in progress
    episode,   \* the episode in progress
    report,    \* the last report written
    measures,  \* number of measurements so far
    shifts     \* number of changes so far

measureVars == <<judge, skillText, frozen, measure, episode, report, measures, shifts>>

MeasureNoFile == [mode |-> "none"]

MeasureQuiet == [mode |-> "idle"]

NoEpisode == [step |-> 0]

\* The episodes of a suite in the order of run(): the public cases first, and
\* every case without the skill first.
Episodes(mode) ==
    LET cases == PublicOrder \o HeldoutOrder
    IN IF mode = "baseline"
       THEN [i \in 1..Len(cases) |-> <<cases[i], "absent">>]
       ELSE [i \in 1..2 * Len(cases) |->
                <<cases[(i + 1) \div 2], IF i % 2 = 1 THEN "absent" ELSE "installed">>]

PublicCases == {PublicOrder[i] : i \in DOMAIN PublicOrder}

HeldoutCases == {HeldoutOrder[i] : i \in DOMAIN HeldoutOrder}

ASSUME MeasureAssumption ==
    PublicOrder \in Seq(PublicCases) /\ HeldoutOrder \in Seq(HeldoutCases)

SuiteCases == PublicCases \cup HeldoutCases

Fixture == [component |-> 0, tests |-> 0]

\* execute(unit): the delivered tests accept everything, a regression test
\* accepts only the fix; probe: only the fix behaves as expected.
UnitPasses(files) == files.tests = 0 \/ files.component = 2

ProbesPass(files) == files.component = 2

----------------------------------------------------------------------------
(* run(): which measurements may start                                     *)

\* A frozen file counts when it is committed and was made with these inputs.
MeasureUsable(file) == file # MeasureNoFile /\ file.committed /\ file.judge = judge

MayStart(mode) ==
    /\ mode \in {"baseline", "reference"} => frozen[mode] = MeasureNoFile
    /\ mode # "baseline" => MeasureUsable(frozen["baseline"])
    /\ mode = "run" => MeasureUsable(frozen["reference"])

BeginMeasure(mode) ==
    /\ measure = MeasureQuiet
    /\ measures < MaxMeasures
    /\ episode = NoEpisode
    /\ MayStart(mode)
    /\ measure' = [mode |-> mode, judge |-> judge, skill |-> skillText,
                   todo |-> Episodes(mode), passed |-> {}]
    /\ measures' = measures + 1
    /\ UNCHANGED <<judge, skillText, frozen, episode, report, shifts>>

\* maintenance_bridge: a candidate identical to the passing reference is not
\* measured again.
ReuseReference ==
    /\ measure = MeasureQuiet
    /\ measures < MaxMeasures
    /\ episode = NoEpisode
    /\ MeasureUsable(frozen["reference"])
    /\ frozen["reference"].pass
    /\ frozen["reference"].skill = skillText
    /\ report' = frozen["reference"]
    /\ measures' = measures + 1
    /\ UNCHANGED <<judge, skillText, frozen, measure, episode, shifts>>

----------------------------------------------------------------------------
(* perform(): one episode.  What it leads to depends on nothing but itself, *)
(* so its turns are explored on their own, before any measurement; inside a *)
(* measurement an episode is its grade (EpisodeGraded).                     *)

BeginEpisode ==
    /\ episode = NoEpisode
    /\ measures = 0 /\ shifts = 0
    /\ episode' = [step |-> 1, files |-> Fixture, trace |-> <<>>, graded |-> "no"]
    /\ UNCHANGED <<judge, skillText, frozen, measure, report, measures, shifts>>

\* A turn: a file is replaced, or the unit check is executed and its outcome
\* observed.
TakeTurn(op, next) ==
    /\ episode # NoEpisode
    /\ episode.graded = "no"
    /\ episode.step <= MaxSteps
    /\ episode' = [episode EXCEPT !.step = @ + 1, !.files = next,
                       !.trace = Append(@, [op |-> op, files |-> next])]
    /\ UNCHANGED <<judge, skillText, frozen, measure, report, measures, shifts>>

WriteFile(name, version) ==
    /\ episode # NoEpisode
    /\ episode.files[name] # version
    /\ TakeTurn("write", [episode.files EXCEPT ![name] = version])

RunCheck ==
    /\ episode # NoEpisode
    /\ TakeTurn("run", episode.files)

\* The turns of the episode that ran the check.
MeasureRuns == {i \in DOMAIN episode.trace : episode.trace[i].op = "run"}

RunFiles(i) == episode.trace[i].files

\* The final claims: every run with its exit code, or a run left out.
Claims == {MeasureRuns, {}}

\* Mutant: a passing run of the final files is enough, whenever it was.
VerifiedInAnyOrder(runs, files) ==
    \E i \in runs, j \in runs :
        /\ RunFiles(i).component = Fixture.component /\ ~UnitPasses(RunFiles(i))
        /\ UnitPasses(RunFiles(j))

\* A failing run of the delivered component is followed by a passing run of
\* exactly the final files.
VerifiedWorkspace(runs, files) ==
    \E i \in runs, j \in runs :
        /\ i < j
        /\ RunFiles(i).component = Fixture.component /\ ~UnitPasses(RunFiles(i))
        /\ RunFiles(j) = files /\ UnitPasses(RunFiles(j))

\* grade(): five assertions on the files, the processes and the claims.
Grade(claims, named) ==
    LET files == episode.files
    IN /\ ProbesPass(files)
       /\ VerifiedWorkspace(MeasureRuns, files)
       /\ ~UnitPasses([files EXCEPT !.component = Fixture.component])
       /\ UnitPasses(files)
       /\ claims = MeasureRuns
       /\ named

\* The model says it is done, or the turns are used up, which leaves no final
\* response to be truthful; the judge grades what it finds.
FinishEpisode(claims, named) ==
    /\ episode # NoEpisode
    /\ episode.graded = "no"
    /\ LET pass == episode.step <= MaxSteps /\ Grade(claims, named)
       IN episode' = [episode EXCEPT !.graded = IF pass THEN "pass" ELSE "fail"]
    /\ UNCHANGED <<judge, skillText, frozen, measure, report, measures, shifts>>

NextEpisode ==
    /\ episode # NoEpisode
    /\ episode.graded # "no"
    /\ episode' = NoEpisode
    /\ UNCHANGED <<judge, skillText, frozen, measure, report, measures, shifts>>

\* The episodes of the measurement are performed and graded one by one.
EpisodeGraded(pass) ==
    /\ measure # MeasureQuiet
    /\ measure.todo # <<>>
    /\ measure' = [measure EXCEPT !.todo = Tail(@),
                       !.passed = IF pass THEN @ \cup {Head(measure.todo)} ELSE @]
    /\ UNCHANGED <<judge, skillText, frozen, episode, report, measures, shifts>>

\* An invalid response, a native tool call, a failed container or a crash:
\* nothing is measured.
AbortMeasure ==
    /\ measure # MeasureQuiet
    /\ measure' = MeasureQuiet
    /\ UNCHANGED <<judge, skillText, frozen, episode, report, measures, shifts>>

----------------------------------------------------------------------------
(* run(): the report                                                       *)

AbsentPassed == {c \in SuiteCases : <<c, "absent">> \in measure.passed}

InstalledPassed == {c \in SuiteCases : <<c, "installed">> \in measure.passed}

\* Drift of the absent outcomes from the baseline, a case the skill breaks, a
\* failed held-out case, and a public case the reference passed.
Regressed ==
    \/ measure.mode # "baseline" /\
         \/ AbsentPassed # frozen["baseline"].absent
         \/ ~(HeldoutCases \subseteq InstalledPassed)
         \/ ~(AbsentPassed \cap PublicCases \subseteq InstalledPassed)
    \/ measure.mode = "run" /\
         ~(frozen["reference"].installed \cap PublicCases \subseteq InstalledPassed)

\* A judge or a skill that changed on the way makes the comparison invalid.
EndMeasure ==
    /\ measure # MeasureQuiet
    /\ measure.todo = <<>>
    /\ IF judge # measure.judge \/ skillText # measure.skill
       THEN UNCHANGED <<report, frozen>>
       ELSE LET file == [mode |-> measure.mode, judge |-> measure.judge,
                         skill |-> measure.skill, absent |-> AbsentPassed,
                         installed |-> InstalledPassed, committed |-> FALSE,
                         pass |-> measure.mode # "baseline" /\ ~Regressed]
            IN IF measure.mode = "run"
               THEN report' = file /\ UNCHANGED frozen
               ELSE frozen' = [frozen EXCEPT ![measure.mode] = file] /\ UNCHANGED report
    /\ measure' = MeasureQuiet
    /\ UNCHANGED <<judge, skillText, episode, measures, shifts>>

\* Somebody commits a frozen file, or changes the judge or the skill.
CommitFrozen(mode) ==
    /\ frozen[mode] # MeasureNoFile
    /\ ~frozen[mode].committed
    /\ frozen' = [frozen EXCEPT ![mode].committed = TRUE]
    /\ UNCHANGED <<judge, skillText, measure, episode, report, measures, shifts>>

Shift ==
    /\ shifts < MaxShifts
    /\ episode = NoEpisode
    /\ shifts' = shifts + 1
    /\ \/ judge' = judge + 1 /\ UNCHANGED skillText
       \/ skillText' = skillText + 1 /\ UNCHANGED judge
    /\ UNCHANGED <<frozen, measure, episode, report, measures>>

MeasureInit ==
    /\ judge = 0
    /\ skillText = 0
    /\ frozen = [m \in {"baseline", "reference"} |-> MeasureNoFile]
    /\ measure = MeasureQuiet
    /\ episode = NoEpisode
    /\ report = MeasureNoFile
    /\ measures = 0
    /\ shifts = 0

MeasureNext ==
    \/ \E mode \in {"baseline", "reference", "run"} : BeginMeasure(mode)
    \/ ReuseReference
    \/ BeginEpisode
    \/ \E v \in 0..2 : WriteFile("component", v)
    \/ \E v \in 0..1 : WriteFile("tests", v)
    \/ RunCheck
    \/ /\ episode # NoEpisode
       /\ \E claims \in Claims, named \in BOOLEAN : FinishEpisode(claims, named)
    \/ NextEpisode
    \/ \E pass \in BOOLEAN : EpisodeGraded(pass)
    \/ AbortMeasure
    \/ EndMeasure
    \/ \E mode \in {"baseline", "reference"} : CommitFrozen(mode)
    \/ Shift

MeasureSpec == MeasureInit /\ [][MeasureNext]_measureVars

----------------------------------------------------------------------------
\* An episode that passes reproduced the failure on the delivered component
\* with a regression test, then ran the same check on the files it finally
\* left, and changed nothing afterwards that it did not change back.
EpisodeProven ==
    episode # NoEpisode /\ episode.graded = "pass" =>
        \E i, j \in DOMAIN episode.trace :
            /\ i < j
            /\ episode.trace[i] = [op |-> "run",
                                   files |-> [component |-> 0, tests |-> 1]]
            /\ episode.trace[j] = [op |-> "run", files |-> episode.files]
            /\ episode.files = [component |-> 2, tests |-> 1]

\* A passing report compares like with like: the baseline and the reference it
\* was compared with have its judge and, case by case, its outcomes without
\* the skill; every held-out case passes with the skill, and so does every
\* public case that passes without it or passed in the reference.
ReportComparable ==
    report # MeasureNoFile /\ report.pass =>
        /\ HeldoutCases \subseteq report.installed
        /\ report.absent \cap PublicCases \subseteq report.installed
        /\ \A m \in {"baseline", "reference"} :
              /\ frozen[m] # MeasureNoFile
              /\ frozen[m].judge = report.judge
              /\ m = "baseline" => frozen[m].absent = report.absent
              /\ frozen[m].installed \cap PublicCases \subseteq report.installed

\* Both together: what the loop and the owner are shown as a measurement.
MeasurementsHonest == EpisodeProven /\ ReportComparable
=============================================================================
