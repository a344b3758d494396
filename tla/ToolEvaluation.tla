---------------------------- MODULE ToolEvaluation ----------------------------
(***************************************************************************)
(* The checks a candidate backend must pass on synthetic tasks: the paired *)
(* evaluation of two images (evaluation/tool-correctness: run.py with      *)
(* experiment.py and gateway.py), the frozen cases against a live backend  *)
(* (live.py), and the acceptance of a research answer (research.py).       *)
(* The gateway, the backends and the route configuration go on by          *)
(* themselves between any two steps of the harness.                        *)
(***************************************************************************)
EXTENDS Naturals, Sequences, FiniteSets, SequencesExt, Functions

CONSTANTS
  Cases,        \* the cases: stratum, expected calls, unordered
  Workload, Repetitions, \* the cases of a suite in order
  Overlays,     \* workflow overlays the operator may give an arm
  Streams,      \* what a backend may send for a request
  HeardEvents, MaxHeard,   \* events of one request that is followed closely
  MaxModelCalls, MaxDrifts, \* calls through the gateway, changes of the route
  PerStratum, LiveStrata, LiveRepetitions, \* the live cases
  ErrorClasses, \* classes of transport failures
  Sources, MissingSource, Reads, MaxReads \* of a research task

VARIABLES
  harness,  \* the check this behaviour is about
  suite,    \* stage of the paired evaluation
  attempt,  \* number of the attempt at hand, counted over both arms
  route, frozenRoute, \* the gateway's routes now, and as frozen
  noted,     \* the gateway's records: the attempt each call was made for
  firstRow, \* how many there were when the attempt began
  lingering, \* attempts the client gave up, whose backend may go on
  runs,     \* per arm, the results
  logged,   \* attempts in attempts.jsonl
  bundle,   \* per arm, the attempts of its written bundle
  outcome,  \* exit of the harness
  routesSeen, \* history: routes in force as each attempt began and ended
  drifts,
  heard,    \* events of one request, or reads of one research answer
  live      \* the live suite

pairedVars == <<suite, attempt, route, frozenRoute, noted, firstRow, lingering, runs,
                logged, bundle, outcome, routesSeen, drifts>>
evaluationVars == <<harness, pairedVars, heard, live>>
-----------------------------------------------------------------------------
(* What a request is judged by.  An event starts or ends a call: its id,     *)
(* the tool with its arguments, whether its parent is the request, whether   *)
(* its payload says that something is missing or carries the identifier the  *)
(* next call uses.                                                           *)

CallsOf(events) == SelectSeq(events, LAMBDA e : e.start)
ResultsOf(events) == SelectSeq(events, LAMBDA e : ~e.start)
Observed(events) == [i \in DOMAIN CallsOf(events) |-> CallsOf(events)[i].tool]

TimesCalled(tool, tools) == Cardinality({i \in DOMAIN tools : tools[i] = tool})

\* The expected calls, in their order where it matters.
Selected(case, events) ==
  LET observed == Observed(events) IN
  IF case.unordered
  THEN \A t \in Range(observed) \cup Range(case.calls) :
         TimesCalled(t, observed) = TimesCalled(t, case.calls)
  ELSE observed = case.calls

\* As many results as calls, under distinct ids; each call has a result.
BoundCalls(events) ==
  LET calls == CallsOf(events)
      results == ResultsOf(events) IN
  /\ Len(calls) = Len(results)
  /\ \A i, j \in DOMAIN calls : calls[i].id = calls[j].id => i = j
  /\ \A i \in DOMAIN calls : calls[i].mine /\ \E j \in DOMAIN results :
       results[j].mine /\ results[j].id = calls[i].id

BoundRight(case, events) ==
  LET results == ResultsOf(events) IN
  /\ BoundCalls(events)
  /\ case.stratum = "dependent" => results # <<>> /\ results[1].carries
  /\ case.stratum = "error" => results # <<>> /\ results[1].missing
  /\ case.stratum = "stages" =>
       /\ Len(events) = 2 * Len(case.calls)
       /\ \A i \in DOMAIN case.calls :
            /\ events[2 * i - 1].start /\ ~events[2 * i].start
            /\ events[2 * i - 1].id = events[2 * i].id
       /\ results # <<>> /\ Last(results).missing

\* A fresh timestamp is part of the binding of a clock case; it is also the
\* answer expected of it, when there is just one.
Correct(case, s) ==
  /\ Selected(case, s.events) /\ BoundRight(case, s.events)
  /\ case.stratum = "clock" => s.fresh

Succeeds(case, s) ==
  /\ s.failure = "none" /\ s.terminal = <<"stop">> /\ Correct(case, s)
  /\ s.answer = "right"
  /\ case.stratum = "clock" => Len(ResultsOf(s.events)) = 1

\* A tool the case does not name at all.
Unexpected(case, s) ==
  \E t \in Range(Observed(s.events)) : t[1] \notin {u[1] : u \in Range(case.calls)}
-----------------------------------------------------------------------------
(* The paired evaluation.                                                   *)

EvaluationArms == {"baseline", "candidate"}
Attempts == 2 * Len(Workload) * Repetitions

\* The arms take turns at going first.
Pair(n) == (n - 1) \div 2
RepetitionOf(n) == (Pair(n) \div Len(Workload)) + 1
CaseOf(n) == (Pair(n) % Len(Workload)) + 1
ArmOf(n) ==
  LET baselineFirst == ((Pair(n) % Len(Workload)) + RepetitionOf(n)) % 2 = 1
  IN  IF (n % 2 = 1) = baselineFirst THEN "baseline" ELSE "candidate"

Bounds ==
  [max_iterations |-> 1..128, max_history |-> 1..100, max_history_tokens |-> 1000..200000,
   tool_output_compaction_min_chars |-> 1000..4000000,
   tool_output_compaction_max_items |-> 1..100,
   tool_output_compaction_min_savings_chars |-> 0..4000000,
   tool_output_compaction_max_original_chars |-> 1000..4000000,
   tool_output_cache_ttl_seconds |-> 1800..86400]
Flags == {"parallel_tool_calls", "tool_output_compaction_enabled"}

\* Only listed fields of the workflow, within their bounds.
OverlayAccepted(o) ==
  \A f \in DOMAIN o : f \in Flags \/ (f \in DOMAIN Bounds /\ o[f] \in Bounds[f])

NotWritten == {0}

PairedInit ==
  /\ suite = "prepare" /\ attempt = 1 /\ route = 1 /\ frozenRoute = 0
  /\ noted = <<>> /\ firstRow = 0 /\ lingering = {}
  /\ runs = [a \in EvaluationArms |-> <<>>] /\ logged = {}
  /\ bundle = [a \in EvaluationArms |-> NotWritten]
  /\ outcome = "none" /\ routesSeen = {} /\ drifts = 0

\* The inputs are read and frozen before anything is started; a refused
\* overlay or unreadable routes end the run.
PrepareSuite(overlays) ==
  /\ suite = "prepare"
  /\ \/ /\ \A a \in EvaluationArms : OverlayAccepted(overlays[a])
        /\ frozenRoute' = route /\ suite' = "baseline" /\ outcome' = outcome
     \/ frozenRoute' = frozenRoute /\ suite' = "ended" /\ outcome' = "failed"
  /\ UNCHANGED <<attempt, route, noted, firstRow, lingering, runs, logged, bundle,
                 routesSeen, drifts>>

\* Each image is started, then both must become healthy.  An arm has a bundle
\* once its image is identified.
Launch(stage, next) ==
  /\ suite = stage
  /\ \/ /\ suite' = next
        /\ bundle' = IF stage \in EvaluationArms THEN [bundle EXCEPT ![stage] = {}] ELSE bundle
     \/ suite' = "finally" /\ UNCHANGED bundle
  /\ UNCHANGED <<attempt, route, frozenRoute, noted, firstRow, lingering, runs, logged,
                 outcome, routesSeen, drifts>>

\* require_stable_route.
StableRoute == route = frozenRoute

\* The suite's time may be up; the routes are compared before each attempt.
BeginAttempt ==
  /\ suite = "between" /\ attempt <= Attempts
  /\ \/ /\ StableRoute /\ suite' = "asking" /\ firstRow' = Len(noted)
        /\ routesSeen' = routesSeen \cup {<<attempt, route>>}
     \/ suite' = "finally" /\ UNCHANGED <<firstRow, routesSeen>>
  /\ UNCHANGED <<attempt, route, frozenRoute, noted, lingering, runs, logged, bundle,
                 outcome, drifts>>

\* The gateway notes a call as it arrives, in one list for both arms.
ModelCall(n) ==
  /\ n \in lingering \/ (suite = "asking" /\ n = attempt)
  /\ Len(noted) < MaxModelCalls /\ noted' = Append(noted, n)
  /\ UNCHANGED <<suite, attempt, route, frozenRoute, firstRow, lingering, runs, logged,
                 bundle, outcome, routesSeen, drifts>>

\* The result takes what the gateway noted since; it is kept before the routes
\* are compared again. A client that gives up does not stop the backend.
EndAttempt(s) ==
  LET case == Workload[CaseOf(attempt)]
      arm == ArmOf(attempt)
      result == [of |-> attempt, success |-> Succeeds(case, s), correct |-> Correct(case, s),
                 unexpected |-> Unexpected(case, s),
                 calls |-> Range(SubSeq(noted, firstRow + 1, Len(noted)))]
  IN  /\ suite = "asking" /\ suite' = "after"
      /\ runs' = [runs EXCEPT ![arm] = Append(@, result)]
      /\ logged' = logged \cup {attempt}
      /\ lingering' = IF s.failure = "none" THEN lingering ELSE lingering \cup {attempt}
      /\ UNCHANGED <<attempt, route, frozenRoute, noted, firstRow, bundle, outcome, routesSeen, drifts>>

\* A backend that was given up comes to its end.
ComesToItsEnd(n) ==
  /\ n \in lingering /\ lingering' = lingering \ {n}
  /\ UNCHANGED <<suite, attempt, route, frozenRoute, noted, firstRow, runs, logged, bundle,
                 outcome, routesSeen, drifts>>

\* Drift and an unexpected tool stop the suite.
CheckAfter ==
  /\ suite = "after"
  /\ routesSeen' = routesSeen \cup {<<attempt, route>>}
  /\ IF StableRoute /\ ~Last(runs[ArmOf(attempt)]).unexpected
     THEN suite' = "between" /\ attempt' = attempt + 1
     ELSE suite' = "finally" /\ attempt' = attempt
  /\ UNCHANGED <<route, frozenRoute, noted, firstRow, lingering, runs, logged, bundle,
                 outcome, drifts>>

\* However the suite ended, the bundles are written with what there is; the
\* gate is reached only at its regular end.
WriteBundles ==
  /\ suite = "finally" \/ (suite = "between" /\ attempt > Attempts)
  /\ suite' = "ended"
  /\ bundle' = [a \in EvaluationArms |-> IF bundle[a] = NotWritten THEN NotWritten
                               ELSE {runs[a][i].of : i \in DOMAIN runs[a]}]
  /\ outcome' = IF /\ suite = "between"
                   /\ Len(runs["candidate"]) = Len(Workload) * Repetitions
                   /\ \A r \in Range(runs["candidate"]) : r.success /\ r.correct /\ ~r.unexpected
                THEN "accepted" ELSE "failed"
  /\ UNCHANGED <<attempt, route, frozenRoute, noted, firstRow, lingering, runs, logged,
                 routesSeen, drifts>>

\* Somebody edits the routes, or puts them back.
Drift(version) ==
  /\ suite # "ended" /\ drifts < MaxDrifts /\ version # route
  /\ route' = version /\ drifts' = drifts + 1
  /\ UNCHANGED <<suite, attempt, frozenRoute, noted, firstRow, lingering, runs, logged,
                 bundle, outcome, routesSeen>>

PairedNext ==
  \/ \E overlays \in [EvaluationArms -> Overlays] : PrepareSuite(overlays)
  \/ Launch("baseline", "candidate") \/ Launch("candidate", "health")
  \/ Launch("health", "between")
  \/ BeginAttempt \/ \E s \in Streams : EndAttempt(s)
  \/ \E n \in 1..Attempts : ModelCall(n) \/ ComesToItsEnd(n)
  \/ CheckAfter \/ WriteBundles \/ \E version \in 1..2 : Drift(version)
-----------------------------------------------------------------------------
(* The live suite: every stratum in turn, backwards the second time.        *)

LiveCases == [stratum : 1..LiveStrata, index : 1..PerStratum]
LiveAttempts == LiveStrata * PerStratum * LiveRepetitions
LiveRepetition(n) == ((n - 1) \div (LiveStrata * PerStratum)) + 1
LiveCase(n) ==
  LET k == (n - 1) % (LiveStrata * PerStratum)
      i == (k \div LiveStrata) + 1
  IN  [stratum |-> (k % LiveStrata) + 1,
       index |-> IF LiveRepetition(n) = 2 THEN PerStratum + 1 - i ELSE i]

LiveInit ==
  live = [exit |-> "none", done |-> 0, passed |-> 0, last |-> "none", repeated |-> 0,
          tried |-> {}, spoiled |-> FALSE, errors |-> <<>>]

\* A request passed, failed an assertion or the transport, or used a tool it
\* must not, which fails it as well.
LiveResults ==
  {r \in [ok : BOOLEAN, error : ErrorClasses \cup {"none"}, unexpected : BOOLEAN] :
     r.ok => r.error = "none" /\ ~r.unexpected}

\* An unexpected tool and two failures of one class in a row stop the suite.
AttemptLive(r) ==
  LET n == live.done + 1
      again == IF r.error = "none" THEN 0 ELSE IF r.error = live.last THEN live.repeated + 1 ELSE 1
  IN  /\ live.exit = "none" /\ n <= LiveAttempts
      /\ live' = [exit |-> IF r.unexpected \/ again >= 2 THEN "failed" ELSE "none",
                  done |-> n, passed |-> live.passed + (IF r.ok THEN 1 ELSE 0),
                  last |-> r.error, repeated |-> again,
                  tried |-> live.tried \cup {<<LiveRepetition(n), LiveCase(n)>>},
                  spoiled |-> live.spoiled \/ ~r.ok,
                  errors |-> Append(IF Len(live.errors) = 3 THEN Tail(live.errors)
                                    ELSE live.errors, r.error)]

\* The time is up, or all attempts are made; only the latter can exit with 0.
LiveEnd ==
  /\ live.exit = "none"
  /\ live' = [live EXCEPT !.exit = IF live.done = LiveAttempts /\ live.passed = LiveAttempts
                                   THEN "passed" ELSE "failed"]

LiveNext ==
  \/ \E r \in LiveResults : AttemptLive(r)
  \/ LiveEnd
-----------------------------------------------------------------------------
(* A research answer: each read fetches a source or retrieves what a        *)
(* preview left out; what came back holds the labels of some sources.       *)

Fetches(reads) == SelectSeq(reads, LAMBDA r : r.tool = "webscrape")
SourcesFetched(reads) == {r.source : r \in Range(Fetches(reads))}

\* The source a reference stands for: of the last preview that gave it.
Gave(read, ref) ==
  read.tool = "webscrape" /\ read.source \in Sources /\ read.reference = ref
SourceFor(reads, k) ==
  LET gave == {i \in 1..(k - 1) : Gave(reads[i], reads[k].reference)} IN
  {reads[i].source : i \in {i \in gave : \A j \in gave : j <= i}}

\* Every source once, as previews without the label, and references seen before.
ReadsAuthorized(reads) ==
  \A k \in DOMAIN reads :
    IF reads[k].tool = "webscrape"
    THEN /\ \A j \in 1..(k - 1) : reads[j].tool = "webscrape" => reads[j].source # reads[k].source
         /\ reads[k].source # MissingSource =>
              reads[k].preview /\ reads[k].source \notin reads[k].labels
    ELSE SourceFor(reads, k) # {}

Recovered(reads) ==
  {u \in Sources : \E k \in DOMAIN reads :
     reads[k].tool = "retriever" /\ u \in SourceFor(reads, k) /\ u \in reads[k].labels}

AnswerAccepted(reads) ==
  /\ ReadsAuthorized(reads) /\ Recovered(reads) = Sources
  /\ SourcesFetched(reads) = Sources \cup {MissingSource}
  /\ \E r \in Range(Fetches(reads)) : r.source = MissingSource /\ r.error
-----------------------------------------------------------------------------
EvaluationInit ==
  /\ harness \in {"paired", "live", "request", "research"}
  /\ PairedInit /\ heard = <<>> /\ LiveInit

EvaluationRest == harness = "request"

\* A line of the response.
HearLine(event) ==
  /\ harness = "request" /\ Len(heard) < MaxHeard /\ heard' = Append(heard, event)
  /\ UNCHANGED <<pairedVars, live>>

\* Another read; one that is not authorized decides the answer's fate.
ReadSource(read) ==
  /\ harness = "research" /\ Len(heard) < MaxReads /\ ReadsAuthorized(heard)
  /\ heard' = Append(heard, read)
  /\ UNCHANGED <<pairedVars, live>>

EvaluationNext ==
  /\ harness' = harness
  /\ \/ harness = "paired" /\ PairedNext /\ UNCHANGED <<heard, live>>
     \/ harness = "live" /\ LiveNext /\ UNCHANGED <<pairedVars, heard>>
     \/ \E event \in HeardEvents : HearLine(event)
     \/ \E read \in Reads : ReadSource(read)
-----------------------------------------------------------------------------
(* A candidate is accepted only after both arms met every case in every     *)
(* repetition, each began and ended under the routes that were frozen, and  *)
(* all of its own attempts succeeded (run.main).                            *)
AcceptedOnEvidence ==
  outcome = "accepted" =>
    /\ \A a \in EvaluationArms, c \in DOMAIN Workload, r \in 1..Repetitions :
         \E run \in Range(runs[a]) : CaseOf(run.of) = c /\ RepetitionOf(run.of) = r
    /\ \A run \in Range(runs["candidate"]) : run.success
    /\ \A seen \in routesSeen : seen[2] = frozenRoute
    /\ {seen[1] : seen \in routesSeen} = 1..Attempts

(* Neither arm gets ahead, and neither goes first more often than the other *)
(* over a repetition of an even workload (run.main).                        *)
PairedEvenly ==
  LET firsts(a) == Cardinality({n \in 1..Attempts : n % 2 = 1 /\ ArmOf(n) = a}) IN
  /\ Len(runs["baseline"]) <= Len(runs["candidate"]) + 1
  /\ Len(runs["candidate"]) <= Len(runs["baseline"]) + 1
  /\ suite = "prepare" => firsts("baseline") <= firsts("candidate") + 1
                          /\ firsts("candidate") <= firsts("baseline") + 1
  /\ \A a \in EvaluationArms : \A run \in Range(runs[a]) : ArmOf(run.of) = a

(* What an attempt is charged for are its own calls of the model and those  *)
(* of an attempt that was given up before (gateway.handler, run.main).      *)
ChargedToItsOwn ==
  \A a \in EvaluationArms : \A run \in Range(runs[a]) : \A n \in run.calls :
    n = run.of \/ \E b \in EvaluationArms : \E other \in Range(runs[b]) : other.of = n /\ ~other.success

(* The written bundles hold every attempt of the log, those that failed and *)
(* the one that stopped the suite included (run.main's finally).            *)
NothingDropped ==
  suite = "ended" /\ logged # {} =>
    \A a \in EvaluationArms : bundle[a] = {n \in logged : ArmOf(n) = a}

(* A request is correct only if each expected call was made once and has    *)
(* exactly one result of its own, and where stages depend on each other, no *)
(* call began before the one before it ended (run.request).                 *)
JudgedByItsCalls ==
  harness = "request" =>
    \A case \in Cases : Selected(case, heard) /\ BoundRight(case, heard) =>
      /\ \A i \in DOMAIN heard : heard[i].start =>
           Cardinality({j \in DOMAIN heard : ~heard[j].start /\ heard[j].id = heard[i].id}) = 1
      /\ Len(heard) = 2 * Len(case.calls)
      /\ \A t \in Range(case.calls) : TimesCalled(t, Observed(heard)) = TimesCalled(t, case.calls)
      /\ case.stratum = "stages" =>
           \A i, j \in DOMAIN heard : i < j /\ heard[i].start /\ heard[j].start =>
             \E k \in i..j : ~heard[k].start /\ heard[k].id = heard[i].id

(* The live suite passes only after every case passed in every repetition,  *)
(* strata alternate, and nothing is tried after two failures of one class   *)
(* in a row (live.main).                                                    *)
LiveStops ==
  /\ live.exit = "passed" => ~live.spoiled /\ live.tried = (1..LiveRepetitions) \X LiveCases
  /\ Cardinality(live.tried) = live.done
  /\ live.done > 1 => LiveCase(live.done).stratum # LiveCase(live.done - 1).stratum \/ LiveStrata = 1
  /\ Len(live.errors) = 3 /\ live.errors[1] # "none" => live.errors[1] # live.errors[2]

(* An accepted research answer saw the label of every available source in   *)
(* what was retrieved for it after its only fetch, never in a preview       *)
(* (research.assess).                                                       *)
ReadBeforeAnswering ==
  harness = "research" /\ AnswerAccepted(heard) =>
    \A u \in Sources : \E i, k \in DOMAIN heard :
      /\ i < k /\ heard[i].tool = "webscrape" /\ heard[i].source = u /\ u \notin heard[i].labels
      /\ heard[k].tool = "retriever" /\ heard[k].reference = heard[i].reference /\ u \in heard[k].labels
      /\ \A j \in DOMAIN heard \ {i} : heard[j].tool = "webscrape" => heard[j].source # u

EvaluationSound ==
  /\ AcceptedOnEvidence /\ PairedEvenly /\ ChargedToItsOwn /\ NothingDropped
  /\ JudgedByItsCalls /\ LiveStops /\ ReadBeforeAnswering
=============================================================================
