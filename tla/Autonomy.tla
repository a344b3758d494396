------------------------------ MODULE Autonomy ------------------------------
(***************************************************************************)
(* The autonomous agent's reliable queue: requests of one user, the worker *)
(* processes that execute them under an expiring lease, and the dashboard. *)
(*   builder/autonomous_agent: store.py, worker.py, backend_client.py      *)
(* One action is one Redis command or script, or one decision of a worker. *)
(* The heartbeat thread of a run is an action of its own.                  *)
(***************************************************************************)
EXTENDS Naturals, Sequences, FiniteSets, Functions

CONSTANTS Workers,    \* worker processes; a replacement keeps the name
          Requests,   \* serialized queue entries, each with its own id
          Scheduled,  \* those the worker itself enqueues when a slot is due
          Poison,     \* entries that are no JSON object
          MaxDepth,   \* MAX_QUEUE_DEPTH
          MaxArrivals, \* bound on the entries that are queued
          MaxEdits,   \* bound on withdrawals and Stops of the user
          MaxFaults   \* bound on crashes, failed calls, lapses and shutdowns

ASSUME SubsetsAssumption == Scheduled \subseteq Requests /\ Poison \subseteq Requests
ASSUME DepthAssumption == MaxDepth \in Nat
ASSUME BoundsAssumption == MaxArrivals \in Nat /\ MaxEdits \in Nat /\ MaxFaults \in Nat

(* No lease or no request; a lease token nobody runs under any more.        *)
None == "none"
Orphan == "orphan"
ASSUME NamesAssumption == {None, Orphan} \cap Workers = {} /\ None \notin Requests

VARIABLES
  (* Redis *)
  queue,       \* requests, next one first
  processing,  \* claimed requests, oldest first
  phase,       \* processing_state of each request
  lease,       \* owner of the user's lease
  runs,        \* run records: request and status
  flags,       \* runs with a cancel flag
  fed,         \* runs whose output is in feed and workspace
  (* workers *)
  pc, cur, rec, out, abort, stopping,
  (* dashboard *)
  stops,       \* runs whose Stop has yet to change the record
  (* history *)
  arrived,     \* requests in the order they were queued
  withdrawn,   \* requests taken from the queue by the user
  sent,        \* backend requests per queue entry: 0, 1, or 2 for more
  gap,         \* claims interrupted before their phase was written
  lapsed,      \* a lease ended under a live owner
  faults

lists == <<queue, processing, phase>>
records == <<runs, flags, fed>>
redis == <<lists, lease, records>>
local == <<cur, rec, out, abort, stopping>>
history == <<arrived, withdrawn, sent, gap, lapsed>>
vars == <<redis, pc, local, stops, history, faults>>

Closed == {"completed", "cancelled", "aborted", "failed"}
InRun == {"prepare", "fence", "send", "stream", "check", "output", "close"}

TypeOK ==
  /\ queue \in Seq(Requests) /\ processing \in Seq(Requests)
  /\ phase \in [Requests -> {None, "claimed", "started"}]
  /\ lease \in Workers \cup {None, Orphan}
  /\ runs \in Seq([req : Requests, status : Closed \cup {"running"}])
  /\ flags \subseteq DOMAIN runs /\ fed \subseteq DOMAIN runs
  /\ stops \subseteq DOMAIN runs
  /\ pc \in [Workers -> {"idle", "reclaim", "clean", "interrupted", "requeue",
                         "schedule", "owner", "pop", "claim", "refresh",
                         "poison", "forget", "record", "complete", "release"}
                          \cup InRun]
  /\ cur \in [Workers -> Requests \cup {None}]
  /\ rec \in [Workers -> {0} \cup DOMAIN runs]
  /\ out \in [Workers -> Closed \cup {None}]
  /\ abort \in [Workers -> BOOLEAN] /\ stopping \in [Workers -> BOOLEAN]
  /\ arrived \in Seq(Requests) /\ withdrawn \subseteq Requests
  /\ sent \in [Requests -> 0..2]
  /\ gap \subseteq Requests /\ lapsed \in BOOLEAN /\ faults \in 0..MaxFaults

Init ==
  /\ queue = <<>> /\ processing = <<>> /\ runs = <<>> /\ arrived = <<>>
  /\ phase = [r \in Requests |-> None] /\ lease = None
  /\ flags = {} /\ fed = {} /\ stops = {} /\ withdrawn = {} /\ gap = {}
  /\ pc = [w \in Workers |-> "idle"] /\ cur = [w \in Workers |-> None]
  /\ rec = [w \in Workers |-> 0] /\ out = [w \in Workers |-> None]
  /\ abort = [w \in Workers |-> FALSE] /\ stopping = [w \in Workers |-> FALSE]
  /\ sent = [r \in Requests |-> 0] /\ lapsed = FALSE /\ faults = MaxFaults

Goto(w, where) == pc' = [pc EXCEPT ![w] = where]
Faulty == faults > 0 /\ faults' = faults - 1
New(r) == r \notin Range(arrived)
MayArrive(r) == New(r) /\ Len(arrived) < MaxArrivals

(* The elements of a sequence at some of its positions, in their order; and *)
(* LREM with count 1, which takes the first occurrence of an entry away.    *)
Rank(i, positions) == Cardinality({k \in positions : k <= i})
Subsequence(s, positions) ==
  [n \in 1..Cardinality(positions) |->
     s[CHOOSE i \in positions : Rank(i, positions) = n]]
LRem(s, e) ==
  Subsequence(s, {i \in DOMAIN s : s[i] = e => \E j \in 1..(i - 1) : s[j] = e})

MayEdit == Cardinality(withdrawn) + Cardinality(flags) < MaxEdits

(***************************************************************************)
(* Dashboard                                                               *)
(***************************************************************************)

Enqueue(r) ==
  /\ MayArrive(r) /\ r \notin Scheduled /\ Len(queue) < MaxDepth
  /\ queue' = Append(queue, r) /\ arrived' = Append(arrived, r)
  /\ UNCHANGED <<processing, phase, lease, records, pc, local, stops,
                 withdrawn, sent, gap, lapsed, faults>>

(* LREM of the exact entry: a request a worker claimed meanwhile stays.     *)
Withdraw(r) ==
  /\ r \in Range(queue) /\ MayEdit
  /\ queue' = LRem(queue, r) /\ withdrawn' = withdrawn \cup {r}
  /\ UNCHANGED <<processing, phase, lease, records, pc, local, stops, arrived,
                 sent, gap, lapsed, faults>>

(* Stop: first the flag the worker polls, then the record, if still open.   *)
FlagRun(i) ==
  /\ i \in DOMAIN runs /\ runs[i].status = "running" /\ i \notin flags /\ MayEdit
  /\ flags' = flags \cup {i} /\ stops' = stops \cup {i}
  /\ UNCHANGED <<lists, lease, runs, fed, pc, local, history, faults>>

StopRecord(i) ==
  /\ i \in stops
  /\ stops' = stops \ {i}
  /\ runs' = IF runs[i].status = "running"
             THEN [runs EXCEPT ![i].status = "cancelled"] ELSE runs
  /\ UNCHANGED <<lists, lease, flags, fed, pc, local, history, faults>>

(***************************************************************************)
(* Worker loop: lease, recovery, schedule                                  *)
(***************************************************************************)

AcquireLease(w) ==
  /\ pc[w] = "idle" /\ lease = None
  /\ lease' = w
  /\ Goto(w, "reclaim")
  /\ UNCHANGED <<lists, records, local, stops, history, faults>>

Reclaim(w) ==
  /\ pc[w] = "reclaim"
  /\ Goto(w, IF processing = <<>> THEN "clean" ELSE "interrupted")
  /\ UNCHANGED <<redis, local, stops, history, faults>>

(* Nothing is claimed any more: phases left by late claims are deleted.     *)
CleanPhases(w) ==
  /\ pc[w] = "clean"
  /\ phase' = IF lease = w /\ processing = <<>>
              THEN [r \in Requests |-> None] ELSE phase
  /\ Goto(w, "schedule")
  /\ UNCHANGED <<queue, processing, lease, records, local, stops, history,
                 faults>>

Abandon(run) == IF run.status = "running" THEN [run EXCEPT !.status = "aborted"] ELSE run

(* _abort_interrupted_runs, fenced by the lease.                            *)
CloseInterrupted(w) ==
  /\ pc[w] = "interrupted"
  /\ LET open == \E i \in DOMAIN runs : runs[i].status = "running"
     IN  /\ runs' = IF lease = w THEN [i \in DOMAIN runs |-> Abandon(runs[i])]
                    ELSE runs
         /\ Goto(w, IF open /\ lease # w THEN "release" ELSE "requeue")
  /\ UNCHANGED <<lists, lease, flags, fed, local, stops, history, faults>>

ClaimsIn(phases) ==
  Subsequence(processing, {i \in DOMAIN processing : phase[processing[i]] \in phases})

(* Mutant: recovery drops every claim.                                      *)
RecoveredDropped == queue

(* The queue after recovery: claims that provably never reached the backend *)
(* go first, in their old order; started and unknown ones are dropped.      *)
Recovered == ClaimsIn({"claimed"}) \o queue

(* Mutant: a started claim stays in processing.                             *)
RequeueKeepsStarted(w) ==
  /\ pc[w] = "requeue"
  /\ IF lease = w
     THEN /\ queue' = Recovered
          /\ processing' = ClaimsIn({None, "started"})
          /\ Goto(w, "schedule") /\ UNCHANGED phase
     ELSE Goto(w, "release") /\ UNCHANGED lists
  /\ UNCHANGED <<lease, records, local, stops, history, faults>>

Requeue(w) ==
  /\ pc[w] = "requeue"
  /\ IF lease = w
     THEN /\ queue' = Recovered /\ processing' = <<>>
          /\ phase' = [r \in Requests |-> None]
          /\ Goto(w, "schedule")
     ELSE Goto(w, "release") /\ UNCHANGED lists
  /\ UNCHANGED <<lease, records, local, stops, history, faults>>

(* A due slot is marked and its request queued in one transaction, which    *)
(* checks again that the slot is due.                                       *)
Schedule(w) ==
  /\ pc[w] = "schedule"
  /\ \/ \E r \in Scheduled : /\ MayArrive(r)
                             /\ queue' = Append(queue, r)
                             /\ arrived' = Append(arrived, r)
     \/ UNCHANGED <<queue, arrived>>
  /\ Goto(w, "owner")
  /\ UNCHANGED <<processing, phase, lease, records, local, stops, withdrawn,
                 sent, gap, lapsed, faults>>

(***************************************************************************)
(* dequeue                                                                 *)
(***************************************************************************)

CheckOwner(w) ==
  /\ pc[w] = "owner"
  /\ Goto(w, IF lease = w THEN "pop" ELSE "release")
  /\ UNCHANGED <<redis, local, stops, history, faults>>

(* BRPOPLPUSH, which is not fenced by the lease; or its timeout.            *)
Pop(w) ==
  /\ pc[w] = "pop"
  /\ \/ /\ queue = <<>> /\ Goto(w, "release")
        /\ UNCHANGED <<queue, processing, cur, gap>>
     \/ /\ queue # <<>>
        /\ queue' = Tail(queue) /\ processing' = Append(processing, Head(queue))
        /\ cur' = [cur EXCEPT ![w] = Head(queue)]
        /\ gap' = IF lease = w THEN gap ELSE gap \cup {Head(queue)}
        /\ Goto(w, "claim")
  /\ UNCHANGED <<phase, lease, records, rec, out, abort, stopping, stops,
                 arrived, withdrawn, sent, lapsed, faults>>

(* The unfenced phase write right after the claim.                          *)
Claim(w) ==
  /\ pc[w] = "claim"
  /\ phase' = [phase EXCEPT ![cur[w]] = "claimed"]
  /\ Goto(w, "refresh")
  /\ UNCHANGED <<queue, processing, lease, records, local, stops, history,
                 faults>>

(* A lost lease leaves the request to the next owner.  The heartbeat        *)
(* refreshes the lease once more before the run starts.                     *)
RefreshClaim(w) ==
  /\ pc[w] = "refresh"
  /\ Goto(w, IF lease # w THEN "release"
             ELSE IF cur[w] \in Poison THEN "poison" ELSE "record")
  /\ UNCHANGED <<redis, local, stops, history, faults>>

(* Poison is removed from the claims, then its phase: two commands that are *)
(* not fenced by the lease.                                                 *)
DropPoison(w) ==
  /\ pc[w] = "poison"
  /\ processing' = LRem(processing, cur[w])
  /\ Goto(w, "forget")
  /\ UNCHANGED <<queue, phase, lease, records, local, stops, history, faults>>
ForgetPoison(w) ==
  /\ pc[w] = "forget"
  /\ phase' = [phase EXCEPT ![cur[w]] = None]
  /\ Goto(w, "release")
  /\ UNCHANGED <<queue, processing, lease, records, local, stops, history,
                 faults>>

(***************************************************************************)
(* run_once, called by run_with_lease_heartbeat                            *)
(***************************************************************************)

RecordRun(w) ==
  /\ pc[w] = "record"
  /\ runs' = Append(runs, [req |-> cur[w], status |-> "running"])
  /\ rec' = [rec EXCEPT ![w] = Len(runs) + 1]
  /\ Goto(w, "prepare")
  /\ UNCHANGED <<lists, lease, flags, fed, cur, out, abort, stopping, stops,
                 history, faults>>

(* The run ends with a status that is yet to be recorded.                   *)
Finish(w, status) ==
  /\ out' = [out EXCEPT ![w] = status]
  /\ Goto(w, "close")

Stopped(w) == rec[w] \in flags

(* Goal, workspace and prompt: the goal may be gone, a seed of the          *)
(* workspace may meet a lost lease, an abort is seen last.                  *)
Prepare(w) ==
  /\ pc[w] = "prepare"
  /\ \/ Finish(w, "failed")
     \/ lease # w /\ Finish(w, "aborted")
     \/ abort[w] /\ Finish(w, IF Stopped(w) THEN "cancelled" ELSE "aborted")
     \/ ~abort[w] /\ Goto(w, "fence") /\ UNCHANGED out
  /\ UNCHANGED <<redis, cur, rec, abort, stopping, stops, history, faults>>

(* Mutant: the dispatch fence checks the lease, not the phase.              *)
FenceLeaseOnly(w) ==
  /\ pc[w] = "fence"
  /\ IF lease \in Workers
     THEN /\ phase' = [phase EXCEPT ![cur[w]] = "started"]
          /\ Goto(w, "send") /\ UNCHANGED out
     ELSE Finish(w, "aborted") /\ UNCHANGED phase
  /\ UNCHANGED <<queue, processing, lease, records, cur, rec, abort, stopping,
                 stops, history, faults>>

(* mark_backend_started: lease and phase in one script.                     *)
Fence(w) ==
  /\ pc[w] = "fence"
  /\ IF lease = w /\ phase[cur[w]] = "claimed"
     THEN /\ phase' = [phase EXCEPT ![cur[w]] = "started"]
          /\ Goto(w, "send") /\ UNCHANGED out
     ELSE Finish(w, "aborted") /\ UNCHANGED phase
  /\ UNCHANGED <<queue, processing, lease, records, cur, rec, abort, stopping,
                 stops, history, faults>>

(* The classification of a RunAbortedError.                                 *)
Verdict(w) == IF Stopped(w) THEN "cancelled" ELSE IF abort[w] THEN "aborted" ELSE "failed"

(* mark_goal_run, which a lost lease refuses, and the backend request.      *)
Send(w) ==
  /\ pc[w] = "send"
  /\ \/ lease # w /\ Finish(w, "aborted") /\ UNCHANGED sent
     \/ abort[w] /\ Finish(w, Verdict(w)) /\ UNCHANGED sent
     \/ /\ ~abort[w]
        /\ sent' = [sent EXCEPT ![cur[w]] = IF @ = 2 THEN 2 ELSE @ + 1]
        /\ Goto(w, "stream") /\ UNCHANGED out
  /\ UNCHANGED <<redis, cur, rec, abort, stopping, stops, arrived, withdrawn,
                 gap, lapsed, faults>>

(* The response arrives; the stream errs, times out or is aborted; or it    *)
(* asks for an approval or OAuth, which a background run cannot give.       *)
StreamEnds(w) ==
  /\ pc[w] = "stream"
  /\ \/ ~abort[w] /\ Goto(w, "check") /\ UNCHANGED out
     \/ Finish(w, Verdict(w))
     \/ Finish(w, "failed")
  /\ UNCHANGED <<redis, cur, rec, abort, stopping, stops, history, faults>>

CheckResponse(w) ==
  /\ pc[w] = "check"
  /\ \/ Stopped(w) /\ Finish(w, "cancelled")
     \/ ~Stopped(w) /\ (abort[w] \/ lease # w) /\ Finish(w, "aborted")
     \/ ~Stopped(w) /\ ~abort[w] /\ lease = w /\ Goto(w, "output") /\ UNCHANGED out
  /\ UNCHANGED <<redis, cur, rec, abort, stopping, stops, history, faults>>

(* Mutant: feed and workspace are written without the lease.                *)
WriteOutputUnfenced(w) ==
  /\ pc[w] = "output"
  /\ fed' = fed \cup {rec[w]} /\ Finish(w, "completed")
  /\ UNCHANGED <<lists, lease, runs, flags, cur, rec, abort, stopping, stops,
                 history, faults>>

(* Invalid output fails; output is written under the lease; a run without   *)
(* items and updates has nothing to write.                                  *)
WriteOutput(w) ==
  /\ pc[w] = "output"
  /\ \/ Finish(w, "failed") /\ UNCHANGED fed
     \/ lease = w /\ fed' = fed \cup {rec[w]} /\ Finish(w, "completed")
     \/ lease # w /\ Finish(w, "aborted") /\ UNCHANGED fed
     \/ Finish(w, "completed") /\ UNCHANGED fed
  /\ UNCHANGED <<lists, lease, runs, flags, cur, rec, abort, stopping, stops,
                 history, faults>>

(* upsert_run through atomic_update: read, change and write back under WATCH*)
(* until nobody wrote in between, so one step.  Not fenced by the lease.    *)
UpsertRun(i, status) == runs' = [runs EXCEPT ![i].status = status]

(* An aborted run keeps its claim.                                          *)
CloseRun(w) ==
  /\ pc[w] = "close"
  /\ UpsertRun(rec[w], out[w])
  /\ Goto(w, IF out[w] = "aborted" THEN "release" ELSE "complete")
  /\ UNCHANGED <<lists, lease, flags, fed, local, stops, history, faults>>

Complete(w) ==
  /\ pc[w] = "complete"
  /\ IF lease = w
     THEN /\ processing' = LRem(processing, cur[w])
          /\ phase' = [phase EXCEPT ![cur[w]] = None]
     ELSE UNCHANGED <<processing, phase>>
  /\ Goto(w, "release")
  /\ UNCHANGED <<queue, lease, records, local, stops, history, faults>>

(* What a worker forgets at the end of an iteration.                        *)
Reset(w) ==
  /\ Goto(w, "idle")
  /\ cur' = [cur EXCEPT ![w] = None] /\ rec' = [rec EXCEPT ![w] = 0]
  /\ out' = [out EXCEPT ![w] = None] /\ abort' = [abort EXCEPT ![w] = FALSE]
  /\ stopping' = [stopping EXCEPT ![w] = FALSE]

ReleaseLease(w) ==
  /\ pc[w] = "release"
  /\ lease' = IF lease = w THEN None ELSE lease
  /\ Reset(w)
  /\ UNCHANGED <<lists, records, stops, history, faults>>

(* The heartbeat thread sees a shutdown, a lost lease or the cancel flag.   *)
Heartbeat(w) ==
  /\ pc[w] \in InRun \cup {"record"} /\ ~abort[w]
  /\ stopping[w] \/ lease # w \/ Stopped(w)
  /\ abort' = [abort EXCEPT ![w] = TRUE]
  /\ UNCHANGED <<redis, pc, cur, rec, out, stopping, stops, history, faults>>

(***************************************************************************)
(* Faults                                                                  *)
(***************************************************************************)

(* A claim is cut off between the move and its phase.                       *)
Interrupted(w) == IF pc[w] = "claim" THEN gap \cup {cur[w]} ELSE gap

Crash(w) ==
  /\ Faulty /\ pc[w] # "idle"
  /\ lease' = IF lease = w THEN Orphan ELSE lease
  /\ gap' = Interrupted(w)
  /\ Reset(w)
  /\ UNCHANGED <<lists, records, stops, arrived, withdrawn, sent, lapsed>>

Shutdown(w) ==
  /\ Faulty /\ pc[w] \in InRun /\ ~stopping[w]
  /\ stopping' = [stopping EXCEPT ![w] = TRUE]
  /\ UNCHANGED <<redis, pc, cur, rec, out, abort, stops, history>>

(* A command fails.  Outside run_once's try the iteration ends; inside the  *)
(* run is recorded as failed, which also replaces an outcome whose record or*)
(* event could not be written; an unreadable lease counts as lost.  The     *)
(* dispatch fence may have been set by the failed call.                     *)
Throw(w) ==
  /\ Faulty
  /\ \/ /\ \/ pc[w] \in {"reclaim", "clean", "interrupted", "requeue", "schedule",
                         "owner", "pop", "claim", "refresh", "poison", "forget",
                         "record", "prepare"}
           \/ pc[w] \in {"close", "complete"} /\ out[w] # "completed"
        /\ Goto(w, "release") /\ gap' = Interrupted(w)
        /\ UNCHANGED <<out, phase>>
     \/ /\ pc[w] \in {"prepare", "fence", "send", "check", "output", "close",
                      "complete"}
        /\ \/ Finish(w, "failed")
           \/ pc[w] = "check" /\ Finish(w, "aborted")
        /\ \/ UNCHANGED phase
           \/ /\ pc[w] = "fence" /\ lease = w /\ phase[cur[w]] = "claimed"
              /\ phase' = [phase EXCEPT ![cur[w]] = "started"]
        /\ UNCHANGED gap
  /\ UNCHANGED <<queue, processing, lease, records, cur, rec, abort, stopping,
                 stops, arrived, withdrawn, sent, lapsed>>

(* The heartbeat cannot refresh the lease: it aborts the run.               *)
HeartbeatFails(w) ==
  /\ Faulty /\ pc[w] \in InRun /\ ~abort[w]
  /\ abort' = [abort EXCEPT ![w] = TRUE]
  /\ UNCHANGED <<redis, pc, cur, rec, out, stopping, stops, history>>

(* The release is lost: its error is suppressed, the token forgotten.       *)
ReleaseFails(w) ==
  /\ Faulty /\ pc[w] = "release" /\ lease = w
  /\ lease' = Orphan
  /\ Reset(w)
  /\ UNCHANGED <<lists, records, stops, history>>

(* The TTL ends: of a token nobody uses, or under an owner that is late.    *)
OrphanExpires ==
  /\ lease = Orphan
  /\ lease' = None
  /\ UNCHANGED <<lists, records, pc, local, stops, history, faults>>

LeaseLapses ==
  /\ Faulty /\ lease \in Workers
  /\ lease' = None /\ lapsed' = TRUE
  /\ gap' = Interrupted(lease)
  /\ UNCHANGED <<lists, records, pc, local, stops, arrived, withdrawn, sent>>

(***************************************************************************)
(* Specification                                                           *)
(***************************************************************************)

Step(w) ==
  \/ AcquireLease(w) \/ Reclaim(w) \/ CleanPhases(w) \/ CloseInterrupted(w)
  \/ Requeue(w) \/ Schedule(w) \/ CheckOwner(w) \/ Pop(w) \/ Claim(w)
  \/ RefreshClaim(w) \/ DropPoison(w) \/ ForgetPoison(w)
  \/ RecordRun(w) \/ Prepare(w) \/ Fence(w)
  \/ Send(w) \/ StreamEnds(w) \/ CheckResponse(w)
  \/ WriteOutput(w) \/ CloseRun(w) \/ Complete(w) \/ ReleaseLease(w)

Dashboard ==
  \/ \E r \in Requests : Enqueue(r) \/ Withdraw(r)
  \/ \E i \in DOMAIN runs : FlagRun(i) \/ StopRecord(i)

Next ==
  \/ \E w \in Workers : \/ Step(w) \/ Heartbeat(w) \/ Crash(w) \/ Shutdown(w)
                        \/ Throw(w) \/ HeartbeatFails(w) \/ ReleaseFails(w)
  \/ Dashboard \/ OrphanExpires \/ LeaseLapses

Spec == Init /\ [][Next]_vars

(* Every call of a worker ends (the backend request has a hard deadline),   *)
(* replacements are started for dead workers, and TTLs end.                 *)
Fairness == (\A w \in Workers : WF_vars(Step(w))) /\ WF_vars(OrphanExpires)

FairSpec == Spec /\ Fairness

(***************************************************************************)
(* Properties                                                              *)
(***************************************************************************)

(* A request reaches the backend at most once, whatever crashes, lapses of  *)
(* the lease and late unfenced writes happen (mark_backend_started: recovery*)
(* must not submit the same external actions again).                        *)
DispatchedOnce == \A r \in Requests : sent[r] <= 1

(* A request that disappears left a trace: it was withdrawn, it passed the  *)
(* dispatch fence, a record says how it ended, or its claim was interrupted *)
(* in the one command's gap before its phase was durable (dequeue).         *)
NothingLost ==
  \A r \in Range(arrived) \ (Poison \cup gap \cup withdrawn) :
    \/ r \in Range(queue) \cup Range(processing)
    \/ \E i \in DOMAIN runs : runs[i].req = r

(* Claimed and queued requests are in the order they arrived in, so that    *)
(* recovery never lets a later request overtake (reclaim_processing).       *)
OldestFirst ==
  LET waiting == processing \o queue
      Place(r) == CHOOSE i \in DOMAIN arrived : arrived[i] = r
  IN  \A i, j \in DOMAIN waiting : i < j => Place(waiting[i]) < Place(waiting[j])

(* While no lease ended under its live owner, a record that says running    *)
(* has a worker that runs it, or a claim whose recovery will close it: none *)
(* stays live on the dashboard (_abort_interrupted_runs).                   *)
NoGhostRun ==
  ~lapsed => \A i \in DOMAIN runs : runs[i].status = "running" =>
    processing # <<>> \/ \E w \in Workers : rec[w] = i

(* No request is lost, overtaken or left running by nobody, though workers  *)
(* crash, lose their lease and recover each other's claims.                 *)
RequestsKept == NothingLost /\ OldestFirst /\ NoGhostRun

(* Output of a run the next owner has closed as interrupted never reaches   *)
(* feed or workspace (set_text, append_feed_items with require_lease).      *)
NoStaleOutput == [][\A i \in fed' \ fed : runs[i].status # "aborted"]_vars

(* Requests come to an end: once the last one was queued, the queue and the *)
(* claims are empty at some time and stay so, whatever was withdrawn,       *)
(* stopped, interrupted or recovered in between.                            *)
RequestsSettle == <>[](queue = <<>> /\ processing = <<>>)
=============================================================================
