----------------------------- MODULE Admission -----------------------------
(***************************************************************************)
(* Admission of a user's chat turns: each submission claims its            *)
(* conversation, takes one of the user's slots, writes the job's records   *)
(* and queues the job, while other tabs submit, the user stops, workers    *)
(* run what is queued and a submitting process fails, dies or is slow.     *)
(*   frontend/server/chat/submission.ts, userJobGuard.ts,                  *)
(*   conversationJobGuard.ts, frontend/server/jobSubmission.ts,            *)
(*   streamQueue.ts (queue commit), pages/api/chat/async.ts (Stop).        *)
(* A worker's execution is module StreamJob's; here it takes, runs, claims,*)
(* settles and acknowledges, without faults of its own.                    *)
(***************************************************************************)
EXTENDS Naturals, FiniteSets, TLC

CONSTANTS Jobs,           \* one submission each
          Conversations,
          Conv,           \* conversation a job is submitted to
          MaxActive,      \* MAX_ACTIVE_CHATS_PER_USER
          Stoppable,      \* jobs their user may stop
          Slow,           \* a submission may outlast the guard's grace
          MaxFaults       \* bound on failed calls and crashes

ASSUME ConvAssumption == Conv \in [Jobs -> Conversations]
ASSUME ActiveAssumption == MaxActive \in Nat \ {0}
ASSUME StoppableAssumption == Stoppable \subseteq Jobs
ASSUME SlowAssumption == Slow \in BOOLEAN
ASSUME FaultsAssumption == MaxFaults \in Nat

Nobody == "none"
ASSUME NobodyAssumption == Nobody \notin Jobs

VARIABLES
  (* Redis *)
  registered, cancelled,  \* submission records: job bound, Stop recorded
  guard,     \* job each conversation guard names
  slot,      \* each job's member of the user's slot set
  status,    \* async-job-status
  request,   \* jobs with a request record
  payload,   \* jobs with a queue payload
  queue,     \* jobs with an entry in the queue
  abort,     \* jobs with a stop signal
  journal,   \* finalization journals
  (* submissions *)
  pc, owner, seen, todo, refused, holds,
  (* the worker of each job, and the request handler of the user's Stop *)
  work, stopper, target,
  (* history *)
  doomed,    \* stopped before they were queued
  dropped,   \* taken for abandoned: a later turn took their conversation
  outran,    \* queued after a later turn had looked at them to judge that
  unsure,    \* a call that takes guard or slot, or gives back, failed
  ran,       \* jobs whose backend request was sent
  faults

admission == <<guard, slot>>
records == <<status, request, payload>>
signals == <<registered, cancelled, abort>>
redis == <<admission, records, signals, queue, journal>>
submission == <<pc, owner, seen, todo, refused, holds>>
others == <<work, stopper, target>>
history == <<doomed, dropped, outran, unsure, ran>>
vars == <<redis, submission, others, history, faults>>

Final == {"accepted", "cancelled", "failed", "unconfirmed", "crashed"}
LiveStatuses == {"provisional", "live"}
Live(j) == status[j] \in LiveStatuses
Leased(j) == work[j] # "none"

TypeOK ==
  /\ registered \subseteq Jobs /\ cancelled \subseteq Jobs
  /\ guard \in [Conversations -> Jobs \cup {Nobody}]
  /\ slot \in [Jobs -> {"none", "provisional", "lapsed", "held"}]
  /\ status \in [Jobs -> LiveStatuses \cup {"none", "terminal"}]
  /\ request \subseteq Jobs /\ payload \subseteq Jobs
  /\ queue \subseteq Jobs /\ abort \subseteq Jobs
  /\ journal \in [Jobs -> {"none", "pending", "completed"}]
  /\ pc \in [Jobs -> {"new", "guard", "owner", "resume", "again", "presence",
                      "replace", "discard", "slot", "provisional", "prepare",
                      "initialize", "enqueue", "check", "cleanup"} \cup Final]
  /\ owner \in [Jobs -> Jobs \cup {Nobody}]
  /\ seen \in [Jobs -> BOOLEAN]
  /\ todo \in [Jobs -> SUBSET {"confirm", "request", "status"}]
  /\ refused \in [Jobs -> BOOLEAN]
  /\ holds \in [Jobs -> SUBSET {"guard", "slot"}]
  /\ work \in [Jobs -> {"none", "release", "ready", "running", "claim",
                        "settle", "ack"}]
  /\ stopper \in {"idle", "abort", "look", "presence", "claim", "settle",
                  "delete"}
  /\ target \in Jobs \cup {Nobody}
  /\ doomed \subseteq Jobs /\ dropped \subseteq Jobs
  /\ outran \subseteq Jobs /\ unsure \subseteq Jobs /\ ran \subseteq Jobs
  /\ faults \in 0..MaxFaults

Init ==
  /\ registered = {} /\ cancelled = {} /\ request = {} /\ payload = {}
  /\ queue = {} /\ abort = {}
  /\ guard = [c \in Conversations |-> Nobody]
  /\ slot = [j \in Jobs |-> "none"]
  /\ status = [j \in Jobs |-> "none"]
  /\ journal = [j \in Jobs |-> "none"]
  /\ pc = [j \in Jobs |-> "new"]
  /\ owner = [j \in Jobs |-> Nobody]
  /\ seen = [j \in Jobs |-> FALSE]
  /\ todo = [j \in Jobs |-> {}]
  /\ refused = [j \in Jobs |-> FALSE]
  /\ holds = [j \in Jobs |-> {}]
  /\ work = [j \in Jobs |-> "none"]
  /\ stopper = "idle" /\ target = Nobody
  /\ doomed = {} /\ dropped = {} /\ outran = {} /\ unsure = {}
  /\ ran = {}
  /\ faults = MaxFaults

Goto(j, where) == pc' = [pc EXCEPT ![j] = where]
Faulty == faults > 0 /\ faults' = faults - 1

(***************************************************************************)
(* Redis scripts shared by submissions, workers and Stop                   *)
(***************************************************************************)

(* Owner-checked release of the conversation guard and of the slot.         *)
Freed(j) == [c \in Conversations |-> IF guard[c] = j THEN Nobody ELSE guard[c]]

(* The terminal claim of a live status; its journal commits with it.        *)
ClaimStatus(j) ==
  IF Live(j)
  THEN /\ status' = [status EXCEPT ![j] = "terminal"]
       /\ journal' = [journal EXCEPT ![j] = "pending"]
  ELSE UNCHANGED <<status, journal>>

(* Mutant: completion leaves the conversation guard to its TTL.             *)
SettleJournalKeepsGuard(j) ==
  IF journal[j] = "pending"
  THEN /\ journal' = [journal EXCEPT ![j] = "completed"]
       /\ slot' = [slot EXCEPT ![j] = "none"]
       /\ UNCHANGED guard
  ELSE UNCHANGED <<journal, admission>>

(* Completing a pending journal gives slot and guard back.                  *)
SettleJournal(j) ==
  IF journal[j] = "pending"
  THEN /\ journal' = [journal EXCEPT ![j] = "completed"]
       /\ slot' = [slot EXCEPT ![j] = "none"]
       /\ guard' = Freed(j)
  ELSE UNCHANGED <<journal, admission>>

(* A live status is deleted, a terminal one stays.                          *)
DeleteLive(j) == status' = [status EXCEPT ![j] = IF Live(j) THEN "none" ELSE @]

(***************************************************************************)
(* Submission                                                              *)
(***************************************************************************)

(* The submission ID is bound to the job; a Stop that came first wins.      *)
Register(j) ==
  /\ pc[j] = "new"
  /\ registered' = registered \cup {j}
  /\ Goto(j, IF j \in cancelled THEN "cancelled" ELSE "guard")
  /\ UNCHANGED <<admission, records, cancelled, abort, queue, journal, owner,
                 seen, todo, refused, holds, others, history, faults>>

(* SET NX of the guard; on the first refusal its owner is looked at.        *)
TakeGuard(j) ==
  /\ pc[j] \in {"guard", "again"}
  /\ IF guard[Conv[j]] = Nobody
     THEN /\ guard' = [guard EXCEPT ![Conv[j]] = j]
          /\ holds' = [holds EXCEPT ![j] = @ \cup {"guard"}]
          /\ Goto(j, "slot")
          /\ UNCHANGED owner
     ELSE /\ owner' = [owner EXCEPT ![j] = guard[Conv[j]]]
          /\ Goto(j, IF pc[j] = "guard" THEN "owner" ELSE "cleanup")
          /\ UNCHANGED <<guard, holds>>
  /\ UNCHANGED <<slot, records, signals, queue, journal, seen, todo, refused,
                 others, history, faults>>

(* acquiredAt lies at least the initialization grace in the past: so it is  *)
(* for a submission that is over, and for one slower than the grace.        *)
Stale(j) == Slow \/ pc[j] \in Final

(* A terminal owner is finalized, a stale one examined; otherwise the       *)
(* conversation is busy.                                                    *)
ReadOwner(j) ==
  /\ pc[j] = "owner"
  /\ seen' = [seen EXCEPT ![j] = status[owner[j]] # "none"]
  /\ \/ status[owner[j]] = "terminal" /\ Goto(j, "resume")
     \/ status[owner[j]] # "terminal" /\ Stale(owner[j]) /\ Goto(j, "presence")
     \/ status[owner[j]] # "terminal" /\ (Slow \/ ~Stale(owner[j]))
        /\ Goto(j, "cleanup")
  /\ UNCHANGED <<redis, owner, todo, refused, holds, others, history, faults>>

ResumeOwner(j) ==
  /\ pc[j] = "resume"
  /\ SettleJournal(owner[j])
  /\ Goto(j, "again")
  /\ UNCHANGED <<records, signals, queue, owner, seen, todo, refused, holds,
                 others, history, faults>>

(* Mutant: a stale guard is abandoned, whatever became of its job.          *)
AbandonedByAge(j) == seen[j] \in BOOLEAN

(* isAbandonedSubmission, with the status read before.                      *)
Abandoned(j) ==
  /\ ~Leased(owner[j])
  /\ ~seen[j] \/ owner[j] \notin request \/ owner[j] \notin payload

ReadPresence(j) ==
  /\ pc[j] = "presence"
  /\ Goto(j, IF Abandoned(j) THEN "replace" ELSE "cleanup")
  /\ UNCHANGED <<redis, owner, seen, todo, refused, holds, others, history,
                 faults>>

(* Compare and set of the guard this submission looked at.                  *)
ReplaceGuard(j) ==
  /\ pc[j] = "replace"
  /\ IF guard[Conv[j]] = owner[j]
     THEN /\ guard' = [guard EXCEPT ![Conv[j]] = j]
          /\ holds' = [holds EXCEPT ![j] = @ \cup {"guard"}]
          /\ dropped' = dropped \cup {owner[j]}
          /\ Goto(j, "discard")
     ELSE Goto(j, "again") /\ UNCHANGED <<guard, holds, dropped>>
  /\ UNCHANGED <<slot, records, signals, queue, journal, owner, seen, todo,
                 refused, others, doomed, outran, unsure, ran,
                 faults>>

(* The abandoned job loses slot, live status and request, in parallel calls *)
(* whose failures are ignored.                                              *)
DiscardOwner(j) ==
  /\ pc[j] = "discard"
  /\ LET given == [slot EXCEPT ![owner[j]] = "none"]
     IN  \/ /\ slot' = given /\ request' = request \ {owner[j]}
            /\ DeleteLive(owner[j])
            /\ UNCHANGED faults
         \/ /\ Faulty
            /\ slot' \in {slot, given}
            /\ request' \in {request, request \ {owner[j]}}
            /\ DeleteLive(owner[j]) \/ UNCHANGED status
  /\ Goto(j, "slot")
  /\ UNCHANGED <<guard, payload, signals, queue, journal, owner, seen, todo,
                 refused, holds, others, history>>

(* Mutant: the cap is off by one.                                           *)
SlotFreeOffByOne ==
  Cardinality({k \in Jobs : slot[k] \in {"provisional", "held"}}) <= MaxActive

(* Lapsed reservations are counted out before the cap is compared.          *)
Pruned == [j \in Jobs |-> IF slot[j] = "lapsed" THEN "none" ELSE slot[j]]

SlotFree == Cardinality({k \in Jobs : Pruned[k] # "none"}) < MaxActive

TakeSlot(j) ==
  /\ pc[j] = "slot"
  /\ IF SlotFree
     THEN /\ slot' = [Pruned EXCEPT ![j] = "provisional"]
          /\ holds' = [holds EXCEPT ![j] = @ \cup {"slot"}]
          /\ Goto(j, "provisional")
     ELSE slot' = Pruned /\ Goto(j, "cleanup") /\ UNCHANGED holds
  /\ UNCHANGED <<guard, records, signals, queue, journal, owner, seen, todo,
                 refused, others, history, faults>>

(* The provisional status and the conversation's reservation both settle.   *)
WriteProvisional(j) ==
  /\ pc[j] = "provisional"
  /\ status' = [status EXCEPT ![j] = "provisional"]
  /\ Goto(j, "prepare")
  /\ UNCHANGED <<admission, request, payload, signals, queue, journal, owner,
                 seen, todo, refused, holds, others, history, faults>>

(* Attachments and a backend are resolved, or cannot be.                    *)
PrepareRequest(j) ==
  /\ pc[j] = "prepare"
  /\ \/ /\ todo' = [todo EXCEPT ![j] = {"confirm", "request", "status"}]
        /\ Goto(j, "initialize")
     \/ Goto(j, "cleanup") /\ UNCHANGED todo
  /\ UNCHANGED <<redis, owner, seen, refused, holds, others, history, faults>>

(* A confirmation keeps a slot the job still has.                           *)
WriteRecord(j, part) ==
  \/ /\ part = "confirm"
     /\ slot' = [slot EXCEPT ![j] = IF @ = "none" THEN @ ELSE "held"]
     /\ UNCHANGED <<status, request>>
  \/ /\ part = "request"
     /\ request' = request \cup {j}
     /\ UNCHANGED <<slot, status>>
  \/ /\ part = "status"
     /\ status' = [status EXCEPT ![j] = "live"]
     /\ UNCHANGED <<slot, request>>

(* Slot confirmation, request and status are written in parallel, in any    *)
(* order; all settle before the submission goes on.  A write that fails may *)
(* have been executed.                                                      *)
InitializeRecord(j, part) ==
  /\ part \in todo[j]
  /\ todo' = [todo EXCEPT ![j] = @ \ {part}]
  /\ \/ /\ WriteRecord(j, part)
        /\ refused' = [refused EXCEPT ![j] =
             @ \/ (part = "confirm" /\ slot[j] = "none")]
        /\ UNCHANGED faults
     \/ /\ Faulty
        /\ WriteRecord(j, part) \/ UNCHANGED <<slot, status, request>>
        /\ refused' = [refused EXCEPT ![j] = TRUE]
  /\ UNCHANGED <<guard, payload, signals, queue, journal, pc, owner, seen,
                 holds, others, history>>

(* Mutant: the first refusal goes straight to cleanup.                      *)
InitializedEarly(j) ==
  /\ pc[j] = "initialize" /\ (todo[j] = {} \/ refused[j])
  /\ Goto(j, IF refused[j] THEN "cleanup" ELSE "enqueue")
  /\ UNCHANGED <<redis, owner, seen, todo, refused, holds, others, history,
                 faults>>

Initialized(j) ==
  /\ pc[j] = "initialize" /\ todo[j] = {}
  /\ Goto(j, IF refused[j] THEN "cleanup" ELSE "enqueue")
  /\ UNCHANGED <<redis, owner, seen, todo, refused, holds, others, history,
                 faults>>

(* The queue commit: slot and guard must still be this job's; a recorded    *)
(* Stop becomes its stop signal.                                            *)
Admitted(j) == slot[j] # "none" /\ guard[Conv[j]] = j

(* Mutant: a recorded Stop is not handed to the job.                        *)
CommitUnstopped(j) ==
  IF Admitted(j)
  THEN queue' = queue \cup {j} /\ payload' = payload \cup {j} /\ UNCHANGED abort
  ELSE UNCHANGED <<queue, payload, abort>>

Commit(j) ==
  IF Admitted(j)
  THEN /\ queue' = queue \cup {j} /\ payload' = payload \cup {j}
       /\ abort' = abort \cup ({j} \cap cancelled)
  ELSE UNCHANGED <<queue, payload, abort>>

(* A later turn has read the job's status and may still replace its guard.  *)
Judged(j) ==
  \E k \in Jobs : pc[k] \in {"presence", "replace"} /\ owner[k] = j

Enqueue(j) ==
  /\ pc[j] = "enqueue"
  /\ \/ /\ Commit(j)
        /\ Goto(j, IF Admitted(j) THEN "accepted" ELSE "cleanup")
        /\ UNCHANGED faults
     \/ (* the reply is lost, or the command was never executed *)
        /\ Faulty
        /\ Commit(j) \/ UNCHANGED <<queue, payload, abort>>
        /\ Goto(j, "check")
  /\ outran' = IF queue' # queue /\ Judged(j) THEN outran \cup {j} ELSE outran
  /\ UNCHANGED <<admission, status, request, registered, cancelled, journal,
                 owner, seen, todo, refused, holds, others, doomed, dropped,
                 unsure, ran>>

(* The payload is asked whether the commit was executed.                    *)
CheckQueued(j) ==
  /\ pc[j] = "check"
  /\ \/ /\ Goto(j, IF j \in payload THEN "accepted" ELSE "cleanup")
        /\ UNCHANGED faults
     \/ Faulty /\ Goto(j, "unconfirmed")
  /\ UNCHANGED <<redis, owner, seen, todo, refused, holds, others, history>>

(* A failed submission gives back all it acquired, in parallel calls; any   *)
(* of them may fail, and the failure is swallowed.                          *)
Cleanup(j) ==
  /\ pc[j] = "cleanup"
  /\ LET given == [slot EXCEPT ![j] = IF "slot" \in holds[j] THEN "none" ELSE @]
         freed == IF "guard" \in holds[j] THEN Freed(j) ELSE guard
     IN  \/ /\ request' = request \ {j} /\ payload' = payload \ {j}
            /\ DeleteLive(j)
            /\ slot' = given /\ guard' = freed
            /\ UNCHANGED <<unsure, faults>>
         \/ /\ Faulty
            /\ request' \in {request, request \ {j}}
            /\ payload' \in {payload, payload \ {j}}
            /\ DeleteLive(j) \/ UNCHANGED status
            /\ slot' \in {slot, given} /\ guard' \in {guard, freed}
            /\ unsure' = unsure \cup {j}
  /\ Goto(j, "failed")
  /\ UNCHANGED <<signals, queue, journal, owner, seen, todo, refused, holds,
                 others, doomed, dropped, outran, ran>>

(***************************************************************************)
(* Workers                                                                 *)
(***************************************************************************)

(* Lease and records in one script.                                         *)
WorkerTakes(j) ==
  /\ j \in queue /\ work[j] = "none"
  /\ work' = [work EXCEPT ![j] =
       CASE status[j] = "none" -> "release"
         [] status[j] = "terminal" -> "settle"
         [] Live(j) /\ (j \notin request \cap payload \/ j \in abort) -> "claim"
         [] OTHER -> "ready"]
  /\ UNCHANGED <<redis, submission, stopper, target, history, faults>>

(* Without a stop signal the start is recorded and the request sent.        *)
WorkerStarts(j) ==
  /\ work[j] = "ready"
  /\ IF j \in abort
     THEN work' = [work EXCEPT ![j] = "claim"] /\ UNCHANGED ran
     ELSE work' = [work EXCEPT ![j] = "running"] /\ ran' = ran \cup {j}
  /\ UNCHANGED <<redis, submission, stopper, target, doomed, dropped, outran,
                 unsure, faults>>

WorkerEnds(j) ==
  /\ work[j] = "running"
  /\ work' = [work EXCEPT ![j] = "claim"]
  /\ UNCHANGED <<redis, submission, stopper, target, history, faults>>

WorkerClaims(j) ==
  /\ work[j] = "claim"
  /\ ClaimStatus(j)
  /\ work' = [work EXCEPT ![j] = "settle"]
  /\ UNCHANGED <<admission, request, payload, signals, queue, submission,
                 stopper, target, history, faults>>

WorkerSettles(j) ==
  /\ work[j] = "settle"
  /\ SettleJournal(j)
  /\ work' = [work EXCEPT ![j] = "ack"]
  /\ UNCHANGED <<records, signals, queue, submission, stopper, target,
                 history, faults>>

(* Records gone: slot and guard are released by the entry's owner fields.   *)
WorkerReleases(j) ==
  /\ work[j] = "release"
  /\ slot' = [slot EXCEPT ![j] = "none"] /\ guard' = Freed(j)
  /\ work' = [work EXCEPT ![j] = "ack"]
  /\ UNCHANGED <<records, signals, queue, journal, submission, stopper,
                 target, history, faults>>

WorkerAcknowledges(j) ==
  /\ work[j] = "ack"
  /\ queue' = queue \ {j} /\ payload' = payload \ {j}
  /\ work' = [work EXCEPT ![j] = "none"]
  /\ UNCHANGED <<admission, status, request, signals, journal, submission,
                 stopper, target, history, faults>>

(***************************************************************************)
(* The user's Stop, by submission ID                                       *)
(***************************************************************************)

StopGoes(on, where) ==
  /\ stopper' = IF on THEN where ELSE "idle"
  /\ target' = IF on THEN target ELSE Nobody

StopSubmission(j) ==
  /\ stopper = "idle" /\ j \in Stoppable \ cancelled
  /\ cancelled' = cancelled \cup {j}
  /\ IF j \in registered
     THEN stopper' = "abort" /\ target' = j
     ELSE UNCHANGED <<stopper, target>>
  /\ doomed' = IF j \in queue \cup ran THEN doomed ELSE doomed \cup {j}
  /\ UNCHANGED <<admission, records, registered, abort, queue, journal,
                 submission, work, dropped, outran, unsure, ran, faults>>

StopSignal ==
  /\ stopper = "abort"
  /\ abort' = abort \cup {target}
  /\ stopper' = "look"
  /\ UNCHANGED <<admission, records, registered, cancelled, queue, journal,
                 submission, work, target, history, faults>>

(* cancelChatJob: no request is nothing to cancel; a job in the queue or    *)
(* with a worker is left to the worker.                                     *)
StopLooks ==
  /\ stopper = "look"
  /\ StopGoes(target \in request /\ Live(target), "presence")
  /\ UNCHANGED <<redis, submission, work, history, faults>>

(* Mutant: the Stop finalizes a job a worker runs.                          *)
StopIgnoresPresence ==
  /\ stopper = "presence"
  /\ StopGoes(target \in request, "claim")
  /\ UNCHANGED <<redis, submission, work, history, faults>>

StopChecksPresence ==
  /\ stopper = "presence"
  /\ StopGoes(/\ target \in request
              /\ ~(Live(target) /\ (target \in payload \/ Leased(target))),
              "claim")
  /\ UNCHANGED <<redis, submission, work, history, faults>>

StopClaims ==
  /\ stopper = "claim"
  /\ ClaimStatus(target)
  /\ StopGoes(Live(target), "settle")
  /\ UNCHANGED <<admission, request, payload, signals, queue, submission,
                 work, history, faults>>

StopSettles ==
  /\ stopper = "settle"
  /\ SettleJournal(target)
  /\ stopper' = "delete"
  /\ UNCHANGED <<records, signals, queue, submission, work, target, history,
                 faults>>

StopDeletes ==
  /\ stopper = "delete"
  /\ request' = request \ {target} /\ payload' = payload \ {target}
  /\ stopper' = "idle" /\ target' = Nobody
  /\ UNCHANGED <<admission, status, signals, queue, journal, submission, work,
                 history, faults>>

(***************************************************************************)
(* Time and faults                                                         *)
(***************************************************************************)

(* The initialization TTL of slot and status ends before the submission     *)
(* confirmed them.                                                          *)
ReservationLapses(j) ==
  /\ Stale(j)
  /\ \/ /\ slot[j] = "provisional"
        /\ slot' = [slot EXCEPT ![j] = "lapsed"]
        /\ UNCHANGED status
     \/ /\ status[j] = "provisional"
        /\ status' = [status EXCEPT ![j] = "none"]
        /\ UNCHANGED slot
  /\ UNCHANGED <<guard, request, payload, signals, queue, journal, submission,
                 others, history, faults>>

(* An hour after the last renewal every record of a job no worker renews    *)
(* expires; its entry stays in the queue.                                   *)
RecordsExpire(j) ==
  /\ pc[j] \in Final /\ ~Leased(j) /\ target # j
  /\ slot' = [slot EXCEPT ![j] = IF @ = "none" THEN @ ELSE "lapsed"]
  /\ guard' = Freed(j)
  /\ status' = [status EXCEPT ![j] = "none"]
  /\ request' = request \ {j} /\ payload' = payload \ {j}
  /\ abort' = abort \ {j}
  /\ journal' = [journal EXCEPT ![j] = "none"]
  /\ UNCHANGED <<registered, cancelled, queue, submission, others, history,
                 faults>>

Crash(j) ==
  /\ Faulty /\ pc[j] \notin Final \cup {"new"}
  /\ Goto(j, "crashed")
  /\ todo' = [todo EXCEPT ![j] = {}]
  /\ UNCHANGED <<redis, owner, seen, refused, holds, others, history>>

StopCrashes ==
  /\ Faulty /\ stopper # "idle"
  /\ stopper' = "idle" /\ target' = Nobody
  /\ UNCHANGED <<redis, submission, work, history>>

(* A call of the submission throws.  Guard or slot may have been taken; the *)
(* cleanup does not know.                                                   *)
Throw(j) ==
  /\ Faulty
  /\ Goto(j, "cleanup")
  /\ \/ /\ pc[j] \in {"guard", "again"}
        /\ \/ UNCHANGED guard
           \/ /\ guard[Conv[j]] = Nobody
              /\ guard' = [guard EXCEPT ![Conv[j]] = j]
        /\ unsure' = unsure \cup {j}
        /\ UNCHANGED <<slot, dropped>>
     \/ /\ pc[j] = "slot"
        /\ \/ UNCHANGED slot
           \/ /\ SlotFree
              /\ slot' = [Pruned EXCEPT ![j] = "provisional"]
        /\ unsure' = unsure \cup {j}
        /\ UNCHANGED <<guard, dropped>>
     \/ /\ pc[j] = "replace" /\ guard[Conv[j]] = owner[j]
        /\ guard' = [guard EXCEPT ![Conv[j]] = j]
        /\ dropped' = dropped \cup {owner[j]}
        /\ unsure' = unsure \cup {j}
        /\ UNCHANGED slot
     \/ /\ pc[j] \in {"owner", "presence", "replace", "provisional"}
        /\ UNCHANGED <<guard, slot, dropped, unsure>>
  /\ UNCHANGED <<records, signals, queue, journal, owner, seen, todo, refused,
                 holds, others, doomed, outran, ran>>

(***************************************************************************)
(* Specification                                                           *)
(***************************************************************************)

Submit(j) ==
  \/ TakeGuard(j) \/ ReadOwner(j) \/ ResumeOwner(j) \/ ReadPresence(j)
  \/ ReplaceGuard(j) \/ DiscardOwner(j) \/ TakeSlot(j) \/ WriteProvisional(j)
  \/ PrepareRequest(j) \/ Initialized(j) \/ Enqueue(j) \/ CheckQueued(j)
  \/ Cleanup(j)
  \/ \E part \in {"confirm", "request", "status"} : InitializeRecord(j, part)

Work(j) ==
  \/ WorkerTakes(j) \/ WorkerStarts(j) \/ WorkerEnds(j) \/ WorkerClaims(j)
  \/ WorkerSettles(j) \/ WorkerReleases(j) \/ WorkerAcknowledges(j)

Stop ==
  \/ StopSignal \/ StopLooks \/ StopChecksPresence \/ StopClaims
  \/ StopSettles \/ StopDeletes

Next ==
  \/ \E j \in Jobs :
       \/ Register(j) \/ Submit(j) \/ Work(j) \/ StopSubmission(j)
       \/ ReservationLapses(j) \/ RecordsExpire(j) \/ Crash(j) \/ Throw(j)
  \/ Stop \/ StopCrashes

Spec == Init /\ [][Next]_vars

(* The awaits of a submission and of a Stop end (timeouts bound every call) *)
(* unless their process dies, and workers take what is queued.  Nothing is  *)
(* assumed of the user, and nothing of expiry: a TTL may be arbitrarily     *)
(* long.                                                                    *)
Fairness ==
  /\ \A j \in Jobs : WF_vars(Submit(j)) /\ WF_vars(Work(j))
  /\ WF_vars(Stop)

FairSpec == Spec /\ Fairness

(***************************************************************************)
(* Properties                                                              *)
(***************************************************************************)

Running == {j \in Jobs : work[j] = "running"}

(* Two turns of one conversation never execute at the same time, though a   *)
(* guard is replaced, expires and is released by jobs that lost it          *)
(* (conversationJobGuard.ts, claimConversationForJob).  A turn taken for    *)
(* abandoned is DiscardedNeverRuns' subject.                                *)
OneTurnAtATime ==
  \A j, k \in Running \ dropped : Conv[j] = Conv[k] => j = k

(* No more turns of the user execute than the cap allows, though slots are  *)
(* provisional first, pruned when they lapse and confirmed later            *)
(* (userJobGuard.ts).                                                       *)
CapKept == Cardinality(Running) <= MaxActive

(* A Stop recorded for a submission before its job was queued keeps the job *)
(* from ever running (jobSubmission.ts, ENQUEUE_STREAM_JOB).                *)
StopBeforeQueue == doomed \cap ran = {}

(* A submission that failed leaves nothing behind: no slot, no guard, no    *)
(* live status and no request, however late its parallel writes were and    *)
(* though one of them, its preparation or the queue commit's reply failed.  *)
(* Only a failed call that takes guard or slot, and a failed call of the    *)
(* cleanup itself, may leave something to a TTL.                            *)
FailureLeavesNothing ==
  \A j \in Jobs : pc[j] = "failed" /\ j \notin unsure =>
    /\ slot[j] = "none" /\ guard[Conv[j]] # j
    /\ ~Live(j) /\ j \notin request \cup payload

(* A submission another turn recovered the conversation from does not run   *)
(* afterwards, also when it was only slow (discardAbandonedSubmission): its *)
(* queue commit finds the guard gone, its entry has no status.  Excepted is *)
(* one that is queued between the later turn's look at its records and the  *)
(* replacement of its guard, which are separate calls.                      *)
DiscardedNeverRuns ==
  [][\A j \in dropped \ outran : j \in ran' => j \in ran]_vars

(* What discardAbandonedSubmission's comment says, without the exception: a *)
(* submission that was only slow cannot run afterwards.                     *)
SlowNeverRuns == [][\A j \in dropped : j \in ran' => j \in ran]_vars

(* A job that was accepted gives its slot and its conversation back, be it *)
(* run, discarded or expired, without the help of a TTL: by its journal or  *)
(* by the worker that finds its records gone (updateFinalizationJournal,    *)
(* releaseGuardsForExpiredJob).                                             *)
EventuallyFree ==
  \A j \in Jobs : pc[j] = "accepted" ~>
    (slot[j] \in {"none", "lapsed"} /\ guard[Conv[j]] # j)

(* Instances for TLC: all turns in one conversation, where they are         *)
(* interchangeable, or one turn elsewhere.                                  *)
OneConversation == [j \in Jobs |-> CHOOSE c \in Conversations : TRUE]
TwoConversations ==
  LET c == CHOOSE d \in Conversations : TRUE
      j == CHOOSE i \in Jobs : TRUE
  IN  [i \in Jobs |-> IF i = j THEN CHOOSE d \in Conversations : d # c ELSE c]
Symmetry == Permutations(Jobs)
=============================================================================
