----------------------------- MODULE StreamJob -----------------------------
(***************************************************************************)
(* One chat job from its queue commit to its settlement: the Redis records *)
(* of the job, the stream workers that execute it under an expiring lease, *)
(* the user's Stop, and the submitting process that queues it.             *)
(*   frontend/server/chat/streamQueue.ts, streamWorker.ts, cancellation.ts,*)
(*   documentIngest.ts and the control flow of streamReader.ts.            *)
(*                                                                         *)
(* One action is one Redis round trip (a Lua script or a command), or one  *)
(* decision taken between two of them, so other processes interleave at    *)
(* every await.  Finalization is two steps here, the terminal claim and    *)
(* the completion of its journal; module Finalization opens them up.       *)
(***************************************************************************)
EXTENDS Naturals, FiniteSets, TLC

CONSTANTS Workers,    \* stream worker processes
          Canceller,  \* the request handler of the user's Stop
          Entries,    \* queue entries the enqueue script may add for the job
          Modes,      \* execution modes a job may have
          Evictable,  \* records Redis may evict under memory pressure
          MaxFaults   \* bound on the faults of a behaviour

ASSUME ProcsAssumption == Canceller \notin Workers
ASSUME ModeAssumption == Modes \subseteq {"stream", "document_ingest"}
ASSUME EvictableAssumption ==
    Evictable \subseteq {"request", "payload", "marker", "abort"}

ASSUME FaultsAssumption == MaxFaults \in Nat

Procs == Workers \cup {Canceller}

(* Lease values that are no worker: free, or held by a token nobody runs    *)
(* under any more (its process crashed or its release was lost).            *)
NoLease == "none"
Orphan == "orphan"
ASSUME LeaseAssumption == {NoLease, Orphan} \cap Workers = {}

NoEntry == "none"
ASSUME EntryAssumption == NoEntry \notin Entries

VARIABLES
  (* Redis *)
  status,    \* async-job-status: absent, a live status or the outcome
  request,   \* async-job-request exists
  payload,   \* the queue payload exists
  marker,    \* the backend-started marker exists
  output,    \* persisted stream response or steps exist
  abort,     \* the durable stop signal exists
  lease,     \* owner of the execution lease
  entries,   \* queue entries in the stream and its consumer group
  journal,   \* finalization journal
  admitted,  \* the job holds its chat slot and its conversation guard
  (* processes *)
  pc,        \* where each process stands
  cur,       \* the entry a worker processes
  sig,       \* reason a worker's AbortController was aborted with
  caught,    \* a worker is past its catch clause
  run,       \* what a worker did: nothing, timers armed, request permitted
  msg,       \* the outcome a process is about to claim
  cont,      \* where a process continues after finalizing
  mode,      \* executionMode of the job, which never changes
  submit,    \* the submitting process's enqueue call
  (* observations, read by the properties and the submission tombstone *)
  stop,      \* how the user asked to stop, if at all
  sent,      \* backend requests sent: 0, 1, or 2 for more than one
  early,     \* a stop signal was stored before any request was permitted
  faults     \* faults that may still happen

records == <<request, payload, marker>>
settlement == <<journal, admitted, output>>
redis == <<status, records, settlement, abort, lease, entries>>
worker == <<cur, sig, run, caught>>
intent == <<msg, cont>>
local == <<pc, worker, intent>>
seen == <<stop, sent, early>>
submission == <<mode, submit>>
outside == <<submission, seen, faults>>
vars == <<redis, local, outside>>

LiveStatuses == {"pending", "streaming", "progress"}
Outcomes == {"completed", "stopped", "interrupted", "failed"}
Live == status \in LiveStatuses
Terminal == status \in Outcomes

PCs == {"idle", "acquire", "reacquire", "refresh", "prepare", "ready",
        "sending", "headers", "reading", "readerFail", "finalize", "claim",
        "settle", "returned", "catch", "load", "releaseGuards", "ackForce",
        "ack", "release",
        "signal", "status", "presence", "request", "delete"}

(* Where a finalizer goes on: to the reader's own code, past the reader's   *)
(* catch clause, to the worker's acknowledgement, to a forced one, or to    *)
(* the deletion of what a Stop leaves behind.                               *)
Conts == {"none", "returned", "handled", "ack", "releaseGuards", "delete"}

TypeOK ==
  /\ status \in LiveStatuses \cup Outcomes \cup {"none"}
  /\ request \in BOOLEAN /\ payload \in BOOLEAN /\ marker \in BOOLEAN
  /\ output \in BOOLEAN /\ abort \in BOOLEAN /\ admitted \in BOOLEAN
  /\ lease \in Workers \cup {NoLease, Orphan}
  /\ entries \in [Entries -> {"unused", "queued", "delivered", "acked"}]
  /\ journal \in {"none", "pending", "completed"}
  /\ pc \in [Procs -> PCs]
  /\ cur \in [Workers -> Entries \cup {NoEntry}]
  /\ sig \in [Workers -> {"none", "lost", "user", "drain"}]
  /\ caught \in [Workers -> BOOLEAN]
  /\ run \in [Workers -> {"none", "armed", "started"}]
  /\ msg \in [Procs -> Outcomes \cup {"none"}]
  /\ cont \in [Procs -> Conts]
  /\ mode \in {"stream", "document_ingest"}
  /\ submit \in {"sending", "queued", "rejected"}
  /\ stop \in {"none", "submission", "job"}
  /\ sent \in 0..2
  /\ early \in BOOLEAN
  /\ faults \in 0..MaxFaults

(* The submission has written status, request, slot and guard and is about  *)
(* to queue the job.  Ingestion is queued as `streaming`.                   *)
Init ==
  /\ mode \in Modes
  /\ status = (IF mode = "stream" THEN "pending" ELSE "streaming")
  /\ request = TRUE /\ payload = FALSE /\ marker = FALSE /\ output = FALSE
  /\ abort = FALSE /\ lease = NoLease /\ journal = "none" /\ admitted = TRUE
  /\ entries = [e \in Entries |-> "unused"]
  /\ pc = [p \in Procs |-> "idle"]
  /\ cur = [w \in Workers |-> NoEntry]
  /\ sig = [w \in Workers |-> "none"]
  /\ run = [w \in Workers |-> "none"]
  /\ caught = [w \in Workers |-> FALSE]
  /\ msg = [p \in Procs |-> "none"]
  /\ cont = [p \in Procs |-> "none"]
  /\ submit = "sending" /\ stop = "none" /\ sent = 0 /\ early = FALSE
  /\ faults = MaxFaults

(* Every worker that was permitted to send has passed the start marker.     *)
NoneStarted == sent = 0 /\ \A w \in Workers : pc[w] # "sending"

(* Faults are bounded by MaxFaults.                                         *)
Faulty == faults > 0 /\ faults' = faults - 1

Goto(p, where) == pc' = [pc EXCEPT ![p] = where]

(***************************************************************************)
(* Submission                                                              *)
(***************************************************************************)

(* The enqueue script: slot and guard are checked, the entry and payload    *)
(* are written and a Stop recorded against the submission becomes the job's *)
(* stop signal in one commit.  A second entry is a fault, the commit sent   *)
(* again before its reply arrives: the present client never resends, but    *)
(* the worker defends against "a retried XADD" of an earlier frontend.      *)
Enqueue(e) ==
  /\ submit = "sending" /\ admitted
  /\ entries[e] = "unused"
  /\ \/ (\A d \in Entries : entries[d] = "unused") /\ UNCHANGED faults
     \/ (\E d \in Entries : entries[d] # "unused") /\ Faulty
  /\ entries' = [entries EXCEPT ![e] = "queued"]
  /\ payload' = TRUE
  /\ abort' = (abort \/ stop = "submission")
  /\ early' = (early \/ (stop = "submission" /\ NoneStarted))
  /\ UNCHANGED <<status, request, marker, lease, local, settlement, submission,
                 stop, sent>>

EnqueueReplied ==
  /\ submit = "sending" /\ \E e \in Entries : entries[e] # "unused"
  /\ submit' = "queued"
  /\ UNCHANGED <<redis, local, mode, seen, faults>>

(* The script found the slot or the guard released: nothing is queued and   *)
(* the submission removes its records (a terminal status is kept).          *)
EnqueueRejected ==
  /\ submit = "sending" /\ ~admitted
  /\ submit' = "rejected"
  /\ request' = FALSE /\ payload' = FALSE
  /\ status' = IF Live THEN "none" ELSE status
  /\ UNCHANGED <<marker, abort, lease, entries, local, settlement, mode, seen,
                 faults>>

(* Stop by submission ID before the job is queued.                          *)
StopSubmission ==
  /\ submit = "sending" /\ stop = "none"
  /\ stop' = "submission"
  /\ UNCHANGED <<redis, local, submission, sent, early, faults>>

(***************************************************************************)
(* Finalization, run by workers and by the canceller                       *)
(***************************************************************************)

StartFinalize(p, outcome, then) ==
  /\ Goto(p, IF outcome = "completed" THEN "claim" ELSE "finalize")
  /\ msg' = [msg EXCEPT ![p] = outcome]
  /\ cont' = [cont EXCEPT ![p] = then]

Unclaim(p) ==
  /\ msg' = [msg EXCEPT ![p] = "none"]
  /\ cont' = [cont EXCEPT ![p] = "none"]

(* finalizeError first stores the stop signal, whatever the failure; the    *)
(* claim follows even if that write fails.                                  *)
RaiseAbort(p) ==
  /\ pc[p] = "finalize"
  /\ \/ /\ abort' = TRUE
        /\ early' = (early \/ NoneStarted)
        /\ UNCHANGED faults
     \/ Faulty /\ UNCHANGED <<abort, early>>
  /\ Goto(p, "claim")
  /\ UNCHANGED <<status, records, lease, entries, worker, settlement,
                 intent, submission, stop, sent>>

(* Mutant: the claim overwrites an outcome that is already terminal.        *)
ClaimOverwrites(p) ==
  /\ pc[p] = "claim"
  /\ status' = msg[p] /\ journal' = "pending"
  /\ Goto(p, "settle")
  /\ UNCHANGED <<records, output, abort, lease, entries, admitted, worker,
                 intent, outside>>

(* Only a live status can be claimed; its journal commits with it.          *)
Claim(p) ==
  /\ pc[p] = "claim"
  /\ IF Live
     THEN /\ status' = msg[p] /\ journal' = "pending"
          /\ UNCHANGED msg
     ELSE /\ msg' = IF p = Canceller THEN [msg EXCEPT ![p] = "none"] ELSE msg
          /\ UNCHANGED <<status, journal>>
  /\ Goto(p, "settle")
  /\ UNCHANGED <<records, output, abort, lease, entries, admitted, worker,
                 cont, outside>>

(* The journal's completion releases slot and guard and clears the output.  *)
CompleteJournal ==
  /\ journal = "pending"
  /\ journal' = "completed" /\ admitted' = FALSE /\ output' = FALSE

(* The finalizer lock is another finalizer's, or one left by a crash.       *)
LockTaken(p) ==
  /\ journal = "pending"
  /\ \/ (\E q \in Procs \ {p} : pc[q] \in {"settle", "ack"})
        /\ UNCHANGED faults
     \/ Faulty

(* The claimant completes the journal, or another finalizer owns it.  A     *)
(* finalizer that claimed nothing and finds no journal clears the output.   *)
Settle(p) ==
  /\ pc[p] = "settle"
  /\ \/ CompleteJournal /\ UNCHANGED faults
     \/ LockTaken(p) /\ UNCHANGED settlement
     \/ journal = "completed" /\ UNCHANGED <<settlement, faults>>
     \/ /\ journal = "none"
        /\ output' = FALSE
        /\ UNCHANGED <<journal, admitted, faults>>
  /\ Goto(p, IF cont[p] = "handled" THEN "returned" ELSE cont[p])
  /\ msg' = [msg EXCEPT ![p] = IF p = Canceller THEN msg[p] ELSE "none"]
  /\ cont' = [cont EXCEPT ![p] = "none"]
  /\ UNCHANGED <<status, records, abort, lease, entries, worker, submission,
                 seen>>

(* A status poll of a terminal job resumes its journal.                     *)
StatusPoll ==
  /\ Terminal /\ request
  /\ CompleteJournal
  /\ UNCHANGED <<status, records, abort, lease, entries, local, outside>>

(***************************************************************************)
(* Stream worker                                                           *)
(***************************************************************************)

(* XREADGROUP delivers a new entry; XAUTOCLAIM returns one that was         *)
(* delivered before, to any worker, since idle time knows no lease.         *)
Dispatch(w, e) ==
  /\ pc[w] = "idle" /\ entries[e] \in {"queued", "delivered"}
  /\ entries' = [entries EXCEPT ![e] = "delivered"]
  /\ cur' = [cur EXCEPT ![w] = e]
  /\ Goto(w, IF entries[e] = "queued" THEN "acquire" ELSE "reacquire")
  /\ UNCHANGED <<status, records, abort, lease, sig, settlement, run,
                 caught, intent, outside>>

(* A second entry of a job this worker already runs is only acknowledged.   *)
DispatchDuplicate(w, e) ==
  /\ pc[w] # "idle" /\ cur[w] # e /\ entries[e] \in {"queued", "delivered"}
  /\ entries' = [entries EXCEPT ![e] = "acked"]
  /\ UNCHANGED <<status, records, abort, lease, local, settlement, outside>>

(* Mutant: the start marker is no evidence.                                 *)
BackendStartedByStatus ==
  \/ output
  \/ mode = "stream" /\ status # "pending"
  \/ mode = "document_ingest" /\ status = "progress"

(* Start evidence of the lease snapshot: marker, output, or a status only   *)
(* a started job can have.                                                  *)
BackendStarted ==
  \/ marker \/ output
  \/ mode = "stream" /\ status # "pending"
  \/ mode = "document_ingest" /\ status = "progress"

(* The lease is taken and the records are read in one script; what they     *)
(* hold decides the path.                                                   *)
AcquireLease(w) ==
  /\ pc[w] \in {"acquire", "reacquire"}
  /\ IF lease # NoLease
     THEN /\ Goto(w, "idle") /\ cur' = [cur EXCEPT ![w] = NoEntry]
          /\ UNCHANGED <<lease, intent>>
     ELSE
       /\ lease' = w
       /\ UNCHANGED cur
       /\ CASE status = "none" ->
                 Goto(w, "releaseGuards") /\ UNCHANGED intent
            [] Terminal ->
                 Goto(w, "ack") /\ UNCHANGED intent
            [] Live /\ ~request ->
                 StartFinalize(w, "failed", "releaseGuards")
            [] Live /\ request /\ BackendStarted ->
                 StartFinalize(w, IF abort THEN "stopped" ELSE "interrupted",
                               "ack")
            [] Live /\ request /\ ~BackendStarted /\ abort ->
                 StartFinalize(w, "stopped", "ack")
            [] Live /\ request /\ ~BackendStarted /\ ~abort
               /\ mode = "stream" /\ ~payload ->
                 StartFinalize(w, "failed", "ack")
            [] OTHER ->
                 /\ Goto(w, IF pc[w] = "reacquire" THEN "refresh"
                            ELSE "prepare")
                 /\ UNCHANGED intent
  /\ UNCHANGED <<status, records, abort, entries, sig, settlement, run,
                 caught, outside>>

(* A reclaimed job gets a backend again and its request is rewritten.       *)
RefreshBackend(w) ==
  /\ pc[w] = "refresh"
  /\ request' = TRUE
  /\ Goto(w, "prepare")
  /\ UNCHANGED <<status, payload, marker, abort, lease, entries, worker,
                 settlement, intent, outside>>

(* Heartbeat and stop poll start; ingestion reports itself as queued.       *)
Prepare(w) ==
  /\ pc[w] = "prepare"
  /\ run' = [run EXCEPT ![w] = "armed"]
  /\ status' = IF mode = "document_ingest" /\ Live THEN "streaming" ELSE status
  /\ Goto(w, "ready")
  /\ UNCHANGED <<records, abort, lease, entries, cur, settlement, sig,
                 caught, intent, outside>>

(* Mutant: the script checks only the lease.                                *)
MayStartStopped(w) == lease = w

(* beforeBackendRequest: one script checks lease and stop signal and writes *)
(* the start marker; only then may the request be sent.                     *)
MayStart(w) == lease = w /\ ~abort

MarkBackendStarted(w) ==
  /\ pc[w] = "ready" /\ sig[w] = "none"
  /\ \/ /\ ~MayStart(w)
        /\ sig' = [sig EXCEPT ![w] = IF lease # w THEN "lost" ELSE "user"]
        /\ UNCHANGED <<marker, run, pc>>
     \/ /\ MayStart(w)
        /\ marker' = TRUE
        /\ run' = [run EXCEPT ![w] = "started"]
        /\ Goto(w, "sending")
        /\ UNCHANGED sig
  /\ UNCHANGED <<status, request, payload, abort, lease, entries, cur,
                 settlement, caught, intent, outside>>

SendRequest(w) ==
  /\ pc[w] = "sending" /\ sig[w] = "none"
  /\ sent' = IF sent = 0 THEN 1 ELSE 2
  /\ Goto(w, "headers")
  /\ UNCHANGED <<redis, worker, intent, submission, stop, early, faults>>

(* Successful response headers move a chat job to `streaming`.              *)
Accepted(w) ==
  /\ pc[w] = "headers" /\ sig[w] = "none"
  /\ status' = IF mode = "stream" /\ Live THEN "streaming" ELSE status
  /\ Goto(w, "reading")
  /\ UNCHANGED <<records, abort, lease, entries, worker, settlement, intent,
                 outside>>

(* The reader persists output; an ingestion reader reports progress.        *)
Persist(w) ==
  /\ pc[w] = "reading" /\ sig[w] = "none"
  /\ IF mode = "stream"
     THEN output' = TRUE /\ UNCHANGED status
     ELSE status' = (IF Live THEN "progress" ELSE status) /\ UNCHANGED output
  /\ UNCHANGED <<records, abort, lease, entries, journal, admitted, local,
                 outside>>

(* The backend finished the run.                                            *)
RunCompleted(w) ==
  /\ pc[w] = "reading" /\ sig[w] = "none"
  /\ StartFinalize(w, "completed", "returned")
  /\ UNCHANGED <<redis, worker, outside>>

(* An error response is final as it is; ingestion throws it to its catch.   *)
RunRejected(w) ==
  /\ pc[w] = "headers" /\ sig[w] = "none" /\ mode = "stream"
  /\ StartFinalize(w, "failed", "returned")
  /\ UNCHANGED <<redis, worker, outside>>

(* Unreachable backend, error event, early EOF, connect or idle deadline, a *)
(* failed write of a delta, or an error response to ingestion.              *)
RunFailed(w) ==
  /\ pc[w] \in {"headers", "reading"} /\ sig[w] = "none"
  /\ Goto(w, "readerFail")
  /\ UNCHANGED <<redis, worker, intent, outside>>

(* The reader's catch clause: a stored stop signal makes its failure the    *)
(* user's Stop, unless that read fails too.                                 *)
ReaderFinalizes(w) ==
  /\ pc[w] = "readerFail" /\ sig[w] = "none"
  /\ \/ /\ StartFinalize(w, IF mode = "stream" /\ abort THEN "stopped"
                            ELSE "failed", "handled")
        /\ UNCHANGED faults
     \/ /\ mode = "stream" /\ Faulty
        /\ StartFinalize(w, "failed", "handled")
  /\ UNCHANGED <<redis, worker, submission, seen>>

(* An aborted controller ends the reader, which leaves finalization to the  *)
(* worker: it drops the output of a job that is already terminal, and saves *)
(* what it still holds of a live one.                                       *)
ReaderAborted(w) ==
  /\ pc[w] \in {"ready", "sending", "headers", "reading", "readerFail"}
  /\ sig[w] # "none"
  /\ output' \in CASE mode = "stream" /\ Terminal -> {FALSE}
                 [] mode = "stream" /\ ~Terminal /\ pc[w] = "reading" ->
                      {output, TRUE}
                 [] OTHER -> {output}
  /\ Goto(w, "catch")
  /\ UNCHANGED <<status, records, abort, lease, entries, journal, admitted,
                 worker, intent, outside>>

(* The reader returned: the status decides.                                 *)
Returned(w) ==
  /\ pc[w] = "returned"
  /\ \/ Terminal /\ Goto(w, "ack") /\ UNCHANGED intent
     \/ ~Terminal /\ sig[w] # "none" /\ Goto(w, "release")
        /\ UNCHANGED intent
     \/ ~Terminal /\ sig[w] = "none" /\ StartFinalize(w, "failed", "ack")
  /\ UNCHANGED <<redis, worker, outside>>

(* Mutant: a run that is left is acknowledged.                              *)
CatchAcknowledges(w) ==
  /\ pc[w] = "catch"
  /\ Goto(w, IF sig[w] # "none" THEN "ackForce" ELSE "load")
  /\ caught' = [caught EXCEPT ![w] = TRUE]
  /\ UNCHANGED <<redis, cur, sig, run, intent, outside>>

(* The worker's catch block.  Only a lease owner goes on to finalize a      *)
(* drained or stopped run; a drained run that never started is left.        *)
Catch(w) ==
  /\ pc[w] = "catch"
  /\ LET leave == \/ sig[w] = "lost"
                  \/ sig[w] = "drain" /\ (run[w] # "started" \/ lease # w)
                  \/ sig[w] = "user" /\ lease # w
     IN  Goto(w, IF leave THEN "release" ELSE "load")
  /\ caught' = [caught EXCEPT ![w] = TRUE]
  /\ UNCHANGED <<redis, cur, sig, run, intent, outside>>

(* What the catch block finalizes with, after reading status and request:   *)
(* the message of the error it caught, which for a stopped run is the stop  *)
(* or a call that failed meanwhile.                                         *)
CatchOutcomes(w) ==
  CASE sig[w] = "drain" -> {"interrupted"}
    [] sig[w] = "user" -> {"stopped", "failed"}
    [] OTHER -> {"failed"}

Load(w) ==
  /\ pc[w] = "load"
  /\ \/ Terminal /\ Goto(w, "ack") /\ UNCHANGED intent
     \/ ~Terminal /\ request
        /\ \E o \in CatchOutcomes(w) : StartFinalize(w, o, "ack")
     \/ Live /\ ~request /\ StartFinalize(w, "failed", "releaseGuards")
     \/ status = "none" /\ ~request /\ Goto(w, "releaseGuards")
        /\ UNCHANGED intent
  /\ UNCHANGED <<redis, worker, outside>>

(* Mutant: the records are gone, and nothing is released.                   *)
ReleaseGuardsSkipped(w) ==
  /\ pc[w] = "releaseGuards"
  /\ Goto(w, "ackForce")
  /\ UNCHANGED <<redis, worker, intent, outside>>

(* Slot and guard of a job whose records are gone are released from the     *)
(* queue entry's own owner fields, before the entry is acknowledged.        *)
ReleaseGuards(w) ==
  /\ pc[w] = "releaseGuards"
  /\ admitted' = FALSE
  /\ Goto(w, "ackForce")
  /\ UNCHANGED <<status, records, output, abort, lease, entries, journal,
                 worker, intent, outside>>

Acknowledge(w) ==
  /\ entries' = [entries EXCEPT ![cur[w]] = "acked"]
  /\ payload' = FALSE /\ marker' = FALSE

AckForce(w) ==
  /\ pc[w] = "ackForce"
  /\ Acknowledge(w)
  /\ Goto(w, "release")
  /\ UNCHANGED <<status, request, abort, lease, worker, settlement, intent,
                 outside>>

(* Mutant: the entry goes while the journal is still pending.               *)
AckTerminalUnsettled(w) ==
  /\ pc[w] = "ack"
  /\ Acknowledge(w)
  /\ Goto(w, "release")
  /\ UNCHANGED <<status, request, abort, lease, worker, settlement, intent,
                 outside>>

(* A terminal job's entry goes only once its journal is settled; a journal  *)
(* another finalizer keeps busy leaves the entry for a later reclaim.       *)
AckTerminal(w) ==
  /\ pc[w] = "ack"
  /\ \/ /\ CompleteJournal
        /\ UNCHANGED <<entries, payload, marker, pc, faults>>
     \/ /\ LockTaken(w)
        /\ Goto(w, "release")
        /\ UNCHANGED <<entries, payload, marker, settlement>>
     \/ /\ journal # "pending"
        /\ Acknowledge(w)
        /\ Goto(w, "release")
        /\ UNCHANGED <<settlement, faults>>
  /\ UNCHANGED <<status, request, abort, lease, worker, intent, submission,
                 seen>>

(* finally: the lease goes back if it is still this worker's.               *)
Idle(w) ==
  /\ Goto(w, "idle")
  /\ cur' = [cur EXCEPT ![w] = NoEntry]
  /\ sig' = [sig EXCEPT ![w] = "none"]
  /\ run' = [run EXCEPT ![w] = "none"]
  /\ caught' = [caught EXCEPT ![w] = FALSE]
  /\ Unclaim(w)

ReleaseLease(w) ==
  /\ pc[w] = "release"
  /\ lease' = IF lease = w THEN NoLease ELSE lease
  /\ Idle(w)
  /\ UNCHANGED <<status, records, abort, entries, outside, settlement>>

(***************************************************************************)
(* Signals to a running worker                                             *)
(***************************************************************************)

Signal(w, reason) ==
  /\ sig[w] = "none" /\ ~caught[w] /\ pc[w] # "release"
  /\ sig' = [sig EXCEPT ![w] = reason]
  /\ UNCHANGED <<redis, pc, cur, run, caught, intent, submission, seen>>

(* The heartbeat's renewal was refused: another token, or none, owns it.    *)
HeartbeatLost(w) ==
  run[w] # "none" /\ lease # w /\ Signal(w, "lost") /\ UNCHANGED faults

(* The stop poll saw the signal.                                            *)
PollStop(w) ==
  run[w] # "none" /\ abort /\ Signal(w, "user") /\ UNCHANGED faults

(***************************************************************************)
(* The user's Stop (cancelChatJob) and conversation deletion               *)
(***************************************************************************)

CancelStart ==
  /\ pc[Canceller] = "idle" /\ request /\ Live
  /\ Goto(Canceller, "signal")
  /\ UNCHANGED <<redis, worker, intent, outside>>

CancelSignal ==
  /\ pc[Canceller] = "signal"
  /\ abort' = TRUE /\ stop' = "job"
  /\ early' = (early \/ NoneStarted)
  /\ Goto(Canceller, "status")
  /\ UNCHANGED <<status, records, lease, entries, worker, settlement,
                 intent, submission, sent, faults>>

(* Status and presence are separate reads.  A worker that will see the stop *)
(* finalizes it; otherwise the canceller does.                              *)
CancelStatus ==
  /\ pc[Canceller] = "status"
  /\ Goto(Canceller, IF Live THEN "presence" ELSE "request")
  /\ UNCHANGED <<redis, worker, intent, outside>>

CancelPresence ==
  /\ pc[Canceller] = "presence"
  /\ Goto(Canceller, IF payload \/ lease # NoLease THEN "idle" ELSE "request")
  /\ UNCHANGED <<redis, worker, intent, outside>>

CancelRequest ==
  /\ pc[Canceller] = "request"
  /\ \/ request /\ StartFinalize(Canceller, "stopped", "delete")
     \/ ~request /\ Goto(Canceller, "idle") /\ UNCHANGED intent
  /\ UNCHANGED <<redis, worker, outside>>

(* A stop the canceller claimed itself takes request and payload with it.   *)
CancelDelete ==
  /\ pc[Canceller] = "delete"
  /\ request' = (request /\ msg[Canceller] # "stopped")
  /\ payload' = (payload /\ msg[Canceller] # "stopped")
  /\ Goto(Canceller, "idle")
  /\ msg' = [msg EXCEPT ![Canceller] = "none"]
  /\ UNCHANGED <<status, marker, abort, lease, entries, worker, settlement,
                 cont, outside>>

(* Deleting the conversation stores the stop signal of the job its guard    *)
(* names.                                                                   *)
DeleteConversation ==
  /\ admitted
  /\ abort' = TRUE /\ stop' = "job"
  /\ early' = (early \/ NoneStarted)
  /\ UNCHANGED <<status, records, lease, entries, local, settlement, submission,
                 sent, faults>>

(***************************************************************************)
(* Faults                                                                  *)
(***************************************************************************)

(* A process dies; its lease lives on until its TTL ends.                   *)
Crash(p) ==
  /\ Faulty
  /\ pc[p] # "idle"
  /\ lease' = IF lease = p THEN Orphan ELSE lease
  /\ IF p \in Workers THEN Idle(p)
     ELSE /\ Goto(p, "idle")
          /\ Unclaim(p)
          /\ UNCHANGED worker
  /\ UNCHANGED <<status, records, abort, entries, submission, settlement, seen>>

(* The lease of a paused or partitioned worker expires under it.            *)
LeaseExpires ==
  /\ Faulty
  /\ lease \in Workers
  /\ lease' = NoLease
  /\ UNCHANGED <<status, records, abort, entries, local, settlement, submission,
                 seen>>

(* The worker could not renew in time: its own deadline, never later than   *)
(* the lease's, has passed.                                                 *)
DeadlinePassed(w) == Faulty /\ run[w] # "none" /\ Signal(w, "lost")

(* The drain deadline aborts what is still running.                         *)
Drain(w) == Faulty /\ pc[w] # "idle" /\ Signal(w, "drain")

(* The reader is inside finalizeSuccess or finalizeError.                   *)
ReaderFinalizing(w) ==
  /\ pc[w] \in {"finalize", "claim", "settle"}
  /\ cont[w] \in {"returned", "handled"}

(* A Redis call throws, its effect committed or not.  The reader's catch    *)
(* clause finalizes whatever failed before it, a finalization included; the *)
(* failure of that finalization it swallows, and ingestion leaves to the    *)
(* worker.  The worker catches the first failure and leaves the entry on    *)
(* the second.                                                              *)
ThrowInReader(w) ==
  /\ Faulty
  /\ \/ /\ pc[w] = "ready" /\ sig[w] = "none"
        /\ marker' \in {marker, marker \/ MayStart(w)}
        /\ Goto(w, "readerFail")
     \/ /\ ReaderFinalizing(w)
        /\ Goto(w, CASE cont[w] = "returned" -> "readerFail"
                     [] cont[w] = "handled" /\ mode = "stream" -> "returned"
                     [] OTHER -> "catch")
        /\ UNCHANGED marker
  /\ Unclaim(w)
  /\ UNCHANGED <<status, request, payload, abort, lease, entries, worker,
                 settlement, submission, seen>>

ThrowInWorker(w) ==
  /\ Faulty
  /\ pc[w] \in {"refresh", "prepare", "finalize", "claim", "settle",
                "returned", "catch", "load", "releaseGuards", "ackForce",
                "ack"}
  /\ ~ReaderFinalizing(w)
  /\ Goto(w, IF caught[w] \/ pc[w] = "catch" THEN "release" ELSE "catch")
  /\ Unclaim(w)
  /\ UNCHANGED <<redis, worker, submission, seen>>

(* The call that takes or gives back the lease fails: the token may stay    *)
(* behind.                                                                  *)
LeaseCallFails(w) ==
  /\ Faulty
  /\ \/ /\ pc[w] \in {"acquire", "reacquire"}
        /\ lease' \in {lease, IF lease = NoLease THEN Orphan ELSE lease}
     \/ /\ pc[w] = "release"
        /\ lease' = IF lease = w THEN Orphan ELSE lease
  /\ Idle(w)
  /\ UNCHANGED <<status, records, abort, entries, submission, settlement, seen>>

(* Redis drops a record.                                                    *)
Lose(r) ==
  /\ status' = IF r = "status" THEN "none" ELSE status
  /\ request' = (request /\ r # "request")
  /\ payload' = (payload /\ r # "payload")
  /\ marker' = (marker /\ r # "marker")
  /\ abort' = (abort /\ r # "abort")
  /\ UNCHANGED <<output, lease, entries, admitted, local, submission, seen>>

Evict == Faulty /\ (\E r \in Evictable : Lose(r)) /\ UNCHANGED journal

(* An hour without a renewal: the records of a job nobody works on expire.  *)
(* Request and status are written and renewed together, the status last, so *)
(* the request goes first; the journal goes with the status.  The stop      *)
(* signal is written after them and renewed with them: it outlives them.    *)
Expire ==
  /\ \A p \in Procs : pc[p] = "idle"
  /\ lease = NoLease /\ submit # "sending"
  /\ \E r \in {"status", "request", "payload"} :
       /\ r = "status" => ~request
       /\ Lose(r)
       /\ journal' = IF r = "status" THEN "none" ELSE journal
  /\ UNCHANGED faults

(* The lease of a token nobody runs under reaches its TTL.                  *)
OrphanExpires ==
  /\ lease = Orphan
  /\ lease' = NoLease
  /\ UNCHANGED <<status, records, abort, entries, local, settlement, outside>>

(***************************************************************************)
(* Specification                                                           *)
(***************************************************************************)

(* What a process does by itself; each step ends an await.                  *)
Finalize(p) == RaiseAbort(p) \/ Claim(p) \/ Settle(p)

Execute(w) ==
  \/ AcquireLease(w) \/ RefreshBackend(w) \/ Prepare(w)
  \/ MarkBackendStarted(w) \/ SendRequest(w) \/ Accepted(w)
  \/ RunCompleted(w) \/ RunRejected(w) \/ RunFailed(w)
  \/ ReaderFinalizes(w) \/ ReaderAborted(w) \/ Returned(w)
  \/ Catch(w) \/ Load(w) \/ ReleaseGuards(w) \/ AckForce(w)
  \/ AckTerminal(w) \/ ReleaseLease(w) \/ Finalize(w)

Cancel ==
  \/ CancelStart \/ CancelSignal \/ CancelStatus \/ CancelPresence
  \/ CancelRequest \/ CancelDelete \/ Finalize(Canceller)

Submission ==
  \/ \E e \in Entries : Enqueue(e)
  \/ EnqueueReplied \/ EnqueueRejected \/ StopSubmission

Fault ==
  \/ \E p \in Procs : Crash(p)
  \/ \E w \in Workers : \/ DeadlinePassed(w) \/ Drain(w) \/ ThrowInReader(w)
                         \/ ThrowInWorker(w) \/ LeaseCallFails(w)
  \/ LeaseExpires \/ Evict

Next ==
  \/ Submission
  \/ \E w \in Workers :
       \/ \E e \in Entries : Dispatch(w, e) \/ DispatchDuplicate(w, e)
       \/ Execute(w) \/ Persist(w) \/ HeartbeatLost(w) \/ PollStop(w)
  \/ Cancel \/ DeleteConversation \/ StatusPoll
  \/ OrphanExpires \/ Expire \/ Fault

Spec == Init /\ [][Next]_vars

(* Timers and timeouts end every await: lease and stop heartbeats, connect  *)
(* and idle deadlines of the backend stream, bounded retries.  Workers keep *)
(* scanning for entries and Redis expires a lease nobody renews.  A Stop in *)
(* its finalization goes on, or its lock's TTL takes the lock from it.      *)
(* Nothing is assumed of users, of the submission or of status polls.       *)
Fairness ==
  /\ \A w \in Workers : /\ WF_vars(Execute(w))
                        /\ WF_vars(\E e \in Entries : Dispatch(w, e))
  /\ WF_vars(Finalize(Canceller)) /\ WF_vars(OrphanExpires)

FairSpec == Spec /\ Fairness

(***************************************************************************)
(* Properties                                                              *)
(***************************************************************************)

(* The backend request of a job is sent at most once, through crashes, lost *)
(* leases, reclaims and duplicate entries (streamWorker.ts: a started job   *)
(* must not replay tools).                                                  *)
NoReplay == sent <= 1

(* A stop signal stored before a worker was permitted to start keeps the    *)
(* request from ever being sent (streamQueue.ts, MARK_BACKEND_STARTED).     *)
StopWins == early => sent = 0

Queued(e) == entries[e] \in {"queued", "delivered"}

(* Workers acknowledged the job, queued once, and the queue holds nothing   *)
(* of it.  (Two workers that each run one entry of a job that was queued    *)
(* twice may each acknowledge the other's as a duplicate.)                  *)
Forgotten ==
  /\ \E e \in Entries : entries[e] = "acked"
  /\ \A e \in Entries : ~Queued(e)
  /\ \A d, e \in Entries :
       entries[d] # "unused" /\ entries[e] # "unused" => d = e

(* A live job keeps a queue entry another worker can recover it from        *)
(* (streamWorker.ts, dispatch and acknowledgeTerminalEntry).                *)
LiveJobQueued == Forgotten => ~Live

(* A job the queue has forgotten holds neither slot nor conversation guard: *)
(* finalization or the expired-record path released them first.             *)
NothingLeaks == Forgotten => ~admitted

(* Only a job its user stopped (or whose conversation was deleted) ends as  *)
(* "canceled by user".                                                      *)
StoppedByUser == status = "stopped" => stop # "none"

(* The job as its clients see it implements the abstract ChatJob.           *)
Outcome ==
  CASE Live -> "open" [] status = "none" -> "lost" [] OTHER -> status
Job == INSTANCE ChatJob WITH outcome <- Outcome, starts <- sent,
                             held <- admitted
JobSpec == Job!Spec

(* Every queued job ends: no live status and neither slot nor guard held.   *)
QueuedJobEnds ==
  (\E e \in Entries : Queued(e)) ~> (~Live /\ ~admitted)

(* Workers and queue entries are interchangeable (for TLC).                 *)
Symmetry == Permutations(Workers) \cup Permutations(Entries)
=============================================================================
