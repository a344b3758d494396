-------------------------- MODULE StreamJobProofs --------------------------
(***************************************************************************)
(* Proofs about StreamJob, for every number of workers, queue entries and  *)
(* faults: type correctness, StopWins, LiveJobQueued, NothingLeaks,        *)
(* NoReplay and the implementation of ChatJob.  The last two need the      *)
(* start marker to be safe from eviction: without it a reclaimed job whose *)
(* output is not yet written looks as if it had never started.  The two    *)
(* about the queue need the job to be queued once (OneEntry): two workers, *)
(* each busy with one entry of a job, may each acknowledge the other's.    *)
(*                                                                         *)
(* NoReplay is not inductive: that nobody sends a second time rests on the *)
(* marker being there for the next lease owner (StartEvident), on a lease  *)
(* owner before the marker being alone (OwnerFresh) and on the marker      *)
(* going only when the job is over (ClosedWhenSettling).  That nothing is  *)
(* forgotten rests on the journal standing for the outcome (Journaled) and *)
(* on records expiring only where nobody works (LostUnclaimed).            *)
(***************************************************************************)
EXTENDS StreamJob, TLAPS

(* A process about to claim knows its outcome and where it goes on.         *)
AimsKnown ==
  \A p \in Procs :
    /\ pc[p] \in {"finalize", "claim"} => msg[p] \in Outcomes
    /\ pc[p] \in {"finalize", "claim", "settle"} => cont[p] # "none"

(* Whoever settles, releases or acknowledges does so for a job that is over.*)
ClosedWhenSettling ==
  /\ \A p \in Procs :
       pc[p] \in {"settle", "ack", "releaseGuards", "ackForce"} => ~Live
  /\ journal = "pending" => ~Live

(* A stop signal stored before any start is still there, unless Redis may   *)
(* evict it, and nobody started.                                            *)
StopHeeded == "abort" \notin Evictable => (early => abort /\ NoneStarted)

(* A live job that was started has its start marker.                        *)
StartEvident == Live /\ ~NoneStarted => marker

(* The lease owner that has not passed the marker is alone: nobody started. *)
OwnerFresh ==
  \A w \in Workers :
    lease = w /\ pc[w] \in {"refresh", "prepare", "ready"} => NoneStarted

(* One worker at a time sends, and only the first request.                  *)
SingleSender ==
  /\ sent \in {0, 1}
  /\ \A w \in Workers : pc[w] = "sending" => sent = 0
  /\ \A v, w \in Workers : pc[v] = "sending" /\ pc[w] = "sending" => v = w

Flow == AimsKnown /\ ClosedWhenSettling /\ StopHeeded
FlowInv == TypeOK /\ Flow

Once == StartEvident /\ OwnerFresh /\ SingleSender
IInv == FlowInv /\ Once

(***************************************************************************)
(* Types                                                                   *)
(***************************************************************************)

LEMMA TypeInit == Init => TypeOK
<1> SUFFICES ASSUME Init PROVE TypeOK
  OBVIOUS
<1> USE DEF Init
<1>1. status \in LiveStatuses /\ mode \in {"stream", "document_ingest"}
  BY ModeAssumption DEF LiveStatuses
<1>2. faults \in 0..MaxFaults /\ sent \in 0..2
  BY FaultsAssumption
<1>3. pc \in [Procs -> PCs]
  BY DEF PCs
<1>4. msg \in [Procs -> Outcomes \cup {"none"}]
  OBVIOUS
<1>5. cont \in [Procs -> Conts]
  BY DEF Conts
<1>6. cur \in [Workers -> Entries \cup {NoEntry}]
  OBVIOUS
<1>7. entries \in [Entries -> {"unused", "queued", "delivered", "acked"}]
  OBVIOUS
<1> QED
  BY <1>1, <1>2, <1>3, <1>4, <1>5, <1>6, <1>7 DEF TypeOK

(* Every action keeps the types; AimsKnown is needed where a finalizer      *)
(* writes its outcome and goes on to its continuation.                      *)
LEMMA TypeStep == ASSUME TypeOK, AimsKnown, [Next]_vars PROVE TypeOK'
<1> USE FaultsAssumption, ProcsAssumption
    DEF TypeOK, AimsKnown, Goto, Procs, NoLease, Orphan, NoEntry,
        LiveStatuses, Outcomes, Live, Terminal, PCs, Conts,
        records, settlement, redis, worker, intent, local, seen,
        submission, outside
<1>1. ASSUME NEW e \in Entries, Enqueue(e) PROVE TypeOK'
  BY <1>1 DEF Enqueue, Faulty
<1>2. CASE EnqueueReplied
  BY <1>2 DEF EnqueueReplied
<1>3. CASE EnqueueRejected
  BY <1>3 DEF EnqueueRejected
<1>4. CASE StopSubmission
  BY <1>4 DEF StopSubmission
<1>5. ASSUME NEW p \in Procs, RaiseAbort(p) PROVE TypeOK'
  <2>1. abort' \in BOOLEAN /\ early' \in BOOLEAN
    BY <1>5 DEF RaiseAbort, NoneStarted
  <2>2. pc' \in [Procs -> PCs]
    BY <1>5 DEF RaiseAbort
  <2>3. faults' \in 0..MaxFaults
    BY <1>5 DEF RaiseAbort, Faulty
  <2> QED
    BY <1>5, <2>1, <2>2, <2>3 DEF RaiseAbort
<1>6. ASSUME NEW p \in Procs, Claim(p) PROVE TypeOK'
  BY <1>6 DEF Claim
<1>7. ASSUME NEW p \in Procs, Settle(p) PROVE TypeOK'
  <2>1. output' \in BOOLEAN /\ admitted' \in BOOLEAN /\ journal' \in {"none",
       "pending", "completed"}
    BY <1>7 DEF Settle, CompleteJournal
  <2>2. pc' \in [Procs -> PCs]
    BY <1>7 DEF Settle
  <2>3. msg' \in [Procs -> Outcomes \cup {"none"}]
    BY <1>7 DEF Settle
  <2>4. cont' \in [Procs -> Conts]
    BY <1>7 DEF Settle
  <2>5. faults' \in 0..MaxFaults
    BY <1>7 DEF Settle, CompleteJournal, LockTaken, Faulty
  <2> QED
    BY <1>7, <2>1, <2>2, <2>3, <2>4, <2>5 DEF Settle
<1>8. CASE StatusPoll
  <2>1. output' \in BOOLEAN /\ admitted' \in BOOLEAN /\ journal' \in {"none",
       "pending", "completed"}
    BY <1>8 DEF StatusPoll, CompleteJournal
  <2> QED
    BY <1>8, <2>1 DEF StatusPoll
<1>9. ASSUME NEW w \in Workers, NEW e \in Entries, Dispatch(w, e) PROVE TypeOK'
  BY <1>9 DEF Dispatch
<1>10. ASSUME NEW w \in Workers, NEW e \in Entries, DispatchDuplicate(w, e) PROVE TypeOK'
  BY <1>10 DEF DispatchDuplicate
<1>11. ASSUME NEW w \in Workers, AcquireLease(w) PROVE TypeOK'
  BY <1>11 DEF AcquireLease, StartFinalize, BackendStarted
<1>12. ASSUME NEW w \in Workers, RefreshBackend(w) PROVE TypeOK'
  BY <1>12 DEF RefreshBackend
<1>13. ASSUME NEW w \in Workers, Prepare(w) PROVE TypeOK'
  BY <1>13 DEF Prepare
<1>14. ASSUME NEW w \in Workers, MarkBackendStarted(w) PROVE TypeOK'
  <2>1. marker' \in BOOLEAN
    BY <1>14 DEF MarkBackendStarted
  <2>2. run' \in [Workers -> {"none", "armed", "started"}]
    BY <1>14 DEF MarkBackendStarted
  <2>3. pc' \in [Procs -> PCs]
    BY <1>14 DEF MarkBackendStarted
  <2>4. sig' \in [Workers -> {"none", "lost", "user", "drain"}]
    BY <1>14 DEF MarkBackendStarted
  <2> QED
    BY <1>14, <2>1, <2>2, <2>3, <2>4 DEF MarkBackendStarted
<1>15. ASSUME NEW w \in Workers, SendRequest(w) PROVE TypeOK'
  BY <1>15 DEF SendRequest
<1>16. ASSUME NEW w \in Workers, Accepted(w) PROVE TypeOK'
  BY <1>16 DEF Accepted
<1>17. ASSUME NEW w \in Workers, Persist(w) PROVE TypeOK'
  <2>1. output' \in BOOLEAN
    BY <1>17 DEF Persist
  <2> QED
    BY <1>17, <2>1 DEF Persist
<1>18. ASSUME NEW w \in Workers, RunCompleted(w) PROVE TypeOK'
  BY <1>18 DEF RunCompleted, StartFinalize
<1>19. ASSUME NEW w \in Workers, RunRejected(w) PROVE TypeOK'
  BY <1>19 DEF RunRejected, StartFinalize
<1>20. ASSUME NEW w \in Workers, RunFailed(w) PROVE TypeOK'
  BY <1>20 DEF RunFailed
<1>21. ASSUME NEW w \in Workers, ReaderFinalizes(w) PROVE TypeOK'
  BY <1>21 DEF ReaderFinalizes, StartFinalize, Faulty
<1>22. ASSUME NEW w \in Workers, ReaderAborted(w) PROVE TypeOK'
  <2>1. output' \in BOOLEAN
    BY <1>22 DEF ReaderAborted
  <2>2. pc' \in [Procs -> PCs]
    BY <1>22 DEF ReaderAborted
  <2> QED
    BY <1>22, <2>1, <2>2 DEF ReaderAborted
<1>23. ASSUME NEW w \in Workers, Returned(w) PROVE TypeOK'
  BY <1>23 DEF Returned, StartFinalize
<1>24. ASSUME NEW w \in Workers, Catch(w) PROVE TypeOK'
  BY <1>24 DEF Catch
<1>25. ASSUME NEW w \in Workers, Load(w) PROVE TypeOK'
  BY <1>25 DEF Load, StartFinalize, CatchOutcomes
<1>26. ASSUME NEW w \in Workers, ReleaseGuards(w) PROVE TypeOK'
  <2>1. admitted' \in BOOLEAN
    BY <1>26 DEF ReleaseGuards
  <2>2. pc' \in [Procs -> PCs]
    BY <1>26 DEF ReleaseGuards
  <2> QED
    BY <1>26, <2>1, <2>2 DEF ReleaseGuards
<1>27. ASSUME NEW w \in Workers, AckForce(w) PROVE TypeOK'
  <2>1. payload' \in BOOLEAN /\ marker' \in BOOLEAN
    BY <1>27 DEF AckForce, Acknowledge
  <2>2. entries' \in [Entries -> {"unused", "queued", "delivered", "acked"}]
    BY <1>27 DEF AckForce, Acknowledge
  <2>3. pc' \in [Procs -> PCs]
    BY <1>27 DEF AckForce
  <2> QED
    BY <1>27, <2>1, <2>2, <2>3 DEF AckForce
<1>28. ASSUME NEW w \in Workers, AckTerminal(w) PROVE TypeOK'
  <2>1. payload' \in BOOLEAN /\ marker' \in BOOLEAN /\ output' \in BOOLEAN /\
       admitted' \in BOOLEAN
    BY <1>28 DEF AckTerminal, Acknowledge, CompleteJournal
  <2>2. entries' \in [Entries -> {"unused", "queued", "delivered", "acked"}]
       /\ journal' \in {"none", "pending", "completed"}
    BY <1>28 DEF AckTerminal, Acknowledge, CompleteJournal
  <2>3. pc' \in [Procs -> PCs]
    BY <1>28 DEF AckTerminal
  <2>4. faults' \in 0..MaxFaults
    BY <1>28 DEF AckTerminal, LockTaken, Faulty
  <2> QED
    BY <1>28, <2>1, <2>2, <2>3, <2>4 DEF AckTerminal
<1>29. ASSUME NEW w \in Workers, ReleaseLease(w) PROVE TypeOK'
  BY <1>29 DEF ReleaseLease, Idle, Unclaim
<1>30. ASSUME NEW w \in Workers, HeartbeatLost(w) PROVE TypeOK'
  BY <1>30 DEF HeartbeatLost, Signal
<1>31. ASSUME NEW w \in Workers, PollStop(w) PROVE TypeOK'
  BY <1>31 DEF PollStop, Signal
<1>32. CASE CancelStart
  BY <1>32 DEF CancelStart
<1>33. CASE CancelSignal
  BY <1>33 DEF CancelSignal
<1>34. CASE CancelStatus
  BY <1>34 DEF CancelStatus
<1>35. CASE CancelPresence
  BY <1>35 DEF CancelPresence
<1>36. CASE CancelRequest
  BY <1>36 DEF CancelRequest, StartFinalize
<1>37. CASE CancelDelete
  BY <1>37 DEF CancelDelete
<1>38. CASE DeleteConversation
  BY <1>38 DEF DeleteConversation
<1>39. ASSUME NEW p \in Procs, Crash(p) PROVE TypeOK'
  <2>1. lease' \in Workers \cup {NoLease, Orphan}
    BY <1>39 DEF Crash
  <2>2. pc' \in [Procs -> PCs]
    BY <1>39 DEF Crash, Idle
  <2>3. msg' \in [Procs -> Outcomes \cup {"none"}] /\ cont' \in [Procs -> Conts]
    BY <1>39 DEF Crash, Idle, Unclaim
  <2>4. cur' \in [Workers -> Entries \cup {NoEntry}] /\ sig' \in [Workers ->
       {"none", "lost", "user", "drain"}]
    BY <1>39 DEF Crash, Idle
  <2>5. run' \in [Workers -> {"none", "armed", "started"}] /\ caught' \in
       [Workers -> BOOLEAN]
    <3>1. \/ run' = run /\ caught' = caught
          \/ /\ p \in Workers /\ run' = [run EXCEPT ![p] = "none"]
             /\ caught' = [caught EXCEPT ![p] = FALSE]
      BY <1>39 DEF Crash, Idle
    <3>2. run' \in [Workers -> {"none", "armed", "started"}]
      BY <3>1
    <3>3. caught \in [Workers -> BOOLEAN]
      OBVIOUS
    <3>4. caught' \in [Workers -> BOOLEAN]
      BY ONLY <3>1, <3>3, Zenon
    <3> QED
      BY <3>2, <3>4
  <2>6. faults' \in 0..MaxFaults
    BY <1>39 DEF Crash, Faulty
  <2> QED
    BY <1>39, <2>1, <2>2, <2>3, <2>4, <2>5, <2>6 DEF Crash
<1>40. CASE LeaseExpires
  BY <1>40 DEF LeaseExpires, Faulty
<1>41. ASSUME NEW w \in Workers, DeadlinePassed(w) PROVE TypeOK'
  BY <1>41 DEF DeadlinePassed, Signal, Faulty
<1>42. ASSUME NEW w \in Workers, Drain(w) PROVE TypeOK'
  BY <1>42 DEF Drain, Signal, Faulty
<1>43. ASSUME NEW w \in Workers, ThrowInReader(w) PROVE TypeOK'
  <2>1. marker' \in BOOLEAN
    BY <1>43 DEF ThrowInReader
  <2>2. pc' \in [Procs -> PCs]
    BY <1>43 DEF ThrowInReader
  <2>3. msg' \in [Procs -> Outcomes \cup {"none"}] /\ cont' \in [Procs -> Conts]
    BY <1>43 DEF ThrowInReader, Unclaim
  <2>4. faults' \in 0..MaxFaults
    BY <1>43 DEF ThrowInReader, Faulty
  <2> QED
    BY <1>43, <2>1, <2>2, <2>3, <2>4 DEF ThrowInReader
<1>44. ASSUME NEW w \in Workers, ThrowInWorker(w) PROVE TypeOK'
  BY <1>44 DEF ThrowInWorker, ReaderFinalizing, Unclaim, Faulty
<1>45. ASSUME NEW w \in Workers, LeaseCallFails(w) PROVE TypeOK'
  BY <1>45 DEF LeaseCallFails, Idle, Unclaim, Faulty
<1>46. CASE Evict
  BY <1>46 DEF Evict, Lose, Faulty
<1>47. CASE Expire
  BY <1>47 DEF Expire, Lose
<1>48. CASE OrphanExpires
  BY <1>48 DEF OrphanExpires
<1>49. CASE UNCHANGED vars
  BY <1>49 DEF vars
<1> QED
  BY <1>1, <1>2, <1>3, <1>4, <1>5, <1>6, <1>7, <1>8, <1>9, <1>10, <1>11,
     <1>12, <1>13, <1>14, <1>15, <1>16, <1>17, <1>18, <1>19, <1>20, <1>21,
     <1>22, <1>23, <1>24, <1>25, <1>26, <1>27, <1>28, <1>29, <1>30, <1>31,
     <1>32, <1>33, <1>34, <1>35, <1>36, <1>37, <1>38, <1>39, <1>40, <1>41,
     <1>42, <1>43, <1>44, <1>45, <1>46, <1>47, <1>48, <1>49
  DEF Next, Submission, Execute, Finalize, Cancel, Fault

(***************************************************************************)
(* Control flow and the stop signal                                        *)
(***************************************************************************)

LEMMA FlowInit == Init => Flow
  BY DEF Init, Flow, AimsKnown, ClosedWhenSettling, StopHeeded, Procs

(* No action revives a job that is over, and none withdraws a stop signal.  *)
LEMMA FlowStep == ASSUME FlowInv, [Next]_vars PROVE Flow'
<1> USE ProcsAssumption, LeaseAssumption
    DEF FlowInv, TypeOK, Flow, AimsKnown, ClosedWhenSettling, StopHeeded,
        NoneStarted, Goto, Procs, NoLease, Orphan, NoEntry, LiveStatuses,
        Outcomes, Live, Terminal, PCs, Conts,
        records, settlement, redis, worker, intent, local, seen,
        submission, outside
<1>1. ASSUME NEW e \in Entries, Enqueue(e) PROVE Flow'
  BY <1>1 DEF Enqueue, Faulty
<1>2. CASE EnqueueReplied
  BY <1>2 DEF EnqueueReplied
<1>3. CASE EnqueueRejected
  BY <1>3 DEF EnqueueRejected
<1>4. CASE StopSubmission
  BY <1>4 DEF StopSubmission
<1>5. ASSUME NEW p \in Procs, RaiseAbort(p) PROVE Flow'
  BY <1>5 DEF RaiseAbort, Faulty
<1>6. ASSUME NEW p \in Procs, Claim(p) PROVE Flow'
  BY <1>6 DEF Claim
<1>7. ASSUME NEW p \in Procs, Settle(p) PROVE Flow'
  BY <1>7 DEF Settle, CompleteJournal, LockTaken, Faulty
<1>8. CASE StatusPoll
  BY <1>8 DEF StatusPoll, CompleteJournal
<1>9. ASSUME NEW w \in Workers, NEW e \in Entries, Dispatch(w, e) PROVE Flow'
  BY <1>9 DEF Dispatch
<1>10. ASSUME NEW w \in Workers, NEW e \in Entries, DispatchDuplicate(w, e) PROVE Flow'
  BY <1>10 DEF DispatchDuplicate
<1>11. ASSUME NEW w \in Workers, AcquireLease(w) PROVE Flow'
  BY <1>11 DEF AcquireLease, StartFinalize, BackendStarted
<1>12. ASSUME NEW w \in Workers, RefreshBackend(w) PROVE Flow'
  BY <1>12 DEF RefreshBackend
<1>13. ASSUME NEW w \in Workers, Prepare(w) PROVE Flow'
  BY <1>13 DEF Prepare
<1>14. ASSUME NEW w \in Workers, MarkBackendStarted(w) PROVE Flow'
  BY <1>14 DEF MarkBackendStarted, MayStart
<1>15. ASSUME NEW w \in Workers, SendRequest(w) PROVE Flow'
  BY <1>15 DEF SendRequest
<1>16. ASSUME NEW w \in Workers, Accepted(w) PROVE Flow'
  BY <1>16 DEF Accepted
<1>17. ASSUME NEW w \in Workers, Persist(w) PROVE Flow'
  BY <1>17 DEF Persist
<1>18. ASSUME NEW w \in Workers, RunCompleted(w) PROVE Flow'
  BY <1>18 DEF RunCompleted, StartFinalize
<1>19. ASSUME NEW w \in Workers, RunRejected(w) PROVE Flow'
  BY <1>19 DEF RunRejected, StartFinalize
<1>20. ASSUME NEW w \in Workers, RunFailed(w) PROVE Flow'
  BY <1>20 DEF RunFailed
<1>21. ASSUME NEW w \in Workers, ReaderFinalizes(w) PROVE Flow'
  BY <1>21 DEF ReaderFinalizes, StartFinalize, Faulty
<1>22. ASSUME NEW w \in Workers, ReaderAborted(w) PROVE Flow'
  BY <1>22 DEF ReaderAborted
<1>23. ASSUME NEW w \in Workers, Returned(w) PROVE Flow'
  BY <1>23 DEF Returned, StartFinalize
<1>24. ASSUME NEW w \in Workers, Catch(w) PROVE Flow'
  BY <1>24 DEF Catch
<1>25. ASSUME NEW w \in Workers, Load(w) PROVE Flow'
  BY <1>25 DEF Load, StartFinalize, CatchOutcomes
<1>26. ASSUME NEW w \in Workers, ReleaseGuards(w) PROVE Flow'
  BY <1>26 DEF ReleaseGuards
<1>27. ASSUME NEW w \in Workers, AckForce(w) PROVE Flow'
  BY <1>27 DEF AckForce, Acknowledge
<1>28. ASSUME NEW w \in Workers, AckTerminal(w) PROVE Flow'
  BY <1>28 DEF AckTerminal, Acknowledge, CompleteJournal, LockTaken, Faulty
<1>29. ASSUME NEW w \in Workers, ReleaseLease(w) PROVE Flow'
  BY <1>29 DEF ReleaseLease, Idle, Unclaim
<1>30. ASSUME NEW w \in Workers, HeartbeatLost(w) PROVE Flow'
  BY <1>30 DEF HeartbeatLost, Signal
<1>31. ASSUME NEW w \in Workers, PollStop(w) PROVE Flow'
  BY <1>31 DEF PollStop, Signal
<1>32. CASE CancelStart
  BY <1>32 DEF CancelStart
<1>33. CASE CancelSignal
  BY <1>33 DEF CancelSignal
<1>34. CASE CancelStatus
  BY <1>34 DEF CancelStatus
<1>35. CASE CancelPresence
  BY <1>35 DEF CancelPresence
<1>36. CASE CancelRequest
  BY <1>36 DEF CancelRequest, StartFinalize
<1>37. CASE CancelDelete
  BY <1>37 DEF CancelDelete
<1>38. CASE DeleteConversation
  BY <1>38 DEF DeleteConversation
<1>39. ASSUME NEW p \in Procs, Crash(p) PROVE Flow'
  BY <1>39 DEF Crash, Idle, Unclaim, Faulty
<1>40. CASE LeaseExpires
  BY <1>40 DEF LeaseExpires, Faulty
<1>41. ASSUME NEW w \in Workers, DeadlinePassed(w) PROVE Flow'
  BY <1>41 DEF DeadlinePassed, Signal, Faulty
<1>42. ASSUME NEW w \in Workers, Drain(w) PROVE Flow'
  BY <1>42 DEF Drain, Signal, Faulty
<1>43. ASSUME NEW w \in Workers, ThrowInReader(w) PROVE Flow'
  BY <1>43 DEF ThrowInReader, ReaderFinalizing, Unclaim, MayStart, Faulty
<1>44. ASSUME NEW w \in Workers, ThrowInWorker(w) PROVE Flow'
  BY <1>44 DEF ThrowInWorker, ReaderFinalizing, Unclaim, Faulty
<1>45. ASSUME NEW w \in Workers, LeaseCallFails(w) PROVE Flow'
  BY <1>45 DEF LeaseCallFails, Idle, Unclaim, Faulty
<1>46. CASE Evict
  BY <1>46 DEF Evict, Lose, Faulty
<1>47. CASE Expire
  BY <1>47 DEF Expire, Lose
<1>48. CASE OrphanExpires
  BY <1>48 DEF OrphanExpires
<1>49. CASE UNCHANGED vars
  BY <1>49 DEF vars
<1> QED
  BY <1>1, <1>2, <1>3, <1>4, <1>5, <1>6, <1>7, <1>8, <1>9, <1>10, <1>11,
     <1>12, <1>13, <1>14, <1>15, <1>16, <1>17, <1>18, <1>19, <1>20, <1>21,
     <1>22, <1>23, <1>24, <1>25, <1>26, <1>27, <1>28, <1>29, <1>30, <1>31,
     <1>32, <1>33, <1>34, <1>35, <1>36, <1>37, <1>38, <1>39, <1>40, <1>41,
     <1>42, <1>43, <1>44, <1>45, <1>46, <1>47, <1>48, <1>49
  DEF Next, Submission, Execute, Finalize, Cancel, Fault

LEMMA FlowInvariant == Spec => []FlowInv
<1>1. Init => FlowInv
  BY TypeInit, FlowInit DEF FlowInv
<1>2. FlowInv /\ [Next]_vars => FlowInv'
  BY TypeStep, FlowStep DEF FlowInv, Flow
<1> QED
  BY <1>1, <1>2, PTL DEF Spec

(* The records of a chat job and the local state of its workers keep their  *)
(* types, whatever crashes, expires or is evicted.                          *)
THEOREM TypeCorrect == Spec => []TypeOK
<1>1. FlowInv => TypeOK
  BY DEF FlowInv
<1> QED
  BY <1>1, FlowInvariant, PTL

(* A stop signal stored before any worker was permitted to start keeps the  *)
(* backend request from ever being sent (MARK_BACKEND_STARTED reads lease   *)
(* and stop signal in one script), as long as Redis keeps the stop signal:  *)
(* request, payload and start marker may be evicted, the stop signal not.   *)
THEOREM StopAlwaysWins ==
  ASSUME "abort" \notin Evictable PROVE Spec => []StopWins
<1>1. FlowInv => StopWins
  BY DEF FlowInv, Flow, StopHeeded, StopWins, NoneStarted
<1> QED
  BY <1>1, FlowInvariant, PTL

(***************************************************************************)
(* The queue forgets only what is over                                     *)
(***************************************************************************)

(* A worker that is busy knows its entry.                                   *)
BusyHasEntry == \A w \in Workers : pc[w] # "idle" => cur[w] \in Entries

(* An outcome and its journal are written and expire together, and the      *)
(* completed journal has released slot and guard.                           *)
Journaled ==
  /\ Terminal <=> journal # "none"
  /\ journal = "completed" => ~admitted

(* Whoever acknowledges by force has released slot and guard before.        *)
ReleasedFirst == \A w \in Workers : pc[w] = "ackForce" => ~admitted

(* The records of a job that still holds its slot expire only while nobody  *)
(* works on it, the request first; who finds it so takes the way of the     *)
(* expired record.                                                          *)
LostUnclaimed ==
  status = "none" /\ admitted =>
    /\ ~request
    /\ \A p \in Procs : pc[p] \in {"idle", "acquire", "reacquire",
                                   "releaseGuards", "catch", "load", "release"}

(* An acknowledged job is over and holds nothing.                           *)
AckedOver == \A e \in Entries : entries[e] = "acked" => ~Live /\ ~admitted

Settled ==
  BusyHasEntry /\ Journaled /\ ReleasedFirst /\ LostUnclaimed /\ AckedOver

(* The present client queues a job once.                                    *)
OneEntry == \A d, e \in Entries : d = e

LEMMA SettledInit == Init => Settled
  BY ModeAssumption
  DEF Init, Settled, BusyHasEntry, Journaled, ReleasedFirst, LostUnclaimed,
      AckedOver, Terminal, Outcomes, Procs

LEMMA SettledStep ==
  ASSUME OneEntry, FlowInv, Settled, [Next]_vars PROVE Settled'
<1> USE ProcsAssumption, EvictableAssumption, EntryAssumption
    DEF FlowInv, TypeOK, Flow, AimsKnown, ClosedWhenSettling, OneEntry,
        Settled, BusyHasEntry, Journaled, ReleasedFirst, LostUnclaimed,
        AckedOver, Goto, Procs, NoEntry, LiveStatuses, Outcomes, Live,
        Terminal, PCs, Conts,
        records, settlement, redis, worker, intent, local, seen,
        submission, outside
<1>1. ASSUME NEW e \in Entries, Enqueue(e) PROVE Settled'
  BY <1>1 DEF Enqueue, Faulty
<1>2. CASE EnqueueReplied
  BY <1>2 DEF EnqueueReplied
<1>3. CASE EnqueueRejected
  BY <1>3 DEF EnqueueRejected
<1>4. CASE StopSubmission
  BY <1>4 DEF StopSubmission
<1>5. ASSUME NEW p \in Procs, RaiseAbort(p) PROVE Settled'
  BY <1>5 DEF RaiseAbort, Faulty
<1>6. ASSUME NEW p \in Procs, Claim(p) PROVE Settled'
  BY <1>6 DEF Claim
<1>7. ASSUME NEW p \in Procs, Settle(p) PROVE Settled'
  BY <1>7 DEF Settle, CompleteJournal, LockTaken, Faulty
<1>8. CASE StatusPoll
  BY <1>8 DEF StatusPoll, CompleteJournal
<1>9. ASSUME NEW w \in Workers, NEW e \in Entries, Dispatch(w, e) PROVE Settled'
  BY <1>9 DEF Dispatch
<1>10. ASSUME NEW w \in Workers, NEW e \in Entries, DispatchDuplicate(w, e) PROVE Settled'
  BY <1>10 DEF DispatchDuplicate
<1>11. ASSUME NEW w \in Workers, AcquireLease(w) PROVE Settled'
  BY <1>11 DEF AcquireLease, StartFinalize, BackendStarted
<1>12. ASSUME NEW w \in Workers, RefreshBackend(w) PROVE Settled'
  BY <1>12 DEF RefreshBackend
<1>13. ASSUME NEW w \in Workers, Prepare(w) PROVE Settled'
  BY <1>13 DEF Prepare
<1>14. ASSUME NEW w \in Workers, MarkBackendStarted(w) PROVE Settled'
  BY <1>14 DEF MarkBackendStarted, MayStart
<1>15. ASSUME NEW w \in Workers, SendRequest(w) PROVE Settled'
  BY <1>15 DEF SendRequest
<1>16. ASSUME NEW w \in Workers, Accepted(w) PROVE Settled'
  BY <1>16 DEF Accepted
<1>17. ASSUME NEW w \in Workers, Persist(w) PROVE Settled'
  BY <1>17 DEF Persist
<1>18. ASSUME NEW w \in Workers, RunCompleted(w) PROVE Settled'
  BY <1>18 DEF RunCompleted, StartFinalize
<1>19. ASSUME NEW w \in Workers, RunRejected(w) PROVE Settled'
  BY <1>19 DEF RunRejected, StartFinalize
<1>20. ASSUME NEW w \in Workers, RunFailed(w) PROVE Settled'
  BY <1>20 DEF RunFailed
<1>21. ASSUME NEW w \in Workers, ReaderFinalizes(w) PROVE Settled'
  BY <1>21 DEF ReaderFinalizes, StartFinalize, Faulty
<1>22. ASSUME NEW w \in Workers, ReaderAborted(w) PROVE Settled'
  BY <1>22 DEF ReaderAborted
<1>23. ASSUME NEW w \in Workers, Returned(w) PROVE Settled'
  BY <1>23 DEF Returned, StartFinalize
<1>24. ASSUME NEW w \in Workers, Catch(w) PROVE Settled'
  BY <1>24 DEF Catch
<1>25. ASSUME NEW w \in Workers, Load(w) PROVE Settled'
  BY <1>25 DEF Load, StartFinalize, CatchOutcomes
<1>26. ASSUME NEW w \in Workers, ReleaseGuards(w) PROVE Settled'
  BY <1>26 DEF ReleaseGuards
<1>27. ASSUME NEW w \in Workers, AckForce(w) PROVE Settled'
  BY <1>27 DEF AckForce, Acknowledge
<1>28. ASSUME NEW w \in Workers, AckTerminal(w) PROVE Settled'
  BY <1>28 DEF AckTerminal, Acknowledge, CompleteJournal, LockTaken, Faulty
<1>29. ASSUME NEW w \in Workers, ReleaseLease(w) PROVE Settled'
  BY <1>29 DEF ReleaseLease, Idle, Unclaim
<1>30. ASSUME NEW w \in Workers, HeartbeatLost(w) PROVE Settled'
  BY <1>30 DEF HeartbeatLost, Signal
<1>31. ASSUME NEW w \in Workers, PollStop(w) PROVE Settled'
  BY <1>31 DEF PollStop, Signal
<1>32. CASE CancelStart
  BY <1>32 DEF CancelStart
<1>33. CASE CancelSignal
  BY <1>33 DEF CancelSignal
<1>34. CASE CancelStatus
  BY <1>34 DEF CancelStatus
<1>35. CASE CancelPresence
  BY <1>35 DEF CancelPresence
<1>36. CASE CancelRequest
  BY <1>36 DEF CancelRequest, StartFinalize
<1>37. CASE CancelDelete
  BY <1>37 DEF CancelDelete
<1>38. CASE DeleteConversation
  BY <1>38 DEF DeleteConversation
<1>39. ASSUME NEW p \in Procs, Crash(p) PROVE Settled'
  BY <1>39 DEF Crash, Idle, Unclaim, Faulty
<1>40. CASE LeaseExpires
  BY <1>40 DEF LeaseExpires, Faulty
<1>41. ASSUME NEW w \in Workers, DeadlinePassed(w) PROVE Settled'
  BY <1>41 DEF DeadlinePassed, Signal, Faulty
<1>42. ASSUME NEW w \in Workers, Drain(w) PROVE Settled'
  BY <1>42 DEF Drain, Signal, Faulty
<1>43. ASSUME NEW w \in Workers, ThrowInReader(w) PROVE Settled'
  BY <1>43 DEF ThrowInReader, ReaderFinalizing, Unclaim, MayStart, Faulty
<1>44. ASSUME NEW w \in Workers, ThrowInWorker(w) PROVE Settled'
  BY <1>44 DEF ThrowInWorker, ReaderFinalizing, Unclaim, Faulty
<1>45. ASSUME NEW w \in Workers, LeaseCallFails(w) PROVE Settled'
  BY <1>45 DEF LeaseCallFails, Idle, Unclaim, Faulty
<1>46. CASE Evict
  BY <1>46 DEF Evict, Lose, Faulty
<1>47. CASE Expire
  BY <1>47 DEF Expire, Lose
<1>48. CASE OrphanExpires
  BY <1>48 DEF OrphanExpires
<1>49. CASE UNCHANGED vars
  BY <1>49 DEF vars
<1> QED
  BY <1>1, <1>2, <1>3, <1>4, <1>5, <1>6, <1>7, <1>8, <1>9, <1>10, <1>11,
     <1>12, <1>13, <1>14, <1>15, <1>16, <1>17, <1>18, <1>19, <1>20, <1>21,
     <1>22, <1>23, <1>24, <1>25, <1>26, <1>27, <1>28, <1>29, <1>30, <1>31,
     <1>32, <1>33, <1>34, <1>35, <1>36, <1>37, <1>38, <1>39, <1>40, <1>41,
     <1>42, <1>43, <1>44, <1>45, <1>46, <1>47, <1>48, <1>49
  DEF Next, Submission, Execute, Finalize, Cancel, Fault

LEMMA SettledInvariant ==
  ASSUME OneEntry PROVE Spec => []Settled
<1>1. Init => Settled
  BY SettledInit
<1>2. FlowInv /\ Settled /\ [Next]_vars => Settled'
  BY SettledStep
<1> QED
  BY <1>1, <1>2, FlowInvariant, PTL DEF Spec

(* A job its workers acknowledged has an outcome or lost its records: a     *)
(* live job always keeps an entry another worker recovers it from, whatever *)
(* crashes, expires or is evicted (acknowledgeTerminalEntry).               *)
THEOREM LiveJobsRecoverable ==
  ASSUME OneEntry PROVE Spec => []LiveJobQueued
<1>1. Settled => LiveJobQueued
  BY DEF Settled, AckedOver, LiveJobQueued, Forgotten
<1> QED
  BY <1>1, SettledInvariant, PTL

(* A job the queue has forgotten holds neither its chat slot nor its        *)
(* conversation guard (the journal, or releaseGuardsForExpiredJob).         *)
THEOREM NothingIsLeaked ==
  ASSUME OneEntry PROVE Spec => []NothingLeaks
<1>1. Settled => NothingLeaks
  BY DEF Settled, AckedOver, NothingLeaks, Forgotten
<1> QED
  BY <1>1, SettledInvariant, PTL

(***************************************************************************)
(* At most one backend request                                             *)
(***************************************************************************)

LEMMA OnceInit == Init => Once
  BY DEF Init, Once, StartEvident, OwnerFresh, SingleSender, NoneStarted, Procs

(* Nothing but the acknowledgement of a job that is over removes a marker   *)
(* that is not evictable, so the lease snapshot of a live job that was      *)
(* started always shows it, and no second owner gets as far as "ready".     *)
LEMMA OnceStep ==
  ASSUME "marker" \notin Evictable, IInv, [Next]_vars PROVE Once'
<1> USE ProcsAssumption, LeaseAssumption
    DEF IInv, FlowInv, TypeOK, Flow, AimsKnown, ClosedWhenSettling, Once,
        StartEvident, OwnerFresh, SingleSender, NoneStarted, Goto, Procs,
        NoLease, Orphan, NoEntry, LiveStatuses, Outcomes, Live, Terminal, PCs, Conts,
        records, settlement, redis, worker, intent, local, seen,
        submission, outside
<1>1. ASSUME NEW e \in Entries, Enqueue(e) PROVE Once'
  BY <1>1 DEF Enqueue, Faulty
<1>2. CASE EnqueueReplied
  BY <1>2 DEF EnqueueReplied
<1>3. CASE EnqueueRejected
  BY <1>3 DEF EnqueueRejected
<1>4. CASE StopSubmission
  BY <1>4 DEF StopSubmission
<1>5. ASSUME NEW p \in Procs, RaiseAbort(p) PROVE Once'
  BY <1>5 DEF RaiseAbort, Faulty
<1>6. ASSUME NEW p \in Procs, Claim(p) PROVE Once'
  BY <1>6 DEF Claim
<1>7. ASSUME NEW p \in Procs, Settle(p) PROVE Once'
  BY <1>7 DEF Settle, CompleteJournal, LockTaken, Faulty
<1>8. CASE StatusPoll
  BY <1>8 DEF StatusPoll, CompleteJournal
<1>9. ASSUME NEW w \in Workers, NEW e \in Entries, Dispatch(w, e) PROVE Once'
  BY <1>9 DEF Dispatch
<1>10. ASSUME NEW w \in Workers, NEW e \in Entries, DispatchDuplicate(w, e) PROVE Once'
  BY <1>10 DEF DispatchDuplicate
<1>11. ASSUME NEW w \in Workers, AcquireLease(w) PROVE Once'
  BY <1>11 DEF AcquireLease, StartFinalize, BackendStarted
<1>12. ASSUME NEW w \in Workers, RefreshBackend(w) PROVE Once'
  BY <1>12 DEF RefreshBackend
<1>13. ASSUME NEW w \in Workers, Prepare(w) PROVE Once'
  BY <1>13 DEF Prepare
<1>14. ASSUME NEW w \in Workers, MarkBackendStarted(w) PROVE Once'
  BY <1>14 DEF MarkBackendStarted, MayStart
<1>15. ASSUME NEW w \in Workers, SendRequest(w) PROVE Once'
  BY <1>15 DEF SendRequest
<1>16. ASSUME NEW w \in Workers, Accepted(w) PROVE Once'
  BY <1>16 DEF Accepted
<1>17. ASSUME NEW w \in Workers, Persist(w) PROVE Once'
  BY <1>17 DEF Persist
<1>18. ASSUME NEW w \in Workers, RunCompleted(w) PROVE Once'
  BY <1>18 DEF RunCompleted, StartFinalize
<1>19. ASSUME NEW w \in Workers, RunRejected(w) PROVE Once'
  BY <1>19 DEF RunRejected, StartFinalize
<1>20. ASSUME NEW w \in Workers, RunFailed(w) PROVE Once'
  BY <1>20 DEF RunFailed
<1>21. ASSUME NEW w \in Workers, ReaderFinalizes(w) PROVE Once'
  BY <1>21 DEF ReaderFinalizes, StartFinalize, Faulty
<1>22. ASSUME NEW w \in Workers, ReaderAborted(w) PROVE Once'
  BY <1>22 DEF ReaderAborted
<1>23. ASSUME NEW w \in Workers, Returned(w) PROVE Once'
  BY <1>23 DEF Returned, StartFinalize
<1>24. ASSUME NEW w \in Workers, Catch(w) PROVE Once'
  BY <1>24 DEF Catch
<1>25. ASSUME NEW w \in Workers, Load(w) PROVE Once'
  BY <1>25 DEF Load, StartFinalize, CatchOutcomes
<1>26. ASSUME NEW w \in Workers, ReleaseGuards(w) PROVE Once'
  BY <1>26 DEF ReleaseGuards
<1>27. ASSUME NEW w \in Workers, AckForce(w) PROVE Once'
  BY <1>27 DEF AckForce, Acknowledge
<1>28. ASSUME NEW w \in Workers, AckTerminal(w) PROVE Once'
  BY <1>28 DEF AckTerminal, Acknowledge, CompleteJournal, LockTaken, Faulty
<1>29. ASSUME NEW w \in Workers, ReleaseLease(w) PROVE Once'
  BY <1>29 DEF ReleaseLease, Idle, Unclaim
<1>30. ASSUME NEW w \in Workers, HeartbeatLost(w) PROVE Once'
  BY <1>30 DEF HeartbeatLost, Signal
<1>31. ASSUME NEW w \in Workers, PollStop(w) PROVE Once'
  BY <1>31 DEF PollStop, Signal
<1>32. CASE CancelStart
  BY <1>32 DEF CancelStart
<1>33. CASE CancelSignal
  BY <1>33 DEF CancelSignal
<1>34. CASE CancelStatus
  BY <1>34 DEF CancelStatus
<1>35. CASE CancelPresence
  BY <1>35 DEF CancelPresence
<1>36. CASE CancelRequest
  BY <1>36 DEF CancelRequest, StartFinalize
<1>37. CASE CancelDelete
  BY <1>37 DEF CancelDelete
<1>38. CASE DeleteConversation
  BY <1>38 DEF DeleteConversation
<1>39. ASSUME NEW p \in Procs, Crash(p) PROVE Once'
  BY <1>39 DEF Crash, Idle, Unclaim, Faulty
<1>40. CASE LeaseExpires
  BY <1>40 DEF LeaseExpires, Faulty
<1>41. ASSUME NEW w \in Workers, DeadlinePassed(w) PROVE Once'
  BY <1>41 DEF DeadlinePassed, Signal, Faulty
<1>42. ASSUME NEW w \in Workers, Drain(w) PROVE Once'
  BY <1>42 DEF Drain, Signal, Faulty
<1>43. ASSUME NEW w \in Workers, ThrowInReader(w) PROVE Once'
  BY <1>43 DEF ThrowInReader, ReaderFinalizing, Unclaim, MayStart, Faulty
<1>44. ASSUME NEW w \in Workers, ThrowInWorker(w) PROVE Once'
  BY <1>44 DEF ThrowInWorker, ReaderFinalizing, Unclaim, Faulty
<1>45. ASSUME NEW w \in Workers, LeaseCallFails(w) PROVE Once'
  BY <1>45 DEF LeaseCallFails, Idle, Unclaim, Faulty
<1>46. CASE Evict
  BY <1>46 DEF Evict, Lose, Faulty
<1>47. CASE Expire
  BY <1>47 DEF Expire, Lose
<1>48. CASE OrphanExpires
  BY <1>48 DEF OrphanExpires
<1>49. CASE UNCHANGED vars
  BY <1>49 DEF vars
<1> QED
  BY <1>1, <1>2, <1>3, <1>4, <1>5, <1>6, <1>7, <1>8, <1>9, <1>10, <1>11,
     <1>12, <1>13, <1>14, <1>15, <1>16, <1>17, <1>18, <1>19, <1>20, <1>21,
     <1>22, <1>23, <1>24, <1>25, <1>26, <1>27, <1>28, <1>29, <1>30, <1>31,
     <1>32, <1>33, <1>34, <1>35, <1>36, <1>37, <1>38, <1>39, <1>40, <1>41,
     <1>42, <1>43, <1>44, <1>45, <1>46, <1>47, <1>48, <1>49
  DEF Next, Submission, Execute, Finalize, Cancel, Fault

LEMMA IInvariant ==
  ASSUME "marker" \notin Evictable PROVE Spec => []IInv
<1>1. Init => IInv
  BY TypeInit, FlowInit, OnceInit DEF IInv, FlowInv
<1>2. IInv /\ [Next]_vars => IInv'
  BY TypeStep, FlowStep, OnceStep DEF IInv, FlowInv, Flow
<1> QED
  BY <1>1, <1>2, PTL DEF Spec

(* The backend request of a job is sent at most once, through any number of *)
(* crashes, lost leases, reclaims and duplicate entries, on any number of   *)
(* workers, as long as Redis keeps the start marker.                        *)
THEOREM SentAtMostOnce ==
  ASSUME "marker" \notin Evictable PROVE Spec => []NoReplay
<1>1. IInv => NoReplay
  BY DEF IInv, Once, SingleSender, NoReplay
<1> QED
  BY <1>1, IInvariant, PTL

(***************************************************************************)
(* StreamJob implements ChatJob                                            *)
(***************************************************************************)

LEMMA JobInit == Init => Job!Init
  BY ModeAssumption
  DEF Init, Job!Init, Outcome, Live, LiveStatuses

(* Every step is one of the abstract job's, or leaves what it shows alone.  *)
LEMMA JobStep ==
  ASSUME IInv, IInv', [Next]_vars PROVE [Job!Next]_(Job!vars)
<1> USE ProcsAssumption
    DEF IInv, FlowInv, TypeOK, Flow, AimsKnown, ClosedWhenSettling, Once,
        SingleSender, Goto, Procs, LiveStatuses, Outcomes, Live, Terminal,
        Outcome, Job!Next, Job!vars, Job!Start, Job!Finish, Job!Lose,
        Job!Release,
        records, settlement, redis, worker, intent, local, seen,
        submission, outside
<1>1. ASSUME NEW e \in Entries, Enqueue(e) PROVE [Job!Next]_(Job!vars)
  BY <1>1 DEF Enqueue, Faulty
<1>2. CASE EnqueueReplied
  BY <1>2 DEF EnqueueReplied
<1>3. CASE EnqueueRejected
  BY <1>3 DEF EnqueueRejected
<1>4. CASE StopSubmission
  BY <1>4 DEF StopSubmission
<1>5. ASSUME NEW p \in Procs, RaiseAbort(p) PROVE [Job!Next]_(Job!vars)
  BY <1>5 DEF RaiseAbort, Faulty
<1>6. ASSUME NEW p \in Procs, Claim(p) PROVE [Job!Next]_(Job!vars)
  BY <1>6 DEF Claim
<1>7. ASSUME NEW p \in Procs, Settle(p) PROVE [Job!Next]_(Job!vars)
  BY <1>7 DEF Settle, CompleteJournal, LockTaken, Faulty
<1>8. CASE StatusPoll
  BY <1>8 DEF StatusPoll, CompleteJournal
<1>9. ASSUME NEW w \in Workers, NEW e \in Entries, Dispatch(w, e) PROVE [Job!Next]_(Job!vars)
  BY <1>9 DEF Dispatch
<1>10. ASSUME NEW w \in Workers, NEW e \in Entries, DispatchDuplicate(w, e) PROVE [Job!Next]_(Job!vars)
  BY <1>10 DEF DispatchDuplicate
<1>11. ASSUME NEW w \in Workers, AcquireLease(w) PROVE [Job!Next]_(Job!vars)
  BY <1>11 DEF AcquireLease, StartFinalize, BackendStarted
<1>12. ASSUME NEW w \in Workers, RefreshBackend(w) PROVE [Job!Next]_(Job!vars)
  BY <1>12 DEF RefreshBackend
<1>13. ASSUME NEW w \in Workers, Prepare(w) PROVE [Job!Next]_(Job!vars)
  BY <1>13 DEF Prepare
<1>14. ASSUME NEW w \in Workers, MarkBackendStarted(w) PROVE [Job!Next]_(Job!vars)
  BY <1>14 DEF MarkBackendStarted, MayStart
<1>15. ASSUME NEW w \in Workers, SendRequest(w) PROVE [Job!Next]_(Job!vars)
  BY <1>15 DEF SendRequest
<1>16. ASSUME NEW w \in Workers, Accepted(w) PROVE [Job!Next]_(Job!vars)
  BY <1>16 DEF Accepted
<1>17. ASSUME NEW w \in Workers, Persist(w) PROVE [Job!Next]_(Job!vars)
  BY <1>17 DEF Persist
<1>18. ASSUME NEW w \in Workers, RunCompleted(w) PROVE [Job!Next]_(Job!vars)
  BY <1>18 DEF RunCompleted, StartFinalize
<1>19. ASSUME NEW w \in Workers, RunRejected(w) PROVE [Job!Next]_(Job!vars)
  BY <1>19 DEF RunRejected, StartFinalize
<1>20. ASSUME NEW w \in Workers, RunFailed(w) PROVE [Job!Next]_(Job!vars)
  BY <1>20 DEF RunFailed
<1>21. ASSUME NEW w \in Workers, ReaderFinalizes(w) PROVE [Job!Next]_(Job!vars)
  BY <1>21 DEF ReaderFinalizes, StartFinalize, Faulty
<1>22. ASSUME NEW w \in Workers, ReaderAborted(w) PROVE [Job!Next]_(Job!vars)
  BY <1>22 DEF ReaderAborted
<1>23. ASSUME NEW w \in Workers, Returned(w) PROVE [Job!Next]_(Job!vars)
  BY <1>23 DEF Returned, StartFinalize
<1>24. ASSUME NEW w \in Workers, Catch(w) PROVE [Job!Next]_(Job!vars)
  BY <1>24 DEF Catch
<1>25. ASSUME NEW w \in Workers, Load(w) PROVE [Job!Next]_(Job!vars)
  BY <1>25 DEF Load, StartFinalize, CatchOutcomes
<1>26. ASSUME NEW w \in Workers, ReleaseGuards(w) PROVE [Job!Next]_(Job!vars)
  BY <1>26 DEF ReleaseGuards
<1>27. ASSUME NEW w \in Workers, AckForce(w) PROVE [Job!Next]_(Job!vars)
  BY <1>27 DEF AckForce, Acknowledge
<1>28. ASSUME NEW w \in Workers, AckTerminal(w) PROVE [Job!Next]_(Job!vars)
  BY <1>28 DEF AckTerminal, Acknowledge, CompleteJournal, LockTaken, Faulty
<1>29. ASSUME NEW w \in Workers, ReleaseLease(w) PROVE [Job!Next]_(Job!vars)
  BY <1>29 DEF ReleaseLease, Idle, Unclaim
<1>30. ASSUME NEW w \in Workers, HeartbeatLost(w) PROVE [Job!Next]_(Job!vars)
  BY <1>30 DEF HeartbeatLost, Signal
<1>31. ASSUME NEW w \in Workers, PollStop(w) PROVE [Job!Next]_(Job!vars)
  BY <1>31 DEF PollStop, Signal
<1>32. CASE CancelStart
  BY <1>32 DEF CancelStart
<1>33. CASE CancelSignal
  BY <1>33 DEF CancelSignal
<1>34. CASE CancelStatus
  BY <1>34 DEF CancelStatus
<1>35. CASE CancelPresence
  BY <1>35 DEF CancelPresence
<1>36. CASE CancelRequest
  BY <1>36 DEF CancelRequest, StartFinalize
<1>37. CASE CancelDelete
  BY <1>37 DEF CancelDelete
<1>38. CASE DeleteConversation
  BY <1>38 DEF DeleteConversation
<1>39. ASSUME NEW p \in Procs, Crash(p) PROVE [Job!Next]_(Job!vars)
  BY <1>39 DEF Crash, Idle, Unclaim, Faulty
<1>40. CASE LeaseExpires
  BY <1>40 DEF LeaseExpires, Faulty
<1>41. ASSUME NEW w \in Workers, DeadlinePassed(w) PROVE [Job!Next]_(Job!vars)
  BY <1>41 DEF DeadlinePassed, Signal, Faulty
<1>42. ASSUME NEW w \in Workers, Drain(w) PROVE [Job!Next]_(Job!vars)
  BY <1>42 DEF Drain, Signal, Faulty
<1>43. ASSUME NEW w \in Workers, ThrowInReader(w) PROVE [Job!Next]_(Job!vars)
  BY <1>43 DEF ThrowInReader, ReaderFinalizing, Unclaim, MayStart, Faulty
<1>44. ASSUME NEW w \in Workers, ThrowInWorker(w) PROVE [Job!Next]_(Job!vars)
  BY <1>44 DEF ThrowInWorker, ReaderFinalizing, Unclaim, Faulty
<1>45. ASSUME NEW w \in Workers, LeaseCallFails(w) PROVE [Job!Next]_(Job!vars)
  BY <1>45 DEF LeaseCallFails, Idle, Unclaim, Faulty
<1>46. CASE Evict
  BY <1>46 DEF Evict, Lose, Faulty
<1>47. CASE Expire
  BY <1>47 DEF Expire, Lose
<1>48. CASE OrphanExpires
  BY <1>48 DEF OrphanExpires
<1>49. CASE UNCHANGED vars
  BY <1>49 DEF vars
<1> QED
  BY <1>1, <1>2, <1>3, <1>4, <1>5, <1>6, <1>7, <1>8, <1>9, <1>10, <1>11,
     <1>12, <1>13, <1>14, <1>15, <1>16, <1>17, <1>18, <1>19, <1>20, <1>21,
     <1>22, <1>23, <1>24, <1>25, <1>26, <1>27, <1>28, <1>29, <1>30, <1>31,
     <1>32, <1>33, <1>34, <1>35, <1>36, <1>37, <1>38, <1>39, <1>40, <1>41,
     <1>42, <1>43, <1>44, <1>45, <1>46, <1>47, <1>48, <1>49
  DEF Next, Submission, Execute, Finalize, Cancel, Fault

(* Whoever works on a chat job, its clients see the abstract job: one start *)
(* at most, one outcome at most, and slot and conversation given back only  *)
(* after it.                                                                *)
THEOREM ImplementsChatJob ==
  ASSUME "marker" \notin Evictable PROVE Spec => JobSpec
<1>1. Init => Job!Init
  BY JobInit
<1>2. IInv /\ IInv' /\ [Next]_vars => [Job!Next]_(Job!vars)
  BY JobStep
<1>3. Spec => []IInv
  BY IInvariant
<1> QED
  BY <1>1, <1>2, <1>3, PTL DEF Spec, JobSpec, Job!Spec
=============================================================================
