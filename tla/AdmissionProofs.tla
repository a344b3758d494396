-------------------------- MODULE AdmissionProofs --------------------------
(***************************************************************************)
(* Proofs about Admission, for any number of submissions, conversations    *)
(* and faults: a Stop before the queue wins, a conversation runs one turn  *)
(* at a time, the cap holds and a failed submission leaves nothing.        *)
(***************************************************************************)
EXTENDS Admission, FiniteSetTheorems, TLAPS

(***************************************************************************)
(* The inductive invariant                                                 *)
(***************************************************************************)

(* Where a submission may be once its queue commit can have happened.       *)
Committed == Final \cup {"check", "cleanup"}

(* Parallel writes are under way in one place only; a job is queued from    *)
(* one place only and its worker holds its entry.                           *)
Ordered(j) ==
  /\ todo[j] # {} => pc[j] = "initialize"
  /\ j \in queue => pc[j] \in Committed
  /\ work[j] # "none" => j \in queue
  /\ pc[j] = "cleanup" => j \notin queue \cap payload
  /\ pc[j] \in {"owner", "resume", "presence", "replace", "discard"} =>
       owner[j] \in Jobs

(* A job stopped before it was queued meets its stop signal, or its records *)
(* are gone for good.                                                       *)
Stopped(j) ==
  j \in doomed =>
    /\ j \in cancelled \ ran
    /\ j \in queue => \/ j \in abort
                      \/ pc[j] \in Final /\ status[j] = "none" /\ work[j] # "ready"

(* What was written is not provisional any more.                            *)
Confirmed(j) ==
  /\ j \in queue => status[j] # "provisional"
  /\ pc[j] = "enqueue" \/ (pc[j] = "initialize" /\ ~refused[j]) =>
       /\ "confirm" \notin todo[j] => slot[j] \in {"none", "held"}
       /\ "status" \notin todo[j] => status[j] # "provisional"

(* A job that runs, or that a worker would start.                           *)
Active(j) ==
  /\ j \in queue
  /\ \/ work[j] = "running"
     \/ work[j] = "ready" /\ j \notin abort
     \/ work[j] = "none" /\ Live(j) /\ j \in (request \cap payload) \ abort

(* It holds its slot and its conversation, unless it was taken for abandoned. *)
Kept(j) ==
  Active(j) /\ j \notin dropped =>
    /\ slot[j] = "held" /\ guard[Conv[j]] = j
    /\ status[j] = "live" /\ j \in payload

(* A pending journal belongs to a job that does not run.                    *)
Ended(j) ==
  journal[j] = "pending" =>
    \/ j \in dropped
    \/ j \in abort /\ work[j] # "running"
    \/ /\ pc[j] \in Committed /\ status[j] = "terminal"
       /\ work[j] \notin {"ready", "running"}

(* The user's Stop finalizes no job that runs.                              *)
StopAside ==
  /\ stopper # "idle" => target \in Jobs
  /\ stopper \notin {"idle", "abort"} => target \in abort
  /\ stopper \in {"claim", "settle", "delete"} =>
       target \in dropped \/ work[target] # "running"

(* An owner about to be discarded is out of its conversation.               *)
Discarding(j) == pc[j] = "discard" => owner[j] \in dropped

(* The slot set never outgrows the cap.                                     *)
Slots == {j \in Jobs : slot[j] # "none"}
SlotsBounded == IsFiniteSet(Slots) /\ Cardinality(Slots) <= MaxActive

(* As long as its calls on guard and slot were answered, a submission knows *)
(* what it holds.                                                           *)
Known(j) ==
  j \notin unsure =>
    /\ slot[j] # "none" => "slot" \in holds[j]
    /\ guard[Conv[j]] = j => "guard" \in holds[j]
    /\ pc[j] = "failed" => /\ slot[j] = "none" /\ guard[Conv[j]] # j
                           /\ ~Live(j) /\ j \notin request \cup payload

(* No worker will send the request of a job that is dead: if it is queued,  *)
(* its records are incomplete for good.                                     *)
Dead(j) ==
  /\ work[j] \notin {"ready", "running"}
  /\ j \in queue => \/ status[j] = "none"
                    \/ j \notin request \/ j \notin payload

(* Where a submission is before it has its conversation.                    *)
Outside == {"new", "guard", "owner", "resume", "again", "presence", "replace"}

(* A guard names a job that has its conversation; what lost it to a later   *)
(* turn is past the point where it could take it again.                     *)
Placed(j) ==
  /\ \A c \in Conversations : guard[c] = j => c = Conv[j]
  /\ j \in dropped => guard[Conv[j]] # j
  /\ j \in dropped \/ guard[Conv[j]] = j => pc[j] \notin Outside
  /\ pc[j] \in {"owner", "presence", "replace"} => owner[j] # j

(* Without slow submissions what is judged is over.                         *)
Prompt(j) ==
  ~Slow => /\ pc[j] \in {"presence", "replace"} => pc[owner[j]] \in Final
           /\ j \notin outran

(* What is taken for abandoned is dead, and stays it while its queue commit *)
(* is refused, unless it was queued while it was being judged.              *)
Buried(j) ==
  /\ j \in dropped \ outran => Dead(j)
  /\ pc[j] = "presence" /\ owner[j] \notin outran =>
       seen[j] \/ status[owner[j]] = "none" \/ owner[j] \notin queue
  /\ pc[j] = "replace" /\ owner[j] \notin outran => Dead(owner[j])

IInv ==
  /\ TypeOK /\ StopAside /\ SlotsBounded
  /\ \A j \in Jobs : Ordered(j) /\ Stopped(j) /\ Confirmed(j) /\ Kept(j)
                     /\ Ended(j) /\ Discarding(j) /\ Known(j) /\ Placed(j)
                     /\ Prompt(j) /\ Buried(j)

(* Pruning drops the lapsed reservations and nothing else.                  *)
LEMMA PrunedSlots ==
  ASSUME TypeOK
  PROVE /\ Pruned \in [Jobs -> {"none", "provisional", "held"}]
        /\ \A k \in Jobs : Pruned[k] = IF slot[k] = "lapsed" THEN "none" ELSE slot[k]
  BY DEF TypeOK, Pruned
(* Types are kept by every step.                                            *)
LEMMA TypeOKStep == ASSUME IInv, [Next]_vars PROVE TypeOK'
<1> USE NobodyAssumption, StoppableAssumption, ConvAssumption,
      FaultsAssumption
    DEF IInv, TypeOK, Goto, Final, Ordered, StopAside, LiveStatuses,
        admission, records, signals, redis, submission, others, history
<1>1. ASSUME NEW i \in Jobs,
             Register(i) \/ TakeGuard(i) \/ ResumeOwner(i) \/ ReadPresence(i)
             \/ ReplaceGuard(i) \/ DiscardOwner(i)
      PROVE TypeOK'
  BY <1>1 DEF Register, TakeGuard, ResumeOwner, SettleJournal, Freed,
     ReadPresence, Abandoned, Leased, ReplaceGuard, DiscardOwner, DeleteLive,
     Faulty, Live
<1>2. ASSUME NEW i \in Jobs, ReadOwner(i) PROVE TypeOK'
  BY <1>2 DEF ReadOwner, Stale
<1>3. ASSUME NEW i \in Jobs,
             TakeSlot(i) \/ WriteProvisional(i) \/ PrepareRequest(i) \/ Initialized(i)
      PROVE TypeOK'
  <2>1. CASE TakeSlot(i)
    <3>1. slot' \in [Jobs -> {"none", "provisional", "lapsed", "held"}]
      BY <2>1, PrunedSlots DEF TakeSlot
    <3> QED
      BY <2>1, <3>1 DEF TakeSlot
  <2>2. CASE WriteProvisional(i) \/ PrepareRequest(i) \/ Initialized(i)
    BY <2>2 DEF WriteProvisional, PrepareRequest, Initialized
  <2> QED
    BY <1>3, <2>1, <2>2
<1>4. ASSUME NEW i \in Jobs, NEW part \in {"confirm", "request", "status"},
             InitializeRecord(i, part)
      PROVE TypeOK'
  <2>1. refused' \in [Jobs -> BOOLEAN]
    <3>1. \/ refused' = [refused EXCEPT ![i] =
                  @ \/ (part = "confirm" /\ slot[i] = "none")]
          \/ refused' = [refused EXCEPT ![i] = TRUE]
      BY <1>4, Zenon DEF InitializeRecord
    <3>2. refused \in [Jobs -> BOOLEAN]
      OBVIOUS
    <3> QED
      BY ONLY <3>1, <3>2, Zenon
  <2>2. todo' \in [Jobs -> SUBSET {"confirm", "request", "status"}]
    BY <1>4 DEF InitializeRecord, WriteRecord, Faulty
  <2>3. slot' \in [Jobs -> {"none", "provisional", "lapsed", "held"}]
    BY <1>4 DEF InitializeRecord, WriteRecord, Faulty
  <2> QED
    BY <1>4, <2>1, <2>2, <2>3 DEF InitializeRecord, WriteRecord, Faulty
<1>5. ASSUME NEW i \in Jobs, Enqueue(i) \/ CheckQueued(i) \/ Cleanup(i)
      PROVE TypeOK'
  BY <1>5 DEF Enqueue, Commit, Admitted, Faulty, CheckQueued, Cleanup,
     DeleteLive, Freed, Live
<1>6. ASSUME NEW i \in Jobs, Work(i) PROVE TypeOK'
  BY <1>6 DEF Work, WorkerTakes, Live, WorkerStarts, WorkerEnds, WorkerClaims,
     ClaimStatus, WorkerSettles, SettleJournal, Freed, WorkerReleases,
     WorkerAcknowledges
<1>7. ASSUME NEW i \in Jobs, StopSubmission(i) \/ ReservationLapses(i) \/ RecordsExpire(i)
      PROVE TypeOK'
  BY <1>7 DEF StopSubmission, ReservationLapses, Stale, RecordsExpire, Freed,
     Leased
<1>8. ASSUME NEW i \in Jobs, Crash(i) \/ Throw(i) PROVE TypeOK'
  <2>1. faults' \in 0..MaxFaults
    BY <1>8 DEF Crash, Throw, Faulty
  <2>2. todo' \in [Jobs -> SUBSET {"confirm", "request", "status"}]
    BY <1>8 DEF Crash, Throw
  <2>3. guard' \in [Conversations -> Jobs \cup {Nobody}]
    BY <1>8 DEF Crash, Throw
  <2>4. slot' \in [Jobs -> {"none", "provisional", "lapsed", "held"}]
    <3>1. slot' = slot \/ slot' = [Pruned EXCEPT ![i] = "provisional"]
      BY <1>8 DEF Crash, Throw
    <3>2. [Pruned EXCEPT ![i] = "provisional"] \in [Jobs -> {"none", "provisional", "held"}]
      BY PrunedSlots
    <3>3. slot \in [Jobs -> {"none", "provisional", "lapsed", "held"}]
      OBVIOUS
    <3> QED
      BY <3>1, <3>2, <3>3
  <2>5. dropped' \subseteq Jobs
    BY <1>8 DEF Crash, Throw
  <2>6. refused' \in [Jobs -> BOOLEAN]
    <3>1. refused' = refused \/ refused' = [refused EXCEPT ![i] = TRUE]
      BY <1>8, Zenon DEF Crash, Throw
    <3>2. refused \in [Jobs -> BOOLEAN]
      OBVIOUS
    <3> QED
      BY ONLY <3>1, <3>2, Zenon
  <2> QED
    BY <1>8, <2>1, <2>2, <2>3, <2>4, <2>5, <2>6 DEF Crash, Throw
<1>9. CASE Stop \/ StopCrashes
  BY <1>9 DEF Stop, StopSignal, StopLooks, StopGoes, Live, StopChecksPresence,
     Leased, StopClaims, ClaimStatus, StopSettles, SettleJournal, Freed,
     StopDeletes, StopCrashes, Faulty
<1>10. CASE UNCHANGED vars
  BY <1>10 DEF vars
<1> QED
  BY <1>1, <1>2, <1>3, <1>4, <1>5, <1>6, <1>7, <1>8, <1>9, <1>10 DEF Next, Submit

(* Order of the submission, of the queue commit and of its worker.          *)
LEMMA OrderedStep == ASSUME IInv, [Next]_vars, NEW j \in Jobs PROVE Ordered(j)'
<1> USE NobodyAssumption, StoppableAssumption, ConvAssumption
    DEF IInv, TypeOK, Goto, Final, Ordered, Committed, admission, records,
        signals, redis, submission, others, history
<1>1. ASSUME NEW i \in Jobs,
             Register(i) \/ TakeGuard(i) \/ ResumeOwner(i) \/ ReadPresence(i)
             \/ ReplaceGuard(i) \/ DiscardOwner(i)
      PROVE Ordered(j)'
  BY <1>1 DEF Register, TakeGuard, ResumeOwner, SettleJournal, Freed,
     ReadPresence, Abandoned, Leased, ReplaceGuard, DiscardOwner, DeleteLive,
     Faulty, Live, LiveStatuses
<1>2. ASSUME NEW i \in Jobs, ReadOwner(i) PROVE Ordered(j)'
  BY <1>2 DEF ReadOwner, Stale
<1>3. ASSUME NEW i \in Jobs,
             TakeSlot(i) \/ WriteProvisional(i) \/ PrepareRequest(i) \/ Initialized(i)
      PROVE Ordered(j)'
  BY <1>3, PrunedSlots DEF TakeSlot, WriteProvisional, PrepareRequest,
     Initialized
<1>4. ASSUME NEW i \in Jobs, NEW part \in {"confirm", "request", "status"},
             InitializeRecord(i, part)
      PROVE Ordered(j)'
  BY <1>4 DEF InitializeRecord, WriteRecord, Faulty
<1>5. ASSUME NEW i \in Jobs, Enqueue(i) \/ CheckQueued(i) \/ Cleanup(i)
      PROVE Ordered(j)'
  BY <1>5 DEF Enqueue, Commit, Admitted, Faulty, CheckQueued, Cleanup,
     DeleteLive, Freed, Live, LiveStatuses
<1>6. ASSUME NEW i \in Jobs, Work(i) PROVE Ordered(j)'
  BY <1>6 DEF Work, WorkerTakes, Live, LiveStatuses, WorkerStarts, WorkerEnds,
     WorkerClaims, ClaimStatus, WorkerSettles, SettleJournal, Freed,
     WorkerReleases, WorkerAcknowledges
<1>7. ASSUME NEW i \in Jobs, StopSubmission(i) \/ ReservationLapses(i) \/ RecordsExpire(i)
      PROVE Ordered(j)'
  BY <1>7 DEF StopSubmission, ReservationLapses, Stale, RecordsExpire, Freed,
     Leased
<1>8. ASSUME NEW i \in Jobs, Crash(i) \/ Throw(i) PROVE Ordered(j)'
  BY <1>8, PrunedSlots DEF Crash, Faulty, Throw
<1>9. CASE Stop \/ StopCrashes
  BY <1>9 DEF Stop, StopSignal, StopLooks, StopGoes, Live, LiveStatuses,
     StopChecksPresence, Leased, StopClaims, ClaimStatus, StopSettles,
     SettleJournal, Freed, StopDeletes, StopCrashes, Faulty
<1>10. CASE UNCHANGED vars
  BY <1>10 DEF vars
<1> QED
  BY <1>1, <1>2, <1>3, <1>4, <1>5, <1>6, <1>7, <1>8, <1>9, <1>10 DEF Next, Submit

(* No step lets a doomed job start.                                         *)
LEMMA StoppedStep == ASSUME IInv, [Next]_vars, NEW j \in Jobs PROVE Stopped(j)'
<1> USE NobodyAssumption, StoppableAssumption
    DEF IInv, TypeOK, Goto, Final, Ordered, Committed, Stopped, admission,
        records, signals, redis, submission, others, history
<1>1. ASSUME NEW i \in Jobs,
             Register(i) \/ TakeGuard(i) \/ ResumeOwner(i) \/ ReadPresence(i)
             \/ ReplaceGuard(i) \/ DiscardOwner(i)
      PROVE Stopped(j)'
  BY <1>1 DEF Register, TakeGuard, ResumeOwner, SettleJournal, Freed,
     ReadPresence, Abandoned, Leased, ReplaceGuard, DiscardOwner, DeleteLive,
     Faulty, Live, LiveStatuses
<1>2. ASSUME NEW i \in Jobs, ReadOwner(i) PROVE Stopped(j)'
  BY <1>2 DEF ReadOwner, Stale
<1>3. ASSUME NEW i \in Jobs,
             TakeSlot(i) \/ WriteProvisional(i) \/ PrepareRequest(i) \/ Initialized(i)
      PROVE Stopped(j)'
  BY <1>3, PrunedSlots DEF TakeSlot, WriteProvisional, PrepareRequest,
     Initialized
<1>4. ASSUME NEW i \in Jobs, NEW part \in {"confirm", "request", "status"},
             InitializeRecord(i, part)
      PROVE Stopped(j)'
  BY <1>4 DEF InitializeRecord, WriteRecord, Faulty
<1>5. ASSUME NEW i \in Jobs, Enqueue(i) \/ CheckQueued(i) \/ Cleanup(i)
      PROVE Stopped(j)'
  BY <1>5 DEF Enqueue, Commit, Admitted, Faulty, CheckQueued, Cleanup,
     DeleteLive, Freed, Live, LiveStatuses
<1>6. ASSUME NEW i \in Jobs, Work(i) PROVE Stopped(j)'
  BY <1>6 DEF Work, WorkerTakes, Live, LiveStatuses, WorkerStarts, WorkerEnds,
     WorkerClaims, ClaimStatus, WorkerSettles, SettleJournal, Freed,
     WorkerReleases, WorkerAcknowledges
<1>7. ASSUME NEW i \in Jobs, StopSubmission(i) \/ ReservationLapses(i) \/ RecordsExpire(i)
      PROVE Stopped(j)'
  BY <1>7 DEF StopSubmission, ReservationLapses, Stale, RecordsExpire, Freed,
     Leased
<1>8. ASSUME NEW i \in Jobs, Crash(i) \/ Throw(i) PROVE Stopped(j)'
  BY <1>8, PrunedSlots DEF Crash, Faulty, Throw
<1>9. CASE Stop \/ StopCrashes
  BY <1>9 DEF Stop, StopSignal, StopLooks, StopGoes, Live, LiveStatuses,
     StopChecksPresence, Leased, StopClaims, ClaimStatus, StopSettles,
     SettleJournal, Freed, StopDeletes, StopCrashes, Faulty
<1>10. CASE UNCHANGED vars
  BY <1>10 DEF vars
<1> QED
  BY <1>1, <1>2, <1>3, <1>4, <1>5, <1>6, <1>7, <1>8, <1>9, <1>10 DEF Next, Submit

(* What initialization wrote stays written.                                 *)
LEMMA ConfirmedStep == ASSUME IInv, [Next]_vars, NEW j \in Jobs PROVE Confirmed(j)'
<1> USE NobodyAssumption, StoppableAssumption
    DEF IInv, TypeOK, Goto, Final, Ordered, Committed, Confirmed, admission,
        records, signals, redis, submission, others, history
<1>1. ASSUME NEW i \in Jobs,
             Register(i) \/ TakeGuard(i) \/ ResumeOwner(i) \/ ReadPresence(i)
             \/ ReplaceGuard(i) \/ DiscardOwner(i)
      PROVE Confirmed(j)'
  BY <1>1 DEF Register, TakeGuard, ResumeOwner, SettleJournal, Freed,
     ReadPresence, Abandoned, Leased, ReplaceGuard, DiscardOwner, DeleteLive,
     Faulty, Live, LiveStatuses
<1>2. ASSUME NEW i \in Jobs, ReadOwner(i) PROVE Confirmed(j)'
  BY <1>2 DEF ReadOwner, Stale
<1>3. ASSUME NEW i \in Jobs,
             TakeSlot(i) \/ WriteProvisional(i) \/ PrepareRequest(i) \/ Initialized(i)
      PROVE Confirmed(j)'
  BY <1>3, PrunedSlots DEF TakeSlot, WriteProvisional, PrepareRequest,
     Initialized
<1>4. ASSUME NEW i \in Jobs, NEW part \in {"confirm", "request", "status"},
             InitializeRecord(i, part)
      PROVE Confirmed(j)'
  BY <1>4 DEF InitializeRecord, WriteRecord, Faulty
<1>5. ASSUME NEW i \in Jobs, Enqueue(i) \/ CheckQueued(i) \/ Cleanup(i)
      PROVE Confirmed(j)'
  BY <1>5 DEF Enqueue, Commit, Admitted, Faulty, CheckQueued, Cleanup,
     DeleteLive, Freed, Live, LiveStatuses
<1>6. ASSUME NEW i \in Jobs, Work(i) PROVE Confirmed(j)'
  BY <1>6 DEF Work, WorkerTakes, Live, LiveStatuses, WorkerStarts, WorkerEnds,
     WorkerClaims, ClaimStatus, WorkerSettles, SettleJournal, Freed,
     WorkerReleases, WorkerAcknowledges
<1>7. ASSUME NEW i \in Jobs, StopSubmission(i) \/ ReservationLapses(i) \/ RecordsExpire(i)
      PROVE Confirmed(j)'
  BY <1>7 DEF StopSubmission, ReservationLapses, Stale, RecordsExpire, Freed,
     Leased
<1>8. ASSUME NEW i \in Jobs, Crash(i) \/ Throw(i) PROVE Confirmed(j)'
  BY <1>8, PrunedSlots DEF Crash, Faulty, Throw
<1>9. CASE Stop \/ StopCrashes
  BY <1>9 DEF Stop, StopSignal, StopLooks, StopGoes, Live, LiveStatuses,
     StopChecksPresence, Leased, StopClaims, ClaimStatus, StopSettles,
     SettleJournal, Freed, StopDeletes, StopCrashes, Faulty
<1>10. CASE UNCHANGED vars
  BY <1>10 DEF vars
<1> QED
  BY <1>1, <1>2, <1>3, <1>4, <1>5, <1>6, <1>7, <1>8, <1>9, <1>10 DEF Next, Submit

(* Only its own end takes slot and conversation from an active job.         *)
LEMMA KeptStep == ASSUME IInv, [Next]_vars, NEW j \in Jobs PROVE Kept(j)'
<1> USE NobodyAssumption, StoppableAssumption
    DEF IInv, TypeOK, Goto, Final, Ordered, Committed, Confirmed, Active,
        Live, LiveStatuses, Kept, Ended, StopAside, Discarding, admission,
        records, signals, redis, submission, others, history
<1>1. Conv[j] \in Conversations
  BY ConvAssumption
<1>2. ASSUME NEW i \in Jobs,
             Register(i) \/ TakeGuard(i) \/ ResumeOwner(i) \/ ReadPresence(i)
             \/ ReplaceGuard(i) \/ DiscardOwner(i)
      PROVE Kept(j)'
  BY <1>1, <1>2 DEF Register, TakeGuard, ResumeOwner, SettleJournal, Freed,
     ReadPresence, Abandoned, Leased, ReplaceGuard, DiscardOwner, DeleteLive,
     Faulty
<1>3. ASSUME NEW i \in Jobs, ReadOwner(i) PROVE Kept(j)'
  BY <1>1, <1>3 DEF ReadOwner, Stale
<1>4. ASSUME NEW i \in Jobs,
             TakeSlot(i) \/ WriteProvisional(i) \/ PrepareRequest(i) \/ Initialized(i)
      PROVE Kept(j)'
  BY <1>1, <1>4, PrunedSlots DEF TakeSlot, WriteProvisional, PrepareRequest,
     Initialized
<1>5. ASSUME NEW i \in Jobs, NEW part \in {"confirm", "request", "status"},
             InitializeRecord(i, part)
      PROVE Kept(j)'
  BY <1>1, <1>5 DEF InitializeRecord, WriteRecord, Faulty
<1>6. ASSUME NEW i \in Jobs, Enqueue(i) \/ CheckQueued(i) \/ Cleanup(i)
      PROVE Kept(j)'
  BY <1>1, <1>6 DEF Enqueue, Commit, Admitted, Faulty, CheckQueued, Cleanup,
     DeleteLive, Freed
<1>7. ASSUME NEW i \in Jobs, Work(i) PROVE Kept(j)'
  BY <1>1, <1>7 DEF Work, WorkerTakes, WorkerStarts, WorkerEnds, WorkerClaims,
     ClaimStatus, WorkerSettles, SettleJournal, Freed, WorkerReleases,
     WorkerAcknowledges
<1>8. ASSUME NEW i \in Jobs, StopSubmission(i) \/ ReservationLapses(i) \/ RecordsExpire(i)
      PROVE Kept(j)'
  BY <1>1, <1>8 DEF StopSubmission, ReservationLapses, Stale, RecordsExpire,
     Freed, Leased
<1>9. ASSUME NEW i \in Jobs, Crash(i) \/ Throw(i) PROVE Kept(j)'
  BY <1>1, <1>9, PrunedSlots DEF Crash, Faulty, Throw
<1>10. CASE Stop \/ StopCrashes
  BY <1>1, <1>10 DEF Stop, StopSignal, StopLooks, StopGoes,
     StopChecksPresence, Leased, StopClaims, ClaimStatus, StopSettles,
     SettleJournal, Freed, StopDeletes, StopCrashes, Faulty
<1>11. CASE UNCHANGED vars
  BY <1>11 DEF vars
<1> QED
  BY <1>2, <1>3, <1>4, <1>5, <1>6, <1>7, <1>8, <1>9, <1>10, <1>11 DEF Next, Submit

(* A pending journal never meets a running job.                             *)
LEMMA EndedStep == ASSUME IInv, [Next]_vars, NEW j \in Jobs PROVE Ended(j)'
<1> USE NobodyAssumption, StoppableAssumption
    DEF IInv, TypeOK, Goto, Final, Ordered, Committed, StopAside, Ended,
        admission, records, signals, redis, submission, others, history
<1>1. ASSUME NEW i \in Jobs,
             Register(i) \/ TakeGuard(i) \/ ResumeOwner(i) \/ ReadPresence(i)
             \/ ReplaceGuard(i) \/ DiscardOwner(i)
      PROVE Ended(j)'
  BY <1>1 DEF Register, TakeGuard, ResumeOwner, SettleJournal, Freed,
     ReadPresence, Abandoned, Leased, ReplaceGuard, DiscardOwner, DeleteLive,
     Faulty, Live, LiveStatuses
<1>2. ASSUME NEW i \in Jobs, ReadOwner(i) PROVE Ended(j)'
  BY <1>2 DEF ReadOwner, Stale
<1>3. ASSUME NEW i \in Jobs,
             TakeSlot(i) \/ WriteProvisional(i) \/ PrepareRequest(i) \/ Initialized(i)
      PROVE Ended(j)'
  BY <1>3, PrunedSlots DEF TakeSlot, WriteProvisional, PrepareRequest,
     Initialized
<1>4. ASSUME NEW i \in Jobs, NEW part \in {"confirm", "request", "status"},
             InitializeRecord(i, part)
      PROVE Ended(j)'
  BY <1>4 DEF InitializeRecord, WriteRecord, Faulty
<1>5. ASSUME NEW i \in Jobs, Enqueue(i) \/ CheckQueued(i) \/ Cleanup(i)
      PROVE Ended(j)'
  BY <1>5 DEF Enqueue, Commit, Admitted, Faulty, CheckQueued, Cleanup,
     DeleteLive, Freed, Live, LiveStatuses
<1>6. ASSUME NEW i \in Jobs, Work(i) PROVE Ended(j)'
  BY <1>6 DEF Work, WorkerTakes, Live, LiveStatuses, WorkerStarts, WorkerEnds,
     WorkerClaims, ClaimStatus, WorkerSettles, SettleJournal, Freed,
     WorkerReleases, WorkerAcknowledges
<1>7. ASSUME NEW i \in Jobs, StopSubmission(i) \/ ReservationLapses(i) \/ RecordsExpire(i)
      PROVE Ended(j)'
  BY <1>7 DEF StopSubmission, ReservationLapses, Stale, RecordsExpire, Freed,
     Leased
<1>8. ASSUME NEW i \in Jobs, Crash(i) \/ Throw(i) PROVE Ended(j)'
  BY <1>8, PrunedSlots DEF Crash, Faulty, Throw
<1>9. CASE Stop \/ StopCrashes
  BY <1>9 DEF Stop, StopSignal, StopLooks, StopGoes, Live, LiveStatuses,
     StopChecksPresence, Leased, StopClaims, ClaimStatus, StopSettles,
     SettleJournal, Freed, StopDeletes, StopCrashes, Faulty
<1>10. CASE UNCHANGED vars
  BY <1>10 DEF vars
<1> QED
  BY <1>1, <1>2, <1>3, <1>4, <1>5, <1>6, <1>7, <1>8, <1>9, <1>10 DEF Next, Submit

(* Who is discarded was marked as taken for abandoned.                      *)
LEMMA DiscardingStep == ASSUME IInv, [Next]_vars, NEW j \in Jobs PROVE Discarding(j)'
<1> USE NobodyAssumption, StoppableAssumption
    DEF IInv, TypeOK, Goto, Final, Discarding, admission, records, signals,
        redis, submission, others, history
<1>1. ASSUME NEW i \in Jobs,
             Register(i) \/ TakeGuard(i) \/ ResumeOwner(i) \/ ReadPresence(i)
             \/ ReplaceGuard(i) \/ DiscardOwner(i)
      PROVE Discarding(j)'
  BY <1>1 DEF Register, TakeGuard, ResumeOwner, SettleJournal, Freed,
     ReadPresence, Abandoned, Leased, ReplaceGuard, DiscardOwner, DeleteLive,
     Faulty, Live, LiveStatuses
<1>2. ASSUME NEW i \in Jobs, ReadOwner(i) PROVE Discarding(j)'
  BY <1>2 DEF ReadOwner, Stale
<1>3. ASSUME NEW i \in Jobs,
             TakeSlot(i) \/ WriteProvisional(i) \/ PrepareRequest(i) \/ Initialized(i)
      PROVE Discarding(j)'
  BY <1>3, PrunedSlots DEF TakeSlot, WriteProvisional, PrepareRequest,
     Initialized
<1>4. ASSUME NEW i \in Jobs, NEW part \in {"confirm", "request", "status"},
             InitializeRecord(i, part)
      PROVE Discarding(j)'
  BY <1>4 DEF InitializeRecord, WriteRecord, Faulty
<1>5. ASSUME NEW i \in Jobs, Enqueue(i) \/ CheckQueued(i) \/ Cleanup(i)
      PROVE Discarding(j)'
  BY <1>5 DEF Enqueue, Commit, Admitted, Faulty, CheckQueued, Cleanup,
     DeleteLive, Freed, Live, LiveStatuses
<1>6. ASSUME NEW i \in Jobs, Work(i) PROVE Discarding(j)'
  BY <1>6 DEF Work, WorkerTakes, Live, LiveStatuses, WorkerStarts, WorkerEnds,
     WorkerClaims, ClaimStatus, WorkerSettles, SettleJournal, Freed,
     WorkerReleases, WorkerAcknowledges
<1>7. ASSUME NEW i \in Jobs, StopSubmission(i) \/ ReservationLapses(i) \/ RecordsExpire(i)
      PROVE Discarding(j)'
  BY <1>7 DEF StopSubmission, ReservationLapses, Stale, RecordsExpire, Freed,
     Leased
<1>8. ASSUME NEW i \in Jobs, Crash(i) \/ Throw(i) PROVE Discarding(j)'
  BY <1>8, PrunedSlots DEF Crash, Faulty, Throw
<1>9. CASE Stop \/ StopCrashes
  BY <1>9 DEF Stop, StopSignal, StopLooks, StopGoes, Live, LiveStatuses,
     StopChecksPresence, Leased, StopClaims, ClaimStatus, StopSettles,
     SettleJournal, Freed, StopDeletes, StopCrashes, Faulty
<1>10. CASE UNCHANGED vars
  BY <1>10 DEF vars
<1> QED
  BY <1>1, <1>2, <1>3, <1>4, <1>5, <1>6, <1>7, <1>8, <1>9, <1>10 DEF Next, Submit

(* Without a fault, cleanup knows what to give back.                        *)
LEMMA KnownStep == ASSUME IInv, [Next]_vars, NEW j \in Jobs PROVE Known(j)'
<1> USE NobodyAssumption, StoppableAssumption, FaultsAssumption
    DEF IInv, TypeOK, Goto, Final, Ordered, Known, Live, LiveStatuses,
        admission, records, signals, redis, submission, others, history
<1>1. Conv[j] \in Conversations
  BY ConvAssumption
<1>2. ASSUME NEW i \in Jobs,
             Register(i) \/ TakeGuard(i) \/ ResumeOwner(i) \/ ReadPresence(i)
             \/ ReplaceGuard(i) \/ DiscardOwner(i)
      PROVE Known(j)'
  BY <1>1, <1>2 DEF Register, TakeGuard, ResumeOwner, SettleJournal, Freed,
     ReadPresence, Abandoned, Leased, ReplaceGuard, DiscardOwner, DeleteLive,
     Faulty
<1>3. ASSUME NEW i \in Jobs, ReadOwner(i) PROVE Known(j)'
  BY <1>1, <1>3 DEF ReadOwner, Stale
<1>4. ASSUME NEW i \in Jobs,
             TakeSlot(i) \/ WriteProvisional(i) \/ PrepareRequest(i) \/ Initialized(i)
      PROVE Known(j)'
  BY <1>1, <1>4, PrunedSlots DEF TakeSlot, WriteProvisional, PrepareRequest,
     Initialized
<1>5. ASSUME NEW i \in Jobs, NEW part \in {"confirm", "request", "status"},
             InitializeRecord(i, part)
      PROVE Known(j)'
  BY <1>1, <1>5 DEF InitializeRecord, WriteRecord, Faulty
<1>6. ASSUME NEW i \in Jobs, Enqueue(i) \/ CheckQueued(i) \/ Cleanup(i)
      PROVE Known(j)'
  BY <1>1, <1>6 DEF Enqueue, Commit, Admitted, Faulty, CheckQueued, Cleanup,
     DeleteLive, Freed
<1>7. ASSUME NEW i \in Jobs, Work(i) PROVE Known(j)'
  BY <1>1, <1>7 DEF Work, WorkerTakes, WorkerStarts, WorkerEnds, WorkerClaims,
     ClaimStatus, WorkerSettles, SettleJournal, Freed, WorkerReleases,
     WorkerAcknowledges
<1>8. ASSUME NEW i \in Jobs, StopSubmission(i) \/ ReservationLapses(i) \/ RecordsExpire(i)
      PROVE Known(j)'
  BY <1>1, <1>8 DEF StopSubmission, ReservationLapses, Stale, RecordsExpire,
     Freed, Leased
<1>9. ASSUME NEW i \in Jobs, Crash(i) \/ Throw(i) PROVE Known(j)'
  BY <1>1, <1>9, PrunedSlots DEF Crash, Faulty, Throw
<1>10. CASE Stop \/ StopCrashes
  BY <1>1, <1>10 DEF Stop, StopSignal, StopLooks, StopGoes,
     StopChecksPresence, Leased, StopClaims, ClaimStatus, StopSettles,
     SettleJournal, Freed, StopDeletes, StopCrashes, Faulty
<1>11. CASE UNCHANGED vars
  BY <1>11 DEF vars
<1> QED
  BY <1>2, <1>3, <1>4, <1>5, <1>6, <1>7, <1>8, <1>9, <1>10, <1>11 DEF Next, Submit

(* The conversation guard keeps track of who is inside.                     *)
LEMMA PlacedStep == ASSUME IInv, [Next]_vars, NEW j \in Jobs PROVE Placed(j)'
<1> USE NobodyAssumption, ConvAssumption
    DEF IInv, TypeOK, Goto, Final, Ordered, Placed, Outside,
        admission, records, signals, redis, submission, others, history
<1>1. ASSUME NEW i \in Jobs, Register(i) PROVE Placed(j)'
  BY <1>1 DEF Register
<1>2. ASSUME NEW i \in Jobs, TakeGuard(i) PROVE Placed(j)'
  BY <1>2 DEF TakeGuard
<1>3. ASSUME NEW i \in Jobs, ReadOwner(i) PROVE Placed(j)'
  BY <1>3 DEF ReadOwner, Stale
<1>4. ASSUME NEW i \in Jobs, ResumeOwner(i) PROVE Placed(j)'
  BY <1>4 DEF ResumeOwner, SettleJournal, Freed
<1>5. ASSUME NEW i \in Jobs, ReadPresence(i) PROVE Placed(j)'
  BY <1>5 DEF ReadPresence, Abandoned, Leased
<1>6. ASSUME NEW i \in Jobs, ReplaceGuard(i) PROVE Placed(j)'
  BY <1>6 DEF ReplaceGuard
<1>7. ASSUME NEW i \in Jobs, DiscardOwner(i) PROVE Placed(j)'
  BY <1>7 DEF DiscardOwner, DeleteLive, Faulty
<1>8. ASSUME NEW i \in Jobs, TakeSlot(i) PROVE Placed(j)'
  BY <1>8 DEF TakeSlot
<1>9. ASSUME NEW i \in Jobs, WriteProvisional(i) PROVE Placed(j)'
  BY <1>9 DEF WriteProvisional
<1>10. ASSUME NEW i \in Jobs, PrepareRequest(i) PROVE Placed(j)'
  BY <1>10 DEF PrepareRequest
<1>11. ASSUME NEW i \in Jobs, Initialized(i) PROVE Placed(j)'
  BY <1>11 DEF Initialized
<1>12. ASSUME NEW i \in Jobs, NEW part \in {"confirm", "request", "status"},
             InitializeRecord(i, part)
      PROVE Placed(j)'
  BY <1>12 DEF InitializeRecord, WriteRecord, Faulty
<1>13. ASSUME NEW i \in Jobs, Enqueue(i) PROVE Placed(j)'
  BY <1>13 DEF Enqueue, Commit, Admitted, Judged, Faulty
<1>14. ASSUME NEW i \in Jobs, CheckQueued(i) PROVE Placed(j)'
  BY <1>14 DEF CheckQueued, Faulty
<1>15. ASSUME NEW i \in Jobs, Cleanup(i) PROVE Placed(j)'
  BY <1>15 DEF Cleanup, DeleteLive, Freed, Faulty
<1>16. ASSUME NEW i \in Jobs, WorkerTakes(i) PROVE Placed(j)'
  BY <1>16 DEF WorkerTakes, Live, LiveStatuses
<1>17. ASSUME NEW i \in Jobs, WorkerStarts(i) PROVE Placed(j)'
  BY <1>17 DEF WorkerStarts
<1>18. ASSUME NEW i \in Jobs, WorkerEnds(i) PROVE Placed(j)'
  BY <1>18 DEF WorkerEnds
<1>19. ASSUME NEW i \in Jobs, WorkerClaims(i) PROVE Placed(j)'
  BY <1>19 DEF WorkerClaims, ClaimStatus, Live, LiveStatuses
<1>20. ASSUME NEW i \in Jobs, WorkerSettles(i) PROVE Placed(j)'
  BY <1>20 DEF WorkerSettles, SettleJournal, Freed
<1>21. ASSUME NEW i \in Jobs, WorkerReleases(i) PROVE Placed(j)'
  BY <1>21 DEF WorkerReleases, Freed
<1>22. ASSUME NEW i \in Jobs, WorkerAcknowledges(i) PROVE Placed(j)'
  BY <1>22 DEF WorkerAcknowledges
<1>23. ASSUME NEW i \in Jobs, StopSubmission(i) PROVE Placed(j)'
  BY <1>23 DEF StopSubmission
<1>24. ASSUME NEW i \in Jobs, ReservationLapses(i) PROVE Placed(j)'
  BY <1>24 DEF ReservationLapses
<1>25. ASSUME NEW i \in Jobs, RecordsExpire(i) PROVE Placed(j)'
  BY <1>25 DEF RecordsExpire, Freed, Leased
<1>26. ASSUME NEW i \in Jobs, Crash(i) PROVE Placed(j)'
  BY <1>26 DEF Crash, Faulty
<1>27. ASSUME NEW i \in Jobs, Throw(i) PROVE Placed(j)'
  BY <1>27 DEF Throw, Faulty
<1>28. CASE StopSignal \/ StopLooks \/ StopChecksPresence \/ StopClaims
  BY <1>28 DEF StopSignal, StopLooks, StopChecksPresence, StopClaims, StopGoes,
     ClaimStatus, Live, LiveStatuses
<1>29. CASE StopSettles \/ StopDeletes \/ StopCrashes
  BY <1>29 DEF StopSettles, SettleJournal, Freed, StopDeletes, StopCrashes, Faulty
<1>30. CASE UNCHANGED vars
  BY <1>30 DEF vars
<1> QED
  BY <1>1, <1>2, <1>3, <1>4, <1>5, <1>6, <1>7, <1>8, <1>9, <1>10, <1>11, <1>12, <1>13, <1>14, <1>15, <1>16, <1>17, <1>18, <1>19, <1>20, <1>21, <1>22, <1>23, <1>24, <1>25, <1>26, <1>27, <1>28, <1>29, <1>30
     DEF Next, Submit, Work, Stop

(* A submission that is over stays over.                                    *)
LEMMA PromptStep == ASSUME IInv, [Next]_vars, NEW j \in Jobs PROVE Prompt(j)'
<1> USE NobodyAssumption, SlowAssumption
    DEF IInv, TypeOK, Goto, Final, Ordered, Prompt,
        admission, records, signals, redis, submission, others, history
<1>1. ASSUME NEW i \in Jobs, Register(i) PROVE Prompt(j)'
  BY <1>1 DEF Register
<1>2. ASSUME NEW i \in Jobs, TakeGuard(i) PROVE Prompt(j)'
  BY <1>2 DEF TakeGuard
<1>3. ASSUME NEW i \in Jobs, ReadOwner(i) PROVE Prompt(j)'
  BY <1>3 DEF ReadOwner, Stale
<1>4. ASSUME NEW i \in Jobs, ResumeOwner(i) PROVE Prompt(j)'
  BY <1>4 DEF ResumeOwner, SettleJournal, Freed
<1>5. ASSUME NEW i \in Jobs, ReadPresence(i) PROVE Prompt(j)'
  BY <1>5 DEF ReadPresence, Abandoned, Leased
<1>6. ASSUME NEW i \in Jobs, ReplaceGuard(i) PROVE Prompt(j)'
  BY <1>6 DEF ReplaceGuard
<1>7. ASSUME NEW i \in Jobs, DiscardOwner(i) PROVE Prompt(j)'
  BY <1>7 DEF DiscardOwner, DeleteLive, Faulty
<1>8. ASSUME NEW i \in Jobs, TakeSlot(i) PROVE Prompt(j)'
  BY <1>8 DEF TakeSlot
<1>9. ASSUME NEW i \in Jobs, WriteProvisional(i) PROVE Prompt(j)'
  BY <1>9 DEF WriteProvisional
<1>10. ASSUME NEW i \in Jobs, PrepareRequest(i) PROVE Prompt(j)'
  BY <1>10 DEF PrepareRequest
<1>11. ASSUME NEW i \in Jobs, Initialized(i) PROVE Prompt(j)'
  BY <1>11 DEF Initialized
<1>12. ASSUME NEW i \in Jobs, NEW part \in {"confirm", "request", "status"},
             InitializeRecord(i, part)
      PROVE Prompt(j)'
  BY <1>12 DEF InitializeRecord, WriteRecord, Faulty
<1>13. ASSUME NEW i \in Jobs, Enqueue(i) PROVE Prompt(j)'
  BY <1>13 DEF Enqueue, Commit, Admitted, Judged, Faulty
<1>14. ASSUME NEW i \in Jobs, CheckQueued(i) PROVE Prompt(j)'
  BY <1>14 DEF CheckQueued, Faulty
<1>15. ASSUME NEW i \in Jobs, Cleanup(i) PROVE Prompt(j)'
  BY <1>15 DEF Cleanup, DeleteLive, Freed, Faulty
<1>16. ASSUME NEW i \in Jobs, WorkerTakes(i) PROVE Prompt(j)'
  BY <1>16 DEF WorkerTakes, Live, LiveStatuses
<1>17. ASSUME NEW i \in Jobs, WorkerStarts(i) PROVE Prompt(j)'
  BY <1>17 DEF WorkerStarts
<1>18. ASSUME NEW i \in Jobs, WorkerEnds(i) PROVE Prompt(j)'
  BY <1>18 DEF WorkerEnds
<1>19. ASSUME NEW i \in Jobs, WorkerClaims(i) PROVE Prompt(j)'
  BY <1>19 DEF WorkerClaims, ClaimStatus, Live, LiveStatuses
<1>20. ASSUME NEW i \in Jobs, WorkerSettles(i) PROVE Prompt(j)'
  BY <1>20 DEF WorkerSettles, SettleJournal, Freed
<1>21. ASSUME NEW i \in Jobs, WorkerReleases(i) PROVE Prompt(j)'
  BY <1>21 DEF WorkerReleases, Freed
<1>22. ASSUME NEW i \in Jobs, WorkerAcknowledges(i) PROVE Prompt(j)'
  BY <1>22 DEF WorkerAcknowledges
<1>23. ASSUME NEW i \in Jobs, StopSubmission(i) PROVE Prompt(j)'
  BY <1>23 DEF StopSubmission
<1>24. ASSUME NEW i \in Jobs, ReservationLapses(i) PROVE Prompt(j)'
  BY <1>24 DEF ReservationLapses
<1>25. ASSUME NEW i \in Jobs, RecordsExpire(i) PROVE Prompt(j)'
  BY <1>25 DEF RecordsExpire, Freed, Leased
<1>26. ASSUME NEW i \in Jobs, Crash(i) PROVE Prompt(j)'
  BY <1>26 DEF Crash, Faulty
<1>27. ASSUME NEW i \in Jobs, Throw(i) PROVE Prompt(j)'
  BY <1>27 DEF Throw, Faulty
<1>28. CASE StopSignal \/ StopLooks \/ StopChecksPresence \/ StopClaims
  BY <1>28 DEF StopSignal, StopLooks, StopChecksPresence, StopClaims, StopGoes,
     ClaimStatus, Live, LiveStatuses
<1>29. CASE StopSettles \/ StopDeletes \/ StopCrashes
  BY <1>29 DEF StopSettles, SettleJournal, Freed, StopDeletes, StopCrashes, Faulty
<1>30. CASE UNCHANGED vars
  BY <1>30 DEF vars
<1> QED
  BY <1>1, <1>2, <1>3, <1>4, <1>5, <1>6, <1>7, <1>8, <1>9, <1>10, <1>11, <1>12, <1>13, <1>14, <1>15, <1>16, <1>17, <1>18, <1>19, <1>20, <1>21, <1>22, <1>23, <1>24, <1>25, <1>26, <1>27, <1>28, <1>29, <1>30
     DEF Next, Submit, Work, Stop

(* Nothing rewrites the records of a dead job, nor commits a job that lost  *)
(* its conversation.                                                        *)
LEMMA BuriedStep == ASSUME IInv, [Next]_vars, NEW j \in Jobs PROVE Buried(j)'
<1> USE NobodyAssumption
    DEF IInv, TypeOK, Goto, Final, Ordered, Committed, Buried, Dead,
        admission, records, signals, redis, submission, others, history
<1>1. ASSUME NEW i \in Jobs, Register(i) PROVE Buried(j)'
  BY <1>1 DEF Register
<1>2. ASSUME NEW i \in Jobs, TakeGuard(i) PROVE Buried(j)'
  BY <1>2 DEF TakeGuard
<1>3. ASSUME NEW i \in Jobs, ReadOwner(i) PROVE Buried(j)'
  <2>1. seen' = [seen EXCEPT ![i] = status[owner[i]] # "none"]
        /\ seen \in [Jobs -> BOOLEAN]
    BY <1>3 DEF ReadOwner
  <2>2. seen'[i] = (status[owner[i]] # "none")
    BY ONLY <2>1, i \in Jobs, Zenon
  <2>3. j # i => seen'[j] = seen[j]
    BY <2>1
  <2>4. pc' = [pc EXCEPT ![i] = pc'[i]]
        /\ pc'[i] \in {"resume", "presence", "cleanup"}
    BY <1>3 DEF ReadOwner
  <2>5. UNCHANGED <<status, request, payload, queue, work, dropped, outran, owner>>
    BY <1>3 DEF ReadOwner
  <2>6. j = i => seen'[j] \/ status[owner[j]] = "none"
    BY <2>2
  <2> QED
    BY <2>3, <2>4, <2>5, <2>6
<1>4. ASSUME NEW i \in Jobs, ResumeOwner(i) PROVE Buried(j)'
  BY <1>4 DEF ResumeOwner, SettleJournal, Freed
<1>5. ASSUME NEW i \in Jobs, ReadPresence(i) PROVE Buried(j)'
  BY <1>5 DEF ReadPresence, Abandoned, Leased
<1>6. ASSUME NEW i \in Jobs, ReplaceGuard(i) PROVE Buried(j)'
  BY <1>6 DEF ReplaceGuard
<1>7. ASSUME NEW i \in Jobs, DiscardOwner(i) PROVE Buried(j)'
  BY <1>7 DEF DiscardOwner, DeleteLive, Faulty
<1>8. ASSUME NEW i \in Jobs, TakeSlot(i) PROVE Buried(j)'
  BY <1>8 DEF TakeSlot
<1>9. ASSUME NEW i \in Jobs, WriteProvisional(i) PROVE Buried(j)'
  BY <1>9 DEF WriteProvisional
<1>10. ASSUME NEW i \in Jobs, PrepareRequest(i) PROVE Buried(j)'
  BY <1>10 DEF PrepareRequest
<1>11. ASSUME NEW i \in Jobs, Initialized(i) PROVE Buried(j)'
  BY <1>11 DEF Initialized
<1>12. ASSUME NEW i \in Jobs, NEW part \in {"confirm", "request", "status"},
             InitializeRecord(i, part)
      PROVE Buried(j)'
  BY <1>12 DEF InitializeRecord, WriteRecord, Faulty
<1>13. ASSUME NEW i \in Jobs, Enqueue(i) PROVE Buried(j)'
  <2>1. UNCHANGED <<status, request, work, dropped, owner, seen>>
        /\ pc' = [pc EXCEPT ![i] = pc'[i]]
        /\ pc'[i] \in {"accepted", "cleanup", "check"} /\ pc[i] = "enqueue"
    BY <1>13 DEF Enqueue
  <2>2. CASE queue' = queue /\ payload' = payload /\ outran' = outran
    BY <2>1, <2>2
  <2>3. CASE /\ Admitted(i) /\ queue' = queue \cup {i}
             /\ payload' = payload \cup {i} /\ queue' # queue
             /\ outran' = IF Judged(i) THEN outran \cup {i} ELSE outran
    <3>1. i \notin dropped
      BY <2>3 DEF Admitted, Placed
    <3>2. pc[j] \in {"presence", "replace"} /\ owner[j] = i => i \in outran'
      BY <2>3 DEF Judged
    <3> QED
      BY <2>1, <2>3, <3>1, <3>2
  <2>4. Admitted(i) /\ i \in queue => FALSE
    BY <2>1
  <2> QED
    BY <1>13, <2>2, <2>3, <2>4 DEF Enqueue, Commit
<1>14. ASSUME NEW i \in Jobs, CheckQueued(i) PROVE Buried(j)'
  BY <1>14 DEF CheckQueued, Faulty
<1>15. ASSUME NEW i \in Jobs, Cleanup(i) PROVE Buried(j)'
  BY <1>15 DEF Cleanup, DeleteLive, Freed, Faulty
<1>16. ASSUME NEW i \in Jobs, WorkerTakes(i) PROVE Buried(j)'
  BY <1>16 DEF WorkerTakes, Live, LiveStatuses
<1>17. ASSUME NEW i \in Jobs, WorkerStarts(i) PROVE Buried(j)'
  BY <1>17 DEF WorkerStarts
<1>18. ASSUME NEW i \in Jobs, WorkerEnds(i) PROVE Buried(j)'
  BY <1>18 DEF WorkerEnds
<1>19. ASSUME NEW i \in Jobs, WorkerClaims(i) PROVE Buried(j)'
  BY <1>19 DEF WorkerClaims, ClaimStatus, Live, LiveStatuses
<1>20. ASSUME NEW i \in Jobs, WorkerSettles(i) PROVE Buried(j)'
  BY <1>20 DEF WorkerSettles, SettleJournal, Freed
<1>21. ASSUME NEW i \in Jobs, WorkerReleases(i) PROVE Buried(j)'
  BY <1>21 DEF WorkerReleases, Freed
<1>22. ASSUME NEW i \in Jobs, WorkerAcknowledges(i) PROVE Buried(j)'
  BY <1>22 DEF WorkerAcknowledges
<1>23. ASSUME NEW i \in Jobs, StopSubmission(i) PROVE Buried(j)'
  BY <1>23 DEF StopSubmission
<1>24. ASSUME NEW i \in Jobs, ReservationLapses(i) PROVE Buried(j)'
  BY <1>24 DEF ReservationLapses
<1>25. ASSUME NEW i \in Jobs, RecordsExpire(i) PROVE Buried(j)'
  BY <1>25 DEF RecordsExpire, Freed, Leased
<1>26. ASSUME NEW i \in Jobs, Crash(i) PROVE Buried(j)'
  BY <1>26 DEF Crash, Faulty
<1>27. ASSUME NEW i \in Jobs, Throw(i) PROVE Buried(j)'
  BY <1>27 DEF Throw, Faulty
<1>28. CASE StopSignal \/ StopLooks \/ StopChecksPresence \/ StopClaims
  BY <1>28 DEF StopSignal, StopLooks, StopChecksPresence, StopClaims, StopGoes,
     ClaimStatus, Live, LiveStatuses
<1>29. CASE StopSettles \/ StopDeletes \/ StopCrashes
  BY <1>29 DEF StopSettles, SettleJournal, Freed, StopDeletes, StopCrashes, Faulty
<1>30. CASE UNCHANGED vars
  BY <1>30 DEF vars
<1> QED
  BY <1>1, <1>2, <1>3, <1>4, <1>5, <1>6, <1>7, <1>8, <1>9, <1>10, <1>11, <1>12, <1>13, <1>14, <1>15, <1>16, <1>17, <1>18, <1>19, <1>20, <1>21, <1>22, <1>23, <1>24, <1>25, <1>26, <1>27, <1>28, <1>29, <1>30
     DEF Next, Submit, Work, Stop

(* The Stop handler leaves running jobs to their worker.                    *)
LEMMA StopAsideStep == ASSUME IInv, [Next]_vars PROVE StopAside'
<1> USE NobodyAssumption, StoppableAssumption
    DEF IInv, TypeOK, Goto, Final, StopAside, Kept, Active, Ordered, Live,
        LiveStatuses, admission, records, signals, redis, submission, others,
        history
<1>1. ASSUME NEW i \in Jobs,
             Register(i) \/ TakeGuard(i) \/ ResumeOwner(i) \/ ReadPresence(i)
             \/ ReplaceGuard(i) \/ DiscardOwner(i)
      PROVE StopAside'
  BY <1>1 DEF Register, TakeGuard, ResumeOwner, SettleJournal, Freed,
     ReadPresence, Abandoned, Leased, ReplaceGuard, DiscardOwner, DeleteLive,
     Faulty
<1>2. ASSUME NEW i \in Jobs, ReadOwner(i) PROVE StopAside'
  BY <1>2 DEF ReadOwner, Stale
<1>3. ASSUME NEW i \in Jobs,
             TakeSlot(i) \/ WriteProvisional(i) \/ PrepareRequest(i) \/ Initialized(i)
      PROVE StopAside'
  BY <1>3, PrunedSlots DEF TakeSlot, WriteProvisional, PrepareRequest,
     Initialized
<1>4. ASSUME NEW i \in Jobs, NEW part \in {"confirm", "request", "status"},
             InitializeRecord(i, part)
      PROVE StopAside'
  BY <1>4 DEF InitializeRecord, WriteRecord, Faulty
<1>5. ASSUME NEW i \in Jobs, Enqueue(i) \/ CheckQueued(i) \/ Cleanup(i)
      PROVE StopAside'
  BY <1>5 DEF Enqueue, Commit, Admitted, Faulty, CheckQueued, Cleanup,
     DeleteLive, Freed
<1>6. ASSUME NEW i \in Jobs, Work(i) PROVE StopAside'
  BY <1>6 DEF Work, WorkerTakes, WorkerStarts, WorkerEnds, WorkerClaims,
     ClaimStatus, WorkerSettles, SettleJournal, Freed, WorkerReleases,
     WorkerAcknowledges
<1>7. ASSUME NEW i \in Jobs, StopSubmission(i) \/ ReservationLapses(i) \/ RecordsExpire(i)
      PROVE StopAside'
  BY <1>7 DEF StopSubmission, ReservationLapses, Stale, RecordsExpire, Freed,
     Leased
<1>8. ASSUME NEW i \in Jobs, Crash(i) \/ Throw(i) PROVE StopAside'
  BY <1>8, PrunedSlots DEF Crash, Faulty, Throw
<1>9. CASE Stop \/ StopCrashes
  BY <1>9 DEF Stop, StopSignal, StopLooks, StopGoes, StopChecksPresence,
     Leased, StopClaims, ClaimStatus, StopSettles, SettleJournal, Freed,
     StopDeletes, StopCrashes, Faulty
<1>10. CASE UNCHANGED vars
  BY <1>10 DEF vars
<1> QED
  BY <1>1, <1>2, <1>3, <1>4, <1>5, <1>6, <1>7, <1>8, <1>9, <1>10 DEF Next, Submit

(* The slot set grows by one, after a prune, while it is below the cap.     *)
LEMMA SlotsBoundedStep == ASSUME IInv, [Next]_vars PROVE SlotsBounded'
<1> USE DEF IInv, TypeOK, admission, records, signals, redis, submission,
        others, history
<1>1. ASSUME Slots' \subseteq Slots PROVE SlotsBounded'
  <2>1. IsFiniteSet(Slots') /\ Cardinality(Slots') <= Cardinality(Slots)
    BY <1>1, FS_Subset DEF SlotsBounded
  <2>2. Cardinality(Slots) \in Nat /\ Cardinality(Slots') \in Nat
    BY <2>1, FS_CardinalityType DEF SlotsBounded
  <2> QED
    BY <2>1, <2>2, ActiveAssumption DEF SlotsBounded
<1>2. ASSUME NEW i \in Jobs, SlotFree, slot' = [Pruned EXCEPT ![i] = "provisional"]
      PROVE SlotsBounded'
  <2> DEFINE Left == {k \in Jobs : Pruned[k] # "none"}
  <2>1. Left \subseteq Slots /\ Slots' = Left \cup {i}
    BY <1>2, PrunedSlots DEF Slots
  <2>2. IsFiniteSet(Left) /\ Cardinality(Left) \in Nat
    BY <2>1, FS_Subset, FS_CardinalityType DEF SlotsBounded
  <2>3. Cardinality(Left) < MaxActive
    BY <1>2 DEF SlotFree
  <2> HIDE DEF Left
  <2>4. IsFiniteSet(Left \cup {i})
        /\ Cardinality(Left \cup {i}) \in {Cardinality(Left), Cardinality(Left) + 1}
    BY <2>2, FS_AddElement
  <2> QED
    BY <2>1, <2>2, <2>3, <2>4, ActiveAssumption DEF SlotsBounded
<1>3. ASSUME NEW i \in Jobs, TakeSlot(i) \/ Throw(i) PROVE SlotsBounded'
  <2>1. CASE SlotFree /\ slot' = [Pruned EXCEPT ![i] = "provisional"]
    BY <1>2, <2>1
  <2>2. CASE slot' \in {slot, Pruned}
    BY <1>1, <2>2, PrunedSlots DEF Slots
  <2> QED
    BY <1>3, <2>1, <2>2 DEF TakeSlot, Throw
<1>4. ASSUME NEW i \in Jobs,
             Register(i) \/ TakeGuard(i) \/ ReadOwner(i) \/ ReadPresence(i)
             \/ ReplaceGuard(i) \/ WriteProvisional(i) \/ PrepareRequest(i)
             \/ Initialized(i) \/ Enqueue(i) \/ CheckQueued(i)
             \/ StopSubmission(i) \/ Crash(i)
      PROVE SlotsBounded'
  BY <1>1, <1>4 DEF Slots, Register, TakeGuard, ReadOwner, ReadPresence,
     ReplaceGuard, WriteProvisional, PrepareRequest, Initialized, Enqueue,
     CheckQueued, StopSubmission, Crash
<1>5. ASSUME NEW i \in Jobs,
             ResumeOwner(i) \/ DiscardOwner(i) \/ Cleanup(i)
             \/ ReservationLapses(i) \/ RecordsExpire(i)
             \/ \E part \in {"confirm", "request", "status"} :
                  InitializeRecord(i, part)
      PROVE SlotsBounded'
  BY <1>1, <1>5 DEF Slots, ResumeOwner, SettleJournal, DiscardOwner, Cleanup,
     ReservationLapses, RecordsExpire, InitializeRecord, WriteRecord
<1>6. ASSUME NEW i \in Jobs, Work(i) PROVE SlotsBounded'
  BY <1>1, <1>6 DEF Slots, Work, WorkerTakes, WorkerStarts, WorkerEnds,
     WorkerClaims, WorkerSettles, SettleJournal, WorkerReleases,
     WorkerAcknowledges
<1>7. CASE Stop \/ StopCrashes \/ UNCHANGED vars
  BY <1>1, <1>7 DEF Slots, Stop, StopSignal, StopLooks, StopChecksPresence,
     StopClaims, StopSettles, SettleJournal, StopDeletes, StopCrashes, vars
<1> QED
  BY <1>3, <1>4, <1>5, <1>6, <1>7 DEF Next, Submit

(* The invariant holds initially,                                           *)
LEMMA InvInit == Init => IInv
<1> SUFFICES ASSUME Init PROVE IInv
  OBVIOUS
<1> USE NobodyAssumption, FaultsAssumption, ConvAssumption, ActiveAssumption
    DEF Init
<1>1. TypeOK
  BY DEF TypeOK, LiveStatuses, Final
<1>2. StopAside
  BY DEF StopAside
<1>3. SlotsBounded
  <2>1. Slots = {}
    BY DEF Slots
  <2> QED
    BY <2>1, FS_EmptySet DEF SlotsBounded
<1>4. ASSUME NEW j \in Jobs
      PROVE Ordered(j) /\ Stopped(j) /\ Confirmed(j) /\ Kept(j)
            /\ Ended(j) /\ Discarding(j) /\ Known(j) /\ Placed(j)
                     /\ Prompt(j) /\ Buried(j)
  BY DEF Ordered, Stopped, Confirmed, Kept, Active, Ended, Discarding, Known,
     Placed, Prompt, Buried, Dead, Outside, Final, Live, LiveStatuses
<1> QED
  BY <1>1, <1>2, <1>3, <1>4 DEF IInv

(* and is inductive.                                                        *)
LEMMA Invariant == Spec => []IInv
<1>1. Init => IInv
  BY InvInit
<1>2. IInv /\ [Next]_vars => IInv'
  <2> SUFFICES ASSUME IInv, [Next]_vars PROVE IInv'
    OBVIOUS
  <2>1. TypeOK' /\ StopAside' /\ SlotsBounded'
    BY TypeOKStep, StopAsideStep, SlotsBoundedStep
  <2>2. ASSUME NEW j \in Jobs
        PROVE (Ordered(j) /\ Stopped(j) /\ Confirmed(j) /\ Kept(j)
               /\ Ended(j) /\ Discarding(j) /\ Known(j) /\ Placed(j)
               /\ Prompt(j) /\ Buried(j))'
    BY OrderedStep, StoppedStep, ConfirmedStep, KeptStep, EndedStep,
       DiscardingStep, KnownStep, PlacedStep, PromptStep, BuriedStep
  <2> QED
    BY <2>1, <2>2 DEF IInv
<1> QED
  BY <1>1, <1>2, PTL DEF Spec

(***************************************************************************)
(* Theorems                                                                *)
(***************************************************************************)

(* Every reachable state of admission has its types (submission.ts, the     *)
(* guards and the queue), whatever fails.                                   *)
THEOREM TypeCorrect == Spec => []TypeOK
<1>1. IInv => TypeOK
  BY DEF IInv
<1> QED
  BY <1>1, Invariant, PTL

(* A Stop recorded before the queue commit keeps the job from running, for  *)
(* any number of tabs, faults and expiries (jobSubmission.ts,               *)
(* ENQUEUE_STREAM_JOB).                                                     *)
THEOREM StopBeforeQueueWins == Spec => []StopBeforeQueue
<1>1. IInv => StopBeforeQueue
  BY DEF IInv, TypeOK, Stopped, StopBeforeQueue
<1> QED
  BY <1>1, Invariant, PTL

(* Two turns of one conversation never run together, also when submissions  *)
(* outlast the guard's grace, unless a turn was taken for abandoned         *)
(* (claimConversationForJob): each holds the guard.                         *)
THEOREM TurnsExclude == Spec => []OneTurnAtATime
<1>1. IInv => OneTurnAtATime
  <2> SUFFICES ASSUME IInv, NEW j \in Running \ dropped, NEW k \in Running \ dropped,
                      Conv[j] = Conv[k]
               PROVE j = k
    BY DEF OneTurnAtATime
  <2>1. guard[Conv[j]] = j /\ guard[Conv[k]] = k
    BY DEF IInv, Running, Kept, Active, Ordered
  <2> QED
    BY <2>1
<1> QED
  BY <1>1, Invariant, PTL

(* The running turns nobody took for abandoned are bounded by the cap.      *)
LEMMA RunningBounded ==
  ASSUME IInv, NEW R \in SUBSET (Running \ dropped)
  PROVE Cardinality(R) <= MaxActive
<1>1. R \subseteq Slots
  BY DEF IInv, Running, Kept, Active, Ordered, Slots
<1>2. IsFiniteSet(Slots) /\ Cardinality(Slots) <= MaxActive
  BY DEF IInv, SlotsBounded
<1>3. IsFiniteSet(R) /\ Cardinality(R) <= Cardinality(Slots)
  BY <1>1, <1>2, FS_Subset
<1>4. Cardinality(R) \in Nat /\ Cardinality(Slots) \in Nat
  BY <1>2, <1>3, FS_CardinalityType
<1> QED
  BY <1>2, <1>3, <1>4, ActiveAssumption

(* The cap holds (userJobGuard.ts) for any cap, any number of submissions   *)
(* and faults, if no live submission outlasts the grace of its guard: then  *)
(* what a later turn takes for abandoned does not run.                      *)
THEOREM CapAlwaysKept ==
  ASSUME ~Slow
  PROVE Spec => []CapKept
<1>1. IInv => CapKept
  <2> SUFFICES ASSUME IInv PROVE CapKept
    OBVIOUS
  <2>1. Running \subseteq Running \ dropped
    BY DEF IInv, TypeOK, Running, Prompt, Buried, Dead
  <2> QED
    BY <2>1, RunningBounded DEF CapKept
<1> QED
  BY <1>1, Invariant, PTL

(* With slow submissions too, the turns that were not taken for abandoned   *)
(* keep the cap.                                                            *)
THEOREM CapKeptByHolders == Spec => [](Cardinality(Running \ dropped) <= MaxActive)
<1>1. IInv => Cardinality(Running \ dropped) <= MaxActive
  BY RunningBounded
<1> QED
  BY <1>1, Invariant, PTL

(* A failed submission leaves no slot, guard, live status, request or       *)
(* payload (submission.ts cleanup), however its parallel writes, other      *)
(* tabs, workers and Stops interleave and whichever of its writes failed,   *)
(* unless a call that takes guard or slot, or the cleanup itself, did.      *)
THEOREM FailureIsClean == Spec => []FailureLeavesNothing
<1>1. IInv => FailureLeavesNothing
  BY DEF IInv, Known, FailureLeavesNothing
<1> QED
  BY <1>1, Invariant, PTL

(* A submission taken for abandoned never starts afterwards                 *)
(* (discardAbandonedSubmission), however much slower than the grace it is,  *)
(* unless it was queued while the later turn was judging it.                *)
THEOREM DiscardedStayDown == Spec => DiscardedNeverRuns
<1>1. IInv /\ [Next]_vars =>
        [\A j \in dropped \ outran : j \in ran' => j \in ran]_vars
  <2> SUFFICES ASSUME IInv, [Next]_vars, NEW j \in dropped \ outran, j \in ran'
               PROVE j \in ran
    OBVIOUS
  <2>1. j \in Jobs /\ work[j] # "ready"
    BY DEF IInv, TypeOK, Buried, Dead
  <2>2. ASSUME NEW i \in Jobs, WorkerStarts(i) PROVE j \in ran
    BY <2>1, <2>2 DEF WorkerStarts
  <2>3. ASSUME NEW i \in Jobs, Submit(i) PROVE ran' = ran
    BY <2>3 DEF Submit, TakeGuard, ReadOwner, ResumeOwner, ReadPresence, ReplaceGuard,
       DiscardOwner, TakeSlot, WriteProvisional, PrepareRequest, InitializeRecord,
       Initialized, Enqueue, CheckQueued, Cleanup, history
  <2>4. ASSUME NEW i \in Jobs, Work(i) PROVE ran' = ran \/ WorkerStarts(i)
    BY <2>4 DEF Work, WorkerTakes, WorkerEnds, WorkerClaims, WorkerSettles,
       WorkerReleases, WorkerAcknowledges, history
  <2>5. ASSUME NEW i \in Jobs,
               \/ Register(i) \/ StopSubmission(i) \/ ReservationLapses(i)
               \/ RecordsExpire(i) \/ Crash(i) \/ Throw(i)
        PROVE ran' = ran
    BY <2>5 DEF Register, StopSubmission, ReservationLapses, RecordsExpire, Crash,
       Throw, history
  <2>6. CASE Stop \/ StopCrashes \/ UNCHANGED vars
    BY <2>6 DEF Stop, StopSignal, StopLooks, StopChecksPresence, StopClaims,
       StopSettles, StopDeletes, StopCrashes, vars, history
  <2> QED
    BY <2>2, <2>3, <2>4, <2>5, <2>6 DEF Next
<1> QED
  BY <1>1, Invariant, PTL DEF Spec, DiscardedNeverRuns
=============================================================================
