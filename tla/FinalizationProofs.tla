------------------------- MODULE FinalizationProofs -------------------------
(***************************************************************************)
(* Proofs about Finalization, for any number of finalizers and crashes:    *)
(* what one journal write does is done once, and it is what releases the   *)
(* job, whichever way it is persisted and however long finalizers stall;   *)
(* the user's rename and deletion survive it; and so does the next turn,   *)
(* unless the journal is completed over the head of the lock's holder.     *)
(* That last one rests on the lock: a finalizer that may still save holds  *)
(* it, and nobody takes it once the journal is completed (NobodySaves).    *)
(***************************************************************************)
EXTENDS Finalization, TLAPS

(* A finalizer on its way to the claim knows its outcome.                   *)
AimsKnown ==
  \A f \in Finalizers : pc[f] \in {"read", "claim"} => aim[f] \in Outcomes

(* A terminal status and its journal exist together.                        *)
ClaimedTogether == status = "live" <=> journal = "none"

(* Before the journal is completed nothing was released or announced.       *)
Held ==
  journal # "completed" =>
    /\ slot /\ (Persistence = "owned" => guard = "job")
    /\ published = 0 /\ retained = 0

(* Afterwards everything was, once, with the outcome that was claimed.      *)
Done ==
  journal = "completed" =>
    /\ ~slot /\ guard # "job"
    /\ published = 1 /\ told = status
    /\ retained \in {0, 1} /\ (retained = 1 => status = "completed")

(* The next turn, once admitted, is what the guard names.                   *)
NextHolds == next = "admitted" => guard = "next"

IInv == TypeOK /\ AimsKnown /\ ClaimedTogether /\ Held /\ Done /\ NextHolds

LEMMA InvInit == Init => IInv
<1> SUFFICES ASSUME Init PROVE IInv
  OBVIOUS
<1> USE DEF Init
<1>1. version \in 0..MaxUpdates /\ faults \in 0..MaxFaults
  BY BoundsAssumption
<1>2. conv \in Conversations
  BY DEF Conversations, Turns
<1>3. base \in [Finalizers -> Conversations]
  BY DEF Conversations, Turns, Missing
<1>4. snap \in [Finalizers -> 0..MaxUpdates]
  BY BoundsAssumption
<1>5. pc \in [Finalizers -> {"idle", "read", "claim", "acquire", "load", "save",
                            "commit", "unlock"}]
  OBVIOUS
<1>6. aim \in [Finalizers -> Outcomes \cup {"resume"}]
  OBVIOUS
<1>7. hidden \in [Finalizers -> BOOLEAN] /\ history \in SUBSET Turns
  OBVIOUS
<1>8. guard \in {"none", "job", "next"} /\ published \in 0..2 /\ retained \in 0..2
  OBVIOUS
<1>9. TypeOK
  BY <1>1, <1>2, <1>3, <1>4, <1>5, <1>6, <1>7, <1>8 DEF TypeOK
<1> QED
  BY <1>9 DEF IInv, AimsKnown, ClaimedTogether, Held, Done, NextHolds, Outcomes

LEMMA TypeStep == ASSUME IInv, [Next]_vars PROVE TypeOK'
<1> USE BoundsAssumption
    DEF IInv, TypeOK, AimsKnown, Goto, NoLock, Orphan, Outcomes, Conversations,
        Turns, records, effects, redis, local, user
<1>1. CASE UpdateLiveStatus
  BY <1>1 DEF UpdateLiveStatus
<1>2. ASSUME NEW f \in Finalizers, NEW o \in Outcomes, Begin(f, o) PROVE TypeOK'
  BY <1>2 DEF Begin
<1>3. ASSUME NEW f \in Finalizers, ReadSnapshot(f) PROVE TypeOK'
  BY <1>3 DEF ReadSnapshot
<1>4. ASSUME NEW f \in Finalizers, Claim(f) PROVE TypeOK'
  BY <1>4 DEF Claim
<1>5. ASSUME NEW f \in Finalizers, Resume(f) PROVE TypeOK'
  BY <1>5 DEF Resume
<1>6. ASSUME NEW f \in Finalizers, AcquireFinalization(f) PROVE TypeOK'
  BY <1>6 DEF AcquireFinalization
<1>7. ASSUME NEW f \in Finalizers, LoadConversation(f) PROVE TypeOK'
  BY <1>7 DEF LoadConversation
<1>8. ASSUME NEW f \in Finalizers, SaveConversation(f) PROVE TypeOK'
  <2> USE <1>8 DEF SaveConversation
  <2>1. conv.renamed \in BOOLEAN
    OBVIOUS
  <2>2. WithSavedMetadata(conv) \in Conversations
    BY <2>1 DEF WithSavedMetadata
  <2>3. conv' \in Conversations
    BY <2>2
  <2>4. pc' \in [Finalizers -> {"idle", "read", "claim", "acquire", "load",
                                "save", "commit", "unlock"}]
    OBVIOUS
  <2> HIDE DEF Conversations
  <2> QED
    BY <2>3, <2>4
<1>9. ASSUME NEW f \in Finalizers, CommitJournal(f) PROVE TypeOK'
  <2> USE <1>9 DEF CommitJournal, More
  <2>1. slot' \in BOOLEAN /\ guard' \in {"none", "job", "next"}
    OBVIOUS
  <2>2. published' \in 0..2
    OBVIOUS
  <2>3. retained' \in 0..2
    OBVIOUS
  <2>4. CASE journal = "pending" /\ status # "live"
    BY <2>1, <2>2, <2>3, <2>4
  <2>5. CASE journal # "pending"
    BY <2>5
  <2> QED
    BY <2>4, <2>5 DEF ClaimedTogether
<1>10. ASSUME NEW f \in Finalizers, ReleaseLock(f) PROVE TypeOK'
  BY <1>10 DEF ReleaseLock
<1>11. CASE Rename
  <2> USE <1>11 DEF Rename
  <2>1. conv' \in Conversations
    OBVIOUS
  <2> HIDE DEF Conversations
  <2> QED
    BY <2>1
<1>12. CASE Delete
  BY <1>12 DEF Delete, Missing
<1>13. CASE NextTurnAdmitted
  BY <1>13 DEF NextTurnAdmitted
<1>14. CASE NextTurnSaved
  BY <1>14 DEF NextTurnSaved
<1>15. CASE LockExpires
  BY <1>15 DEF LockExpires, Faulty
<1>16. ASSUME NEW f \in Finalizers, Crash(f) PROVE TypeOK'
  BY <1>16 DEF Crash, Faulty
<1>17. ASSUME NEW f \in Finalizers, Fail(f) PROVE TypeOK'
  BY <1>17 DEF Fail, Faulty
<1>18. CASE UNCHANGED vars
  BY <1>18 DEF vars
<1> QED
  BY <1>1, <1>2, <1>3, <1>4, <1>5, <1>6, <1>7, <1>8, <1>9, <1>10, <1>11,
     <1>12, <1>13, <1>14, <1>15, <1>16, <1>17, <1>18 DEF Next, Work

LEMMA SettledStep ==
  ASSUME IInv, [Next]_vars
  PROVE (AimsKnown /\ ClaimedTogether /\ Held /\ Done /\ NextHolds)'
<1> DEFINE Goal ==
      AimsKnown /\ ClaimedTogether /\ Held /\ Done /\ NextHolds
<1> USE PersistenceAssumption
    DEF IInv, TypeOK, AimsKnown, ClaimedTogether, Held, Done, NextHolds, Goto,
        NoLock, Orphan, Outcomes, records, effects, redis, local, user
<1>1. CASE UpdateLiveStatus
  BY <1>1 DEF UpdateLiveStatus
<1>2. ASSUME NEW f \in Finalizers, NEW o \in Outcomes, Begin(f, o) PROVE Goal'
  BY <1>2 DEF Begin
<1>3. ASSUME NEW f \in Finalizers, ReadSnapshot(f) PROVE Goal'
  BY <1>3 DEF ReadSnapshot
<1>4. ASSUME NEW f \in Finalizers, Claim(f) PROVE Goal'
  BY <1>4 DEF Claim
<1>5. ASSUME NEW f \in Finalizers, Resume(f) PROVE Goal'
  BY <1>5 DEF Resume
<1>6. ASSUME NEW f \in Finalizers, AcquireFinalization(f) PROVE Goal'
  BY <1>6 DEF AcquireFinalization
<1>7. ASSUME NEW f \in Finalizers, LoadConversation(f) PROVE Goal'
  BY <1>7 DEF LoadConversation
<1>8. ASSUME NEW f \in Finalizers, SaveConversation(f) PROVE Goal'
  BY <1>8 DEF SaveConversation, WithSavedMetadata
<1>9. ASSUME NEW f \in Finalizers, CommitJournal(f) PROVE Goal'
  BY <1>9 DEF CommitJournal, More
<1>10. ASSUME NEW f \in Finalizers, ReleaseLock(f) PROVE Goal'
  BY <1>10 DEF ReleaseLock
<1>11. CASE Rename
  BY <1>11 DEF Rename
<1>12. CASE Delete
  BY <1>12 DEF Delete, Missing
<1>13. CASE NextTurnAdmitted
  BY <1>13 DEF NextTurnAdmitted
<1>14. CASE NextTurnSaved
  BY <1>14 DEF NextTurnSaved
<1>15. CASE LockExpires
  BY <1>15 DEF LockExpires, Faulty
<1>16. ASSUME NEW f \in Finalizers, Crash(f) PROVE Goal'
  BY <1>16 DEF Crash, Faulty
<1>17. ASSUME NEW f \in Finalizers, Fail(f) PROVE Goal'
  BY <1>17 DEF Fail, Faulty
<1>18. CASE UNCHANGED vars
  BY <1>18 DEF vars
<1> QED
  BY <1>1, <1>2, <1>3, <1>4, <1>5, <1>6, <1>7, <1>8, <1>9, <1>10, <1>11,
     <1>12, <1>13, <1>14, <1>15, <1>16, <1>17, <1>18 DEF Next, Work

LEMMA IInvariant == Spec => []IInv
<1>1. Init => IInv
  BY InvInit
<1>2. IInv /\ [Next]_vars => IInv'
  BY TypeStep, SettledStep DEF IInv
<1> QED
  BY <1>1, <1>2, PTL DEF Spec

(* Every reachable state has the declared types: in particular a completion *)
(* event always names an outcome, never "live" or "resume".                 *)
THEOREM TypeCorrect == Spec => []TypeOK
<1>1. IInv => TypeOK
  BY DEF IInv
<1> QED
  BY <1>1, IInvariant, PTL

(* Completion is published at most once, naming the outcome that won, and   *)
(* retention queued at most once, though finalizers crash, stall and lose   *)
(* their lock (UPDATE_FINALIZATION_JOURNAL compares the journal it writes). *)
THEOREM PublishedOnce == Spec => []EffectsOnce
<1>1. IInv => EffectsOnce
  BY DEF IInv, TypeOK, ClaimedTogether, Held, Done, EffectsOnce
<1> QED
  BY <1>1, IInvariant, PTL

(* Slot and conversation guard are given back exactly with the journal      *)
(* write that records the save, by whichever finalizer makes it.            *)
THEOREM ReleaseIsRecorded == Spec => []ReleasedWithReceipt
<1>1. IInv => ReleasedWithReceipt
  BY DEF IInv, TypeOK, Held, Done, ReleasedWithReceipt
<1> QED
  BY <1>1, IInvariant, PTL

(* What a finalizer is about to save was saved when it read it.             *)
SavesExisting == \A f \in Finalizers : pc[f] = "save" => base[f].saved

UserInv == SavesExisting /\ NoResurrection /\ RenameKept

LEMMA UserStep ==
  ASSUME Persistence = "owned", IInv, UserInv, [Next]_vars
  PROVE UserInv'
<1> USE DEF IInv, TypeOK, UserInv, SavesExisting, NoResurrection, RenameKept,
        Goto, Conversations, Turns, Missing, records, effects, redis, local,
        user
<1>1. CASE UpdateLiveStatus
  BY <1>1 DEF UpdateLiveStatus
<1>2. ASSUME NEW f \in Finalizers, NEW o \in Outcomes, Begin(f, o) PROVE UserInv'
  BY <1>2 DEF Begin
<1>3. ASSUME NEW f \in Finalizers, ReadSnapshot(f) PROVE UserInv'
  BY <1>3 DEF ReadSnapshot
<1>4. ASSUME NEW f \in Finalizers, Claim(f) PROVE UserInv'
  BY <1>4 DEF Claim
<1>5. ASSUME NEW f \in Finalizers, Resume(f) PROVE UserInv'
  BY <1>5 DEF Resume
<1>6. ASSUME NEW f \in Finalizers, AcquireFinalization(f) PROVE UserInv'
  BY <1>6 DEF AcquireFinalization
<1>7. ASSUME NEW f \in Finalizers, LoadConversation(f) PROVE UserInv'
  BY <1>7 DEF LoadConversation, Saves
<1>8. ASSUME NEW f \in Finalizers, SaveConversation(f) PROVE UserInv'
  BY <1>8 DEF SaveConversation, WithSavedMetadata
<1>9. ASSUME NEW f \in Finalizers, CommitJournal(f) PROVE UserInv'
  BY <1>9 DEF CommitJournal, More
<1>10. ASSUME NEW f \in Finalizers, ReleaseLock(f) PROVE UserInv'
  BY <1>10 DEF ReleaseLock
<1>11. CASE Rename
  BY <1>11 DEF Rename
<1>12. CASE Delete
  BY <1>12 DEF Delete
<1>13. CASE NextTurnAdmitted
  BY <1>13 DEF NextTurnAdmitted
<1>14. CASE NextTurnSaved
  BY <1>14 DEF NextTurnSaved
<1>15. CASE LockExpires
  BY <1>15 DEF LockExpires, Faulty
<1>16. ASSUME NEW f \in Finalizers, Crash(f) PROVE UserInv'
  BY <1>16 DEF Crash, Faulty
<1>17. ASSUME NEW f \in Finalizers, Fail(f) PROVE UserInv'
  BY <1>17 DEF Fail, Faulty
<1>18. CASE UNCHANGED vars
  BY <1>18 DEF vars
<1> QED
  BY <1>1, <1>2, <1>3, <1>4, <1>5, <1>6, <1>7, <1>8, <1>9, <1>10, <1>11,
     <1>12, <1>13, <1>14, <1>15, <1>16, <1>17, <1>18 DEF Next, Work

(* Finalization neither recreates a conversation the user deleted nor       *)
(* undoes a rename, with any number of stalled and crashed finalizers       *)
(* (SAVE_CONVERSATION compares what was read, planCompletion stops at a     *)
(* missing conversation, withSavedMetadata keeps the saved name).           *)
THEOREM UserEditsKept ==
  ASSUME Persistence = "owned"
  PROVE Spec => [](NoResurrection /\ RenameKept)
<1>1. Init => UserInv
  BY DEF Init, UserInv, SavesExisting, NoResurrection, RenameKept
<1>2. IInv /\ UserInv /\ [Next]_vars => UserInv'
  BY UserStep
<1>3. UserInv => NoResurrection /\ RenameKept
  BY DEF UserInv
<1> QED
  BY <1>1, <1>2, <1>3, IInvariant, PTL DEF Spec

(* In particular the name the user gave is the one that is saved            *)
(* (withSavedMetadata takes it from the conversation it replaces).          *)
THEOREM RenamesKept ==
  ASSUME Persistence = "owned" PROVE Spec => []RenameKept
<1>1. NoResurrection /\ RenameKept => RenameKept
  OBVIOUS
<1> QED
  BY <1>1, UserEditsKept, PTL

(***************************************************************************)
(* The later turn                                                          *)
(***************************************************************************)

(* A journal completed by the lock's owner, or while nobody runs under the  *)
(* lock, leaves no finalizer that may still save.                           *)
NobodySaves ==
  journal = "completed" /\ ~overtaken =>
    \A f \in Finalizers : pc[f] \in {"load", "save"} => lock # f

(* Whoever is about to complete an open journal has saved the job's turn,   *)
(* or the conversation is gone.                                             *)
SavedBeforeCommit ==
  \A f \in Finalizers :
    pc[f] = "commit" /\ journal = "pending" /\ conv.saved =>
      conv.turns = {"job"}

(* Only under an open journal does a finalizer pass the claim; once it is   *)
(* completed the conversation holds the job's turn, and after it the next   *)
(* one when that is saved; the next turn started from it.                   *)
TurnsInOrder ==
  /\ \A f \in Finalizers :
       pc[f] \in {"load", "save", "commit"} => journal # "none"
  /\ next # "none" => journal = "completed"
  /\ next = "admitted" /\ conv.saved => history = {"job"}
  /\ journal = "completed" /\ conv.saved =>
       IF next = "saved"
       THEN overtaken \/ conv.turns = {"job", "next"}
       ELSE conv.turns = {"job"}

LaterInv == NobodySaves /\ SavedBeforeCommit /\ TurnsInOrder

LEMMA LaterStep ==
  ASSUME Persistence = "owned", IInv, SavesExisting, LaterInv,
         [Next]_vars
  PROVE LaterInv'
<1> USE LockAssumption
    DEF IInv, TypeOK, ClaimedTogether, Held, NextHolds, SavesExisting,
        LaterInv, NobodySaves, SavedBeforeCommit, TurnsInOrder, NoLock, Orphan,
        Goto, Conversations, Turns, Missing, records, effects, redis, local,
        user
<1>1. CASE UpdateLiveStatus
  BY <1>1 DEF UpdateLiveStatus
<1>2. ASSUME NEW f \in Finalizers, NEW o \in Outcomes, Begin(f, o) PROVE LaterInv'
  BY <1>2 DEF Begin
<1>3. ASSUME NEW f \in Finalizers, ReadSnapshot(f) PROVE LaterInv'
  BY <1>3 DEF ReadSnapshot
<1>4. ASSUME NEW f \in Finalizers, Claim(f) PROVE LaterInv'
  BY <1>4 DEF Claim
<1>5. ASSUME NEW f \in Finalizers, Resume(f) PROVE LaterInv'
  BY <1>5 DEF Resume
<1>6. ASSUME NEW f \in Finalizers, AcquireFinalization(f) PROVE LaterInv'
  BY <1>6 DEF AcquireFinalization
<1>7. ASSUME NEW f \in Finalizers, LoadConversation(f) PROVE LaterInv'
  BY <1>7 DEF LoadConversation, Saves
<1>8. ASSUME NEW f \in Finalizers, SaveConversation(f) PROVE LaterInv'
  BY <1>8 DEF SaveConversation, WithSavedMetadata
<1>9. ASSUME NEW f \in Finalizers, CommitJournal(f) PROVE LaterInv'
  BY <1>9 DEF CommitJournal, More
<1>10. ASSUME NEW f \in Finalizers, ReleaseLock(f) PROVE LaterInv'
  BY <1>10 DEF ReleaseLock
<1>11. CASE Rename
  BY <1>11 DEF Rename
<1>12. CASE Delete
  BY <1>12 DEF Delete
<1>13. CASE NextTurnAdmitted
  BY <1>13 DEF NextTurnAdmitted
<1>14. CASE NextTurnSaved
  BY <1>14 DEF NextTurnSaved
<1>15. CASE LockExpires
  BY <1>15 DEF LockExpires, Faulty
<1>16. ASSUME NEW f \in Finalizers, Crash(f) PROVE LaterInv'
  BY <1>16 DEF Crash, Faulty
<1>17. ASSUME NEW f \in Finalizers, Fail(f) PROVE LaterInv'
  BY <1>17 DEF Fail, Faulty
<1>18. CASE UNCHANGED vars
  BY <1>18 DEF vars
<1> QED
  BY <1>1, <1>2, <1>3, <1>4, <1>5, <1>6, <1>7, <1>8, <1>9, <1>10, <1>11,
     <1>12, <1>13, <1>14, <1>15, <1>16, <1>17, <1>18 DEF Next, Work

(* A saved later turn stays saved, with this job's turn before it, for any  *)
(* number of crashing, failing and stalling finalizers, unless the journal  *)
(* was completed over the head of the lock's holder (the token fence of     *)
(* SAVE_OWNED_CONVERSATION, planCompletion).                                *)
THEOREM LaterTurnSafe ==
  ASSUME Persistence = "owned" PROVE Spec => []LaterTurnKept
<1>1. Init => UserInv /\ LaterInv
  BY DEF Init, UserInv, SavesExisting, NoResurrection, RenameKept, LaterInv,
         NobodySaves, SavedBeforeCommit, TurnsInOrder
<1>2. IInv /\ UserInv /\ LaterInv /\ [Next]_vars => UserInv' /\ LaterInv'
  BY UserStep, LaterStep DEF UserInv
<1>3. LaterInv => LaterTurnKept
  BY DEF LaterInv, TurnsInOrder, LaterTurnKept
<1> QED
  BY <1>1, <1>2, <1>3, IInvariant, PTL DEF Spec

LEMMA JobStep ==
  ASSUME IInv, [Next]_vars PROVE [Job!Next]_(Job!vars)
<1> USE DEF IInv, TypeOK, AimsKnown, ClaimedTogether, Held, Goto, Outcomes,
        Job!Next, Job!vars, Job!Start, Job!Finish, Job!Lose, Job!Release,
        records, effects, redis, local, user
<1>1. CASE UpdateLiveStatus
  BY <1>1 DEF UpdateLiveStatus
<1>2. ASSUME NEW f \in Finalizers, NEW o \in Outcomes, Begin(f, o) PROVE [Job!Next]_(Job!vars)
  BY <1>2 DEF Begin
<1>3. ASSUME NEW f \in Finalizers, ReadSnapshot(f) PROVE [Job!Next]_(Job!vars)
  BY <1>3 DEF ReadSnapshot
<1>4. ASSUME NEW f \in Finalizers, Claim(f) PROVE [Job!Next]_(Job!vars)
  BY <1>4 DEF Claim
<1>5. ASSUME NEW f \in Finalizers, Resume(f) PROVE [Job!Next]_(Job!vars)
  BY <1>5 DEF Resume
<1>6. ASSUME NEW f \in Finalizers, AcquireFinalization(f) PROVE [Job!Next]_(Job!vars)
  BY <1>6 DEF AcquireFinalization
<1>7. ASSUME NEW f \in Finalizers, LoadConversation(f) PROVE [Job!Next]_(Job!vars)
  BY <1>7 DEF LoadConversation
<1>8. ASSUME NEW f \in Finalizers, SaveConversation(f) PROVE [Job!Next]_(Job!vars)
  BY <1>8 DEF SaveConversation, WithSavedMetadata
<1>9. ASSUME NEW f \in Finalizers, CommitJournal(f) PROVE [Job!Next]_(Job!vars)
  BY <1>9 DEF CommitJournal, More
<1>10. ASSUME NEW f \in Finalizers, ReleaseLock(f) PROVE [Job!Next]_(Job!vars)
  BY <1>10 DEF ReleaseLock
<1>11. CASE Rename
  BY <1>11 DEF Rename
<1>12. CASE Delete
  BY <1>12 DEF Delete, Missing
<1>13. CASE NextTurnAdmitted
  BY <1>13 DEF NextTurnAdmitted
<1>14. CASE NextTurnSaved
  BY <1>14 DEF NextTurnSaved
<1>15. CASE LockExpires
  BY <1>15 DEF LockExpires, Faulty
<1>16. ASSUME NEW f \in Finalizers, Crash(f) PROVE [Job!Next]_(Job!vars)
  BY <1>16 DEF Crash, Faulty
<1>17. ASSUME NEW f \in Finalizers, Fail(f) PROVE [Job!Next]_(Job!vars)
  BY <1>17 DEF Fail, Faulty
<1>18. CASE UNCHANGED vars
  BY <1>18 DEF vars
<1> QED
  BY <1>1, <1>2, <1>3, <1>4, <1>5, <1>6, <1>7, <1>8, <1>9, <1>10, <1>11,
     <1>12, <1>13, <1>14, <1>15, <1>16, <1>17, <1>18 DEF Next, Work

(* Competing finalizers give a job one outcome and its slot back after it.  *)
THEOREM ImplementsChatJob == Spec => JobSpec
<1>1. Init => Job!Init
  BY DEF Init, Job!Init
<1>2. IInv /\ [Next]_vars => [Job!Next]_(Job!vars)
  BY JobStep
<1> QED
  BY <1>1, <1>2, IInvariant, PTL DEF Spec, JobSpec, Job!Spec
=============================================================================
