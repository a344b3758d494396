---------------------------- MODULE Finalization ----------------------------
(***************************************************************************)
(* Finalization of one chat job by competing finalizers (the worker, the   *)
(* user's Stop, a status poll, the next turn): the terminal claim, the     *)
(* finalizer lock with its TTL, the fenced conversation save and the one   *)
(* journal write that releases, publishes and queues memory retention.     *)
(*   frontend/server/chat/finalization.ts, jobState.ts,                    *)
(*   frontend/server/session/conversationStore.ts, conversationDeletion.ts *)
(* The user renames or deletes the conversation and a later turn appends   *)
(* to it meanwhile.  One action is one Redis round trip.                   *)
(***************************************************************************)
EXTENDS Naturals

CONSTANTS Finalizers,
          Persistence,  \* "owned": saved into the user's conversation;
                        \* "create": an isolated run's approval prompt;
                        \* "none": an isolated run that saves nothing
          Stalls,       \* a running finalizer may outlive its lock's TTL
          MaxUpdates,   \* bound on updates of the live status
          MaxFaults     \* bound on crashes, failed calls and lock expiries

ASSUME PersistenceAssumption == Persistence \in {"owned", "create", "none"}
ASSUME StallsAssumption == Stalls \in BOOLEAN
ASSUME BoundsAssumption == MaxUpdates \in Nat /\ MaxFaults \in Nat

NoLock == "none"
Orphan == "orphan"
ASSUME LockAssumption == {NoLock, Orphan} \cap Finalizers = {}

VARIABLES
  (* Redis *)
  status,     \* "live" or the outcome
  version,    \* which snapshot of the live status is stored
  journal,    \* "none", "pending", "completed"
  lock,       \* owner of the finalizer lock
  conv,       \* the saved conversation
  guard,      \* the job the conversation guard names
  slot,       \* the job holds its user's chat slot
  published,  \* completion events: 0, 1, or 2 for more than one
  told,       \* the outcome the events named
  retained,   \* memory retention submissions: 0, 1, or 2
  (* finalizers *)
  pc,
  aim,        \* the outcome a finalizer wants, or "resume"
  snap,       \* the status snapshot its claim compares
  base,       \* the conversation snapshot its save compares
  hidden,     \* it found the conversation gone
  (* the user and the next turn *)
  next,       \* the next turn: "none", "admitted", "saved"
  history,    \* the messages the next turn was submitted with
  renamed,    \* the user renamed the conversation
  deleted,    \* the user deleted the conversation
  overtaken,  \* history: the journal was completed while another finalizer
              \* held the lock
  faults

records == <<status, version, journal>>
effects == <<guard, slot, published, told, retained>>
redis == <<records, lock, conv, effects>>
local == <<pc, aim, snap, base, hidden>>
user == <<next, history, renamed, deleted, overtaken>>
vars == <<redis, local, user, faults>>

Outcomes == {"completed", "error"}
Turns == {"job", "next"}
Conversations == [saved : BOOLEAN, turns : SUBSET Turns, renamed : BOOLEAN]
Missing == [saved |-> FALSE, turns |-> {}, renamed |-> FALSE]

TypeOK ==
  /\ status \in Outcomes \cup {"live"}
  /\ version \in 0..MaxUpdates
  /\ journal \in {"none", "pending", "completed"}
  /\ lock \in Finalizers \cup {NoLock, Orphan}
  /\ conv \in Conversations
  /\ guard \in {"none", "job", "next"} /\ slot \in BOOLEAN
  /\ published \in 0..2 /\ retained \in 0..2
  /\ told \in Outcomes \cup {"none"}
  /\ pc \in [Finalizers -> {"idle", "read", "claim", "acquire", "load",
                            "save", "commit", "unlock"}]
  /\ aim \in [Finalizers -> Outcomes \cup {"resume"}]
  /\ snap \in [Finalizers -> 0..MaxUpdates]
  /\ base \in [Finalizers -> Conversations]
  /\ hidden \in [Finalizers -> BOOLEAN]
  /\ next \in {"none", "admitted", "saved"} /\ history \in SUBSET Turns
  /\ renamed \in BOOLEAN /\ deleted \in BOOLEAN /\ overtaken \in BOOLEAN
  /\ faults \in 0..MaxFaults

(* An owned conversation was reserved by the submission, under its guard.   *)
Init ==
  /\ status = "live" /\ version = 0 /\ journal = "none" /\ lock = NoLock
  /\ conv = [saved |-> Persistence = "owned", turns |-> {}, renamed |-> FALSE]
  /\ guard = (IF Persistence = "owned" THEN "job" ELSE "none")
  /\ slot = TRUE /\ published = 0 /\ told = "none" /\ retained = 0
  /\ pc = [f \in Finalizers |-> "idle"]
  /\ aim = [f \in Finalizers |-> "resume"]
  /\ snap = [f \in Finalizers |-> 0]
  /\ base = [f \in Finalizers |-> Missing]
  /\ hidden = [f \in Finalizers |-> FALSE]
  /\ next = "none" /\ history = {} /\ renamed = FALSE /\ deleted = FALSE
  /\ overtaken = FALSE
  /\ faults = MaxFaults

Goto(f, where) == pc' = [pc EXCEPT ![f] = where]
More(n) == IF n = 0 THEN 1 ELSE 2
Faulty == faults > 0 /\ faults' = faults - 1

(***************************************************************************)
(* The terminal claim                                                      *)
(***************************************************************************)

(* The reader, an OAuth callback or ingestion progress updates a live       *)
(* status, by compare and set; a terminal one is never written.             *)
UpdateLiveStatus ==
  /\ status = "live" /\ version < MaxUpdates
  /\ version' = version + 1
  /\ UNCHANGED <<status, journal, lock, conv, effects, local, user, faults>>

(* finalizeSuccess or finalizeError begins.                                 *)
Begin(f, o) ==
  /\ pc[f] = "idle" /\ status = "live"
  /\ aim' = [aim EXCEPT ![f] = o]
  /\ Goto(f, "read")
  /\ UNCHANGED <<redis, snap, base, hidden, user, faults>>

(* Without a live status there is nothing to claim, only to resume.         *)
ReadSnapshot(f) ==
  /\ pc[f] = "read"
  /\ snap' = [snap EXCEPT ![f] = version]
  /\ Goto(f, IF status = "live" THEN "claim" ELSE "acquire")
  /\ UNCHANGED <<redis, aim, base, hidden, user, faults>>

(* Mutant: the claim does not look at the status it replaces.               *)
ClaimUncompared(f) ==
  /\ pc[f] = "claim"
  /\ status' = aim[f] /\ journal' = "pending"
  /\ Goto(f, "acquire")
  /\ UNCHANGED <<version, lock, conv, effects, aim, snap, base, hidden, user,
                 faults>>

(* One script compares the snapshot, writes the terminal status and its     *)
(* journal, and takes the finalizer lock if it is free.                     *)
Claim(f) ==
  /\ pc[f] = "claim"
  /\ \/ /\ status = "live" /\ version = snap[f]
        /\ status' = aim[f] /\ journal' = "pending"
        /\ \/ lock = NoLock /\ lock' = f /\ Goto(f, "load")
           \/ lock # NoLock /\ UNCHANGED lock /\ Goto(f, "acquire")
     \/ /\ status = "live" /\ version # snap[f]
        /\ Goto(f, "read")
        /\ UNCHANGED <<status, journal, lock>>
     \/ /\ status # "live"
        /\ Goto(f, "acquire")
        /\ UNCHANGED <<status, journal, lock>>
  /\ UNCHANGED <<version, conv, effects, aim, snap, base, hidden, user, faults>>

(* A status poll, a worker's acknowledgement or the next turn resumes.      *)
Resume(f) ==
  /\ pc[f] = "idle" /\ status # "live"
  /\ aim' = [aim EXCEPT ![f] = "resume"]
  /\ Goto(f, "acquire")
  /\ UNCHANGED <<redis, snap, base, hidden, user, faults>>

(* A missing or completed journal takes no lock; a busy lock gives up.      *)
AcquireFinalization(f) ==
  /\ pc[f] = "acquire"
  /\ IF journal = "pending" /\ lock = NoLock
     THEN lock' = f /\ Goto(f, "load")
     ELSE Goto(f, "idle") /\ UNCHANGED lock
  /\ UNCHANGED <<records, conv, effects, aim, snap, base, hidden, user, faults>>

(***************************************************************************)
(* Completing the journal under the lock                                   *)
(***************************************************************************)

(* The journal carries a conversation; an isolated run's only when it       *)
(* completed at an approval prompt.                                         *)
Saves == \/ Persistence = "owned"
         \/ Persistence = "create" /\ status = "completed"

(* Mutant: a conversation that is gone is saved all the same.               *)
LoadConversationAnyway(f) ==
  /\ pc[f] = "load"
  /\ base' = [base EXCEPT ![f] = conv]
  /\ hidden' = [hidden EXCEPT ![f] = FALSE]
  /\ Goto(f, IF Saves THEN "save" ELSE "commit")
  /\ UNCHANGED <<redis, aim, snap, user, faults>>

(* A conversation that is gone is not recreated, unless the journal creates *)
(* it.                                                                      *)
LoadConversation(f) ==
  /\ pc[f] = "load"
  /\ LET gone == Persistence = "owned" /\ ~conv.saved
     IN  /\ base' = [base EXCEPT ![f] = conv]
         /\ hidden' = [hidden EXCEPT ![f] = gone]
         /\ Goto(f, IF Saves /\ ~gone THEN "save" ELSE "commit")
  /\ UNCHANGED <<redis, aim, snap, user, faults>>

(* Mutant: the journal's name replaces the saved one.                       *)
WithJournalMetadata(current) ==
  [saved |-> TRUE, turns |-> {"job"}, renamed |-> FALSE]

(* The journal's turn replaces the saved messages; a name the user changed  *)
(* since submission is kept.                                                *)
WithSavedMetadata(current) ==
  [saved |-> TRUE, turns |-> {"job"}, renamed |-> current.renamed]

(* Mutants: the save is not fenced by the lock; the guard is given back with *)
(* the save, before the journal records it.                                 *)
SaveConversationUnfenced(f) ==
  /\ pc[f] = "save"
  /\ \/ conv # base[f] /\ Goto(f, "load") /\ UNCHANGED conv
     \/ /\ conv = base[f]
        /\ conv' = WithSavedMetadata(conv)
        /\ Goto(f, "commit")
  /\ UNCHANGED <<records, lock, effects, aim, snap, base, hidden, user, faults>>

SaveConversationReleases(f) ==
  /\ pc[f] = "save" /\ lock = f /\ conv = base[f]
  /\ conv' = WithSavedMetadata(conv)
  /\ guard' = IF guard = "job" THEN "none" ELSE guard
  /\ Goto(f, "commit")
  /\ UNCHANGED <<records, lock, slot, published, told, retained, aim, snap,
                 base, hidden, user, faults>>

(* The save script: the lock token fences, then the snapshot is compared.   *)
SaveConversation(f) ==
  /\ pc[f] = "save"
  /\ \/ /\ lock # f
        /\ Goto(f, "unlock")
        /\ UNCHANGED conv
     \/ /\ lock = f /\ conv # base[f]
        /\ Goto(f, "load")
        /\ UNCHANGED conv
     \/ /\ lock = f /\ conv = base[f]
        /\ conv' = WithSavedMetadata(conv)
        /\ Goto(f, "commit")
  /\ UNCHANGED <<records, lock, effects, aim, snap, base, hidden, user, faults>>

(* Mutant: the events name what this finalizer wanted.                      *)
CommitJournalOwnAim(f) ==
  /\ pc[f] = "commit" /\ journal = "pending"
  /\ journal' = "completed"
  /\ published' = More(published) /\ told' = aim[f]
  /\ slot' = FALSE /\ guard' = IF guard = "job" THEN "none" ELSE guard
  /\ Goto(f, "unlock")
  /\ UNCHANGED <<status, version, lock, conv, retained, aim, snap, base, hidden,
                 user, faults>>

(* One script records every phase, publishes, releases what still names the *)
(* job and queues retention of a saved completed turn.  A journal another   *)
(* finalizer completed is left as it is.  The script compares the journal   *)
(* and not the lock: a finalizer that lost it still completes the journal.  *)
CommitJournal(f) ==
  /\ pc[f] = "commit"
  /\ \/ /\ journal = "pending"
        /\ journal' = "completed"
        /\ published' = More(published) /\ told' = status
        /\ slot' = FALSE
        /\ guard' = IF guard = "job" THEN "none" ELSE guard
        /\ retained' = IF /\ status = "completed" /\ ~hidden[f]
                          /\ Persistence = "owned"
                       THEN More(retained) ELSE retained
        /\ overtaken' = (lock \in Finalizers \ {f})
     \/ /\ journal # "pending"
        /\ UNCHANGED <<journal, effects, overtaken>>
  /\ Goto(f, "unlock")
  /\ UNCHANGED <<status, version, lock, conv, aim, snap, base, hidden, next,
                 history, renamed, deleted, faults>>

(* Mutant: the lock stays with a finalizer that is done.                    *)
ReleaseLockForgotten(f) ==
  /\ pc[f] = "unlock"
  /\ Goto(f, "idle")
  /\ UNCHANGED <<redis, aim, snap, base, hidden, user, faults>>

ReleaseLock(f) ==
  /\ pc[f] = "unlock"
  /\ lock' = IF lock = f THEN NoLock ELSE lock
  /\ Goto(f, "idle")
  /\ UNCHANGED <<records, conv, effects, aim, snap, base, hidden, user, faults>>

(***************************************************************************)
(* The user and the next turn                                              *)
(***************************************************************************)

(* Saving metadata leaves the messages of an answered turn alone.           *)
Rename ==
  /\ conv.saved /\ ~renamed
  /\ renamed' = TRUE
  /\ conv' = [conv EXCEPT !.renamed = TRUE]
  /\ UNCHANGED <<records, lock, effects, local, next, history, deleted, overtaken,
                 faults>>

Delete ==
  /\ conv.saved
  /\ deleted' = TRUE
  /\ conv' = Missing
  /\ UNCHANGED <<records, lock, effects, local, next, history, renamed, overtaken,
                 faults>>

(* The next turn needs the guard, and is submitted with the saved history.  *)
NextTurnAdmitted ==
  /\ next = "none" /\ conv.saved /\ guard = "none"
  /\ guard' = "next"
  /\ next' = "admitted" /\ history' = conv.turns
  /\ UNCHANGED <<records, lock, conv, slot, published, told, retained, local,
                 renamed, deleted, overtaken, faults>>

(* Its own finalization saves history and answer and releases the guard.    *)
NextTurnSaved ==
  /\ next = "admitted"
  /\ next' = "saved" /\ guard' = "none"
  /\ conv' = IF conv.saved
             THEN [conv EXCEPT !.turns = history \cup {"next"}]
             ELSE conv
  /\ UNCHANGED <<records, lock, slot, published, told, retained, local,
                 history, renamed, deleted, overtaken, faults>>

(***************************************************************************)
(* Faults                                                                  *)
(***************************************************************************)

(* The lock's TTL ends, under its owner or after a crash.                   *)
LockExpires ==
  /\ lock # NoLock
  /\ \/ lock = Orphan /\ UNCHANGED faults
     \/ lock # Orphan /\ Stalls /\ Faulty
  /\ lock' = NoLock
  /\ UNCHANGED <<records, conv, effects, local, user>>

Crash(f) ==
  /\ Faulty /\ pc[f] # "idle"
  /\ Goto(f, "idle")
  /\ lock' = IF lock = f THEN Orphan ELSE lock
  /\ UNCHANGED <<records, conv, effects, aim, snap, base, hidden, user>>

(* A call throws: the lock is released on the way out.                      *)
Fail(f) ==
  /\ Faulty /\ pc[f] \in {"read", "claim", "acquire", "load", "save", "commit"}
  /\ Goto(f, "unlock")
  /\ UNCHANGED <<redis, aim, snap, base, hidden, user>>

(***************************************************************************)
(* Specification                                                           *)
(***************************************************************************)

Work(f) ==
  \/ ReadSnapshot(f) \/ Claim(f) \/ AcquireFinalization(f)
  \/ LoadConversation(f) \/ SaveConversation(f) \/ CommitJournal(f)
  \/ ReleaseLock(f)

Next ==
  \/ UpdateLiveStatus \/ Rename \/ Delete \/ NextTurnAdmitted \/ NextTurnSaved
  \/ \E f \in Finalizers :
       \/ Work(f) \/ Resume(f) \/ \E o \in Outcomes : Begin(f, o)
       \/ Crash(f) \/ Fail(f)
  \/ LockExpires

Spec == Init /\ [][Next]_vars

(* A running finalizer goes on, a worker keeps resuming the journal of the  *)
(* entry it may not acknowledge, and a dead owner's lock expires.           *)
Fairness ==
  /\ \A f \in Finalizers : WF_vars(Work(f)) /\ WF_vars(Resume(f))
  /\ WF_vars(LockExpires /\ lock = Orphan)

FairSpec == Spec /\ Fairness

(***************************************************************************)
(* Properties                                                              *)
(***************************************************************************)

(* A saved later turn stays saved, with this job's turn before it, however  *)
(* long a finalizer stalls: one whose lock expired does not overwrite it    *)
(* (SAVE's fence), nor does one that resumes a completed journal.  The one  *)
(* exception is a journal completed over the head of the lock's holder,     *)
(* which then saves the job's turn again (CommitJournal is not fenced).     *)
LaterTurnKept ==
  next = "saved" /\ conv.saved /\ ~overtaken => conv.turns = {"job", "next"}

(* What planCompletion's comment says, without the exception: the receipt   *)
(* commits before the guards are released, so a later turn that acquires    *)
(* the guard can never be overwritten by a re-applied journal.              *)
LaterTurnAlwaysKept ==
  next = "saved" /\ conv.saved => conv.turns = {"job", "next"}

(* Completion is published at most once and names the outcome that won;     *)
(* retention is queued at most once, only for a completed turn.             *)
EffectsOnce ==
  /\ published <= 1 /\ (published = 1 => told = status)
  /\ retained <= 1 /\ (retained = 1 => status = "completed")

(* Slot and guard are given back together with the recorded save.           *)
ReleasedWithReceipt ==
  (~slot \/ (Persistence = "owned" /\ guard # "job"))
     <=> journal = "completed"

(* A conversation the user deleted is not recreated by finalization.        *)
NoResurrection == deleted => ~conv.saved

(* A rename survives finalization.                                          *)
RenameKept == renamed /\ conv.saved => conv.renamed

(* One terminal outcome, and the guard given back only after it.            *)
Job == INSTANCE ChatJob WITH
         outcome <- IF status = "live" THEN "open" ELSE status,
         starts <- 0, held <- slot
JobSpec == Job!Spec

(* A claimed outcome is eventually settled.                                 *)
ClaimSettles == status # "live" ~> journal = "completed"
=============================================================================
