----------------------------- MODULE Idempotency -----------------------------
(***************************************************************************)
(* Local writes of an autonomous execution that must not be repeated when  *)
(* the execution is replayed (nat_helpers/idempotency.py, as document      *)
(* ingestion and the add_memory tool use it).                              *)
(***************************************************************************)
EXTENDS Naturals, FiniteSets

CONSTANTS ReceiptCalls,  \* tool calls of one execution and its replays
          Args    \* the arguments of each: "zero" and "plain" overlap, or "memory"

Keys == {"zero", "plain", "memory"}

ASSUME ReceiptAssumption == Args \in [ReceiptCalls -> Keys]

VARIABLES
  call,     \* stage of a call, or what it answered
  receipt,  \* the receipt of each operation key
  legacy,   \* what a call read of the earlier key
  rechecks, \* rounds of the reservation
  effects   \* history: the calls whose effect was attempted

idemVars == <<call, receipt, legacy, rechecks, effects>>

NoCall == "none"
NoReceipt == [state |-> "absent", owner |-> NoCall, marked |-> FALSE]

(* A request for overlap zero once was taken for one with the configured    *)
(* overlap, and kept its receipt under that key, without a contract.        *)
LegacyKey(c) == IF Args[c] = "zero" THEN "plain" ELSE "no_key"
HasLegacy(c) == LegacyKey(c) \in Keys

IdemInit ==
  /\ call = [c \in ReceiptCalls |-> "idle"]
  /\ \E old \in {"absent", "in_progress", "completed", "invalid"} :
       receipt = [k \in Keys |->
         IF k = "plain" THEN [NoReceipt EXCEPT !.state = old] ELSE NoReceipt]
  /\ legacy = [c \in ReceiptCalls |-> NoReceipt] /\ rechecks = [c \in ReceiptCalls |-> 0] /\ effects = {}

ReceiptTo(c, stage) == call' = [call EXCEPT ![c] = stage]

(* The references are resolved to immutable identities, or cannot be.       *)
Prepare(c) ==
  /\ call[c] = "idle"
  /\ ReceiptTo(c, "reading") \/ ReceiptTo(c, "unavailable")
  /\ UNCHANGED <<receipt, legacy, rechecks, effects>>

(* A round of the reservation begins with a fresh GET of the earlier key,   *)
(* where there is one.                                                      *)
ReadLegacy(c) ==
  /\ call[c] = "reading"
  /\ \/ /\ ReceiptTo(c, "reserving")
        /\ legacy' = [legacy EXCEPT ![c] = IF HasLegacy(c) THEN receipt[LegacyKey(c)] ELSE NoReceipt]
     \/ HasLegacy(c) /\ ReceiptTo(c, "unavailable") /\ UNCHANGED legacy
  /\ UNCHANGED <<receipt, rechecks, effects>>

(* The earlier receipt stops the reservation, unless it is one of the       *)
(* corrected contract and is still the one that was read.                   *)
Blocks(c) ==
  /\ HasLegacy(c) /\ receipt[LegacyKey(c)] # NoReceipt
  /\ ~legacy[c].marked \/ receipt[LegacyKey(c)] # legacy[c]

(* Mutant: a receipt in progress is taken over.                             *)
TakenUnlessCompleted(c) == receipt[Args[c]].state = "completed"

Taken(c) == receipt[Args[c]] # NoReceipt

ReceiptAnswer(r) == IF r.state = "completed" THEN "replayed" ELSE "refused"

(* One atomic script, or SET NX, then the reading of the receipt found. A   *)
(* receipt of the corrected contract that appeared or changed meanwhile     *)
(* sends the call back to the reading, once; then it fails closed.          *)
Reserve(c) ==
  /\ call[c] = "reserving"
  /\ \/ /\ Taken(c) /\ ReceiptTo(c, ReceiptAnswer(receipt[Args[c]]))
        /\ UNCHANGED <<receipt, legacy, rechecks>>
     \/ /\ ~Taken(c) /\ Blocks(c)
        /\ LET found == receipt[LegacyKey(c)]
           IN  IF found.marked /\ rechecks[c] = 0
               THEN rechecks' = [rechecks EXCEPT ![c] = 1] /\ ReceiptTo(c, "reading")
               ELSE /\ ReceiptTo(c, IF found.marked THEN "refused" ELSE ReceiptAnswer(found))
                    /\ UNCHANGED rechecks
        /\ UNCHANGED <<receipt, legacy>>
     \/ /\ ~Taken(c) /\ ~Blocks(c) /\ ReceiptTo(c, "owner")
        /\ receipt' = [receipt EXCEPT ![Args[c]] =
                         [state |-> "in_progress", owner |-> c, marked |-> Args[c] # "memory"]]
        /\ UNCHANGED <<legacy, rechecks>>
     \/ ReceiptTo(c, "unavailable") /\ UNCHANGED <<receipt, legacy, rechecks>>
  /\ UNCHANGED effects

(* The write itself. A memory that could not be retained ends the call with *)
(* its reservation in place; an ingestion answers what happened.            *)
Effect(c) ==
  /\ call[c] = "owner" /\ effects' = effects \cup {c}
  /\ ReceiptTo(c, "completing") \/ (Args[c] = "memory" /\ ReceiptTo(c, "failed"))
  /\ UNCHANGED <<receipt, legacy, rechecks>>

(* complete_operation: only the owner publishes. A receipt that cannot be   *)
(* published does not turn the success into an error.                       *)
Complete(c) ==
  /\ call[c] = "completing" /\ ReceiptTo(c, "answered")
  /\ \/ /\ receipt[Args[c]].state = "in_progress" /\ receipt[Args[c]].owner = c
        /\ receipt' = [receipt EXCEPT ![Args[c]].state = "completed"]
     \/ UNCHANGED receipt
  /\ UNCHANGED <<legacy, rechecks, effects>>

(* The backend dies in the middle of a call; the execution is replayed by   *)
(* another call.                                                            *)
Crash(c) ==
  /\ call[c] \in {"reading", "reserving", "owner", "completing"} /\ ReceiptTo(c, "crashed")
  /\ UNCHANGED <<receipt, legacy, rechecks, effects>>

IdemNext ==
  \E c \in ReceiptCalls :
    Prepare(c) \/ ReadLegacy(c) \/ Reserve(c) \/ Effect(c) \/ Complete(c) \/ Crash(c)

(* A write is attempted at most once however often its execution is         *)
(* replayed; a request for overlap zero is not run at all when a receipt    *)
(* from before the correction may stand for it; and a call that answers     *)
(* with a stored result follows a write that ended (reserve_operation).     *)
EffectOnce ==
  /\ \A c, d \in effects : Args[c] = Args[d] => c = d
  /\ \A c \in effects : HasLegacy(c) =>
       receipt[LegacyKey(c)] = NoReceipt \/ receipt[LegacyKey(c)].marked
  /\ \A c \in ReceiptCalls : call[c] = "replayed" =>
       \/ \E d \in effects : Args[d] = Args[c] /\ call[d] = "answered"
       \/ receipt["plain"].state = "completed" /\ ~receipt["plain"].marked
=============================================================================
