--------------------------- MODULE ProfileImport ---------------------------
(***************************************************************************)
(* Bulk profile imports and the memory management routes over one user's   *)
(* document bank: appended and replacing imports, completed turns, their   *)
(* extraction operations and retries, and the sources a user deletes.      *)
(*   builder/profile_import_api.py, builder/memory_api.py,                 *)
(*   builder/nat_helpers/.../hindsight_client.py                           *)
(* A document is its id and where it came from; texts are left out, except *)
(* the lengths a completed turn is cut to.                                 *)
(***************************************************************************)
EXTENDS Naturals, Sequences, SequencesExt, FiniteSets

CONSTANTS
  Imports, Mode, Labels,   \* import requests, "append" or "replace", their labels
  OldProfile,              \* ids of the profile the bank starts with
  InventoryPage,           \* PROFILE_INVENTORY_PAGE_SIZE
  InventoryMax,            \* PROFILE_INVENTORY_MAX_PAGES
  TurnSizes,               \* lengths and escape weights of the turns tried
  MaxTurnChars,            \* _MAX_TURN_CHARS
  MaxPartChars,            \* _MAX_TURN_PART_CHARS
  MaxStoreFaults,          \* bound on failed or lost calls
  MaxForgets               \* bound on sources the user deletes

VARIABLES
  store,      \* the bank's documents in listing order
  importOperation,  \* the extraction operation of each import and of the turn
  request,    \* each import request
  turn,       \* the completed turn being retained
  stubborn,   \* the service ignores the listing offset
  forgotten,  \* history: ids the user deleted
  sfaults

importVars == <<store, importOperation, request, turn, stubborn, forgotten, sfaults>>

TurnId == <<"turn", "t">>
ImportNoOperation == [state |-> "none", left |-> {}]

(* deterministic_document_id: an append keeps one id per label, every       *)
(* replacement stages a generation of its own.                              *)
ImportDocumentId(i, l) == IF Mode[i] = "replace" THEN <<i, l>> ELSE <<"stable", l>>
Ids(i) == {ImportDocumentId(i, l) : l \in Labels[i]}

IsProfile(id) == id # TurnId
Stored == ToSet(store)
ProfileDocs == SelectSeq(store, IsProfile)

(* Ids are taken in one fixed order, which nothing depends on.              *)
FirstOf(ids) == IF ids = {} THEN {} ELSE {CHOOSE id \in ids : TRUE}

NoRequest == [pc |-> "idle", pages |-> 0, offset |-> 0, known |-> {}, alone |-> FALSE]
NoTurn == [pc |-> "idle", user |-> 0, assistant |-> 0, weight |-> 1, from |-> <<0, 0>>]

ImportInit ==
  /\ store = OldProfile
  /\ importOperation = [o \in Imports \cup {"turn"} |-> ImportNoOperation]
  /\ request = [i \in Imports |-> NoRequest]
  /\ turn = NoTurn
  /\ stubborn \in BOOLEAN
  /\ forgotten = {}
  /\ sfaults = MaxStoreFaults

Upset == sfaults > 0 /\ sfaults' = sfaults - 1

(* Another writer touched the bank: whoever is at work is no longer alone.  *)
Disturb(r, who) == [i \in Imports |-> [r[i] EXCEPT !.alone = @ /\ i = who]]

Quiet ==
  /\ \A i \in Imports : request[i].pc \in {"idle", "done", "failed"}
  /\ \A o \in DOMAIN importOperation : importOperation[o].state \notin {"pending", "running"}

(***************************************************************************)
(* import_profile_memories                                                 *)
(***************************************************************************)
StartImport(i) ==
  /\ request[i].pc = "idle"
  /\ request' = [Disturb(request, i) EXCEPT ![i] =
       [NoRequest EXCEPT !.pc = IF Mode[i] = "replace" THEN "list" ELSE "submit",
                         !.alone = Quiet]]
  /\ UNCHANGED <<store, importOperation, turn, stubborn, forgotten, sfaults>>

Ended(pc) == [NoRequest EXCEPT !.pc = pc]
ImportFails(i) == request' = [request EXCEPT ![i] = Ended("failed")]

(* list_documents by the profile tag.                                       *)
Page(offset) ==
  LET from == IF stubborn THEN 0 ELSE offset
  IN  SubSeq(ProfileDocs, from + 1,
             IF from + InventoryPage < Len(ProfileDocs)
             THEN from + InventoryPage ELSE Len(ProfileDocs))

(* A short page or one without a new id ends the inventory.                 *)
InventoryEnds(r, page) == Len(page) < InventoryPage \/ ToSet(page) \subseteq r.known

ListPage(i) ==
  LET r == request[i]
      page == Page(r.offset)
  IN  /\ r.pc = "list" /\ r.pages < InventoryMax
      /\ request' = [request EXCEPT
           ![i].known = @ \cup ToSet(page),
           ![i].pages = IF InventoryEnds(r, page) THEN 0 ELSE @ + 1,
           ![i].offset = IF InventoryEnds(r, page) THEN 0 ELSE @ + Len(page),
           ![i].pc = IF InventoryEnds(r, page) THEN "submit" ELSE "list"]
      /\ UNCHANGED <<store, importOperation, turn, stubborn, forgotten, sfaults>>

TooManyPages(i) ==
  /\ request[i].pc = "list" /\ request[i].pages = InventoryMax
  /\ ImportFails(i)
  /\ UNCHANGED <<store, importOperation, turn, stubborn, forgotten, sfaults>>

(* Any call of the import may fail; the route answers 500.                  *)
CallFails(i) ==
  /\ request[i].pc \in {"list", "submit", "await", "delete"} /\ Upset
  /\ ImportFails(i)
  /\ UNCHANGED <<store, importOperation, turn, stubborn, forgotten>>

(* retain_batch under a fresh operation id: a replacement waits for the     *)
(* extraction, an append is answered once the operation is accepted.  The   *)
(* answer may be lost.                                                      *)
SubmitBatch(i) ==
  /\ request[i].pc = "submit"
  /\ importOperation' = [importOperation EXCEPT ![i] = [state |-> "pending", left |-> Ids(i)]]
  /\ \/ /\ request' = [Disturb(request, i) EXCEPT ![i] =
              IF Mode[i] = "replace" THEN [@ EXCEPT !.pc = "await"] ELSE Ended("done")]
        /\ UNCHANGED sfaults
     \/ Upset /\ request' = [Disturb(request, i) EXCEPT ![i] = Ended("failed")]
  /\ UNCHANGED <<store, turn, stubborn, forgotten>>

\* Mutant: an accepted job is taken for evidence of retention.
ConfirmedOnceAccepted(state) == state # "failed"

(* Only a completed extraction confirms a replacement.                      *)
Confirmed(state) == state \notin {"pending", "running", "failed"}

Retained(i) ==
  /\ request[i].pc = "await"
  /\ importOperation[i].state \in {"pending", "completed", "failed"}
  /\ request' = [request EXCEPT ![i] =
       IF Confirmed(importOperation[i].state) THEN [@ EXCEPT !.pc = "delete"] ELSE Ended("failed")]
  /\ UNCHANGED <<store, importOperation, turn, stubborn, forgotten, sfaults>>

(* The inventoried documents are deleted one after the other; one that is   *)
(* gone already answers 404 and ends the import.                            *)
DeletePrevious(i) ==
  /\ request[i].pc = "delete"
  /\ \E id \in FirstOf(request[i].known) :
    /\ store' = SelectSeq(store, LAMBDA d : d # id)
    /\ request' = [Disturb(request, i) EXCEPT ![i] =
         IF id \in Stored THEN [@ EXCEPT !.known = @ \ {id}] ELSE Ended("failed")]
    /\ UNCHANGED <<importOperation, turn, stubborn, forgotten, sfaults>>

ImportDone(i) ==
  /\ request[i].pc = "delete" /\ request[i].known = {}
  /\ request' = [request EXCEPT ![i].pc = "done"]
  /\ UNCHANGED <<store, importOperation, turn, stubborn, forgotten, sfaults>>

(***************************************************************************)
(* The extraction service, and the operation routes                        *)
(***************************************************************************)
Write(id) == IF id \in Stored THEN store ELSE Append(store, id)

(* update_mode "replace": a document is written under its id.               *)
ImportExtract(o) ==
  /\ importOperation[o].state \in {"pending", "running"}
  /\ \E id \in FirstOf(importOperation[o].left) :
    /\ store' = Write(id)
    /\ importOperation' = [importOperation EXCEPT ![o] =
         [state |-> IF @.left = {id} THEN "completed" ELSE "running",
          left |-> @.left \ {id}]]
    /\ request' = Disturb(request, o)
    /\ UNCHANGED <<turn, stubborn, forgotten, sfaults>>

ExtractFails(o) ==
  /\ importOperation[o].state \in {"pending", "running"} /\ Upset
  /\ importOperation' = [importOperation EXCEPT ![o].state = "failed"]
  /\ UNCHANGED <<store, request, turn, stubborn, forgotten>>

(* retry_memory_operation: what is missing is extracted again.              *)
ImportRetryOperation(o) ==
  /\ importOperation[o].state = "failed"
  /\ importOperation' = [importOperation EXCEPT ![o].state = "pending"]
  /\ request' = Disturb(request, o)
  /\ UNCHANGED <<store, turn, stubborn, forgotten, sfaults>>

(* delete_memory_source                                                     *)
DeleteSource ==
  \E id \in Stored :
    /\ Cardinality(forgotten) < MaxForgets
    /\ store' = SelectSeq(store, LAMBDA d : d # id)
    /\ forgotten' = forgotten \cup {id}
    /\ request' = Disturb(request, "user")
    /\ UNCHANGED <<importOperation, turn, stubborn, sfaults>>

(***************************************************************************)
(* retain_turn                                                             *)
(***************************************************************************)
SmallerOf(a, b) == IF a < b THEN a ELSE b
Shortened(n, cut, least) == IF n > cut + least THEN n - cut ELSE least

(* The serialized turn: its frame, one frame per message, escaped text.     *)
Serialized(t) ==
  2 + t.weight * t.user + (IF t.assistant > 0 THEN 1 + t.weight * t.assistant ELSE 0)

(* One turn of the loop: the answer gives way before the question does.     *)
TrimStep(t) ==
  LET overflow == Serialized(t) - MaxTurnChars
  IN  IF Serialized(t) <= MaxTurnChars THEN t
      ELSE IF t.assistant > 0
      THEN [t EXCEPT !.assistant = Shortened(@, overflow + 1, 0)]
      ELSE [t EXCEPT !.user = Shortened(@, overflow + 1, 1)]
Trimmed(t) == FoldLeft(LAMBDA x, n : TrimStep(x), t, [n \in 1..2 * MaxPartChars |-> n])

(* _completed_turn_document                                                 *)
CompleteTurn(size) ==
  /\ turn.pc = "idle"
  /\ turn' = Trimmed([pc |-> "submit", user |-> SmallerOf(size[1], MaxPartChars),
                      assistant |-> SmallerOf(size[2], MaxPartChars),
                      weight |-> size[3], from |-> <<size[1], size[2]>>])
  /\ UNCHANGED <<store, importOperation, request, stubborn, forgotten, sfaults>>

(* The turn's document and operation ids are derived from it, so a retry    *)
(* after a lost answer finds the operation it had started.                  *)
SubmitTurn ==
  /\ turn.pc = "submit"
  /\ importOperation' = [importOperation EXCEPT !["turn"] =
       IF @.state = "none" THEN [state |-> "pending", left |-> {TurnId}] ELSE @]
  /\ \/ turn' = [turn EXCEPT !.pc = "accepted"] /\ UNCHANGED sfaults
     \/ Upset /\ UNCHANGED turn
  /\ request' = Disturb(request, "turn")
  /\ UNCHANGED <<store, stubborn, forgotten>>

ImportNext ==
  \/ \E i \in Imports : \/ StartImport(i) \/ ListPage(i) \/ TooManyPages(i) \/ CallFails(i)
                        \/ SubmitBatch(i) \/ Retained(i) \/ DeletePrevious(i) \/ ImportDone(i)
  \/ \E o \in DOMAIN importOperation : ImportExtract(o) \/ ExtractFails(o) \/ ImportRetryOperation(o)
  \/ DeleteSource
  \/ \E size \in TurnSizes : CompleteTurn(size)
  \/ SubmitTurn

ImportSpec == ImportInit /\ [][ImportNext]_importVars
-----------------------------------------------------------------------------
Generations == {Ids(i) : i \in {j \in Imports : Mode[j] = "replace"}} \cup {ToSet(OldProfile)}

(* Whatever fails between inventory and deletion, and however imports       *)
(* overlap, some whole profile is in the bank, but for what the user        *)
(* deleted himself.                                                         *)
ProfileWhole == \E g \in Generations : g \ forgotten \subseteq Stored

(* A replacement that had the bank to itself leaves exactly its own         *)
(* generation, and no import ever removes a memory of another source.       *)
ReplacementExact ==
  /\ \A i \in Imports :
       Mode[i] = "replace" /\ request[i].pc = "done" /\ request[i].alone /\ ~stubborn
         => Stored \ {TurnId} = Ids(i)
  /\ importOperation["turn"].state = "completed" => TurnId \in Stored \cup forgotten

(* A retained turn fits the bank's limit, and its question is cut only once *)
(* nothing of the answer is left.                                           *)
TurnFits ==
  turn.pc # "idle" =>
    /\ Serialized(turn) <= MaxTurnChars
    /\ turn.user > 0
    /\ turn.user < SmallerOf(turn.from[1], MaxPartChars) => turn.assistant = 0

MemoryImportsKept == ProfileWhole /\ ReplacementExact /\ TurnFits
=============================================================================
