------------------------------- MODULE Memory -------------------------------
(***************************************************************************)
(* A user's long-term memory: the bank and its knowledge pages in          *)
(* Hindsight, the session brief cached in Redis, and the requests that     *)
(* initialize, read, extend and clear them at several replicas.            *)
(*   builder/nat_helpers: hindsight_memory_context.py, hindsight_client.py,*)
(*                        memory_lifecycle.py                              *)
(*   builder/memory_api.py                                                 *)
(* One user and one conversation; a text is the set of documents it was    *)
(* written from.                                                           *)
(***************************************************************************)
EXTENDS Integers, FiniteSets, Sequences, SequencesExt

CONSTANTS Turns, Retains, Clears,  \* chat turns, retained turns, Clear requests
          Homes, Home,             \* backend replicas, and each request's
          Pages,                   \* names of the managed knowledge pages
          MaxMemoryFaults,         \* bound on failures, expired locks and removals
          Owners, Stranger,        \* users with a bank, and a caller without identity
          Units,                   \* extracted memories
          Room,                    \* characters of a context or a retained document
          Longest,                 \* characters of a brief, page, fact or message
          TopK, BriefingTopK       \* memories of a search, and of a briefing's

VARIABLES
  mpc,        \* where each request is
  bank,       \* documents of the bank
  nodes,      \* knowledge pages: name and id
  session,    \* the cached brief
  generation, \* the persistent fence
  briefLock, bootLock, bootCache,   \* the other Redis keys
  homeLock, homeCache,              \* each replica's lock and cache
  note,       \* what each request read: brief, generation, text, pages
  answer,     \* the brief each turn was given
  cleared,    \* history: documents of acknowledged clears
  since,      \* history: cleared when a turn began
  uncoordinated, \* history: a bootstrap ran without its lock
  mfaults

VARIABLES
  mode,       \* DAEDALUS_MEMORY_MODE
  held,       \* memories of each user's bank
  operation,  \* the extraction of each user's last retained turn
  told,       \* the last answer of the Memory Center or of a memory tool
  written     \* the last context or document that was put together

memoryVars == <<mpc, bank, nodes, session, generation, briefLock, bootLock, bootCache,
                homeLock, homeCache, note, answer, cleared, since, uncoordinated, mfaults>>

Requests == Turns \cup Retains \cup Clears
Nobody == "none"

(* A request is of one kind.                                                *)
ASSUME MemoryAssumption ==
  /\ Nobody \notin Requests
  /\ Turns \cap Retains = {} /\ Turns \cap Clears = {} /\ Retains \cap Clears = {}

NoNote == [brief |-> {}, generation |-> 0, text |-> {}, nodes |-> {}]

MemoryInit ==
  /\ mpc = [p \in Requests |-> "idle"]
  /\ bank = {} /\ nodes = {} /\ session = {} /\ generation = 0
  /\ briefLock = Nobody /\ bootLock = Nobody /\ bootCache = FALSE
  /\ homeLock = [h \in Homes |-> Nobody] /\ homeCache = [h \in Homes |-> FALSE]
  /\ note = [p \in Requests |-> NoNote] /\ answer = [p \in Turns |-> {}]
  /\ cleared = {} /\ since = [p \in Turns |-> {}]
  /\ uncoordinated = FALSE /\ mfaults = MaxMemoryFaults

Goto(p, where) == mpc' = [mpc EXCEPT ![p] = where]
Fault == mfaults > 0 /\ mfaults' = mfaults - 1

briefVars == <<session, briefLock, answer>>
bootVars == <<nodes, bootLock, bootCache, homeLock, homeCache, uncoordinated>>
bankVars == <<bank, generation, cleared>>

(***************************************************************************)
(* ensure_bank_initialized                                                 *)
(***************************************************************************)

(* Where a request goes on once the bank is initialized.                    *)
After(p) == CASE p \in Turns -> "look" [] p \in Retains -> "retain" [] p \in Clears -> "done"

(* A turn begins with the bank, and so does a retained turn; a clear ends   *)
(* with it.                                                                 *)
Begin(p) ==
  /\ mpc[p] = "idle"
  /\ Goto(p, IF p \in Clears THEN "tree" ELSE "ensure")
  /\ since' = IF p \in Turns THEN [since EXCEPT ![p] = cleared] ELSE since
  /\ UNCHANGED <<bankVars, bootVars, briefVars, note, mfaults>>

(* The replica's cache is read again under the replica's lock.              *)
EnterBootstrap(p) ==
  /\ mpc[p] = "ensure"
  /\ \/ homeCache[Home[p]] /\ Goto(p, After(p)) /\ UNCHANGED homeLock
     \/ /\ ~homeCache[Home[p]] /\ homeLock[Home[p]] = Nobody
        /\ homeLock' = [homeLock EXCEPT ![Home[p]] = p] /\ Goto(p, "coordinate")
  /\ UNCHANGED <<bankVars, briefVars, nodes, bootLock, bootCache, homeCache,
                 uncoordinated, note, since, mfaults>>

LeaveHome(p) == homeLock' = [homeLock EXCEPT ![Home[p]] = Nobody]

(* Mutant: the lock is set without NX, over another replica's.              *)
BootLockOverwritten == TRUE

BootLockFree == bootLock = Nobody

(* Another replica initialized the bank, or is initializing it; without     *)
(* Redis the bootstrap runs uncoordinated.                                  *)
Coordinate(p) ==
  /\ mpc[p] = "coordinate"
  /\ \/ /\ bootCache
        /\ homeCache' = [homeCache EXCEPT ![Home[p]] = TRUE]
        /\ LeaveHome(p) /\ Goto(p, After(p))
        /\ UNCHANGED <<bootLock, uncoordinated, mfaults>>
     \/ /\ ~bootCache /\ bootLock # Nobody
        /\ LeaveHome(p) /\ Goto(p, After(p))
        /\ UNCHANGED <<bootLock, homeCache, uncoordinated, mfaults>>
     \/ /\ ~bootCache /\ BootLockFree
        /\ bootLock' = p /\ Goto(p, "list")
        /\ UNCHANGED <<homeLock, homeCache, uncoordinated, mfaults>>
     \/ /\ Fault /\ uncoordinated' = TRUE /\ Goto(p, "list")
        /\ UNCHANGED <<bootLock, homeLock, homeCache>>
  /\ UNCHANGED <<bankVars, briefVars, nodes, bootCache, note, since>>

(* _bootstrap_bank fills in the defaults and lists the pages.               *)
ListPages(p) ==
  /\ mpc[p] = "list"
  /\ note' = [note EXCEPT ![p].nodes = nodes]
  /\ Goto(p, "create")
  /\ UNCHANGED <<bankVars, bootVars, briefVars, since, mfaults>>

Missing(p) == {n \in Pages : \A page \in note[p].nodes : page.name # n}
Unused == CHOOSE i \in 1..(Cardinality(nodes) + 1) : \A page \in nodes : page.id # i

CreatePage(p) ==
  \E n \in Missing(p) :
    LET page == [name |-> n, id |-> Unused]
    IN  /\ mpc[p] = "create"
        /\ nodes' = nodes \cup {page}
        /\ note' = [note EXCEPT ![p].nodes = @ \cup {page}]
        /\ UNCHANGED <<mpc, bankVars, briefVars, bootLock, bootCache, homeLock,
                       homeCache, uncoordinated, since, mfaults>>

ReleaseBoot(p) == bootLock' = IF bootLock = p THEN Nobody ELSE bootLock

Bootstrapped(p) ==
  /\ mpc[p] = "create" /\ Missing(p) = {}
  /\ homeCache' = [homeCache EXCEPT ![Home[p]] = TRUE]
  /\ bootCache' \in IF uncoordinated THEN {TRUE, bootCache} ELSE {TRUE}
  /\ ReleaseBoot(p) /\ LeaveHome(p) /\ Goto(p, After(p))
  /\ UNCHANGED <<bankVars, briefVars, nodes, uncoordinated, note, since, mfaults>>

(* Any failure backs off through the replica's cache.  A turn goes on       *)
(* without memory, a retained turn regardless.                              *)
BootstrapFails(p) ==
  /\ mpc[p] \in {"list", "create"} /\ Fault
  /\ homeCache' = [homeCache EXCEPT ![Home[p]] = TRUE]
  /\ ReleaseBoot(p) /\ LeaveHome(p)
  /\ Goto(p, IF p \in Turns THEN "done" ELSE After(p))
  /\ UNCHANGED <<bankVars, briefVars, nodes, bootCache, uncoordinated, note, since>>

(***************************************************************************)
(* _session_brief                                                          *)
(***************************************************************************)

Answer(p, text) == answer' = [answer EXCEPT ![p] = text] /\ Goto(p, "done")

(* Only a request for a synthesis refreshes the brief, and only an old one. *)
LookUp(p) ==
  /\ mpc[p] = "look"
  /\ \/ Answer(p, session) /\ UNCHANGED note
     \/ /\ note' = [note EXCEPT ![p].brief = session]
        /\ Goto(p, "generation") /\ UNCHANGED answer
  /\ UNCHANGED <<bankVars, bootVars, session, briefLock, since, mfaults>>

ReadGeneration(p) ==
  /\ mpc[p] = "generation"
  /\ note' = [note EXCEPT ![p].generation = generation]
  /\ Goto(p, "lock")
  /\ UNCHANGED <<bankVars, bootVars, briefVars, since, mfaults>>

LockBrief(p) ==
  /\ mpc[p] = "lock"
  /\ IF briefLock = Nobody THEN briefLock' = p /\ Goto(p, "reflect") /\ UNCHANGED answer
     ELSE Answer(p, note[p].brief) /\ UNCHANGED briefLock
  /\ UNCHANGED <<bankVars, bootVars, session, note, since, mfaults>>

ReleaseBrief(p) == briefLock' = IF briefLock = p THEN Nobody ELSE briefLock

(* The reflection takes tens of seconds, and may fail.                      *)
Reflect(p) ==
  /\ mpc[p] = "reflect"
  /\ \/ /\ note' = [note EXCEPT ![p].text = bank]
        /\ Goto(p, "store") /\ UNCHANGED <<briefLock, answer, mfaults>>
     \/ Fault /\ Answer(p, note[p].brief) /\ ReleaseBrief(p) /\ UNCHANGED note
  /\ UNCHANGED <<bankVars, bootVars, session, since>>

(* The script compares the generation with the one read before.             *)
Fence(p) == generation = note[p].generation

StoreBrief(p) ==
  /\ mpc[p] = "store"
  /\ session' = IF Fence(p) THEN note[p].text ELSE session
  /\ Answer(p, IF Fence(p) THEN note[p].text ELSE {}) /\ ReleaseBrief(p)
  /\ UNCHANGED <<bankVars, bootVars, note, since, mfaults>>

(***************************************************************************)
(* Retention and Clear (memory_api.py, memory_lifecycle.py)                *)
(***************************************************************************)

(* The document id is derived from user, request and content, and a retained*)
(* document replaces the one with its id.                                   *)
DocumentId(p) == p
Replaced(id) == (bank \ {id}) \cup {id}

(* The reply may be lost after the document was taken.                      *)
Retain(p) ==
  /\ mpc[p] = "retain" /\ Goto(p, "done")
  /\ bank' \in {Replaced(DocumentId(p)), bank}
  /\ UNCHANGED <<generation, cleared, bootVars, briefVars, note, since, mfaults>>

ReadTree(p) ==
  /\ mpc[p] = "tree"
  /\ note' = [note EXCEPT ![p].nodes = nodes] /\ Goto(p, "clear")
  /\ UNCHANGED <<bankVars, bootVars, briefVars, since, mfaults>>

ClearBank(p) ==
  /\ mpc[p] = "clear"
  /\ note' = [note EXCEPT ![p].text = bank] /\ bank' = {} /\ Goto(p, "delete")
  /\ UNCHANGED <<generation, cleared, bootVars, briefVars, since, mfaults>>

(* The listed pages are deleted one by one; one that is already gone fails. *)
DeletePage(p) ==
  \E page \in note[p].nodes \cap nodes :
    /\ mpc[p] = "delete"
    /\ nodes' = nodes \ {page}
    /\ note' = [note EXCEPT ![p].nodes = @ \ {page}]
    /\ UNCHANGED <<mpc, bankVars, briefVars, bootLock, bootCache, homeLock, homeCache,
                   uncoordinated, since, mfaults>>

(* clear_user_memory_caches: the replica's cache, the fence, then the keys. *)
NewGeneration(p) ==
  /\ mpc[p] = "delete" /\ note[p].nodes = {}
  /\ homeCache' = [homeCache EXCEPT ![Home[p]] = FALSE]
  /\ generation' = generation + 1 /\ Goto(p, "scan")
  /\ UNCHANGED <<bank, cleared, briefVars, nodes, bootLock, bootCache, homeLock,
                 uncoordinated, note, since, mfaults>>

(* The scan finds every key that is there throughout.                       *)
ScanKeys(p) ==
  /\ mpc[p] = "scan"
  /\ note' = [note EXCEPT ![p].brief = session] /\ Goto(p, "keys")
  /\ UNCHANGED <<bankVars, bootVars, briefVars, since, mfaults>>

DeleteKeys(p) ==
  /\ mpc[p] = "keys"
  /\ session' = IF note[p].brief = {} THEN session ELSE {}
  /\ briefLock' = Nobody /\ bootCache' = FALSE
  /\ cleared' = cleared \cup note[p].text
  /\ Goto(p, "ensure")
  /\ UNCHANGED <<bank, generation, answer, nodes, bootLock, homeLock, homeCache,
                 uncoordinated, note, since, mfaults>>

(* Any failure is reported: the deletion did not finish.                    *)
ClearFails(p) ==
  /\ \/ mpc[p] \in {"tree", "clear", "delete", "scan", "keys"} /\ Fault
     \/ mpc[p] = "delete" /\ note[p].nodes \ nodes # {} /\ UNCHANGED mfaults
  /\ Goto(p, "failed")
  /\ UNCHANGED <<bankVars, bootVars, briefVars, note, since>>

(* The Memory Center removes a source or invalidates what came from it.     *)
RemoveSource(id) ==
  /\ id \in bank /\ Fault /\ bank' = bank \ {id}
  /\ UNCHANGED <<mpc, generation, cleared, bootVars, briefVars, note, since>>

(***************************************************************************)
(* Expiry, and the specification                                           *)
(***************************************************************************)

(* Locks end after 30 and 60 seconds, caches after their time to live.      *)
Expire ==
  /\ Fault
  /\ \/ /\ bootLock # Nobody /\ bootLock' = Nobody /\ uncoordinated' = TRUE
        /\ UNCHANGED <<briefLock, bootCache, homeCache>>
     \/ briefLock # Nobody /\ briefLock' = Nobody
        /\ UNCHANGED <<bootLock, bootCache, homeCache, uncoordinated>>
     \/ /\ \E h \in Homes : homeCache[h] /\ homeCache' = [homeCache EXCEPT ![h] = FALSE]
        /\ bootCache' = FALSE /\ UNCHANGED <<bootLock, briefLock, uncoordinated>>
  /\ UNCHANGED <<mpc, bankVars, session, answer, nodes, homeLock, note, since>>

MemoryNext ==
  \/ \E p \in Requests :
       \/ Begin(p) \/ EnterBootstrap(p) \/ Coordinate(p) \/ ListPages(p)
       \/ CreatePage(p) \/ Bootstrapped(p) \/ BootstrapFails(p)
  \/ \E p \in Turns :
       LookUp(p) \/ ReadGeneration(p) \/ LockBrief(p) \/ Reflect(p) \/ StoreBrief(p)
  \/ \E p \in Retains : Retain(p) \/ RemoveSource(DocumentId(p))
  \/ \E p \in Clears :
       \/ ReadTree(p) \/ ClearBank(p) \/ DeletePage(p) \/ NewGeneration(p)
       \/ ScanKeys(p) \/ DeleteKeys(p) \/ ClearFails(p)
  \/ Expire

(***************************************************************************)
(* The Memory Center's endpoints (memory_api.py) and the memory tools      *)
(* (daedalus_memory_tools.py): one request, one call of Hindsight.         *)
(***************************************************************************)

centerVars == <<mode, held, operation, told, written>>

Silent == [of |-> "nothing", caller |-> Stranger, code |-> 0, items |-> {}, status |-> "none"]
NoText == [given |-> <<>>, kept |-> <<>>, size |-> 0]
NoOperation == [status |-> "not_found", units |-> 0]

CenterInit ==
  /\ mode \in {"hindsight", "disabled", "misspelt"}
  /\ held = [o \in Owners |-> {}] /\ operation = [o \in Owners |-> NoOperation]
  /\ told = Silent /\ written = NoText

CenterIdle == told = Silent /\ written = NoText

Tell(of, caller, code, items, status) ==
  told' = [of |-> of, caller |-> caller, code |-> code, items |-> items, status |-> status]

(* An unknown mode is refused like a disabled one; then the identity, then  *)
(* the id, which Hindsight looks up in the caller's bank only.              *)
Refusal(caller, malformed) ==
  CASE mode # "hindsight" -> 503 [] mode = "hindsight" /\ caller \notin Owners -> 401
    [] mode = "hindsight" /\ caller \in Owners /\ malformed -> 400 [] OTHER -> 0

(* A completed extraction without memories is not called completed.         *)
Normalized(op) ==
  IF op.status = "completed" /\ op.units = 0 THEN "zero_fact"
  ELSE IF op.status \in {"pending", "processing", "completed", "failed", "cancelled"}
       THEN op.status ELSE "not_found"

(* Hindsight extracts a retained turn in the background (external).         *)
Extract(o) ==
  /\ CenterIdle /\ UNCHANGED <<mode, told, written>>
  /\ \/ /\ operation[o].status = "pending"
        /\ operation' = [operation EXCEPT ![o].status = "processing"] /\ UNCHANGED held
     \/ /\ operation[o].status = "processing"
        /\ \/ \E found \in SUBSET Units :
               /\ held' = [held EXCEPT ![o] = @ \cup {<<o, u>> : u \in found}]
               /\ operation' = [operation EXCEPT ![o] =
                    [status |-> "completed", units |-> Cardinality(found)]]
           \/ /\ operation' = [operation EXCEPT ![o].status = "failed"] /\ UNCHANGED held

(* Every request's path begins with the bank of its caller, so that an id   *)
(* of another bank is not found.                                            *)
BankOf(caller) == held[caller]
Everything == UNION {BankOf(o) : o \in Owners}

(* A request that is refused, or that Hindsight does not answer.            *)
Denied(of, caller, malformed) ==
  /\ CenterIdle /\ UNCHANGED <<mode, held, operation, written>>
  /\ LET refused == Refusal(caller, malformed)
     IN  Tell(of, caller, IF refused = 0 THEN 502 ELSE refused, {}, "none")

Serving(caller) == CenterIdle /\ Refusal(caller, FALSE) = 0 /\ UNCHANGED <<mode, written>>

ListResources(caller) ==
  /\ Serving(caller) /\ UNCHANGED <<held, operation>>
  /\ Tell("list", caller, 200, BankOf(caller), "none")

GetResource(caller, unit) ==
  /\ Serving(caller) /\ UNCHANGED <<held, operation>>
  /\ IF unit \in BankOf(caller) THEN Tell("get", caller, 200, {unit}, "none")
     ELSE Tell("get", caller, 404, {}, "none")

ReadOperation(caller) ==
  /\ Serving(caller) /\ UNCHANGED <<held, operation>>
  /\ Tell("operation", caller, 200, {}, Normalized(operation[caller]))

(* A change may be made although its reply is lost.                         *)
Made(of, caller) == \E code \in {200, 502} : Tell(of, caller, code, {}, "none")

RetainTurn(caller) ==
  /\ Serving(caller) /\ Made("retain", caller)
  /\ operation' = [operation EXCEPT ![caller] = [status |-> "pending", units |-> 0]]
  /\ UNCHANGED held

(* Hindsight retries a failed extraction.                                   *)
RetryOperation(caller) ==
  /\ Serving(caller) /\ operation[caller].status = "failed" /\ Made("retry", caller)
  /\ operation' = [operation EXCEPT ![caller].status = "pending"]
  /\ UNCHANGED held

Invalidate(caller, unit) ==
  /\ Serving(caller) /\ UNCHANGED operation
  /\ IF unit \in BankOf(caller)
     THEN held' = [held EXCEPT ![caller] = @ \ {unit}] /\ Made("invalidate", caller)
     ELSE Tell("invalidate", caller, 404, {}, "none") /\ UNCHANGED held

(* Mutant: an unavailable memory reads as an empty one.                     *)
UnavailableEmpty(caller) == Tell("recall", caller, 200, {}, "none")

(* The tool says that the memory is unavailable.                            *)
Unavailable(caller) == Tell("recall", caller, 502, {}, "none")

(* get_memory: at most top_k memories, more of them for a daily briefing.   *)
Asked(briefing) == IF briefing /\ BriefingTopK > TopK THEN BriefingTopK ELSE TopK

(* Which memories match is Hindsight's choice (external).                   *)
Recalled(caller, k) ==
  LET all == Cardinality(BankOf(caller))
  IN  {found \in SUBSET BankOf(caller) : Cardinality(found) = IF all <= k THEN all ELSE k}

Recall(caller, briefing) ==
  /\ CenterIdle /\ UNCHANGED <<mode, held, operation, written>>
  /\ CASE caller \notin Owners -> Tell("recall", caller, 401, {}, "none")
       [] caller \in Owners /\ mode = "misspelt" -> Tell("recall", caller, 503, {}, "none")
       [] caller \in Owners /\ mode = "disabled" -> Tell("recall", caller, 200, {}, "disabled")
       [] OTHER ->
            \/ Unavailable(caller)
            \/ \E found \in Recalled(caller, Asked(briefing)) : Tell("recall", caller, 200, found, "none")

(***************************************************************************)
(* What fits: the context of a turn and the document of a finished one.    *)
(* A text is its length.                                                   *)
(***************************************************************************)

Total(lengths) == FoldLeft(LAMBDA sum, n : sum + n + 1, 0, lengths)
ContextSize(c) == 1 + (IF c.truncated THEN 1 ELSE 0) + c.brief + Total(c.pages) + Total(c.facts)
ContextFits(c) == ContextSize(c) <= Room

Clip(lengths, limit) == [i \in DOMAIN lengths |-> IF lengths[i] <= limit THEN lengths[i] ELSE limit]

(* The binary search ends at the largest limit that fits, or at nothing.    *)
Largest(Candidate(_), top) ==
  LET fitting == {n \in 0..top : ContextFits(Candidate(n))}
  IN  IF fitting = {} THEN 0 ELSE CHOOSE n \in fitting : \A m \in fitting : m <= n

ShrinkBrief(c) ==
  IF ContextFits(c) THEN c
  ELSE [c EXCEPT !.brief = Largest(LAMBDA n : [c EXCEPT !.brief = n], c.brief)]
ShrinkPages(c) ==
  LET clipped(n) == [c EXCEPT !.pages = Clip(c.pages, n)]
  IN  IF ContextFits(c) THEN c ELSE clipped(Largest(clipped, Longest))
ShrinkFacts(c) ==
  LET clipped(n) == [c EXCEPT !.facts = Clip(c.facts, n)]
  IN  IF ContextFits(c) THEN c ELSE clipped(Largest(clipped, Longest))

Bare == [brief |-> 0, pages |-> <<>>, facts |-> <<>>, truncated |-> TRUE]

Payload(c) ==
  LET shrunk == ShrinkFacts(ShrinkPages(ShrinkBrief([c EXCEPT !.truncated = TRUE])))
  IN  IF ContextFits(c) THEN c ELSE IF ContextFits(shrunk) THEN shrunk ELSE Bare

(* What is written depends on no memory: it is examined once.               *)
Fresh == CenterIdle /\ mode = "hindsight" /\ \A o \in Owners : operation[o] = NoOperation

Lengths(most) == UNION {[1..n -> 0..Longest] : n \in 0..most}
Usable(lengths) == SelectSeq(lengths, LAMBDA n : n > 0)

(* A page that cannot be read or is still being generated is left out (0);  *)
(* facts are recalled when no page is left or the past is asked about.      *)
BuildContext ==
  /\ Fresh
  /\ \E brief \in 0..Longest, found \in Lengths(2), recalled \in Lengths(2), past \in BOOLEAN :
       LET pages == Usable(found)
           facts == IF pages = <<>> \/ past THEN Usable(recalled) ELSE <<>>
           c == [brief |-> brief, pages |-> pages, facts |-> facts, truncated |-> FALSE]
       IN  /\ brief > 0 \/ pages # <<>> \/ facts # <<>>
           /\ written' = [given |-> <<c>>, kept |-> <<Payload(c)>>, size |-> ContextSize(Payload(c))]
  /\ UNCHANGED <<mode, held, operation, told>>

DocumentSize(t) == 1 + t.user + (IF t.assistant > 0 THEN t.assistant + 1 ELSE 0)

(* Each round cuts the assistant's text while there is any, then the user's.*)
Round(t, i) ==
  LET over == DocumentSize(t) - Room
      less(n) == IF n > over + 1 THEN n - over - 1 ELSE 0
  IN  IF over <= 0 THEN t
      ELSE IF t.assistant > 0 THEN [t EXCEPT !.assistant = less(@)]
      ELSE [t EXCEPT !.user = IF less(@) = 0 THEN 1 ELSE less(@)]

TurnDocument ==
  /\ Fresh
  /\ \E user \in 1..(Room + 2), assistant \in 0..(Room + 2) :
       LET t == [user |-> user, assistant |-> assistant]
           kept == FoldLeft(Round, t, <<1, 2, 3>>)
       IN  written' = [given |-> <<t>>, kept |-> <<kept>>, size |-> DocumentSize(kept)]
  /\ UNCHANGED <<mode, held, operation, told>>

Answered == ~CenterIdle /\ told' = Silent /\ written' = NoText /\ UNCHANGED <<mode, held, operation>>

CenterNext ==
  \/ \E o \in Owners : Extract(o)
  \/ \E caller \in Owners \cup {Stranger} :
       \/ \E of \in {"list", "change"}, malformed \in BOOLEAN : Denied(of, caller, malformed)
       \/ ListResources(caller) \/ ReadOperation(caller)
       \/ RetainTurn(caller) \/ RetryOperation(caller)
       \/ \E unit \in Everything : GetResource(caller, unit) \/ Invalidate(caller, unit)
       \/ \E briefing \in BOOLEAN : Recall(caller, briefing)
  \/ BuildContext \/ TurnDocument \/ Answered

(***************************************************************************)
(* Properties                                                              *)
(***************************************************************************)

(* Once a Clear is acknowledged, no brief written from the cleared memory   *)
(* is cached, whatever reflections were under way (_session_brief,          *)
(* clear_user_memory_caches).                                               *)
NothingClearedIsCached == session \cap cleared = {}

(* A turn that begins after the acknowledgement is not given any of it.     *)
NothingClearedIsServed == \A p \in Turns : answer[p] \cap since[p] = {}

(* Concurrent bootstraps create each managed page once, as long as the lock *)
(* holds (ensure_bank_initialized).                                         *)
PagesOnce ==
  uncoordinated \/ \A n \in Pages : Cardinality({page \in nodes : page.name = n}) <= 1

(* Clearing memory is final and initializing it happens once.               *)
ClearIsFinal == NothingClearedIsCached /\ NothingClearedIsServed /\ PagesOnce

(* Nobody is told of another user's memory, an empty list means that there  *)
(* is none (or that memory is switched off), and an extraction reads        *)
(* completed only when it left a memory (_call, get_memory,                 *)
(* _normalized_operation).                                                  *)
CenterHonest ==
  LET mine == IF told.caller \in Owners THEN held[told.caller] ELSE {}
  IN  /\ told.items \subseteq mine
      /\ told.of \in {"list", "recall"} /\ told.code = 200 /\ told.items = {}
            => told.status = "disabled" \/ mine = {}
      /\ told.status = "completed" => operation[told.caller].units > 0

(* A context fits and gives up the brief before the pages, the pages before *)
(* the facts; a document fits and gives up the answer before the question   *)
(* (_bounded_context_payload, _completed_turn_document).                    *)
TextsFit ==
  /\ written.size <= Room
  /\ written # NoText =>
       LET given == written.given[1]
           kept == written.kept[1]
       IN  IF "user" \in DOMAIN given
           THEN kept.user > 0 /\ (kept.user < given.user => kept.assistant = 0)
           ELSE kept # Bare =>
                  /\ kept.pages # given.pages => kept.brief = 0
                  /\ kept.facts # given.facts =>
                       kept.brief = 0 /\ \A i \in DOMAIN kept.pages : kept.pages[i] = 0
                  /\ kept # given => kept.truncated

(* What the Memory Center, the memory tools and a turn's context say of a   *)
(* user's memory.                                                           *)
MemoryAnswers == CenterHonest /\ TextsFit
=============================================================================
