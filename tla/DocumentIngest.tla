--------------------------- MODULE DocumentIngest ---------------------------
(***************************************************************************)
(* Document ingestion into a user's Milvus collection: batches of uploaded *)
(* documents, the write lock that stays with the blocking SDK thread, its  *)
(* timeout and retries (builder/nat_nv_ingest/.../nat_nv_ingest.py,        *)
(* nat_helpers/threaded_work.py, builder/document_ingest_api.py).          *)
(***************************************************************************)
EXTENDS Naturals, Sequences, SequencesExt, FiniteSets, FiniteSetsExt

CONSTANTS Batches,     \* ingestion requests
          Refs,        \* the document references of each batch: sequences
          Target,      \* the collection each batch asks for
          Owner,       \* the user who asks
          Shared,      \* the shared collections
          Concurrency, \* batch_concurrency
          MaxBatch,    \* max_documents_per_batch
          MaxRetries   \* ingest_max_retries

None == "none"

ASSUME IngestAssumption ==
  None \notin Batches /\ \A b \in Batches : Refs[b] \in Seq(ToSet(Refs[b]))

VARIABLES
  batch,    \* stage of a request
  doc,      \* of each document of a batch: not begun, stage or outcome
  tries,    \* attempts made for a document
  thread,   \* the SDK thread of a document: waiting for the lock, running, writing
  fresh,    \* threads that replace the collection instead of appending
  lock,     \* holder of each collection's write lock
  tally,    \* documents whose outcome the batch has accumulated
  rows,     \* per collection, the documents whose chunks were written, in order
  recreate, \* configuration: recreate_collection
  replaced  \* history: the batch that last replaced a collection

ingestVars == <<batch, doc, tries, thread, fresh, lock, tally, rows, recreate, replaced>>

Free == <<None, None>>

(* _dedup_document_refs: the first reference to a document counts.          *)
DedupRefs ==
  [b \in Batches |->
     [d \in ToSet(Refs[b]) |-> Min({i \in DOMAIN Refs[b] : Refs[b][i] = d})]]

(* resolve_user_collection_name: a shared corpus, or the user's own private *)
(* collection whatever name was asked for.                                  *)
Resolve(b) == <<IF Target[b] \in Shared THEN "shared" ELSE Owner[b], Target[b]>>

Collections == {Resolve(b) : b \in Batches}
Docs(b) == ToSet(Refs[b])
Jobs == UNION {{b} \X Docs(b) : b \in Batches}
Earlier(b, d) == {e \in Docs(b) : DedupRefs[b][e] < DedupRefs[b][d]}
Position == [j \in Jobs |-> Cardinality(Earlier(j[1], j[2])) + 1]
Index(b, d) == Position[<<b, d>>]

IngestInit ==
  /\ batch = [b \in Batches |-> "idle"] /\ doc = [j \in Jobs |-> None]
  /\ tries = [j \in Jobs |-> 0] /\ thread = [j \in Jobs |-> None] /\ fresh = {}
  /\ lock = [c \in Collections |-> Free] /\ tally = [b \in Batches |-> {}]
  /\ recreate \in BOOLEAN /\ rows = [c \in Collections |-> <<>>] /\ replaced = [c \in Collections |-> None]

(* validate_user_collection_write_scope: no writes to a shared collection.  *)
Writable(b) == Resolve(b)[1] # "shared"

(* _resolve_request                                                         *)
Receive(b) ==
  /\ batch[b] = "idle"
  /\ batch' = [batch EXCEPT ![b] = IF Writable(b) THEN "open" ELSE "refused"]
  /\ UNCHANGED <<doc, tries, thread, fresh, lock, tally, rows, recreate, replaced>>

(***************************************************************************)
(* The batch (process_multiple_documents)                                  *)
(***************************************************************************)

Ended == {"success", "failure", "timeout", "skipped"}
Active(b) == {d \in Docs(b) : doc[<<b, d>>] \notin Ended \cup {None}}
Indexed(b) == {d \in tally[b] : doc[<<b, d>>] = "success"}

(* Mutant: the batch does not stay serial until a first success.            *)
SerialOnlyByConfiguration(b) == Concurrency = 1

(* One document at a time: until a successful write replaced the collection,*)
(* or always.                                                               *)
Serial(b) == Concurrency = 1 \/ (recreate /\ Indexed(b) = {})

(* The serial prefix ends with the first success.                           *)
Prefix(b) == IF recreate /\ Indexed(b) # {} THEN Min({Index(b, d) : d \in Indexed(b)}) ELSE 0

(* The internal batch a document after the prefix belongs to.               *)
Group(b, d) ==
  LET group(e) == (Index(b, e) - Prefix(b) - 1) \div MaxBatch
  IN  {e \in Docs(b) : Index(b, e) > Prefix(b) /\ group(e) = group(d)}

(* A batch replaces its collection once, then appends without changing the  *)
(* shared settings.                                                         *)
Replaces(b) == recreate /\ Indexed(b) = {}

Begin(b, d) ==
  /\ batch[b] = "open" /\ doc[<<b, d>>] = None
  /\ IF Serial(b) THEN Earlier(b, d) \subseteq tally[b]
     ELSE /\ Earlier(b, d) \ Group(b, d) \subseteq tally[b]
          /\ \A e \in Earlier(b, d) : doc[<<b, e>>] # None
          /\ Cardinality(Active(b)) < Concurrency
  /\ doc' = [doc EXCEPT ![<<b, d>>] = "fetching"]
  /\ fresh' = IF Replaces(b) THEN fresh \cup {<<b, d>>} ELSE fresh
  /\ UNCHANGED <<batch, tries, thread, lock, tally, rows, recreate, replaced>>

(* _accumulate: in order, each at once or when its whole group has ended.   *)
(* After a timeout the rest of the batch is skipped.                        *)
Accumulate(b, d) ==
  /\ batch[b] = "open" /\ doc[<<b, d>>] \in Ended /\ d \notin tally[b]
  /\ \A e \in Earlier(b, d) : e \in tally[b]
  /\ \A e \in (IF Serial(b) THEN {d} ELSE Group(b, d)) : doc[<<b, e>>] \in Ended
  /\ LET rest == {e \in Docs(b) : doc[<<b, e>>] = None}
         skip == IF doc[<<b, d>>] = "timeout" THEN rest ELSE {}
     IN  /\ doc' = [j \in Jobs |-> IF j[1] = b /\ j[2] \in skip THEN "skipped" ELSE doc[j]]
         /\ tally' = [tally EXCEPT ![b] = @ \cup {d} \cup skip]
         /\ batch' = [batch EXCEPT ![b] =
                        IF tally'[b] = Docs(b) THEN "answered" ELSE @]
  /\ UNCHANGED <<tries, thread, fresh, lock, rows, recreate, replaced>>

(***************************************************************************)
(* One document (process_document)                                         *)
(***************************************************************************)

(* A document's stage or outcome; telling the client about it may fail, and *)
(* changes neither.                                                         *)
Outcome(j, o) == doc' = [doc EXCEPT ![j] = o]

(* The upload is fetched from session storage: missing, owned by someone    *)
(* else, oversized, expired or unavailable documents end here.              *)
Fetch(j) ==
  /\ doc[j] = "fetching"
  /\ Outcome(j, "submitting") \/ Outcome(j, "failure")
  /\ UNCHANGED <<batch, tries, thread, fresh, lock, tally, rows, recreate, replaced>>

(* Mutant: attempts are not counted.                                         *)
SubmitUncounted(j) ==
  /\ doc[j] = "submitting"
  /\ Outcome(j, "waiting") /\ thread' = [thread EXCEPT ![j] = "queued"]
  /\ UNCHANGED <<batch, tries, fresh, lock, tally, rows, recreate, replaced>>

(* run_with_thread_ownership: the work waits for the collection's lock.     *)
Submit(j) ==
  /\ doc[j] = "submitting"
  /\ Outcome(j, "waiting")
  /\ tries' = [tries EXCEPT ![j] = @ + 1] /\ thread' = [thread EXCEPT ![j] = "queued"]
  /\ UNCHANGED <<batch, fresh, lock, tally, rows, recreate, replaced>>

Coll(j) == Resolve(j[1])

Acquire(j) ==
  /\ thread[j] = "queued" /\ lock[Coll(j)] = Free
  /\ lock' = [lock EXCEPT ![Coll(j)] = j]
  /\ thread' = [thread EXCEPT ![j] = "extracting"]
  /\ UNCHANGED <<batch, doc, tries, fresh, tally, rows, recreate, replaced>>

(* The boundary after which rows may be committed.                          *)
MarkWriteStarted(j) ==
  /\ thread[j] = "extracting" /\ thread' = [thread EXCEPT ![j] = "writing"]
  /\ UNCHANGED <<batch, doc, tries, fresh, lock, tally, rows, recreate, replaced>>

Settle(j) == thread' = [thread EXCEPT ![j] = None] /\ lock' = [lock EXCEPT ![Coll(j)] = Free]

(* Mutant: any failure is tried again.                                      *)
AfterFailureRetried(j) ==
  IF tries[j] <= MaxRetries THEN "submitting" ELSE "failure"

(* A failure before the write is tried again, one that may have committed   *)
(* rows is not.                                                             *)
AfterFailure(j) ==
  IF thread[j] = "extracting" /\ tries[j] <= MaxRetries THEN "submitting" ELSE "failure"

Written(j) ==
  /\ rows' = [rows EXCEPT ![Coll(j)] = Append(IF j \in fresh THEN <<>> ELSE @, j)]
  /\ replaced' = IF j \in fresh THEN [replaced EXCEPT ![Coll(j)] = j[1]] ELSE replaced

(* The thread settles, whether or not its waiter is still there: chunks     *)
(* written; written but reported failed; or nothing written.                *)
ThreadEnds(j) ==
  /\ thread[j] \in {"extracting", "writing"} /\ Settle(j)
  /\ \/ /\ thread[j] = "writing" /\ Written(j)
        /\ doc' = [doc EXCEPT ![j] = IF @ = "waiting" THEN "success" ELSE @]
     \/ /\ thread[j] = "writing" /\ Written(j)
        /\ doc' = [doc EXCEPT ![j] = IF @ = "waiting" THEN AfterFailure(j) ELSE @]
     \/ /\ doc' = [doc EXCEPT ![j] = IF @ = "waiting" THEN AfterFailure(j) ELSE @]
        /\ UNCHANGED <<rows, replaced>>
  /\ UNCHANGED <<batch, tries, fresh, tally, recreate>>

Unstarted(js) == thread' = [j \in Jobs |-> IF j \in js /\ thread[j] = "queued" THEN None ELSE thread[j]]

(* Mutant: a waiter that leaves gives the lock back.                        *)
LeaveReleasing(js) ==
  /\ Unstarted(js)
  /\ lock' = [c \in Collections |-> IF lock[c] \in js THEN Free ELSE lock[c]]

(* Waiters that leave cancel work that has not started; a running thread    *)
(* keeps the lock.                                                          *)
Leave(js) == Unstarted(js) /\ UNCHANGED lock

Timeout(j) ==
  /\ doc[j] = "waiting" /\ Leave({j}) /\ Outcome(j, "timeout")
  /\ UNCHANGED <<batch, tries, fresh, tally, rows, recreate, replaced>>

(* The client disconnects: the whole request is cancelled.                  *)
Disconnect(b) ==
  /\ batch[b] = "open" /\ batch' = [batch EXCEPT ![b] = "cancelled"]
  /\ Leave({j \in Jobs : j[1] = b /\ doc[j] = "waiting"})
  /\ doc' = [j \in Jobs |-> IF j[1] = b /\ doc[j] \notin Ended THEN "failure" ELSE doc[j]]
  /\ UNCHANGED <<tries, fresh, tally, rows, recreate, replaced>>

DocumentStep(j) ==
  Fetch(j) \/ Submit(j) \/ Acquire(j) \/ MarkWriteStarted(j) \/ ThreadEnds(j) \/ Timeout(j)

IngestNext ==
  \/ \E b \in Batches : Receive(b) \/ Disconnect(b)
                        \/ \E d \in Docs(b) : Begin(b, d) \/ Accumulate(b, d)
  \/ \E j \in Jobs : DocumentStep(j)

(* Threads end and waits time out.                                          *)
IngestFairness ==
  /\ \A j \in Jobs : WF_ingestVars(DocumentStep(j))
  /\ \A b \in Batches : WF_ingestVars(\E d \in Docs(b) : Begin(b, d) \/ Accumulate(b, d))

(* Two threads never work on one collection, though requests time out, are  *)
(* cancelled and retried (run_with_thread_ownership), and no document of a  *)
(* batch is written twice (UncertainVectorWriteError).                      *)
OneWriter ==
  \A c \in Collections :
    /\ Cardinality({j \in Jobs : Coll(j) = c /\ thread[j] \in {"extracting", "writing"}}) <= 1
    /\ IsInjective(rows[c])

(* A document reported as indexed is searchable: a batch that replaces its  *)
(* collection does so once and before anything it reports, and never writes *)
(* a shared collection (append_to_collection, the serial prefix).           *)
ReportedIsIndexed ==
  \A b \in Batches : \A d \in Indexed(b) :
    /\ Resolve(b)[1] # "shared"
    /\ replaced[Resolve(b)] \in {None, b} => Contains(rows[Resolve(b)], <<b, d>>)

(* Every request is answered, unless its client leaves.                     *)
BatchesEnd == \A b \in Batches : batch[b] = "open" ~> batch[b] # "open"
=============================================================================
