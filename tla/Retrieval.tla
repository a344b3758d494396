------------------------------ MODULE Retrieval ------------------------------
(***************************************************************************)
(* The domain retriever: one lazily created client, searches that share    *)
(* caches of collection names and schemas and a bounded number of calls    *)
(* into a blocking client, reranking of the hits, and the concurrent       *)
(* embedding of a batch (builder/smart_milvus, nat_helpers/                *)
(* vllm_reranker.py and vllm_embeddings.py).                               *)
(***************************************************************************)
EXTENDS Naturals, FiniteSets, Sequences, SequencesExt

CONSTANTS RetrievalSearches,    \* searches
          Domains,     \* collections of the configured domains
          Existing,    \* collections that exist at the start
          CallSlots,   \* _client_call_slots
          MetadataTTL, \* metadata_cache_ttl
          RetrievalMaxEntries,  \* metadata_cache_max_entries
          HitLists,    \* possible answers of a vector search: distances in order
          Cutoff,      \* distance_cutoff
          RankReplies, \* possible replies of the reranker: [index, score] in its order
          TopN, MinScore,
          Texts,       \* texts of an embedding batch
          EmbedSlots,  \* max_concurrency of the embedder
          MaxNow, MaxChanges, MaxFaults  \* bounds: clock, server changes, failures

VARIABLES
  retrievalNow,       \* the monotonic clock
  existing,  \* collections on the server
  changes,   \* changes of the server so far
  faults,    \* failures so far
  client,    \* "none", "building" or "ready": the retriever's client
  retrievalSearch,    \* per search: its stage, what its thread answered, what it holds
  lock,      \* holders of the collection and the schema cache locks
  slots,     \* searches whose call holds a slot
  orphans,   \* threads still running for a search that gave up
  names,     \* _collection_cache: entries in use order
  schemas,   \* _schema_cache: entries in use order
  always,    \* history: the collection existed all through the search
  batch      \* the texts of an embedding batch and how the batch stands

retrievalVars == <<retrievalNow, existing, changes, faults, client, retrievalSearch, lock, slots, orphans, names,
                   schemas, always, batch>>

RetrievalNoSearch == [stage |-> "idle", name |-> "none", answer |-> FALSE, hits |-> <<>>, result |-> <<>>]
NoBatch == [stage |-> "idle", text |-> [t \in Texts |-> "new"]]

RetrievalInit ==
  /\ retrievalNow = 0 /\ existing = Existing /\ changes = 0 /\ faults = 0 /\ client = "none"
  /\ retrievalSearch = [s \in RetrievalSearches |-> RetrievalNoSearch] /\ lock = [names |-> {}, schemas |-> {}]
  /\ slots = {} /\ orphans = 0 /\ names = <<>> /\ schemas = <<>>
  /\ always = [s \in RetrievalSearches |-> FALSE] /\ batch = NoBatch

RetrievalTo(s, stage) == retrievalSearch' = [retrievalSearch EXCEPT ![s].stage = stage]
Elsewhere == UNCHANGED <<retrievalNow, existing, changes, faults, orphans, always, batch>>

(* The caches: entries that expire, the most recently used one last, the    *)
(* oldest ones dropped.                                                     *)
RetrievalEntry(cache, c) == {cache[i] : i \in {j \in DOMAIN cache : cache[j].name = c /\ cache[j].until > retrievalNow}}
RetrievalWithout(cache, c) == SelectSeq(cache, LAMBDA e : e.name # c)
Touch(cache, c) ==
  IF RetrievalEntry(cache, c) = {} THEN RetrievalWithout(cache, c)
  ELSE RetrievalWithout(cache, c) \o SelectSeq(cache, LAMBDA e : e.name = c)
Put(cache, c, found) ==
  LET all == Append(RetrievalWithout(cache, c), [name |-> c, until |-> retrievalNow + MetadataTTL, found |-> found])
  IN IF MetadataTTL = 0 THEN cache
     ELSE IF Len(all) > RetrievalMaxEntries THEN SubSeq(all, Len(all) - RetrievalMaxEntries + 1, Len(all)) ELSE all

(* search_domain: an unknown domain is answered at once.                    *)
Begin(s) ==
  /\ retrievalSearch[s].stage = "idle"
  /\ \E c \in Domains \cup {"none"} :
       /\ retrievalSearch' = [retrievalSearch EXCEPT ![s].name = c,
                       ![s].stage = IF c = "none" THEN "unknown_domain" ELSE "client"]
       /\ always' = [always EXCEPT ![s] = c \in existing]
  /\ UNCHANGED <<retrievalNow, existing, changes, faults, client, lock, slots, orphans, names, schemas, batch>>

(* _get_retriever: built once, under a lock; a failure is the caller's.     *)
GetRetriever(s) ==
  /\ retrievalSearch[s].stage = "client" /\ UNCHANGED <<lock, slots, names, schemas>>
  /\ \/ client = "ready" /\ RetrievalTo(s, "names?") /\ UNCHANGED client /\ Elsewhere
     \/ client = "none" /\ client' = "building" /\ RetrievalTo(s, "building") /\ Elsewhere
Built(s) ==
  /\ retrievalSearch[s].stage = "building" /\ UNCHANGED <<lock, slots, names, schemas>>
  /\ \/ client' = "ready" /\ RetrievalTo(s, "names?") /\ Elsewhere
     \/ /\ faults < MaxFaults /\ faults' = faults + 1 /\ client' = "none" /\ RetrievalTo(s, "failed")
        /\ UNCHANGED <<retrievalNow, existing, changes, orphans, always, batch>>

(* A cached answer, or the lock that serializes the misses; the cache is    *)
(* looked at again under the lock.                                          *)
Next1(s, found) == IF found THEN "schema?" ELSE "not_found"
LookUpName(s) ==
  LET c == retrievalSearch[s].name IN
  /\ retrievalSearch[s].stage \in {"names?", "names_locked"} /\ UNCHANGED <<client, slots, schemas>> /\ Elsewhere
  /\ names' = Touch(names, c)
  /\ \/ /\ RetrievalEntry(names, c) # {}
        /\ \E e \in RetrievalEntry(names, c) : RetrievalTo(s, Next1(s, e.found))
        /\ lock' = [lock EXCEPT !.names = @ \ {s}]
     \/ /\ RetrievalEntry(names, c) = {} /\ retrievalSearch[s].stage = "names?" /\ lock.names = {}
        /\ lock' = [lock EXCEPT !.names = {s}] /\ RetrievalTo(s, "names_locked")
     \/ RetrievalEntry(names, c) = {} /\ retrievalSearch[s].stage = "names_locked" /\ RetrievalTo(s, "list_slot") /\ UNCHANGED lock
LookUpSchema(s) ==
  LET c == retrievalSearch[s].name IN
  /\ retrievalSearch[s].stage \in {"schema?", "schema_locked"} /\ UNCHANGED <<client, slots, names>> /\ Elsewhere
  /\ schemas' = Touch(schemas, c)
  /\ \/ /\ RetrievalEntry(schemas, c) # {} /\ RetrievalTo(s, "embed") /\ lock' = [lock EXCEPT !.schemas = @ \ {s}]
     \/ /\ RetrievalEntry(schemas, c) = {} /\ retrievalSearch[s].stage = "schema?" /\ lock.schemas = {}
        /\ lock' = [lock EXCEPT !.schemas = {s}] /\ RetrievalTo(s, "schema_locked")
     \/ RetrievalEntry(schemas, c) = {} /\ retrievalSearch[s].stage = "schema_locked" /\ RetrievalTo(s, "describe_slot") /\ UNCHANGED lock

(* _client_call: a slot, then a thread that the server answers.             *)
Call == [list |-> "list_slot", describe |-> "describe_slot", query |-> "query_slot"]
StartCall(s, k) ==
  /\ retrievalSearch[s].stage = Call[k] /\ Cardinality(slots) < CallSlots
  /\ slots' = slots \cup {s} /\ RetrievalTo(s, k)
  /\ UNCHANGED <<client, lock, names, schemas>> /\ Elsewhere
Serve(s, k) ==
  /\ retrievalSearch[s].stage = k /\ UNCHANGED <<client, lock, slots, names, schemas>> /\ Elsewhere
  /\ retrievalSearch' = [retrievalSearch EXCEPT ![s].stage = k \o "_done", ![s].answer = retrievalSearch[s].name \in existing]

Unlocked(s) == [names |-> lock.names \ {s}, schemas |-> lock.schemas \ {s}]

(* Only a collection that was found is remembered.                          *)
Remembered(s) == IF retrievalSearch[s].answer THEN Put(names, retrievalSearch[s].name, TRUE) ELSE names

Listed(s) ==
  /\ retrievalSearch[s].stage = "list_done" /\ names' = Remembered(s)
  /\ RetrievalTo(s, Next1(s, retrievalSearch[s].answer)) /\ lock' = Unlocked(s) /\ slots' = slots \ {s}
  /\ UNCHANGED <<client, schemas>> /\ Elsewhere
Described(s) ==
  /\ retrievalSearch[s].stage = "describe_done" /\ retrievalSearch[s].answer
  /\ schemas' = Put(schemas, retrievalSearch[s].name, TRUE)
  /\ RetrievalTo(s, "embed") /\ lock' = Unlocked(s) /\ slots' = slots \ {s}
  /\ UNCHANGED <<client, names>> /\ Elsewhere
Embedded(s) ==
  retrievalSearch[s].stage = "embed" /\ RetrievalTo(s, "query_slot")
  /\ UNCHANGED <<client, lock, slots, names, schemas>> /\ Elsewhere
Found(s) ==
  /\ retrievalSearch[s].stage = "query_done" /\ retrievalSearch[s].answer
  /\ \E hits \in HitLists :
       retrievalSearch' = [retrievalSearch EXCEPT ![s].stage = "rank",
                    ![s].hits = SelectSeq([i \in DOMAIN hits |-> [doc |-> i, distance |-> hits[i]]],
                                          LAMBDA h : h.distance <= Cutoff)]
  /\ slots' = slots \ {s} /\ UNCHANGED <<client, lock, names, schemas>> /\ Elsewhere

(* Any failure of a call empties both caches: a collection that is gone, or *)
(* a fault of the server.                                                   *)
CallFails(s) ==
  /\ retrievalSearch[s].stage \in {"list_done", "describe_done", "query_done"}
  /\ \/ retrievalSearch[s].stage # "list_done" /\ ~retrievalSearch[s].answer /\ UNCHANGED faults
     \/ faults < MaxFaults /\ faults' = faults + 1
  /\ names' = <<>> /\ schemas' = <<>> /\ RetrievalTo(s, "failed") /\ lock' = Unlocked(s) /\ slots' = slots \ {s}
  /\ UNCHANGED <<retrievalNow, existing, changes, client, orphans, always, batch>>

(* parse_vllm_rerank_response: indexes in range and distinct, best first.   *)
ValidReply(reply, n) ==
  /\ \A i \in DOMAIN reply : reply[i].index \in 1..n
  /\ \A i, j \in DOMAIN reply : reply[i].index = reply[j].index => i = j
RetrievalRankings(reply) == SortSeq(reply, LAMBDA a, b : a.score > b.score)

(* _rerank: the best replies that are good enough; any failure keeps the    *)
(* vector order.                                                            *)
Kept(reply) == IF Len(reply) > TopN THEN SubSeq(reply, 1, TopN) ELSE reply
Reranked(hits, reply) ==
  LET kept == SelectSeq(Kept(RetrievalRankings(reply)), LAMBDA r : r.score >= MinScore)
  IN [i \in DOMAIN kept |-> [doc |-> hits[kept[i].index].doc, score |-> kept[i].score]]
Unranked(hits) == [i \in DOMAIN hits |-> [doc |-> hits[i].doc, score |-> 0]]

RetrievalRerank(s) ==
  LET hits == retrievalSearch[s].hits IN
  /\ retrievalSearch[s].stage = "rank" /\ UNCHANGED <<client, lock, slots, names, schemas>> /\ Elsewhere
  /\ \E reply \in RankReplies :
       retrievalSearch' = [retrievalSearch EXCEPT ![s].stage = IF hits = <<>> \/ ~ValidReply(reply, Len(hits)) THEN "vector_only" ELSE "reranked",
                    ![s].answer = FALSE,
                    ![s].result = IF hits = <<>> \/ ~ValidReply(reply, Len(hits)) THEN Unranked(hits)
                                  ELSE Reranked(hits, reply)]
RetrievalReported(s) ==
  /\ retrievalSearch[s].stage \in {"vector_only", "reranked", "failed", "not_found", "unknown_domain"}
  /\ retrievalSearch' = [retrievalSearch EXCEPT ![s] = RetrievalNoSearch] /\ always' = [always EXCEPT ![s] = FALSE]
  /\ UNCHANGED <<retrievalNow, existing, changes, faults, client, lock, slots, orphans, names, schemas, batch>>

(* search: the whole search is given up at its timeout; locks and slot are  *)
(* released, a thread that was started goes on.                             *)
Pending == {"names?", "names_locked", "list_slot", "list", "list_done", "schema?",
            "schema_locked", "describe_slot", "describe", "describe_done", "embed", "query_slot",
            "query", "query_done", "rank"}
TimedOut(s) ==
  /\ retrievalSearch[s].stage \in Pending /\ faults < MaxFaults /\ faults' = faults + 1
  /\ lock' = Unlocked(s) /\ slots' = slots \ {s}
  /\ orphans' = IF retrievalSearch[s].stage \in {"list", "describe", "query"} THEN orphans + 1 ELSE orphans
  /\ retrievalSearch' = [retrievalSearch EXCEPT ![s] = [RetrievalNoSearch EXCEPT !.stage = "failed"]]
  /\ UNCHANGED <<retrievalNow, existing, changes, client, names, schemas, always, batch>>
OrphanEnds ==
  /\ orphans > 0 /\ orphans' = orphans - 1
  /\ UNCHANGED <<retrievalNow, existing, changes, faults, client, retrievalSearch, lock, slots, names, schemas, always, batch>>

(* aembed_documents: at most EmbedSlots requests at once; the first failure *)
(* or a cancellation stops the others, and all are settled before it ends.  *)
Active == {t \in Texts : batch.text[t] = "sent"}
EmbedBatch == batch.stage = "idle" /\ batch' = [batch EXCEPT !.stage = "embedding"]
EmbedSend(t) ==
  /\ batch.stage \in {"embedding", "failing"} /\ batch.text[t] = "new" /\ Cardinality(Active) < EmbedSlots
  /\ batch' = [batch EXCEPT !.text[t] = "sent"]
EmbedReply(t) ==
  /\ batch.stage \in {"embedding", "failing"} /\ batch.text[t] = "sent"
  /\ \/ batch' = [batch EXCEPT !.text[t] = "done"]
     \/ batch' = [batch EXCEPT !.text[t] = "failed", !.stage = "failing"]

(* The finally block: every request that is not done is cancelled.          *)
RetrievalSettled == [t \in Texts |-> IF batch.text[t] \in {"done", "failed"} THEN batch.text[t] ELSE "cancelled"]
EmbedEnds ==
  /\ \/ batch.stage = "embedding" /\ \A t \in Texts : batch.text[t] = "done"
     \/ batch.stage \in {"embedding", "failing"}
  /\ batch' = [stage |-> IF \A t \in Texts : batch.text[t] = "done" THEN "embedded" ELSE "failed",
               text |-> RetrievalSettled]
EmbedNext ==
  /\ EmbedBatch \/ EmbedEnds \/ \E t \in Texts : EmbedSend(t) \/ EmbedReply(t)
  /\ UNCHANGED <<retrievalNow, existing, changes, faults, client, retrievalSearch, lock, slots, orphans, names, schemas, always>>

(* Other writers create and drop collections; time passes.                  *)
ServerChange ==
  /\ changes < MaxChanges /\ changes' = changes + 1
  /\ \E c \in Domains :
       existing' = IF c \in existing THEN existing \ {c} ELSE existing \cup {c}
  /\ always' = [s \in RetrievalSearches |-> always[s] /\ retrievalSearch[s].name \in existing']
  /\ UNCHANGED <<retrievalNow, faults, client, retrievalSearch, lock, slots, orphans, names, schemas, batch>>
RetrievalTick ==
  /\ retrievalNow < MaxNow /\ retrievalNow' = retrievalNow + 1
  /\ UNCHANGED <<existing, changes, faults, client, retrievalSearch, lock, slots, orphans, names, schemas, always, batch>>

RetrievalNext ==
  \/ \E s \in RetrievalSearches :
       \/ Begin(s) \/ GetRetriever(s) \/ Built(s) \/ LookUpName(s) \/ LookUpSchema(s)
       \/ \E k \in DOMAIN Call : StartCall(s, k) \/ Serve(s, k)
       \/ Listed(s) \/ Described(s) \/ Embedded(s) \/ Found(s) \/ CallFails(s) \/ RetrievalRerank(s)
       \/ RetrievalReported(s) \/ TimedOut(s)
  \/ OrphanEnds \/ ServerChange \/ RetrievalTick
RetrievalSpec == RetrievalInit /\ [][RetrievalNext]_retrievalVars

(* A search says that a collection does not exist only if that was so at    *)
(* some time during the search: a first upload is searchable at once.       *)
NotFoundIsTrue == \A s \in RetrievalSearches : retrievalSearch[s].stage = "not_found" => ~always[s]

(* Threads in a blocking call: those a search waits for, and those whose    *)
(* search gave up.                                                          *)
ThreadsRunning == Cardinality({s \in RetrievalSearches : retrievalSearch[s].stage \in {"list", "describe", "query"}}) + orphans

(* Misses are read by one search at a time, and the caches stay within      *)
(* their size.  A thread beyond the slots is one whose search timed out: it *)
(* gives its slot back and the thread runs on, so the semaphore caps the    *)
(* calls that are waited for, not "concurrent synchronous Milvus calls per  *)
(* retriever" as the comment on _client_call_slots says.                    *)
MissesSerialized ==
  /\ Cardinality({s \in RetrievalSearches : retrievalSearch[s].stage \in {"list_slot", "list", "list_done"}}) <= 1
  /\ Cardinality({s \in RetrievalSearches : retrievalSearch[s].stage \in {"describe_slot", "describe", "describe_done"}}) <= 1
  /\ Len(names) <= RetrievalMaxEntries /\ Len(schemas) <= RetrievalMaxEntries
  /\ ThreadsRunning <= CallSlots + orphans

(* A reranked result holds hits within the cutoff, each once, best first,   *)
(* and leaves out a good enough one only behind TopN better ones.           *)
RankingFaithful ==
  \A s \in RetrievalSearches :
    LET r == retrievalSearch[s].result IN
    /\ \A i \in DOMAIN r : \E h \in DOMAIN retrievalSearch[s].hits : retrievalSearch[s].hits[h].doc = r[i].doc
    /\ \A i, j \in DOMAIN r : i < j => r[i].doc # r[j].doc /\ r[i].score >= r[j].score
    /\ retrievalSearch[s].stage = "reranked" => Len(r) <= TopN /\ \A i \in DOMAIN r : r[i].score >= MinScore
    /\ retrievalSearch[s].stage = "vector_only" => Len(r) = Len(retrievalSearch[s].hits)

(* When an embedding batch has ended, nothing of it is still under way.     *)
BatchSettled == batch.stage \in {"embedded", "failed"} => Active = {}

(* Retrieval answers truthfully, ranks faithfully and leaves no request     *)
(* behind.                                                                  *)
RetrievalSound == NotFoundIsTrue /\ MissesSerialized /\ RankingFaithful /\ BatchSettled
=============================================================================
