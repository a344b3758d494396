----------------------------- MODULE FeedSearch -----------------------------
(***************************************************************************)
(* Searching curated feeds: snapshots shared by concurrent searches, a     *)
(* reranker over their entries, and the article of the best one.           *)
(*   builder/rss_feed/rss_feed_function.py, nat_helpers/vllm_reranker.py   *)
(***************************************************************************)
EXTENDS Naturals, Sequences, FiniteSets, SequencesExt

CONSTANTS Searches, Scopes,
          FeedOf,         \* the feed URL of each scope
          Discover,       \* the searches in discover mode
          FetchSlots,     \* feed_concurrency
          SnapshotLife,   \* cache_ttl_hours
          LongestArticle, ArticleLimit, \* article lengths; scrape_max_output_tokens
          Rankings,       \* replies of the reranker tried: indexes and scores
          MaxFeedEntries, MaxFeedClock

VARIABLES
  hunt,     \* stage and result of a search
  part,     \* what a search has of each scope's feed
  snapshot, \* the cached snapshot of a feed
  fetching, \* the fetch of a feed under way
  stopped,  \* the tool is being closed
  time

feedSearchVars == <<hunt, part, snapshot, fetching, stopped, time>>

FeedUrls == {FeedOf[f] : f \in Scopes}
NoPart == [status |-> "none", count |-> 0, age |-> 0, cached |-> FALSE]
NoSnapshot == [held |-> FALSE, count |-> 0, fetched |-> 0, stored |-> 0]
NoFetch == [stage |-> "none", waiting |-> {}, count |-> 0, fetched |-> 0]
NoHunt == [stage |-> "idle", scopes |-> {}, status |-> "none", success |-> FALSE,
           order |-> <<>>, length |-> 0, content |-> 0]

FeedSearchInit ==
  /\ hunt = [s \in Searches |-> NoHunt]
  /\ part = [s \in Searches |-> [f \in Scopes |-> NoPart]]
  /\ snapshot = [u \in FeedUrls |-> NoSnapshot]
  /\ fetching = [u \in FeedUrls |-> NoFetch]
  /\ stopped = FALSE /\ time = 0

(* The scopes the tool's input schema offers: each feed, and all of them.   *)
Selectable == {{f} : f \in Scopes} \cup {Scopes}

(* perform_search reads the feed of one scope, or of all.                   *)
Start(s, scopes) ==
  /\ hunt[s].stage = "idle" /\ ~stopped
  /\ hunt' = [hunt EXCEPT ![s].stage = "reading", ![s].scopes = scopes]
  /\ UNCHANGED <<part, snapshot, fetching, stopped, time>>

(* Mutant: a snapshot lives from when it was stored.                        *)
FreshSinceStored(shot) == shot.held /\ time < shot.stored + SnapshotLife

Fresh(shot) == shot.held /\ time < shot.fetched + SnapshotLife

Has(shot, cached) ==
  [status |-> IF shot.count > 0 THEN "available" ELSE "empty", count |-> shot.count,
   age |-> time - shot.fetched, cached |-> cached]

(* read_feed: a fresh snapshot, a fetch under way, or a fetch of its own.   *)
ReadFeed(s, f) ==
  LET u == FeedOf[f]
  IN  /\ hunt[s].stage = "reading" /\ f \in hunt[s].scopes /\ part[s][f] = NoPart
      /\ IF Fresh(snapshot[u])
         THEN /\ part' = [part EXCEPT ![s][f] = Has(snapshot[u], TRUE)]
              /\ UNCHANGED <<snapshot, fetching>>
         ELSE /\ snapshot' = [snapshot EXCEPT ![u] = NoSnapshot]
              /\ part' = [part EXCEPT ![s][f].status = "waiting"]
              /\ fetching' = [fetching EXCEPT
                   ![u].stage = IF @ = "none" THEN "queued" ELSE @,
                   ![u].waiting = @ \cup {<<s, f>>}]
      /\ UNCHANGED <<hunt, stopped, time>>

(* fetch_feed, in one of the slots; a snapshot is dated by its response.    *)
FetchFeed(u) ==
  /\ fetching[u].stage = "queued"
  /\ Cardinality({v \in FeedUrls : fetching[v].stage \in {"open", "parse"}}) < FetchSlots
  /\ fetching' = [fetching EXCEPT ![u].stage = "open"]
  /\ UNCHANGED <<hunt, part, snapshot, stopped, time>>

Respond(u, count) ==
  /\ fetching[u].stage = "open"
  /\ fetching' = [fetching EXCEPT ![u].stage = "parse", ![u].count = count,
                                  ![u].fetched = time]
  /\ UNCHANGED <<hunt, part, snapshot, stopped, time>>

FeedDeliver(u, p) ==
  /\ part' = [s \in Searches |-> [f \in Scopes |->
                IF <<s, f>> \in fetching[u].waiting THEN p ELSE part[s][f]]]
  /\ fetching' = [fetching EXCEPT ![u] = NoFetch]
  /\ UNCHANGED <<hunt, stopped, time>>

(* Entries without a title or a public link are left out of the snapshot.   *)
ParseFeed(u) ==
  /\ fetching[u].stage = "parse"
  /\ \E kept \in 0..fetching[u].count :
       LET shot == [held |-> TRUE, count |-> kept, fetched |-> fetching[u].fetched,
                    stored |-> time]
       IN  snapshot' = [snapshot EXCEPT ![u] = shot] /\ FeedDeliver(u, Has(shot, FALSE))

FetchFails(u) ==
  /\ fetching[u].stage \in {"queued", "open", "parse"}
  /\ FeedDeliver(u, [NoPart EXCEPT !.status = "unavailable"]) /\ UNCHANGED snapshot

(***************************************************************************)
(* Ranking                                                                 *)
(***************************************************************************)

(* parse_vllm_rerank_response: indexes in range, none twice, best first.    *)
Parsed(results, passages) ==
  IF /\ \A k \in 1..Len(results) : results[k].index \in passages
     /\ \A j, k \in 1..Len(results) : results[j].index = results[k].index => j = k
  THEN SortSeq(results, LAMBDA a, b : a.score > b.score) ELSE <<>>

Entries(s) == FoldFunctionOnSet(LAMBDA p, n : p.count + n, 0, part[s], hunt[s].scopes)

(* _build_reranker_passages: one passage per entry of the feeds read, its   *)
(* text cut to a share of the reranker's tokens.                            *)
Passages(s) == 1..Entries(s)

AnyFailed(s) == \E f \in hunt[s].scopes : part[s][f].status = "unavailable"

Finish(s, status, success, order) ==
  /\ hunt' = [hunt EXCEPT ![s].stage = "done", ![s].status = status,
                          ![s].success = success, ![s].order = order]
  /\ UNCHANGED <<part, snapshot, fetching, stopped, time>>

AllRead(s) ==
  /\ hunt[s].stage = "reading"
  /\ \A f \in hunt[s].scopes : part[s][f].status \notin {"none", "waiting"}

Nothing(s) ==
  /\ AllRead(s) /\ Entries(s) = 0
  /\ Finish(s, IF AnyFailed(s) THEN "unavailable" ELSE "empty",
            s \in Discover /\ ~AnyFailed(s), <<>>)

RerankFails(s) ==
  AllRead(s) /\ Entries(s) > 0 /\ Finish(s, "unavailable", FALSE, <<>>)

(* A discovery reports how complete its feeds were; an article search goes  *)
(* on to fetch the best entry.                                              *)
Rerank(s, results) ==
  LET order == Parsed(results, Passages(s))
      failed == AnyFailed(s)
  IN  /\ AllRead(s) /\ Entries(s) > 0
      /\ \A k \in 1..Len(results) : results[k].index <= Entries(s) + 1
      /\ IF order = <<>> /\ results # <<>>
         THEN Finish(s, "unavailable", FALSE, <<>>)
         ELSE IF s \in Discover
         THEN IF order = <<>>
              THEN Finish(s, IF failed THEN "partial" ELSE "empty", ~failed, <<>>)
              ELSE Finish(s, IF failed THEN "partial" ELSE "ok", TRUE, order)
         ELSE IF order = <<>> THEN Finish(s, "unavailable", FALSE, <<>>)
         ELSE /\ hunt' = [hunt EXCEPT ![s].stage = "article", ![s].order = order]
              /\ UNCHANGED <<part, snapshot, fetching, stopped, time>>

(* The article of the best entry, from the session Scrape models: a page    *)
(* that converts to nothing is a failure, one over the token limit is cut.  *)
Fetched(length) == length > 0
Truncated(length) == IF length > ArticleLimit THEN ArticleLimit ELSE length
Article(s) ==
  /\ hunt[s].stage = "article"
  /\ \/ Finish(s, "unavailable", FALSE, hunt[s].order)
     \/ \E length \in 0..LongestArticle :
          /\ Fetched(length)
          /\ hunt' = [hunt EXCEPT ![s].stage = "done", ![s].status = "article",
                        ![s].success = TRUE, ![s].length = length, ![s].content = Truncated(length)]
          /\ UNCHANGED <<part, snapshot, fetching, stopped, time>>

(* _format_tool_response: a success only with text, else an error, and what *)
(* was cut is said to be.                                                   *)
FormatToolResponse(h) ==
  LET success == h.success /\ h.content > 0
  IN  [success |-> success, error |-> ~success, content |-> h.content,
       truncated |-> h.content < h.length]

(* A caller that leaves stops neither the fetch nor the others who wait.    *)
Cancel(s) ==
  /\ hunt[s].stage = "reading"
  /\ hunt' = [hunt EXCEPT ![s].stage = "gone"]
  /\ UNCHANGED <<part, snapshot, fetching, stopped, time>>

Close ==
  /\ ~stopped /\ stopped' = TRUE
  /\ fetching' = [u \in FeedUrls |-> NoFetch]
  /\ hunt' = [s \in Searches |->
                IF \E f \in Scopes : part[s][f].status = "waiting"
                THEN [hunt[s] EXCEPT !.stage = "gone"] ELSE hunt[s]]
  /\ UNCHANGED <<part, snapshot, time>>

TimePasses == /\ time < MaxFeedClock /\ time' = time + 1
              /\ UNCHANGED <<hunt, part, snapshot, fetching, stopped>>

FeedSearchNext ==
  \/ \E s \in Searches :
       \/ \E scopes \in Selectable : Start(s, scopes)
       \/ \E f \in Scopes : ReadFeed(s, f)
       \/ AllRead(s) /\ \E results \in Rankings : Rerank(s, results)
       \/ Nothing(s) \/ RerankFails(s) \/ Article(s) \/ Cancel(s)
  \/ \E u \in FeedUrls :
       \/ FetchFeed(u) \/ ParseFeed(u) \/ FetchFails(u)
       \/ \E count \in 0..MaxFeedEntries : Respond(u, count)
  \/ Close \/ TimePasses

(***************************************************************************)
(* Properties                                                              *)
(***************************************************************************)

(* A search never hides a feed it could not read: it is complete, or says   *)
(* so; nothing found is claimed only of feeds that were all read; and its   *)
(* article is told of exactly when there is one, whole unless it says so.   *)
StatusIsTrue ==
  \A s \in Searches :
    /\ hunt[s].status \in {"ok", "empty"} => ~AnyFailed(s)
    /\ hunt[s].success => hunt[s].status \in {"article", "ok", "partial", "empty"}
    /\ hunt[s].status \in {"ok", "article"} => hunt[s].order # <<>>
    /\ s \notin Discover /\ hunt[s].stage = "done" =>
         LET told == FormatToolResponse(hunt[s])
         IN  /\ told.success <=> hunt[s].status = "article"
             /\ told.content = hunt[s].length \/ told.truncated

(* What a search uses from the cache is younger than its lifetime, counted  *)
(* from the response (_FeedSnapshot.expires_at).                            *)
SnapshotsAreFresh ==
  \A s \in Searches, f \in Scopes :
    part[s][f].cached => part[s][f].age < SnapshotLife

(* A search that waits for a feed is told: its fetch is under way.          *)
WaitersAreTold ==
  \A s \in Searches, f \in Scopes :
    part[s][f].status = "waiting" /\ hunt[s].stage = "reading" =>
      /\ fetching[FeedOf[f]].stage # "none"
      /\ <<s, f>> \in fetching[FeedOf[f]].waiting

(* The order reported names entries that exist, each once, best first.      *)
OrderIsRanking ==
  \A s \in Searches :
    LET order == hunt[s].order
    IN  \A j, k \in 1..Len(order) :
          /\ order[k].index \in 1..Entries(s)
          /\ j < k => order[j].index # order[k].index /\ order[j].score >= order[k].score

(* What a feed search tells its caller is so.                               *)
FeedFactsTrue == StatusIsTrue /\ SnapshotsAreFresh /\ WaitersAreTold /\ OrderIsRanking
=============================================================================
