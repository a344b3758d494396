------------------------------- MODULE Scrape -------------------------------
(***************************************************************************)
(* Scraping a public page: the robots policy of its origin, fetched once   *)
(* for all who wait and kept for a while; the page; an external reader     *)
(* where the site blocks; the cut to the token limit.                      *)
(*   builder/webscrape: webscrape_function.py, reader.py                   *)
(* And the anonymous article session the web tools of one builder share:   *)
(* one fetch per public URL, a bounded cache, bounded concurrency, and a   *)
(* check of every address before it is used (nat_helpers/public_content.py,*)
(* safe_http.py, url_guard.py, used by webscrape, rss_feed and             *)
(* source_verifier).  A scraped page comes from it.                        *)
(***************************************************************************)
EXTENDS Naturals, Sequences, SequencesExt, FiniteSets, FiniteSetsExt

CONSTANTS Scrapers,      \* calls, all to one origin
          ScrapeSlots,   \* max_concurrency
          PolicyLife,    \* _ROBOTS_CACHE_TTL_SECONDS
          MaxRedirects,  \* _MAX_REDIRECTS
          ReaderHosts,   \* whether the origin is in reader_fallback_hosts
          TokenLimit, NoteTokens, \* max_output_tokens, those of the note
          ParagraphShare, SentenceShare, \* percent of a cut kept (80, 90)
          MaxPageLen, MaxScrapeClock

VARIABLES
  scrape,  \* stage of a call
  robots,  \* the origin's policy now
  kept,    \* the cached policy
  loading, \* the policy fetch under way: hops followed so far
  waiters, \* calls that wait for it
  basis,   \* history: what a call's permission rests on
  cut,     \* the last delivered page: token counts and length kept
  now

scrapeVars == <<scrape, robots, kept, loading, waiters, basis, cut, now>>

NotKept == [policy |-> "none", expires |-> 0, at |-> 0, read |-> TRUE]
NotLoading == [on |-> FALSE, hops |-> 0]
NoBasis == [of |-> "none", joined |-> FALSE, age |-> 0]

(***************************************************************************)
(* The cut to the token limit                                              *)
(***************************************************************************)

(* Token counts of the prefixes of a page.                                  *)
Counts ==
  {[k \in 0..MaxPageLen |-> Cardinality(ends \cap 1..k)] : ends \in SUBSET (1..MaxPageLen)}
NoCut == [count |-> [k \in 0..MaxPageLen |-> 0], length |-> MaxPageLen, mode |-> "full"]
OutputModes == {"full", "research"}

(* _truncate_to_token_limit: the longest prefix within the target, back to  *)
(* its last paragraph or sentence where little is lost.                     *)
Search(count, target) ==
  LET search[left \in 0..MaxPageLen, right \in 0..MaxPageLen] ==
        LET mid == (left + right + 1) \div 2
        IN  IF left >= right THEN left
            ELSE IF count[mid] <= target THEN search[mid, right]
            ELSE search[left, mid - 1]
  IN  search[0, MaxPageLen]

Rounding(longest, paragraph, sentence) ==
  IF 100 * paragraph > ParagraphShare * longest THEN paragraph
  ELSE IF 100 * sentence > SentenceShare * longest THEN sentence + 1 ELSE longest

(***************************************************************************)
(* Robots policies                                                         *)
(***************************************************************************)

ScrapeInit ==
  /\ scrape = [c \in Scrapers |-> "idle"] /\ robots \in {"allow", "deny"}
  /\ kept = NotKept /\ loading = NotLoading /\ waiters = {}
  /\ basis = [c \in Scrapers |-> NoBasis] /\ cut = NoCut /\ now = 0

Busy == {c \in Scrapers : scrape[c] \in {"robots", "waiting", "direct", "reader"}}

Enter(c) ==
  /\ scrape[c] = "idle" /\ Cardinality(Busy) < ScrapeSlots
  /\ \/ scrape' = [scrape EXCEPT ![c] = "robots"]
     \/ scrape' = [scrape EXCEPT ![c] = "done"]  \* not one public http(s) URL
  /\ UNCHANGED <<robots, kept, loading, waiters, basis, cut, now>>

Decide(calls, policy, ground) ==
  /\ scrape' = [c \in Scrapers |-> IF c \notin calls THEN scrape[c]
                                   ELSE IF policy = "deny" THEN "done" ELSE "direct"]
  /\ basis' = [c \in Scrapers |->
                 IF c \in calls THEN ground ELSE basis[c]]

(* _RobotsPolicyCache.get: a policy still fresh, the fetch under way, or a  *)
(* fetch of its own.                                                        *)
AskRobots(c) ==
  /\ scrape[c] = "robots"
  /\ IF kept.policy # "none" /\ kept.expires > now
     THEN Decide({c}, kept.policy, [of |-> IF kept.read THEN "read" ELSE "failed",
                                    joined |-> FALSE, age |-> now - kept.at])
          /\ UNCHANGED <<kept, loading, waiters>>
     ELSE /\ kept' = NotKept
          /\ loading' = [loading EXCEPT !.on = TRUE]
          /\ waiters' = waiters \cup {c}
          /\ scrape' = [scrape EXCEPT ![c] = "waiting"] /\ UNCHANGED basis
  /\ UNCHANGED <<robots, cut, now>>

(* Mutant: a failed fetch is kept like a policy.                            *)
KeepAnyway(policy, read) ==
  [policy |-> policy, expires |-> now + PolicyLife, at |-> now, read |-> read]

(* _finish: what was read is kept, a failure is not.                        *)
Keep(policy, read) ==
  IF read THEN [policy |-> policy, expires |-> now + PolicyLife, at |-> now, read |-> read]
  ELSE kept

(* The fetch ends for everyone who waits.                                   *)
Loaded(policy, read) ==
  /\ kept' = Keep(policy, read) /\ loading' = NotLoading /\ waiters' = {}
  /\ Decide(waiters, policy,
            [of |-> IF read THEN "read" ELSE "failed", joined |-> TRUE, age |-> 0])
  /\ UNCHANGED <<robots, cut, now>>

(* _load_robots_policy: a redirect to a public address is followed, a hop   *)
(* too many or an unsafe one denies the origin, as does a refusal of the    *)
(* file itself; a missing file allows; a failure proceeds and is not kept.  *)
Redirect ==
  /\ loading.on /\ loading.hops < MaxRedirects
  /\ loading' = [loading EXCEPT !.hops = @ + 1]
  /\ UNCHANGED <<scrape, robots, kept, waiters, basis, cut, now>>
BadRedirect == loading.on /\ Loaded("deny", TRUE)
Answer == loading.on /\ Loaded(robots, TRUE)
Unavailable == loading.on /\ Loaded("allow", FALSE)

(***************************************************************************)
(* The page                                                                *)
(***************************************************************************)

Goes(c, stage) == /\ scrape' = [scrape EXCEPT ![c] = stage]
                  /\ UNCHANGED <<robots, kept, loading, waiters, basis, cut, now>>

(* reader_fallback_allowed: the operator's hosts, after a block or nothing. *)
Fallback(c) ==
  /\ scrape[c] = "direct" /\ ReaderHosts
  /\ Goes(c, "reader")
Failed(c) == scrape[c] \in {"direct", "reader"} /\ Goes(c, "done")

(* The page, cut; a research scrape is handed on complete and not counted,  *)
(* for its excerpts to be chosen with the original kept (ToolOutput.tla).   *)
Deliver(c, count, mode) ==
  /\ scrape[c] \in {"direct", "reader"}
  /\ IF mode = "research" THEN cut' = [NoCut EXCEPT !.mode = mode]
     ELSE IF count[MaxPageLen] <= TokenLimit
     THEN cut' = [count |-> count, length |-> MaxPageLen, mode |-> mode]
     ELSE LET longest == Search(count, TokenLimit - NoteTokens)
          IN  \E paragraph, sentence \in {0} \cup 1..(longest - 1) :
                cut' = [count |-> count, length |-> Rounding(longest, paragraph, sentence),
                        mode |-> mode]
  /\ scrape' = [scrape EXCEPT ![c] = "done"]
  /\ UNCHANGED <<robots, kept, loading, waiters, basis, now>>

(* The one deadline of a call, or its caller leaving: the shared fetch goes *)
(* on for the others (asyncio.shield).                                      *)
Leave(c) ==
  /\ c \in Busy
  /\ scrape' = [scrape EXCEPT ![c] = "done"] /\ waiters' = waiters \ {c}
  /\ UNCHANGED <<robots, kept, loading, basis, cut, now>>

SiteChanges == /\ robots' = IF robots = "allow" THEN "deny" ELSE "allow"
               /\ UNCHANGED <<scrape, kept, loading, waiters, basis, cut, now>>

Tick == /\ now < MaxScrapeClock /\ now' = now + 1 /\ cut' = NoCut
        /\ UNCHANGED <<scrape, robots, kept, loading, waiters, basis>>

ScrapeNext ==
  \/ \E c \in Scrapers :
       \/ Enter(c) \/ AskRobots(c) \/ Fallback(c) \/ Failed(c) \/ Leave(c)
       \/ \E count \in Counts, mode \in OutputModes : Deliver(c, count, mode)
  \/ Redirect \/ BadRedirect \/ Answer \/ Unavailable \/ SiteChanges \/ Tick

(***************************************************************************)
(* Properties                                                              *)
(***************************************************************************)

(* A page is read on a policy no older than its lifetime, or because the    *)
(* very fetch the call waited for failed: a failure never permits a call    *)
(* that came after it (_RobotsPolicyCache).                                 *)
RobotsHonoured ==
  \A c \in Scrapers :
    scrape[c] = "direct" =>
      \/ basis[c].of = "read" /\ basis[c].age < PolicyLife
      \/ basis[c].of = "failed" /\ basis[c].joined

(* A call that waits is told: a fetch is under way for it.                  *)
WaitersAreServed ==
  \A c \in Scrapers : scrape[c] = "waiting" <=> (c \in waiters /\ loading.on)

(* A delivered page is whole, or, where it had to be cut, leaves room for   *)
(* the note and is the longest prefix that does, or most of it, as much as  *)
(* the kind of break it ends in allows.                                     *)
CutIsLongest ==
  LET count == cut.count
      fits == {k \in 0..MaxPageLen : count[k] <= TokenLimit - NoteTokens}
  IN  IF count[MaxPageLen] <= TokenLimit THEN cut.length = MaxPageLen
      ELSE /\ cut.length \in fits
           /\ \/ cut.length = Max(fits)
              \/ 100 * cut.length > ParagraphShare * Max(fits)
              \/ 100 * (cut.length - 1) > SentenceShare * Max(fits)

(* Scraping honours the origin's policy and the token limit.                *)
ScrapeKeepsRules == RobotsHonoured /\ WaitersAreServed /\ CutIsLongest
-----------------------------------------------------------------------------
(* The shared article session.                                              *)

CONSTANTS Readers,     \* tool calls that read an article
          Requests,    \* the URLs calls may ask for, with the schemes they allow
          Private,     \* URLs with a query: neither cached nor shared
          Size,        \* bytes of each URL's article
          MaxEntries, MaxBytes, MaxPending, Slots, MaxAttempts, MaxClock

VARIABLES
  asks,     \* the URL of each call, fixed
  reader,   \* stage of a call
  waitsFor, \* the load a call waits for, named after the call that began it
  load,     \* stage of each load
  attempts, \* fetches a load made
  contentPending,  \* per URL, the load others may join
  cache,    \* articles in order of use: url, expiry, size
  bytes,    \* running total of their sizes
  closed,   \* the last tool of the builder has closed the session
  contentClock

contentVars ==
  <<reader, waitsFor, load, attempts, contentPending, cache, bytes, closed, contentClock, asks>>

NoLoad == "none"
Urls == DOMAIN Size
Answers == {"public", "mixed", "internal", "none"}

ContentInit ==
  /\ asks \in Requests
  /\ reader = [c \in Readers |-> "idle"] /\ waitsFor = [c \in Readers |-> NoLoad]
  /\ load = [c \in Readers |-> NoLoad] /\ attempts = [c \in Readers |-> 0]
  /\ contentPending = [u \in Urls |-> NoLoad] /\ cache = <<>> /\ bytes = 0
  /\ closed = FALSE /\ contentClock = 0

Entry(u) == SelectSeq(cache, LAMBDA e : e.url = u)
Others(u) == SelectSeq(cache, LAMBDA e : e.url # u)
Weight(entries) == FoldLeft(LAMBDA n, e : n + e.size, 0, entries)

(* article: a fresh copy, a load under way, or a load of its own, which     *)
(* others may join unless the URL is private or the table is full.          *)
ContentArticle(c) ==
  LET u == asks[c]
      shared == u \notin Private
      hit == shared /\ Entry(u) # <<>> /\ Entry(u)[1].expires > contentClock
      joins == shared /\ ~hit /\ contentPending[u] # NoLoad
      offers == shared /\ Cardinality({v \in Urls : contentPending[v] # NoLoad}) < MaxPending
  IN  /\ reader[c] = "idle" /\ ~closed
      /\ cache' = IF ~shared \/ Entry(u) = <<>> THEN cache
                  ELSE IF hit THEN Others(u) \o Entry(u) ELSE Others(u)
      /\ bytes' = IF shared /\ ~hit THEN bytes - Weight(Entry(u)) ELSE bytes
      /\ reader' = [reader EXCEPT ![c] = IF hit THEN "got"
                                         ELSE IF joins \/ offers THEN "waiting" ELSE "loading"]
      /\ waitsFor' = [waitsFor EXCEPT ![c] = IF hit THEN NoLoad ELSE IF joins THEN contentPending[u] ELSE c]
      /\ load' = IF hit \/ joins THEN load ELSE [load EXCEPT ![c] = "queued"]
      /\ contentPending' = IF hit \/ joins \/ ~offers THEN contentPending ELSE [contentPending EXCEPT ![u] = c]
      /\ UNCHANGED <<attempts, closed, contentClock, asks>>

ContentBusy == {c \in Readers : load[c] \in {"checking", "connecting", "converting"}}

Load(c, stage) == load' = [load EXCEPT ![c] = stage]

(* A load waits for one of the slots.                                       *)
TakeSlot(c) ==
  /\ load[c] = "queued" /\ Cardinality(ContentBusy) < Slots /\ Load(c, "checking")
  /\ UNCHANGED <<reader, waitsFor, attempts, contentPending, cache, bytes, closed, contentClock, asks>>

(* validate_public_url: every answer of the resolver must be public.        *)
Resolves(answer) == answer = "public"

(* Before each hop of a redirect chain, and again at the next attempt.      *)
Check(c) ==
  /\ load[c] = "checking"
  /\ \E answer \in Answers : Load(c, IF Resolves(answer) THEN "connecting" ELSE "failed")
  /\ UNCHANGED <<reader, waitsFor, attempts, contentPending, cache, bytes, closed, contentClock, asks>>

(* _PinnedPublicAsyncBackend resolves again and connects to what it found.  *)
Connectable(answer) == Resolves(answer)

(* The hop is made: the document, a redirect to check, a failure that is    *)
(* tried again, or one that is final.                                       *)
Connect(c) ==
  /\ load[c] = "connecting"
  /\ \E answer \in Answers :
       \/ /\ ~Connectable(answer) /\ Load(c, "failed") /\ UNCHANGED attempts
       \/ /\ Connectable(answer)
          /\ \/ Load(c, "converting") /\ UNCHANGED attempts
             \/ /\ attempts[c] < MaxAttempts /\ attempts' = [attempts EXCEPT ![c] = @ + 1]
                /\ Load(c, "checking")
             \/ Load(c, "failed") /\ UNCHANGED attempts
  /\ UNCHANGED <<reader, waitsFor, contentPending, cache, bytes, closed, contentClock, asks>>

(* Oldest entries go until both limits hold.                                *)
Evicted(entries) ==
  LET fits(k) == LET rest == SubSeq(entries, k + 1, Len(entries))
                 IN  Len(rest) <= MaxEntries /\ Weight(rest) <= MaxBytes
      drop == CHOOSE k \in 0..Len(entries) : fits(k) /\ \A j \in 0..(k - 1) : ~fits(j)
  IN  SubSeq(entries, drop + 1, Len(entries))

(* What a response converts to, by the shared HTML converter or by the      *)
(* caller's from a local file: a header of its title and source, an error   *)
(* or text below it, and signatures of a page that blocks automated access. *)
Pages == [says : {"nothing", "error", "text"}, signatures : 0..2]
IsChallengePage(p) == p.signatures >= 2
Converted(p) ==
  IF p.says # "text" THEN "empty" ELSE IF IsChallengePage(p) THEN "challenge" ELSE "article"

(* The conversion ends the load: an article, kept as long as its headers    *)
(* allow, or a failure.                                                     *)
Convert(c) ==
  /\ load[c] = "converting"
  /\ \E p \in Pages :
       IF Converted(p) = "article"
       THEN /\ Load(c, "done")
            /\ \E ttl \in 0..1 :
                 IF ttl > 0 /\ asks[c] \notin Private /\ Size[asks[c]] <= MaxBytes
                 THEN LET filled == Append(Others(asks[c]),
                            [url |-> asks[c], expires |-> contentClock + ttl, size |-> Size[asks[c]]])
                      IN  /\ cache' = Evicted(filled)
                          /\ bytes' = (bytes - Weight(Entry(asks[c])) + Size[asks[c]])
                                      - (Weight(filled) - Weight(Evicted(filled)))
                 ELSE UNCHANGED <<cache, bytes>>
       ELSE Load(c, "failed") /\ UNCHANGED <<cache, bytes>>
  /\ UNCHANGED <<reader, waitsFor, attempts, contentPending, closed, contentClock, asks>>

(* The load's own time is up.                                               *)
Expires(c) ==
  /\ load[c] \in {"queued", "checking", "connecting", "converting"} /\ Load(c, "failed")
  /\ UNCHANGED <<reader, waitsFor, attempts, contentPending, cache, bytes, closed, contentClock, asks>>

(* finished: the done callback takes the load out of the table.             *)
Finished(c) ==
  /\ load[c] \in {"done", "failed", "cancelled"} /\ contentPending[asks[c]] = c
  /\ contentPending' = [contentPending EXCEPT ![asks[c]] = NoLoad]
  /\ UNCHANGED <<reader, waitsFor, load, attempts, cache, bytes, closed, contentClock, asks>>

(* A call receives the outcome of its load.                                 *)
Receive(c) ==
  /\ reader[c] \in {"waiting", "loading"} /\ load[waitsFor[c]] \in {"done", "failed", "cancelled"}
  /\ reader' = [reader EXCEPT ![c] = IF load[waitsFor[c]] = "done" THEN "got" ELSE load[waitsFor[c]]]
  /\ UNCHANGED <<waitsFor, load, attempts, contentPending, cache, bytes, closed, contentClock, asks>>

(* Mutant: leaving cancels the load one waits for.                          *)
LeftCancelling(c) == Load(waitsFor[c], "cancelled")

(* A call that leaves cancels a load of its own, never a shared one.        *)
Left(c) == IF reader[c] = "loading" THEN Load(c, "cancelled") ELSE UNCHANGED load

ContentLeave(c) ==
  /\ reader[c] \in {"waiting", "loading"} /\ load[waitsFor[c]] \notin {"done", "failed", "cancelled"}
  /\ reader' = [reader EXCEPT ![c] = "left"] /\ Left(c)
  /\ UNCHANGED <<waitsFor, attempts, contentPending, cache, bytes, closed, contentClock, asks>>

(* close, with the last tool of the builder.                                *)
ContentClose ==
  /\ ~closed /\ closed' = TRUE
  /\ load' = [c \in Readers |-> IF contentPending[asks[c]] = c /\ load[c] \notin {"done", "failed"}
                                THEN "cancelled" ELSE load[c]]
  /\ contentPending' = [u \in Urls |-> NoLoad] /\ cache' = <<>> /\ bytes' = 0
  /\ UNCHANGED <<reader, waitsFor, attempts, contentClock, asks>>

ContentTick ==
  /\ contentClock < MaxClock /\ contentClock' = contentClock + 1
  /\ UNCHANGED <<reader, waitsFor, load, attempts, contentPending, cache, bytes, closed, asks>>

ContentNext ==
  \/ \E c \in Readers : ContentArticle(c) \/ TakeSlot(c) \/ Check(c) \/ Connect(c) \/ Convert(c)
                        \/ Expires(c) \/ Finished(c) \/ Receive(c) \/ ContentLeave(c)
  \/ ContentClose \/ ContentTick

(* The running total is the weight of the cache, within its limits.         *)
Accounted ==
  /\ bytes = Weight(cache) /\ bytes <= MaxBytes /\ Len(cache) <= MaxEntries
  /\ \A i, j \in DOMAIN cache : cache[i].url = cache[j].url => i = j

(* A call is cancelled only with the session: those who leave do not take   *)
(* the load away from the others.                                           *)
Bystanders == \A c \in Readers : reader[c] = "cancelled" => closed

(* Who asks for a public article that is being fetched for others waits for *)
(* that fetch: two calls never wait for two running loads of one URL, which *)
(* neither a waiter that leaves nor a load that failed before may break.    *)
Running(l) == load[l] \in {"queued", "checking", "connecting", "converting"}
OneLoad ==
  \A c, d \in Readers :
    /\ asks[c] = asks[d] /\ reader[c] = "waiting" /\ reader[d] = "waiting"
    /\ Running(waitsFor[c]) /\ Running(waitsFor[d])
    => waitsFor[c] = waitsFor[d]

(* A private article is fetched for one call alone, is kept for no other,   *)
(* and its fetch goes no further once that call has left.                   *)
PrivateApart ==
  /\ \A c, d \in Readers :
       asks[c] \in Private /\ waitsFor[d] = c => d = c /\ (Running(c) => reader[c] = "loading")
  /\ \A i \in DOMAIN cache : cache[i].url \notin Private

(* Article loads stay accounted, are shared where they may be and only      *)
(* there, and do not depend on who leaves (PublicContentSession).           *)
SharedLoads == Accounted /\ Bystanders /\ OneLoad /\ PrivateApart
=============================================================================
