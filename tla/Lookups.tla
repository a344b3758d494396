------------------------------- MODULE Lookups -------------------------------
(***************************************************************************)
(* Two tools that look something up on the web.  The search: what a        *)
(* request asks of the provider, the bounded retries of a rate limit, and  *)
(* the answer made of the provider's.  The weather: the point of a         *)
(* location, cached and loaded once for all who wait; alerts, forecast and *)
(* observations, each of which may be missing; the hours a forecast leaves *)
(* uncovered.                                                              *)
(*   builder/perplexity_search: perplexity_search_function.py              *)
(*   builder/webscrape: nws_weather_function.py                            *)
(***************************************************************************)
EXTENDS Integers, FiniteSets, Sequences, FiniteSetsExt

(***************************************************************************)
(* The web search                                                          *)
(***************************************************************************)

CONSTANTS Phrases,      \* query strings; "" is blank
          FoldOf,       \* their casefold
          MaxQueries,   \* 5
          MaxRetries,   \* rate_limit_max_retries
          MaxFound,     \* MAX_RESULTS
          DefaultFound, \* default_max_results
          HaveKey

VARIABLES
  search, \* stage of the call, with its request
  posts   \* responses of the provider so far, newest last

searchVars == <<search, posts>>

Dates == {"", "valid", "invalid"}      \* one exact date filter
Recencies == {"", "week", "invalid"}
Items == {"good", "untitled", "scalar"}
Codes == {"200", "400", "401", "429", "500", "quota"}
NoSearch == [stage |-> "idle"]

(***************************************************************************)
(* The request                                                             *)
(***************************************************************************)

(* _normalize_query: one phrase, or 2 to MaxQueries distinct ones.          *)
QueryValid(q) ==
  \/ Len(q) = 1 /\ q[1] # ""
  \/ /\ Len(q) \in 2..MaxQueries
     /\ \A i \in DOMAIN q : q[i] # ""
     /\ \A i, j \in DOMAIN q : FoldOf[q[i]] = FoldOf[q[j]] => i = j

(* _clamp_max_results: nothing asked for is the configured default.         *)
ClampMaxResults(n) == IF n = 0 THEN DefaultFound ELSE IF n > MaxFound THEN MaxFound ELSE n

(* _build_request_payload: exact dates win over recency; an invalid exact   *)
(* date refuses the request, an unknown recency is dropped.                 *)
RecencyAlways(dates, recency) == recency = "week"
RecencyKept(dates, recency) == recency = "week" /\ \A d \in DOMAIN dates : dates[d] = ""
BuildRequestPayload(q, n, dates, recency) ==
  [query |-> q, max |-> ClampMaxResults(n),
   dates |-> {d \in DOMAIN dates : dates[d] = "valid"}, recency |-> RecencyKept(dates, recency)]

Refused(q, country, dates) ==
  \/ ~HaveKey \/ ~QueryValid(q) \/ country \notin {0, 2}
  \/ \E d \in DOMAIN dates : dates[d] = "invalid"

(***************************************************************************)
(* The answer                                                              *)
(***************************************************************************)

(* _extract_results: of the first max items, those with a title and a link, *)
(* numbered from 1; each is known by its place in the provider's answer.    *)
ExtractResults(items, max) ==
  LET first == IF Len(items) > max THEN SubSeq(items, 1, max) ELSE items
      good  == {i \in DOMAIN first : first[i] = "good"}
  IN  [p \in 1..Cardinality(good) |-> CHOOSE i \in good : Cardinality({j \in good : j <= i}) = p]

(* _http_error_for_user: a body that speaks of quota is that, whatever the  *)
(* status; "quota" is a 429 with such a body.                               *)
HttpErrorForUser(code) ==
  CASE code = "quota" -> "operator" [] code = "429" -> "later"
    [] code = "401" -> "operator" [] code = "400" -> "arguments" [] OTHER -> "provider"

(***************************************************************************)
(* Steps                                                                   *)
(***************************************************************************)

SearchInit == search = NoSearch /\ posts = <<>>

SearchWeb(q, country, n, dates, recency) ==
  /\ search' = IF Refused(q, country, dates) THEN [stage |-> "refused", bad |-> ~QueryValid(q)]
               ELSE [stage |-> "posting", payload |-> BuildRequestPayload(q, n, dates, recency),
                     want |-> [dates |-> dates, recency |-> recency, n |-> n]]
  /\ UNCHANGED posts

(* One POST of _post_with_rate_limit_backoff and what follows it.           *)
Again(code) == code \in {"429", "quota"} /\ Len(posts) < MaxRetries
Post(code) ==
  /\ search.stage = "posting" /\ posts' = Append(posts, code)
  /\ search' = IF Again(code) THEN search
               ELSE IF code = "200" THEN [search EXCEPT !.stage = "decoding"]
               ELSE [stage |-> "failed", payload |-> search.payload, want |-> search.want,
                     said |-> HttpErrorForUser(code)]

Unreachable ==
  /\ search.stage = "posting" /\ search' = [search EXCEPT !.stage = "unreachable"]
  /\ UNCHANGED posts

(* The body: invalid JSON fails, an object gives results.                   *)
Decode(items, valid) ==
  /\ search' = IF ~valid THEN [search EXCEPT !.stage = "invalid"]
               ELSE [stage |-> "found", payload |-> search.payload, want |-> search.want,
                     items |-> items, results |-> ExtractResults(items, search.payload.max)]
  /\ UNCHANGED posts

Returned ==
  /\ search.stage \in {"refused", "failed", "unreachable", "invalid", "found"}
  /\ search' = NoSearch /\ posts' = <<>>

SeqsTo(S, n) == UNION {[1..k -> S] : k \in 0..n}
SearchNext ==
  \/ search = NoSearch /\ \E q \in SeqsTo(Phrases, MaxQueries + 1), country \in 0..3, n \in 0..(MaxFound + 1),
        dates \in [{"after", "before"} -> Dates], recency \in Recencies :
       SearchWeb(q, country, n, dates, recency)
  \/ \E code \in Codes : Post(code)
  \/ Unreachable
  \/ search.stage = "decoding" /\ \E items \in SeqsTo(Items, MaxFound + 1), valid \in BOOLEAN : Decode(items, valid)
  \/ Returned

(***************************************************************************)
(* Properties                                                              *)
(***************************************************************************)

(* A search does what it was asked: nothing is sent for a request that is   *)
(* refused; the provider never gets a recency beside exact dates, and gets  *)
(* one that was asked for alone; only rate limits are repeated, at most     *)
(* MaxRetries times; an error is reported for the last answer; results keep *)
(* the provider's order, none of the usable ones within the limit lost.     *)
SearchFaithful ==
  /\ search.stage \in {"idle", "refused"} => posts = <<>>
  /\ Len(posts) <= MaxRetries + 1
  /\ \A i \in 1..(Len(posts) - 1) : posts[i] \in {"429", "quota"}
  /\ search.stage \notin {"idle", "refused"} =>
       LET p == search.payload
       IN  /\ QueryValid(p.query) /\ p.max \in 1..MaxFound
           /\ p.recency => p.dates = {}
           /\ (search.want.recency = "week" /\ \A d \in DOMAIN search.want.dates :
                 search.want.dates[d] = "") => p.recency
  /\ search.stage = "failed" /\ search.said = "later" =>
       Len(posts) = MaxRetries + 1 /\ posts[Len(posts)] = "429"
  /\ search.stage = "found" =>
       LET r == search.results
           firsts == {i \in DOMAIN search.items : i <= search.payload.max}
       IN  /\ \A i, j \in DOMAIN r : i < j => r[i] < r[j]
           /\ {r[i] : i \in DOMAIN r} = {i \in firsts : search.items[i] = "good"}

(***************************************************************************)
(* The weather                                                             *)
(***************************************************************************)

CONSTANTS Reports,      \* calls of weather
          PlaceOf,      \* the points URL of a call
          WithObservations, \* calls that ask for observations
          PointLife,    \* points_cache_ttl_seconds
          PointCap,     \* 64 cached points
          PendingCap,   \* 64 shared loads
          MaxHops,      \* 6 requests
          Horizon,      \* hours around the forecast's coverage
          MaxPeriods, MaxWeatherClock

VARIABLES
  report,   \* stage and parts of each call
  points,   \* _points: cached answers, the least recently used first
  pending,  \* _pending: URLs with a shared load under way
  coverage, \* the last forecast examined
  hour

weatherVars == <<report, points, pending, coverage, hour>>

NoReport == [stage |-> "idle"]
Asked == [stage |-> "asked", point |-> "start", alerts |-> "wait", at |-> 0]
Statuses == {"ok", "partial", "unavailable"}
NoForecast == [periods |-> {}, gaps |-> {}, status |-> "none"]
Places == {PlaceOf[c] : c \in Reports}

(* _json: up to MaxHops requests, each redirect staying on the weather      *)
(* service; an answer must be a JSON object.                                *)
JsonAnswers(chain) ==
  \E n \in DOMAIN chain : chain[n] = "object" /\ \A k \in 1..(n - 1) : chain[k] = "redirect"
Outcomes == {JsonAnswers(chain) : chain \in [1..MaxHops -> {"redirect", "elsewhere", "object", "error"}]}

(***************************************************************************)
(* The forecast's coverage                                                 *)
(***************************************************************************)

(* Coverage runs from now (hour 1) to the end of the last local day asked   *)
(* for; periods may start before and end after it.                          *)
Now == 1
CoverageEnd == Horizon - 1
Intervals == {i \in (0..Horizon) \X (0..Horizon) : i[1] < i[2]}

Relevant(p) == {i \in p : i[2] > Now /\ i[1] < CoverageEnd}
Sooner(i, j) == i[1] < j[1] \/ (i[1] = j[1] /\ i[2] < j[2])

(* Where coverage reaches before period i: the latest end so far.           *)
CursorLatestStart(p, i) == LET before == {j \in p : Sooner(j, i)}
                           IN  IF before = {} THEN Now
                               ELSE (CHOOSE j \in before : \A k \in before : k = j \/ Sooner(k, j))[2]
Cursor(p, i) == Max({Now} \cup {j[2] : j \in {k \in p : Sooner(k, i)}})

(* The gaps of _forecast, in order of the periods.                          *)
Gaps(periods) ==
  LET p == Relevant(periods)
      reach == Max({Now} \cup {i[2] : i \in p})
      between == {<<Cursor(p, i), Min({i[1], CoverageEnd})>> : i \in {k \in p : k[1] > Cursor(p, k)}}
  IN  between \cup (IF reach < CoverageEnd THEN {<<reach, CoverageEnd>>} ELSE {})

ForecastStatus(gaps, stale, missing) ==
  IF gaps = {} /\ ~stale /\ ~missing THEN "ok" ELSE "partial"

(***************************************************************************)
(* The point of a location                                                 *)
(***************************************************************************)

WeatherInit ==
  /\ report = [c \in Reports |-> NoReport] /\ points = <<>> /\ pending = {}
  /\ coverage = NoForecast /\ hour = 0

Cached(u) == {i \in DOMAIN points : points[i].url = u}
Without(u) == SelectSeq(points, LAMBDA e : e.url # u)

Ask(c) ==
  /\ report[c] = NoReport /\ coverage = NoForecast
  /\ report' = [report EXCEPT ![c] = Asked]
  /\ UNCHANGED <<points, pending, coverage, hour>>

(* _point up to its first await: a live entry is moved to the end; a stale  *)
(* one is dropped; a load under way is joined; with too many under way the  *)
(* call loads by itself.                                                    *)
Point(c) ==
  /\ report[c].stage = "asked" /\ report[c].point = "start"
  /\ LET u == PlaceOf[c]
         live == {i \in Cached(u) : points[i].until > hour}
     IN  IF live # {}
         THEN LET e == points[CHOOSE i \in live : TRUE]
              IN  /\ points' = Append(Without(u), e)
                  /\ report' = [report EXCEPT ![c].point = "ok", ![c].at = e.at]
                  /\ UNCHANGED pending
         ELSE /\ points' = Without(u)
              /\ LET own == u \notin pending /\ Cardinality(pending) >= PendingCap
                 IN  /\ report' = [report EXCEPT ![c].point = IF own THEN "own" ELSE "shared"]
                     /\ pending' = IF own THEN pending ELSE pending \cup {u}
  /\ UNCHANGED <<coverage, hour>>

(* What a successful load leaves behind, for the time the answer allows.    *)
Remember(u, life) ==
  LET added == Append(Without(u), [url |-> u, at |-> hour, until |-> hour + life])
  IN  IF life = 0 THEN points
      ELSE IF Len(added) > PointCap THEN Tail(added) ELSE added

(* The shared load ends, with an answer, an error or its timeout: all who   *)
(* still wait for it get that, and the next call starts another.            *)
WeatherLoaded(u, good, life) ==
  /\ u \in pending /\ pending' = pending \ {u}
  /\ points' = IF good THEN Remember(u, life) ELSE points
  /\ report' = [c \in Reports |->
       IF PlaceOf[c] = u /\ report[c].stage = "asked" /\ report[c].point = "shared"
       THEN [report[c] EXCEPT !.point = IF good THEN "ok" ELSE "failed", !.at = hour]
       ELSE report[c]]
  /\ UNCHANGED <<coverage, hour>>

LoadedAlone(c, good, life) ==
  /\ report[c].stage = "asked" /\ report[c].point = "own"
  /\ points' = IF good THEN Remember(PlaceOf[c], life) ELSE points
  /\ report' = [report EXCEPT ![c].point = IF good THEN "ok" ELSE "failed", ![c].at = hour]
  /\ UNCHANGED <<pending, coverage, hour>>

(* bounded: a call gives up on its own; the shared load goes on.            *)
PointTimeout(c) ==
  /\ report[c].stage = "asked" /\ report[c].point = "shared"
  /\ report' = [report EXCEPT ![c].point = "failed"]
  /\ UNCHANGED <<points, pending, coverage, hour>>

(* Alerts: no answer, and one without a list of features, is unavailable.   *)
Alerts(c, good) ==
  /\ report[c].stage = "asked" /\ report[c].alerts = "wait"
  /\ report' = [report EXCEPT ![c].alerts = IF good THEN "ok" ELSE "unavailable"]
  /\ UNCHANGED <<points, pending, coverage, hour>>

(***************************************************************************)
(* The answer                                                              *)
(***************************************************************************)

Overall(parts) == IF parts = {"ok"} THEN "ok"
                  ELSE IF parts = {"unavailable"} THEN "unavailable" ELSE "partial"

(* Without a point neither forecast nor observations are asked for.         *)
Compose(c, forecast, observations) ==
  /\ report[c].stage = "asked" /\ report[c].alerts # "wait" /\ report[c].point \in {"ok", "failed"}
  /\ report[c].point = "failed" => forecast = "unavailable" /\ observations = "unavailable"
  /\ c \notin WithObservations => observations = "unavailable"
  /\ LET parts == {forecast, report[c].alerts} \cup
                  (IF c \in WithObservations THEN {observations} ELSE {})
     IN  report' = [report EXCEPT ![c] =
           [stage |-> "answered", status |-> Overall(parts), alerts |-> report[c].alerts,
            forecast |-> forecast, point |-> report[c].point, age |-> hour - report[c].at]]
  /\ UNCHANGED <<points, pending, coverage, hour>>

Answered(c) ==
  /\ report[c].stage = "answered" /\ report' = [report EXCEPT ![c] = NoReport]
  /\ UNCHANGED <<points, pending, coverage, hour>>

(* _forecast over every small set of periods; it reads no shared state.     *)
Examine(periods, stale, missing) ==
  /\ coverage' = [periods |-> periods, gaps |-> Gaps(periods),
                  status |-> ForecastStatus(Gaps(periods), stale, missing)]
  /\ UNCHANGED <<report, points, pending, hour>>

Examined ==
  /\ coverage # NoForecast /\ coverage' = NoForecast
  /\ UNCHANGED <<report, points, pending, hour>>

(* Each operation is bounded by the tool's timeout, far below PointLife.    *)
WeatherTick ==
  /\ hour < MaxWeatherClock /\ coverage = NoForecast
  /\ \A c \in Reports : report[c] = NoReport
  /\ pending = {} /\ hour' = hour + 1
  /\ UNCHANGED <<report, points, pending, coverage>>

WeatherNext ==
  \/ \E c \in Reports :
       \/ Ask(c) \/ Point(c) \/ PointTimeout(c) \/ Answered(c)
       \/ \E good \in Outcomes : Alerts(c, good) \/ \E life \in 0..PointLife : LoadedAlone(c, good, life)
       \/ \E f, o \in Statuses : Compose(c, f, o)
  \/ \E u \in pending, good \in Outcomes, life \in 0..PointLife : WeatherLoaded(u, good, life)
  \/ /\ hour = 0 /\ coverage = NoForecast /\ points = <<>> /\ \A c \in Reports : report[c] = NoReport
     /\ \E k \in 0..MaxPeriods : \E periods \in kSubset(k, Intervals), stale, missing \in BOOLEAN :
          Examine(periods, stale, missing)
  \/ Examined
  \/ WeatherTick

(***************************************************************************)
(* Properties                                                              *)
(***************************************************************************)

(* A report says what is missing: the gaps of a forecast are exactly the    *)
(* hours no period covers, and it is ok only when there are none; a report  *)
(* without alerts is never ok; no point older than its life is used; loads  *)
(* and cache stay within their caps, a waiting call always has a load.      *)
Hours(i) == i[1]..(i[2] - 1)
WeatherHonest ==
  /\ LET covered == UNION {Hours(i) : i \in coverage.periods}
         missing == UNION {Hours(g) : g \in coverage.gaps}
     IN  coverage.status # "none" =>
           /\ missing = (Now..(CoverageEnd - 1)) \ covered
           /\ coverage.status = "ok" => Now..(CoverageEnd - 1) \subseteq covered
  /\ \A c \in Reports : report[c].stage = "answered" =>
       /\ report[c].status = "ok" => report[c].alerts = "ok" /\ report[c].forecast = "ok"
       /\ report[c].status = "unavailable" => report[c].alerts = "unavailable"
       /\ report[c].point = "ok" => report[c].age <= PointLife
  /\ \A c \in Reports : report[c].stage = "asked" /\ report[c].point = "shared" => PlaceOf[c] \in pending
  /\ Len(points) <= PointCap /\ Cardinality(pending) <= PendingCap
  /\ \A i, j \in DOMAIN points : points[i].url = points[j].url => i = j
==============================================================================
