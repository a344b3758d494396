----------------------------- MODULE ToolOutput -----------------------------
(***************************************************************************)
(* What of a long tool result, and of a long conversation, reaches the     *)
(* model: a preview whose exact original is kept for its user, the pages   *)
(* and searches that recover it, and the newest messages that fit.         *)
(*   builder/nat_helpers: tool_output_compaction.py,                       *)
(*                        tool_output_retriever.py, history_budget.py      *)
(***************************************************************************)
EXTENDS Naturals, FiniteSets, Sequences, FiniteSetsExt

CONSTANTS Callers,      \* users
          Results,      \* results, by content; a reference is its digest
          ResultLife,   \* cache_ttl_seconds
          RetryAfter,   \* retry_after_seconds
          MaxItems, MaxRows,       \* max_items; rows of the longest array
          MaxMarked,               \* rows with an error signal, or relevant
          ExcerptChars, WindowCap, MaxArticle, \* article_excerpt_chars, 800
          ChunkChars, MaxMatches, ContextChars, QueryLen, MaxContent, MaxText,
          MaxHistory, HistoryTokens, \* max_messages, max_tokens
          ToolResults,             \* results as they come, see Optimized
          MinChars, MaxOriginal,   \* min_chars, max_original_chars
          MinifyGain, MinSavings, MaxRatio, \* 256, min_savings_chars, percent
          MaxResultClock

VARIABLES
  originals, \* [user, result] -> time it expires, 0 when absent
  off,       \* _disabled_until of the two stores
  compact,   \* the optimization of each user under way
  shown,     \* history: previews handed out, with the time of their put
  pages,     \* the recovery of each user under way
  choice,    \* the last pure selection, with its inputs
  clock

outputVars == <<originals, off, compact, shown, pages, choice, clock>>

Lowest(k, S) == {i \in S : Cardinality({j \in S : j < i}) < k}
AtMost(a, b) == IF a < b THEN a ELSE b
Less(a, b) == IF a > b THEN a - b ELSE 0
Few(S) == {T \in SUBSET S : Cardinality(T) <= MaxMarked}

(***************************************************************************)
(* Which rows and passages a preview keeps                                 *)
(***************************************************************************)

(* Python's round of a / b, halves to even.                                 *)
Rounded(a, b) ==
  LET q == a \div b
      r == 2 * (a % b)
  IN  IF r > b \/ (r = b /\ q % 2 = 1) THEN q + 1 ELSE q

(* Adds rows in order until the budget is met.                              *)
FillTo(budget, S, more) == S \cup Lowest(Less(budget, Cardinality(S)), more \ S)

(* The first k rows by descending score, then position.                     *)
BestScored(k, score) ==
  LET hits == {i \in DOMAIN score : score[i] > 0}
  IN  {i \in hits : k > Cardinality({j \in hits :
         score[j] > score[i] \/ (score[j] = score[i] /\ j < i)})}

(* _select_indices: boundaries, failures, relevance, then an even sample.   *)
SelectIndices(count, max, signals, score) ==
  LET budget == AtMost(IF max < 1 THEN 1 ELSE max, count)
      ends   == {i \in 0..(count - 1) : i < 3 \/ i + 2 >= count}
      room   == Less(budget, Cardinality(ends))
      quota  == IF room = 0 THEN 0 ELSE IF room \div 2 < 1 THEN 1 ELSE room \div 2
      early  == Lowest(quota, signals)
      s1     == FillTo(budget, ends, early)
      left   == Less(budget, Cardinality(s1))
      s2     == s1 \cup BestScored(left, score)
      s3     == FillTo(budget, s2, signals \ early)
      rest   == Less(budget, Cardinality(s3))
      s4     == s3 \cup {AtMost(count - 1, Rounded(o * count, rest + 1)) : o \in 1..rest}
  IN  Lowest(budget, FillTo(budget, s4, 0..(count - 1)))

(* _article_preview: windows 0 .. n-1 of an article, the first and the last *)
(* kept, then the most cautionary and relevant ones that still fit.         *)
Window == AtMost(WindowCap, ExcerptChars \div 2)
Windows(len) == (len + Window - 1) \div Window
WindowSize(len, w) == AtMost(len, (w + 1) * Window) - w * Window
Excerpts(len, caution, score) ==
  LET n    == Windows(len)
      free == ExcerptChars - (WindowSize(len, 0) + WindowSize(len, n - 1))
      before(v, w) == \/ v \in caution /\ w \notin caution
                      \/ /\ v \in caution <=> w \in caution
                         /\ score[v] > score[w] \/ (score[v] = score[w] /\ v < w)
  IN  {0, n - 1} \cup {w \in 1..(n - 2) :
         Cardinality({v \in 1..(n - 2) : before(v, w)}) < free \div Window}

(***************************************************************************)
(* What a result may be exchanged for                                      *)
(***************************************************************************)

(* _parse_structured_json: JSON, alone or all that a tag or a fence wraps,  *)
(* with no flaw: it is well formed, no key occurs twice, and every number   *)
(* and text is written again as it was read.                                *)
Flaws == {"malformed", "duplicate_key", "non_finite", "lossy_number", "lone_surrogate"}
StructuredJson(d) == d.wrap \in {"none", "tag", "fence"} /\ d.flaws = {}

(* A question that needs every row: one that wants the whole, or, where the *)
(* result is not a research scrape, speaks of each.                         *)
Intents == {"sample", "each", "whole"}
Preserve(d, intent) == intent = "whole" \/ (intent = "each" /\ d.kind # "research")

(* A preview exists of long articles and of arrays with rows to leave out,  *)
(* and is used where it is much the shorter.                                *)
Previewed(d) ==
  /\ StructuredJson(d) /\ d.kind \in {"rows", "feed_article", "research"}
  /\ d.whole - d.preview >= MinSavings /\ 100 * d.preview <= MaxRatio * d.whole

Unchanged(d) == [mode |-> "unchanged", chars |-> d.whole]
Lossless(d) ==
  IF StructuredJson(d) /\ d.whole - d.minified >= MinifyGain
  THEN [mode |-> "lossless_json", chars |-> d.minified] ELSE Unchanged(d)

(* optimize_tool_content before it stores the original: what holds a        *)
(* preview already is left alone.                                           *)
Optimized(d, intent) ==
  IF d.whole = 0 \/ d.marked \/ d.whole > MaxOriginal THEN Unchanged(d)
  ELSE IF d.whole >= MinChars /\ ~Preserve(d, intent) /\ Previewed(d)
  THEN [mode |-> "reversible_preview", chars |-> d.preview] ELSE Lossless(d)

Eligible == {Optimized(d, i).mode = "reversible_preview" : d \in ToolResults, i \in Intents}

(***************************************************************************)
(* The newest messages that fit                                            *)
(***************************************************************************)

(* _select_history_payloads: first position kept of messages m (each a      *)
(* token estimate and whether its role may start a history).                *)
Tokens(m, from) == MapThenSumSet(LAMBDA i : m[i].tokens, from..Len(m))
HistoryStart(m) ==
  LET oldest == IF Len(m) > MaxHistory THEN Len(m) - MaxHistory + 1 ELSE 1
      fits   == {k \in oldest..Len(m) : k = Len(m) \/ Tokens(m, k) <= HistoryTokens}
      newest == Min(fits)
      starts == {k \in newest..Len(m) : k = Len(m) \/ m[k].starts}
  IN  Min(starts)

Messages == [tokens : 1..HistoryTokens + 1, starts : BOOLEAN]
Histories == UNION {[1..n -> Messages] : n \in 1..(MaxHistory + 1)}

(***************************************************************************)
(* Exact recovery                                                          *)
(***************************************************************************)

(* _page_content                                                            *)
Page(len, offset, max) ==
  LET from == AtMost(offset, len)
      end  == AtMost(len, from + max)
  IN  [offset |-> from, end |-> end, complete |-> end >= len, next |-> end]

(* _search_content: successive matches that do not overlap.                 *)
SearchContent(len, occurs) ==
  LET next(cursor) == {o \in occurs : o >= cursor}
      search[n \in 0..MaxMatches, cursor \in 0..(len + QueryLen)] ==
        IF n = 0 \/ next(cursor) = {} THEN [found |-> {}, cursor |-> cursor]
        ELSE LET at == Min(next(cursor))
                 tail == search[n - 1, at + QueryLen]
             IN  [found |-> {at} \cup tail.found, cursor |-> tail.cursor]
      all == search[MaxMatches, 0]
  IN  [matches |-> {[at |-> o, start |-> Less(o, ContextChars),
                     end |-> AtMost(len, o + QueryLen + ContextChars)] : o \in all.found},
       more |-> next(all.cursor) # {}]

(***************************************************************************)
(* State                                                                   *)
(***************************************************************************)

Stores == {"producer", "retriever"}  \* one ToolOutputStore object each
Idle == [stage |-> "idle"]
NoChoice == [kind |-> "none"]

OutputInit ==
  /\ originals = [u \in Callers |-> [r \in Results |-> 0]]
  /\ off = [s \in Stores |-> 0] /\ clock = 1
  /\ compact = [u \in Callers |-> Idle] /\ shown = {}
  /\ pages = [u \in Callers |-> Idle] /\ choice = NoChoice

(***************************************************************************)
(* optimize_tool_content                                                   *)
(***************************************************************************)

(* The selections a preview is made of, over every small input. They read   *)
(* nothing of the shared state, so they are examined where it is empty.     *)
Quiet ==
  /\ choice = NoChoice /\ clock = 1 /\ shown = {} /\ off = [s \in Stores |-> 0]
  /\ \A u \in Callers : compact[u] = Idle /\ pages[u] = Idle /\ \A r \in Results : originals[u][r] = 0

PreviewRows(count, signals, score) ==
  /\ count > MaxItems
  /\ choice' = [kind |-> "rows", count |-> count, signals |-> signals, score |-> score,
                picked |-> SelectIndices(count, MaxItems, signals, score)]
  /\ UNCHANGED <<originals, off, compact, shown, pages, clock>>

PreviewArticle(len, caution, score) ==
  /\ len > ExcerptChars
  /\ choice' = [kind |-> "article", len |-> len, caution |-> caution, score |-> score,
                picked |-> Excerpts(len, caution, score)]
  /\ UNCHANGED <<originals, off, compact, shown, pages, clock>>

SelectHistory(m) ==
  /\ choice' = [kind |-> "history", m |-> m, from |-> HistoryStart(m)]
  /\ UNCHANGED <<originals, off, compact, shown, pages, clock>>

PrepareResult(d, intent) ==
  /\ choice' = [kind |-> "result", result |-> d, intent |-> intent, as |-> Optimized(d, intent)]
  /\ UNCHANGED <<originals, off, compact, shown, pages, clock>>

(* A result that may become a preview is stored, unless the store is off;   *)
(* of the others nothing is kept and the content passes, at most minified.  *)
Optimize(u, r, eligible) ==
  /\ compact[u] = Idle /\ choice = NoChoice
  /\ compact' = [compact EXCEPT ![u] =
       [stage |-> IF eligible /\ clock >= off["producer"] THEN "put" ELSE "whole", result |-> r]]
  /\ UNCHANGED <<originals, off, shown, pages, choice, clock>>

(* What the caller of put does with its answer.                             *)
SettledAnyway(failed) == "preview"
Settled(failed) == IF failed THEN "whole" ELSE "preview"

(* The SET of put; a failed one may have reached Redis.                     *)
PutSet(u, written, failed) ==
  /\ compact[u].stage = "put" /\ (written \/ failed)
  /\ LET r == compact[u].result
     IN  /\ originals' = IF written THEN [originals EXCEPT ![u][r] = clock + ResultLife]
                         ELSE originals
         /\ compact' = [compact EXCEPT ![u] = [stage |-> Settled(failed), result |-> r, at |-> clock]]
  /\ off' = IF failed THEN [off EXCEPT !["producer"] = clock + RetryAfter] ELSE off
  /\ UNCHANGED <<shown, pages, choice, clock>>

OutputDeliver(u) ==
  /\ compact[u].stage \in {"preview", "whole"}
  /\ shown' = IF compact[u].stage = "whole" THEN shown
              ELSE {p \in shown : p.user # u} \cup
                   {[user |-> u, result |-> compact[u].result, at |-> compact[u].at]}
  /\ compact' = [compact EXCEPT ![u] = Idle]
  /\ UNCHANGED <<originals, off, pages, choice, clock>>

(***************************************************************************)
(* The retriever                                                           *)
(***************************************************************************)

Begun(r) == [stage |-> "get", result |-> r, offset |-> 0, seen |-> {}, again |-> FALSE, len |-> 0]

(* The model follows a reference it was shown, or one of another user.      *)
Retrieve(u, r) ==
  /\ pages[u] = Idle /\ \E p \in shown : p.result = r
  /\ pages' = [pages EXCEPT ![u] = Begun(r)]
  /\ UNCHANGED <<originals, off, compact, shown, choice, clock>>

(* store.get: nothing while the store is off; an error turns it off.        *)
Lookup(u, r) == IF clock >= off["retriever"] /\ originals[u][r] > clock THEN {r} ELSE {}

(* The next page, at the offset the last one named, in whatever size.       *)
GetPage(u, max, len, failed) ==
  /\ pages[u].stage = "get" /\ (pages[u].len \in {0, len} \/ pages[u].offset = 0)
  /\ failed => clock >= off["retriever"]
  /\ off' = IF failed THEN [off EXCEPT !["retriever"] = clock + RetryAfter] ELSE off
  /\ LET p == pages[u]
         found == ~failed /\ Lookup(u, p.result) # {}
         page == Page(len, p.offset, AtMost(max, ChunkChars))
         chars == page.offset..(page.end - 1)
     IN  pages' = [pages EXCEPT ![u] =
           IF ~found THEN [stage |-> "lost"]
           ELSE [stage |-> IF page.complete THEN "read" ELSE "get", result |-> p.result,
                 offset |-> page.next, seen |-> p.seen \cup chars,
                 again |-> p.again \/ p.seen \cap chars # {}, len |-> len]]
  /\ UNCHANGED <<originals, compact, shown, choice, clock>>

SearchResult(len, occurs) ==
  /\ choice' = [kind |-> "search", len |-> len, occurs |-> occurs,
                result |-> SearchContent(len, occurs)]
  /\ UNCHANGED <<originals, off, compact, shown, pages, clock>>

Reported ==
  /\ \/ choice # NoChoice /\ choice' = NoChoice /\ UNCHANGED pages
     \/ /\ \E u \in Callers : pages[u].stage \in {"read", "lost"} /\ pages' = [pages EXCEPT ![u] = Idle]
        /\ UNCHANGED choice
  /\ UNCHANGED <<originals, off, compact, shown, clock>>

(* Redis forgets an expired key; what was shown so long ago is settled.     *)
OutputTick ==
  /\ clock < MaxResultClock /\ choice = NoChoice /\ clock' = clock + 1
  /\ originals' = [u \in Callers |-> [r \in Results |->
                     IF originals[u][r] > clock' THEN originals[u][r] ELSE 0]]
  /\ shown' = {p \in shown : p.at + ResultLife > clock'}
  /\ UNCHANGED <<off, compact, pages, choice>>

Select ==
  \/ \E count \in (MaxItems + 1)..MaxRows :
       \E signals, hits \in Few(0..(count - 1)), top \in 0..(count - 1) :
         PreviewRows(count, signals, [i \in 0..(count - 1) |->
           IF i \in hits THEN IF i = top THEN 2 ELSE 1 ELSE 0])
  \/ \E len \in (ExcerptChars + 1)..MaxArticle :
       \E caution, hits \in SUBSET (0..(Windows(len) - 1)) :
         PreviewArticle(len, caution, [w \in 0..(Windows(len) - 1) |-> IF w \in hits THEN 1 ELSE 0])
  \/ \E m \in Histories : SelectHistory(m)
  \/ \E d \in ToolResults, intent \in Intents : PrepareResult(d, intent)
  \/ \E len \in QueryLen..MaxText : \E occurs \in SUBSET (0..(len - QueryLen)) :
       SearchResult(len, occurs)

OutputNext ==
  \/ Quiet /\ Select
  \/ \E u \in Callers :
       \/ \E r \in Results : Retrieve(u, r) \/ \E e \in Eligible : Optimize(u, r, e)
       \/ \E w, f \in BOOLEAN : PutSet(u, w, f)
       \/ OutputDeliver(u)
       \/ \E max \in 1..(ChunkChars + 1), len \in 1..MaxContent, f \in BOOLEAN : GetPage(u, max, len, f)
  \/ Reported
  \/ OutputTick

(***************************************************************************)
(* Properties                                                              *)
(***************************************************************************)

(* A preview is honest and reversible: while it may still be followed, the  *)
(* exact original is kept for its user; following the pages reads each      *)
(* character once; a finished search missed no place; and the preview       *)
(* itself has every row it has room for, both ends, the first failure and   *)
(* the best match; and no result is exchanged for one that says something   *)
(* else, is no shorter, or stands for a preview or what was asked whole.    *)
PreviewRecoverable ==
  \A p \in shown : p.at + ResultLife > clock => originals[p.user][p.result] > clock
PagesExact ==
  \A u \in Callers :
    pages[u].stage = "read" => pages[u].seen = 0..(pages[u].len - 1) /\ ~pages[u].again
SelectionFair ==
  CASE choice.kind = "rows" ->
         LET n == choice.count
             k == AtMost(MaxItems, n)
             got == choice.picked
         IN  /\ Cardinality(got) = k /\ got \subseteq 0..(n - 1)
             /\ k >= 5 => {0, 1, 2, n - 2, n - 1} \subseteq got
             /\ k >= 6 /\ choice.signals # {} => Min(choice.signals) \in got
             /\ k >= 7 => BestScored(1, choice.score) \subseteq got
    [] choice.kind = "article" ->
         LET n == Windows(choice.len)
             size == MapThenSumSet(LAMBDA w : WindowSize(choice.len, w), choice.picked)
         IN  {0, n - 1} \subseteq choice.picked /\ size <= ExcerptChars
             /\ \A w \in (0..(n - 1)) \ choice.picked : size + Window > ExcerptChars
    [] choice.kind = "history" ->
         LET m == choice.m
             from == choice.from
         IN  /\ from = Len(m) \/ (m[from].starts /\ Tokens(m, from) <= HistoryTokens)
             /\ Len(m) - from < MaxHistory
             /\ \A k \in 1..(from - 1) : m[k].starts =>
                  Len(m) - k >= MaxHistory \/ Tokens(m, k) > HistoryTokens
    [] choice.kind = "search" ->
         LET found == choice.result.matches
         IN  /\ \A x, y \in found : x.at < y.at => x.at + QueryLen <= y.at
             /\ \A x \in found : x.start <= x.at /\ x.at + QueryLen <= x.end /\ x.end <= choice.len
             /\ ~choice.result.more => \A o \in choice.occurs :
                  \E x \in found : o < x.at + QueryLen /\ x.at < o + QueryLen
    [] choice.kind = "result" ->
         LET d == choice.result
         IN  /\ choice.as.chars <= d.whole
             /\ choice.as.mode # "unchanged" => d.flaws = {} /\ choice.as.chars < d.whole
             /\ choice.as.mode = "reversible_preview" =>
                  ~d.marked /\ choice.intent # "whole" /\ 100 * choice.as.chars <= MaxRatio * d.whole
    [] OTHER -> TRUE
ToolOutputsKept == PreviewRecoverable /\ PagesExact /\ SelectionFair

=============================================================================
