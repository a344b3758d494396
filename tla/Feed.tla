-------------------------------- MODULE Feed --------------------------------
(***************************************************************************)
(* The feed of the autonomous agent: what a completed run publishes, which *)
(* items are suppressed as repeats, how updates are linked, and the cap.   *)
(*   builder/autonomous_agent: dedupe.py, store.py append_feed_items,      *)
(*   prompt.py feed_items_from_output                                      *)
(* Texts are abstracted to tokens: two texts are similar iff equal.        *)
(***************************************************************************)
EXTENDS Naturals, Sequences, SequencesExt

CONSTANTS FeedCandidates,  \* items a run may report (see Candidate)
          Digits,      \* words of a thread key that contain a digit
          Dedupe,      \* feedDedupeEnabled
          Caps,        \* values the user may give maxFeedItems
          Window,      \* the dedupe window, in ticks
          MaxBatch,    \* items per run (two in the output contract)
          MaxItems,    \* bound on items reported in a behaviour
          MaxClock     \* bound on time

NoUrl == "nourl"
(* A change summary of fewer than 20 normalized characters is no detail.    *)
NoSummary == "none"
ShortSummary == "short"

ASSUME FeedAssumption ==
  /\ Dedupe \in BOOLEAN /\ Caps \subseteq Nat \ {0} /\ Caps # {}
  /\ {Window, MaxBatch, MaxItems, MaxClock} \subseteq Nat

VARIABLES feed,    \* retained items, the newest batch first
          stored,  \* what append_feed_items returned to the last run
          cap,     \* maxFeedItems
          nextId, clock

feedVars == <<feed, stored, cap, nextId, clock>>

(***************************************************************************)
(* dedupe.py                                                               *)
(***************************************************************************)

UrlKey(url) == <<"url:", url>>

(* The thread of an item: its explicit key, else one derived from its URL.  *)
ThreadKey(item) ==
  IF item.thread # <<>> THEN item.thread
  ELSE IF item.url # NoUrl THEN UrlKey(item.url) ELSE <<>>

(* An angle appended to an event key is the same story; another version,    *)
(* date or number is not.                                                   *)
SameKey(k, l) ==
  LET Numbers(s) == SelectSeq(s, LAMBDA word : word \in Digits)
      Extends(long, short) == /\ Len(short) >= 3 /\ IsPrefix(short, long)
                              /\ Numbers(short) = Numbers(long)
  IN  k # <<>> /\ l # <<>> /\ (k = l \/ Extends(k, l) \/ Extends(l, k))

SameThread(c, e) == SameKey(ThreadKey(c), ThreadKey(e))
SameSource(c, e) == c.url # NoUrl /\ c.url = e.url

HasUpdateDetails(c) ==
  /\ c.update /\ c.target # 0 /\ c.url # NoUrl
  /\ c.summary \notin {NoSummary, ShortSummary}

Related(c, e) ==
  SameSource(c, e) \/ SameThread(c, e) \/ (c.target # 0 /\ c.target = e.id)

(* Mutant: update details excuse a repeated text.                           *)
IsDuplicateUnlessUpdate(c, e) ==
  IF Related(c, e) THEN ~HasUpdateDetails(c)
  ELSE c.title = e.title /\ c.text = e.text

IsDuplicate(c, e) ==
  IF Related(c, e)
  THEN \/ ~HasUpdateDetails(c)
       \/ c.text = e.text
       \/ c.summary # NoSummary /\ c.summary = e.summary
  ELSE c.title = e.title /\ c.text = e.text

(* Mutant: the window excludes its last tick.                               *)
WithinWindowExclusive(e) == clock - e.created < Window

WithinWindow(e) == clock - e.created <= Window

(* Related items suppress for as long as they are retained, similar ones    *)
(* within the window; every duplicate is looked for before an update is     *)
(* accepted, and an update needs a retained item to update.                 *)
Classify(c, existing) ==
  LET Suppresses(e) == (Related(c, e) \/ WithinWindow(e)) /\ IsDuplicate(c, e)
      target == SelectSeq(existing, LAMBDA e : e.id = c.target)
      claimsUpdate == c.update \/ c.target # 0 \/ c.summary # NoSummary
  IN  CASE \E i \in DOMAIN existing : Suppresses(existing[i]) -> "duplicate"
        [] claimsUpdate /\ (target = <<>> \/ ~HasUpdateDetails(c)) -> "duplicate"
        [] claimsUpdate -> "linked_update"
        [] OTHER -> "fresh"

(* stamp_feed_item: an update joins the thread of the item it updates.      *)
Stamp(c, existing) ==
  LET target == SelectSeq(existing, LAMBDA e : e.id = c.target)
      inherited == IF target = <<>> THEN <<>> ELSE ThreadKey(Head(target))
  IN  [c EXCEPT !.thread = IF inherited # <<>> THEN inherited ELSE ThreadKey(c)]

(* dedupe_feed_items: each candidate against the batch so far and the feed. *)
FeedKept(batch) ==
  LET Keep(kept, c) ==
        IF Dedupe /\ Classify(c, kept \o feed) = "duplicate" THEN kept
        ELSE Append(kept, IF Dedupe THEN Stamp(c, kept \o feed)
                          ELSE [c EXCEPT !.thread = ThreadKey(c)])
  IN  FoldLeft(Keep, <<>>, batch)

FeedFirstOf(s, n) == SubSeq(s, 1, IF Len(s) < n THEN Len(s) ELSE n)

(***************************************************************************)
(* Actions                                                                 *)
(***************************************************************************)

FeedInit ==
  /\ feed = <<>> /\ stored = <<>> /\ cap \in Caps /\ nextId = 1 /\ clock = 0

(* feed_items_from_output gives every reported item an id and a date.       *)
Dated(c, n) == [title |-> c.title, text |-> c.text, url |-> c.url,
                thread |-> c.thread, update |-> c.update, target |-> c.target,
                summary |-> c.summary, id |-> nextId + n - 1, created |-> clock]

Batches == UNION {[1..n -> FeedCandidates] : n \in 1..MaxBatch}

(* Mutant: the run is told of items the cap cut off.                        *)
AppendFeedItemsUncut(batch) ==
  LET kept == FeedKept([n \in DOMAIN batch |-> Dated(batch[n], n)])
  IN  /\ nextId + Len(batch) - 1 <= MaxItems
      /\ feed' = IF kept = <<>> THEN feed ELSE FeedFirstOf(kept \o feed, cap)
      /\ stored' = kept
      /\ nextId' = nextId + Len(batch)
      /\ UNCHANGED <<cap, clock>>

(* append_feed_items, one atomic read-modify-write of the feed.             *)
AppendFeedItems(batch) ==
  LET kept == FeedKept([n \in DOMAIN batch |-> Dated(batch[n], n)])
  IN  /\ nextId + Len(batch) - 1 <= MaxItems
      /\ feed' = IF kept = <<>> THEN feed ELSE FeedFirstOf(kept \o feed, cap)
      /\ stored' = FeedFirstOf(kept, cap)
      /\ nextId' = nextId + Len(batch)
      /\ UNCHANGED <<cap, clock>>

(* The user changes maxFeedItems; the feed is cut at the next publication.  *)
SetCap(n) ==
  /\ cap # n /\ cap' = n
  /\ UNCHANGED <<feed, stored, nextId, clock>>

Tick ==
  /\ clock < MaxClock /\ clock' = clock + 1
  /\ UNCHANGED <<feed, stored, cap, nextId>>

FeedNext ==
  \/ \E batch \in Batches : AppendFeedItems(batch)
  \/ \E n \in Caps : SetCap(n)
  \/ Tick

FeedSpec == FeedInit /\ [][FeedNext]_feedVars

(***************************************************************************)
(* Properties                                                              *)
(***************************************************************************)

Later(i, j) == feed[i].id > feed[j].id

(* A later item about the same source or story as a retained one documents  *)
(* a change, whichever thread it was moved to by stamping; and one about the*)
(* same source also tells something new (is_duplicate, stamp_feed_item).    *)
NoRepeat ==
  Dedupe => \A i, j \in DOMAIN feed : Later(i, j) =>
    /\ SameThread(feed[i], feed[j]) => HasUpdateDetails(feed[i])
    /\ SameSource(feed[i], feed[j]) =>
         /\ HasUpdateDetails(feed[i])
         /\ feed[i].text # feed[j].text /\ feed[i].summary # feed[j].summary

(* Two items of one window never have similar title and text, though they   *)
(* differ in source, thread, or claim to be updates (classify_feed_item).   *)
NoSimilarInWindow ==
  Dedupe => \A i, j \in DOMAIN feed :
    Later(i, j) /\ feed[i].created - feed[j].created <= Window
      => ~(feed[i].title = feed[j].title /\ feed[i].text = feed[j].text)

(* What a run reports as stored is in the feed, in the same order, even when*)
(* the cap is below its batch (append_feed_items returns survivors only).   *)
StoredAreRetained ==
  [][stored' # stored /\ stored' # <<>> => IsPrefix(stored', feed')]_feedVars
=============================================================================
