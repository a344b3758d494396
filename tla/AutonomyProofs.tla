-------------------------- MODULE AutonomyProofs ---------------------------
(***************************************************************************)
(* Proofs about Autonomy, for any number of workers, requests and faults:  *)
(* a request is dispatched at most once, none is lost, overtaken or left   *)
(* running by nobody, and stale output is never written.                   *)
(*                                                                         *)
(* The invariant has three threads.  Queued, claimed and dispatched        *)
(* requests are kept apart by their phase (Once): recovery queues a claim  *)
(* again only while it says claimed, and the dispatch fence ends that.     *)
(* Requests keep their order of arrival (InOrder), which is also why no    *)
(* list names one twice.  While no lease ended under its owner, the owner  *)
(* alone works and the one open record is its own (Exclusive).             *)
(***************************************************************************)
EXTENDS Autonomy, FiniteSetTheorems, TLAPS

(***************************************************************************)
(* The inductive invariant                                                 *)
(***************************************************************************)

(* r was queued before s.                                                   *)
Before(r, s) ==
  \E i, j \in DOMAIN arrived : i < j /\ arrived[i] = r /\ arrived[j] = s

(* Requests are queued once, and what is known of a request is known of one *)
(* that was queued.                                                         *)
Arrivals ==
  /\ \A i, j \in DOMAIN arrived : arrived[i] = arrived[j] => i = j
  /\ Range(queue) \cup Range(processing) \subseteq Range(arrived)
  /\ \A w \in Workers : cur[w] # None => ~New(cur[w])
  /\ \A r \in Requests : New(r) => phase[r] = None /\ sent[r] = 0

(* Claimed requests were queued before waiting ones, each list in order.    *)
InOrder ==
  /\ \A i, j \in DOMAIN queue : i < j => Before(queue[i], queue[j])
  /\ \A i, j \in DOMAIN processing :
       i < j => Before(processing[i], processing[j])
  /\ \A i \in DOMAIN processing, j \in DOMAIN queue :
       Before(processing[i], queue[j])

(* What a worker works with at each place.                                  *)
AfterPop == {"claim", "refresh", "poison", "record", "complete"} \cup InRun
Local ==
  \A w \in Workers :
    /\ pc[w] \in AfterPop => cur[w] # None
    /\ pc[w] \in {"poison", "forget"} => cur[w] \in Poison
    /\ pc[w] \in InRun \cup {"complete"} =>
         rec[w] # 0 /\ runs[rec[w]].req = cur[w]
    /\ rec[w] # 0 => pc[w] \in InRun \cup {"complete", "release"}
    /\ pc[w] \in {"close", "complete"} => out[w] # None

(* The end of a claim: its entry, its phase, or both are removed.           *)
Removes(w) == DropPoison(w) \/ ForgetPoison(w) \/ Complete(w)

Claiming(w, r) == pc[w] = "claim" /\ cur[w] = r
Sending(w, r) == pc[w] = "send" /\ cur[w] = r
Dispatched(r) == sent[r] # 0 \/ \E w \in Workers : Sending(w, r)

(* A request that waits was not dispatched, nobody is about to write its    *)
(* phase, and recovery does not find it claimed.                            *)
WaitingFresh ==
  \A r \in Range(queue) :
    /\ phase[r] # "claimed" /\ ~Dispatched(r)
    /\ \A w \in Workers : ~Claiming(w, r)

(* The same holds between the move to the claims and the phase's write.     *)
ClaimFresh ==
  \A w \in Workers : pc[w] = "claim" =>
    /\ phase[cur[w]] # "claimed" /\ ~Dispatched(cur[w])
    /\ \A v \in Workers : Claiming(v, cur[w]) => v = w

(* A dispatched request is never found claimed: recovery does not queue it. *)
DispatchedKnown == \A r \in Requests : Dispatched(r) => phase[r] # "claimed"

(* While a worker holds the lease its claim is nobody else's.               *)
OwnClaim ==
  \A w \in Workers :
    lease = w /\ pc[w] \in {"refresh", "record", "prepare", "fence"} =>
      /\ cur[w] \notin Range(queue)
      /\ \A v \in Workers : ~Claiming(v, cur[w])

(* One worker at a time sends a request, the first time.                    *)
OneSender ==
  /\ \A r \in Requests : sent[r] # 2
  /\ \A w \in Workers : pc[w] = "send" => sent[cur[w]] = 0
  /\ \A v, w \in Workers : Sending(v, cur[w]) /\ Sending(w, cur[w]) => v = w

Once == WaitingFresh /\ ClaimFresh /\ DispatchedKnown /\ OwnClaim /\ OneSender

(* A started request has a run record, and a claim without a phase is being *)
(* written by the lease owner or was interrupted, unless it is poison.      *)
Traced ==
  /\ \A r \in Requests : phase[r] = "started" =>
       \E k \in DOMAIN runs : runs[k].req = r
  /\ \A r \in Range(processing) \ Poison : phase[r] = None =>
       \/ r \in gap
       \/ \E w \in Workers : Claiming(w, r) /\ lease = w

(* A record is one worker's, and the run of a lease owner that has yet to   *)
(* write its output is not closed as interrupted.                           *)
OwnRun ==
  /\ \A v, w \in Workers : rec[v] # 0 /\ rec[v] = rec[w] => v = w
  /\ \A w \in Workers :
       lease = w /\ pc[w] \in InRun \ {"close"} => runs[rec[w]].status # "aborted"

Running(i) == i \in DOMAIN runs /\ runs[i].status = "running"

(* A run is closed before its claim is removed.                             *)
ClosedFirst == \A w \in Workers : pc[w] = "complete" => ~Running(rec[w])

(* While no lease ended under its owner: whoever works holds the lease; once*)
(* it has recovered, the one open run is its own and its claim is there.    *)
Recovering == {"idle", "reclaim", "interrupted", "release"}
Exclusive ==
  ~lapsed => \A w \in Workers :
    /\ pc[w] # "idle" => lease = w
    /\ pc[w] \notin Recovering => \A i \in DOMAIN runs : Running(i) => i = rec[w]
    /\ pc[w] \in AfterPop =>
         cur[w] \in Range(processing)
    /\ pc[w] = "release" /\ Running(rec[w]) => processing # <<>>

IInv ==
  TypeOK /\ Arrivals /\ InOrder /\ Local /\ Once /\ Traced /\ NothingLost
    /\ OwnRun /\ ClosedFirst /\ Exclusive /\ NoGhostRun

LEMMA RankRises ==
  ASSUME NEW K, IsFiniteSet(K), K \subseteq Nat
  PROVE  /\ \A i \in K : Rank(i, K) \in 1..Cardinality(K)
         /\ \A i, j \in K : i < j => Rank(i, K) < Rank(j, K)
<1> DEFINE Upto(i) == {k \in K : k <= i}
<1>1. ASSUME NEW i \in K
      PROVE IsFiniteSet(Upto(i)) /\ Rank(i, K) \in Nat /\ Rank(i, K) <= Cardinality(K)
  <2>1. Upto(i) \in SUBSET K
    OBVIOUS
  <2>2. IsFiniteSet(Upto(i)) /\ Cardinality(Upto(i)) <= Cardinality(K)
    BY <2>1, FS_Subset
  <2>3. Cardinality(Upto(i)) \in Nat
    BY <2>2, FS_CardinalityType
  <2> QED
    BY <2>2, <2>3 DEF Rank
<1>2. Cardinality(K) \in Nat
  BY FS_CardinalityType
<1>3. ASSUME NEW i \in K PROVE Rank(i, K) # 0
  <2>1. i \in Upto(i)
    OBVIOUS
  <2> QED
    BY <1>1, <2>1, FS_EmptySet DEF Rank
<1>4. ASSUME NEW i \in K, NEW j \in K, i < j PROVE Rank(i, K) < Rank(j, K)
  <2> USE <1>4
  <2>1. i \in Nat /\ j \in Nat /\ Upto(i) \in SUBSET Upto(j)
    <3>1. \A k \in K : k \in Nat /\ (k <= i => k <= j)
      OBVIOUS
    <3> QED
      BY <3>1
  <2>2. j \in Upto(j) /\ j \notin Upto(i)
    BY <2>1
  <2>3. Cardinality(Upto(i)) <= Cardinality(Upto(j)) /\ Cardinality(Upto(j)) # Cardinality(Upto(i))
    BY <1>1, <2>1, <2>2, FS_Subset
  <2> QED
    BY <1>1, <2>3 DEF Rank
<1>5. ASSUME NEW i \in K PROVE Rank(i, K) \in 1..Cardinality(K)
  <2>1. Rank(i, K) \in Nat /\ Rank(i, K) <= Cardinality(K) /\ Rank(i, K) # 0
    BY <1>1, <1>3
  <2> QED
    BY <1>2, <2>1
<1>6. \A i, j \in K : i < j => Rank(i, K) < Rank(j, K)
  BY <1>4
<1> QED
  BY <1>5, <1>6

LEMMA RankOnto ==
  ASSUME NEW K, IsFiniteSet(K), K \subseteq Nat
  PROVE  /\ Cardinality(K) \in Nat
         /\ \A n \in 1..Cardinality(K) : \E i \in K : Rank(i, K) = n
<1> DEFINE f == [i \in K |-> Rank(i, K)]
           T == 1..Cardinality(K)
<1>1. Cardinality(K) \in Nat
  BY FS_CardinalityType
<1>2. f \in [K -> T]
  BY RankRises
<1>3. \A i, j \in K : i # j => f[i] # f[j]
  <2> SUFFICES ASSUME NEW i \in K, NEW j \in K, i # j PROVE f[i] # f[j]
    OBVIOUS
  <2>1. i < j \/ j < i
    OBVIOUS
  <2>2. Rank(i, K) < Rank(j, K) \/ Rank(j, K) < Rank(i, K)
    BY <2>1, RankRises
  <2>3. Rank(i, K) \in 1..Cardinality(K) /\ Rank(j, K) \in 1..Cardinality(K)
    BY RankRises
  <2>4. Rank(i, K) # Rank(j, K)
    BY <1>1, <2>2, <2>3
  <2> QED
    BY <2>4
<1>4. f \in Injection(K, T)
  BY <1>2, <1>3 DEF Injection, IsInjective
<1>5. IsFiniteSet(T) /\ Cardinality(T) = Cardinality(K)
  BY <1>1, FS_Interval
<1>6. f \in Surjection(K, T)
  BY <1>4, <1>5, FS_Injection
<1>7. \A n \in T : \E i \in K : f[i] = n
  BY <1>6 DEF Surjection
<1> QED
  BY <1>1, <1>7

LEMMA Subsequences ==
  ASSUME NEW S, NEW s \in Seq(S), NEW K \in SUBSET DOMAIN s
  PROVE  /\ Subsequence(s, K) \in Seq(S)
         /\ \A n \in DOMAIN Subsequence(s, K) :
              \E i \in K : Subsequence(s, K)[n] = s[i] /\ Rank(i, K) = n
         /\ \A i \in K : Rank(i, K) \in DOMAIN Subsequence(s, K)
                         /\ Subsequence(s, K)[Rank(i, K)] = s[i]
<1> DEFINE At(n) == CHOOSE i \in K : Rank(i, K) = n
           t == Subsequence(s, K)
<1>1. DOMAIN s = 1..Len(s) /\ Len(s) \in Nat
  OBVIOUS
<1>2. IsFiniteSet(K) /\ K \subseteq Nat
  <2>1. IsFiniteSet(DOMAIN s)
    BY <1>1, FS_Interval
  <2> QED
    BY <1>1, <2>1, FS_Subset
<1>3. Cardinality(K) \in Nat /\ \A n \in 1..Cardinality(K) : At(n) \in K /\ Rank(At(n), K) = n
  BY <1>2, RankOnto
<1>4. t = [n \in 1..Cardinality(K) |-> s[At(n)]]
  BY DEF Subsequence
<1> HIDE DEF t, At
<1>5. \A n \in 1..Cardinality(K) : t[n] = s[At(n)] /\ s[At(n)] \in S
  BY <1>1, <1>3, <1>4
<1>6. t \in Seq(S) /\ DOMAIN t = 1..Cardinality(K)
  BY <1>3, <1>4, <1>5
<1>7. \A i \in K : Rank(i, K) \in 1..Cardinality(K) /\ At(Rank(i, K)) = i
  <2> SUFFICES ASSUME NEW i \in K PROVE Rank(i, K) \in 1..Cardinality(K) /\ At(Rank(i, K)) = i
    OBVIOUS
  <2>1. Rank(i, K) \in 1..Cardinality(K)
    BY <1>2, RankRises
  <2>2. At(Rank(i, K)) \in K /\ Rank(At(Rank(i, K)), K) = Rank(i, K)
    BY <1>3, <2>1
  <2>3. At(Rank(i, K)) \in Nat /\ i \in Nat
    BY <1>2, <2>2
  <2>4. ~(At(Rank(i, K)) < i) /\ ~(i < At(Rank(i, K)))
    BY <1>2, <1>3, <2>1, <2>2, RankRises
  <2> QED
    BY <2>1, <2>3, <2>4
<1>8. \A n \in DOMAIN t : \E i \in K : t[n] = s[i] /\ Rank(i, K) = n
  BY <1>3, <1>5, <1>6
<1>9. \A i \in K : Rank(i, K) \in DOMAIN t /\ t[Rank(i, K)] = s[i]
  BY <1>5, <1>6, <1>7
<1> QED
  BY <1>6, <1>8, <1>9 DEF t

(* A subsequence keeps the order.                                           *)
LEMMA SubsequenceOrder ==
  ASSUME NEW S, NEW s \in Seq(S), NEW K \in SUBSET DOMAIN s,
         NEW m \in DOMAIN Subsequence(s, K), NEW n \in DOMAIN Subsequence(s, K),
         m < n
  PROVE  \E i, j \in K : /\ i < j
                         /\ Subsequence(s, K)[m] = s[i]
                         /\ Subsequence(s, K)[n] = s[j]
<1>1. PICK i \in K : Subsequence(s, K)[m] = s[i] /\ Rank(i, K) = m
  BY Subsequences
<1>2. PICK j \in K : Subsequence(s, K)[n] = s[j] /\ Rank(j, K) = n
  BY Subsequences
<1>3. IsFiniteSet(K) /\ K \subseteq Nat
  BY FS_Interval, FS_Subset
<1>4. m \in Nat /\ n \in Nat
  BY <1>1, <1>2, <1>3, RankRises
<1>5. i # j /\ ~(j < i)
  BY <1>1, <1>2, <1>3, <1>4, RankRises
<1>6. i < j
  BY <1>3, <1>5
<1> QED
  BY <1>1, <1>2, <1>6

(* What LREM leaves: the other entries, in their order.                     *)
LEMMA Removed ==
  ASSUME NEW S, NEW s \in Seq(S), NEW e,
         \A i, j \in DOMAIN s : s[i] = s[j] => i = j
  PROVE  /\ LRem(s, e) \in Seq(S)
         /\ Range(LRem(s, e)) = Range(s) \ {e}
         /\ \A m, n \in DOMAIN LRem(s, e) : m < n =>
              \E i, j \in DOMAIN s :
                i < j /\ LRem(s, e)[m] = s[i] /\ LRem(s, e)[n] = s[j]
<1> DEFINE K == {i \in DOMAIN s : s[i] = e => \E j \in 1..(i - 1) : s[j] = e}
           t == Subsequence(s, K)
<1>1. LRem(s, e) = t
  BY DEF LRem
<1>2. K \in SUBSET DOMAIN s
  OBVIOUS
<1>3. K = {i \in DOMAIN s : s[i] # e}
  <2>1. ASSUME NEW i \in DOMAIN s, s[i] = e PROVE ~ \E j \in 1..(i - 1) : s[j] = e
    <3> SUFFICES ASSUME NEW j \in 1..(i - 1), s[j] = e PROVE FALSE
      OBVIOUS
    <3>1. j \in DOMAIN s /\ j # i
      OBVIOUS
    <3> QED
      BY <2>1, <3>1
  <2> QED
    BY <2>1
<1> HIDE DEF K
<1>4. t \in Seq(S) /\ \A n \in DOMAIN t : \E i \in K : t[n] = s[i]
  BY <1>2, Subsequences
<1>5. \A i \in K : \E n \in DOMAIN t : t[n] = s[i]
  BY <1>2, Subsequences
<1>6. \A m, n \in DOMAIN t : m < n =>
        \E i, j \in K : i < j /\ t[m] = s[i] /\ t[n] = s[j]
  BY <1>2, SubsequenceOrder
<1> HIDE DEF t
<1>7. Range(t) = Range(s) \ {e}
  BY <1>3, <1>4, <1>5 DEF Range
<1> QED
  BY <1>1, <1>2, <1>4, <1>6, <1>7

LEMMA Appended ==
  ASSUME NEW S, NEW s \in Seq(S), NEW e \in S
  PROVE  /\ Append(s, e) \in Seq(S) /\ Range(Append(s, e)) = Range(s) \cup {e}
         /\ DOMAIN Append(s, e) = DOMAIN s \cup {Len(s) + 1}
<1>1. Append(s, e) \in Seq(S) /\ DOMAIN Append(s, e) = DOMAIN s \cup {Len(s) + 1}
  OBVIOUS
<1>2. Append(s, e)[Len(s) + 1] = e /\ \A i \in DOMAIN s : Append(s, e)[i] = s[i]
  OBVIOUS
<1> QED
  BY <1>1, <1>2 DEF Range

LEMMA Popped ==
  ASSUME NEW S, NEW s \in Seq(S), s # <<>>,
         \A i, j \in DOMAIN s : s[i] = s[j] => i = j
  PROVE  /\ Head(s) \in S /\ Head(s) \in Range(s)
         /\ Tail(s) \in Seq(S) /\ Range(Tail(s)) = Range(s) \ {Head(s)}
         /\ \A i \in DOMAIN Tail(s) : i + 1 \in DOMAIN s /\ Tail(s)[i] = s[i + 1]
<1>1. 1 \in DOMAIN s /\ Head(s) = s[1] /\ Tail(s) \in Seq(S)
  OBVIOUS
<1>2. \A i \in DOMAIN Tail(s) : i + 1 \in DOMAIN s /\ i + 1 # 1 /\ Tail(s)[i] = s[i + 1]
  OBVIOUS
<1>3. \A i \in DOMAIN s : i # 1 => \E j \in DOMAIN Tail(s) : Tail(s)[j] = s[i]
  <2> SUFFICES ASSUME NEW i \in DOMAIN s, i # 1
               PROVE \E j \in DOMAIN Tail(s) : Tail(s)[j] = s[i]
    OBVIOUS
  <2>1. i - 1 \in DOMAIN Tail(s) /\ Tail(s)[i - 1] = s[i]
    OBVIOUS
  <2> QED
    BY <2>1
<1>4. Head(s) \in S /\ Head(s) \in Range(s)
  BY <1>1 DEF Range
<1>5. Range(Tail(s)) = Range(s) \ {Head(s)}
  BY <1>1, <1>2, <1>3 DEF Range
<1> QED
  BY <1>1, <1>2, <1>4, <1>5

LEMMA EmptyList ==
  ASSUME NEW S, NEW s \in Seq(S) PROVE s = <<>> <=> Range(s) = {}
<1>1. s # <<>> => 1 \in DOMAIN s
  OBVIOUS
<1> QED
  BY <1>1 DEF Range

(* The queue after recovery holds the claims before the rest.               *)
LEMMA RecoveredList ==
  ASSUME TypeOK
  PROVE  /\ Recovered \in Seq(Requests)
         /\ Range(Recovered) =
              Range(queue) \cup {r \in Range(processing) : phase[r] = "claimed"}
         /\ \A m, n \in DOMAIN Recovered : m < n =>
              \/ \E i, j \in DOMAIN processing :
                   /\ i < j /\ Recovered[m] = processing[i]
                   /\ Recovered[n] = processing[j]
              \/ \E i \in DOMAIN processing, j \in DOMAIN queue :
                   Recovered[m] = processing[i] /\ Recovered[n] = queue[j]
              \/ \E i, j \in DOMAIN queue :
                   i < j /\ Recovered[m] = queue[i] /\ Recovered[n] = queue[j]
<1> DEFINE K == {i \in DOMAIN processing : phase[processing[i]] \in {"claimed"}}
           t == Subsequence(processing, K)
<1>1. processing \in Seq(Requests) /\ queue \in Seq(Requests)
      /\ K \in SUBSET DOMAIN processing
  BY DEF TypeOK
<1>2. \A i \in K : i \in DOMAIN processing /\ phase[processing[i]] = "claimed"
  OBVIOUS
<1>3. \A i \in DOMAIN processing : phase[processing[i]] = "claimed" => i \in K
  OBVIOUS
<1>4. Recovered = t \o queue
  BY DEF Recovered, ClaimsIn
<1> HIDE DEF K
<1>5. t \in Seq(Requests) /\ \A n \in DOMAIN t : \E i \in K : t[n] = processing[i]
  BY <1>1, Subsequences
<1>6. \A i \in K : \E n \in DOMAIN t : t[n] = processing[i]
  BY <1>1, Subsequences
<1>7. \A m, n \in DOMAIN t : m < n =>
        \E i, j \in K : i < j /\ t[m] = processing[i] /\ t[n] = processing[j]
  BY <1>1, SubsequenceOrder
<1> HIDE DEF t
<1>8. Recovered \in Seq(Requests)
  BY <1>1, <1>5, <1>4
<1>9. \A n \in DOMAIN Recovered :
        \/ n \in DOMAIN t /\ Recovered[n] = t[n]
        \/ /\ n \notin DOMAIN t /\ n - Len(t) \in DOMAIN queue
           /\ Recovered[n] = queue[n - Len(t)]
  BY <1>1, <1>5, <1>4
<1>10. /\ \A n \in DOMAIN t : n \in DOMAIN Recovered /\ Recovered[n] = t[n]
       /\ \A n \in DOMAIN queue : n + Len(t) \in DOMAIN Recovered
                                  /\ Recovered[n + Len(t)] = queue[n]
  BY <1>1, <1>5, <1>4
<1>11. Range(Recovered) =
         Range(queue) \cup {r \in Range(processing) : phase[r] = "claimed"}
  <2>1. ASSUME NEW x \in Range(Recovered)
        PROVE x \in Range(queue) \/ (x \in Range(processing) /\ phase[x] = "claimed")
    <3>1. PICK n \in DOMAIN Recovered : x = Recovered[n]
      BY DEF Range
    <3>2. CASE n \in DOMAIN t
      BY <1>5, <1>2, <1>9, <3>1, <3>2 DEF Range
    <3>3. CASE n \notin DOMAIN t
      BY <1>9, <3>1, <3>3 DEF Range
    <3> QED
      BY <3>2, <3>3
  <2>2. ASSUME NEW x \in Range(queue) PROVE x \in Range(Recovered)
    BY <1>10 DEF Range
  <2>3. ASSUME NEW x \in Range(processing), phase[x] = "claimed"
        PROVE x \in Range(Recovered)
    BY <1>6, <1>3, <1>10, <2>3 DEF Range
  <2> QED
    BY <2>1, <2>2, <2>3
<1>12. ASSUME NEW m \in DOMAIN Recovered, NEW n \in DOMAIN Recovered, m < n
       PROVE \/ \E i, j \in DOMAIN processing :
                  /\ i < j /\ Recovered[m] = processing[i]
                  /\ Recovered[n] = processing[j]
             \/ \E i \in DOMAIN processing, j \in DOMAIN queue :
                  Recovered[m] = processing[i] /\ Recovered[n] = queue[j]
             \/ \E i, j \in DOMAIN queue :
                  i < j /\ Recovered[m] = queue[i] /\ Recovered[n] = queue[j]
  <2>1. m \in Nat /\ n \in Nat /\ Len(t) \in Nat /\ DOMAIN t = 1..Len(t)
        /\ m >= 1 /\ n >= 1
    BY <1>5, <1>8
  <2>2. CASE n \in DOMAIN t
    <3>1. m \in DOMAIN t
      BY <1>12, <2>1, <2>2
    <3> QED
      BY <1>7, <1>2, <1>9, <1>12, <2>2, <3>1
  <2>3. CASE n \notin DOMAIN t /\ m \in DOMAIN t
    BY <1>5, <1>2, <1>9, <2>3
  <2>4. CASE n \notin DOMAIN t /\ m \notin DOMAIN t
    <3>1. m - Len(t) < n - Len(t)
      BY <1>12, <2>1
    <3> QED
      BY <1>9, <2>4, <3>1
  <2> QED
    BY <2>2, <2>3, <2>4
<1> QED
  BY <1>8, <1>11, <1>12

(* Nothing is listed twice.                                                 *)
LEMMA Distinct ==
  ASSUME TypeOK, Arrivals, InOrder
  PROVE  /\ \A i, j \in DOMAIN queue : queue[i] = queue[j] => i = j
         /\ \A i, j \in DOMAIN processing : processing[i] = processing[j] => i = j
         /\ Range(queue) \cap Range(processing) = {}
<1>1. \A r : ~Before(r, r)
  <2> SUFFICES ASSUME NEW r, NEW i \in DOMAIN arrived, NEW j \in DOMAIN arrived,
                      i < j, arrived[i] = r, arrived[j] = r
               PROVE FALSE
    BY DEF Before
  <2>1. i = j /\ i \in Nat
    BY DEF Arrivals, TypeOK
  <2> QED
    BY <2>1
<1>2. DOMAIN queue \subseteq Nat /\ DOMAIN processing \subseteq Nat
  BY DEF TypeOK
<1>3. ASSUME NEW i \in DOMAIN queue, NEW j \in DOMAIN queue, queue[i] = queue[j]
      PROVE i = j
  <2>1. ~(i < j) /\ ~(j < i)
    BY <1>1, <1>3 DEF InOrder
  <2> QED
    BY <1>2, <2>1
<1>4. ASSUME NEW i \in DOMAIN processing, NEW j \in DOMAIN processing,
             processing[i] = processing[j]
      PROVE i = j
  <2>1. ~(i < j) /\ ~(j < i)
    BY <1>1, <1>4 DEF InOrder
  <2> QED
    BY <1>2, <2>1
<1>5. ASSUME NEW x \in Range(queue) PROVE x \notin Range(processing)
  BY <1>1 DEF InOrder, Range
<1> QED
  BY <1>3, <1>4, <1>5

RunRecords == [req : Requests, status : Closed \cup {"running"}]

(* Setting the status of a run record leaves the others, and every request. *)
LEMMA StatusSet ==
  ASSUME NEW s \in Seq(RunRecords), NEW i \in DOMAIN s,
         NEW x \in Closed \cup {"running"}
  PROVE  /\ [s EXCEPT ![i].status = x] \in Seq(RunRecords)
         /\ DOMAIN [s EXCEPT ![i].status = x] = DOMAIN s
         /\ \A k \in DOMAIN s :
              /\ [s EXCEPT ![i].status = x][k].req = s[k].req
              /\ [s EXCEPT ![i].status = x][k].status =
                   IF k = i THEN x ELSE s[k].status
<1> DEFINE f == [s EXCEPT ![i].status = x]
<1>1. \A k \in DOMAIN s : s[k] \in RunRecords
  OBVIOUS
<1>2. f = [k \in DOMAIN s |-> IF k = i THEN [s[k] EXCEPT !.status = x] ELSE s[k]]
  OBVIOUS
<1>3. ASSUME NEW r \in RunRecords
      PROVE /\ [r EXCEPT !.status = x] \in RunRecords
            /\ [r EXCEPT !.status = x].req = r.req
            /\ [r EXCEPT !.status = x].status = x
  BY DEF RunRecords
<1> HIDE DEF f, RunRecords
<1>4. DOMAIN f = DOMAIN s /\ \A k \in DOMAIN s : f[k] \in RunRecords
  BY <1>1, <1>2, <1>3
<1>5. f \in Seq(RunRecords)
  BY <1>2, <1>4
<1>6. \A k \in DOMAIN s : /\ f[k].req = s[k].req
                          /\ f[k].status = IF k = i THEN x ELSE s[k].status
  BY <1>1, <1>2, <1>3
<1> QED
  BY <1>4, <1>5, <1>6 DEF f

LEMMA RunsAbandoned ==
  ASSUME NEW s \in Seq(RunRecords)
  PROVE  /\ [i \in DOMAIN s |-> Abandon(s[i])] \in Seq(RunRecords)
         /\ \A k \in DOMAIN s :
              /\ Abandon(s[k]).req = s[k].req
              /\ Abandon(s[k]).status =
                   IF s[k].status = "running" THEN "aborted" ELSE s[k].status
<1>1. \A k \in DOMAIN s : s[k] \in RunRecords
  OBVIOUS
<1>2. ASSUME NEW r \in RunRecords
      PROVE /\ Abandon(r) \in RunRecords /\ Abandon(r).req = r.req
            /\ Abandon(r).status =
                 IF r.status = "running" THEN "aborted" ELSE r.status
  BY DEF RunRecords, Abandon, Closed
<1> HIDE DEF RunRecords
<1>3. [i \in DOMAIN s |-> Abandon(s[i])] \in Seq(RunRecords)
  BY <1>1, <1>2
<1> QED
  BY <1>1, <1>2, <1>3

(***************************************************************************)
(* Types                                                                   *)
(***************************************************************************)

(* Every step keeps the types.                                              *)
LEMMA TypeStep ==
  ASSUME TypeOK, Arrivals, InOrder, Local, [Next]_vars
  PROVE TypeOK'
<1>a. Recovered \in Seq(Requests)
  BY RecoveredList
<1>b. runs \in Seq(RunRecords)
  BY DEF TypeOK, RunRecords
<1> USE BoundsAssumption
    DEF TypeOK, InRun, Closed, Goto, lists, records, redis, local, history
<1>1. ASSUME NEW r \in Requests, Enqueue(r) PROVE TypeOK'
  <2>1. queue' \in Seq(Requests) /\ arrived' \in Seq(Requests)
    BY <1>1, Appended DEF Enqueue
  <2> QED
    BY <1>1, <2>1 DEF Enqueue
<1>2. ASSUME NEW r \in Requests, Withdraw(r) PROVE TypeOK'
  <2>1. queue' \in Seq(Requests)
    BY <1>2, Distinct, Removed DEF Withdraw
  <2> QED
    BY <1>2, <2>1 DEF Withdraw
<1>3. ASSUME NEW i \in DOMAIN runs, FlagRun(i) PROVE TypeOK'
  BY <1>3
  DEF FlagRun
<1>4. ASSUME NEW i \in DOMAIN runs, StopRecord(i) PROVE TypeOK'
  <2>1. runs' \in Seq([req : Requests, status : Closed \cup {"running"}])
        /\ DOMAIN runs' = DOMAIN runs
    BY <1>4, <1>b, StatusSet DEF StopRecord, RunRecords
  <2> QED
    BY <1>4, <2>1 DEF StopRecord
<1>5. ASSUME NEW w \in Workers,
            AcquireLease(w) \/ Reclaim(w) \/ CheckOwner(w)
      PROVE TypeOK'
  BY <1>5
  DEF AcquireLease, Reclaim, CheckOwner
<1>6. ASSUME NEW w \in Workers, CleanPhases(w) PROVE TypeOK'
  BY <1>6
  DEF CleanPhases
<1>7. ASSUME NEW w \in Workers, CloseInterrupted(w) PROVE TypeOK'
  <2>1. runs' \in Seq([req : Requests, status : Closed \cup {"running"}])
        /\ DOMAIN runs' = DOMAIN runs
    BY <1>7, <1>b, RunsAbandoned DEF CloseInterrupted, RunRecords
  <2> QED
    BY <1>7, <2>1 DEF CloseInterrupted
<1>8. ASSUME NEW w \in Workers, Requeue(w) PROVE TypeOK'
  <2>a. <<>> \in Seq(Requests)
    OBVIOUS
  <2>1. queue' \in Seq(Requests) /\ processing' \in Seq(Requests)
    BY <1>8, <1>a, <2>a, Zenon DEF Requeue
  <2>2. phase' \in [Requests -> {None, "claimed", "started"}]
    BY <1>8 DEF Requeue
  <2>3. /\ UNCHANGED <<lease, records, local, stops, history, faults>>
        /\ \E x \in {"schedule", "release"} : pc' = [pc EXCEPT ![w] = x]
    BY <1>8 DEF Requeue
  <2> QED
    BY <2>1, <2>2, <2>3
<1>9. ASSUME NEW w \in Workers, Schedule(w) PROVE TypeOK'
  <2>1. \A r \in Scheduled : r \in Requests
    BY SubsetsAssumption
  <2>a. \A r \in Scheduled : Append(queue, r) \in Seq(Requests)
                           /\ Append(arrived, r) \in Seq(Requests)
    BY <2>1, Appended
  <2>2. queue' \in Seq(Requests) /\ arrived' \in Seq(Requests)
    BY <1>9, <2>a, Zenon DEF Schedule
  <2> QED
    BY <1>9, <2>2 DEF Schedule
<1>10. ASSUME NEW w \in Workers, Pop(w) PROVE TypeOK'
  <2>1. queue # <<>> => Head(queue) \in Requests /\ Tail(queue) \in Seq(Requests)
    BY Distinct, Popped
  <2>2. queue' \in Seq(Requests) /\ processing' \in Seq(Requests)
    <3>1. queue # <<>> => Append(processing, Head(queue)) \in Seq(Requests)
      BY <2>1, Appended
    <3> QED
      BY <1>10, <2>1, <3>1 DEF Pop
  <2>3. cur' \in [Workers -> Requests \cup {None}] /\ gap' \subseteq Requests
    <3>1. CASE queue = <<>>
      BY <1>10, <3>1 DEF Pop
    <3>2. CASE queue # <<>>
      <4>1. /\ cur' = [cur EXCEPT ![w] = Head(queue)]
            /\ gap' = IF lease = w THEN gap ELSE gap \cup {Head(queue)}
        BY <1>10, <3>2 DEF Pop
      <4> QED
        BY <2>1, <3>2, <4>1
    <3> QED
      BY <3>1, <3>2
  <2> QED
    BY <1>10, <2>2, <2>3 DEF Pop
<1>11. ASSUME NEW w \in Workers, Claim(w) PROVE TypeOK'
  <2>1. phase' \in [Requests -> {None, "claimed", "started"}]
    BY <1>11 DEF Claim
  <2> QED
    BY <1>11, <2>1 DEF Claim
<1>12. ASSUME NEW w \in Workers, RefreshClaim(w) \/ Removes(w) PROVE TypeOK'
  <2>1. processing' \in Seq(Requests)
    BY <1>12, Distinct, Removed DEF RefreshClaim, Removes, DropPoison, ForgetPoison, Complete
  <2>2. phase' \in [Requests -> {None, "claimed", "started"}]
    BY <1>12 DEF RefreshClaim, Removes, DropPoison, ForgetPoison, Complete
  <2> QED
    BY <1>12, <2>1, <2>2 DEF RefreshClaim, Removes, DropPoison, ForgetPoison, Complete
<1>13. ASSUME NEW w \in Workers, RecordRun(w) PROVE TypeOK'
  <2>1. cur[w] \in Requests
    BY <1>13 DEF RecordRun, Local, AfterPop
  <2>2. runs' \in Seq([req : Requests, status : Closed \cup {"running"}])
        /\ DOMAIN runs' = DOMAIN runs \cup {Len(runs) + 1}
    BY <1>13, <2>1 DEF RecordRun
  <2>3. rec' \in [Workers -> {0} \cup DOMAIN runs']
    BY <1>13, <2>2 DEF RecordRun
  <2> QED
    BY <1>13, <2>2, <2>3 DEF RecordRun
<1>14. ASSUME NEW w \in Workers,
            Prepare(w) \/ StreamEnds(w) \/ CheckResponse(w)
      PROVE TypeOK'
  <2>1. out' \in [Workers -> Closed \cup {None}]
    BY <1>14 DEF Prepare, StreamEnds, CheckResponse, Finish, Verdict
  <2> QED
    BY <1>14, <2>1 DEF Prepare, StreamEnds, CheckResponse, Finish
<1>15. ASSUME NEW w \in Workers, WriteOutput(w) PROVE TypeOK'
  <2>1. rec[w] \in DOMAIN runs
    BY <1>15 DEF WriteOutput, Local
  <2>2. fed' \subseteq DOMAIN runs /\ UNCHANGED runs
    BY <1>15, <2>1 DEF WriteOutput
  <2>3. out' \in [Workers -> Closed \cup {None}]
    BY <1>15 DEF WriteOutput, Finish
  <2> QED
    BY <1>15, <2>2, <2>3 DEF WriteOutput, Finish
<1>16. ASSUME NEW w \in Workers, Fence(w) PROVE TypeOK'
  <2>1. phase' \in [Requests -> {None, "claimed", "started"}]
    <3>1. UNCHANGED phase \/ phase' = [phase EXCEPT ![cur[w]] = "started"]
      BY <1>16 DEF Fence
    <3> QED
      BY <3>1
  <2>2. out' \in [Workers -> Closed \cup {None}]
    BY <1>16 DEF Fence, Finish
  <2> QED
    BY <1>16, <2>1, <2>2 DEF Fence, Finish
<1>17. ASSUME NEW w \in Workers, Send(w) PROVE TypeOK'
  <2>1. cur[w] \in Requests
    BY <1>17 DEF Send, Local, AfterPop
  <2>2. sent' \in [Requests -> 0..2]
    <3>1. \/ UNCHANGED sent
          \/ sent' = [sent EXCEPT ![cur[w]] = IF @ = 2 THEN 2 ELSE @ + 1]
      BY <1>17 DEF Send
    <3>2. sent[cur[w]] \in 0..2 /\ (IF sent[cur[w]] = 2 THEN 2 ELSE sent[cur[w]] + 1) \in 0..2
      BY <2>1
    <3>3. CASE sent' = [sent EXCEPT ![cur[w]] = IF @ = 2 THEN 2 ELSE @ + 1]
      BY <2>1, <3>2, <3>3
    <3> QED
      BY <3>1, <3>3
  <2>3. out' \in [Workers -> Closed \cup {None}]
    BY <1>17 DEF Send, Finish, Verdict
  <2> QED
    BY <1>17, <2>2, <2>3 DEF Send, Finish
<1>18. ASSUME NEW w \in Workers, CloseRun(w) PROVE TypeOK'
  <2>1. out[w] \in Closed /\ rec[w] \in DOMAIN runs
    BY <1>18 DEF CloseRun, Local
  <2>2. runs' \in Seq([req : Requests, status : Closed \cup {"running"}])
        /\ DOMAIN runs' = DOMAIN runs
    BY <1>18, <1>b, <2>1, StatusSet DEF CloseRun, UpsertRun, RunRecords
  <2> QED
    BY <1>18, <2>2 DEF CloseRun
<1>19. ASSUME NEW w \in Workers,
            ReleaseLease(w) \/ ReleaseFails(w)
      PROVE TypeOK'
  <2>1. faults' \in 0..MaxFaults
    BY <1>19 DEF ReleaseLease, ReleaseFails, Faulty
  <2>2. abort' \in [Workers -> BOOLEAN] /\ stopping' \in [Workers -> BOOLEAN]
    BY <1>19 DEF ReleaseLease, ReleaseFails, Reset
  <2>3. cur' \in [Workers -> Requests \cup {None}]
        /\ rec' \in [Workers -> {0} \cup DOMAIN runs]
        /\ out' \in [Workers -> Closed \cup {None}]
    BY <1>19 DEF ReleaseLease, ReleaseFails, Reset
  <2> QED
    BY <1>19, <2>1, <2>2, <2>3 DEF ReleaseLease, ReleaseFails, Reset
<1>20. ASSUME NEW w \in Workers,
            Heartbeat(w) \/ Shutdown(w) \/ HeartbeatFails(w)
      PROVE TypeOK'
  <2>1. abort' \in [Workers -> BOOLEAN] /\ stopping' \in [Workers -> BOOLEAN]
    BY <1>20 DEF Heartbeat, Shutdown, HeartbeatFails
  <2>2. faults' \in 0..MaxFaults
    BY <1>20 DEF Heartbeat, Shutdown, HeartbeatFails, Faulty
  <2> QED
    BY <1>20, <2>1, <2>2 DEF Heartbeat, Shutdown, HeartbeatFails
<1>21. ASSUME NEW w \in Workers, Crash(w) PROVE TypeOK'
  <2>1. faults' \in 0..MaxFaults
    BY <1>21 DEF Crash, Faulty
  <2>2. abort' \in [Workers -> BOOLEAN] /\ stopping' \in [Workers -> BOOLEAN]
    BY <1>21 DEF Crash, Reset
  <2>3. cur' \in [Workers -> Requests \cup {None}]
        /\ rec' \in [Workers -> {0} \cup DOMAIN runs]
        /\ out' \in [Workers -> Closed \cup {None}]
    BY <1>21 DEF Crash, Reset
  <2>4. gap' \subseteq Requests
    BY <1>21 DEF Crash, Interrupted, Local, AfterPop
  <2> QED
    BY <1>21, <2>1, <2>2, <2>3, <2>4 DEF Crash, Reset
<1>22. ASSUME NEW w \in Workers, Throw(w) PROVE TypeOK'
  <2>1. faults' \in 0..MaxFaults
    BY <1>22 DEF Throw, Faulty
  <2>2. gap' \subseteq Requests
    BY <1>22 DEF Throw, Interrupted, Local, AfterPop
  <2>3. phase' \in [Requests -> {None, "claimed", "started"}]
    BY <1>22 DEF Throw
  <2>4. out' \in [Workers -> Closed \cup {None}]
    BY <1>22 DEF Throw, Finish
  <2> QED
    BY <1>22, <2>1, <2>2, <2>3, <2>4 DEF Throw, Finish
<1>23. CASE OrphanExpires \/ LeaseLapses
  <2>1. faults' \in 0..MaxFaults
    BY <1>23 DEF OrphanExpires, LeaseLapses, Faulty
  <2>2. gap' \subseteq Requests
    BY <1>23 DEF OrphanExpires, LeaseLapses, Interrupted, Local, AfterPop
  <2> QED
    BY <1>23, <2>1, <2>2 DEF OrphanExpires, LeaseLapses
<1>24. CASE UNCHANGED vars
  BY <1>24
  DEF vars
<1> QED
  BY <1>1, <1>2, <1>3, <1>4, <1>5, <1>6, <1>7, <1>8, <1>9, <1>10, <1>11,
     <1>12, <1>13, <1>14, <1>15, <1>16, <1>17, <1>18, <1>19, <1>20, <1>21,
     <1>22, <1>23, <1>24 DEF Next, Step, Dashboard, Removes

(***************************************************************************)
(* What the actions do to the lists and to the records                     *)
(***************************************************************************)

(* A queued request is new, and joins the queue and the history.            *)
LEMMA Queued ==
  ASSUME TypeOK
  PROVE  /\ \A r \in Requests : Enqueue(r) =>
              New(r) /\ Range(queue') = Range(queue) \cup {r}
                     /\ Range(arrived') = Range(arrived) \cup {r}
                     /\ queue' = Append(queue, r) /\ arrived' = Append(arrived, r)
         /\ \A w \in Workers : Schedule(w) =>
              \/ queue' = queue /\ arrived' = arrived
              \/ \E r \in Requests :
                   New(r) /\ Range(queue') = Range(queue) \cup {r}
                          /\ Range(arrived') = Range(arrived) \cup {r}
                          /\ queue' = Append(queue, r) /\ arrived' = Append(arrived, r)
<1>1. \A r \in Requests : /\ Range(Append(queue, r)) = Range(queue) \cup {r}
                          /\ Range(Append(arrived, r)) = Range(arrived) \cup {r}
  BY Appended DEF TypeOK
<1>2. \A r \in Scheduled : r \in Requests
  BY SubsetsAssumption
<1>3. \A r \in Requests : Enqueue(r) =>
         New(r) /\ queue' = Append(queue, r) /\ arrived' = Append(arrived, r)
  BY DEF Enqueue, MayArrive
<1>4. \A w \in Workers : Schedule(w) =>
         \/ queue' = queue /\ arrived' = arrived
         \/ \E r \in Scheduled : New(r) /\ queue' = Append(queue, r)
                                        /\ arrived' = Append(arrived, r)
  BY Zenon DEF Schedule, MayArrive
<1> QED
  BY <1>1, <1>2, <1>3, <1>4, Zenon

(* A withdrawn request leaves the queue.                                    *)
LEMMA Withdrawn ==
  ASSUME TypeOK, Arrivals, InOrder, NEW r \in Requests, Withdraw(r)
  PROVE  Range(queue') = Range(queue) \ {r}
<1>1. queue \in Seq(Requests) /\ queue' = LRem(queue, r)
  BY DEF TypeOK, Withdraw
<1>2. \A i, j \in DOMAIN queue : queue[i] = queue[j] => i = j
  BY Distinct
<1> QED
  BY <1>1, <1>2, Removed

(* A claimed request moves from the queue to the claims.                    *)
LEMMA Claimed ==
  ASSUME TypeOK, Arrivals, InOrder, NEW w \in Workers, Pop(w), pc[w]' # "release"
  PROVE  /\ Head(queue) \in Range(queue) /\ Head(queue) \in Requests
         /\ Head(queue) \notin Range(processing) /\ cur' = [cur EXCEPT ![w] = Head(queue)]
         /\ Range(queue') = Range(queue) \ {Head(queue)}
         /\ Range(processing') = Range(processing) \cup {Head(queue)}
         /\ Goto(w, "claim")
         /\ gap' = IF lease = w THEN gap ELSE gap \cup {Head(queue)}
<1>1. /\ queue # <<>> /\ queue' = Tail(queue)
      /\ processing' = Append(processing, Head(queue))
      /\ cur' = [cur EXCEPT ![w] = Head(queue)] /\ Goto(w, "claim")
      /\ gap' = IF lease = w THEN gap ELSE gap \cup {Head(queue)}
  BY DEF Pop, Goto, TypeOK
<1>2. queue \in Seq(Requests) /\ processing \in Seq(Requests)
  BY DEF TypeOK
<1>3. /\ \A i, j \in DOMAIN queue : queue[i] = queue[j] => i = j
      /\ Range(queue) \cap Range(processing) = {}
  BY Distinct
<1>4. /\ Head(queue) \in Requests /\ Head(queue) \in Range(queue)
      /\ Range(Tail(queue)) = Range(queue) \ {Head(queue)}
  BY <1>1, <1>2, <1>3, Popped
<1>5. Range(Append(processing, Head(queue))) = Range(processing) \cup {Head(queue)}
  BY <1>2, <1>4, Appended
<1> QED
  BY <1>1, <1>3, <1>4, <1>5

(* Recovery leaves no claims.                                               *)
LEMMA Requeued ==
  ASSUME TypeOK, NEW w \in Workers, Requeue(w)
  PROVE  /\ lease = w =>
              /\ Range(queue') = Range(queue)
                   \cup {r \in Range(processing) : phase[r] = "claimed"}
              /\ Range(processing') = {} /\ processing' = <<>>
              /\ queue' = Recovered /\ phase' = [r \in Requests |-> None]
         /\ lease # w => UNCHANGED lists /\ Goto(w, "release")
<1>1. Range(<<>>) = {}
  BY DEF Range
<1>2. lease = w => queue' = Recovered /\ processing' = <<>>
                   /\ phase' = [r \in Requests |-> None]
  BY DEF Requeue
<1>3. Range(Recovered) =
        Range(queue) \cup {r \in Range(processing) : phase[r] = "claimed"}
  BY RecoveredList
<1>4. lease # w => UNCHANGED lists /\ Goto(w, "release")
  BY DEF Requeue
<1> QED
  BY <1>1, <1>2, <1>3, <1>4

(* What the end of a claim removes.                                         *)
LEMMA Unclaimed ==
  ASSUME TypeOK, Arrivals, InOrder, Local, NEW w \in Workers,
         RefreshClaim(w) \/ Removes(w)
  PROVE  \/ UNCHANGED <<processing, phase>>
         \/ /\ pc[w] = "poison" /\ pc[w]' = "forget" /\ cur[w] \in Poison
            /\ UNCHANGED phase
            /\ Range(processing') = Range(processing) \ {cur[w]}
            /\ processing' = LRem(processing, cur[w])
         \/ /\ pc[w] = "forget" /\ pc[w]' = "release" /\ cur[w] \in Poison
            /\ phase' = [phase EXCEPT ![cur[w]] = None] /\ UNCHANGED processing
         \/ /\ pc[w] = "complete" /\ pc[w]' = "release" /\ lease = w
            /\ phase' = [phase EXCEPT ![cur[w]] = None]
            /\ Range(processing') = Range(processing) \ {cur[w]}
            /\ processing' = LRem(processing, cur[w])
<1>1. processing \in Seq(Requests)
  BY DEF TypeOK
<1>2. \A i, j \in DOMAIN processing : processing[i] = processing[j] => i = j
  BY Distinct
<1>3. Range(LRem(processing, cur[w])) = Range(processing) \ {cur[w]}
  BY <1>1, <1>2, Removed
<1>4. CASE RefreshClaim(w)
  BY <1>4 DEF RefreshClaim, redis, lists
<1>5. CASE DropPoison(w)
  BY <1>3, <1>5 DEF DropPoison, Goto, TypeOK, Local
<1>6. CASE ForgetPoison(w)
  BY <1>6 DEF ForgetPoison, Goto, TypeOK, Local
<1>7. CASE Complete(w)
  BY <1>3, <1>7 DEF Complete, Goto, TypeOK
<1> QED
  BY <1>4, <1>5, <1>6, <1>7 DEF Removes

(* The end of a run closes its record.                                      *)
LEMMA RunClosed ==
  ASSUME TypeOK, Local, NEW w \in Workers, CloseRun(w)
  PROVE  runs'[rec[w]].status # "running"
<1>1. runs \in Seq(RunRecords)
  BY DEF TypeOK, RunRecords
<1>2. out[w] \in Closed /\ rec[w] \in DOMAIN runs /\ out[w] # "running"
  BY DEF CloseRun, Local, TypeOK, InRun, Closed
<1>3. \A k \in DOMAIN runs :
        runs'[k].status = IF k = rec[w] THEN out[w] ELSE runs[k].status
  BY <1>1, <1>2, StatusSet DEF CloseRun, UpsertRun
<1> QED
  BY <1>2, <1>3

(* A record keeps its request; it closes when its run, the user's Stop or   *)
(* the recovery closes it, and it never opens again.                        *)
LEMMA Recorded ==
  ASSUME TypeOK, Local, [Next]_vars
  PROVE  /\ DOMAIN runs \subseteq DOMAIN runs'
         /\ \A k \in DOMAIN runs : runs'[k].req = runs[k].req
         /\ \A k \in DOMAIN runs : runs'[k].status = "running" => runs[k].status = "running"
         /\ DOMAIN runs' # DOMAIN runs => \E w \in Workers : RecordRun(w)
         /\ \A k \in DOMAIN runs : runs'[k].status = "aborted" =>
              \/ runs[k].status = "aborted"
              \/ \E w \in Workers : CloseInterrupted(w) /\ lease = w
              \/ \E w \in Workers : CloseRun(w) /\ k = rec[w]
<1> DEFINE Kept == DOMAIN runs' = DOMAIN runs
                   /\ \A k \in DOMAIN runs : runs'[k].req = runs[k].req
<1>a. runs \in Seq(RunRecords)
  BY DEF TypeOK, RunRecords
<1>1. ASSUME NEW i \in DOMAIN runs, StopRecord(i)
      PROVE Kept /\ \A k \in DOMAIN runs :
                      runs'[k].status = runs[k].status \/ runs'[k].status = "cancelled"
  BY <1>a, <1>1, StatusSet DEF StopRecord, Closed
<1>2. ASSUME NEW w \in Workers, CloseInterrupted(w)
      PROVE Kept /\ \A k \in DOMAIN runs :
                      \/ runs'[k].status = runs[k].status
                      \/ runs'[k].status = "aborted" /\ lease = w
  BY <1>a, <1>2, RunsAbandoned DEF CloseInterrupted
<1>3. ASSUME NEW w \in Workers, CloseRun(w)
      PROVE Kept /\ \A k \in DOMAIN runs :
                      \/ runs'[k].status = runs[k].status
                      \/ runs'[k].status # "running" /\ k = rec[w]
  <2>1. out[w] \in Closed /\ rec[w] \in DOMAIN runs /\ out[w] # "running"
    BY <1>3 DEF CloseRun, Local, TypeOK, InRun, Closed
  <2> QED
    BY <1>a, <1>3, <2>1, StatusSet DEF CloseRun, UpsertRun
<1>4. ASSUME NEW w \in Workers, RecordRun(w)
      PROVE /\ DOMAIN runs \subseteq DOMAIN runs'
            /\ \A k \in DOMAIN runs : runs'[k] = runs[k]
  BY <1>4 DEF RecordRun, TypeOK
<1>5. CASE UNCHANGED runs
  BY <1>5
<1> QED
  <2>1. \/ UNCHANGED runs
        \/ \E w \in Workers : RecordRun(w) \/ CloseRun(w) \/ CloseInterrupted(w)
        \/ \E i \in DOMAIN runs : StopRecord(i)
    BY DEF Next, Step, Dashboard, vars, redis, records, AcquireLease, Reclaim,
         CleanPhases, Requeue, Schedule, CheckOwner, Pop, Claim, RefreshClaim,
         DropPoison, ForgetPoison,
         Prepare, Fence, Send, StreamEnds, CheckResponse, WriteOutput, Complete,
         ReleaseLease, Heartbeat, Crash, Shutdown, Throw, HeartbeatFails,
         ReleaseFails, Enqueue, Withdraw, FlagRun, OrphanExpires, LeaseLapses
  <2>2. CASE \E i \in DOMAIN runs : StopRecord(i)
    BY <1>1, <2>2
  <2>3. CASE \E w \in Workers : CloseInterrupted(w)
    BY <1>2, <2>3
  <2>4. CASE \E w \in Workers : CloseRun(w)
    BY <1>3, <2>4
  <2>5. CASE \E w \in Workers : RecordRun(w)
    BY <1>4, <2>5
  <2> QED
    BY <1>5, <2>1, <2>2, <2>3, <2>4, <2>5

(***************************************************************************)
(* Requests, their order and what workers hold                             *)
(***************************************************************************)

(* A new request is queued at the end of the history.                       *)
LEMMA ArrivesOnce ==
  ASSUME TypeOK, Arrivals, NEW r \in Requests, New(r), arrived' = Append(arrived, r)
  PROVE  /\ \A i, j \in DOMAIN arrived' : arrived'[i] = arrived'[j] => i = j
         /\ \A x, y : Before(x, y) => Before(x, y)'
         /\ \A x \in Range(arrived) : Before(x, r)'
<1>1. /\ DOMAIN arrived' = DOMAIN arrived \cup {Len(arrived) + 1}
      /\ \A i \in DOMAIN arrived : arrived'[i] = arrived[i] /\ i < Len(arrived) + 1
      /\ arrived'[Len(arrived) + 1] = r
  BY DEF TypeOK
<1>2. \A i \in DOMAIN arrived : arrived[i] # r
  BY DEF New, Range
<1>3. \A i, j \in DOMAIN arrived' : arrived'[i] = arrived'[j] => i = j
  BY <1>1, <1>2 DEF Arrivals
<1>4. \A x, y : Before(x, y) => Before(x, y)'
  BY <1>1 DEF Before
<1>5. \A x \in Range(arrived) : Before(x, r)'
  BY <1>1 DEF Before, Range
<1> QED
  BY <1>3, <1>4, <1>5

(* Requests are queued once.                                                *)
LEMMA ArrivalsStep ==
  ASSUME TypeOK, Arrivals, InOrder, Local, [Next]_vars
  PROVE Arrivals'
<1> USE DEF Arrivals, New, TypeOK, InRun, Goto, lists, records, redis, local, history
<1>1. ASSUME NEW r \in Requests, Enqueue(r) PROVE Arrivals'
  <2>1. New(r) /\ arrived' = Append(arrived, r)
        /\ Range(queue') = Range(queue) \cup {r}
        /\ Range(arrived') = Range(arrived) \cup {r}
    BY <1>1, Queued
  <2>2. \A i, j \in DOMAIN arrived' : arrived'[i] = arrived'[j] => i = j
    BY <2>1, ArrivesOnce DEF Arrivals
  <2> QED
    BY <1>1, <2>1, <2>2 DEF Enqueue
<1>2. ASSUME NEW r \in Requests, Withdraw(r) PROVE Arrivals'
  <2>1. Range(queue') = Range(queue) \ {r}
    BY <1>2, Withdrawn
  <2> QED
    BY <1>2, <2>1 DEF Withdraw
<1>3. ASSUME NEW i \in DOMAIN runs, FlagRun(i) PROVE Arrivals'
  BY <1>3
  DEF FlagRun
<1>4. ASSUME NEW i \in DOMAIN runs, StopRecord(i) PROVE Arrivals'
  BY <1>4
  DEF StopRecord
<1>5. ASSUME NEW w \in Workers,
            AcquireLease(w) \/ Reclaim(w) \/ CheckOwner(w)
            \/ CloseInterrupted(w)
      PROVE Arrivals'
  BY <1>5
  DEF AcquireLease, Reclaim, CheckOwner, CloseInterrupted
<1>6. ASSUME NEW w \in Workers, CleanPhases(w) PROVE Arrivals'
  BY <1>6
  DEF CleanPhases
<1>7. ASSUME NEW w \in Workers, Requeue(w) PROVE Arrivals'
  <2>1. CASE lease = w
    BY <1>7, <2>1, Requeued DEF Requeue
  <2>2. CASE lease # w
    BY <1>7, <2>2 DEF Requeue
  <2> QED
    BY <2>1, <2>2
<1>8. ASSUME NEW w \in Workers, Schedule(w) PROVE Arrivals'
  <2>1. CASE queue' = queue /\ arrived' = arrived
    BY <1>8, <2>1 DEF Schedule
  <2>2. ASSUME NEW r \in Requests, New(r), arrived' = Append(arrived, r),
               Range(queue') = Range(queue) \cup {r},
               Range(arrived') = Range(arrived) \cup {r}
        PROVE Arrivals'
    <3>1. \A i, j \in DOMAIN arrived' : arrived'[i] = arrived'[j] => i = j
      BY <2>2, ArrivesOnce DEF Arrivals
    <3> QED
      BY <1>8, <2>2, <3>1 DEF Schedule
  <2> QED
    BY <1>8, <2>1, <2>2, Queued
<1>9. ASSUME NEW w \in Workers, Pop(w) PROVE Arrivals'
  <2>1. CASE pc[w]' = "release"
    BY <1>9, <2>1 DEF Pop
  <2>2. CASE pc[w]' # "release"
    <3>1. /\ Head(queue) \in Range(queue) /\ Head(queue) \in Requests
          /\ cur' = [cur EXCEPT ![w] = Head(queue)]
          /\ Range(queue') = Range(queue) \ {Head(queue)}
          /\ Range(processing') = Range(processing) \cup {Head(queue)}
      BY <1>9, <2>2, Claimed
    <3> QED
      BY <1>9, <3>1 DEF Pop
  <2> QED
    BY <2>1, <2>2
<1>10. ASSUME NEW w \in Workers, Claim(w) PROVE Arrivals'
  <2>1. cur[w] # None
    BY <1>10 DEF Claim, Local, AfterPop
  <2> QED
    BY <1>10, <2>1 DEF Claim
<1>11. ASSUME NEW w \in Workers, RefreshClaim(w) \/ Removes(w) PROVE Arrivals'
  <2>1. Range(processing') \subseteq Range(processing)
    BY <1>11, Unclaimed
  <2> QED
    BY <1>11, <2>1 DEF RefreshClaim, Removes, DropPoison, ForgetPoison, Complete
<1>12. ASSUME NEW w \in Workers, RecordRun(w) PROVE Arrivals'
  BY <1>12
  DEF RecordRun
<1>13. ASSUME NEW w \in Workers,
            Prepare(w) \/ StreamEnds(w) \/ CheckResponse(w)
      PROVE Arrivals'
  BY <1>13
  DEF Prepare, StreamEnds, CheckResponse, Finish
<1>14. ASSUME NEW w \in Workers, WriteOutput(w) PROVE Arrivals'
  BY <1>14
  DEF WriteOutput, Finish
<1>15. ASSUME NEW w \in Workers, Fence(w) PROVE Arrivals'
  <2>1. cur[w] # None
    BY <1>15 DEF Fence, Local, AfterPop
  <2> QED
    BY <1>15, <2>1 DEF Fence
<1>16. ASSUME NEW w \in Workers, Send(w) PROVE Arrivals'
  <2>1. cur[w] # None
    BY <1>16 DEF Send, Local, AfterPop
  <2> QED
    BY <1>16, <2>1 DEF Send
<1>17. ASSUME NEW w \in Workers, CloseRun(w) PROVE Arrivals'
  BY <1>17
  DEF CloseRun, UpsertRun
<1>18. ASSUME NEW w \in Workers,
            ReleaseLease(w) \/ ReleaseFails(w)
      PROVE Arrivals'
  BY <1>18
  DEF ReleaseLease, ReleaseFails, Reset, Faulty
<1>19. ASSUME NEW w \in Workers,
            Heartbeat(w) \/ Shutdown(w) \/ HeartbeatFails(w)
      PROVE Arrivals'
  BY <1>19
  DEF Heartbeat, Shutdown, HeartbeatFails, Faulty
<1>20. ASSUME NEW w \in Workers, Crash(w) PROVE Arrivals'
  BY <1>20
  DEF Crash, Reset, Interrupted, Faulty
<1>21. ASSUME NEW w \in Workers, Throw(w) PROVE Arrivals'
  <2>1. pc[w] = "fence" => cur[w] # None
    BY <1>21 DEF Local, AfterPop
  <2> QED
    BY <1>21, <2>1 DEF Throw
<1>22. CASE OrphanExpires \/ LeaseLapses
  BY <1>22
  DEF OrphanExpires, LeaseLapses, Interrupted, Faulty
<1>23. CASE UNCHANGED vars
  BY <1>23
  DEF vars
<1> QED
  BY <1>1, <1>2, <1>3, <1>4, <1>5, <1>6, <1>7, <1>8, <1>9, <1>10, <1>11,
     <1>12, <1>13, <1>14, <1>15, <1>16, <1>17, <1>18, <1>19, <1>20, <1>21,
     <1>22, <1>23 DEF Next, Step, Dashboard, Removes

(* What workers hold at each place.                                         *)
LEMMA LocalStep ==
  ASSUME TypeOK, Arrivals, InOrder, Local, [Next]_vars
  PROVE Local'
<1>a. \A k \in DOMAIN runs : runs'[k].req = runs[k].req
  BY Recorded
<1> USE <1>a
    DEF Local, AfterPop, TypeOK, InRun, Goto, lists, records, redis, local,
         history
<1>1. ASSUME NEW r \in Requests, Enqueue(r) PROVE Local'
  BY <1>1
  DEF Enqueue
<1>2. ASSUME NEW r \in Requests, Withdraw(r) PROVE Local'
  BY <1>2
  DEF Withdraw
<1>3. ASSUME NEW i \in DOMAIN runs, FlagRun(i) PROVE Local'
  BY <1>3
  DEF FlagRun
<1>4. ASSUME NEW i \in DOMAIN runs, StopRecord(i) PROVE Local'
  BY <1>4
  DEF StopRecord
<1>5. ASSUME NEW w \in Workers,
            AcquireLease(w) \/ Reclaim(w) \/ CheckOwner(w)
      PROVE Local'
  <2>1. CASE AcquireLease(w)
    BY <2>1 DEF AcquireLease
  <2>2. CASE Reclaim(w)
    BY <2>2 DEF Reclaim
  <2>3. CASE CheckOwner(w)
    BY <2>3 DEF CheckOwner
  <2> QED
    BY <1>5, <2>1, <2>2, <2>3
<1>6. ASSUME NEW w \in Workers, CleanPhases(w) PROVE Local'
  BY <1>6
  DEF CleanPhases
<1>7. ASSUME NEW w \in Workers, CloseInterrupted(w) PROVE Local'
  BY <1>7
  DEF CloseInterrupted
<1>8. ASSUME NEW w \in Workers, Requeue(w) PROVE Local'
  BY <1>8
  DEF Requeue
<1>9. ASSUME NEW w \in Workers, Schedule(w) PROVE Local'
  BY <1>9
  DEF Schedule
<1>10. ASSUME NEW w \in Workers, Pop(w) PROVE Local'
  <2>1. CASE pc[w]' = "release"
    BY <1>10, <2>1 DEF Pop
  <2>2. CASE pc[w]' # "release"
    <3>1. /\ Head(queue) \in Requests /\ cur' = [cur EXCEPT ![w] = Head(queue)]
          /\ pc' = [pc EXCEPT ![w] = "claim"]
      BY <1>10, <2>2, Claimed
    <3> QED
      BY <1>10, <3>1, NamesAssumption DEF Pop
  <2> QED
    BY <2>1, <2>2
<1>11. ASSUME NEW w \in Workers, Claim(w) PROVE Local'
  BY <1>11
  DEF Claim
<1>12. ASSUME NEW w \in Workers, RefreshClaim(w) \/ Removes(w) PROVE Local'
  BY <1>12
  DEF RefreshClaim, Removes, DropPoison, ForgetPoison, Complete
<1>13. ASSUME NEW w \in Workers, RecordRun(w) PROVE Local'
  <2>1. DOMAIN runs' = DOMAIN runs \cup {Len(runs) + 1} /\ Len(runs) + 1 # 0
        /\ runs'[Len(runs) + 1].req = cur[w]
    BY <1>13 DEF RecordRun
  <2> QED
    BY <1>13, <2>1 DEF RecordRun
<1>14. ASSUME NEW w \in Workers,
            Prepare(w) \/ StreamEnds(w) \/ CheckResponse(w)
      PROVE Local'
  BY <1>14
  DEF Prepare, StreamEnds, CheckResponse, Finish, Closed, None, Verdict
<1>15. ASSUME NEW w \in Workers, WriteOutput(w) PROVE Local'
  BY <1>15
  DEF WriteOutput, Finish, Closed, None
<1>16. ASSUME NEW w \in Workers, Fence(w) PROVE Local'
  BY <1>16
  DEF Fence, Finish, Closed, None
<1>17. ASSUME NEW w \in Workers, Send(w) PROVE Local'
  BY <1>17
  DEF Send, Finish, Closed, None, Verdict
<1>18. ASSUME NEW w \in Workers, CloseRun(w) PROVE Local'
  BY <1>18
  DEF CloseRun, UpsertRun
<1>19. ASSUME NEW w \in Workers, ReleaseLease(w) \/ ReleaseFails(w) PROVE Local'
  BY <1>19
  DEF ReleaseLease, ReleaseFails, Reset, Faulty
<1>20. ASSUME NEW w \in Workers,
            Heartbeat(w) \/ Shutdown(w) \/ HeartbeatFails(w)
      PROVE Local'
  BY <1>20
  DEF Heartbeat, Shutdown, HeartbeatFails, Faulty
<1>21. ASSUME NEW w \in Workers, Crash(w) PROVE Local'
  BY <1>21
  DEF Crash, Reset, Interrupted, Faulty
<1>22. ASSUME NEW w \in Workers, Throw(w) PROVE Local'
  <2>1. /\ UNCHANGED <<cur, rec, runs>>
        /\ \/ pc' = [pc EXCEPT ![w] = "release"] /\ UNCHANGED out
           \/ /\ pc[w] \in {"prepare", "fence", "send", "check", "output", "close",
                            "complete"}
              /\ pc' = [pc EXCEPT ![w] = "close"]
              /\ \E x \in Closed : out' = [out EXCEPT ![w] = x]
    BY <1>22 DEF Throw, Finish, Closed
  <2>2. None \notin Closed
    BY DEF None, Closed
  <2> QED
    BY <2>1, <2>2
<1>23. CASE OrphanExpires \/ LeaseLapses
  BY <1>23
  DEF OrphanExpires, LeaseLapses, Interrupted, Faulty
<1>24. CASE UNCHANGED vars
  BY <1>24
  DEF vars
<1> QED
  BY <1>1, <1>2, <1>3, <1>4, <1>5, <1>6, <1>7, <1>8, <1>9, <1>10, <1>11,
     <1>12, <1>13, <1>14, <1>15, <1>16, <1>17, <1>18, <1>19, <1>20, <1>21,
     <1>22, <1>23, <1>24 DEF Next, Step, Dashboard, Removes

(* The end of a list keeps its place in the order.                          *)
LEMMA OrderedEnd ==
  ASSUME TypeOK, Arrivals, InOrder, NEW r \in Requests, New(r),
         queue' = Append(queue, r), arrived' = Append(arrived, r), UNCHANGED processing
  PROVE  InOrder'
<1>1. /\ \A x, y : Before(x, y) => Before(x, y)'
      /\ \A x \in Range(arrived) : Before(x, r)'
  BY ArrivesOnce
<1>2. /\ DOMAIN queue' = DOMAIN queue \cup {Len(queue) + 1} /\ queue'[Len(queue) + 1] = r
      /\ \A i \in DOMAIN queue : queue'[i] = queue[i] /\ i < Len(queue) + 1
      /\ DOMAIN queue \subseteq Nat /\ Len(queue) \in Nat
  BY DEF TypeOK
<1>3. /\ \A i \in DOMAIN queue : Before(queue[i], r)'
      /\ \A i \in DOMAIN processing : Before(processing[i], r)'
  <2>1. /\ \A i \in DOMAIN queue : queue[i] \in Range(queue)
        /\ \A i \in DOMAIN processing : processing[i] \in Range(processing)
    BY DEF Range
  <2> QED
    BY <1>1, <2>1 DEF Arrivals
<1>4. ASSUME NEW i \in DOMAIN queue', NEW j \in DOMAIN queue', i < j
      PROVE Before(queue[i], queue[j])'
  <2>1. i \in DOMAIN queue
    BY <1>2, <1>4
  <2>2. CASE j \in DOMAIN queue
    <3>1. Before(queue[i], queue[j])
      BY <1>4, <2>1, <2>2 DEF InOrder
    <3>2. \A x, y : x = queue[i] /\ y = queue[j] => Before(x, y)'
      BY <1>1, <3>1
    <3> QED
      BY <1>2, <2>1, <2>2, <3>2 DEF Before
  <2>3. CASE j \notin DOMAIN queue
    BY <1>2, <1>3, <2>1, <2>3 DEF Before
  <2> QED
    BY <2>2, <2>3
<1>5. ASSUME NEW i \in DOMAIN processing', NEW j \in DOMAIN processing', i < j
      PROVE Before(processing[i], processing[j])'
  BY <1>1, <1>5 DEF InOrder, Before
<1>6. ASSUME NEW i \in DOMAIN processing', NEW j \in DOMAIN queue'
      PROVE Before(processing[i], queue[j])'
  <2>1. i \in DOMAIN processing /\ processing'[i] = processing[i]
    OBVIOUS
  <2>2. CASE j \in DOMAIN queue
    <3>1. Before(processing[i], queue[j])
      BY <2>1, <2>2 DEF InOrder
    <3>2. \A x, y : x = processing[i] /\ y = queue[j] => Before(x, y)'
      BY <1>1, <3>1
    <3> QED
      BY <1>2, <2>1, <2>2, <3>2 DEF Before
  <2>3. CASE j \notin DOMAIN queue
    <3>1. j = Len(queue) + 1 /\ queue'[j] = r
      BY <1>2, <1>6, <2>3
    <3> QED
      BY <1>3, <2>1, <3>1 DEF Before
  <2> QED
    BY <2>2, <2>3
<1> QED
  BY <1>4, <1>5, <1>6 DEF InOrder

(* Every step keeps the order of arrival.                                   *)
LEMMA InOrderStep ==
  ASSUME TypeOK, Arrivals, InOrder, Local, [Next]_vars
  PROVE InOrder'
<1>1. ASSUME NEW r \in Requests, Enqueue(r) PROVE InOrder'
  BY <1>1, Queued, OrderedEnd DEF Enqueue
<1>2. ASSUME NEW r \in Requests, Withdraw(r) PROVE InOrder'
  <2>1. queue \in Seq(Requests) /\ queue' = LRem(queue, r)
        /\ UNCHANGED <<processing, arrived>>
    BY <1>2 DEF TypeOK, Withdraw
  <2>2. \A i, j \in DOMAIN queue : queue[i] = queue[j] => i = j
    BY Distinct
  <2>3. /\ \A m, n \in DOMAIN queue' : m < n => \E i, j \in DOMAIN queue :
             i < j /\ queue'[m] = queue[i] /\ queue'[n] = queue[j]
        /\ Range(queue') \subseteq Range(queue)
    BY <2>1, <2>2, Removed
  <2>4. \A n \in DOMAIN queue' : \E j \in DOMAIN queue : queue'[n] = queue[j]
    BY <2>3 DEF Range
  <2>5. /\ \A i, j \in DOMAIN queue' : i < j => Before(queue'[i], queue'[j])
        /\ \A i \in DOMAIN processing, j \in DOMAIN queue' :
             Before(processing[i], queue'[j])
    BY <2>3, <2>4 DEF InOrder
  <2> QED
    BY <2>1, <2>5 DEF InOrder, Before
<1>3. ASSUME NEW i \in DOMAIN runs, FlagRun(i) PROVE InOrder'
  BY <1>3
  DEF FlagRun, InOrder, Before, lists, records, redis, local, history
<1>4. ASSUME NEW i \in DOMAIN runs, StopRecord(i) PROVE InOrder'
  BY <1>4
  DEF StopRecord, InOrder, Before, lists, records, redis, local, history
<1>5. ASSUME NEW w \in Workers,
            AcquireLease(w) \/ Reclaim(w) \/ CheckOwner(w)
            \/ CleanPhases(w) \/ CloseInterrupted(w) \/ Claim(w)
            \/ RecordRun(w) \/ Prepare(w) \/ StreamEnds(w)
            \/ CheckResponse(w) \/ WriteOutput(w) \/ Fence(w) \/ Send(w)
            \/ CloseRun(w) \/ ReleaseLease(w) \/ ReleaseFails(w)
            \/ Heartbeat(w) \/ Shutdown(w) \/ HeartbeatFails(w) \/ Crash(w)
            \/ Throw(w)
      PROVE InOrder'
  BY <1>5
  DEF AcquireLease, Reclaim, CheckOwner, CleanPhases, CloseInterrupted, Claim,
      RecordRun, Prepare, StreamEnds, CheckResponse, Finish, WriteOutput,
      Fence, Send, CloseRun, UpsertRun, ReleaseLease, ReleaseFails, Reset,
      Faulty, Heartbeat, Shutdown, HeartbeatFails, Crash, Interrupted, Throw,
      InOrder, Before, lists, records, redis, local, history
<1>6. ASSUME NEW w \in Workers, Requeue(w) PROVE InOrder'
  <2>1. UNCHANGED arrived
    BY <1>6 DEF Requeue, history
  <2>2. CASE lease = w
    <3>1. queue' = Recovered /\ processing' = <<>>
      BY <1>6, <2>2, Requeued
    <3>2. \A m, n \in DOMAIN Recovered : m < n => Before(Recovered[m], Recovered[n])
      BY RecoveredList DEF InOrder
    <3>3. DOMAIN processing' = {}
      BY <3>1
    <3> QED
      BY <2>1, <3>1, <3>2, <3>3 DEF InOrder, Before
  <2>3. CASE lease # w
    BY <1>6, <2>1, <2>3, Requeued DEF InOrder, Before, lists
  <2> QED
    BY <2>2, <2>3
<1>7. ASSUME NEW w \in Workers, Schedule(w) PROVE InOrder'
  <2>1. CASE queue' = queue /\ arrived' = arrived
    BY <1>7, <2>1 DEF Schedule, InOrder, Before
  <2>2. ASSUME NEW r \in Requests, New(r), arrived' = Append(arrived, r),
               queue' = Append(queue, r)
        PROVE InOrder'
    BY <1>7, <2>2, OrderedEnd DEF Schedule
  <2> QED
    BY <1>7, <2>1, <2>2, Queued
<1>8. ASSUME NEW w \in Workers, Pop(w) PROVE InOrder'
  <2>1. UNCHANGED arrived
    BY <1>8 DEF Pop
  <2>2. CASE queue = <<>>
    BY <1>8, <2>1, <2>2 DEF Pop, InOrder, Before
  <2>3. CASE queue # <<>>
    <3>1. queue' = Tail(queue) /\ processing' = Append(processing, Head(queue))
      BY <1>8, <2>3 DEF Pop
    <3>2. /\ 1 \in DOMAIN queue /\ Head(queue) = queue[1]
          /\ \A i \in DOMAIN queue' :
               i \in Nat /\ i + 1 \in DOMAIN queue /\ 1 < i + 1 /\ queue'[i] = queue[i + 1]
      BY <2>3, <3>1 DEF TypeOK
    <3>3. /\ DOMAIN processing' = DOMAIN processing \cup {Len(processing) + 1}
          /\ processing'[Len(processing) + 1] = queue[1]
          /\ \A i \in DOMAIN processing :
               i \in Nat /\ processing'[i] = processing[i] /\ i < Len(processing) + 1
      BY <3>1, <3>2 DEF TypeOK
    <3>4. \A i, j \in DOMAIN queue' : i < j => Before(queue'[i], queue'[j])
      <4>1. \A i, j \in DOMAIN queue' : i < j => i + 1 < j + 1
        BY <3>2
      <4> QED
        BY <3>2, <4>1 DEF InOrder
    <3>5. \A i, j \in DOMAIN processing' : i < j => Before(processing'[i], processing'[j])
      <4>1. \A i, j \in DOMAIN processing' : i < j => i \in DOMAIN processing
        BY <3>3 DEF TypeOK
      <4> QED
        BY <3>2, <3>3, <4>1 DEF InOrder
    <3>6. \A i \in DOMAIN processing', j \in DOMAIN queue' : Before(processing'[i], queue'[j])
      BY <3>2, <3>3 DEF InOrder
    <3> QED
      BY <2>1, <3>4, <3>5, <3>6 DEF InOrder, Before
  <2> QED
    BY <2>2, <2>3
<1>9. ASSUME NEW w \in Workers, RefreshClaim(w) \/ Removes(w) PROVE InOrder'
  <2>1. processing \in Seq(Requests) /\ UNCHANGED <<queue, arrived>>
    BY <1>9 DEF TypeOK, RefreshClaim, Removes, DropPoison, ForgetPoison, Complete,
         redis, lists, history
  <2>2. \A i, j \in DOMAIN processing : processing[i] = processing[j] => i = j
    BY Distinct
  <2>3. CASE UNCHANGED processing
    BY <2>1, <2>3 DEF InOrder, Before
  <2>4. CASE processing' = LRem(processing, cur[w])
    <3>1. /\ \A m, n \in DOMAIN processing' : m < n => \E i, j \in DOMAIN processing :
               i < j /\ processing'[m] = processing[i] /\ processing'[n] = processing[j]
          /\ Range(processing') \subseteq Range(processing)
      BY <2>1, <2>2, <2>4, Removed
    <3>2. \A n \in DOMAIN processing' :
            \E i \in DOMAIN processing : processing'[n] = processing[i]
      BY <3>1 DEF Range
    <3>3. /\ \A i, j \in DOMAIN processing' :
               i < j => Before(processing'[i], processing'[j])
          /\ \A i \in DOMAIN processing', j \in DOMAIN queue :
               Before(processing'[i], queue[j])
      BY <3>1, <3>2 DEF InOrder
    <3> QED
      BY <2>1, <3>3 DEF InOrder, Before
  <2> QED
    BY <1>9, <2>3, <2>4, Unclaimed
<1>10. CASE OrphanExpires \/ LeaseLapses
  BY <1>10
  DEF OrphanExpires, LeaseLapses, Interrupted, Faulty, InOrder, Before, lists,
      records, redis, local, history
<1>11. CASE UNCHANGED vars
  BY <1>11
  DEF vars, InOrder, Before, lists, records, redis, local, history
<1> QED
  BY <1>1, <1>2, <1>3, <1>4, <1>5, <1>6, <1>7, <1>8, <1>9, <1>10, <1>11 DEF Next, Step, Dashboard, Removes

(***************************************************************************)
(* A request is dispatched once                                            *)
(***************************************************************************)

(* The steps of a worker that neither pop nor fence: they queue and send    *)
(* nothing, claim nothing, and hold no claim that was not held.             *)
Held == {"refresh", "record", "prepare", "fence"}

QuietMove(w, x) ==
  /\ pc' = [pc EXCEPT ![w] = x] /\ x \notin {"claim", "send"}
  /\ x \in Held => pc[w] \in Held /\ cur'[w] = cur[w]
  /\ \A v \in Workers \ {w} : cur'[v] = cur[v]
  /\ UNCHANGED <<queue, sent>>
  /\ \A r \in Requests : phase'[r] = "claimed" => phase[r] = "claimed"
  /\ \A v \in Workers : lease' = v /\ lease # v => v = w /\ x \notin Held

LEMMA OnceMoves ==
  ASSUME TypeOK, Local, Once, NEW w \in Workers, NEW x, QuietMove(w, x)
  PROVE  Once'
<1> USE DEF QuietMove
<1>a. \A r \in Range(queue) : r \in Requests
  BY DEF Range, TypeOK
<1>b. \A v \in Workers : pc[v] \in AfterPop => cur[v] \in Requests
  BY DEF Local, TypeOK
<1>c. \A v \in Workers : pc'[v] = IF v = w THEN x ELSE pc[v]
  BY DEF TypeOK
<1>1. /\ \A v \in Workers, r \in Requests : Claiming(v, r)' => Claiming(v, r)
      /\ \A v \in Workers, r \in Requests : Sending(v, r)' => Sending(v, r)
      /\ \A r \in Requests : Dispatched(r)' => Dispatched(r)
  BY <1>c DEF Claiming, Sending, Dispatched
<1>2. WaitingFresh'
  BY <1>a, <1>1 DEF Once, WaitingFresh
<1>3. ClaimFresh'
  <2> SUFFICES ASSUME NEW v \in Workers, pc'[v] = "claim"
               PROVE /\ phase'[cur'[v]] # "claimed" /\ ~Dispatched(cur[v])'
                     /\ \A u \in Workers : Claiming(u, cur[v])' => u = v
    BY DEF ClaimFresh
  <2>1. pc[v] = "claim" /\ cur'[v] = cur[v] /\ cur[v] \in Requests
    BY <1>b, <1>c DEF AfterPop
  <2>2. /\ phase[cur[v]] # "claimed" /\ ~Dispatched(cur[v])
        /\ \A u \in Workers : Claiming(u, cur[v]) => u = v
    BY <2>1 DEF Once, ClaimFresh
  <2>3. phase'[cur'[v]] # "claimed"
    BY <2>1, <2>2
  <2>4. ~Dispatched(cur[v])'
    BY <1>c, <2>1, <2>2 DEF Dispatched, Sending
  <2>5. \A u \in Workers : Claiming(u, cur[v])' => u = v
    BY <1>c, <2>1, <2>2 DEF Claiming
  <2> QED
    BY <2>3, <2>4, <2>5
<1>4. DispatchedKnown'
  BY <1>1 DEF Once, DispatchedKnown
<1>5. OwnClaim'
  BY <1>b, <1>c DEF Once, OwnClaim, Claiming, Held
<1>6. OneSender'
  BY <1>b, <1>c DEF Once, OneSender, Sending
<1> QED
  BY <1>2, <1>3, <1>4, <1>5, <1>6 DEF Once

(* Every step keeps dispatched and waiting requests apart.                  *)
LEMMA OnceStep ==
  ASSUME TypeOK, Arrivals, InOrder, Local, Once, [Next]_vars
  PROVE Once'
<1>a. \A r \in Range(queue) \cup Range(processing) : r \in Requests
  BY DEF Range, TypeOK
<1>b. \A w \in Workers : pc[w] \in AfterPop => cur[w] \in Requests
  BY DEF Local, TypeOK
<1>1. ASSUME NEW r \in Requests, Enqueue(r) PROVE Once'
  <2>1. New(r) /\ Range(queue') = Range(queue) \cup {r}
    BY <1>1, Queued
  <2>2. /\ phase[r] = None /\ sent[r] = 0
        /\ \A v \in Workers : pc[v] \in AfterPop => cur[v] # r
    BY <2>1 DEF Arrivals, Local
  <2> QED
    BY <1>1, <2>1, <2>2
    DEF Enqueue, AfterPop, None, Once, WaitingFresh, ClaimFresh,
        DispatchedKnown, OwnClaim, OneSender, Dispatched, Sending, Claiming,
        TypeOK, InRun, Goto, lists, records, redis, local, history
<1>2. ASSUME NEW r \in Requests, Withdraw(r) PROVE Once'
  <2>1. Range(queue') = Range(queue) \ {r}
    BY <1>2, Withdrawn
  <2> QED
    BY <1>2, <2>1
    DEF Withdraw, Once, WaitingFresh, ClaimFresh, DispatchedKnown, OwnClaim,
        OneSender, Dispatched, Sending, Claiming, TypeOK, InRun, Goto,
        AfterPop, lists, records, redis, local, history
<1>3. ASSUME NEW i \in DOMAIN runs, FlagRun(i) PROVE Once'
  BY <1>3
  DEF FlagRun, Once, WaitingFresh, ClaimFresh, DispatchedKnown, OwnClaim,
      OneSender, Dispatched, Sending, Claiming, TypeOK, Goto, AfterPop, InRun,
      lists, records, redis, local, history
<1>4. ASSUME NEW i \in DOMAIN runs, StopRecord(i) PROVE Once'
  BY <1>4
  DEF StopRecord, Once, WaitingFresh, ClaimFresh, DispatchedKnown, OwnClaim,
      OneSender, Dispatched, Sending, Claiming, TypeOK, Goto, AfterPop, InRun,
      lists, records, redis, local, history
<1>5. ASSUME NEW w \in Workers,
            AcquireLease(w) \/ Reclaim(w) \/ CheckOwner(w)
      PROVE Once'
  <2>1. CASE AcquireLease(w)
    <3>1. /\ pc' = [pc EXCEPT ![w] = "reclaim"] /\ lease' = w
          /\ UNCHANGED <<queue, sent, cur, phase>>
      BY <2>1 DEF AcquireLease, Goto, lists, local, history
    <3>2. QuietMove(w, "reclaim")
      BY <3>1 DEF QuietMove, Held
    <3> QED
      BY <3>2, OnceMoves
  <2>2. CASE Reclaim(w) \/ CheckOwner(w)
    <3>1. \E x \in {"clean", "interrupted", "pop", "release"} :
             pc' = [pc EXCEPT ![w] = x] /\ UNCHANGED <<queue, sent, cur, phase, lease>>
      BY <2>2 DEF Reclaim, CheckOwner, Goto, lists, redis, local, history
    <3> QED
      BY <3>1, OnceMoves DEF QuietMove, Held
  <2> QED
    BY <1>5, <2>1, <2>2
<1>6. ASSUME NEW w \in Workers, CleanPhases(w) PROVE Once'
  <2>1. \E x \in {"schedule"} : QuietMove(w, x)
    BY <1>6, NamesAssumption DEF CleanPhases, QuietMove, Goto, Held, TypeOK,
       None, lists, records, redis, local, history
  <2> QED
    BY <2>1, OnceMoves
<1>7. ASSUME NEW w \in Workers, CloseInterrupted(w) PROVE Once'
  <2>1. \E x \in {"release", "requeue"} : QuietMove(w, x)
    BY <1>7, NamesAssumption DEF CloseInterrupted, QuietMove, Goto, Held, TypeOK,
       None, lists, records, redis, local, history
  <2> QED
    BY <2>1, OnceMoves
<1>8. ASSUME NEW w \in Workers, Requeue(w) PROVE Once'
  <2>1. CASE lease = w
    <3>1. /\ Range(queue') = Range(queue)
                              \cup {r \in Range(processing) : phase[r] = "claimed"}
          /\ phase' = [r \in Requests |-> None]
      BY <1>8, <2>1, Requeued
    <3>2. /\ UNCHANGED <<cur, sent, lease>>
          /\ pc[w] = "requeue" /\ pc' = [pc EXCEPT ![w] = "schedule"]
      BY <1>8, <2>1 DEF Requeue, Goto, local, history
    <3>3. \A r \in Requests : phase'[r] # "claimed"
      BY <3>1 DEF None
    <3>4. /\ \A r \in Requests : Dispatched(r)' => Dispatched(r)
          /\ \A v \in Workers, r \in Requests : Claiming(v, r)' => Claiming(v, r)
      BY <3>2 DEF Dispatched, Sending, Claiming, TypeOK
    <3>5. WaitingFresh'
      <4> SUFFICES ASSUME NEW r \in Range(queue')
                   PROVE /\ phase'[r] # "claimed" /\ ~Dispatched(r)'
                         /\ \A v \in Workers : ~Claiming(v, r)'
        BY DEF WaitingFresh
      <4>1. r \in Requests
        BY <1>a, <3>1
      <4>2. ~Dispatched(r) /\ \A v \in Workers : ~Claiming(v, r)
        <5>1. CASE r \in Range(queue)
          BY <5>1 DEF Once, WaitingFresh
        <5>2. CASE phase[r] = "claimed"
          BY <4>1, <5>2 DEF Once, DispatchedKnown, ClaimFresh, Claiming
        <5> QED
          BY <3>1, <5>1, <5>2
      <4> QED
        BY <3>3, <3>4, <4>1, <4>2
    <3>6. ClaimFresh'
      BY <1>b, <3>2, <3>3 DEF Once, ClaimFresh, AfterPop, Dispatched, Sending,
         Claiming, TypeOK
    <3>7. DispatchedKnown'
      BY <3>3 DEF DispatchedKnown
    <3>8. OwnClaim'
      BY <2>1, <3>2 DEF OwnClaim, TypeOK
    <3>9. OneSender'
      BY <3>2 DEF Once, OneSender, Sending, TypeOK
    <3> QED
      BY <3>5, <3>6, <3>7, <3>8, <3>9 DEF Once
  <2>2. CASE lease # w
    <3>1. /\ UNCHANGED <<queue, sent, cur, phase, lease>>
          /\ pc' = [pc EXCEPT ![w] = "release"]
      BY <1>8, <2>2 DEF Requeue, Goto, lists, local, history
    <3> QED
      BY <3>1, OnceMoves DEF QuietMove, Held
  <2> QED
    BY <2>1, <2>2
<1>9. ASSUME NEW w \in Workers, Schedule(w) PROVE Once'
  <2>1. CASE queue' = queue /\ arrived' = arrived
    BY <1>9, <2>1
    DEF Schedule, Once, WaitingFresh, ClaimFresh, DispatchedKnown, OwnClaim,
        OneSender, Dispatched, Sending, Claiming, TypeOK, InRun, Goto,
        AfterPop, lists, records, redis, local, history
  <2>2. ASSUME NEW r \in Requests, New(r), Range(queue') = Range(queue) \cup {r}
        PROVE Once'
    <3>1. /\ phase[r] = None /\ sent[r] = 0
          /\ \A v \in Workers : pc[v] \in AfterPop => cur[v] # r
      BY <2>2 DEF Arrivals, Local
    <3> QED
      BY <1>9, <2>2, <3>1
      DEF Schedule, AfterPop, None, Once, WaitingFresh, ClaimFresh,
          DispatchedKnown, OwnClaim, OneSender, Dispatched, Sending, Claiming,
          TypeOK, InRun, Goto, lists, records, redis, local, history
  <2> QED
    BY <1>9, <2>1, <2>2, Queued
<1>10. ASSUME NEW w \in Workers, Pop(w) PROVE Once'
  <2>1. CASE pc[w]' = "release"
    <3>1. QuietMove(w, "release")
      BY <1>10, <2>1, NamesAssumption DEF Pop, Goto, QuietMove, Held, TypeOK
    <3> QED
      BY <3>1, OnceMoves
  <2>2. CASE pc[w]' # "release"
    <3>1. /\ Head(queue) \in Range(queue) /\ Head(queue) \in Requests
          /\ cur' = [cur EXCEPT ![w] = Head(queue)]
          /\ Range(queue') = Range(queue) \ {Head(queue)}
          /\ pc' = [pc EXCEPT ![w] = "claim"]
      BY <1>10, <2>2, Claimed DEF Goto
    <3> QED
      BY <1>10, <3>1
      DEF Pop, Once, WaitingFresh, ClaimFresh, DispatchedKnown, OwnClaim,
          OneSender, Dispatched, Sending, Claiming, TypeOK, InRun, Goto,
          AfterPop, lists, records, redis, local, history
  <2> QED
    BY <2>1, <2>2
<1>11. ASSUME NEW w \in Workers, Claim(w) PROVE Once'
  BY <1>11, <1>b
  DEF Claim, Once, WaitingFresh, ClaimFresh, DispatchedKnown, OwnClaim,
      OneSender, Dispatched, Sending, Claiming, TypeOK, Goto, AfterPop, InRun,
      lists, records, redis, local, history
<1>12. ASSUME NEW w \in Workers, RefreshClaim(w) \/ Removes(w) PROVE Once'
  <2>1. \E x \in {"record", "poison", "forget", "release"} : QuietMove(w, x)
    BY <1>12, NamesAssumption DEF RefreshClaim, Removes, DropPoison, ForgetPoison, Complete, QuietMove, Goto, Held, TypeOK,
       None, lists, records, redis, local, history
  <2> QED
    BY <2>1, OnceMoves
<1>13. ASSUME NEW w \in Workers, RecordRun(w) PROVE Once'
  <2>1. \E x \in {"prepare"} : QuietMove(w, x)
    BY <1>13, NamesAssumption DEF RecordRun, QuietMove, Goto, Held, TypeOK,
       None, lists, records, redis, local, history
  <2> QED
    BY <2>1, OnceMoves
<1>14. ASSUME NEW w \in Workers,
            Prepare(w) \/ StreamEnds(w) \/ CheckResponse(w)
      PROVE Once'
  <2>1. \E x \in {"fence", "check", "output", "close"} : QuietMove(w, x)
    BY <1>14, NamesAssumption DEF Prepare, StreamEnds, CheckResponse, Finish, QuietMove, Goto, Held, TypeOK,
       None, lists, records, redis, local, history
  <2> QED
    BY <2>1, OnceMoves
<1>15. ASSUME NEW w \in Workers, WriteOutput(w) PROVE Once'
  <2>1. \E x \in {"close"} : QuietMove(w, x)
    BY <1>15, NamesAssumption DEF WriteOutput, Finish, QuietMove, Goto, Held, TypeOK,
       None, lists, records, redis, local, history
  <2> QED
    BY <2>1, OnceMoves
<1>16. ASSUME NEW w \in Workers, Fence(w) PROVE Once'
  <2>1. CASE lease = w /\ phase[cur[w]] = "claimed"
    <3>1. /\ phase' = [phase EXCEPT ![cur[w]] = "started"]
          /\ pc' = [pc EXCEPT ![w] = "send"] /\ UNCHANGED <<queue, sent, cur, lease>>
          /\ pc[w] = "fence" /\ cur[w] \in Requests
      BY <1>16, <1>b, <2>1 DEF Fence, Goto, local, history, AfterPop, InRun
    <3>2. /\ ~Dispatched(cur[w]) /\ cur[w] \notin Range(queue)
          /\ \A v \in Workers : ~Claiming(v, cur[w])
      BY <2>1, <3>1 DEF Once, DispatchedKnown, OwnClaim
    <3>3. \A r \in Requests : r # cur[w] => (Dispatched(r)' <=> Dispatched(r))
      BY <3>1 DEF Dispatched, Sending, TypeOK
    <3>4. \A v \in Workers, r \in Requests : Claiming(v, r)' => Claiming(v, r)
      BY <3>1 DEF Claiming, TypeOK
    <3>5. WaitingFresh'
      BY <1>a, <3>1, <3>2, <3>3, <3>4 DEF Once, WaitingFresh, TypeOK
    <3>6. ClaimFresh'
      <4> SUFFICES ASSUME NEW v \in Workers, pc'[v] = "claim"
                   PROVE /\ phase'[cur'[v]] # "claimed" /\ ~Dispatched(cur[v])'
                         /\ \A u \in Workers : Claiming(u, cur[v])' => u = v
        BY DEF ClaimFresh
      <4>1. /\ pc[v] = "claim" /\ cur'[v] = cur[v] /\ cur[v] \in Requests
            /\ cur[v] # cur[w]
        BY <1>b, <3>1, <3>2 DEF AfterPop, TypeOK, Claiming
      <4>2. /\ phase[cur[v]] # "claimed" /\ ~Dispatched(cur[v])
            /\ \A u \in Workers : Claiming(u, cur[v]) => u = v
        BY <4>1 DEF Once, ClaimFresh
      <4>3. phase'[cur'[v]] # "claimed"
        BY <3>1, <4>1, <4>2 DEF TypeOK
      <4>4. ~Dispatched(cur[v])'
        BY <3>1, <4>1, <4>2 DEF Dispatched, Sending, TypeOK
      <4>5. \A u \in Workers : Claiming(u, cur[v])' => u = v
        BY <3>1, <4>1, <4>2 DEF Claiming, TypeOK
      <4> QED
        BY <4>3, <4>4, <4>5
    <3>7. DispatchedKnown'
      BY <3>1, <3>3 DEF Once, DispatchedKnown, TypeOK
    <3>8. OwnClaim'
      BY <3>1 DEF Once, OwnClaim, Claiming, TypeOK
    <3>9. OneSender'
      BY <3>1, <3>2 DEF Once, OneSender, Dispatched, Sending, TypeOK
    <3> QED
      BY <3>5, <3>6, <3>7, <3>8, <3>9 DEF Once
  <2>2. CASE ~(lease = w /\ phase[cur[w]] = "claimed")
    <3>1. /\ UNCHANGED <<queue, sent, cur, phase, lease>>
          /\ pc' = [pc EXCEPT ![w] = "close"]
      BY <1>16, <2>2 DEF Fence, Goto, Finish, local, history
    <3> QED
      BY <3>1, OnceMoves DEF QuietMove, Held
  <2> QED
    BY <2>1, <2>2
<1>17. ASSUME NEW w \in Workers, Send(w) PROVE Once'
  <2>1. CASE UNCHANGED sent
    <3>1. /\ UNCHANGED <<queue, cur, phase, lease>>
          /\ \E x \in {"close", "stream"} : pc' = [pc EXCEPT ![w] = x]
      BY <1>17 DEF Send, Goto, Finish, lists, redis
    <3> QED
      BY <2>1, <3>1, OnceMoves DEF QuietMove, Held
  <2>2. CASE sent' = [sent EXCEPT ![cur[w]] = IF @ = 2 THEN 2 ELSE @ + 1]
             /\ pc' = [pc EXCEPT ![w] = "stream"]
    <3>1. /\ UNCHANGED <<queue, cur, phase, lease>>
          /\ cur[w] \in Requests /\ pc[w] = "send"
      BY <1>17, <1>b DEF Send, lists, redis, AfterPop, InRun
    <3>2. sent[cur[w]] = 0 /\ Sending(w, cur[w])
          /\ \A v \in Workers : Sending(v, cur[w]) => v = w
      BY <3>1 DEF Once, OneSender, Sending
    <3>3. sent' = [sent EXCEPT ![cur[w]] = 1]
      BY <2>2, <3>1, <3>2 DEF TypeOK
    <3>4. \A r \in Requests : Dispatched(r)' => Dispatched(r)
      BY <2>2, <3>1, <3>2, <3>3 DEF Dispatched, Sending, TypeOK
    <3>5. \A v \in Workers, r \in Requests : Claiming(v, r)' => Claiming(v, r)
      BY <2>2, <3>1 DEF Claiming, TypeOK
    <3>6. WaitingFresh'
      BY <1>a, <3>1, <3>4, <3>5 DEF Once, WaitingFresh, TypeOK
    <3>7. ClaimFresh'
      BY <1>b, <2>2, <3>1, <3>4, <3>5
      DEF Once, ClaimFresh, TypeOK, AfterPop, Claiming, Dispatched, Sending
    <3>8. DispatchedKnown'
      BY <3>1, <3>4 DEF Once, DispatchedKnown, TypeOK
    <3>9. OwnClaim'
      BY <2>2, <3>1 DEF Once, OwnClaim, Claiming, TypeOK
    <3>10. OneSender'
      BY <1>b, <2>2, <3>1, <3>2, <3>3 DEF Once, OneSender, Sending, TypeOK, AfterPop, InRun
    <3> QED
      BY <3>6, <3>7, <3>8, <3>9, <3>10 DEF Once
  <2> QED
    BY <1>17, <2>1, <2>2 DEF Send, Goto
<1>18. ASSUME NEW w \in Workers, CloseRun(w) PROVE Once'
  <2>1. \E x \in {"release", "complete"} : QuietMove(w, x)
    BY <1>18, NamesAssumption DEF CloseRun, QuietMove, Goto, Held, TypeOK,
       None, lists, records, redis, local, history
  <2> QED
    BY <2>1, OnceMoves
<1>19. ASSUME NEW w \in Workers, ReleaseLease(w) \/ ReleaseFails(w) PROVE Once'
  <2>1. \E x \in {"idle"} : QuietMove(w, x)
    BY <1>19, NamesAssumption DEF ReleaseLease, ReleaseFails, Reset, Orphan, QuietMove, Goto, Held, TypeOK,
       None, lists, records, redis, local, history
  <2> QED
    BY <2>1, OnceMoves
<1>20. ASSUME NEW w \in Workers,
            Heartbeat(w) \/ Shutdown(w) \/ HeartbeatFails(w)
      PROVE Once'
  BY <1>20
  DEF Heartbeat, Shutdown, HeartbeatFails, Faulty, Once, WaitingFresh,
      ClaimFresh, DispatchedKnown, OwnClaim, OneSender, Dispatched, Sending,
      Claiming, TypeOK, Goto, AfterPop, InRun, lists, records, redis, local,
      history
<1>21. ASSUME NEW w \in Workers, Crash(w) PROVE Once'
  <2>1. \E x \in {"idle"} : QuietMove(w, x)
    BY <1>21, NamesAssumption DEF Crash, Reset, Orphan, QuietMove, Goto, Held, TypeOK,
       None, lists, records, redis, local, history
  <2> QED
    BY <2>1, OnceMoves
<1>22. ASSUME NEW w \in Workers, Throw(w) PROVE Once'
  <2>1. \E x \in {"release", "close"} : QuietMove(w, x)
    BY <1>22, NamesAssumption DEF Throw, Finish, QuietMove, Goto, Held, TypeOK,
       None, lists, records, redis, local, history
  <2> QED
    BY <2>1, OnceMoves
<1>23. CASE OrphanExpires \/ LeaseLapses
  <2>1. UNCHANGED <<queue, sent, cur, phase, pc>> /\ \A v \in Workers : lease' # v
    BY <1>23, NamesAssumption DEF OrphanExpires, LeaseLapses, lists, local, history
  <2> QED
    BY <2>1
    DEF Once, WaitingFresh, ClaimFresh, DispatchedKnown, OwnClaim, OneSender,
        Dispatched, Sending, Claiming, TypeOK, InRun, Goto, AfterPop, lists,
        records, redis, local, history
<1>24. CASE UNCHANGED vars
  BY <1>24
  DEF vars, Once, WaitingFresh, ClaimFresh, DispatchedKnown, OwnClaim,
      OneSender, Dispatched, Sending, Claiming, TypeOK, Goto, AfterPop, InRun,
      lists, records, redis, local, history
<1> QED
  BY <1>1, <1>2, <1>3, <1>4, <1>5, <1>6, <1>7, <1>8, <1>9, <1>10, <1>11,
     <1>12, <1>13, <1>14, <1>15, <1>16, <1>17, <1>18, <1>19, <1>20, <1>21,
     <1>22, <1>23, <1>24 DEF Next, Step, Dashboard, Removes

(***************************************************************************)
(* No request is lost                                                      *)
(***************************************************************************)

(* Started and interrupted claims leave a trace.                            *)
LEMMA TracedStep ==
  ASSUME TypeOK, Arrivals, InOrder, Local, Traced,
         [Next]_vars
  PROVE Traced'
<1>a. \A k \in DOMAIN runs : k \in DOMAIN runs' /\ runs'[k].req = runs[k].req
  BY Recorded
<1>b. \A r \in Range(processing) : r \in Requests
  BY DEF Range, TypeOK
<1>c. \A w \in Workers : pc[w] \in AfterPop => cur[w] \in Requests
  BY DEF Local, TypeOK
<1> USE <1>a
    DEF Traced, Claiming, TypeOK, Goto, lists, records, redis, local, history
<1>1. ASSUME NEW r \in Requests, Enqueue(r) PROVE Traced'
  BY <1>1
  DEF Enqueue
<1>2. ASSUME NEW r \in Requests, Withdraw(r) PROVE Traced'
  BY <1>2
  DEF Withdraw
<1>3. ASSUME NEW i \in DOMAIN runs, FlagRun(i) PROVE Traced'
  BY <1>3
  DEF FlagRun
<1>4. ASSUME NEW i \in DOMAIN runs, StopRecord(i) PROVE Traced'
  BY <1>4
  DEF StopRecord
<1>5. ASSUME NEW w \in Workers,
            AcquireLease(w) \/ Reclaim(w) \/ CheckOwner(w)
      PROVE Traced'
  <2>1. /\ UNCHANGED <<processing, phase, runs, cur, gap>> /\ pc[w] # "claim"
        /\ lease' = lease \/ lease = None
        /\ \E x \in {"reclaim", "clean", "interrupted", "pop", "release"} :
             pc' = [pc EXCEPT ![w] = x]
    BY <1>5 DEF AcquireLease, Reclaim, CheckOwner
  <2> QED
    BY <1>b, <2>1, NamesAssumption
<1>6. ASSUME NEW w \in Workers, CleanPhases(w) PROVE Traced'
  <2>1. CASE lease = w /\ processing = <<>>
    <3>1. Range(processing) = {}
      BY <2>1, EmptyList DEF TypeOK
    <3>2. \A r \in Requests : phase'[r] # "started"
      BY <1>6, <2>1 DEF CleanPhases, None
    <3> QED
      BY <1>6, <3>1, <3>2 DEF CleanPhases
  <2>2. CASE ~(lease = w /\ processing = <<>>)
    BY <1>6, <2>2 DEF CleanPhases
  <2> QED
    BY <2>1, <2>2
<1>7. ASSUME NEW w \in Workers, CloseInterrupted(w) PROVE Traced'
  <2>1. /\ UNCHANGED <<processing, phase, cur, gap, lease>> /\ pc[w] # "claim"
        /\ \E x \in {"release", "requeue"} : pc' = [pc EXCEPT ![w] = x]
    BY <1>7 DEF CloseInterrupted
  <2>2. \A r \in Requests : phase'[r] = "started" => \E k \in DOMAIN runs' : runs'[k].req = r
    <3> SUFFICES ASSUME NEW r \in Requests, phase[r] = "started"
                 PROVE \E k \in DOMAIN runs' : runs'[k].req = r
      BY <2>1
    <3>1. PICK k \in DOMAIN runs : runs[k].req = r
      BY DEF Traced
    <3> QED
      BY <1>a, <3>1
  <2>3. \A v \in Workers, r \in Requests :
          pc[v] = "claim" /\ cur[v] = r => pc'[v] = "claim" /\ cur'[v] = r
    BY <2>1
  <2> QED
    BY <1>b, <2>1, <2>2, <2>3
<1>8. ASSUME NEW w \in Workers, Requeue(w) PROVE Traced'
  <2>1. CASE lease = w
    <3>1. Range(processing') = {} /\ phase' = [r \in Requests |-> None]
      BY <1>8, <2>1, Requeued
    <3> QED
      BY <3>1 DEF None
  <2>2. CASE lease # w
    BY <1>8, <2>2 DEF Requeue
  <2> QED
    BY <2>1, <2>2
<1>9. ASSUME NEW w \in Workers, Schedule(w) PROVE Traced'
  BY <1>9
  DEF Schedule
<1>10. ASSUME NEW w \in Workers, Pop(w) PROVE Traced'
  <2>1. CASE pc[w]' = "release"
    BY <1>10, <2>1 DEF Pop
  <2>2. CASE pc[w]' # "release"
    <3>1. /\ Head(queue) \in Requests /\ cur' = [cur EXCEPT ![w] = Head(queue)]
          /\ Range(processing') = Range(processing) \cup {Head(queue)}
          /\ pc' = [pc EXCEPT ![w] = "claim"]
          /\ gap' = IF lease = w THEN gap ELSE gap \cup {Head(queue)}
      BY <1>10, <2>2, Claimed
    <3>2. pc[w] = "pop" /\ UNCHANGED <<phase, runs, lease>>
      BY <1>10 DEF Pop
    <3> QED
      BY <3>1, <3>2
  <2> QED
    BY <2>1, <2>2
<1>11. ASSUME NEW w \in Workers, Claim(w) PROVE Traced'
  <2>1. cur[w] \in Requests
    BY <1>11, <1>c DEF Claim, AfterPop
  <2> QED
    BY <1>11, <1>b, <2>1 DEF Claim, None
<1>12. ASSUME NEW w \in Workers, RefreshClaim(w) \/ Removes(w) PROVE Traced'
  <2>1. /\ pc[w] # "claim" /\ UNCHANGED <<runs, cur, lease, gap>>
        /\ \E x \in {"record", "poison", "forget", "release"} : pc' = [pc EXCEPT ![w] = x]
    BY <1>12 DEF RefreshClaim, Removes, DropPoison, ForgetPoison, Complete
  <2>2. CASE UNCHANGED <<processing, phase>>
    BY <2>1, <2>2
  <2>3. CASE /\ phase' = [phase EXCEPT ![cur[w]] = None] /\ pc[w] = "complete"
             /\ Range(processing') = Range(processing) \ {cur[w]}
    BY <1>b, <1>c, <2>1, <2>3 DEF AfterPop, None
  <2>4. CASE /\ UNCHANGED phase
             /\ Range(processing') = Range(processing) \ {cur[w]}
    BY <1>b, <2>1, <2>4
  <2>5. CASE /\ phase' = [phase EXCEPT ![cur[w]] = None] /\ UNCHANGED processing
             /\ cur[w] \in Poison
    BY <1>b, <2>1, <2>5 DEF None
  <2> QED
    BY <1>12, <2>2, <2>3, <2>4, <2>5, Unclaimed
<1>13. ASSUME NEW w \in Workers, RecordRun(w) PROVE Traced'
  BY <1>13
  DEF RecordRun
<1>14. ASSUME NEW w \in Workers,
            Prepare(w) \/ StreamEnds(w) \/ CheckResponse(w)
      PROVE Traced'
  BY <1>14
  DEF Prepare, StreamEnds, CheckResponse, Finish
<1>15. ASSUME NEW w \in Workers, WriteOutput(w) PROVE Traced'
  BY <1>15
  DEF WriteOutput, Finish
<1>16. ASSUME NEW w \in Workers, Fence(w) PROVE Traced'
  <2>1. pc[w] = "fence" => rec[w] \in DOMAIN runs /\ runs[rec[w]].req = cur[w]
    BY DEF Local, TypeOK, InRun
  <2>2. /\ UNCHANGED <<processing, runs, cur, lease, gap>> /\ pc[w] = "fence"
        /\ \E x \in {"send", "close"} : pc' = [pc EXCEPT ![w] = x]
        /\ \A r \in Requests : \/ phase'[r] = phase[r]
                               \/ (r = cur[w] /\ phase'[r] = "started")
    BY <1>16 DEF Fence, Finish
  <2> QED
    BY <1>b, <2>1, <2>2 DEF None
<1>17. ASSUME NEW w \in Workers, Send(w) PROVE Traced'
  BY <1>17
  DEF Send, Finish
<1>18. ASSUME NEW w \in Workers, CloseRun(w) PROVE Traced'
  BY <1>18
  DEF CloseRun, UpsertRun
<1>19. ASSUME NEW w \in Workers,
            ReleaseLease(w) \/ ReleaseFails(w)
      PROVE Traced'
  <2>1. /\ UNCHANGED <<processing, phase, runs, gap>> /\ pc[w] = "release"
        /\ pc' = [pc EXCEPT ![w] = "idle"] /\ cur' = [cur EXCEPT ![w] = None]
        /\ \/ lease' = lease
           \/ lease = w
    BY <1>19 DEF ReleaseLease, ReleaseFails, Reset
  <2> QED
    BY <1>b, <2>1
<1>20. ASSUME NEW w \in Workers,
            Heartbeat(w) \/ Shutdown(w) \/ HeartbeatFails(w)
      PROVE Traced'
  BY <1>20
  DEF Heartbeat, Shutdown, HeartbeatFails, Faulty
<1>21. ASSUME NEW w \in Workers, Crash(w) PROVE Traced'
  <2>1. /\ UNCHANGED <<processing, phase, runs>>
        /\ pc' = [pc EXCEPT ![w] = "idle"] /\ cur' = [cur EXCEPT ![w] = None]
        /\ gap \subseteq gap' /\ (pc[w] = "claim" => cur[w] \in gap')
        /\ \/ lease' = lease
           \/ lease = w
    BY <1>21 DEF Crash, Reset, Interrupted
  <2> QED
    BY <1>b, <2>1
<1>22. ASSUME NEW w \in Workers, Throw(w) PROVE Traced'
  <2>1. pc[w] = "fence" => rec[w] \in DOMAIN runs /\ runs[rec[w]].req = cur[w]
    BY DEF Local, TypeOK, InRun
  <2>2. /\ UNCHANGED <<processing, runs, cur, lease>>
        /\ gap \subseteq gap' /\ (pc[w] = "claim" => cur[w] \in gap')
        /\ \E x \in {"release", "close"} : pc' = [pc EXCEPT ![w] = x]
    BY <1>22 DEF Throw, Finish, Interrupted
  <2>3. \/ UNCHANGED phase
        \/ pc[w] = "fence" /\ phase' = [phase EXCEPT ![cur[w]] = "started"]
    BY <1>22 DEF Throw
  <2>4. \A r \in Requests : 
          \/ phase'[r] = phase[r]
          \/ (pc[w] = "fence" /\ r = cur[w] /\ phase'[r] = "started")
    BY <2>3
  <2> QED
    BY <1>b, <2>1, <2>2, <2>4 DEF None
<1>23. CASE OrphanExpires \/ LeaseLapses
  BY <1>23, NamesAssumption
  DEF OrphanExpires, LeaseLapses, Interrupted, Faulty
<1>24. CASE UNCHANGED vars
  BY <1>24
  DEF vars
<1> QED
  BY <1>1, <1>2, <1>3, <1>4, <1>5, <1>6, <1>7, <1>8, <1>9, <1>10, <1>11,
     <1>12, <1>13, <1>14, <1>15, <1>16, <1>17, <1>18, <1>19, <1>20, <1>21,
     <1>22, <1>23, <1>24 DEF Next, Step, Dashboard, Removes

(* Every step keeps requests in a list or leaves a trace of them.           *)
LEMMA LostStep ==
  ASSUME TypeOK, Arrivals, InOrder, Local, Traced,
         NothingLost, [Next]_vars
  PROVE NothingLost'
<1>a. \A k \in DOMAIN runs : k \in DOMAIN runs' /\ runs'[k].req = runs[k].req
  BY Recorded
<1>b. \A r \in Range(processing) : r \in Requests
  BY DEF Range, TypeOK
<1>c. \A w \in Workers : pc[w] \in AfterPop => cur[w] \in Requests
  BY DEF Local, TypeOK
<1> USE <1>a
    DEF NothingLost, lists, records, redis, local, history
<1>1. ASSUME NEW r \in Requests, Enqueue(r) PROVE NothingLost'
  <2>1. /\ Range(queue') = Range(queue) \cup {r}
        /\ Range(arrived') = Range(arrived) \cup {r}
    BY <1>1, Queued
  <2> QED
    BY <1>1, <2>1 DEF Enqueue
<1>2. ASSUME NEW r \in Requests, Withdraw(r) PROVE NothingLost'
  <2>1. Range(queue') = Range(queue) \ {r}
    BY <1>2, Withdrawn
  <2> QED
    BY <1>2, <2>1 DEF Withdraw
<1>3. ASSUME NEW i \in DOMAIN runs, FlagRun(i) PROVE NothingLost'
  BY <1>3
  DEF FlagRun
<1>4. ASSUME NEW i \in DOMAIN runs, StopRecord(i) PROVE NothingLost'
  BY <1>4
  DEF StopRecord
<1>5. ASSUME NEW w \in Workers,
            AcquireLease(w) \/ Reclaim(w) \/ CheckOwner(w)
            \/ CleanPhases(w) \/ CloseInterrupted(w) \/ Claim(w)
            \/ RecordRun(w) \/ Prepare(w) \/ StreamEnds(w)
            \/ CheckResponse(w) \/ CloseRun(w) \/ ReleaseLease(w)
            \/ ReleaseFails(w) \/ Heartbeat(w) \/ Shutdown(w)
            \/ HeartbeatFails(w) \/ Crash(w) \/ Throw(w)
      PROVE NothingLost'
  BY <1>5
  DEF AcquireLease, Reclaim, CheckOwner, CleanPhases, CloseInterrupted, Claim,
      RecordRun, Prepare, StreamEnds, CheckResponse, Finish, CloseRun,
      UpsertRun, ReleaseLease, ReleaseFails, Reset, Faulty, Heartbeat,
      Shutdown, HeartbeatFails, Crash, Interrupted, Throw
<1>6. ASSUME NEW w \in Workers, Requeue(w) PROVE NothingLost'
  <2>1. CASE lease = w
    <3>1. /\ Range(queue') = Range(queue)
               \cup {r \in Range(processing) : phase[r] = "claimed"}
          /\ UNCHANGED <<arrived, gap, withdrawn, runs>> /\ pc[w] = "requeue"
      BY <1>6, <2>1, Requeued DEF Requeue
    <3>2. \A r \in Range(processing) \ Poison : phase[r] # "claimed" =>
            r \in gap \/ \E k \in DOMAIN runs : runs[k].req = r
      BY <1>b, <2>1, <3>1 DEF Traced, Claiming, TypeOK
    <3> QED
      BY <3>1, <3>2
  <2>2. CASE lease # w
    BY <1>6, <2>2 DEF Requeue
  <2> QED
    BY <2>1, <2>2
<1>7. ASSUME NEW w \in Workers, Schedule(w) PROVE NothingLost'
  <2>1. CASE queue' = queue /\ arrived' = arrived
    BY <1>7, <2>1 DEF Schedule
  <2>2. ASSUME NEW r \in Requests, Range(queue') = Range(queue) \cup {r},
               Range(arrived') = Range(arrived) \cup {r}
        PROVE NothingLost'
    BY <1>7, <2>2 DEF Schedule
  <2> QED
    BY <1>7, <2>1, <2>2, Queued
<1>8. ASSUME NEW w \in Workers, Pop(w) PROVE NothingLost'
  <2>1. CASE pc[w]' = "release"
    BY <1>8, <2>1 DEF Pop, Goto, TypeOK
  <2>2. CASE pc[w]' # "release"
    <3>1. /\ Range(queue') = Range(queue) \ {Head(queue)}
          /\ Range(processing') = Range(processing) \cup {Head(queue)}
          /\ gap' = IF lease = w THEN gap ELSE gap \cup {Head(queue)}
      BY <1>8, <2>2, Claimed
    <3> QED
      BY <1>8, <3>1 DEF Pop
  <2> QED
    BY <2>1, <2>2
<1>9. ASSUME NEW w \in Workers,
            RefreshClaim(w) \/ Removes(w)
      PROVE NothingLost'
  <2>1. UNCHANGED <<queue, arrived, gap, withdrawn, runs>>
        /\ pc[w] \in {"refresh", "poison", "forget", "complete"}
    BY <1>9 DEF RefreshClaim, Removes, DropPoison, ForgetPoison, Complete
  <2>2. CASE UNCHANGED processing
    BY <2>1, <2>2
  <2>3. CASE /\ pc[w] = "complete" \/ cur[w] \in Poison
             /\ Range(processing') = Range(processing) \ {cur[w]}
    <3>1. pc[w] = "complete" => rec[w] \in DOMAIN runs /\ runs[rec[w]].req = cur[w]
      BY DEF Local, TypeOK
    <3> QED
      BY <2>1, <2>3, <3>1
  <2> QED
    BY <1>9, <2>2, <2>3, Unclaimed
<1>10. ASSUME NEW w \in Workers, WriteOutput(w) PROVE NothingLost'
  BY <1>10 DEF WriteOutput
<1>11. ASSUME NEW w \in Workers, Fence(w) PROVE NothingLost'
  BY <1>11 DEF Fence
<1>12. ASSUME NEW w \in Workers, Send(w) PROVE NothingLost'
  BY <1>12 DEF Send
<1>13. CASE OrphanExpires \/ LeaseLapses
  BY <1>13
  DEF OrphanExpires, LeaseLapses, Interrupted, Faulty
<1>14. CASE UNCHANGED vars
  BY <1>14
  DEF vars
<1> QED
  BY <1>1, <1>2, <1>3, <1>4, <1>5, <1>6, <1>7, <1>8, <1>9, <1>10, <1>11,
     <1>12, <1>13, <1>14 DEF Next, Step, Dashboard, Removes

(***************************************************************************)
(* Runs and their records                                                  *)
(***************************************************************************)

(* A new record is open and its worker's alone.                             *)
LEMMA NewRecord ==
  ASSUME TypeOK, Local, NEW w \in Workers, RecordRun(w)
  PROVE  /\ pc[w] = "record" /\ Goto(w, "prepare")
         /\ rec' = [rec EXCEPT ![w] = Len(runs) + 1]
         /\ runs'[Len(runs) + 1].status = "running"
         /\ DOMAIN runs' = DOMAIN runs \cup {Len(runs) + 1}
         /\ \A k \in DOMAIN runs : runs'[k] = runs[k]
         /\ UNCHANGED <<lists, lease, cur, lapsed>>
BY DEF TypeOK, RecordRun, history

(* A record is one worker's and is not closed under the owner of the lease.  *)
LEMMA OwnRunStep ==
  ASSUME TypeOK, Arrivals, InOrder, Local, OwnRun,
         [Next]_vars
  PROVE OwnRun'
<1>a. /\ \A k \in DOMAIN runs : k \in DOMAIN runs'
      /\ \A k \in DOMAIN runs : runs'[k].status = "running" => runs[k].status = "running"
      /\ DOMAIN runs' # DOMAIN runs => \E w \in Workers : RecordRun(w)
      /\ \A k \in DOMAIN runs : runs'[k].status = "aborted" =>
           \/ runs[k].status = "aborted"
           \/ \E w \in Workers : CloseInterrupted(w) /\ lease = w
           \/ \E w \in Workers : CloseRun(w) /\ k = rec[w]
  BY Recorded
<1>b. /\ DOMAIN runs \subseteq Nat \ {0} /\ Len(runs) + 1 \notin DOMAIN runs
      /\ Len(runs) + 1 # 0
  BY DEF TypeOK
<1>c. \A w \in Workers : rec[w] # 0 => rec[w] \in DOMAIN runs
  BY DEF TypeOK
<1> USE <1>b, <1>c
    DEF OwnRun, TypeOK, Goto, InRun, lists, records, redis, local, history
<1>1. ASSUME NEW r \in Requests, Enqueue(r) PROVE OwnRun'
  BY <1>1
  DEF Enqueue
<1>2. ASSUME NEW r \in Requests, Withdraw(r) PROVE OwnRun'
  BY <1>2
  DEF Withdraw
<1>3. ASSUME NEW i \in DOMAIN runs, FlagRun(i) PROVE OwnRun'
  BY <1>3
  DEF FlagRun
<1>4. ASSUME NEW i \in DOMAIN runs, StopRecord(i) PROVE OwnRun'
  <2>1. /\ UNCHANGED <<rec, lease, pc>>
        /\ \A k \in DOMAIN runs : runs'[k].status = "aborted" => runs[k].status = "aborted"
    BY <1>4, <1>a DEF StopRecord, CloseInterrupted, CloseRun
  <2> QED
    BY <2>1 DEF Local
<1>5. ASSUME NEW w \in Workers,
            AcquireLease(w) \/ Reclaim(w) \/ CheckOwner(w)
      PROVE OwnRun'
  BY <1>5, NamesAssumption
  DEF AcquireLease, Reclaim, CheckOwner
<1>6. ASSUME NEW w \in Workers, CleanPhases(w) PROVE OwnRun'
  BY <1>6
  DEF CleanPhases
<1>7. ASSUME NEW w \in Workers, CloseInterrupted(w) PROVE OwnRun'
  <2>1. /\ UNCHANGED <<rec, lease>> /\ pc[w] = "interrupted"
        /\ \E x \in {"release", "requeue"} : pc' = [pc EXCEPT ![w] = x]
        /\ lease # w => UNCHANGED runs
    BY <1>7 DEF CloseInterrupted
  <2> QED
    BY <2>1
<1>8. ASSUME NEW w \in Workers, Requeue(w) PROVE OwnRun'
  BY <1>8
  DEF Requeue
<1>9. ASSUME NEW w \in Workers, Schedule(w) PROVE OwnRun'
  BY <1>9
  DEF Schedule
<1>10. ASSUME NEW w \in Workers, Pop(w) PROVE OwnRun'
  <2>1. /\ UNCHANGED <<rec, runs, lease>>
        /\ \E x \in {"release", "claim"} : pc' = [pc EXCEPT ![w] = x]
    BY <1>10 DEF Pop
  <2> QED
    BY <2>1
<1>11. ASSUME NEW w \in Workers, Claim(w) PROVE OwnRun'
  BY <1>11
  DEF Claim
<1>12. ASSUME NEW w \in Workers, RefreshClaim(w) \/ Removes(w) PROVE OwnRun'
  BY <1>12
  DEF RefreshClaim, Removes, DropPoison, ForgetPoison, Complete
<1>13. ASSUME NEW w \in Workers, RecordRun(w) PROVE OwnRun'
  <2>1. /\ pc' = [pc EXCEPT ![w] = "prepare"] /\ lease' = lease
        /\ rec' = [rec EXCEPT ![w] = Len(runs) + 1]
        /\ runs'[Len(runs) + 1].status = "running"
        /\ \A k \in DOMAIN runs : runs'[k] = runs[k]
    BY <1>13, NewRecord
  <2>2. \A v \in Workers \ {w} : rec'[v] # 0 => rec'[v] = rec[v] /\ rec[v] # Len(runs) + 1
    BY <2>1
  <2>3. rec'[w] = Len(runs) + 1
    BY <2>1
  <2>4. \A u, v \in Workers : rec'[u] # 0 /\ rec'[u] = rec'[v] => u = v
    BY <2>1, <2>2, <2>3
  <2>5. \A v \in Workers : lease' = v /\ pc'[v] \in InRun \ {"close"} =>
          runs'[rec'[v]].status # "aborted"
    BY <2>1, <2>3 DEF Local
  <2> QED
    BY <2>4, <2>5
<1>14. ASSUME NEW w \in Workers,
            Prepare(w) \/ StreamEnds(w) \/ CheckResponse(w)
      PROVE OwnRun'
  BY <1>14
  DEF Prepare, StreamEnds, CheckResponse, Finish
<1>15. ASSUME NEW w \in Workers, WriteOutput(w) PROVE OwnRun'
  BY <1>15
  DEF WriteOutput, Finish
<1>16. ASSUME NEW w \in Workers, Fence(w) PROVE OwnRun'
  BY <1>16
  DEF Fence, Finish
<1>17. ASSUME NEW w \in Workers, Send(w) PROVE OwnRun'
  BY <1>17
  DEF Send, Finish
<1>18. ASSUME NEW w \in Workers, CloseRun(w) PROVE OwnRun'
  <2>1. /\ UNCHANGED <<rec, lease>> /\ pc[w] = "close" /\ rec[w] # 0
        /\ \E x \in {"release", "complete"} : pc' = [pc EXCEPT ![w] = x]
        /\ \A k \in DOMAIN runs : k # rec[w] => runs'[k] = runs[k]
    BY <1>18 DEF CloseRun, UpsertRun, Local
  <2>2. \A v \in Workers : pc[v] \in InRun => rec[v] # 0
    BY DEF Local
  <2> QED
    BY <2>1, <2>2
<1>19. ASSUME NEW w \in Workers,
            ReleaseLease(w) \/ ReleaseFails(w)
      PROVE OwnRun'
  BY <1>19, NamesAssumption
  DEF ReleaseLease, ReleaseFails, Reset, Faulty, None, Orphan
<1>20. ASSUME NEW w \in Workers,
            Heartbeat(w) \/ Shutdown(w) \/ HeartbeatFails(w)
      PROVE OwnRun'
  BY <1>20
  DEF Heartbeat, Shutdown, HeartbeatFails, Faulty
<1>21. ASSUME NEW w \in Workers, Crash(w) PROVE OwnRun'
  BY <1>21, NamesAssumption
  DEF Crash, Reset, Interrupted, Faulty
<1>22. ASSUME NEW w \in Workers, Throw(w) PROVE OwnRun'
  <2>1. /\ UNCHANGED <<rec, runs, lease>>
        /\ \E x \in {"release", "close"} : pc' = [pc EXCEPT ![w] = x]
    BY <1>22 DEF Throw, Finish
  <2> QED
    BY <2>1
<1>23. CASE OrphanExpires \/ LeaseLapses
  BY <1>23, NamesAssumption
  DEF OrphanExpires, LeaseLapses, Interrupted, Faulty
<1>24. CASE UNCHANGED vars
  BY <1>24
  DEF vars
<1> QED
  BY <1>1, <1>2, <1>3, <1>4, <1>5, <1>6, <1>7, <1>8, <1>9, <1>10, <1>11,
     <1>12, <1>13, <1>14, <1>15, <1>16, <1>17, <1>18, <1>19, <1>20, <1>21,
     <1>22, <1>23, <1>24 DEF Next, Step, Dashboard, Removes

(* A run is closed before its claim goes.                                   *)
LEMMA ClosedFirstStep ==
  ASSUME TypeOK, Local, ClosedFirst, [Next]_vars
  PROVE ClosedFirst'
<1>a. /\ \A k \in DOMAIN runs : k \in DOMAIN runs'
      /\ \A k \in DOMAIN runs : runs'[k].status = "running" => runs[k].status = "running"
  BY Recorded
<1>b. /\ DOMAIN runs \subseteq Nat \ {0} /\ Len(runs) + 1 \notin DOMAIN runs
      /\ Len(runs) + 1 # 0
  BY DEF TypeOK
<1>c. \A w \in Workers : rec[w] # 0 => rec[w] \in DOMAIN runs
  BY DEF TypeOK
<1> USE <1>a, <1>b, <1>c
    DEF ClosedFirst, Running, TypeOK, Goto, InRun, lists, records, redis, local,
         history
<1>1. ASSUME NEW r \in Requests, Enqueue(r) PROVE ClosedFirst'
  BY <1>1
  DEF Enqueue
<1>2. ASSUME NEW r \in Requests, Withdraw(r) PROVE ClosedFirst'
  BY <1>2
  DEF Withdraw
<1>3. ASSUME NEW i \in DOMAIN runs, FlagRun(i) PROVE ClosedFirst'
  BY <1>3
  DEF FlagRun
<1>4. ASSUME NEW i \in DOMAIN runs, StopRecord(i) PROVE ClosedFirst'
  <2>1. DOMAIN runs' = DOMAIN runs /\ UNCHANGED <<pc, rec>>
    BY <1>4 DEF StopRecord
  <2> QED
    BY <2>1
<1>5. ASSUME NEW w \in Workers,
            AcquireLease(w) \/ Reclaim(w) \/ CheckOwner(w)
      PROVE ClosedFirst'
  BY <1>5
  DEF AcquireLease, Reclaim, CheckOwner
<1>6. ASSUME NEW w \in Workers, CleanPhases(w) PROVE ClosedFirst'
  BY <1>6
  DEF CleanPhases
<1>7. ASSUME NEW w \in Workers, CloseInterrupted(w) PROVE ClosedFirst'
  <2>1. /\ DOMAIN runs' = DOMAIN runs /\ UNCHANGED rec
        /\ \E x \in {"release", "requeue"} : pc' = [pc EXCEPT ![w] = x]
    BY <1>7 DEF CloseInterrupted
  <2> QED
    BY <2>1
<1>8. ASSUME NEW w \in Workers, Requeue(w) PROVE ClosedFirst'
  BY <1>8
  DEF Requeue
<1>9. ASSUME NEW w \in Workers, Schedule(w) PROVE ClosedFirst'
  BY <1>9
  DEF Schedule
<1>10. ASSUME NEW w \in Workers, Pop(w) PROVE ClosedFirst'
  BY <1>10
  DEF Pop
<1>11. ASSUME NEW w \in Workers, Claim(w) PROVE ClosedFirst'
  BY <1>11
  DEF Claim
<1>12. ASSUME NEW w \in Workers,
            RefreshClaim(w) \/ Removes(w)
      PROVE ClosedFirst'
  BY <1>12
  DEF RefreshClaim, Removes, DropPoison, ForgetPoison, Complete
<1>13. ASSUME NEW w \in Workers, RecordRun(w) PROVE ClosedFirst'
  <2>1. /\ pc' = [pc EXCEPT ![w] = "prepare"] /\ pc[w] = "record"
        /\ rec' = [rec EXCEPT ![w] = Len(runs) + 1]
        /\ DOMAIN runs' = DOMAIN runs \cup {Len(runs) + 1}
        /\ \A k \in DOMAIN runs : runs'[k] = runs[k]
        /\ UNCHANGED <<processing, lease, cur, lapsed>>
    BY <1>13, NewRecord DEF lists
  <2>2. \A v \in Workers : pc'[v] = "complete" =>
          rec'[v] = rec[v] /\ rec[v] \in DOMAIN runs /\ pc[v] = "complete"
    BY <2>1 DEF Local
  <2> QED
    BY <2>1, <2>2
<1>14. ASSUME NEW w \in Workers,
            Prepare(w) \/ StreamEnds(w) \/ CheckResponse(w)
      PROVE ClosedFirst'
  BY <1>14
  DEF Prepare, StreamEnds, CheckResponse, Finish
<1>15. ASSUME NEW w \in Workers, WriteOutput(w) PROVE ClosedFirst'
  BY <1>15
  DEF WriteOutput, Finish
<1>16. ASSUME NEW w \in Workers, Fence(w) PROVE ClosedFirst'
  BY <1>16
  DEF Fence, Finish
<1>17. ASSUME NEW w \in Workers, Send(w) PROVE ClosedFirst'
  BY <1>17
  DEF Send, Finish
<1>18. ASSUME NEW w \in Workers, CloseRun(w) PROVE ClosedFirst'
  <2>1. out[w] \in Closed /\ rec[w] \in DOMAIN runs /\ out[w] # "running"
    BY <1>18 DEF CloseRun, Local, Closed
  <2>b. runs'[rec[w]].status # "running"
    BY <1>18, RunClosed
  <2>3. /\ runs'[rec[w]].status # "running" /\ DOMAIN runs' = DOMAIN runs
        /\ \E x \in {"release", "complete"} : pc' = [pc EXCEPT ![w] = x]
        /\ UNCHANGED rec
    BY <1>18, <2>1, <2>b DEF CloseRun, UpsertRun
  <2> QED
    BY <2>3
<1>19. ASSUME NEW w \in Workers,
            ReleaseLease(w) \/ ReleaseFails(w)
      PROVE ClosedFirst'
  <2>1. pc' = [pc EXCEPT ![w] = "idle"] /\ UNCHANGED <<runs>>
        /\ rec' = [rec EXCEPT ![w] = 0]
    BY <1>19 DEF ReleaseLease, ReleaseFails, Reset
  <2> QED
    BY <2>1
<1>20. ASSUME NEW w \in Workers,
            Heartbeat(w) \/ Shutdown(w) \/ HeartbeatFails(w)
      PROVE ClosedFirst'
  BY <1>20
  DEF Heartbeat, Shutdown, HeartbeatFails, Faulty
<1>21. ASSUME NEW w \in Workers, Crash(w) PROVE ClosedFirst'
  BY <1>21
  DEF Crash, Reset, Interrupted, Faulty
<1>22. ASSUME NEW w \in Workers, Throw(w) PROVE ClosedFirst'
  <2>1. /\ UNCHANGED <<rec, runs>>
        /\ \E x \in {"release", "close"} : pc' = [pc EXCEPT ![w] = x]
    BY <1>22 DEF Throw, Finish
  <2> QED
    BY <2>1
<1>23. CASE OrphanExpires \/ LeaseLapses
  BY <1>23
  DEF OrphanExpires, LeaseLapses, Interrupted, Faulty
<1>24. CASE UNCHANGED vars
  BY <1>24
  DEF vars
<1> QED
  BY <1>1, <1>2, <1>3, <1>4, <1>5, <1>6, <1>7, <1>8, <1>9, <1>10, <1>11,
     <1>12, <1>13, <1>14, <1>15, <1>16, <1>17, <1>18, <1>19, <1>20, <1>21,
     <1>22, <1>23, <1>24 DEF Next, Step, Dashboard, Removes

(* Every step keeps the owner alone with its run.                           *)
LEMMA ExclusiveStep ==
  ASSUME TypeOK, Arrivals, InOrder, Local, ClosedFirst,
         Exclusive, NoGhostRun, [Next]_vars
  PROVE Exclusive'
<1>a. /\ \A k \in DOMAIN runs : k \in DOMAIN runs'
      /\ \A k \in DOMAIN runs : runs'[k].status = "running" => runs[k].status = "running"
  BY Recorded
<1>b. /\ DOMAIN runs \subseteq Nat \ {0} /\ Len(runs) + 1 \notin DOMAIN runs
      /\ Len(runs) + 1 # 0
  BY DEF TypeOK
<1>c. \A w \in Workers : rec[w] # 0 => rec[w] \in DOMAIN runs
  BY DEF TypeOK
<1>d. \A w \in Workers : pc[w] = "complete" => ~Running(rec[w])
  BY DEF ClosedFirst
<1>e. processing = <<>> => Range(processing) = {}
  BY EmptyList DEF TypeOK
<1> USE <1>a, <1>c, <1>d
    DEF Exclusive, Running, TypeOK, Goto, InRun, Recovering, AfterPop, lists,
         records, redis, local, history
<1>1. ASSUME NEW r \in Requests, Enqueue(r) PROVE Exclusive'
  BY <1>1
  DEF Enqueue
<1>2. ASSUME NEW r \in Requests, Withdraw(r) PROVE Exclusive'
  BY <1>2
  DEF Withdraw
<1>3. ASSUME NEW i \in DOMAIN runs, FlagRun(i) PROVE Exclusive'
  BY <1>3
  DEF FlagRun
<1>4. ASSUME NEW i \in DOMAIN runs, StopRecord(i) PROVE Exclusive'
  <2>1. DOMAIN runs' = DOMAIN runs /\ UNCHANGED <<pc, rec, cur, lease, processing, lapsed>>
    BY <1>4 DEF StopRecord
  <2> QED
    BY <2>1
<1>5. ASSUME NEW w \in Workers,
            AcquireLease(w) \/ Reclaim(w) \/ CheckOwner(w)
      PROVE Exclusive'
  <2>1. CASE AcquireLease(w)
    BY <2>1, NamesAssumption DEF AcquireLease
  <2>2. CASE Reclaim(w)
    <3>1. pc[w] = "reclaim" /\ rec[w] = 0
      BY <2>2 DEF Reclaim, Local
    <3>2. ~lapsed /\ processing = <<>> => \A i \in DOMAIN runs : ~Running(i)
      <4> SUFFICES ASSUME ~lapsed, processing = <<>>, NEW i \in DOMAIN runs, Running(i)
                   PROVE FALSE
        OBVIOUS
      <4>1. PICK v \in Workers : rec[v] = i
        BY DEF NoGhostRun
      <4>2. pc[v] # "idle"
        BY <4>1, <1>b DEF Local
      <4> QED
        BY <3>1, <4>1, <4>2, <1>b
    <3> QED
      BY <2>2, <3>1, <3>2 DEF Reclaim
  <2>3. CASE CheckOwner(w)
    BY <2>3 DEF CheckOwner, Local
  <2> QED
    BY <1>5, <2>1, <2>2, <2>3
<1>6. ASSUME NEW w \in Workers, CleanPhases(w) PROVE Exclusive'
  BY <1>6
  DEF CleanPhases
<1>7. ASSUME NEW w \in Workers, CloseInterrupted(w) PROVE Exclusive'
  <2>1. /\ DOMAIN runs' = DOMAIN runs /\ UNCHANGED <<rec, lease, processing, cur, lapsed>>
        /\ pc[w] = "interrupted" /\ rec[w] = 0
        /\ \E x \in {"release", "requeue"} : pc' = [pc EXCEPT ![w] = x]
    BY <1>7 DEF CloseInterrupted, Local
  <2>2. runs \in Seq(RunRecords)
    BY DEF RunRecords
  <2>3. lease = w => \A k \in DOMAIN runs : runs'[k].status # "running"
    BY <1>7, <2>2, RunsAbandoned DEF CloseInterrupted
  <2> QED
    BY <2>1, <2>3
<1>8. ASSUME NEW w \in Workers, Requeue(w) PROVE Exclusive'
  <2>1. CASE lease = w
    <3>1. /\ pc[w] = "requeue" /\ pc' = [pc EXCEPT ![w] = "schedule"]
          /\ UNCHANGED <<lease, runs, rec, cur, lapsed>>
      BY <1>8, <2>1 DEF Requeue
    <3> QED
      BY <2>1, <3>1
  <2>2. CASE lease # w
    BY <1>8, <2>2 DEF Requeue, Local
  <2> QED
    BY <2>1, <2>2
<1>9. ASSUME NEW w \in Workers, Schedule(w) PROVE Exclusive'
  BY <1>9
  DEF Schedule
<1>10. ASSUME NEW w \in Workers, Pop(w) PROVE Exclusive'
  <2>1. CASE pc[w]' = "release"
    <3>1. /\ pc[w] = "pop" /\ pc' = [pc EXCEPT ![w] = "release"] /\ rec[w] = 0
          /\ UNCHANGED <<lease, runs, rec, cur, processing, lapsed>>
      BY <1>10, <2>1 DEF Pop, Local
    <3> QED
      BY <1>b, <3>1
  <2>2. CASE pc[w]' # "release"
    <3>1. /\ Head(queue) \in Requests /\ cur' = [cur EXCEPT ![w] = Head(queue)]
          /\ Range(processing') = Range(processing) \cup {Head(queue)}
          /\ pc' = [pc EXCEPT ![w] = "claim"]
      BY <1>10, <2>2, Claimed
    <3>2. pc[w] = "pop" /\ UNCHANGED <<lease, runs, rec, lapsed>>
      BY <1>10 DEF Pop
    <3> QED
      BY <3>1, <3>2
  <2> QED
    BY <2>1, <2>2
<1>11. ASSUME NEW w \in Workers, Claim(w) PROVE Exclusive'
  BY <1>11
  DEF Claim
<1>12. ASSUME NEW w \in Workers, RefreshClaim(w) \/ Removes(w) PROVE Exclusive'
  <2>1. /\ pc[w] \in {"refresh", "poison", "forget", "complete"}
        /\ UNCHANGED <<runs, rec, cur, lease, lapsed>>
        /\ \E x \in {"record", "poison", "forget", "release"} : pc' = [pc EXCEPT ![w] = x]
        /\ pc[w] # "refresh" => UNCHANGED processing \/ pc[w]' \in {"forget", "release"}
        /\ pc[w] = "refresh" => UNCHANGED processing
        /\ pc'[w] \in AfterPop => pc[w] \in AfterPop
    BY <1>12 DEF RefreshClaim, Removes, DropPoison, ForgetPoison, Complete
  <2>2. ~Running(rec[w])
    BY <1>b, <2>1 DEF Local
  <2>3. CASE UNCHANGED processing
    BY <2>1, <2>2, <2>3 DEF Local
  <2>4. CASE pc[w]' \in {"forget", "release"}
    BY <2>1, <2>2, <2>4
  <2> QED
    BY <1>12, <2>3, <2>4, Unclaimed
<1>13. ASSUME NEW w \in Workers, RecordRun(w) PROVE Exclusive'
  <2>1. /\ pc' = [pc EXCEPT ![w] = "prepare"] /\ pc[w] = "record"
        /\ rec' = [rec EXCEPT ![w] = Len(runs) + 1]
        /\ DOMAIN runs' = DOMAIN runs \cup {Len(runs) + 1}
        /\ \A k \in DOMAIN runs : runs'[k] = runs[k]
        /\ UNCHANGED <<processing, lease, cur, lapsed>>
    BY <1>13, NewRecord DEF lists
  <2>2. \A v \in Workers : pc[v] \notin {"idle", "release"} /\ v # w => lapsed
    BY <2>1
  <2>3. rec[w] = 0 /\ rec'[w] = Len(runs) + 1
    BY <2>1 DEF Local
  <2>4. ~lapsed => \A i \in DOMAIN runs : ~Running(i)
    BY <1>b, <2>1, <2>3
  <2> QED
    BY <2>1, <2>2, <2>3, <2>4
<1>14. ASSUME NEW w \in Workers,
            Prepare(w) \/ StreamEnds(w) \/ CheckResponse(w)
      PROVE Exclusive'
  <2>1. /\ UNCHANGED <<rec, runs, cur, lease, processing, lapsed>> /\ pc[w] \in InRun
        /\ \E x \in InRun : pc' = [pc EXCEPT ![w] = x]
    BY <1>14 DEF Prepare, StreamEnds, CheckResponse, Finish
  <2> QED
    BY <2>1
<1>15. ASSUME NEW w \in Workers, WriteOutput(w) PROVE Exclusive'
  <2>1. /\ UNCHANGED <<rec, runs, cur, lease, processing, lapsed>> /\ pc[w] \in InRun
        /\ \E x \in InRun : pc' = [pc EXCEPT ![w] = x]
    BY <1>15 DEF WriteOutput, Finish
  <2> QED
    BY <2>1
<1>16. ASSUME NEW w \in Workers, Fence(w) PROVE Exclusive'
  <2>1. /\ UNCHANGED <<rec, runs, cur, lease, processing, lapsed>> /\ pc[w] \in InRun
        /\ \E x \in InRun : pc' = [pc EXCEPT ![w] = x]
    BY <1>16 DEF Fence, Finish
  <2> QED
    BY <2>1
<1>17. ASSUME NEW w \in Workers, Send(w) PROVE Exclusive'
  BY <1>17
  DEF Send, Finish
<1>18. ASSUME NEW w \in Workers, CloseRun(w) PROVE Exclusive'
  <2>1. out[w] \in Closed /\ rec[w] \in DOMAIN runs /\ out[w] # "running"
    BY <1>18 DEF CloseRun, Local, Closed
  <2>b. runs'[rec[w]].status # "running"
    BY <1>18, RunClosed
  <2>3. /\ runs'[rec[w]].status # "running" /\ DOMAIN runs' = DOMAIN runs
        /\ pc[w] = "close" /\ \E x \in {"release", "complete"} : pc' = [pc EXCEPT ![w] = x]
        /\ UNCHANGED <<rec, cur, lease, processing, lapsed>>
    BY <1>18, <2>1, <2>b DEF CloseRun, UpsertRun
  <2>4. \A k \in DOMAIN runs : Running(k)' => Running(k) /\ k # rec[w]
    BY <2>3
  <2>5. pc[w]' \in {"release", "complete"} /\ \A v \in Workers \ {w} : pc'[v] = pc[v]
    BY <2>3
  <2> QED
    BY <2>1, <2>3, <2>4, <2>5
<1>19. ASSUME NEW w \in Workers,
            ReleaseLease(w) \/ ReleaseFails(w)
      PROVE Exclusive'
  <2>1. /\ pc[w] = "release" /\ pc' = [pc EXCEPT ![w] = "idle"]
        /\ rec' = [rec EXCEPT ![w] = 0] /\ cur' = [cur EXCEPT ![w] = None]
        /\ UNCHANGED <<runs, processing, lapsed>> /\ (lease # w => lease' = lease)
    BY <1>19 DEF ReleaseLease, ReleaseFails, Reset
  <2> QED
    BY <2>1
<1>20. ASSUME NEW w \in Workers,
            Heartbeat(w) \/ Shutdown(w) \/ HeartbeatFails(w)
      PROVE Exclusive'
  BY <1>20
  DEF Heartbeat, Shutdown, HeartbeatFails, Faulty
<1>21. ASSUME NEW w \in Workers, Crash(w) PROVE Exclusive'
  <2>1. /\ pc[w] # "idle" /\ pc' = [pc EXCEPT ![w] = "idle"]
        /\ rec' = [rec EXCEPT ![w] = 0] /\ cur' = [cur EXCEPT ![w] = None]
        /\ UNCHANGED <<runs, processing, lapsed>> /\ (lease # w => lease' = lease)
    BY <1>21 DEF Crash, Reset
  <2> QED
    BY <2>1
<1>22. ASSUME NEW w \in Workers, Throw(w) PROVE Exclusive'
  <2>1. /\ UNCHANGED <<rec, runs, cur, lease, processing, lapsed>> /\ pc[w] # "idle"
        /\ \/ pc' = [pc EXCEPT ![w] = "release"]
           \/ pc[w] \in InRun \cup {"complete"} /\ pc' = [pc EXCEPT ![w] = "close"]
    BY <1>22 DEF Throw, Finish
  <2>2. /\ Running(rec[w]) => pc[w] \in InRun \cup {"release"}
        /\ ~lapsed /\ pc[w] \in InRun => processing # <<>>
    BY <1>b, <1>e DEF Local
  <2>3. CASE pc' = [pc EXCEPT ![w] = "release"]
    BY <2>1, <2>2, <2>3
  <2>4. CASE pc[w] \in InRun \cup {"complete"} /\ pc' = [pc EXCEPT ![w] = "close"]
    <3>1. ~lapsed => cur[w] \in Range(processing)
      BY <2>4
    <3> QED
      BY <2>1, <2>4, <3>1
  <2> QED
    BY <2>1, <2>3, <2>4
<1>23. CASE OrphanExpires \/ LeaseLapses
  <2>1. CASE OrphanExpires
    BY <2>1, NamesAssumption DEF OrphanExpires
  <2>2. CASE LeaseLapses
    BY <2>2 DEF LeaseLapses
  <2> QED
    BY <1>23, <2>1, <2>2
<1>24. CASE UNCHANGED vars
  BY <1>24
  DEF vars
<1> QED
  BY <1>1, <1>2, <1>3, <1>4, <1>5, <1>6, <1>7, <1>8, <1>9, <1>10, <1>11,
     <1>12, <1>13, <1>14, <1>15, <1>16, <1>17, <1>18, <1>19, <1>20, <1>21,
     <1>22, <1>23, <1>24 DEF Next, Step, Dashboard, Removes

(* Every open record has a worker or a claim.                               *)
LEMMA GhostStep ==
  ASSUME TypeOK, Local, ClosedFirst, Exclusive, NoGhostRun,
         [Next]_vars
  PROVE NoGhostRun'
<1>a. /\ \A k \in DOMAIN runs : k \in DOMAIN runs'
      /\ \A k \in DOMAIN runs : runs'[k].status = "running" => runs[k].status = "running"
  BY Recorded
<1>b. /\ DOMAIN runs \subseteq Nat \ {0} /\ Len(runs) + 1 \notin DOMAIN runs
      /\ Len(runs) + 1 # 0
  BY DEF TypeOK
<1>c. \A w \in Workers : rec[w] # 0 => rec[w] \in DOMAIN runs
  BY DEF TypeOK
<1>d. \A w \in Workers : pc[w] = "complete" => ~Running(rec[w])
  BY DEF ClosedFirst
<1>e. processing = <<>> => Range(processing) = {}
  BY EmptyList DEF TypeOK
<1> USE <1>a, <1>c
    DEF NoGhostRun, Exclusive, Running, TypeOK, Goto, InRun, Recovering,
         AfterPop, lists, records, redis, local, history
<1>1. ASSUME NEW r \in Requests, Enqueue(r) PROVE NoGhostRun'
  BY <1>1
  DEF Enqueue
<1>2. ASSUME NEW r \in Requests, Withdraw(r) PROVE NoGhostRun'
  BY <1>2
  DEF Withdraw
<1>3. ASSUME NEW i \in DOMAIN runs, FlagRun(i) PROVE NoGhostRun'
  BY <1>3
  DEF FlagRun
<1>4. ASSUME NEW i \in DOMAIN runs, StopRecord(i) PROVE NoGhostRun'
  <2>1. DOMAIN runs' = DOMAIN runs /\ UNCHANGED <<rec, processing, lapsed>>
    BY <1>4 DEF StopRecord
  <2> QED
    BY <2>1
<1>5. ASSUME NEW w \in Workers,
            AcquireLease(w) \/ Reclaim(w) \/ CheckOwner(w)
      PROVE NoGhostRun'
  BY <1>5
  DEF AcquireLease, Reclaim, CheckOwner
<1>6. ASSUME NEW w \in Workers, CleanPhases(w) PROVE NoGhostRun'
  BY <1>6
  DEF CleanPhases
<1>7. ASSUME NEW w \in Workers, CloseInterrupted(w) PROVE NoGhostRun'
  <2>1. DOMAIN runs' = DOMAIN runs /\ UNCHANGED <<rec, processing, lapsed>>
    BY <1>7 DEF CloseInterrupted
  <2> QED
    BY <2>1
<1>8. ASSUME NEW w \in Workers, Requeue(w) PROVE NoGhostRun'
  <2>1. CASE lease = w
    <3>1. pc[w] = "requeue" /\ UNCHANGED <<runs, rec, lapsed>>
      BY <1>8 DEF Requeue
    <3> QED
      BY <2>1, <3>1
  <2>2. CASE lease # w
    BY <1>8, <2>2 DEF Requeue
  <2> QED
    BY <2>1, <2>2
<1>9. ASSUME NEW w \in Workers, Schedule(w) PROVE NoGhostRun'
  BY <1>9
  DEF Schedule
<1>10. ASSUME NEW w \in Workers, Pop(w) PROVE NoGhostRun'
  <2>1. processing' # <<>> \/ UNCHANGED processing
    BY <1>10 DEF Pop
  <2> QED
    BY <1>10, <2>1 DEF Pop
<1>11. ASSUME NEW w \in Workers, Claim(w) PROVE NoGhostRun'
  BY <1>11
  DEF Claim
<1>12. ASSUME NEW w \in Workers,
            RefreshClaim(w) \/ Removes(w)
      PROVE NoGhostRun'
  <2>1. pc[w] \in {"refresh", "poison", "forget", "complete"} /\ UNCHANGED <<runs, rec, lapsed>>
    BY <1>12 DEF RefreshClaim, Removes, DropPoison, ForgetPoison, Complete
  <2> QED
    BY <2>1
<1>13. ASSUME NEW w \in Workers, RecordRun(w) PROVE NoGhostRun'
  <2>1. /\ pc' = [pc EXCEPT ![w] = "prepare"] /\ pc[w] = "record"
        /\ rec' = [rec EXCEPT ![w] = Len(runs) + 1]
        /\ DOMAIN runs' = DOMAIN runs \cup {Len(runs) + 1}
        /\ \A k \in DOMAIN runs : runs'[k] = runs[k]
        /\ UNCHANGED <<processing, lease, cur, lapsed>>
    BY <1>13, NewRecord DEF lists
  <2>a. rec[w] = 0
    BY <2>1 DEF Local
  <2>2. rec[w] = 0 /\ rec'[w] = Len(runs) + 1 /\ \A v \in Workers \ {w} : rec'[v] = rec[v]
    BY <2>1, <2>a
  <2> QED
    BY <1>b, <2>1, <2>2
<1>14. ASSUME NEW w \in Workers,
            Prepare(w) \/ StreamEnds(w) \/ CheckResponse(w)
      PROVE NoGhostRun'
  BY <1>14
  DEF Prepare, StreamEnds, CheckResponse, Finish
<1>15. ASSUME NEW w \in Workers, WriteOutput(w) PROVE NoGhostRun'
  BY <1>15
  DEF WriteOutput, Finish
<1>16. ASSUME NEW w \in Workers, Fence(w) PROVE NoGhostRun'
  BY <1>16
  DEF Fence, Finish
<1>17. ASSUME NEW w \in Workers, Send(w) PROVE NoGhostRun'
  BY <1>17
  DEF Send, Finish
<1>18. ASSUME NEW w \in Workers, CloseRun(w) PROVE NoGhostRun'
  <2>1. DOMAIN runs' = DOMAIN runs /\ UNCHANGED <<rec, processing, lapsed>>
    BY <1>18 DEF CloseRun, UpsertRun
  <2> QED
    BY <2>1
<1>19. ASSUME NEW w \in Workers,
            ReleaseLease(w) \/ ReleaseFails(w)
      PROVE NoGhostRun'
  <2>1. /\ pc[w] = "release" /\ rec' = [rec EXCEPT ![w] = 0]
        /\ UNCHANGED <<runs, processing, lapsed>>
    BY <1>19 DEF ReleaseLease, ReleaseFails, Reset
  <2>2. ~lapsed /\ Running(rec[w]) => processing # <<>>
    BY <2>1
  <2> QED
    BY <2>1, <2>2
<1>20. ASSUME NEW w \in Workers,
            Heartbeat(w) \/ Shutdown(w) \/ HeartbeatFails(w)
      PROVE NoGhostRun'
  BY <1>20
  DEF Heartbeat, Shutdown, HeartbeatFails, Faulty
<1>21. ASSUME NEW w \in Workers, Crash(w) PROVE NoGhostRun'
  <2>1. rec' = [rec EXCEPT ![w] = 0] /\ UNCHANGED <<runs, processing, lapsed>>
    BY <1>21 DEF Crash, Reset
  <2>2. ~lapsed /\ Running(rec[w]) => processing # <<>>
    BY <1>b, <1>d, <1>e DEF Local
  <2> QED
    BY <2>1, <2>2
<1>22. ASSUME NEW w \in Workers, Throw(w) PROVE NoGhostRun'
  BY <1>22
  DEF Throw, Finish, Interrupted, Faulty
<1>23. CASE OrphanExpires \/ LeaseLapses
  <2>1. UNCHANGED <<rec, runs, processing>> /\ (lapsed => lapsed')
    BY <1>23 DEF OrphanExpires, LeaseLapses
  <2> QED
    BY <2>1
<1>24. CASE UNCHANGED vars
  BY <1>24
  DEF vars
<1> QED
  BY <1>1, <1>2, <1>3, <1>4, <1>5, <1>6, <1>7, <1>8, <1>9, <1>10, <1>11,
     <1>12, <1>13, <1>14, <1>15, <1>16, <1>17, <1>18, <1>19, <1>20, <1>21,
     <1>22, <1>23, <1>24 DEF Next, Step, Dashboard, Removes

(***************************************************************************)
(* Theorems                                                                *)
(***************************************************************************)

LEMMA InvInit == ASSUME Init PROVE IInv
<1>1. Range(<<>>) = {} /\ DOMAIN <<>> = {} /\ <<>> \in Seq(Requests)
      /\ <<>> \in Seq([req : Requests, status : Closed \cup {"running"}])
  BY DEF Range
<1>2. /\ queue = <<>> /\ processing = <<>> /\ runs = <<>> /\ arrived = <<>>
      /\ lease = None /\ flags = {} /\ fed = {} /\ stops = {} /\ withdrawn = {}
      /\ gap = {} /\ lapsed = FALSE /\ faults = MaxFaults
      /\ \A r \in Requests : phase[r] = None /\ sent[r] = 0
      /\ \A w \in Workers : /\ pc[w] = "idle" /\ cur[w] = None /\ rec[w] = 0
                            /\ out[w] = None
  BY DEF Init
<1>3. TypeOK
  <2>1. /\ phase \in [Requests -> {None, "claimed", "started"}]
        /\ pc \in [Workers -> {"idle"}] /\ cur \in [Workers -> {None}]
        /\ rec \in [Workers -> {0}] /\ out \in [Workers -> {None}]
        /\ abort \in [Workers -> BOOLEAN] /\ stopping \in [Workers -> BOOLEAN]
        /\ sent \in [Requests -> 0..2] /\ faults \in 0..MaxFaults
    BY BoundsAssumption DEF Init
  <2> QED
    BY <1>1, <1>2, <2>1 DEF TypeOK
<1>4. Arrivals /\ InOrder /\ NothingLost
  BY <1>1, <1>2 DEF Arrivals, InOrder, NothingLost, New
<1>5. Local /\ OwnRun /\ ClosedFirst
  BY <1>2 DEF Local, OwnRun, ClosedFirst, AfterPop, InRun
<1>6. Once
  <2>1. \A r \in Requests : phase[r] # "claimed" /\ phase[r] # "started"
    BY <1>2 DEF None
  <2> QED
    BY <1>1, <1>2, <2>1 DEF Once, WaitingFresh, ClaimFresh, DispatchedKnown, OwnClaim,
       OneSender, Dispatched, Sending, Claiming
<1>7. Traced
  BY <1>1, <1>2 DEF Traced, None
<1>8. Exclusive /\ NoGhostRun
  BY <1>1, <1>2 DEF Exclusive, NoGhostRun, Running, Recovering, AfterPop, InRun
<1> QED
  BY <1>3, <1>4, <1>5, <1>6, <1>7, <1>8 DEF IInv

LEMMA InvStep == ASSUME IInv, [Next]_vars PROVE IInv'
BY TypeStep, ArrivalsStep, InOrderStep, LocalStep, OnceStep, TracedStep, LostStep,
   OwnRunStep, ClosedFirstStep, ExclusiveStep, GhostStep DEF IInv

LEMMA Invariant == Spec => []IInv
<1>1. Init => IInv
  BY InvInit
<1>2. IInv /\ [Next]_vars => IInv'
  BY InvStep
<1> QED
  BY <1>1, <1>2, PTL DEF Spec

(* Types: queue entries, phases, records and what workers hold.             *)
THEOREM TypeCorrect == Spec => []TypeOK
<1>1. IInv => TypeOK
  BY DEF IInv
<1> QED
  BY <1>1, Invariant, PTL

(* A request reaches the backend at most once, for any number of workers,   *)
(* requests, crashes and lapses of the lease: mark_backend_started checks   *)
(* lease and phase together, reclaim_processing queues a claim again only   *)
(* while its phase still says claimed.                                      *)
THEOREM DispatchedAtMostOnce == Spec => []DispatchedOnce
<1>1. IInv => DispatchedOnce
  BY DEF IInv, Once, OneSender, TypeOK, DispatchedOnce
<1> QED
  BY <1>1, Invariant, PTL

(* Of two requests in the lists the one listed first arrived first.         *)
LEMMA Oldest == ASSUME TypeOK, Arrivals, InOrder PROVE OldestFirst
<1> DEFINE waiting == processing \o queue
           Place(r) == CHOOSE i \in DOMAIN arrived : arrived[i] = r
<1>1. \A r, s : Before(r, s) => Place(r) < Place(s)
  <2> SUFFICES ASSUME NEW r, NEW s, NEW i \in DOMAIN arrived, NEW j \in DOMAIN arrived,
                      i < j, arrived[i] = r, arrived[j] = s
               PROVE Place(r) < Place(s)
    BY DEF Before
  <2>1. Place(r) \in DOMAIN arrived /\ arrived[Place(r)] = r
    OBVIOUS
  <2>2. Place(s) \in DOMAIN arrived /\ arrived[Place(s)] = s
    OBVIOUS
  <2>3. Place(r) = i /\ Place(s) = j
    BY <2>1, <2>2 DEF Arrivals
  <2> QED
    BY <2>3
<1>2. /\ Len(processing) \in Nat /\ DOMAIN processing = 1..Len(processing)
      /\ DOMAIN waiting \subseteq Nat
      /\ \A i \in DOMAIN waiting : \/ i \in DOMAIN processing /\ waiting[i] = processing[i]
                                   \/ /\ i > Len(processing)
                                      /\ i - Len(processing) \in DOMAIN queue
                                      /\ waiting[i] = queue[i - Len(processing)]
  BY DEF TypeOK
<1>3. ASSUME NEW i \in DOMAIN waiting, NEW j \in DOMAIN waiting, i < j
      PROVE Before(waiting[i], waiting[j])
  <2>1. CASE j \in DOMAIN processing /\ waiting[j] = processing[j]
    <3>1. i \in DOMAIN processing /\ waiting[i] = processing[i]
      BY <1>2, <1>3, <2>1
    <3> QED
      BY <1>3, <2>1, <3>1 DEF InOrder
  <2>2. CASE /\ j - Len(processing) \in DOMAIN queue
             /\ waiting[j] = queue[j - Len(processing)]
    <3>1. CASE i \in DOMAIN processing /\ waiting[i] = processing[i]
      BY <2>2, <3>1 DEF InOrder
    <3>2. CASE /\ i - Len(processing) \in DOMAIN queue
               /\ waiting[i] = queue[i - Len(processing)]
      <4>1. i - Len(processing) < j - Len(processing)
        BY <1>2, <1>3
      <4> QED
        BY <2>2, <3>2, <4>1 DEF InOrder
    <3> QED
      BY <1>2, <3>1, <3>2
  <2> QED
    BY <1>2, <2>1, <2>2
<1> QED
  BY <1>1, <1>3 DEF OldestFirst

(* No request is lost without a trace, overtaken by a later one or left     *)
(* running by nobody, however workers crash, lose their lease and recover   *)
(* each other's claims (reclaim_processing, _abort_interrupted_runs).       *)
THEOREM RequestsAreKept == Spec => []RequestsKept
<1>1. IInv => RequestsKept
  BY Oldest DEF IInv, RequestsKept
<1> QED
  BY <1>1, Invariant, PTL

(* A worker that lost its lease writes no output once the next owner closed *)
(* its run as interrupted (set_text, append_feed_items with require_lease). *)
THEOREM OutputIsFresh == Spec => NoStaleOutput
<1>1. ASSUME IInv, [Next]_vars
      PROVE \A i \in fed' \ fed : runs[i].status # "aborted"
  <2>1. fed' = fed \/ \E w \in Workers : WriteOutput(w)
    <3> USE DEF vars, redis, records, lists, local, history
    <3>1. ASSUME NEW w \in Workers, Step(w) PROVE fed' = fed \/ WriteOutput(w)
      BY <3>1 DEF Step, AcquireLease, Reclaim, CleanPhases, CloseInterrupted, Requeue,
         Schedule, CheckOwner, Pop, Claim, RefreshClaim, DropPoison, ForgetPoison, RecordRun, Prepare, Fence,
         Send, StreamEnds, CheckResponse, CloseRun, Complete, ReleaseLease
    <3>2. ASSUME NEW w \in Workers,
                 \/ Heartbeat(w) \/ Crash(w) \/ Shutdown(w) \/ Throw(w)
                 \/ HeartbeatFails(w) \/ ReleaseFails(w)
          PROVE fed' = fed
      BY <3>2 DEF Heartbeat, Crash, Shutdown, Throw, HeartbeatFails, ReleaseFails
    <3>3. CASE Dashboard \/ OrphanExpires \/ LeaseLapses \/ UNCHANGED vars
      BY <3>3 DEF Dashboard, Enqueue, Withdraw, FlagRun, StopRecord, OrphanExpires,
         LeaseLapses
    <3> QED
      BY <1>1, <3>1, <3>2, <3>3 DEF Next
  <2>2. ASSUME NEW w \in Workers, WriteOutput(w), NEW i \in fed' \ fed
        PROVE runs[i].status # "aborted"
    <3>1. pc[w] = "output" /\ lease = w /\ i = rec[w]
      BY <2>2 DEF WriteOutput
    <3> QED
      BY <1>1, <3>1 DEF IInv, OwnRun, InRun
  <2> QED
    BY <2>1, <2>2
<1> QED
  BY <1>1, Invariant, PTL DEF Spec, NoStaleOutput

=============================================================================
