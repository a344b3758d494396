----------------------------- MODULE WorkProofs -----------------------------
(***************************************************************************)
(* Proofs about document ingestion: whatever the batches, their documents, *)
(* limits and configuration, threads exclude each other, no document is    *)
(* written twice, and what is reported as indexed can be found; and about  *)
(* the runs of the tool service: one that was released stays gone.         *)
(***************************************************************************)
EXTENDS MCWork, FiniteSetTheorems, SequenceTheorems, WellFoundedInduction, TLAPS

(***************************************************************************)
(* The order of a batch                                                    *)
(***************************************************************************)

(* A set of positions has a first one.                                      *)
LEMMA FirstPosition ==
  ASSUME NEW S, S \subseteq Nat, S # {}
  PROVE  Min(S) \in S /\ \A i \in S : Min(S) <= i
<1>1. PICK i \in S : \A k \in S : ~(k < i)
  <2> DEFINE R == OpToRel(<, Nat)
  <2>1. IsWellFoundedOn(R, Nat)
    BY NatLessThanWellFounded
  <2>2. PICK x \in S : \A y \in S : ~(<<y, x>> \in R)
    <3> HIDE DEF R
    <3> QED BY <2>1, WFMin
  <2>3. \A y \in S : y < x => <<y, x>> \in R
    BY DEF OpToRel
  <2> QED BY <2>2, <2>3
<1>2. \E k \in S : \A l \in S : k <= l
  BY <1>1
<1> QED BY <1>2 DEF Min

(* Of two documents of a batch one comes first.                             *)
LEMMA OneComesFirst ==
  ASSUME NEW b \in Batches, NEW d \in Docs(b), NEW e \in Docs(b), d # e
  PROVE  e \in Earlier(b, d) \/ d \in Earlier(b, e)
<1> DEFINE At(x) == {i \in DOMAIN Refs[b] : Refs[b][i] = x}
<1>1. \A x \in Docs(b) : At(x) \subseteq Nat /\ At(x) # {}
  <2>1. Refs[b] \in Seq(ToSet(Refs[b]))
    BY IngestAssumption
  <2>2. DOMAIN Refs[b] \subseteq Nat
    BY <2>1
  <2> QED BY <2>2 DEF Docs, ToSet
<1>2. \A x \in Docs(b) : DedupRefs[b][x] = Min(At(x))
  BY DEF DedupRefs, Docs
<1>3. \A x \in Docs(b) : Min(At(x)) \in At(x)
  <2> SUFFICES ASSUME NEW x \in Docs(b) PROVE Min(At(x)) \in At(x)
    OBVIOUS
  <2> HIDE DEF At
  <2> QED BY <1>1, FirstPosition
<1>4. Min(At(d)) # Min(At(e))
  BY <1>3
<1>5. Min(At(d)) \in Nat /\ Min(At(e)) \in Nat
  <2> HIDE DEF At
  <2> QED BY <1>1, <1>3
<1> HIDE DEF At
<1> QED BY <1>2, <1>4, <1>5 DEF Earlier

(***************************************************************************)
(* The invariant                                                           *)
(***************************************************************************)

BatchStages == {"idle", "refused", "open", "answered", "cancelled"}
DocStages == {None, "fetching", "submitting", "waiting"} \cup Ended

IngestTypes ==
  /\ batch \in [Batches -> BatchStages] /\ doc \in [Jobs -> DocStages]
  /\ tries \in [Jobs -> Nat]
  /\ thread \in [Jobs -> {None, "queued", "extracting", "writing"}]
  /\ fresh \subseteq Jobs /\ recreate \in BOOLEAN
  /\ lock \in [Collections -> Jobs \cup {Free}]
  /\ tally \in [Batches -> SUBSET UNION {Docs(b) : b \in Batches}]
  /\ rows \in [Collections -> Seq(Jobs)]
  /\ replaced \in [Collections -> Batches \cup {None}]

Holding(j) == thread[j] \in {"extracting", "writing"}

(* A thread at work has its collection's lock.                              *)
Locked == \A j \in Jobs : Holding(j) => lock[Coll(j)] = j

(* A thread has a waiter, or one that timed out, or one whose client left.  *)
Waited ==
  \A j \in Jobs : thread[j] # None =>
    \/ doc[j] \in {"waiting", "timeout"}
    \/ doc[j] = "failure" /\ batch[j[1]] # "open"

(* Documents begin in a batch that was accepted, in their order.            *)
Accepted ==
  /\ \A b \in Batches : batch[b] = "open" => Writable(b)
  /\ \A j \in Jobs : doc[j] # None =>
       batch[j[1]] \notin {"idle", "refused"} /\ Writable(j[1])

InTurn ==
  \A b \in Batches : \A d \in Docs(b) : \A e \in Earlier(b, d) :
    doc[<<b, d>>] # None => doc[<<b, e>>] # None

(* What a batch has counted has ended.                                      *)
Counted ==
  \A b \in Batches :
    tally[b] \subseteq Docs(b) /\ \A d \in tally[b] : doc[<<b, d>>] \in Ended

(* What was written has settled, and was written once.                      *)
WrittenOnce ==
  \A c \in Collections :
    /\ \A i, k \in 1..Len(rows[c]) : rows[c][i] = rows[c][k] => i = k
    /\ \A i \in 1..Len(rows[c]) :
         Coll(rows[c][i]) = c /\ doc[rows[c][i]] \in Ended /\ thread[rows[c][i]] = None

Alive(j) == doc[j] \notin Ended \/ thread[j] # None

(* While the document that replaces the collection is under way, the ones   *)
(* before it have been counted without success, and no other is under way   *)
(* or will be.                                                              *)
Alone(b, e) ==
  /\ recreate
  /\ \A d \in Docs(b) : d # e => doc[<<b, d>>] \in {None} \cup (Ended \ {"success"})
  /\ Earlier(b, e) \subseteq tally[b]
  /\ e \in tally[b] /\ batch[b] = "open" => \A d \in Docs(b) : doc[<<b, d>>] # None

FreshAlone ==
  \A b \in Batches : \A e \in Docs(b) :
    <<b, e>> \in fresh => doc[<<b, e>>] # None /\ (Alive(<<b, e>>) => Alone(b, e))

(* A success is in its collection, unless another batch replaced it.        *)
Kept ==
  \A j \in Jobs :
    doc[j] = "success" /\ replaced[Coll(j)] \in {None, j[1]} =>
      \E i \in 1..Len(rows[Coll(j)]) : rows[Coll(j)][i] = j

IngestInv ==
  /\ IngestTypes /\ Locked /\ Waited /\ Accepted /\ InTurn /\ Counted
  /\ WrittenOnce /\ FreshAlone /\ Kept

(* The jobs are the documents of the batches.                               *)
LEMMA JobParts ==
  /\ \A j \in Jobs : j[1] \in Batches /\ j[2] \in Docs(j[1]) /\ j = <<j[1], j[2]>>
                     /\ Coll(j) \in Collections /\ j # Free
  /\ \A b \in Batches : \A d \in Docs(b) : <<b, d>> \in Jobs
  /\ \A b \in Batches : Resolve(b) \in Collections
<1>1. \A b \in Batches : b # None
  BY IngestAssumption
<1> QED BY <1>1 DEF Jobs, Coll, Collections, Free

(* The stages of documents and threads are told apart.                      *)
LEMMA Stages ==
  /\ None \notin {"fetching", "submitting", "waiting", "success", "failure", "timeout", "skipped",
                  "queued", "extracting", "writing"}
  /\ Ended = {"success", "failure", "timeout", "skipped"}
BY DEF None, Ended

(***************************************************************************)
(* Its steps                                                               *)
(***************************************************************************)

(* At the start no document has begun.                                      *)
LEMMA IngestStarts == IngestInit => IngestInv
<1> SUFFICES ASSUME IngestInit PROVE IngestInv
  OBVIOUS
<1> USE JobParts, Stages DEF IngestInit
<1>1. IngestTypes
  BY DEF IngestTypes, BatchStages, DocStages
<1>2. Locked /\ Waited /\ Accepted /\ InTurn /\ Counted /\ FreshAlone /\ Kept
  BY DEF Locked, Waited, Accepted, InTurn, Counted, FreshAlone, Kept, Holding, Earlier
<1>3. WrittenOnce
  BY DEF WrittenOnce
<1> QED BY <1>1, <1>2, <1>3 DEF IngestInv

(* Every step keeps the stages of batches, documents and threads.           *)
LEMMA TypesStep == IngestTypes /\ IngestNext => IngestTypes'
<1> SUFFICES ASSUME IngestTypes, IngestNext PROVE IngestTypes'
  OBVIOUS
<1> USE JobParts, Stages DEF IngestTypes, BatchStages, DocStages
<1>1. ASSUME NEW b \in Batches, Receive(b) PROVE IngestTypes'
  BY <1>1 DEF Receive
<1>2. ASSUME NEW b \in Batches, Disconnect(b) PROVE IngestTypes'
  <2>1. thread' \in [Jobs -> {None, "queued", "extracting", "writing"}]
    BY <1>2 DEF Disconnect, Leave, Unstarted
  <2>2. doc' \in [Jobs -> DocStages] /\ batch' \in [Batches -> BatchStages]
    BY <1>2 DEF Disconnect
  <2> QED BY <1>2, <2>1, <2>2 DEF Disconnect, Leave
<1>3. ASSUME NEW b \in Batches, NEW d \in Docs(b), Begin(b, d) PROVE IngestTypes'
  BY <1>3 DEF Begin
<1>4. ASSUME NEW b \in Batches, NEW d \in Docs(b), Accumulate(b, d) PROVE IngestTypes'
  <2>1. doc' \in [Jobs -> DocStages] /\ batch' \in [Batches -> BatchStages]
    BY <1>4 DEF Accumulate
  <2>2. tally' \in [Batches -> SUBSET UNION {Docs(a) : a \in Batches}]
    <3>1. PICK s \in SUBSET Docs(b) : tally' = [tally EXCEPT ![b] = @ \cup {d} \cup s]
      <4> DEFINE rest == {e \in Docs(b) : doc[<<b, e>>] = None}
                 skip == IF doc[<<b, d>>] = "timeout" THEN rest ELSE {}
      <4>1. skip \in SUBSET Docs(b) /\ tally' = [tally EXCEPT ![b] = @ \cup {d} \cup skip]
        BY <1>4 DEF Accumulate
      <4> QED BY <4>1
    <3> QED BY <3>1
  <2> QED BY <1>4, <2>1, <2>2 DEF Accumulate
<1>5. ASSUME NEW j \in Jobs, Fetch(j) \/ Submit(j) PROVE IngestTypes'
  <2>1. CASE Fetch(j)
    BY <2>1 DEF Fetch, Outcome
  <2>2. CASE Submit(j)
    BY <2>2 DEF Submit, Outcome
  <2> QED BY <1>5, <2>1, <2>2
<1>6. ASSUME NEW j \in Jobs, Acquire(j) PROVE IngestTypes'
  BY <1>6 DEF Acquire
<1>7. ASSUME NEW j \in Jobs, MarkWriteStarted(j) PROVE IngestTypes'
  BY <1>7 DEF MarkWriteStarted
<1>8. ASSUME NEW j \in Jobs, Timeout(j) PROVE IngestTypes'
  <2>1. thread' \in [Jobs -> {None, "queued", "extracting", "writing"}]
    BY <1>8 DEF Timeout, Leave, Unstarted
  <2> QED BY <1>8, <2>1 DEF Timeout, Leave, Outcome
<1>9. ASSUME NEW j \in Jobs, ThreadEnds(j) PROVE IngestTypes'
  <2>1. rows' \in [Collections -> Seq(Jobs)] /\ replaced' \in [Collections -> Batches \cup {None}]
    <3>1. CASE UNCHANGED <<rows, replaced>>
      BY <3>1
    <3>2. CASE Written(j) /\ j \in fresh
      <4>1. Append(<<>>, j) \in Seq(Jobs)
        OBVIOUS
      <4>2. rows' = [rows EXCEPT ![Coll(j)] = Append(<<>>, j)]
        BY <3>2 DEF Written
      <4> QED BY <3>2, <4>1, <4>2 DEF Written
    <3>3. CASE Written(j) /\ j \notin fresh
      <4>1. Append(rows[Coll(j)], j) \in Seq(Jobs)
        OBVIOUS
      <4>2. rows' = [rows EXCEPT ![Coll(j)] = Append(rows[Coll(j)], j)]
        BY <3>3 DEF Written
      <4> QED BY <3>3, <4>1, <4>2 DEF Written
    <3> QED BY <1>9, <3>1, <3>2, <3>3 DEF ThreadEnds
  <2>2. doc' \in [Jobs -> DocStages]
    BY <1>9 DEF ThreadEnds, AfterFailure
  <2> QED BY <1>9, <2>1, <2>2 DEF ThreadEnds, Settle
<1> QED BY <1>1, <1>2, <1>3, <1>4, <1>5, <1>6, <1>7, <1>8, <1>9 DEF IngestNext, DocumentStep

(* How documents and batches go on: what has ended stays as it ended, and   *)
(* success is a write's.                                                    *)
DocumentMoves(j) ==
  \/ doc'[j] = doc[j]
  \/ doc[j] = None /\ doc'[j] \in {"fetching", "skipped", "failure"} /\ batch[j[1]] = "open"
  \/ doc[j] \in {"fetching", "submitting", "waiting"}
     /\ doc'[j] \in {"submitting", "waiting", "failure", "timeout"}
  \/ doc[j] = "waiting" /\ doc'[j] = "success" /\ thread[j] = "writing"

BatchMoves(b) ==
  \/ batch'[b] = batch[b]
  \/ batch[b] = "idle" /\ batch'[b] = "refused"
  \/ batch[b] = "idle" /\ batch'[b] = "open" /\ Writable(b)
  \/ batch[b] = "open" /\ batch'[b] \in {"answered", "cancelled"}

(* Every step moves documents and batches in these ways only.               *)
LEMMA Moves ==
  ASSUME IngestTypes, IngestNext
  PROVE  (\A j \in Jobs : DocumentMoves(j)) /\ (\A b \in Batches : BatchMoves(b))
<1> USE JobParts, Stages DEF IngestTypes, BatchStages, DocStages
<1> DEFINE Goal == (\A j \in Jobs : DocumentMoves(j)) /\ (\A b \in Batches : BatchMoves(b))
<1>1. ASSUME NEW b \in Batches, Receive(b) PROVE Goal
  BY <1>1 DEF Receive, DocumentMoves, BatchMoves
<1>2. ASSUME NEW b \in Batches, Disconnect(b) PROVE Goal
  BY <1>2 DEF Disconnect, DocumentMoves, BatchMoves
<1>3. ASSUME NEW b \in Batches, NEW d \in Docs(b), Begin(b, d) PROVE Goal
  BY <1>3 DEF Begin, DocumentMoves, BatchMoves
<1>4. ASSUME NEW b \in Batches, NEW d \in Docs(b), Accumulate(b, d) PROVE Goal
  BY <1>4 DEF Accumulate, DocumentMoves, BatchMoves
<1>5. ASSUME NEW j \in Jobs, Fetch(j) PROVE Goal
  BY <1>5 DEF Fetch, Outcome, DocumentMoves, BatchMoves
<1>6. ASSUME NEW j \in Jobs, Submit(j) PROVE Goal
  BY <1>6 DEF Submit, Outcome, DocumentMoves, BatchMoves
<1>7. ASSUME NEW j \in Jobs, Acquire(j) \/ MarkWriteStarted(j) PROVE Goal
  BY <1>7 DEF Acquire, MarkWriteStarted, DocumentMoves, BatchMoves
<1>8. ASSUME NEW j \in Jobs, Timeout(j) PROVE Goal
  BY <1>8 DEF Timeout, Outcome, DocumentMoves, BatchMoves
<1>9. ASSUME NEW j \in Jobs, ThreadEnds(j) PROVE Goal
  BY <1>9 DEF ThreadEnds, AfterFailure, DocumentMoves, BatchMoves
<1> QED BY <1>1, <1>2, <1>3, <1>4, <1>5, <1>6, <1>7, <1>8, <1>9 DEF IngestNext, DocumentStep

(* How threads go on: they start for a document that waits.                 *)
ThreadMoves(j) ==
  \/ thread'[j] = thread[j] \/ thread'[j] = None
  \/ thread'[j] = "queued" /\ doc[j] = "submitting" /\ doc'[j] = "waiting"
  \/ thread[j] = "queued" /\ thread'[j] = "extracting" /\ lock[Coll(j)] = Free /\ lock'[Coll(j)] = j
  \/ thread[j] = "extracting" /\ thread'[j] = "writing"

(* Every step moves threads in these ways only.                             *)
LEMMA ThreadsMove ==
  ASSUME IngestTypes, IngestNext
  PROVE  \A j \in Jobs : ThreadMoves(j)
<1> USE JobParts, Stages DEF IngestTypes, BatchStages, DocStages
<1> DEFINE Goal == \A j \in Jobs : ThreadMoves(j)
<1>1. ASSUME NEW b \in Batches, Receive(b) \/ Disconnect(b) PROVE Goal
  BY <1>1 DEF Receive, Disconnect, Leave, Unstarted, ThreadMoves
<1>2. ASSUME NEW b \in Batches, NEW d \in Docs(b), Begin(b, d) \/ Accumulate(b, d) PROVE Goal
  BY <1>2 DEF Begin, Accumulate, ThreadMoves
<1>3. ASSUME NEW j \in Jobs, Fetch(j) \/ Timeout(j) PROVE Goal
  BY <1>3 DEF Fetch, Timeout, Leave, Unstarted, ThreadMoves
<1>4. ASSUME NEW j \in Jobs, Submit(j) PROVE Goal
  BY <1>4 DEF Submit, Outcome, ThreadMoves
<1>5. ASSUME NEW j \in Jobs, Acquire(j) PROVE Goal
  BY <1>5 DEF Acquire, ThreadMoves
<1>6. ASSUME NEW j \in Jobs, MarkWriteStarted(j) \/ ThreadEnds(j) PROVE Goal
  BY <1>6 DEF MarkWriteStarted, ThreadEnds, Settle, ThreadMoves
<1> QED BY <1>1, <1>2, <1>3, <1>4, <1>5, <1>6 DEF IngestNext, DocumentStep

(* Documents begin only in an open batch (_resolve_request).                *)
LEMMA AcceptedStep == IngestTypes /\ Accepted /\ IngestNext => Accepted'
BY Moves, JobParts, Stages DEF DocumentMoves, BatchMoves, Accepted, Writable, Resolve

(* No document overtakes an earlier one of its batch.                       *)
LEMMA InTurnStep == IngestTypes /\ InTurn /\ Counted /\ IngestNext => InTurn'
<1> SUFFICES ASSUME IngestTypes, InTurn, Counted, IngestNext,
                    NEW b \in Batches, NEW d \in Docs(b), NEW e \in Earlier(b, d),
                    doc'[<<b, d>>] # None, doc'[<<b, e>>] = None
             PROVE  FALSE
  BY DEF InTurn, Earlier, DedupRefs, Docs
<1>1. e \in Docs(b) /\ <<b, e>> \in Jobs /\ <<b, d>> \in Jobs /\ d # e
  BY JobParts DEF Earlier
<1>2. DocumentMoves(<<b, e>>) /\ DocumentMoves(<<b, d>>)
  BY <1>1, Moves
<1>3. doc[<<b, e>>] = None /\ doc[<<b, d>>] = None
  BY <1>1, <1>2, Stages DEF DocumentMoves, InTurn
<1> USE JobParts, Stages, <1>1, <1>3
<1>4. ASSUME NEW a \in Batches, NEW x \in Docs(a), Begin(a, x) PROVE FALSE
  <2>1. a = b /\ x = d
    BY <1>4 DEF Begin, IngestTypes
  <2>2. e \in tally[b] \/ doc[<<b, e>>] # None
    BY <1>4, <2>1 DEF Begin
  <2> QED BY <2>2 DEF Counted
<1>5. ASSUME NEW a \in Batches, NEW x \in Docs(a), Accumulate(a, x) PROVE FALSE
  BY <1>5 DEF Accumulate, IngestTypes
<1>6. ASSUME NEW a \in Batches, Receive(a) \/ Disconnect(a) PROVE FALSE
  BY <1>6 DEF Receive, Disconnect, IngestTypes
<1>7. ASSUME NEW j \in Jobs, DocumentStep(j) PROVE FALSE
  BY <1>7 DEF DocumentStep, Fetch, Submit, Acquire, MarkWriteStarted, ThreadEnds, Timeout, Outcome,
              IngestTypes
<1> QED BY <1>4, <1>5, <1>6, <1>7 DEF IngestNext

(* Only outcomes are counted (_accumulate).                                 *)
LEMMA CountedStep == IngestTypes /\ Counted /\ IngestNext => Counted'
<1> SUFFICES ASSUME IngestTypes, Counted, IngestNext, NEW b \in Batches, NEW d \in tally'[b]
             PROVE  d \in Docs(b) /\ doc'[<<b, d>>] \in Ended
  BY DEF Counted, Docs
<1>1. CASE d \in tally[b]
  <2>1. <<b, d>> \in Jobs
    BY <1>1, JobParts DEF Counted
  <2> QED BY <1>1, <2>1, Moves, Stages DEF DocumentMoves, Counted
<1>2. ASSUME d \notin tally[b], NEW a \in Batches, NEW x \in Docs(a), Accumulate(a, x)
      PROVE  d \in Docs(b) /\ doc'[<<b, d>>] \in Ended
  <2>1. a = b
    BY <1>2 DEF Accumulate, IngestTypes
  <2>2. d = x \/ (d \in Docs(b) /\ doc[<<b, d>>] = None /\ doc[<<b, x>>] = "timeout")
    BY <1>2, <2>1 DEF Accumulate, IngestTypes
  <2>3. d \in Docs(b) /\ <<b, d>> \in Jobs
    BY <1>2, <2>1, <2>2, JobParts
  <2> QED BY <1>2, <2>1, <2>2, <2>3, Stages DEF Accumulate, IngestTypes
<1>3. (\E a \in Batches : \E x \in Docs(a) : Accumulate(a, x)) \/ UNCHANGED tally
  BY DEF IngestNext, DocumentStep, Receive, Disconnect, Begin, Fetch, Submit, Acquire,
         MarkWriteStarted, ThreadEnds, Timeout
<1> QED BY <1>1, <1>2, <1>3

(* A lock is taken when it is free, and given back by its holder.           *)
LEMMA LockedStep == IngestTypes /\ Locked /\ IngestNext => Locked'
<1> SUFFICES ASSUME IngestTypes, Locked, IngestNext, NEW k \in Jobs, Holding(k)'
             PROVE  lock'[Coll(k)] = k
  BY DEF Locked, Coll, Resolve
<1> USE JobParts, Stages DEF Holding
<1>1. ASSUME NEW j \in Jobs, Acquire(j) PROVE lock'[Coll(k)] = k
  BY <1>1 DEF Acquire, IngestTypes, Locked
<1>2. ASSUME NEW j \in Jobs, ThreadEnds(j) PROVE lock'[Coll(k)] = k
  <2>1. k # j /\ Holding(k)
    BY <1>2 DEF ThreadEnds, Settle, IngestTypes
  <2>2. lock[Coll(k)] = k /\ lock[Coll(j)] = j
    BY <1>2, <2>1 DEF ThreadEnds, Locked
  <2> QED BY <1>2, <2>1, <2>2 DEF ThreadEnds, Settle, IngestTypes
<1>3. ASSUME UNCHANGED lock PROVE lock'[Coll(k)] = k
  <2>1. ThreadMoves(k)
    BY ThreadsMove
  <2>2. Holding(k) \/ (lock[Coll(k)] = Free /\ lock'[Coll(k)] = k)
    BY <2>1 DEF ThreadMoves
  <2> QED BY <1>3, <2>2 DEF Locked
<1>4. \/ \E j \in Jobs : Acquire(j) \/ ThreadEnds(j)
      \/ UNCHANGED lock
  BY DEF IngestNext, DocumentStep, Receive, Disconnect, Begin, Accumulate, Fetch, Submit,
         MarkWriteStarted, Timeout, Leave
<1> QED BY <1>1, <1>2, <1>3, <1>4

(* A thread outlives only a waiter that timed out or left.                  *)
LEMMA WaitedStep == IngestTypes /\ Waited /\ Accepted /\ IngestNext => Waited'
<1> SUFFICES ASSUME IngestTypes, Waited, Accepted, IngestNext, NEW k \in Jobs, thread'[k] # None
             PROVE  \/ doc'[k] \in {"waiting", "timeout"}
                    \/ doc'[k] = "failure" /\ batch'[k[1]] # "open"
  BY DEF Waited
<1> DEFINE Goal == \/ doc'[k] \in {"waiting", "timeout"}
                   \/ doc'[k] = "failure" /\ batch'[k[1]] # "open"
<1> USE JobParts, Stages DEF IngestTypes
<1>1. ASSUME NEW b \in Batches, Receive(b) PROVE Goal
  BY <1>1 DEF Receive, Waited, Accepted
<1>2. ASSUME NEW b \in Batches, Disconnect(b) PROVE Goal
  BY <1>2 DEF Disconnect, Leave, Unstarted, Waited
<1>3. ASSUME NEW b \in Batches, NEW d \in Docs(b), Begin(b, d) PROVE Goal
  BY <1>3 DEF Begin, Waited
<1>4. ASSUME NEW b \in Batches, NEW d \in Docs(b), Accumulate(b, d) PROVE Goal
  <2>1. thread'[k] = thread[k] /\ doc'[k] = doc[k]
    BY <1>4 DEF Accumulate, Waited
  <2>2. batch[k[1]] # "open" => batch'[k[1]] # "open"
    BY <1>4 DEF Accumulate
  <2> QED BY <2>1, <2>2 DEF Waited
<1>5. ASSUME NEW j \in Jobs, Fetch(j) PROVE Goal
  BY <1>5 DEF Fetch, Outcome, Waited
<1>6. ASSUME NEW j \in Jobs, Submit(j) PROVE Goal
  BY <1>6 DEF Submit, Outcome, Waited
<1>7. ASSUME NEW j \in Jobs, Acquire(j) \/ MarkWriteStarted(j) PROVE Goal
  BY <1>7 DEF Acquire, MarkWriteStarted, Waited
<1>8. ASSUME NEW j \in Jobs, Timeout(j) PROVE Goal
  BY <1>8 DEF Timeout, Leave, Unstarted, Outcome, Waited
<1>9. ASSUME NEW j \in Jobs, ThreadEnds(j) PROVE Goal
  BY <1>9 DEF ThreadEnds, Settle, Waited
<1> QED BY <1>1, <1>2, <1>3, <1>4, <1>5, <1>6, <1>7, <1>8, <1>9 DEF IngestNext, DocumentStep

(* What a write leaves in its collection: the document, after what was      *)
(* there or instead of it.                                                  *)
LEMMA Writes ==
  ASSUME IngestTypes, NEW j \in Jobs, Written(j)
  PROVE  /\ \A c \in Collections : c # Coll(j) => rows'[c] = rows[c] /\ replaced'[c] = replaced[c]
         /\ Len(rows'[Coll(j)]) \in Nat \ {0}
         /\ rows'[Coll(j)][Len(rows'[Coll(j)])] = j
         /\ j \in fresh => Len(rows'[Coll(j)]) = 1 /\ replaced'[Coll(j)] = j[1]
         /\ j \notin fresh =>
              /\ replaced' = replaced /\ Len(rows'[Coll(j)]) = Len(rows[Coll(j)]) + 1
              /\ \A i \in 1..Len(rows[Coll(j)]) : rows'[Coll(j)][i] = rows[Coll(j)][i]
<1> USE JobParts DEF IngestTypes
<1>1. CASE j \in fresh
  <2>1. rows' = [rows EXCEPT ![Coll(j)] = Append(<<>>, j)]
    BY <1>1 DEF Written
  <2>2. rows'[Coll(j)] = <<j>>
    BY <2>1
  <2> QED BY <1>1, <2>1, <2>2 DEF Written
<1>2. CASE j \notin fresh
  <2>1. rows' = [rows EXCEPT ![Coll(j)] = Append(rows[Coll(j)], j)]
    BY <1>2 DEF Written
  <2>2. rows'[Coll(j)] = Append(rows[Coll(j)], j) /\ rows[Coll(j)] \in Seq(Jobs)
    BY <2>1
  <2> QED BY <1>2, <2>1, <2>2 DEF Written
<1> QED BY <1>1, <1>2

(* A write, or nothing changes in any collection.                           *)
LEMMA WritesOrNot ==
  ASSUME IngestTypes, IngestNext
  PROVE  \/ \E j \in Jobs : ThreadEnds(j) /\ thread[j] = "writing" /\ Written(j)
         \/ UNCHANGED <<rows, replaced>>
<1>1. ASSUME NEW j \in Jobs, ThreadEnds(j)
      PROVE  (thread[j] = "writing" /\ Written(j)) \/ UNCHANGED <<rows, replaced>>
  BY <1>1 DEF ThreadEnds
<1>2. ASSUME NEW b \in Batches, \/ Receive(b) \/ Disconnect(b)
                                \/ \E d \in Docs(b) : Begin(b, d) \/ Accumulate(b, d)
      PROVE  UNCHANGED <<rows, replaced>>
  BY <1>2 DEF Receive, Disconnect, Begin, Accumulate
<1>3. ASSUME NEW j \in Jobs, DocumentStep(j), ~ThreadEnds(j) PROVE UNCHANGED <<rows, replaced>>
  BY <1>3 DEF DocumentStep, Fetch, Submit, Acquire, MarkWriteStarted, Timeout
<1> QED BY <1>1, <1>2, <1>3 DEF IngestNext

(* A document settles as it is written, and is not submitted again.         *)
LEMMA WrittenOnceStep == IngestTypes /\ Waited /\ WrittenOnce /\ IngestNext => WrittenOnce'
<1> SUFFICES ASSUME IngestTypes, Waited, WrittenOnce, IngestNext, NEW c \in Collections
             PROVE  /\ \A i, k \in 1..Len(rows'[c]) : rows'[c][i] = rows'[c][k] => i = k
                    /\ \A i \in 1..Len(rows'[c]) :
                         /\ Coll(rows'[c][i]) = c /\ doc'[rows'[c][i]] \in Ended
                         /\ thread'[rows'[c][i]] = None
  BY DEF WrittenOnce, Coll, Resolve, Collections
<1> USE JobParts, Stages
<1> DEFINE Settled(x) == Coll(x) = c /\ doc'[x] \in Ended /\ thread'[x] = None
<1>1. \A i \in 1..Len(rows[c]) : rows[c][i] \in Jobs
  BY DEF IngestTypes
<1>2. \A i \in 1..Len(rows[c]) : Settled(rows[c][i])
  <2> SUFFICES ASSUME NEW i \in 1..Len(rows[c]) PROVE Settled(rows[c][i])
    OBVIOUS
  <2>1. DocumentMoves(rows[c][i]) /\ ThreadMoves(rows[c][i])
    BY <1>1, Moves, ThreadsMove
  <2>2. Coll(rows[c][i]) = c /\ doc[rows[c][i]] \in Ended /\ thread[rows[c][i]] = None
    BY DEF WrittenOnce
  <2> QED BY <2>1, <2>2 DEF DocumentMoves, ThreadMoves
<1>3. CASE rows'[c] = rows[c]
  BY <1>2, <1>3 DEF WrittenOnce
<1>4. ASSUME NEW j \in Jobs, ThreadEnds(j), thread[j] = "writing", Written(j), c = Coll(j)
      PROVE  /\ \A i, k \in 1..Len(rows'[c]) : rows'[c][i] = rows'[c][k] => i = k
             /\ \A i \in 1..Len(rows'[c]) : Settled(rows'[c][i])
  <2>1. \A i \in 1..Len(rows[c]) : rows[c][i] # j
    BY <1>4 DEF WrittenOnce
  <2>2. Settled(j)
    BY <1>4 DEF ThreadEnds, Settle, AfterFailure, Waited, IngestTypes
  <2>3. Len(rows[c]) \in Nat
    BY DEF IngestTypes
  <2>4. CASE j \in fresh
    BY <1>4, <2>2, <2>4, Writes
  <2>5. CASE j \notin fresh
    <3> HIDE DEF Settled
    <3>1. /\ Len(rows'[c]) = Len(rows[c]) + 1 /\ rows'[c][Len(rows[c]) + 1] = j
          /\ \A i \in 1..Len(rows[c]) : rows'[c][i] = rows[c][i]
      BY <1>4, <2>5, Writes
    <3>2. \A i \in 1..Len(rows'[c]) : i \in 1..Len(rows[c]) \/ i = Len(rows[c]) + 1
      BY <2>3, <3>1
    <3>3. \A i, k \in 1..Len(rows[c]) : rows[c][i] = rows[c][k] => i = k
      BY DEF WrittenOnce
    <3> QED BY <1>2, <2>1, <2>2, <3>1, <3>2, <3>3
  <2> QED BY <2>4, <2>5
<1> QED BY <1>3, <1>4, WritesOrNot, Writes

(* Who begins a document, and who counts one.                               *)
LEMMA WhoBegins ==
  ASSUME IngestTypes, IngestNext
  PROVE  /\ \A j \in Jobs : doc'[j] = "fetching" => doc[j] = "fetching" \/ Begin(j[1], j[2])
         /\ \A j \in fresh' : j \in fresh \/ (Begin(j[1], j[2]) /\ Replaces(j[1]) /\ j \in Jobs)
         /\ recreate' = recreate
<1> USE JobParts, Stages DEF IngestTypes
<1> DEFINE Goal ==
         /\ \A j \in Jobs : doc'[j] = "fetching" => doc[j] = "fetching" \/ Begin(j[1], j[2])
         /\ \A j \in fresh' : j \in fresh \/ (Begin(j[1], j[2]) /\ Replaces(j[1]) /\ j \in Jobs)
         /\ recreate' = recreate
<1>1. ASSUME NEW b \in Batches, Receive(b) \/ Disconnect(b) PROVE Goal
  BY <1>1 DEF Receive, Disconnect
<1>2. ASSUME NEW b \in Batches, NEW d \in Docs(b), Begin(b, d) PROVE Goal
  <2>1. <<b, d>> \in Jobs /\ <<b, d>>[1] = b /\ <<b, d>>[2] = d
    OBVIOUS
  <2>2. /\ doc' = [doc EXCEPT ![<<b, d>>] = "fetching"] /\ recreate' = recreate
        /\ fresh' = IF Replaces(b) THEN fresh \cup {<<b, d>>} ELSE fresh
    BY <1>2 DEF Begin
  <2> QED BY <1>2, <2>1, <2>2
<1>3. ASSUME NEW b \in Batches, NEW d \in Docs(b), Accumulate(b, d) PROVE Goal
  BY <1>3 DEF Accumulate
<1>4. ASSUME NEW j \in Jobs,
             Fetch(j) \/ Submit(j) \/ Acquire(j) \/ MarkWriteStarted(j) \/ Timeout(j)
      PROVE  Goal
  BY <1>4 DEF Fetch, Submit, Acquire, MarkWriteStarted, Timeout, Outcome
<1>5. ASSUME NEW j \in Jobs, ThreadEnds(j) PROVE Goal
  BY <1>5 DEF ThreadEnds, AfterFailure
<1> QED BY <1>1, <1>2, <1>3, <1>4, <1>5 DEF IngestNext, DocumentStep

(* A batch counts what has ended, or skips what has not begun.              *)
LEMMA WhoCounts ==
  ASSUME IngestTypes, IngestNext
  PROVE  \A b \in Batches :
           /\ tally[b] \subseteq tally'[b]
           /\ \A e \in tally'[b] : e \in tally[b] \/ Accumulate(b, e) \/ doc[<<b, e>>] = None
<1>1. ASSUME NEW a \in Batches, NEW x \in Docs(a), Accumulate(a, x), NEW b \in Batches
      PROVE  /\ tally[b] \subseteq tally'[b]
             /\ \A e \in tally'[b] : e \in tally[b] \/ Accumulate(b, e) \/ doc[<<b, e>>] = None
  <2>1. CASE a = b
    <3>1. PICK s \in SUBSET {e \in Docs(b) : doc[<<b, e>>] = None} :
            tally' = [tally EXCEPT ![b] = @ \cup {x} \cup s]
      <4> DEFINE rest == {e \in Docs(b) : doc[<<b, e>>] = None}
                 skip == IF doc[<<b, x>>] = "timeout" THEN rest ELSE {}
      <4>1. /\ skip \in SUBSET {e \in Docs(b) : doc[<<b, e>>] = None}
            /\ tally' = [tally EXCEPT ![b] = @ \cup {x} \cup skip]
        BY <1>1, <2>1 DEF Accumulate
      <4> QED BY <4>1
    <3>2. tally'[b] = tally[b] \cup {x} \cup s
      BY <3>1 DEF IngestTypes
    <3> QED BY <1>1, <2>1, <3>2
  <2>2. CASE a # b
    <3>1. tally'[b] = tally[b]
      BY <1>1, <2>2 DEF Accumulate, IngestTypes
    <3> QED BY <3>1
  <2> QED BY <2>1, <2>2
<1>2. (\E a \in Batches : \E x \in Docs(a) : Accumulate(a, x)) \/ UNCHANGED tally
  BY DEF IngestNext, DocumentStep, Receive, Disconnect, Begin, Fetch, Submit, Acquire,
         MarkWriteStarted, ThreadEnds, Timeout
<1> QED BY <1>1, <1>2

(* While the replacing document of a batch is under way, no other of the    *)
(* batch begins, waits or succeeds.                                         *)
LEMMA AloneStays ==
  ASSUME IngestTypes, Waited, Accepted, Counted, FreshAlone, IngestNext,
         NEW b \in Batches, NEW e \in Docs(b), <<b, e>> \in fresh, Alive(<<b, e>>),
         Alive(<<b, e>>)'
  PROVE  Alone(b, e)'
<1> USE JobParts, Stages
<1> DEFINE i == <<b, e>>
<1>1. i \in Jobs /\ doc[i] # None /\ Alone(b, e)
  BY DEF FreshAlone
<1>2. \A d \in Docs(b) : d # e => <<b, d>> \in Jobs /\ <<b, d>> # i
                                  /\ doc[<<b, d>>] \in {None, "failure", "timeout", "skipped"}
  BY <1>1 DEF Alone
<1>3. doc[i] # "success"
  BY <1>1 DEF Waited, Alive
<1>4. Indexed(b) = {} /\ recreate /\ Serial(b)
  <2>1. \A d \in tally[b] : doc[<<b, d>>] # "success"
    BY <1>2, <1>3 DEF Counted
  <2> QED BY <1>1, <2>1 DEF Indexed, Serial, Alone
<1>5. /\ recreate' = recreate
      /\ Earlier(b, e) \subseteq tally[b] /\ tally[b] \subseteq tally'[b]
  BY <1>1, WhoBegins, WhoCounts DEF Alone
<1>6. \A d \in Docs(b) : d # e => doc'[<<b, d>>] = doc[<<b, d>>]
                                  \/ doc'[<<b, d>>] \in {"skipped", "failure"}
  <2> SUFFICES ASSUME NEW d \in Docs(b), d # e, doc'[<<b, d>>] = "fetching" PROVE FALSE
    BY <1>2, Moves DEF DocumentMoves
  <2>1. doc[<<b, d>>] = None /\ batch[b] = "open"
    BY <1>2, Moves DEF DocumentMoves
  <2>2. Begin(b, d)
    BY <1>2, <2>1, WhoBegins
  <2>3. e \notin tally[b]
    BY <1>1, <2>1 DEF Alone
  <2>4. d \in Earlier(b, e)
    BY <1>4, <2>2, <2>3, OneComesFirst DEF Begin
  <2> QED BY <1>5, <2>1, <2>4 DEF Counted
<1>7. ASSUME e \in tally'[b], batch'[b] = "open", NEW d \in Docs(b) PROVE doc'[<<b, d>>] # None
  <2>1. batch[b] = "open"
    BY <1>1, <1>7, Moves DEF BatchMoves, Accepted
  <2>2. CASE e \in tally[b]
    <3>1. doc[<<b, d>>] # None
      BY <1>1, <2>1, <2>2 DEF Alone
    <3> QED BY <3>1, Moves DEF DocumentMoves
  <2>3. CASE e \notin tally[b]
    <3>1. Accumulate(b, e)
      BY <1>1, <1>7, <2>3, WhoCounts
    <3>2. doc[i] = "timeout"
      BY <1>1, <2>1, <3>1 DEF Accumulate, Alive, Waited
    <3> QED BY <3>1, <3>2 DEF Accumulate, IngestTypes
  <2> QED BY <2>2, <2>3
<1>8. \A d \in Docs(b) : d # e => doc'[<<b, d>>] \in {None} \cup (Ended \ {"success"})
  BY <1>2, <1>6
<1>9. recreate'
  BY <1>1, <1>5 DEF Alone
<1> QED BY <1>5, <1>7, <1>8, <1>9 DEF Alone, Earlier, DedupRefs, Docs

(* The document that begins as the replacing one is alone.                  *)
LEMMA AloneBegins ==
  ASSUME IngestTypes, InTurn, Counted, NEW b \in Batches, NEW e \in Docs(b),
         Begin(b, e), Replaces(b)
  PROVE  Alone(b, e)'
<1> USE JobParts, Stages
<1>1. recreate /\ Serial(b) /\ Earlier(b, e) \subseteq tally[b] /\ doc[<<b, e>>] = None
  BY DEF Begin, Replaces, Serial
<1>2. \A d \in tally[b] : doc[<<b, d>>] \in Ended \ {"success"}
  BY DEF Counted, Replaces, Indexed
<1>3. ASSUME NEW d \in Docs(b), d # e PROVE doc[<<b, d>>] \in {None} \cup (Ended \ {"success"})
  <2>1. CASE d \in Earlier(b, e)
    BY <1>1, <1>2, <2>1
  <2>2. CASE e \in Earlier(b, d)
    BY <1>1, <2>2 DEF InTurn
  <2> QED BY <1>3, <2>1, <2>2, OneComesFirst
<1>4. e \notin tally[b]
  BY <1>1, <1>2
<1>5. \A d \in Docs(b) : d # e => doc'[<<b, d>>] = doc[<<b, d>>]
  BY DEF Begin, IngestTypes
<1>6. UNCHANGED <<tally, recreate, batch>>
  BY DEF Begin
<1> QED BY <1>1, <1>3, <1>4, <1>5, <1>6 DEF Alone, Earlier, DedupRefs, Docs

(* The replacing document stays alone (the serial prefix).                  *)
LEMMA FreshAloneStep ==
  IngestTypes /\ Waited /\ Accepted /\ InTurn /\ Counted /\ FreshAlone /\ IngestNext => FreshAlone'
<1> SUFFICES ASSUME IngestTypes, Waited, Accepted, InTurn, Counted, FreshAlone, IngestNext,
                    NEW b \in Batches, NEW e \in Docs(b), <<b, e>> \in fresh'
             PROVE  doc'[<<b, e>>] # None /\ (Alive(<<b, e>>)' => Alone(b, e)')
  BY DEF FreshAlone, Docs
<1> USE JobParts, Stages
<1>1. CASE <<b, e>> \in fresh
  <2>1. doc[<<b, e>>] # None
    BY <1>1 DEF FreshAlone
  <2>2. DocumentMoves(<<b, e>>) /\ ThreadMoves(<<b, e>>)
    BY Moves, ThreadsMove
  <2>3. Alive(<<b, e>>)' => Alive(<<b, e>>)
    BY <2>2 DEF Alive, DocumentMoves, ThreadMoves
  <2> QED BY <1>1, <2>1, <2>2, <2>3, AloneStays DEF DocumentMoves
<1>2. CASE <<b, e>> \notin fresh
  <2>1. Begin(b, e) /\ Replaces(b)
    BY <1>2, WhoBegins
  <2>2. doc'[<<b, e>>] = "fetching"
    BY <2>1 DEF Begin, IngestTypes
  <2> QED BY <2>1, <2>2, AloneBegins
<1> QED BY <1>1, <1>2

(* A document succeeds by a write.                                          *)
LEMMA WhoSucceeds ==
  ASSUME IngestTypes, IngestNext, NEW j \in Jobs, doc[j] # "success", doc'[j] = "success"
  PROVE  ThreadEnds(j) /\ Written(j)
<1> USE JobParts, Stages DEF IngestTypes
<1> DEFINE Goal == ThreadEnds(j) /\ Written(j)
<1>1. ASSUME NEW b \in Batches, Receive(b) \/ Disconnect(b) PROVE FALSE
  BY <1>1 DEF Receive, Disconnect
<1>2. ASSUME NEW b \in Batches, NEW d \in Docs(b), Begin(b, d) \/ Accumulate(b, d) PROVE FALSE
  <2>1. CASE Begin(b, d)
    BY <2>1 DEF Begin
  <2>2. CASE Accumulate(b, d)
    BY <2>2 DEF Accumulate
  <2> QED BY <1>2, <2>1, <2>2
<1>3. ASSUME NEW k \in Jobs,
             Fetch(k) \/ Submit(k) \/ Acquire(k) \/ MarkWriteStarted(k) \/ Timeout(k)
      PROVE  FALSE
  BY <1>3 DEF Fetch, Submit, Acquire, MarkWriteStarted, Timeout, Outcome
<1>4. ASSUME NEW k \in Jobs, ThreadEnds(k) PROVE Goal
  BY <1>4 DEF ThreadEnds, AfterFailure
<1> QED BY <1>1, <1>2, <1>3, <1>4 DEF IngestNext, DocumentStep

(* A success stays in its collection.                                       *)
LEMMA KeptStep ==
  IngestTypes /\ Waited /\ FreshAlone /\ Kept /\ IngestNext => Kept'
<1> SUFFICES ASSUME IngestTypes, Waited, FreshAlone, Kept, IngestNext, NEW j \in Jobs,
                    doc'[j] = "success", replaced'[Coll(j)] \in {None, j[1]}
             PROVE  \E i \in 1..Len(rows'[Coll(j)]) : rows'[Coll(j)][i] = j
  BY DEF Kept, Coll, Resolve
<1> USE JobParts, Stages
<1> DEFINE Goal == \E i \in 1..Len(rows'[Coll(j)]) : rows'[Coll(j)][i] = j
<1>1. CASE doc[j] # "success"
  BY <1>1, WhoSucceeds, Writes
<1>2. CASE doc[j] = "success" /\ rows'[Coll(j)] = rows[Coll(j)]
                               /\ replaced'[Coll(j)] = replaced[Coll(j)]
  BY <1>2 DEF Kept
<1>3. ASSUME doc[j] = "success", NEW k \in Jobs, thread[k] = "writing", Written(k),
             Coll(k) = Coll(j)
      PROVE  Goal
  <2>1. CASE k \notin fresh
    <3>1. replaced'[Coll(j)] = replaced[Coll(j)]
      BY <1>3, <2>1, Writes
    <3>2. PICK i \in 1..Len(rows[Coll(j)]) : rows[Coll(j)][i] = j
      BY <1>3, <3>1 DEF Kept
    <3>3. /\ Len(rows'[Coll(j)]) = Len(rows[Coll(j)]) + 1
          /\ rows'[Coll(j)][i] = rows[Coll(j)][i]
      BY <1>3, <2>1, Writes
    <3>4. Len(rows[Coll(j)]) \in Nat
      BY DEF IngestTypes
    <3>5. i \in 1..Len(rows'[Coll(j)])
      BY <3>3, <3>4
    <3> QED BY <3>2, <3>3, <3>5
  <2>2. CASE k \in fresh
    <3>1. j[1] = k[1]
      BY <1>3, <2>2, Writes, IngestAssumption
    <3>2. j # k /\ j[2] # k[2]
      BY <1>3, <3>1 DEF Waited
    <3>3. Alone(k[1], k[2])
      BY <1>3, <2>2 DEF FreshAlone, Alive
    <3>4. doc[<<j[1], j[2]>>] # "success"
      BY <3>1, <3>2, <3>3 DEF Alone
    <3> QED BY <1>3, <3>4
  <2> QED BY <2>1, <2>2
<1>4. CASE doc[j] = "success" /\ ~UNCHANGED <<rows, replaced>>
  <2>1. PICK k \in Jobs : thread[k] = "writing" /\ Written(k)
    BY <1>4, WritesOrNot
  <2>2. CASE Coll(k) = Coll(j)
    BY <1>3, <1>4, <2>1, <2>2
  <2>3. CASE Coll(k) # Coll(j)
    <3>1. rows'[Coll(j)] = rows[Coll(j)] /\ replaced'[Coll(j)] = replaced[Coll(j)]
      BY <2>1, <2>3, Writes
    <3> QED BY <1>2, <1>4, <3>1
  <2> QED BY <2>2, <2>3
<1> QED BY <1>1, <1>2, <1>4

(* Every step of a request or a thread keeps the invariant.                 *)
LEMMA IngestSteps == IngestInv /\ [IngestNext]_ingestVars => IngestInv'
<1> SUFFICES ASSUME IngestInv, [IngestNext]_ingestVars PROVE IngestInv'
  OBVIOUS
<1>1. CASE IngestNext
  BY <1>1, TypesStep, LockedStep, WaitedStep, AcceptedStep, InTurnStep, CountedStep,
     WrittenOnceStep, FreshAloneStep, KeptStep DEF IngestInv
<1>2. CASE UNCHANGED ingestVars
  <2> USE <1>2 DEF ingestVars, IngestInv
  <2>1. IngestTypes' /\ Locked' /\ Waited' /\ Accepted' /\ InTurn' /\ Counted'
    BY DEF IngestTypes, Locked, Holding, Waited, Accepted, InTurn, Counted
  <2>2. WrittenOnce' /\ FreshAlone' /\ Kept'
    BY DEF WrittenOnce, FreshAlone, Alive, Alone, Kept
  <2> QED BY <2>1, <2>2
<1> QED BY <1>1, <1>2

(* The invariant says what the safety property says.                        *)
LEMMA IngestIsSafe == IngestInv => IngestSafe
<1> SUFFICES ASSUME IngestInv PROVE IngestSafe
  OBVIOUS
<1> USE JobParts, Stages DEF IngestInv
<1>1. ASSUME NEW c \in Collections
      PROVE  Cardinality({j \in Jobs : Coll(j) = c /\ thread[j] \in {"extracting", "writing"}}) <= 1
  <2> DEFINE working == {j \in Jobs : Coll(j) = c /\ thread[j] \in {"extracting", "writing"}}
  <2>1. working \subseteq {lock[c]}
    BY DEF Locked, Holding
  <2>2. IsFiniteSet({lock[c]}) /\ Cardinality({lock[c]}) = 1
    BY FS_Singleton
  <2>3. Cardinality(working) <= Cardinality({lock[c]})
    <3> HIDE DEF working
    <3> QED BY <2>1, <2>2, FS_Subset
  <2> QED BY <2>2, <2>3
<1>2. ASSUME NEW c \in Collections PROVE IsInjective(rows[c])
  <2>1. DOMAIN rows[c] = 1..Len(rows[c])
    BY DEF IngestTypes
  <2> QED BY <2>1 DEF WrittenOnce, IsInjective
<1>3. ASSUME NEW b \in Batches, NEW d \in Indexed(b)
      PROVE  /\ Resolve(b)[1] # "shared"
             /\ replaced[Resolve(b)] \in {None, b} => Contains(rows[Resolve(b)], <<b, d>>)
  <2>1. <<b, d>> \in Jobs /\ doc[<<b, d>>] = "success" /\ Coll(<<b, d>>) = Resolve(b)
    BY DEF Indexed, Counted, Coll
  <2>2. Writable(b)
    BY <2>1 DEF Accepted
  <2> QED BY <2>1, <2>2 DEF Kept, Contains, Writable
<1> QED BY <1>1, <1>2, <1>3 DEF IngestSafe, OneWriter, ReportedIsIndexed

(***************************************************************************)
(* With the other work                                                     *)
(***************************************************************************)

(* Threads never share a collection or write a document twice, and what a   *)
(* batch reports as indexed is searchable: process_document,                *)
(* run_with_thread_ownership and the serial prefix of a replacing batch.    *)
THEOREM IngestionIsSafe == Spec => []IngestSafe
<1>1. Init => IngestInv
  BY IngestStarts DEF Init
<1>2. IngestInv /\ [Next]_vars => IngestInv'
  <2>1. [Next]_vars => [IngestNext]_ingestVars
    BY DEF Next, IngestStep, RuntimeStep, RotationStep, vars
  <2> QED BY <2>1, IngestSteps
<1>3. IngestInv => IngestSafe
  BY IngestIsSafe
<1> QED BY <1>1, <1>2, <1>3, PTL DEF Spec

(***************************************************************************)
(* Released runs                                                           *)
(***************************************************************************)

(* A registered run is ready; a released one that is not yet prepared has   *)
(* its tombstone, unless that was forgotten before its time.                *)
RunInv ==
  /\ prep \in [Runs -> {"idle", "discovering", "ready", "refused"}]
  /\ tombs \in Seq(Runs) /\ DOMAIN run = Runs
  /\ \A r \in Live : prep[r] = "ready"
  /\ \A r \in gone :
       /\ r \in Live => r \in evicted
       /\ prep[r] \in {"idle", "discovering"} => r \in evicted \/ Contains(tombs, r)

(* Which tombstones remain when one is added, the oldest is dropped, or one *)
(* is taken out.                                                            *)
LEMMA Tombs ==
  ASSUME NEW s \in Seq(Runs), NEW r \in Runs
  PROVE  /\ Append(s, r) \in Seq(Runs) /\ Contains(Append(s, r), r)
         /\ \A q : Contains(s, q) => Contains(Append(s, r), q)
         /\ s # <<>> => /\ Tail(s) \in Seq(Runs) /\ Head(s) \in Runs
                        /\ \A q : Contains(s, q) => q = Head(s) \/ Contains(Tail(s), q)
         /\ \A i \in DOMAIN s :
              /\ RemoveAt(s, i) \in Seq(Runs)
              /\ \A q : Contains(s, q) => q = s[i] \/ Contains(RemoveAt(s, i), q)
<1>1. Append(s, r) \in Seq(Runs) /\ Contains(Append(s, r), r)
  BY DEF Contains
<1>2. \A q : Contains(s, q) => Contains(Append(s, r), q)
  BY DEF Contains
<1>3. ASSUME s # <<>>, NEW q, Contains(s, q) PROVE q = Head(s) \/ Contains(Tail(s), q)
  <2>1. PICK k \in 1..Len(s) : s[k] = q
    BY <1>3 DEF Contains
  <2>2. CASE k = 1
    BY <2>1, <2>2
  <2>3. CASE k > 1
    <3>1. k - 1 \in 1..Len(Tail(s)) /\ Tail(s)[k - 1] = s[k]
      BY <1>3, <2>3
    <3> QED BY <2>1, <3>1 DEF Contains
  <2> QED BY <2>2, <2>3
<1>4. ASSUME NEW i \in DOMAIN s
      PROVE  /\ RemoveAt(s, i) \in Seq(Runs)
             /\ \A q : Contains(s, q) => q = s[i] \/ Contains(RemoveAt(s, i), q)
  <2> DEFINE front == SubSeq(s, 1, i - 1)
             back == SubSeq(s, i + 1, Len(s))
  <2>1. /\ front \in Seq(Runs) /\ Len(front) = i - 1
        /\ \A k \in 1..(i - 1) : front[k] = s[k]
    OBVIOUS
  <2>2. /\ back \in Seq(Runs) /\ Len(back) = Len(s) - i
        /\ \A k \in 1..(Len(s) - i) : back[k] = s[k + i]
    OBVIOUS
  <2>3. RemoveAt(s, i) = front \o back
    BY DEF RemoveAt
  <2> HIDE DEF front, back
  <2>4. /\ front \o back \in Seq(Runs) /\ Len(front \o back) = Len(front) + Len(back)
        /\ \A k \in 1..Len(front) : (front \o back)[k] = front[k]
        /\ \A k \in 1..Len(back) : (front \o back)[Len(front) + k] = back[k]
    <3>1. front \in Seq(Runs) /\ back \in Seq(Runs)
      BY <2>1, <2>2
    <3>2. /\ front \o back \in Seq(Runs) /\ Len(front \o back) = Len(front) + Len(back)
          /\ \A k \in 1..Len(front \o back) : (front \o back)[k] =
               IF k <= Len(front) THEN front[k] ELSE back[k - Len(front)]
      BY <3>1, ConcatProperties
    <3>3. Len(front) \in Nat /\ Len(back) \in Nat
      BY <3>1
    <3> QED BY <3>2, <3>3
  <2>5. ASSUME NEW q, Contains(s, q), q # s[i] PROVE Contains(front \o back, q)
    <3>1. PICK k \in 1..Len(s) : s[k] = q
      BY <2>5 DEF Contains
    <3>2. CASE k < i
      <4>1. k \in 1..Len(front) /\ k \in 1..Len(front \o back) /\ (front \o back)[k] = q
        BY <2>1, <2>2, <2>4, <3>1, <3>2
      <4> QED BY <4>1 DEF Contains
    <3>3. CASE k > i
      <4>1. k - i \in 1..Len(back) /\ back[k - i] = q
        BY <2>2, <3>1, <3>3
      <4>2. Len(front) + (k - i) \in 1..Len(front \o back)
        <5>1. Len(front) \in Nat /\ Len(back) \in Nat
          BY <2>1, <2>2
        <5> QED BY <2>4, <4>1, <5>1
      <4> QED BY <2>4, <4>1, <4>2 DEF Contains
    <3> QED BY <2>5, <3>1, <3>2, <3>3
  <2> QED BY <2>3, <2>4, <2>5
<1> QED BY <1>1, <1>2, <1>3, <1>4

(* At the start no run is registered or released.                           *)
LEMMA RunsStart == RuntimeInit => RunInv
BY DEF RuntimeInit, RunInv, Live

(* Every step of the tool service keeps the invariant.                      *)
LEMMA RunSteps == RunInv /\ [RuntimeNext]_runtimeVars => RunInv'
<1> SUFFICES ASSUME RunInv, [RuntimeNext]_runtimeVars PROVE RunInv'
  OBVIOUS
<1> USE DEF RunInv, Live, streamVars
<1>1. ASSUME NEW r \in Runs, Prepare(r) PROVE RunInv'
  BY <1>1 DEF Prepare
<1>2. ASSUME NEW r \in Runs, Register(r) PROVE RunInv'
  BY <1>2 DEF Register, Refused
<1>3. ASSUME NEW r \in Runs, PrepareFails(r) PROVE RunInv'
  BY <1>3 DEF PrepareFails
<1>4. ASSUME NEW r \in Runs, Release(r) PROVE RunInv'
  <2>1. /\ prep' = prep /\ gone' = gone \cup {r} /\ run' = [run EXCEPT ![r] = NoRun]
        /\ DOMAIN run' = Runs /\ Live' \subseteq Live
    BY <1>4 DEF Release
  <2>2. CASE r \in Live
    BY <1>4, <2>1, <2>2 DEF Release
  <2>3. CASE r \notin Live
    <3> DEFINE full == Len(tombs) >= Tombstones
    <3>1. /\ evicted' = IF full THEN evicted \cup {Head(tombs)} ELSE evicted
          /\ tombs' = Append(IF full THEN Tail(tombs) ELSE tombs, r)
      BY <1>4, <2>3 DEF Release
    <3>2. full => tombs # <<>>
      BY RuntimeAssumption
    <3>3. /\ tombs' \in Seq(Runs) /\ Contains(tombs', r)
          /\ \A q : Contains(tombs, q) => q \in evicted' \/ Contains(tombs', q)
      <4>1. CASE full
        <5>1. Tail(tombs) \in Seq(Runs)
              /\ \A q : Contains(tombs, q) => q = Head(tombs) \/ Contains(Tail(tombs), q)
          BY <3>2, <4>1, Tombs
        <5>2. /\ Append(Tail(tombs), r) \in Seq(Runs) /\ Contains(Append(Tail(tombs), r), r)
              /\ \A q : Contains(Tail(tombs), q) => Contains(Append(Tail(tombs), r), q)
          BY <5>1, Tombs
        <5> QED BY <3>1, <4>1, <5>1, <5>2
      <4>2. CASE ~full
        BY <3>1, <4>2, Tombs
      <4> QED BY <4>1, <4>2
    <3>4. evicted \subseteq evicted'
      BY <3>1
    <3> QED BY <2>1, <3>3, <3>4
  <2> QED BY <2>2, <2>3
<1>5. ASSUME NEW r \in Runs, Forget(r) PROVE RunInv'
  BY <1>5, Tombs DEF Forget
<1>6. ASSUME NEW r \in Runs, ServiceCall(r) PROVE RunInv'
  BY <1>6 DEF ServiceCall
<1>7. ASSUME NEW r \in Runs,
             \/ \E t \in Tools : GetFunction(r, t) \/ StreamCall(r, t)
             \/ Emit(r) \/ Report(r) \/ Escape(r) \/ Read(r) \/ RuntimeDisconnect(r)
      PROVE  RunInv'
  <2>1. UNCHANGED <<prep, run, tombs, gone, evicted>>
    BY <1>7 DEF GetFunction, StreamCall, Emit, Report, Escape, Read, RuntimeDisconnect
  <2> QED BY <2>1
<1>8. CASE UNCHANGED runtimeVars
  BY <1>8 DEF runtimeVars
<1> QED BY <1>1, <1>2, <1>3, <1>4, <1>5, <1>6, <1>7, <1>8 DEF RuntimeNext, Invoke

(* A released run is not registered by a prepare request that was waiting   *)
(* or comes later, however its release, discovery and other runs            *)
(* interleave, unless its tombstone was forgotten (release(), prepare()).   *)
THEOREM ReleasedRunsStayGone == Spec => []ReleasedStaysGone
<1>1. Init => RunInv
  BY RunsStart DEF Init
<1>2. RunInv /\ [Next]_vars => RunInv'
  <2>1. [Next]_vars => [RuntimeNext]_runtimeVars
    BY DEF Next, IngestStep, RuntimeStep, RotationStep, vars
  <2> QED BY <2>1, RunSteps
<1>3. RunInv => ReleasedStaysGone
  BY DEF RunInv, ReleasedStaysGone
<1> QED BY <1>1, <1>2, <1>3, PTL DEF Spec
=============================================================================
