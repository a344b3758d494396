----------------------------- MODULE ActsProofs -----------------------------
(***************************************************************************)
(* Proofs of what guards an act made for a user: idempotency receipts,     *)
(* OAuth grants and approvals (Idempotency, Grants, Approval); and of the  *)
(* memory that is kept of him (Memory).  The theorems are about the        *)
(* service run that combines these components (MCServices).                *)
(***************************************************************************)
EXTENDS MCServices, FiniteSetTheorems, TLAPS

(***************************************************************************)
(* Receipts                                                                *)
(***************************************************************************)

Receipts ==
  [state : {"absent", "in_progress", "completed", "invalid"},
   owner : ReceiptCalls \cup {NoCall}, marked : BOOLEAN]

IdemTypes ==
  /\ call \in [ReceiptCalls -> {"idle", "reading", "reserving", "unavailable", "owner",
                                "completing", "failed", "answered", "replayed", "refused",
                                "crashed"}]
  /\ receipt \in [Keys -> Receipts]
  /\ legacy \in [ReceiptCalls -> Receipts]
  /\ effects \subseteq ReceiptCalls

(* A call that may write, or did: the receipt of its key is its own.        *)
Reserved(c) == call[c] \in {"owner", "completing"} \/ c \in effects

OwnReceipt ==
  \A c \in ReceiptCalls : Reserved(c) =>
    /\ receipt[Args[c]].owner = c
    /\ receipt[Args[c]].state \in {"in_progress", "completed"}
    /\ receipt[Args[c]].marked = (Args[c] # "memory")

(* ... and no receipt from before the correction stands for it.             *)
Cleared(k) == receipt[k] = NoReceipt \/ receipt[k].marked
NothingOlder ==
  \A c \in ReceiptCalls : Reserved(c) /\ HasLegacy(c) => Cleared(LegacyKey(c))

(* A completed receipt is one of before, or its write has ended.            *)
Old(k) == k = "plain" /\ ~receipt[k].marked
CompletedWrote ==
  \A k \in Keys : receipt[k].state = "completed" =>
    Old(k) \/ \E d \in effects : Args[d] = k /\ call[d] = "answered"

(* A call that waits to publish has written.                                *)
CompletingWrote == \A c \in ReceiptCalls : call[c] = "completing" => c \in effects

ReplayedWrote ==
  \A c \in ReceiptCalls : call[c] = "replayed" =>
    \/ \E d \in effects : Args[d] = Args[c] /\ call[d] = "answered"
    \/ receipt["plain"].state = "completed" /\ ~receipt["plain"].marked

IdemInv ==
  /\ IdemTypes /\ OwnReceipt /\ NothingOlder /\ CompletedWrote /\ CompletingWrote
  /\ ReplayedWrote

(* What a call asks for, and where its older receipt would be.              *)
LEMMA LegacyKeys ==
  /\ "plain" \in Keys /\ NoReceipt \in Receipts
  /\ \A c \in ReceiptCalls :
       Args[c] \in Keys /\ (HasLegacy(c) => LegacyKey(c) = "plain" /\ Args[c] = "zero")
BY ReceiptAssumption DEF HasLegacy, LegacyKey, Keys, NoReceipt, Receipts

(* No call has begun.                                                       *)
LEMMA IdemStarts == IdemInit => IdemInv
<1> SUFFICES ASSUME IdemInit
             PROVE  IdemInv
  OBVIOUS
<1>1. IdemTypes
  BY LegacyKeys DEF IdemInit, IdemTypes, Receipts
<1>2. effects = {} /\ \A c \in ReceiptCalls : call[c] = "idle"
  BY DEF IdemInit
<1>3. OwnReceipt /\ NothingOlder /\ CompletingWrote /\ ReplayedWrote
  BY <1>2 DEF OwnReceipt, NothingOlder, CompletingWrote, ReplayedWrote, Reserved
<1>4. \A k \in Keys : /\ k # "plain" => receipt[k] = NoReceipt
                      /\ ~receipt[k].marked
  BY DEF IdemInit, NoReceipt
<1>5. CompletedWrote
  <2> SUFFICES ASSUME NEW k \in Keys, receipt[k].state = "completed"
               PROVE  Old(k)
    BY DEF CompletedWrote
  <2>1. k = "plain"
    BY <1>4 DEF NoReceipt
  <2> QED BY <1>4, <2>1 DEF Old
<1> QED BY <1>1, <1>3, <1>5 DEF IdemInv

(* Every step of a call leaves its receipt its own.                         *)
LEMMA IdemSteps == IdemInv /\ [IdemNext]_idemVars => IdemInv'
<1> SUFFICES ASSUME IdemInv, [IdemNext]_idemVars
             PROVE  IdemInv'
  OBVIOUS
<1> USE LegacyKeys DEF IdemInv
<1>1. ASSUME NEW c \in ReceiptCalls, Prepare(c) \/ ReadLegacy(c)
      PROVE  IdemInv'
  <2>1. /\ receipt' = receipt /\ effects' = effects
        /\ call' = [call EXCEPT ![c] = call'[c]] /\ call[c] \in {"idle", "reading"}
        /\ call'[c] \in {"reading", "reserving", "unavailable"}
        /\ \A d \in ReceiptCalls : d # c => call'[d] = call[d]
    BY <1>1 DEF Prepare, ReadLegacy, ReceiptTo, IdemTypes
  <2>7. legacy' \in [ReceiptCalls -> Receipts]
    <3>1. CASE HasLegacy(c) /\ legacy' = [legacy EXCEPT ![c] = receipt[LegacyKey(c)]]
      <4>1. receipt["plain"] \in Receipts /\ LegacyKey(c) = "plain"
        BY <3>1 DEF IdemTypes
      <4> QED BY <3>1, <4>1 DEF IdemTypes
    <3>2. CASE legacy' = [legacy EXCEPT ![c] = NoReceipt] \/ UNCHANGED legacy
      BY <3>2 DEF IdemTypes
    <3> QED BY <1>1, <3>1, <3>2 DEF Prepare, ReadLegacy
  <2>2. IdemTypes'
    BY <2>1, <2>7 DEF IdemTypes
  <2>3. \A d \in ReceiptCalls : Reserved(d)' => Reserved(d)
    BY <2>1 DEF Reserved
  <2>4. OwnReceipt' /\ NothingOlder'
    BY <2>1, <2>3 DEF OwnReceipt, NothingOlder, Cleared, HasLegacy, LegacyKey
  <2>5. CompletedWrote'
    BY <2>1 DEF CompletedWrote, Old, IdemTypes
  <2>6. CompletingWrote' /\ ReplayedWrote'
    BY <2>1 DEF CompletingWrote, ReplayedWrote, IdemTypes
  <2> QED BY <2>2, <2>4, <2>5, <2>6
<1>2. ASSUME NEW c \in ReceiptCalls, Reserve(c)
      PROVE  IdemInv'
  <2>1. CASE UNCHANGED receipt /\ call'[c] # "owner"
    <3>1. /\ call[c] = "reserving" /\ effects' = effects
          /\ call' = [call EXCEPT ![c] = call'[c]]
          /\ call'[c] \in {"reading", "refused", "replayed", "unavailable"}
      BY <1>2, <2>1 DEF Reserve, ReceiptTo, ReceiptAnswer, IdemTypes
    <3>2. UNCHANGED legacy
      BY <1>2 DEF Reserve
    <3>9. IdemTypes'
      BY <2>1, <3>1, <3>2 DEF IdemTypes
    <3>3. \A d \in ReceiptCalls : Reserved(d)' => Reserved(d)
      BY <3>1 DEF Reserved, IdemTypes
    <3>4. OwnReceipt' /\ NothingOlder'
      BY <2>1, <3>3 DEF OwnReceipt, NothingOlder, Cleared, HasLegacy, LegacyKey
    <3>5. CompletedWrote'
      BY <2>1, <3>1 DEF CompletedWrote, Old, IdemTypes
    <3>6. CompletingWrote'
      BY <3>1 DEF CompletingWrote, IdemTypes
    <3>7. call'[c] = "replayed" =>
            \/ receipt[Args[c]].state = "completed"
            \/ receipt["plain"].state = "completed" /\ ~receipt["plain"].marked
      BY <1>2, <2>1, <3>1 DEF Reserve, ReceiptTo, ReceiptAnswer, Blocks, IdemTypes, Receipts
    <3>8. ReplayedWrote'
      BY <2>1, <3>1, <3>7 DEF ReplayedWrote, CompletedWrote, Old, IdemTypes
    <3> QED BY <3>9, <3>4, <3>5, <3>6, <3>8
  <2>2. CASE ~Taken(c) /\ ~Blocks(c) /\ ReceiptTo(c, "owner")
             /\ receipt' = [receipt EXCEPT ![Args[c]] =
                  [state |-> "in_progress", owner |-> c, marked |-> Args[c] # "memory"]]
             /\ UNCHANGED <<legacy, effects>>
    <3> DEFINE new == [state |-> "in_progress", owner |-> c, marked |-> Args[c] # "memory"]
    <3>1. /\ call' = [call EXCEPT ![c] = "owner"] /\ effects' = effects
          /\ receipt[Args[c]] = NoReceipt /\ receipt'[Args[c]] = new /\ new \in Receipts
          /\ \A k \in Keys : k # Args[c] => receipt'[k] = receipt[k]
      BY <2>2 DEF Taken, ReceiptTo, IdemTypes, Receipts
    <3>2. IdemTypes'
      BY <2>2, <3>1 DEF IdemTypes
    <3>3. \A d \in ReceiptCalls : d # c /\ Reserved(d)' => Reserved(d) /\ Args[d] # Args[c]
      BY <3>1 DEF Reserved, OwnReceipt, NoReceipt, IdemTypes
    <3>4. c \notin effects
      BY <3>1 DEF OwnReceipt, Reserved, NoReceipt
    <3>5. OwnReceipt'
      BY <3>1, <3>3 DEF OwnReceipt
    <3>6. \A k \in Keys : Cleared(k) => Cleared(k)' \/ k = "memory"
      <4> SUFFICES ASSUME NEW k \in Keys, Cleared(k), k # "memory"
                   PROVE  Cleared(k)'
        OBVIOUS
      <4>1. CASE k = Args[c]
        <5>1. new.marked
          BY <4>1
        <5> QED BY <3>1, <4>1, <5>1 DEF Cleared
      <4>2. CASE k # Args[c]
        BY <3>1, <4>2 DEF Cleared
      <4> QED BY <4>1, <4>2
    <3>7. HasLegacy(c) => Cleared(LegacyKey(c))
      BY <2>2 DEF Blocks, Cleared
    <3>8. NothingOlder'
      BY <3>3, <3>6, <3>7 DEF NothingOlder, HasLegacy, LegacyKey
    <3>9. \A d \in effects : call'[d] = call[d] /\ d \in ReceiptCalls
      BY <3>1, <3>4 DEF IdemTypes
    <3>10. CompletedWrote'
      BY <3>1, <3>9 DEF CompletedWrote, Old
    <3>11. CompletingWrote'
      BY <3>1 DEF CompletingWrote, IdemTypes
    <3>12. ReplayedWrote'
      BY <3>1, <3>9 DEF ReplayedWrote, IdemTypes, NoReceipt
    <3> QED BY <3>2, <3>5, <3>8, <3>10, <3>11, <3>12
  <2> QED BY <1>2, <2>1, <2>2 DEF Reserve, ReceiptTo, ReceiptAnswer, IdemTypes
<1>3. ASSUME NEW c \in ReceiptCalls, Effect(c)
      PROVE  IdemInv'
  <2>1. /\ call[c] = "owner" /\ effects' = effects \cup {c} /\ receipt' = receipt
        /\ call' = [call EXCEPT ![c] = call'[c]] /\ call'[c] \in {"completing", "failed"}
    BY <1>3 DEF Effect, ReceiptTo, IdemTypes
  <2>2. IdemTypes'
    BY <1>3, <2>1 DEF Effect, IdemTypes
  <2>3. \A d \in ReceiptCalls : Reserved(d)' => Reserved(d)
    BY <2>1 DEF Reserved, IdemTypes
  <2>4. OwnReceipt' /\ NothingOlder'
    BY <2>1, <2>3 DEF OwnReceipt, NothingOlder, Cleared, HasLegacy, LegacyKey
  <2>5. \A d \in effects : call[d] = "answered" => d \in effects' /\ call'[d] = "answered"
    BY <2>1 DEF IdemTypes
  <2>6. CompletedWrote' /\ CompletingWrote'
    BY <2>1, <2>5 DEF CompletedWrote, CompletingWrote, Old, IdemTypes
  <2>7. ReplayedWrote'
    BY <2>1, <2>5 DEF ReplayedWrote, IdemTypes
  <2> QED BY <2>2, <2>4, <2>6, <2>7
<1>4. ASSUME NEW c \in ReceiptCalls, Complete(c)
      PROVE  IdemInv'
  <2>1. /\ call[c] = "completing" /\ effects' = effects /\ c \in effects
        /\ call' = [call EXCEPT ![c] = "answered"]
        /\ receipt[Args[c]].marked = (Args[c] # "memory")
    BY <1>4 DEF Complete, ReceiptTo, CompletingWrote, OwnReceipt, Reserved
  <2>2. /\ \A k \in Keys : k # Args[c] => receipt'[k] = receipt[k]
        /\ receipt'[Args[c]] \in Receipts
        /\ receipt'[Args[c]].owner = receipt[Args[c]].owner
        /\ receipt'[Args[c]].marked = receipt[Args[c]].marked
        /\ \/ receipt'[Args[c]].state = "completed"
           \/ receipt'[Args[c]] = receipt[Args[c]]
    BY <1>4 DEF Complete, IdemTypes, Receipts
  <2>3. IdemTypes'
    <3>1. receipt' \in [Keys -> Receipts]
      BY <1>4 DEF Complete, IdemTypes, Receipts
    <3> QED BY <1>4, <2>1, <3>1 DEF Complete, IdemTypes
  <2>4. \A d \in ReceiptCalls : Reserved(d)' => Reserved(d)
    BY <2>1 DEF Reserved, IdemTypes
  <2>5. OwnReceipt'
    BY <2>2, <2>4 DEF OwnReceipt
  <2>6. \A k \in Keys : Cleared(k) => Cleared(k)' \/ k = "memory"
    <3> SUFFICES ASSUME NEW k \in Keys, Cleared(k), k # "memory"
                 PROVE  Cleared(k)'
      OBVIOUS
    <3>1. CASE k = Args[c]
      BY <2>1, <2>2, <3>1 DEF Cleared
    <3>2. CASE k # Args[c]
      BY <2>2, <3>2 DEF Cleared
    <3> QED BY <3>1, <3>2
  <2>7. NothingOlder'
    BY <2>4, <2>6 DEF NothingOlder, HasLegacy, LegacyKey
  <2>8. \A d \in effects : call[d] = "answered" => call'[d] = "answered"
    BY <2>1 DEF IdemTypes
  <2>9. CompletedWrote'
    <3> SUFFICES ASSUME NEW k \in Keys, receipt'[k].state = "completed"
                 PROVE  Old(k)' \/ \E d \in effects : Args[d] = k /\ call'[d] = "answered"
      BY <2>1 DEF CompletedWrote
    <3>1. CASE k = Args[c]
      BY <2>1, <3>1 DEF IdemTypes
    <3>2. CASE k # Args[c]
      BY <2>2, <2>8, <3>2 DEF CompletedWrote, Old
    <3> QED BY <3>1, <3>2
  <2>10. CompletingWrote'
    BY <2>1 DEF CompletingWrote, IdemTypes
  <2>11. receipt["plain"].state = "completed" /\ ~receipt["plain"].marked
           => receipt'["plain"] = receipt["plain"]
    BY <2>1, <2>2
  <2>12. ReplayedWrote'
    BY <2>1, <2>8, <2>11 DEF ReplayedWrote, IdemTypes
  <2> QED BY <2>3, <2>5, <2>7, <2>9, <2>10, <2>12
<1>5. ASSUME NEW c \in ReceiptCalls, Crash(c)
      PROVE  IdemInv'
  <2>1. /\ call[c] \in {"reading", "reserving", "owner", "completing"}
        /\ call' = [call EXCEPT ![c] = "crashed"]
        /\ receipt' = receipt /\ effects' = effects /\ legacy' = legacy
    BY <1>5 DEF Crash, ReceiptTo
  <2>2. IdemTypes'
    BY <2>1 DEF IdemTypes
  <2>3. \A d \in ReceiptCalls : Reserved(d)' => Reserved(d)
    BY <2>1 DEF Reserved, IdemTypes
  <2>4. OwnReceipt' /\ NothingOlder'
    BY <2>1, <2>3 DEF OwnReceipt, NothingOlder, Cleared, HasLegacy, LegacyKey
  <2>5. CompletedWrote' /\ CompletingWrote'
    BY <2>1 DEF CompletedWrote, CompletingWrote, Old, IdemTypes
  <2>6. ReplayedWrote'
    BY <2>1 DEF ReplayedWrote, IdemTypes
  <2> QED BY <2>2, <2>4, <2>5, <2>6
<1>6. CASE UNCHANGED idemVars
  <2>1. UNCHANGED <<call, receipt, legacy, effects>>
    BY <1>6 DEF idemVars
  <2>2. IdemTypes' /\ CompletedWrote' /\ CompletingWrote' /\ ReplayedWrote'
    BY <2>1 DEF IdemTypes, CompletedWrote, CompletingWrote, ReplayedWrote, Old
  <2>3. OwnReceipt' /\ NothingOlder'
    BY <2>1 DEF OwnReceipt, NothingOlder, Reserved, Cleared, HasLegacy, LegacyKey
  <2> QED BY <2>2, <2>3
<1> QED BY <1>1, <1>2, <1>3, <1>4, <1>5, <1>6 DEF IdemNext

(* Equal calls of one execution and its replays have one effect, none has   *)
(* one that a receipt of before the correction may stand for, and a stored  *)
(* answer follows a write that ended (reserve_operation).                   *)
LEMMA IdemSafe == IdemInv => EffectOnce
<1> SUFFICES ASSUME IdemInv
             PROVE  EffectOnce
  OBVIOUS
<1>1. \A c, d \in effects : Args[c] = Args[d] => c = d
  BY DEF IdemInv, IdemTypes, OwnReceipt, Reserved
<1>2. \A c \in effects : HasLegacy(c) =>
        receipt[LegacyKey(c)] = NoReceipt \/ receipt[LegacyKey(c)].marked
  BY DEF IdemInv, IdemTypes, NothingOlder, Reserved, Cleared
<1> QED BY <1>1, <1>2 DEF EffectOnce, IdemInv, ReplayedWrote

(***************************************************************************)
(* Grants                                                                  *)
(***************************************************************************)

Credentials == [consent : Nat, access : Nat, fresh : BOOLEAN]

(* Stages in which an operation holds the Redis lock.                       *)
Inside == {"look", "refresh", "save", "store", "clear", "compare", "expire"}

GrantTypes ==
  /\ grant \in Credentials
  /\ conn \in [Replicas -> Credentials] /\ mine \in [Workers -> Credentials]
  /\ lock \in Workers \cup {None} /\ busy \in [Replicas -> Workers \cup {None}]
  /\ wpc \in [Workers -> Inside \cup {"idle", "read", "reset", "keep", "reject", "consent",
                                      "connect", "call"}]
  /\ consents \in Nat /\ issued \in Nat /\ newest \in Nat /\ revoked \subseteq Nat
  /\ stray \in BOOLEAN

(* Whoever is active holds its replica's lock.                              *)
ReplicaHeld == \A w \in Workers : wpc[w] # "idle" => busy[At[w]] = w

(* A refresh or an invalidation writes back the consent it read: the stored *)
(* one, while it holds the Redis lock and nobody wrote without it.          *)
Carries(w) == wpc[w] \in {"refresh", "save", "expire"}
SameConsent ==
  \A w \in Workers : Carries(w) =>
    /\ mine[w].consent \in 1..consents
    /\ lock = w /\ ~stray => grant # NoGrant /\ mine[w].consent = grant.consent

(* A consent about to be stored is one that nobody stored or revoked.       *)
Brings(w) == wpc[w] \in {"keep", "store"}
NewConsent ==
  \A w \in Workers : Brings(w) =>
    /\ mine[w].consent \in 1..consents /\ mine[w].consent # grant.consent
    /\ mine[w].consent \notin revoked
    /\ \A v \in Workers : (Brings(v) \/ Carries(v)) /\ mine[v].consent = mine[w].consent => v = w

(* Consents are numbered in the order they are given.                       *)
Numbered ==
  /\ grant = NoGrant \/ grant.consent # 0
  /\ grant.consent \in 0..consents /\ revoked \subseteq 0..consents

GrantInv ==
  /\ GrantTypes /\ ReplicaHeld /\ SameConsent /\ NewConsent /\ Numbered
  /\ GrantNeverComesBack /\ CallsUseTheirGrant

(* The values of the records below.                                         *)
LEMMA GrantValues ==
  /\ NoGrant \in Credentials /\ NoGrant.consent = 0 /\ NoGrant.fresh = FALSE
  /\ \A w \in Workers : At[w] \in Replicas /\ w # None
BY GrantsAssumption DEF NoGrant, Credentials

(* No consent has begun.                                                    *)
LEMMA GrantStarts == GrantsInit => GrantInv
<1> SUFFICES ASSUME GrantsInit
             PROVE  GrantInv
  OBVIOUS
<1>1. GrantTypes
  BY GrantValues DEF GrantsInit, GrantTypes
<1>2. \A w \in Workers : wpc[w] = "idle"
  BY DEF GrantsInit
<1>3. ReplicaHeld /\ SameConsent /\ NewConsent /\ CallsUseTheirGrant
  BY <1>2 DEF ReplicaHeld, SameConsent, NewConsent, CallsUseTheirGrant, Inside, Carries, Brings
<1>4. Numbered /\ GrantNeverComesBack
  BY GrantValues DEF GrantsInit, Numbered, GrantNeverComesBack
<1> QED BY <1>1, <1>3, <1>4 DEF GrantInv

(* What an operation changes of its stage and the locks.                    *)
LEMMA OperationMoves ==
  ASSUME GrantTypes, NEW w \in Workers, Operation(w)
  PROVE  /\ wpc' = [wpc EXCEPT ![w] = wpc'[w]]
         /\ GrantTypes'
<1> USE GrantValues
<1>1. CASE Enter(w)
  BY <1>1 DEF Enter, To, GrantTypes
<1>2. CASE RedisLock(w)
  BY <1>2 DEF RedisLock, To, GrantTypes, Inside
<1>3. CASE LockTimeout(w)
  BY <1>3 DEF LockTimeout, To, Leave, GrantTypes
<1>4. CASE Look(w)
  BY <1>4 DEF Look, To, LeaveLock, Leave, Unlock, GrantTypes, Inside
<1>5. CASE Refresh(w)
  <2>1. issued < MaxTokens /\ issued' = issued + 1 => Issue(mine[w].consent) \in Credentials
    BY DEF Issue, GrantTypes, Credentials
  <2>2. mine[w].consent \in Nat
    BY DEF GrantTypes, Credentials
  <2>3. wpc' = [wpc EXCEPT ![w] = wpc'[w]] /\ wpc'[w] \in {"save", "consent", "idle"}
    BY <1>5 DEF Refresh, LeaveLock, To, GrantTypes
  <2>4. grant' \in Credentials /\ mine' \in [Workers -> Credentials] /\ issued' \in Nat
    BY <1>5, <2>1 DEF Refresh, GrantTypes
  <2>5. lock' \in Workers \cup {None} /\ busy' \in [Replicas -> Workers \cup {None}]
    BY <1>5 DEF Refresh, LeaveLock, Unlock, Leave, GrantTypes
  <2>6. revoked' \subseteq Nat /\ stray' \in BOOLEAN
    BY <1>5, <2>2 DEF Refresh, Writes, GrantTypes
  <2> QED BY <1>5, <2>3, <2>4, <2>5, <2>6 DEF Refresh, GrantTypes, Inside
<1>6. CASE Save(w)
  <2>1. mine[w].consent \in Nat
    BY DEF GrantTypes, Credentials
  <2> QED BY <1>6, <2>1 DEF Save, LeaveLock, Leave, Writes, To, Unlock, GrantTypes, Inside
<1>7. CASE Consent(w)
  <2>1. Issue(consents + 1) \in Credentials
    BY DEF Issue, GrantTypes, Credentials
  <2> QED BY <1>7, <2>1 DEF Consent, To, Leave, GrantTypes
<1>8. CASE Connection(w)
  BY <1>8 DEF Connection, To, Leave, GrantTypes
<1>9. CASE Call(w)
  BY <1>9 DEF Call, To, Leave, GrantTypes
<1>10. CASE Compare(w)
  <2>1. [grant EXCEPT !.fresh = FALSE] \in Credentials
    BY DEF GrantTypes, Credentials
  <2> QED BY <1>10, <2>1 DEF Compare, To, Unlock, Leave, GrantTypes, Inside
<1>11. CASE GrantExpire(w)
  BY <1>11 DEF GrantExpire, To, Unlock, Leave, Writes, GrantTypes
<1>12. CASE Clear(w)
  <2>1. grant.consent \in Nat
    BY DEF GrantTypes, Credentials
  <2> QED BY <1>12, <2>1 DEF Clear, To, Unlock, Leave, Writes, GrantTypes
<1> QED BY <1>1, <1>2, <1>3, <1>4, <1>5, <1>6, <1>7, <1>8, <1>9, <1>10, <1>11, <1>12
        DEF Operation

(* The lock of a replica does what it is for: nobody enters while another   *)
(* is active there, and only the holder leaves.                             *)
LEMMA LocksHold ==
  ASSUME GrantInv, NEW w \in Workers, Operation(w)
  PROVE  /\ wpc'[w] # "idle" => busy'[At[w]] = w
         /\ \A v \in Workers \ {w} : wpc[v] # "idle" => busy'[At[v]] = v
<1>1. /\ wpc[w] # "idle" => busy[At[w]] = w
      /\ \A v \in Workers : v # None
      /\ \A v \in Workers \ {w} : wpc[v] # "idle" => busy[At[v]] = v
      /\ \A v \in Workers : At[v] \in Replicas
  BY GrantValues DEF GrantInv, ReplicaHeld
<1> USE <1>1 DEF GrantInv, GrantTypes, To, LeaveLock, Leave, Inside
<1>2. CASE Enter(w)
  BY <1>2 DEF Enter
<1>3. CASE RedisLock(w)
  BY <1>3 DEF RedisLock
<1>4. CASE LockTimeout(w)
  BY <1>4 DEF LockTimeout
<1>5. CASE Look(w)
  BY <1>5 DEF Look
<1>6. CASE Refresh(w)
  BY <1>6 DEF Refresh
<1>7. CASE Save(w)
  BY <1>7 DEF Save
<1>8. CASE Consent(w)
  BY <1>8 DEF Consent
<1>9. CASE Connection(w)
  BY <1>9 DEF Connection
<1>10. CASE Call(w)
  BY <1>10 DEF Call
<1>11. CASE Compare(w)
  BY <1>11 DEF Compare
<1>12. CASE GrantExpire(w)
  BY <1>12 DEF GrantExpire
<1>13. CASE Clear(w)
  BY <1>13 DEF Clear
<1> QED BY <1>2, <1>3, <1>4, <1>5, <1>6, <1>7, <1>8, <1>9, <1>10, <1>11, <1>12, <1>13
        DEF Operation

(* A write of the grant: only one under the lock may end a stray.           *)
Written(w) ==
  /\ ~stray' => lock = w
  /\ lock = w => lock' = None
  /\ lock # w => lock' = lock
  /\ ~Carries(w)' /\ ~Brings(w)'

(* What an operation does to the stored grant: nothing; revokes it; writes   *)
(* the consent it found back; stores a new one; or obtains one.             *)
Leaves(w) ==
  /\ UNCHANGED <<grant, revoked, newest, consents, stray>>
  /\ Carries(w)' => \/ Carries(w) /\ mine'[w].consent = mine[w].consent /\ lock' = lock
                    \/ grant # NoGrant /\ mine'[w].consent = grant.consent
  /\ Brings(w)' => Brings(w) /\ mine'[w] = mine[w]
  /\ lock' = lock \/ lock' = w \/ lock' = None
Revokes(w) ==
  /\ grant' = NoGrant /\ UNCHANGED <<newest, consents>>
  /\ \/ revoked' \subseteq revoked \cup {grant.consent}
     \/ Carries(w) /\ revoked' = revoked \cup {mine[w].consent}
  /\ Written(w)
Rewrites(w) ==
  /\ Carries(w) /\ grant' = mine[w] /\ UNCHANGED <<revoked, newest, consents>>
  /\ stray => stray'
  /\ Written(w)
Stores(w) ==
  /\ wpc[w] = "store" /\ grant' = mine[w] /\ newest' = mine[w].consent
  /\ UNCHANGED <<revoked, consents>> /\ Written(w)
Obtains(w) ==
  /\ UNCHANGED <<grant, revoked, newest, stray, lock>> /\ consents' = consents + 1
  /\ mine'[w].consent = consents + 1 /\ Brings(w)' /\ ~Carries(w)'

(* What an operation does to the grant, in the terms above.                 *)
LEMMA GrantMoves ==
  ASSUME GrantInv, NEW w \in Workers, Operation(w)
  PROVE  /\ \A v \in Workers \ {w} : mine'[v] = mine[v]
         /\ Leaves(w) \/ Revokes(w) \/ Rewrites(w) \/ Stores(w) \/ Obtains(w)
<1> USE GrantValues DEF GrantInv, GrantTypes, To, Carries, Brings
<1>1. CASE Enter(w) \/ RedisLock(w) \/ LockTimeout(w) \/ Connection(w) \/ Call(w)
  <2>1. UNCHANGED <<grant, revoked, newest, consents, stray, mine>> /\ lock' \in {lock, w}
    BY <1>1 DEF Enter, RedisLock, LockTimeout, Connection, Call
  <2>2. ~Carries(w)' /\ (Brings(w)' => Brings(w))
    BY <1>1 DEF Enter, RedisLock, LockTimeout, Connection, Call
  <2> QED BY <2>1, <2>2 DEF Leaves
<1>2. CASE Look(w)
  <2>1. /\ UNCHANGED <<grant, revoked, newest, consents, stray>>
        /\ mine' = [mine EXCEPT ![w] = grant] /\ lock' \in {lock, None}
    BY <1>2 DEF Look, LeaveLock, Unlock
  <2>2. ~Brings(w)' /\ (Carries(w)' => grant # NoGrant)
    BY <1>2 DEF Look, LeaveLock
  <2> QED BY <2>1, <2>2 DEF Leaves
<1>3. CASE Refresh(w)
  <2>1. wpc[w] = "refresh" /\ \A v \in Workers \ {w} : mine'[v] = mine[v]
    BY <1>3 DEF Refresh
  <2>2. UNCHANGED <<newest, consents>> /\ ~Brings(w)'
    BY <1>3 DEF Refresh, LeaveLock
  <2>3. CASE issued' = issued + 1 /\ To(w, "save") /\ mine' = [mine EXCEPT ![w] = Issue(mine[w].consent)]
             /\ UNCHANGED <<grant, lock, busy, revoked, stray>>
    <3>1. mine'[w].consent = mine[w].consent
      BY <2>3 DEF Issue
    <3>2. UNCHANGED <<grant, revoked, newest, consents, stray, lock>>
      BY <2>2, <2>3
    <3>3. Carries(w) /\ ~Brings(w)'
      BY <2>1, <2>2
    <3>4. Leaves(w)
      BY ONLY <3>1, <3>2, <3>3 DEF Leaves
    <3> QED BY <2>1, <3>4
  <2>4. CASE /\ revoked' = revoked \cup {mine[w].consent} /\ grant' = NoGrant
             /\ LeaveLock(w, "consent") /\ Writes(w)
    BY <2>1, <2>2, <2>4 DEF Revokes, Written, LeaveLock, Unlock, Writes
  <2>5. CASE To(w, "idle") /\ Unlock(w) /\ UNCHANGED <<grant, mine, issued, revoked, stray>>
    BY <2>1, <2>2, <2>5 DEF Leaves, Unlock
  <2> QED BY <1>3, <2>3, <2>4, <2>5 DEF Refresh
<1>4. CASE Save(w)
  <2>1. /\ UNCHANGED <<revoked, consents, mine>> /\ grant' = mine[w]
        /\ wpc[w] \in {"save", "store"} /\ Written(w)
    BY <1>4 DEF Save, Written, LeaveLock, Unlock, Writes
  <2>2. CASE wpc[w] = "save"
    BY <1>4, <2>1, <2>2 DEF Save, Rewrites, Writes
  <2>3. CASE wpc[w] = "store"
    BY <1>4, <2>1, <2>3 DEF Save, Stores
  <2> QED BY <2>1, <2>2, <2>3
<1>5. CASE Consent(w)
  <2>1. UNCHANGED <<grant, revoked, newest, stray, lock>> /\ ~Carries(w)'
    BY <1>5 DEF Consent
  <2>2. CASE wpc'[w] = "keep"
    <3>1. consents' = consents + 1 /\ mine' = [mine EXCEPT ![w] = Issue(consents + 1)]
      BY <1>5, <2>2 DEF Consent
    <3>2. Issue(consents + 1).consent = consents + 1
      BY DEF Issue
    <3> QED BY <2>1, <2>2, <3>1, <3>2 DEF Obtains
  <2>3. CASE wpc'[w] = "idle"
    BY <1>5, <2>1, <2>3 DEF Consent, Leaves
  <2> QED BY <1>5, <2>2, <2>3 DEF Consent
<1>6. CASE Compare(w)
  <2>1. /\ UNCHANGED <<grant, revoked, newest, consents, stray>> /\ ~Brings(w)'
        /\ lock' \in {lock, None}
    BY <1>6 DEF Compare, Unlock
  <2>2. \A v \in Workers \ {w} : mine'[v] = mine[v]
    BY <1>6 DEF Compare
  <2>3. CASE wpc'[w] = "expire"
    <3>1. mine'[w] = [grant EXCEPT !.fresh = FALSE] /\ grant # NoGrant
      BY <1>6, <2>3 DEF Compare
    <3>2. mine'[w].consent = grant.consent
      BY <3>1 DEF Credentials
    <3> QED BY <2>1, <2>2, <3>1, <3>2 DEF Leaves
  <2>4. CASE wpc'[w] = "idle"
    BY <1>6, <2>1, <2>2, <2>4 DEF Leaves
  <2> QED BY <1>6, <2>3, <2>4 DEF Compare
<1>7. CASE GrantExpire(w)
  BY <1>7 DEF GrantExpire, Rewrites, Written, Unlock, Writes
<1>8. CASE Clear(w)
  BY <1>8 DEF Clear, Revokes, Written, Unlock, Writes
<1> QED BY <1>1, <1>2, <1>3, <1>4, <1>5, <1>6, <1>7, <1>8 DEF Operation

(* Consents stay apart: the stored one, the revoked ones and those to come.  *)
LEMMA ConsentsApart ==
  ASSUME GrantInv, NEW w \in Workers, Operation(w)
  PROVE  SameConsent' /\ NewConsent' /\ Numbered' /\ GrantNeverComesBack'
<1> USE GrantValues DEF GrantInv
<1>1. /\ \A v \in Workers \ {w} : mine'[v] = mine[v] /\ wpc'[v] = wpc[v]
      /\ \A v \in Workers \ {w} : (Carries(v)' <=> Carries(v)) /\ (Brings(v)' <=> Brings(v))
  BY GrantMoves, OperationMoves DEF GrantTypes, Carries, Brings
<1>2. /\ consents \in Nat /\ consents' \in Nat /\ grant.consent \in Nat
      /\ stray \in BOOLEAN /\ stray' \in BOOLEAN
      /\ \A v \in Workers : mine[v].consent \in Nat
  BY OperationMoves DEF GrantTypes, Credentials
<1>3. ASSUME Written(w), consents' = consents
      PROVE  /\ SameConsent'
             /\ \A v \in Workers : Carries(v)' \/ Brings(v)' =>
                  v # w /\ mine'[v] = mine[v] /\ (Carries(v) <=> Carries(v)')
                        /\ (Brings(v) <=> Brings(v)')
  <2>1. \A v \in Workers : Carries(v)' \/ Brings(v)' =>
          v # w /\ mine'[v] = mine[v] /\ (Carries(v) <=> Carries(v)')
                /\ (Brings(v) <=> Brings(v)')
    BY <1>1, <1>3 DEF Written
  <2>2. \A v \in Workers : v # w /\ lock' = v => stray'
    BY <1>2, <1>3 DEF Written
  <2> QED BY <1>3, <2>1, <2>2 DEF SameConsent
<1>4. CASE Leaves(w)
  <2>1. SameConsent'
    <3> SUFFICES ASSUME NEW v \in Workers, Carries(v)'
                 PROVE  /\ mine'[v].consent \in 1..consents
                        /\ lock' = v /\ ~stray => grant # NoGrant /\ mine'[v].consent = grant.consent
      BY <1>4 DEF Leaves, SameConsent
    <3>1. CASE v = w
      BY <1>2, <1>4, <3>1 DEF Leaves, SameConsent, Numbered
    <3>2. CASE v # w
      <4>1. Carries(v) /\ mine'[v] = mine[v] /\ (lock' = v => lock = v)
        BY <1>1, <1>4, <3>2 DEF Leaves
      <4> QED BY <4>1 DEF SameConsent
    <3> QED BY <3>1, <3>2
  <2>2. \A v \in Workers : Brings(v)' => Brings(v) /\ mine'[v] = mine[v]
    BY <1>1, <1>4 DEF Leaves
  <2>3. \A v \in Workers : Carries(v)' =>
          \/ Carries(v) /\ mine'[v].consent = mine[v].consent
          \/ mine'[v].consent = grant.consent
    BY <1>1, <1>4 DEF Leaves
  <2>4. NewConsent'
    BY <2>2, <2>3, <1>4 DEF Leaves, NewConsent
  <2>5. Numbered' /\ GrantNeverComesBack'
    BY <1>4 DEF Leaves, Numbered, GrantNeverComesBack
  <2> QED BY <2>1, <2>4, <2>5
<1>5. CASE Revokes(w)
  <2>1. /\ grant' = NoGrant /\ consents' = consents /\ Written(w)
        /\ \/ revoked' \subseteq revoked \cup {grant.consent}
           \/ Carries(w) /\ revoked' = revoked \cup {mine[w].consent}
    BY <1>5 DEF Revokes
  <2>2. NewConsent'
    <3> SUFFICES ASSUME NEW v \in Workers, Brings(v)'
                 PROVE  /\ mine'[v].consent \in 1..consents' /\ mine'[v].consent # grant'.consent
                        /\ mine'[v].consent \notin revoked'
                        /\ \A u \in Workers : (Brings(u)' \/ Carries(u)')
                              /\ mine'[u].consent = mine'[v].consent => u = v
      BY DEF NewConsent
    <3>1. /\ v # w /\ mine'[v] = mine[v] /\ Brings(v)
          /\ \A u \in Workers : Brings(u)' \/ Carries(u)' =>
               mine'[u] = mine[u] /\ (Brings(u) \/ Carries(u))
      BY <1>3, <2>1
    <3>2. mine[v].consent \in 1..consents /\ mine[v].consent \notin revoked'
      BY <2>1, <3>1 DEF NewConsent
    <3> QED BY <1>2, <2>1, <3>1, <3>2 DEF NewConsent
  <2>3. revoked' \subseteq 0..consents
    <3>1. revoked \subseteq 0..consents /\ grant.consent \in 0..consents
      BY DEF Numbered
    <3>2. Carries(w) => mine[w].consent \in 0..consents
      BY <1>2 DEF SameConsent
    <3> QED BY <2>1, <3>1, <3>2
  <2>4. Numbered' /\ GrantNeverComesBack'
    BY <1>2, <2>1, <2>3 DEF Numbered, GrantNeverComesBack
  <2> QED BY <1>3, <2>1, <2>2, <2>4
<1>6. CASE Rewrites(w)
  <2>1. /\ Carries(w) /\ grant' = mine[w] /\ mine[w].consent \in 1..consents
        /\ UNCHANGED <<revoked, newest, consents>> /\ Written(w)
    BY <1>6 DEF Rewrites, SameConsent
  <2>2. NewConsent'
    BY <1>3, <2>1 DEF NewConsent
  <2>3. Numbered'
    BY <1>2, <2>1 DEF Numbered
  <2>4. ~stray' => grant # NoGrant /\ ~stray /\ mine[w].consent = grant.consent
    BY <1>2, <1>6, <2>1 DEF Rewrites, Written, SameConsent
  <2>5. GrantNeverComesBack'
    BY <2>1, <2>4 DEF GrantNeverComesBack
  <2> QED BY <1>3, <2>1, <2>2, <2>3, <2>5
<1>7. CASE Stores(w)
  <2>1. /\ mine[w].consent \in 1..consents /\ mine[w].consent \notin revoked
        /\ \A v \in Workers : (Brings(v) \/ Carries(v)) /\ mine[v].consent = mine[w].consent
                              => v = w
    BY <1>7 DEF Stores, NewConsent, Brings
  <2>2. Written(w) /\ grant' = mine[w] /\ UNCHANGED <<revoked, consents>>
    BY <1>7 DEF Stores
  <2>3. NewConsent'
    BY <1>3, <2>1, <2>2 DEF NewConsent
  <2>4. Numbered' /\ GrantNeverComesBack'
    BY <1>2, <2>1, <1>7 DEF Stores, Numbered, GrantNeverComesBack
  <2> QED BY <1>3, <2>2, <2>3, <2>4
<1>8. CASE Obtains(w)
  <2>1. SameConsent'
    BY <1>1, <1>2, <1>8 DEF Obtains, SameConsent
  <2>2. \A v \in Workers \ {w} : Brings(v)' =>
          /\ mine'[v] = mine[v] /\ mine[v].consent \in 1..consents
          /\ mine[v].consent # grant.consent /\ mine[v].consent \notin revoked
          /\ \A u \in Workers : (Brings(u) \/ Carries(u)) /\ mine[u].consent = mine[v].consent
                                => u = v
    BY <1>1 DEF NewConsent
  <2>3. mine'[w].consent = consents + 1 /\ consents + 1 \notin revoked
        /\ consents + 1 # grant.consent
    BY <1>2, <1>8 DEF Obtains, Numbered
  <2>4. \A u \in Workers \ {w} : Brings(u)' \/ Carries(u)' =>
          mine'[u].consent \in 1..consents /\ mine'[u] = mine[u] /\ (Brings(u) \/ Carries(u))
    BY <1>1, <2>2 DEF SameConsent
  <2>5. NewConsent'
    <3> SUFFICES ASSUME NEW v \in Workers, Brings(v)'
                 PROVE  /\ mine'[v].consent \in 1..consents' /\ mine'[v].consent # grant'.consent
                        /\ mine'[v].consent \notin revoked'
                        /\ \A u \in Workers : (Brings(u)' \/ Carries(u)')
                              /\ mine'[u].consent = mine'[v].consent => u = v
      BY DEF NewConsent
    <3>1. CASE v = w
      BY <1>2, <1>8, <2>3, <2>4, <3>1 DEF Obtains
    <3>2. CASE v # w
      BY <1>2, <1>8, <2>2, <2>3, <2>4, <3>2 DEF Obtains
    <3> QED BY <3>1, <3>2
  <2>6. Numbered' /\ GrantNeverComesBack'
    BY <1>2, <1>8 DEF Obtains, Numbered, GrantNeverComesBack
  <2> QED BY <2>1, <2>5, <2>6
<1> QED BY GrantMoves, <1>4, <1>5, <1>6, <1>7, <1>8

(* A connection changes only under the lock of its replica.                 *)
LEMMA ConnectionsKept ==
  ASSUME GrantInv, NEW w \in Workers, Operation(w)
  PROVE  CallsUseTheirGrant'
<1> USE GrantValues DEF GrantInv
<1> SUFFICES ASSUME NEW v \in Workers, wpc'[v] = "call"
             PROVE  conn'[At[v]] = mine'[v]
  BY DEF CallsUseTheirGrant
<1>1. CASE v = w
  BY <1>1 DEF Operation, Enter, RedisLock, LockTimeout, Look, Refresh, Save, Consent, Connection,
              Call, Compare, GrantExpire, Clear, To, LeaveLock, GrantTypes
<1>2. CASE v # w
  <2>1. wpc[v] = "call" /\ mine'[v] = mine[v] /\ conn[At[v]] = mine[v]
    BY <1>2, GrantMoves, OperationMoves DEF GrantTypes, CallsUseTheirGrant
  <2>2. wpc[w] # "idle" => At[w] # At[v]
    BY <1>2, <2>1 DEF ReplicaHeld
  <2>3. conn'[At[v]] = conn[At[v]]
    BY <2>2 DEF Operation, Enter, RedisLock, LockTimeout, Look, Refresh, Save, Consent, Connection,
                Call, Compare, GrantExpire, Clear, LeaveLock, GrantTypes
  <2> QED BY <2>1, <2>3
<1> QED BY <1>1, <1>2

(* Every step keeps the order of consents.                                  *)
LEMMA GrantSteps == GrantInv /\ [GrantsNext]_grantVars => GrantInv'
<1> SUFFICES ASSUME GrantInv, [GrantsNext]_grantVars
             PROVE  GrantInv'
  OBVIOUS
<1>1. ASSUME NEW w \in Workers, Operation(w)
      PROVE  GrantInv'
  <2>1. GrantTypes' /\ \A v \in Workers \ {w} : wpc'[v] = wpc[v]
    BY <1>1, OperationMoves DEF GrantInv, GrantTypes
  <2>2. ReplicaHeld'
    BY <1>1, <2>1, LocksHold DEF ReplicaHeld
  <2> QED BY <1>1, <2>1, <2>2, ConsentsApart, ConnectionsKept DEF GrantInv
<1>2. CASE Age
  <2>1. /\ UNCHANGED <<lock, busy, conn, wpc, mine, consents, issued, newest, revoked, stray>>
        /\ grant' \in Credentials /\ grant'.consent = grant.consent /\ grant # NoGrant
    BY <1>2, GrantValues DEF Age, GrantInv, GrantTypes, Credentials
  <2>2. GrantTypes' /\ ReplicaHeld' /\ CallsUseTheirGrant'
    BY <2>1 DEF GrantInv, GrantTypes, ReplicaHeld, CallsUseTheirGrant
  <2>3. grant' # NoGrant
    BY <2>1, GrantValues DEF GrantInv, Numbered
  <2>4. SameConsent' /\ NewConsent' /\ Numbered' /\ GrantNeverComesBack'
    BY <2>1, <2>3 DEF GrantInv, SameConsent, NewConsent, Numbered, GrantNeverComesBack, Carries,
                      Brings
  <2> QED BY <2>2, <2>4 DEF GrantInv
<1>3. ASSUME NEW r \in Replicas, Reap(r)
      PROVE  GrantInv'
  <2>1. /\ UNCHANGED <<grant, lock, busy, wpc, mine, consents, issued, newest, revoked, stray>>
        /\ conn' = [conn EXCEPT ![r] = NoGrant] /\ busy[r] = None
    BY <1>3 DEF Reap
  <2>2. \A w \in Workers : wpc[w] # "idle" => At[w] # r
    BY <2>1, GrantValues DEF GrantInv, ReplicaHeld
  <2>3. CallsUseTheirGrant'
    BY <2>1, <2>2, GrantValues DEF GrantInv, GrantTypes, CallsUseTheirGrant
  <2>4. GrantTypes' /\ ReplicaHeld'
    BY <2>1, GrantValues DEF GrantInv, GrantTypes, ReplicaHeld
  <2>5. SameConsent' /\ NewConsent' /\ Numbered' /\ GrantNeverComesBack'
    BY <2>1 DEF GrantInv, SameConsent, NewConsent, Numbered, GrantNeverComesBack, Carries, Brings
  <2> QED BY <2>3, <2>4, <2>5 DEF GrantInv
<1>4. CASE UNCHANGED grantVars
  <2>1. UNCHANGED <<grant, lock, busy, conn, wpc, mine, consents, issued, newest, revoked, stray>>
    BY <1>4 DEF grantVars
  <2> QED
    BY <2>1 DEF GrantInv, GrantTypes, ReplicaHeld, SameConsent, NewConsent, Numbered,
                GrantNeverComesBack, CallsUseTheirGrant, Carries, Brings
<1>5. CASE Lapse
  <2>1. /\ UNCHANGED <<grant, busy, conn, wpc, mine, consents, issued, newest, revoked, stray>>
        /\ lock' = None
    BY <1>5 DEF Lapse
  <2>2. \A w \in Workers : lock' # w
    BY <2>1, GrantValues
  <2> QED
    BY <2>1, <2>2 DEF GrantInv, GrantTypes, ReplicaHeld, SameConsent, NewConsent, Numbered,
                      GrantNeverComesBack, CallsUseTheirGrant, Carries, Brings
<1> QED BY <1>1, <1>2, <1>3, <1>4, <1>5 DEF GrantsNext

(***************************************************************************)
(* Approvals                                                               *)
(***************************************************************************)

Someone == Users \cup {ApprovalNone}
Something == Calls \cup {ApprovalNone}
AskRecords ==
  [user : Someone, call : Something, state : {"pending", "approved", "denied", "expired"}]
TokenRecords == [ask : Nat, unspent : BOOLEAN]
JobRecords == [user : Someone, call : Something, token : Nat]
ActRecords == [user : Someone, call : Something, ask : Nat, by : Procs]

ApprovalTypes ==
  /\ asks \in Seq(AskRecords) /\ tokens \in Seq(TokenRecords) /\ acts \in Seq(ActRecords)
  /\ view \in [Devices -> Nat] /\ job \in [Procs -> JobRecords]
  /\ pc \in [Procs -> {"idle", "gate", "peek", "spend", "start", "connect", "call", "done"}]
  /\ \A t \in 1..Len(tokens) : tokens[t].ask \in 1..Len(asks)
  /\ \A d \in Devices : view[d] \in 0..Len(asks)
  /\ \A p \in Procs : job[p].token \in 0..Len(tokens)
  /\ \A r \in Routes : pc[r] # "idle" => job[r].token # 0

(* A credential belongs to an approved ask, and is its only one.            *)
OneCredential ==
  /\ \A t \in 1..Len(tokens) : asks[tokens[t].ask].state = "approved"
  /\ \A s, t \in 1..Len(tokens) : tokens[s].ask = tokens[t].ask => s = t

(* A call that goes on because it spent a credential.                       *)
Spent(p) ==
  IF p \in Routes THEN pc[p] \in {"start", "connect", "call"}
  ELSE pc[p] = "call" /\ job[p].token # 0 /\ Verdict(job[p].call) = "approve"

(* The ask of the credential a call presents.                               *)
AskOf(p) == tokens[job[p].token].ask

(* It is the one call that spent it, the call its ask was about, and has    *)
(* not acted yet.                                                           *)
SpentByOne ==
  \A p \in Procs : Spent(p) =>
    /\ job[p].token \in 1..Len(tokens) /\ ~tokens[job[p].token].unspent
    /\ asks[AskOf(p)].user = job[p].user /\ asks[AskOf(p)].call = job[p].call
    /\ \A i \in 1..Len(acts) : acts[i].ask # AskOf(p)
    /\ \A q \in Procs : Spent(q) /\ job[q].token = job[p].token => q = p

(* What was done on an ask was approved, and its credential is spent.       *)
ActsBacked ==
  \A i \in 1..Len(acts) : acts[i].ask # 0 =>
    /\ acts[i].ask \in 1..Len(asks) /\ asks[acts[i].ask].state = "approved"
    /\ asks[acts[i].ask].user = acts[i].user /\ asks[acts[i].ask].call = acts[i].call
    /\ \A t \in 1..Len(tokens) : tokens[t].ask = acts[i].ask => ~tokens[t].unspent

ActsDistinct ==
  \A i, j \in 1..Len(acts) : acts[i].ask # 0 /\ acts[i].ask = acts[j].ask => i = j

ApprovalInv == ApprovalTypes /\ OneCredential /\ SpentByOne /\ ActsBacked /\ ActsDistinct

(* Nothing is asked.                                                        *)
LEMMA ApprovalStarts == ApprovalInit => ApprovalInv
<1> SUFFICES ASSUME ApprovalInit
             PROVE  ApprovalInv
  OBVIOUS
<1>1. Len(asks) = 0 /\ Len(tokens) = 0 /\ Len(acts) = 0
  BY DEF ApprovalInit
<1>2. Nothing \in JobRecords /\ Nothing.token = 0
  BY DEF Nothing, JobRecords, Someone, Something
<1>3. ApprovalTypes
  BY <1>1, <1>2 DEF ApprovalInit, ApprovalTypes, Procs
<1>4. \A p \in Procs : ~Spent(p)
  BY DEF ApprovalInit, Spent
<1> QED BY <1>1, <1>3, <1>4
        DEF ApprovalInv, OneCredential, SpentByOne, ActsBacked, ActsDistinct

(* No step but the five below touches asks, credentials, jobs or acts.      *)
Same == asks' = asks /\ tokens' = tokens /\ job' = job /\ acts' = acts
NoneSpends == \A q \in Procs : Spent(q)' => Spent(q)

(* A step that touches neither asks nor credentials, jobs or acts.          *)
LEMMA QuietIsSafe == ApprovalInv /\ ApprovalTypes' /\ Same /\ NoneSpends => ApprovalInv'
BY DEF ApprovalInv, OneCredential, SpentByOne, ActsBacked, ActsDistinct, Same, NoneSpends, AskOf

(* An act on behalf of a call that waits to act, and no longer does.        *)
LEMMA ActIsSafe ==
  ASSUME ApprovalInv, ApprovalTypes', NEW p \in Procs, pc[p] = "call", Act(p),
         asks' = asks, tokens' = tokens, job' = job,
         \A q \in Procs : Spent(q)' => Spent(q) /\ q # p
  PROVE  ApprovalInv'
<1> DEFINE new == [user |-> job[p].user, call |-> job[p].call, ask |-> Authority(p), by |-> p]
           n   == Len(acts) + 1
<1> USE DEF ApprovalInv
<1>1. /\ acts' = Append(acts, new) /\ Len(acts) \in Nat /\ Len(acts') = n
      /\ acts'[n] = new /\ \A i \in 1..Len(acts) : acts'[i] = acts[i]
  <2>1. acts \in Seq(ActRecords) /\ acts' = Append(acts, new)
    BY DEF Act, ApprovalTypes
  <2> QED BY <2>1
<1>2. new.ask # 0 => Spent(p) /\ new.ask = AskOf(p)
  <2>1. job[p].token # 0 => AskOf(p) # 0 /\ job[p].token \in 1..Len(tokens)
    BY DEF ApprovalTypes, AskOf
  <2> QED BY <2>1 DEF Authority, Spent, AskOf
<1>3. \A i \in 1..n : i \in 1..Len(acts) \/ i = n
  BY <1>1
<1>4. OneCredential'
  BY DEF OneCredential
<1>5. SpentByOne'
  <2> SUFFICES ASSUME NEW q \in Procs, Spent(q)'
               PROVE  \A i \in 1..n : acts'[i].ask # AskOf(q)
    BY <1>1 DEF SpentByOne, AskOf
  <2>1. Spent(q) /\ q # p /\ job[q].token \in 1..Len(tokens)
    BY DEF SpentByOne
  <2>2. \A i \in 1..Len(acts) : acts'[i].ask # AskOf(q)
    BY <1>1, <2>1 DEF SpentByOne
  <2>3. new.ask # AskOf(q)
    <3>1. CASE new.ask = 0
      BY <3>1, <2>1 DEF ApprovalTypes, AskOf
    <3>2. CASE new.ask # 0
      <4>1. Spent(p) /\ job[p].token \in 1..Len(tokens) /\ new.ask = AskOf(p)
        BY <1>2, <3>2 DEF SpentByOne
      <4>2. job[p].token # job[q].token
        BY <2>1, <4>1 DEF SpentByOne
      <4> QED BY <2>1, <4>1, <4>2 DEF OneCredential, AskOf
    <3> QED BY <3>1, <3>2
  <2> QED BY <1>1, <1>3, <2>2, <2>3
<1>6. new.ask # 0 =>
        /\ new.ask \in 1..Len(asks) /\ asks[new.ask].state = "approved"
        /\ asks[new.ask].user = new.user /\ asks[new.ask].call = new.call
        /\ \A t \in 1..Len(tokens) : tokens[t].ask = new.ask => ~tokens[t].unspent
        /\ \A i \in 1..Len(acts) : acts[i].ask # new.ask
  <2> SUFFICES ASSUME new.ask # 0
               PROVE  /\ new.ask \in 1..Len(asks) /\ asks[new.ask].state = "approved"
                      /\ asks[new.ask].user = new.user /\ asks[new.ask].call = new.call
                      /\ \A t \in 1..Len(tokens) : tokens[t].ask = new.ask => ~tokens[t].unspent
                      /\ \A i \in 1..Len(acts) : acts[i].ask # new.ask
    OBVIOUS
  <2>1. /\ new.ask = AskOf(p) /\ job[p].token \in 1..Len(tokens)
        /\ ~tokens[job[p].token].unspent
        /\ asks[AskOf(p)].user = job[p].user /\ asks[AskOf(p)].call = job[p].call
        /\ \A i \in 1..Len(acts) : acts[i].ask # AskOf(p)
    BY <1>2 DEF SpentByOne
  <2>2. AskOf(p) \in 1..Len(asks) /\ asks[AskOf(p)].state = "approved"
    BY <2>1 DEF ApprovalTypes, OneCredential, AskOf
  <2>3. \A t \in 1..Len(tokens) : tokens[t].ask = AskOf(p) => t = job[p].token
    BY <2>1 DEF OneCredential, AskOf
  <2> QED BY <2>1, <2>2, <2>3
<1>7. ActsBacked'
  <2> SUFFICES ASSUME NEW i \in 1..n, acts'[i].ask # 0
               PROVE  /\ acts'[i].ask \in 1..Len(asks) /\ asks[acts'[i].ask].state = "approved"
                      /\ asks[acts'[i].ask].user = acts'[i].user
                      /\ asks[acts'[i].ask].call = acts'[i].call
                      /\ \A t \in 1..Len(tokens) : tokens[t].ask = acts'[i].ask
                                                     => ~tokens[t].unspent
    BY <1>1 DEF ActsBacked
  <2>1. CASE i = n
    BY <1>1, <1>6, <2>1
  <2>2. CASE i \in 1..Len(acts)
    BY <1>1, <2>2 DEF ActsBacked
  <2> QED BY <1>3, <2>1, <2>2
<1>8. ActsDistinct'
  <2> SUFFICES ASSUME NEW i \in 1..n, NEW j \in 1..n, acts'[i].ask # 0,
                      acts'[i].ask = acts'[j].ask
               PROVE  i = j
    BY <1>1 DEF ActsDistinct
  <2>1. CASE i \in 1..Len(acts) /\ j \in 1..Len(acts)
    BY <1>1, <2>1 DEF ActsDistinct
  <2>2. CASE i = n /\ j \in 1..Len(acts)
    BY <1>1, <1>6, <2>2
  <2>3. CASE j = n /\ i \in 1..Len(acts)
    BY <1>1, <1>6, <2>3
  <2> QED BY <1>3, <2>1, <2>2, <2>3
<1> QED BY <1>4, <1>5, <1>7, <1>8

(* A credential is spent: by the call it matches, by one it does not match,  *)
(* or by time.                                                              *)
LEMMA SpendingIsSafe ==
  ASSUME ApprovalInv, ApprovalTypes', NEW t \in 1..Len(tokens), tokens[t].unspent,
         tokens' = [tokens EXCEPT ![t].unspent = FALSE],
         asks' = asks, job' = job, acts' = acts,
         \A q \in Procs : Spent(q)' =>
           \/ Spent(q)
           \/ /\ job[q].token = t /\ asks[tokens[t].ask].user = job[q].user
              /\ asks[tokens[t].ask].call = job[q].call
              /\ \A r \in Procs : Spent(r)' => Spent(r) \/ r = q
  PROVE  ApprovalInv'
<1> USE DEF ApprovalInv
<1>1. /\ Len(tokens') = Len(tokens)
      /\ \A s \in 1..Len(tokens) : /\ tokens'[s].ask = tokens[s].ask
                                   /\ s # t => tokens'[s] = tokens[s]
      /\ ~tokens'[t].unspent
  <2>1. tokens \in Seq(TokenRecords)
    BY DEF ApprovalTypes
  <2> QED BY <2>1 DEF TokenRecords
<1>2. OneCredential'
  BY <1>1 DEF OneCredential, ApprovalTypes
<1>3. ActsBacked' /\ ActsDistinct'
  BY <1>1 DEF ActsBacked, ActsDistinct
<1>4. \A i \in 1..Len(acts) : acts[i].ask # tokens[t].ask
  BY DEF ActsBacked, ApprovalTypes
<1>5. \A q \in Procs : Spent(q) => job[q].token # t
  BY DEF SpentByOne
<1>6. SpentByOne'
  <2> SUFFICES ASSUME NEW q \in Procs, Spent(q)'
               PROVE  /\ job[q].token \in 1..Len(tokens) /\ ~tokens'[job[q].token].unspent
                      /\ asks[tokens[job[q].token].ask].user = job[q].user
                      /\ asks[tokens[job[q].token].ask].call = job[q].call
                      /\ \A i \in 1..Len(acts) : acts[i].ask # tokens[job[q].token].ask
                      /\ \A r \in Procs : Spent(r)' /\ job[r].token = job[q].token => r = q
    BY <1>1 DEF SpentByOne, AskOf
  <2>1. CASE Spent(q)
    BY <1>1, <1>5, <2>1 DEF SpentByOne, AskOf
  <2>2. CASE ~Spent(q)
    BY <1>1, <1>4, <1>5, <2>2
  <2> QED BY <2>1, <2>2
<1> QED BY <1>2, <1>3, <1>6

(* A call presents a credential, which it has not spent.                    *)
LEMMA RequestIsSafe ==
  ASSUME ApprovalInv, ApprovalTypes', NEW p \in Procs,
         \A q \in Procs \ {p} : job'[q] = job[q],
         asks' = asks, tokens' = tokens, acts' = acts, NoneSpends, ~Spent(p)'
  PROVE  ApprovalInv'
BY DEF ApprovalInv, OneCredential, SpentByOne, ActsBacked, ActsDistinct, NoneSpends, AskOf

(* An ask appears or is decided; only an approval makes it good for a       *)
(* credential, which is new.                                                *)
LEMMA AskingIsSafe ==
  ASSUME ApprovalInv, ApprovalTypes', NEW b \in AskRecords,
         asks' = Append(asks, b), tokens' = tokens, job' = job, acts' = acts, NoneSpends
  PROVE  ApprovalInv'
<1> USE DEF ApprovalInv
<1>1. Len(asks') = Len(asks) + 1 /\ Len(asks) \in Nat
      /\ \A a \in 1..Len(asks) : asks'[a] = asks[a]
  <2>1. asks \in Seq(AskRecords)
    BY DEF ApprovalTypes
  <2> QED BY <2>1
<1>2. OneCredential'
  BY <1>1 DEF OneCredential, ApprovalTypes
<1>3. SpentByOne'
  BY <1>1 DEF SpentByOne, ApprovalTypes, AskOf, NoneSpends
<1>4. ActsBacked' /\ ActsDistinct'
  BY <1>1 DEF ActsBacked, ActsDistinct
<1> QED BY <1>2, <1>3, <1>4

(* A decision, which gives an approved ask its one credential.              *)
LEMMA DecidingIsSafe ==
  ASSUME ApprovalInv, ApprovalTypes', NEW a \in 1..Len(asks), asks[a].state = "pending",
         NEW v \in {"approved", "denied", "expired"},
         asks' = [asks EXCEPT ![a].state = v],
         tokens' = IF v = "approved" THEN Append(tokens, [ask |-> a, unspent |-> TRUE])
                   ELSE tokens,
         job' = job, acts' = acts, NoneSpends
  PROVE  ApprovalInv'
<1> USE DEF ApprovalInv
<1>1. /\ Len(asks') = Len(asks) /\ Len(tokens) \in Nat
      /\ \A b \in 1..Len(asks) : /\ asks'[b].user = asks[b].user /\ asks'[b].call = asks[b].call
                                 /\ b # a => asks'[b].state = asks[b].state
      /\ asks'[a].state = v
  <2>1. asks \in Seq(AskRecords) /\ tokens \in Seq(TokenRecords)
    BY DEF ApprovalTypes
  <2> QED BY <2>1 DEF AskRecords
<1>2. /\ \A t \in 1..Len(tokens) : tokens'[t] = tokens[t] /\ t \in 1..Len(tokens')
      /\ \A t \in 1..Len(tokens') : \/ t \in 1..Len(tokens)
                                    \/ v = "approved" /\ t = Len(tokens) + 1 /\ tokens'[t].ask = a
  <2>1. tokens \in Seq(TokenRecords)
    BY DEF ApprovalTypes
  <2> QED BY <2>1
<1>3. /\ \A t \in 1..Len(tokens) : tokens[t].ask \in 1..Len(asks) /\ tokens[t].ask # a
      /\ \A i \in 1..Len(acts) : acts[i].ask # a
  <2>1. \A t \in 1..Len(tokens) : tokens[t].ask \in 1..Len(asks) /\ tokens[t].ask # a
    BY DEF OneCredential, ApprovalTypes
  <2>2. a # 0 /\ asks[a].state # "approved"
    OBVIOUS
  <2>3. \A i \in 1..Len(acts) : acts[i].ask # a
    BY <2>2 DEF ActsBacked
  <2> QED BY <2>1, <2>3
<1>4. OneCredential'
  BY <1>1, <1>2, <1>3 DEF OneCredential
<1>5. SpentByOne'
  <2>1. \A q \in Procs : Spent(q)' =>
          Spent(q) /\ job[q].token \in 1..Len(tokens) /\ AskOf(q)' = AskOf(q)
    BY <1>2 DEF SpentByOne, NoneSpends, AskOf
  <2>2. \A q \in Procs : Spent(q)' =>
          /\ job'[q].token \in 1..Len(tokens') /\ ~tokens'[job'[q].token].unspent
          /\ \A r \in Procs : Spent(r)' /\ job'[r].token = job'[q].token => r = q
    BY <1>2, <2>1 DEF SpentByOne
  <2>3. \A q \in Procs : Spent(q)' => AskOf(q) \in 1..Len(asks) /\ AskOf(q) # a
    BY <1>3, <2>1 DEF AskOf
  <2>4. \A q \in Procs : Spent(q)' =>
          /\ asks'[AskOf(q)'].user = job'[q].user /\ asks'[AskOf(q)'].call = job'[q].call
          /\ \A i \in 1..Len(acts') : acts'[i].ask # AskOf(q)'
    BY <1>1, <2>1, <2>3 DEF SpentByOne
  <2> QED BY <2>2, <2>4 DEF SpentByOne
<1>6. ActsBacked' /\ ActsDistinct'
  BY <1>1, <1>2, <1>3 DEF ActsBacked, ActsDistinct
<1> QED BY <1>4, <1>5, <1>6

(* Who the calls belong to.                                                 *)
LEMMA ApprovalConstants ==
  /\ ApprovalNone \in Someone /\ ApprovalNone \in Something
  /\ Users \subseteq Someone /\ Calls \subseteq Something
  /\ Chats \subseteq Procs /\ Background \subseteq Procs /\ Routes \subseteq Procs
  /\ \A p \in Chats \cup Background : p \notin Routes
BY ApprovalAssumption DEF Someone, Something, Procs

(* The lengths of the histories are numbers, and their domains follow.      *)
LEMMA ApprovalDomains ==
  ASSUME ApprovalTypes
  PROVE  /\ Len(asks) \in Nat /\ Len(tokens) \in Nat /\ Len(acts) \in Nat
         /\ DOMAIN asks = 1..Len(asks) /\ DOMAIN tokens = 1..Len(tokens)
BY DEF ApprovalTypes

(* A step that moves calls only.                                            *)
LEMMA MovingKeepsTypes ==
  ASSUME ApprovalTypes, Same, UNCHANGED view, NEW p \in Procs, pc[p] # "idle",
         NEW where \in {"gate", "peek", "spend", "start", "connect", "call", "done"},
         pc' = [pc EXCEPT ![p] = where]
  PROVE  ApprovalTypes'
BY ApprovalConstants DEF ApprovalTypes, Same

(* A call acts or not, and is done.                                         *)
LEMMA EndingIsSafe ==
  ASSUME ApprovalInv, NEW p \in Procs, pc[p] # "idle",
         pc' = [q \in Procs |-> IF q = p THEN "done" ELSE pc[q]],
         UNCHANGED <<policy, asks, tokens, view, job>>,
         acts' = acts \/ (pc[p] = "call" /\ Act(p))
  PROVE  ApprovalInv'
<1> USE ApprovalConstants DEF ApprovalInv
<1>1. \A q \in Procs : Spent(q)' => Spent(q) /\ q # p
  BY DEF Spent, Verdict, ApprovalTypes
<1>2. CASE acts' = acts
  <2>1. ApprovalTypes'
    BY <1>2 DEF ApprovalTypes
  <2> QED BY <1>1, <1>2, <2>1, QuietIsSafe DEF Same, NoneSpends
<1>3. CASE pc[p] = "call" /\ Act(p)
  <2>1. acts' \in Seq(ActRecords)
    <3>1. Authority(p) \in Nat
      BY DEF Authority, ApprovalTypes
    <3>2. job[p].user \in Someone /\ job[p].call \in Something
      BY DEF ApprovalTypes, JobRecords
    <3> QED BY <1>3, <3>1, <3>2 DEF Act, ActRecords, ApprovalTypes
  <2>2. ApprovalTypes'
    BY <2>1 DEF ApprovalTypes
  <2> QED BY <1>1, <1>3, <2>2, ActIsSafe
<1> QED BY <1>2, <1>3

(* A call presents its credential: consumed if it is the user's and unspent.*)
LEMMA ConsumingIsSafe ==
  ASSUME ApprovalInv, NEW p \in Procs, Consume(p), pc[p] \in {"gate", "spend"},
         NEW where \in {"start", "call", "done"},
         p \in Routes => where # "call",
         where # "done" => Matches(p),
         pc' = [pc EXCEPT ![p] = where],
         UNCHANGED <<policy, asks, view, job, acts>>
  PROVE  ApprovalInv'
<1> USE ApprovalConstants, ApprovalDomains DEF ApprovalInv
<1> DEFINE t == job[p].token
<1>1. \A q \in Procs : Spent(q)' => Spent(q) \/ (q = p /\ where # "done")
  BY DEF Spent, Verdict, ApprovalTypes
<1>2. CASE Held(p)
  <2>1. /\ t \in 1..Len(tokens) /\ tokens[t].unspent
        /\ tokens' = [tokens EXCEPT ![t].unspent = FALSE]
    BY <1>2 DEF Held, Consume, ApprovalTypes
  <2>2. /\ tokens' \in Seq(TokenRecords) /\ Len(tokens') = Len(tokens)
        /\ \A s \in 1..Len(tokens) : tokens'[s].ask = tokens[s].ask
    <3>1. tokens \in Seq(TokenRecords)
      BY DEF ApprovalTypes
    <3>2. tokens[t] \in TokenRecords
      BY <2>1, <3>1
    <3>3. [tokens[t] EXCEPT !.unspent = FALSE] \in TokenRecords
      BY <3>2 DEF TokenRecords
    <3>4. tokens' \in Seq(TokenRecords) /\ Len(tokens') = Len(tokens)
      BY <2>1, <3>1, <3>3
    <3>5. \A s \in 1..Len(tokens) : tokens'[s].ask = tokens[s].ask
      BY <2>1, <3>1, <3>2 DEF TokenRecords
    <3> QED BY <3>4, <3>5
  <2>3. ApprovalTypes'
    BY <2>2 DEF ApprovalTypes
  <2>4. where # "done" => asks[tokens[t].ask].user = job[p].user
                          /\ asks[tokens[t].ask].call = job[p].call
    BY DEF Matches, Held
  <2>5. \A q \in Procs : Spent(q)' =>
          \/ Spent(q)
          \/ /\ job[q].token = t /\ asks[tokens[t].ask].user = job[q].user
             /\ asks[tokens[t].ask].call = job[q].call
             /\ \A r \in Procs : Spent(r)' => Spent(r) \/ r = q
    BY <1>1, <2>4
  <2> QED BY <2>1, <2>3, <2>5, SpendingIsSafe
<1>3. CASE ~Held(p)
  <2>1. Same /\ where = "done"
    BY <1>3 DEF Consume, Matches, Same
  <2>2. ApprovalTypes'
    BY <2>1, MovingKeepsTypes
  <2> QED BY <1>1, <2>1, <2>2, QuietIsSafe DEF NoneSpends
<1> QED BY <1>2, <1>3

(* Every step keeps one credential for one ask and one act.                 *)
LEMMA ApprovalSteps == ApprovalInv /\ [ApprovalNext]_approvalVars => ApprovalInv'
<1> SUFFICES ASSUME ApprovalInv, [ApprovalNext]_approvalVars
             PROVE  ApprovalInv'
  OBVIOUS
<1> USE ApprovalConstants, ApprovalDomains
<1>a. ApprovalTypes
  BY DEF ApprovalInv
<1>1. ASSUME NEW p \in Procs, NEW u \in Users, NEW c \in Calls, NEW t \in {0} \cup DOMAIN tokens,
             Request(p, u, c, t) \/ Arrive(p, u, c, t)
      PROVE  ApprovalInv'
  <2> DEFINE new == [user |-> u, call |-> c, token |-> t]
  <2>1. /\ pc[p] = "idle" /\ job' = [job EXCEPT ![p] = new]
        /\ UNCHANGED <<policy, asks, tokens, view, acts>>
        /\ p \in Routes => t # 0
    BY <1>1, <1>a DEF Request, Arrive
  <2>2. pc' = [pc EXCEPT ![p] = pc'[p]] /\ pc'[p] \in {"gate", "peek", "done"}
    BY <1>1, <1>a DEF Request, Arrive, ApprovalGoto, ApprovalTypes
  <2>3. new \in JobRecords /\ t \in 0..Len(tokens)
    BY <1>a DEF JobRecords
  <2>4. p \in Routes => pc'[p] \in {"peek", "done"}
    BY <1>1, <1>a DEF Request, Arrive, ApprovalGoto, ApprovalTypes
  <2>5. ApprovalTypes'
    BY <1>a, <2>1, <2>2, <2>3 DEF ApprovalTypes
  <2>6. ~Spent(p)'
    BY <2>2, <2>4 DEF Spent
  <2>7. NoneSpends
    BY <1>a, <2>1, <2>2, <2>6 DEF NoneSpends, Spent, Verdict, ApprovalTypes
  <2>8. \A q \in Procs \ {p} : job'[q] = job[q]
    BY <1>a, <2>1 DEF ApprovalTypes
  <2> QED BY <2>1, <2>5, <2>6, <2>7, <2>8, RequestIsSafe
<1>2. ASSUME NEW p \in Chats \cup Background, Gate(p)
      PROVE  ApprovalInv'
  <2>1. pc[p] = "gate" /\ p \in Procs /\ p \notin Routes /\ UNCHANGED <<policy, view, job, acts>>
    BY <1>2 DEF Gate
  <2>2. CASE Verdict(job[p].call) = "allow" /\ ApprovalGoto(p, "call") /\ UNCHANGED <<asks, tokens>>
    <3>1. Same /\ NoneSpends
      BY <1>a, <2>1, <2>2 DEF Same, NoneSpends, Spent, Verdict, ApprovalGoto, ApprovalTypes
    <3>2. ApprovalTypes'
      BY <1>a, <2>1, <2>2, <3>1, MovingKeepsTypes DEF ApprovalGoto
    <3> QED BY <3>1, <3>2, QuietIsSafe
  <2>3. CASE ApprovalGoto(p, "done") /\ UNCHANGED <<asks, tokens>>
    <3>1. Same /\ NoneSpends
      BY <1>a, <2>1, <2>3 DEF Same, NoneSpends, Spent, Verdict, ApprovalGoto, ApprovalTypes
    <3>2. ApprovalTypes'
      BY <1>a, <2>1, <2>3, <3>1, MovingKeepsTypes DEF ApprovalGoto
    <3> QED BY <3>1, <3>2, QuietIsSafe
  <2>4. CASE /\ Consume(p) /\ ApprovalGoto(p, IF Matches(p) THEN "call" ELSE "done")
             /\ UNCHANGED asks
    <3> DEFINE where == IF Matches(p) THEN "call" ELSE "done"
    <3>1. pc' = [pc EXCEPT ![p] = where] /\ where \in {"start", "call", "done"}
      BY <2>4 DEF ApprovalGoto
    <3>2. p \in Routes => where # "call"
      BY <2>1
    <3>3. where # "done" => Matches(p)
      OBVIOUS
    <3> HIDE DEF where
    <3> QED BY <2>1, <2>4, <3>1, <3>2, <3>3, ConsumingIsSafe
  <2>5. CASE Ask(p) /\ ApprovalGoto(p, "done") /\ UNCHANGED tokens
    <3> DEFINE b == [user |-> job[p].user, call |-> job[p].call, state |-> "pending"]
    <3>1. b \in AskRecords /\ asks' = Append(asks, b)
      BY <1>a, <2>1, <2>5 DEF Ask, ApprovalTypes, JobRecords, AskRecords
    <3>2. asks' \in Seq(AskRecords) /\ Len(asks') = Len(asks) + 1
      BY <1>a, <3>1 DEF ApprovalTypes
    <3>3. ApprovalTypes'
      BY <1>a, <2>1, <2>5, <3>2 DEF ApprovalTypes, ApprovalGoto
    <3>4. NoneSpends
      BY <1>a, <2>1, <2>5 DEF NoneSpends, Spent, Verdict, ApprovalGoto, ApprovalTypes
    <3> QED BY <2>1, <2>5, <3>1, <3>3, <3>4, AskingIsSafe
  <2> QED BY <1>2, <2>2, <2>3, <2>4, <2>5 DEF Gate
<1>3. ASSUME NEW p \in Procs, ApprovalCall(p) \/ Cancel(p)
      PROVE  ApprovalInv'
  <2>1. /\ pc[p] # "idle" /\ UNCHANGED <<policy, asks, tokens, view, job>>
        /\ acts' = acts \/ (pc[p] = "call" /\ Act(p))
    BY <1>3 DEF ApprovalCall, Cancel
  <2>2. pc' = [q \in Procs |-> IF q = p THEN "done" ELSE pc[q]]
    BY <1>3, <1>a DEF ApprovalCall, Cancel, ApprovalGoto, ApprovalTypes
  <2> QED BY <2>1, <2>2, EndingIsSafe
<1>4. ASSUME NEW r \in Routes, Peek(r) \/ Start(r) \/ Connect(r)
      PROVE  ApprovalInv'
  <2>1. /\ pc[r] \in {"peek", "start", "connect"} /\ r \in Procs
        /\ UNCHANGED <<policy, view>> /\ Same
    BY <1>4 DEF Peek, Start, Connect, Same
  <2>2. \/ pc' = pc
        \/ /\ pc' = [pc EXCEPT ![r] = pc'[r]]
           /\ pc'[r] \in {"spend", "done"} \/ (pc[r] # "peek" /\ pc'[r] \in {"connect", "call"})
    BY <1>4, <1>a DEF Peek, Start, Connect, ApprovalGoto, ApprovalTypes
  <2>3. ApprovalTypes'
    BY <1>a, <2>1, <2>2 DEF ApprovalTypes, Same
  <2>4. NoneSpends
    BY <1>a, <2>1, <2>2 DEF NoneSpends, Spent, Verdict, ApprovalTypes, Same
  <2> QED BY <2>1, <2>3, <2>4, QuietIsSafe
<1>5. ASSUME NEW r \in Routes, Spend(r)
      PROVE  ApprovalInv'
  <2> DEFINE where == IF Matches(r) THEN "start" ELSE "done"
  <2>1. /\ pc[r] = "spend" /\ r \in Procs /\ Consume(r)
        /\ UNCHANGED <<policy, asks, view, job, acts>>
    BY <1>5 DEF Spend
  <2>2. pc' = [pc EXCEPT ![r] = where] /\ where \in {"start", "call", "done"} /\ where # "call"
    BY <1>5 DEF Spend, ApprovalGoto
  <2>3. where # "done" => Matches(r)
    OBVIOUS
  <2> HIDE DEF where
  <2> QED BY <2>1, <2>2, <2>3, ConsumingIsSafe
<1>6. ASSUME NEW d \in Devices, ApprovalLook(d)
      PROVE  ApprovalInv'
  <2>1. Same /\ UNCHANGED <<policy, pc>>
    BY <1>6 DEF ApprovalLook, Same
  <2>2. PICK a \in DOMAIN asks : view' = [view EXCEPT ![d] = a]
    BY <1>6 DEF ApprovalLook
  <2>3. ApprovalTypes'
    BY <1>a, <2>1, <2>2 DEF ApprovalTypes, Same
  <2>4. NoneSpends
    BY <2>1 DEF NoneSpends, Spent, Verdict, Same
  <2> QED BY <2>1, <2>3, <2>4, QuietIsSafe
<1>7. ASSUME NEW d \in Devices, NEW v \in {"approved", "denied"}, Decide(d, v)
      PROVE  ApprovalInv'
  <2>1. /\ view[d] \in 1..Len(asks) /\ view' = [view EXCEPT ![d] = 0]
        /\ UNCHANGED <<policy, pc, job, acts>>
    BY <1>7, <1>a DEF Decide, ApprovalTypes
  <2>2. NoneSpends
    BY <2>1 DEF NoneSpends, Spent, Verdict
  <2>3. CASE StillPending(view[d])
    <3> DEFINE a == view[d]
               good == [ask |-> a, unspent |-> TRUE]
    <3>1. /\ asks' = [asks EXCEPT ![a].state = v] /\ asks[a].state = "pending"
          /\ tokens' = IF v = "approved" THEN Append(tokens, good) ELSE tokens
      BY <1>7, <2>3 DEF Decide, StillPending
    <3>2. asks' \in Seq(AskRecords) /\ Len(asks') = Len(asks)
      <4>1. asks \in Seq(AskRecords) /\ asks[a] \in AskRecords
        BY <1>a, <2>1 DEF ApprovalTypes
      <4>2. [asks[a] EXCEPT !.state = v] \in AskRecords
        BY <4>1 DEF AskRecords
      <4> QED BY <2>1, <3>1, <4>1, <4>2
    <3>3. /\ tokens' \in Seq(TokenRecords) /\ Len(tokens') \in Nat /\ Len(tokens') >= Len(tokens)
          /\ \A t \in 1..Len(tokens') : tokens'[t].ask \in 1..Len(asks)
      <4>1. tokens \in Seq(TokenRecords) /\ good \in TokenRecords
        BY <1>a, <2>1 DEF ApprovalTypes, TokenRecords
      <4>2. CASE v = "approved"
        <5>1. /\ tokens' = Append(tokens, good) /\ Len(tokens') = Len(tokens) + 1
              /\ tokens'[Len(tokens) + 1] = good
              /\ \A t \in 1..Len(tokens) : tokens'[t] = tokens[t]
          BY <3>1, <4>1, <4>2
        <5>2. good.ask \in 1..Len(asks)
          BY <2>1
        <5>3. \A t \in 1..Len(tokens') : t \in 1..Len(tokens) \/ t = Len(tokens) + 1
          BY <5>1
        <5>4. \A t \in 1..Len(tokens') : tokens'[t].ask \in 1..Len(asks)
          BY <1>a, <5>1, <5>2, <5>3 DEF ApprovalTypes
        <5> QED BY <4>1, <5>1, <5>4
      <4>3. CASE v # "approved"
        BY <1>a, <3>1, <4>1, <4>3 DEF ApprovalTypes
      <4> QED BY <4>2, <4>3
    <3>4. ApprovalTypes'
      <4>1. view' \in [Devices -> Nat] /\ \A e \in Devices : view'[e] \in 0..Len(asks)
        BY <1>a, <2>1 DEF ApprovalTypes
      <4> QED BY <1>a, <2>1, <3>2, <3>3, <4>1 DEF ApprovalTypes
    <3> QED BY <2>1, <2>2, <3>1, <3>4, DecidingIsSafe
  <2>4. CASE ~StillPending(view[d])
    <3>1. Same
      BY <1>7, <2>1, <2>4 DEF Decide, Same
    <3>2. ApprovalTypes'
      BY <1>a, <2>1, <3>1 DEF ApprovalTypes, Same
    <3> QED BY <2>2, <3>1, <3>2, QuietIsSafe
  <2> QED BY <2>3, <2>4
<1>8. ASSUME NEW t \in DOMAIN tokens, TokenExpires(t)
      PROVE  ApprovalInv'
  <2>1. /\ tokens[t].unspent /\ tokens' = [tokens EXCEPT ![t].unspent = FALSE]
        /\ UNCHANGED <<policy, asks, view, pc, job, acts>> /\ t \in 1..Len(tokens)
    BY <1>8, <1>a DEF TokenExpires
  <2>2. tokens \in Seq(TokenRecords) /\ tokens[t] \in TokenRecords
    BY <1>a, <2>1 DEF ApprovalTypes
  <2>3. [tokens[t] EXCEPT !.unspent = FALSE] \in TokenRecords
    BY <2>2 DEF TokenRecords
  <2>4. tokens' \in Seq(TokenRecords) /\ Len(tokens') = Len(tokens)
    BY <2>1, <2>2, <2>3
  <2>5. \A s \in 1..Len(tokens) : tokens'[s].ask = tokens[s].ask
    BY <2>1, <2>2 DEF TokenRecords
  <2>6. ApprovalTypes'
    BY <1>a, <2>1, <2>4, <2>5 DEF ApprovalTypes
  <2>7. \A q \in Procs : Spent(q)' => Spent(q)
    BY <2>1 DEF Spent, Verdict
  <2> QED BY <2>1, <2>6, <2>7, SpendingIsSafe
<1>9. ASSUME NEW a \in DOMAIN asks, AskExpires(a)
      PROVE  ApprovalInv'
  <2>1. /\ asks[a].state = "pending" /\ asks' = [asks EXCEPT ![a].state = "expired"]
        /\ UNCHANGED <<policy, tokens, view, pc, job, acts>> /\ a \in 1..Len(asks)
    BY <1>9, <1>a DEF AskExpires
  <2>2. asks \in Seq(AskRecords) /\ asks[a] \in AskRecords
    BY <1>a, <2>1 DEF ApprovalTypes
  <2>3. [asks[a] EXCEPT !.state = "expired"] \in AskRecords
    BY <2>2 DEF AskRecords
  <2>4. asks' \in Seq(AskRecords) /\ Len(asks') = Len(asks)
    BY <2>1, <2>2, <2>3
  <2>5. ApprovalTypes'
    BY <1>a, <2>1, <2>4 DEF ApprovalTypes
  <2>6. NoneSpends
    BY <2>1 DEF NoneSpends, Spent, Verdict
  <2> DEFINE v == "expired"
  <2>7. tokens' = IF v = "approved" THEN Append(tokens, [ask |-> a, unspent |-> TRUE]) ELSE tokens
    BY <2>1
  <2>8. v \in {"approved", "denied", "expired"} /\ asks' = [asks EXCEPT ![a].state = v]
    BY <2>1
  <2> HIDE DEF v
  <2> QED BY <2>1, <2>5, <2>6, <2>7, <2>8, DecidingIsSafe
<1>10. CASE Restart
  <2>1. /\ UNCHANGED <<asks, tokens, view, job>>
        /\ pc' = [p \in Procs |-> IF pc[p] = "idle" THEN "idle" ELSE "done"]
        /\ acts' = acts \/ \E p \in Procs : pc[p] = "call" /\ Act(p)
    BY <1>10 DEF Restart
  <2>2. \A q \in Procs : ~Spent(q)'
    BY <2>1 DEF Spent
  <2>3. CASE acts' = acts
    <3>1. ApprovalTypes'
      BY <1>a, <2>1, <2>3 DEF ApprovalTypes
    <3> QED BY <2>1, <2>2, <2>3, <3>1, QuietIsSafe DEF Same, NoneSpends
  <2>4. ASSUME NEW p \in Procs, pc[p] = "call", Act(p)
        PROVE  ApprovalInv'
    <3>1. Authority(p) \in Nat /\ job[p].user \in Someone /\ job[p].call \in Something
      BY <1>a DEF Authority, ApprovalTypes, JobRecords
    <3>2. acts' \in Seq(ActRecords)
      BY <1>a, <2>4, <3>1 DEF Act, ActRecords, ApprovalTypes
    <3>3. ApprovalTypes'
      BY <1>a, <2>1, <3>2 DEF ApprovalTypes
    <3> QED BY <2>1, <2>2, <2>4, <3>3, ActIsSafe
  <2> QED BY <2>1, <2>3, <2>4
<1>11. CASE UNCHANGED approvalVars
  <2>1. Same /\ UNCHANGED <<policy, view, pc>>
    BY <1>11 DEF approvalVars, Same
  <2>2. ApprovalTypes' /\ NoneSpends
    BY <1>a, <2>1 DEF ApprovalTypes, NoneSpends, Spent, Verdict, Same
  <2> QED BY <2>1, <2>2, QuietIsSafe
<1> QED BY <1>1, <1>2, <1>3, <1>4, <1>5, <1>6, <1>7, <1>8, <1>9, <1>10, <1>11
        DEF ApprovalNext, RouteStep

(* The invariant says what an approval is good for.                         *)
LEMMA ApprovalSafe == ApprovalInv => OneActPerApproval /\ ExactlyWhatWasApproved
<1> SUFFICES ASSUME ApprovalInv
             PROVE  OneActPerApproval /\ ExactlyWhatWasApproved
  OBVIOUS
<1>1. DOMAIN acts = 1..Len(acts) /\ DOMAIN asks = 1..Len(asks)
  BY DEF ApprovalInv, ApprovalTypes
<1>2. ExactlyWhatWasApproved
  BY <1>1 DEF ApprovalInv, ActsBacked, ExactlyWhatWasApproved
<1>3. ASSUME NEW a \in DOMAIN asks
      PROVE  Cardinality({i \in DOMAIN acts : acts[i].ask = a}) <= 1
  <2> DEFINE S == {i \in DOMAIN acts : acts[i].ask = a}
  <2>1. \A i, j \in S : i = j
    BY <1>1 DEF ApprovalInv, ActsDistinct
  <2>2. CASE S = {}
    BY <2>2, FS_EmptySet
  <2>3. CASE S # {}
    <3>1. PICK i \in S : TRUE
      BY <2>3
    <3>2. S = {i}
      BY <2>1, <3>1
    <3>3. Cardinality(S) = 1
      <4> HIDE DEF S
      <4> QED BY <3>2, FS_Singleton
    <3> QED BY <3>3
  <2> QED BY <2>2, <2>3
<1> QED BY <1>2, <1>3 DEF OneActPerApproval

(***************************************************************************)
(* The services together                                                   *)
(***************************************************************************)

(* A step of one service leaves the variables of the others alone.          *)
LEMMA ServicesApart ==
  [Next]_vars => [GrantsNext]_grantVars /\ [ApprovalNext]_approvalVars /\ [IdemNext]_idemVars
<1> SUFFICES ASSUME [Next]_vars
             PROVE  [GrantsNext]_grantVars /\ [ApprovalNext]_approvalVars /\ [IdemNext]_idemVars
  OBVIOUS
<1>1. CASE GrantsStep
  BY <1>1 DEF GrantsStep
<1>2. CASE ApprovalStep
  BY <1>2 DEF ApprovalStep
<1>3. CASE ReceiptStep
  BY <1>3 DEF ReceiptStep
<1>4. CASE MemoryStep \/ CenterStep \/ MigrationStep \/ ImportStep \/ StartupStep
           \/ AccessStep \/ FeedStep \/ OperationsStep \/ EvaluationStep \/ UNCHANGED vars
  BY <1>4 DEF MemoryStep, CenterStep, MigrationStep, ImportStep, StartupStep, AccessStep, FeedStep,
              OperationsStep, EvaluationStep, vars
<1> QED BY <1>1, <1>2, <1>3, <1>4 DEF Next

(* What acts for a user is authorised and happens once: a revoked or        *)
(* replaced grant never comes back, unless an operation that outlived its   *)
(* lock wrote it, and a call goes out with the credential it was given; an  *)
(* approval is spent by one act, the one approved; equal calls of an        *)
(* execution have one effect (oauth.py, approval_tokens.py, idempotency.py).*)
THEOREM Authorised == Spec => []ActsAuthorised
<1> DEFINE Inv == GrantInv /\ ApprovalInv /\ IdemInv
<1>1. Init => Inv
  BY GrantStarts, ApprovalStarts, IdemStarts DEF Init
<1>2. Inv /\ [Next]_vars => Inv'
  BY ServicesApart, GrantSteps, ApprovalSteps, IdemSteps
<1>3. Inv => ActsAuthorised
  BY ApprovalSafe, IdemSafe DEF ActsAuthorised, GrantInv
<1> QED BY <1>1, <1>2, <1>3, PTL DEF Spec


(***************************************************************************)
(* Memory: what was cleared                                                *)
(***************************************************************************)

(* What each request noted is a brief, a generation, a text and pages.      *)
NotesKept ==
  /\ DOMAIN mpc = Requests /\ DOMAIN note = Requests
  /\ DOMAIN answer = Turns /\ DOMAIN since = Turns
  /\ generation \in Nat
  /\ \A p \in Requests :
       /\ note[p] = [brief |-> note[p].brief, generation |-> note[p].generation,
                     text |-> note[p].text, nodes |-> note[p].nodes]
       /\ note[p].generation \in Nat /\ note[p].generation <= generation

(* A document was written by a retained turn, which does it once.           *)
WrittenBy(id) == id \in Retains /\ mpc[id] = "done"

DocumentsSpent ==
  /\ \A id \in bank \cup cleared : WrittenBy(id)
  /\ \A q \in Clears : \A id \in note[q].text : WrittenBy(id)

(* What a Clear took away does not come back.                               *)
TakenAway ==
  /\ bank \cap cleared = {}
  /\ \A q \in Clears : mpc[q] \in {"delete", "scan", "keys"} => note[q].text \cap bank = {}

(* A reflection that will be stored read the bank after the Clears whose    *)
(* generation it carries.                                                   *)
ReflectionsFenced ==
  \A t \in Turns : mpc[t] = "store" /\ note[t].generation = generation =>
    /\ note[t].text \cap cleared = {}
    /\ \A q \in Clears : mpc[q] \in {"scan", "keys"} => note[t].text \cap note[q].text = {}

(* A Clear that found no brief leaves one of what it did not clear.         *)
BriefsFenced ==
  /\ session \cap cleared = {}
  /\ \A q \in Clears : mpc[q] = "keys" /\ note[q].brief = {} => session \cap note[q].text = {}

TurnsServed ==
  \A t \in Turns :
    /\ since[t] \subseteq cleared /\ answer[t] \cap since[t] = {}
    /\ mpc[t] = "idle" => answer[t] = {}
    /\ mpc[t] \in {"generation", "lock", "reflect", "store"} => note[t].brief \cap since[t] = {}

(* One bootstrap at a time, which knows of every page there is.             *)
BootstrapsApart ==
  uncoordinated \/
    /\ \A p \in Requests : mpc[p] \in {"list", "create"} => bootLock = p
    /\ \A p \in Requests : mpc[p] = "create" =>
         \A x \in nodes : \E y \in note[p].nodes : y.name = x.name
    /\ \A x, y \in nodes : x.name = y.name => x = y

MemoryInv ==
  /\ NotesKept /\ DocumentsSpent /\ TakenAway /\ ReflectionsFenced
  /\ BriefsFenced /\ TurnsServed /\ BootstrapsApart

(* At the start nothing is remembered, cached or cleared.                   *)
LEMMA MemoryStarts == MemoryInit => MemoryInv
<1> SUFFICES ASSUME MemoryInit PROVE MemoryInv
  OBVIOUS
<1> USE DEF MemoryInit, NoNote
<1>1. NotesKept
  <2>1. \A p \in Requests : note[p] = [brief |-> {}, generation |-> 0, text |-> {}, nodes |-> {}]
    OBVIOUS
  <2>2. /\ DOMAIN mpc = Requests /\ DOMAIN note = Requests
        /\ DOMAIN answer = Turns /\ DOMAIN since = Turns /\ generation \in Nat
    OBVIOUS
  <2>3. \A p \in Requests :
          note[p].brief = {} /\ note[p].generation = 0 /\ note[p].text = {} /\ note[p].nodes = {}
    BY <2>1
  <2> QED BY <2>1, <2>2, <2>3 DEF NotesKept
<1>2. DocumentsSpent /\ TakenAway /\ ReflectionsFenced /\ BriefsFenced /\ TurnsServed
  BY DEF DocumentsSpent, TakenAway, ReflectionsFenced, BriefsFenced, TurnsServed, Requests
<1>3. BootstrapsApart
  BY DEF BootstrapsApart
<1> QED BY <1>1, <1>2, <1>3 DEF MemoryInv

(* A request that notes a brief keeps the rest of its notes.                *)
LEMMA BriefNoted ==
  ASSUME NotesKept, NEW p \in Requests, NEW v, note' = [note EXCEPT ![p].brief = v]
  PROVE  /\ DOMAIN note' = Requests /\ \A r \in Requests \ {p} : note'[r] = note[r]
         /\ note'[p] = [brief |-> note'[p].brief, generation |-> note'[p].generation,
                        text |-> note'[p].text, nodes |-> note'[p].nodes]
         /\ note'[p].brief = v /\ note'[p].generation = note[p].generation
         /\ note'[p].text = note[p].text /\ note'[p].nodes = note[p].nodes
<1> DEFINE N == note[p]
<1>1. N = [brief |-> N.brief, generation |-> N.generation, text |-> N.text, nodes |-> N.nodes]
  BY DEF NotesKept
<1>2. [N EXCEPT !.brief = v] =
        [brief |-> v, generation |-> N.generation,
         text |-> N.text, nodes |-> N.nodes]
  <2> HIDE DEF N
  <2> QED BY <1>1
<1>3. /\ DOMAIN note' = Requests /\ \A r \in Requests \ {p} : note'[r] = note[r]
      /\ note'[p] = [N EXCEPT !.brief = v]
  BY DEF NotesKept
<1>4. note'[p] = [brief |-> v, generation |-> N.generation,
                 text |-> N.text, nodes |-> N.nodes]
  BY <1>2, <1>3
<1> QED BY <1>3, <1>4

(* A request that notes a generation keeps the rest of its notes.           *)
LEMMA GenerationNoted ==
  ASSUME NotesKept, NEW p \in Requests, NEW v, note' = [note EXCEPT ![p].generation = v]
  PROVE  /\ DOMAIN note' = Requests /\ \A r \in Requests \ {p} : note'[r] = note[r]
         /\ note'[p] = [brief |-> note'[p].brief, generation |-> note'[p].generation,
                        text |-> note'[p].text, nodes |-> note'[p].nodes]
         /\ note'[p].brief = note[p].brief /\ note'[p].generation = v
         /\ note'[p].text = note[p].text /\ note'[p].nodes = note[p].nodes
<1> DEFINE N == note[p]
<1>1. N = [brief |-> N.brief, generation |-> N.generation, text |-> N.text, nodes |-> N.nodes]
  BY DEF NotesKept
<1>2. [N EXCEPT !.generation = v] =
        [brief |-> N.brief, generation |-> v,
         text |-> N.text, nodes |-> N.nodes]
  <2> HIDE DEF N
  <2> QED BY <1>1
<1>3. /\ DOMAIN note' = Requests /\ \A r \in Requests \ {p} : note'[r] = note[r]
      /\ note'[p] = [N EXCEPT !.generation = v]
  BY DEF NotesKept
<1>4. note'[p] = [brief |-> N.brief, generation |-> v,
                 text |-> N.text, nodes |-> N.nodes]
  BY <1>2, <1>3
<1> QED BY <1>3, <1>4

(* A request that notes a text keeps the rest of its notes.                 *)
LEMMA TextNoted ==
  ASSUME NotesKept, NEW p \in Requests, NEW v, note' = [note EXCEPT ![p].text = v]
  PROVE  /\ DOMAIN note' = Requests /\ \A r \in Requests \ {p} : note'[r] = note[r]
         /\ note'[p] = [brief |-> note'[p].brief, generation |-> note'[p].generation,
                        text |-> note'[p].text, nodes |-> note'[p].nodes]
         /\ note'[p].brief = note[p].brief /\ note'[p].generation = note[p].generation
         /\ note'[p].text = v /\ note'[p].nodes = note[p].nodes
<1> DEFINE N == note[p]
<1>1. N = [brief |-> N.brief, generation |-> N.generation, text |-> N.text, nodes |-> N.nodes]
  BY DEF NotesKept
<1>2. [N EXCEPT !.text = v] =
        [brief |-> N.brief, generation |-> N.generation,
         text |-> v, nodes |-> N.nodes]
  <2> HIDE DEF N
  <2> QED BY <1>1
<1>3. /\ DOMAIN note' = Requests /\ \A r \in Requests \ {p} : note'[r] = note[r]
      /\ note'[p] = [N EXCEPT !.text = v]
  BY DEF NotesKept
<1>4. note'[p] = [brief |-> N.brief, generation |-> N.generation,
                 text |-> v, nodes |-> N.nodes]
  BY <1>2, <1>3
<1> QED BY <1>3, <1>4

(* A request that notes pages keeps the rest of its notes.                  *)
LEMMA PagesNoted ==
  ASSUME NotesKept, NEW p \in Requests, NEW v, note' = [note EXCEPT ![p].nodes = v]
  PROVE  /\ DOMAIN note' = Requests /\ \A r \in Requests \ {p} : note'[r] = note[r]
         /\ note'[p] = [brief |-> note'[p].brief, generation |-> note'[p].generation,
                        text |-> note'[p].text, nodes |-> note'[p].nodes]
         /\ note'[p].brief = note[p].brief /\ note'[p].generation = note[p].generation
         /\ note'[p].text = note[p].text /\ note'[p].nodes = v
<1> DEFINE N == note[p]
<1>1. N = [brief |-> N.brief, generation |-> N.generation, text |-> N.text, nodes |-> N.nodes]
  BY DEF NotesKept
<1>2. [N EXCEPT !.nodes = v] =
        [brief |-> N.brief, generation |-> N.generation,
         text |-> N.text, nodes |-> v]
  <2> HIDE DEF N
  <2> QED BY <1>1
<1>3. /\ DOMAIN note' = Requests /\ \A r \in Requests \ {p} : note'[r] = note[r]
      /\ note'[p] = [N EXCEPT !.nodes = v]
  BY DEF NotesKept
<1>4. note'[p] = [brief |-> N.brief, generation |-> N.generation,
                 text |-> N.text, nodes |-> v]
  BY <1>2, <1>3
<1> QED BY <1>3, <1>4

Fenced ==
  /\ NotesKept /\ DocumentsSpent /\ TakenAway /\ ReflectionsFenced
  /\ BriefsFenced /\ TurnsServed

(* Places where a request is neither reflecting nor clearing.               *)
Aside == {"ensure", "coordinate", "list", "create", "look", "retain", "tree", "clear", "done",
          "failed"}

(* What nobody who stands aside disturbs.                                   *)
LEMMA StandingAside ==
  ASSUME Fenced, UNCHANGED <<bank, session, generation, cleared, answer, since>>,
         DOMAIN mpc' = Requests, DOMAIN note' = Requests,
         \A r \in Requests : mpc'[r] = mpc[r] \/ (mpc[r] # "done" /\ mpc'[r] \in Aside),
         \A r \in Requests : \E ns : note'[r] = [brief |-> note[r].brief,
           generation |-> note[r].generation, text |-> note[r].text, nodes |-> ns]
  PROVE  Fenced'
<1> USE DEF Fenced
<1>1. \A r \in Requests : /\ note'[r].brief = note[r].brief
                          /\ note'[r].generation = note[r].generation
                          /\ note'[r].text = note[r].text
  OBVIOUS
<1>2. NotesKept'
  <2>1. \A r \in Requests : note'[r] = [brief |-> note'[r].brief,
          generation |-> note'[r].generation, text |-> note'[r].text, nodes |-> note'[r].nodes]
    OBVIOUS
  <2> QED BY <1>1, <2>1 DEF NotesKept
<1>3. DocumentsSpent'
  BY <1>1 DEF DocumentsSpent, WrittenBy, Requests, Aside
<1>4. TakenAway' /\ ReflectionsFenced' /\ BriefsFenced' /\ TurnsServed'
  BY <1>1 DEF TakenAway, ReflectionsFenced, BriefsFenced, TurnsServed, Requests, Aside
<1> QED BY <1>2, <1>3, <1>4

(* A request that only moves, to a place aside.                             *)
LEMMA MovingAside ==
  ASSUME Fenced, UNCHANGED <<bank, session, generation, cleared, answer, since>>,
         NEW p \in Requests, NEW where \in Aside, mpc[p] # "done", Goto(p, where), note' = note
  PROVE  Fenced'
<1>1. /\ DOMAIN mpc' = Requests /\ DOMAIN note' = Requests
      /\ \A r \in Requests : mpc'[r] = mpc[r] \/ (mpc[r] # "done" /\ mpc'[r] \in Aside)
  BY DEF Fenced, NotesKept, Goto
<1>2. \A r \in Requests : \E ns : note'[r] = [brief |-> note[r].brief,
        generation |-> note[r].generation, text |-> note[r].text, nodes |-> ns]
  BY DEF Fenced, NotesKept
<1> QED BY <1>1, <1>2, StandingAside

(* A request that only notes pages.                                         *)
LEMMA NotingPages ==
  ASSUME Fenced, UNCHANGED <<bank, session, generation, cleared, answer, since>>,
         NEW p \in Requests, NEW v, note' = [note EXCEPT ![p].nodes = v],
         DOMAIN mpc' = Requests,
         \A r \in Requests : mpc'[r] = mpc[r] \/ (mpc[r] # "done" /\ mpc'[r] \in Aside)
  PROVE  Fenced'
<1>1. DOMAIN note' = Requests
  BY DEF Fenced, NotesKept
<1>2. \A r \in Requests : \E ns : note'[r] = [brief |-> note[r].brief,
        generation |-> note[r].generation, text |-> note[r].text, nodes |-> ns]
  <2> SUFFICES ASSUME NEW r \in Requests
               PROVE  \E ns : note'[r] = [brief |-> note[r].brief,
                        generation |-> note[r].generation, text |-> note[r].text, nodes |-> ns]
    OBVIOUS
  <2>1. CASE r = p
    <3>1. NotesKept
      BY DEF Fenced
    <3>2. note'[p] = [brief |-> note[p].brief, generation |-> note[p].generation,
                      text |-> note[p].text, nodes |-> note'[p].nodes]
      BY <3>1, PagesNoted
    <3> QED BY <2>1, <3>2
  <2>2. CASE r # p
    <3>1. note'[r] = note[r]
      BY <2>2, PagesNoted DEF Fenced
    <3> QED BY <3>1 DEF Fenced, NotesKept
  <2> QED BY <2>1, <2>2
<1> QED BY <1>1, <1>2, StandingAside

(* A bootstrap stands aside: it changes pages, locks and caches only.       *)
LEMMA BootstrapFenced ==
  ASSUME Fenced, NEW p \in Requests,
         \/ EnterBootstrap(p) \/ Coordinate(p) \/ ListPages(p)
         \/ CreatePage(p) \/ Bootstrapped(p) \/ BootstrapFails(p)
  PROVE  Fenced'
<1>1. After(p) \in Aside
  BY DEF After, Aside, Requests
<1>2. CASE EnterBootstrap(p)
  <2>1. \E where \in Aside : Goto(p, where)
    BY <1>1, <1>2 DEF EnterBootstrap, Aside
  <2> QED BY <1>2, <2>1, MovingAside DEF EnterBootstrap, bankVars, briefVars
<1>3. CASE Coordinate(p)
  <2>1. \E where \in Aside : Goto(p, where)
    BY <1>1, <1>3 DEF Coordinate, Aside
  <2> QED BY <1>3, <2>1, MovingAside DEF Coordinate, bankVars, briefVars
<1>4. CASE ListPages(p)
  <2>1. DOMAIN mpc' = Requests
        /\ \A r \in Requests : mpc'[r] = mpc[r] \/ (mpc[r] # "done" /\ mpc'[r] \in Aside)
    BY <1>4 DEF ListPages, Goto, Aside, Fenced, NotesKept
  <2> QED BY <1>4, <2>1, NotingPages DEF ListPages, bankVars, briefVars
<1>5. CASE CreatePage(p)
  <2>1. PICK n \in Missing(p) :
          note' = [note EXCEPT ![p].nodes = @ \cup {[name |-> n, id |-> Unused]}]
    BY <1>5 DEF CreatePage
  <2>2. note' = [note EXCEPT ![p].nodes = note[p].nodes \cup {[name |-> n, id |-> Unused]}]
    BY <2>1 DEF Fenced, NotesKept
  <2>3. DOMAIN mpc' = Requests /\ mpc' = mpc
    BY <1>5 DEF CreatePage, Fenced, NotesKept
  <2> QED BY <1>5, <2>2, <2>3, NotingPages DEF CreatePage, bankVars, briefVars
<1>6. CASE Bootstrapped(p)
  BY <1>1, <1>6, MovingAside DEF Bootstrapped, bankVars, briefVars
<1>7. CASE BootstrapFails(p)
  <2>1. \E where \in Aside : Goto(p, where)
    BY <1>1, <1>7 DEF BootstrapFails, Aside
  <2> QED BY <1>7, <2>1, MovingAside DEF BootstrapFails, bankVars, briefVars
<1> QED BY <1>2, <1>3, <1>4, <1>5, <1>6, <1>7

(* A request begins.                                                        *)
LEMMA BeginFenced ==
  ASSUME Fenced, NEW p \in Requests, Begin(p)
  PROVE  Fenced'
<1> USE MemoryAssumption DEF Fenced, Begin, Goto, bankVars, briefVars
<1>1. NotesKept'
  BY DEF NotesKept
<1>2. /\ \A r \in Requests : mpc'[r] = mpc[r] \/ (mpc[r] = "idle" /\ mpc'[r] \in {"tree", "ensure"})
  BY DEF NotesKept
<1>3. DocumentsSpent' /\ TakenAway' /\ ReflectionsFenced' /\ BriefsFenced'
  BY <1>2 DEF DocumentsSpent, WrittenBy, TakenAway, ReflectionsFenced, BriefsFenced, Requests
<1>4. TurnsServed'
  <2>1. \A t \in Turns : since'[t] = since[t] \/ (t = p /\ since'[t] = cleared)
    BY DEF NotesKept
  <2>2. \A t \in Turns : mpc'[t] = "idle" => mpc[t] = "idle"
    BY <1>2 DEF Requests
  <2>3. \A t \in Turns : mpc'[t] \in {"generation", "lock", "reflect", "store"} =>
                           mpc'[t] = mpc[t] /\ t # p
    BY <1>2 DEF Requests
  <2> QED BY <2>1, <2>2, <2>3 DEF TurnsServed
<1> QED BY <1>1, <1>3, <1>4

(* The steps of a turn.                                                     *)
LEMMA TurnFenced ==
  ASSUME Fenced, NEW p \in Turns,
         LookUp(p) \/ ReadGeneration(p) \/ LockBrief(p) \/ Reflect(p) \/ StoreBrief(p)
  PROVE  Fenced'
<1>1. p \in Requests /\ p \notin Retains /\ p \notin Clears /\ NotesKept /\ DOMAIN answer = Turns
  BY MemoryAssumption DEF Requests, Fenced, NotesKept
<1> USE <1>1 DEF bankVars, briefVars, bootVars
(* An answer that shows nothing of what the turn must not see.              *)
<1>2. ASSUME NEW text, Answer(p, text), text \cap since[p] = {}, mpc[p] # "done", note' = note,
             UNCHANGED <<bankVars, since>>,
             session' \cap cleared = {} /\ (session' = session \/ \A q \in Clears :
               mpc[q] \in {"scan", "keys"} => session' \cap note[q].text = {})
      PROVE  Fenced'
  <2>1. /\ DOMAIN mpc' = Requests /\ mpc'[p] = "done"
        /\ \A r \in Requests \ {p} : mpc'[r] = mpc[r]
    BY <1>2 DEF Answer, Goto, NotesKept
  <2>2. DOMAIN answer' = Turns /\ answer'[p] = text /\ \A t \in Turns \ {p} : answer'[t] = answer[t]
    BY <1>2 DEF Answer
  <2>3. NotesKept'
    BY <1>2, <2>1, <2>2 DEF NotesKept
  <2>4. DocumentsSpent' /\ TakenAway' /\ ReflectionsFenced'
    BY <1>2, <2>1 DEF Fenced, DocumentsSpent, WrittenBy, TakenAway, ReflectionsFenced, Requests
  <2>5. BriefsFenced'
    BY <1>2, <2>1 DEF Fenced, BriefsFenced, Requests
  <2>6. TurnsServed'
    BY <1>2, <2>1, <2>2 DEF Fenced, TurnsServed, Requests
  <2> QED BY <2>3, <2>4, <2>5, <2>6 DEF Fenced
(* A step that notes something and goes on to reflect.                      *)
<1>3. ASSUME NEW where \in {"generation", "lock", "reflect"}, Goto(p, where), mpc[p] # "done",
             UNCHANGED <<bankVars, session, answer, since>>,
             DOMAIN note' = Requests, \A r \in Requests \ {p} : note'[r] = note[r],
             note'[p] = [brief |-> note'[p].brief, generation |-> note'[p].generation,
                         text |-> note'[p].text, nodes |-> note'[p].nodes],
             note'[p].generation \in Nat /\ note'[p].generation <= generation,
             note'[p].brief \cap since[p] = {}
      PROVE  Fenced'
  <2>1. /\ DOMAIN mpc' = Requests /\ mpc'[p] = where
        /\ \A r \in Requests \ {p} : mpc'[r] = mpc[r]
    BY <1>3 DEF Goto, NotesKept
  <2>2. NotesKept'
    BY <1>3, <2>1 DEF NotesKept
  <2>3. DocumentsSpent' /\ TakenAway' /\ ReflectionsFenced' /\ BriefsFenced' /\ TurnsServed'
    BY <1>3, <2>1 DEF Fenced, DocumentsSpent, WrittenBy, TakenAway, ReflectionsFenced, BriefsFenced,
       TurnsServed, Requests
  <2> QED BY <2>2, <2>3 DEF Fenced
<1>4. session \cap since[p] = {}
  BY DEF Fenced, BriefsFenced, TurnsServed
<1>5. session \cap cleared = {}
  BY DEF Fenced, BriefsFenced
<1>6. note[p].generation \in Nat /\ note[p].generation <= generation /\ generation \in Nat
  BY DEF NotesKept
<1>7. CASE LookUp(p)
  <2>1. CASE Answer(p, session) /\ UNCHANGED note
    BY <1>2, <1>4, <1>5, <1>7, <2>1 DEF LookUp
  <2>2. CASE note' = [note EXCEPT ![p].brief = session] /\ Goto(p, "generation") /\ UNCHANGED answer
    <3>1. /\ DOMAIN note' = Requests /\ \A r \in Requests \ {p} : note'[r] = note[r]
          /\ note'[p] = [brief |-> note'[p].brief, generation |-> note'[p].generation,
                         text |-> note'[p].text, nodes |-> note'[p].nodes]
          /\ note'[p].brief = session /\ note'[p].generation = note[p].generation
      BY <2>2, BriefNoted
    <3> QED BY <1>3, <1>4, <1>6, <1>7, <2>2, <3>1 DEF LookUp
  <2> QED BY <1>7, <2>1, <2>2 DEF LookUp
<1>8. CASE ReadGeneration(p)
  <2>1. /\ DOMAIN note' = Requests /\ \A r \in Requests \ {p} : note'[r] = note[r]
        /\ note'[p] = [brief |-> note'[p].brief, generation |-> note'[p].generation,
                       text |-> note'[p].text, nodes |-> note'[p].nodes]
        /\ note'[p].brief = note[p].brief /\ note'[p].generation = generation
    BY <1>8, GenerationNoted DEF ReadGeneration
  <2>2. note[p].brief \cap since[p] = {}
    BY <1>8 DEF ReadGeneration, Fenced, TurnsServed
  <2> QED BY <1>3, <1>6, <1>8, <2>1, <2>2 DEF ReadGeneration
<1>9. CASE LockBrief(p)
  <2>1. note[p].brief \cap since[p] = {}
    BY <1>9 DEF LockBrief, Fenced, TurnsServed
  <2>2. CASE Answer(p, note[p].brief)
    BY <1>2, <1>5, <1>9, <2>1, <2>2 DEF LockBrief
  <2>3. CASE Goto(p, "reflect") /\ UNCHANGED answer
    BY <1>3, <1>6, <1>9, <2>1, <2>3 DEF LockBrief, NotesKept
  <2> QED BY <1>9, <2>2, <2>3 DEF LockBrief
<1>10. CASE Reflect(p)
  <2>1. note[p].brief \cap since[p] = {}
    BY <1>10 DEF Reflect, Fenced, TurnsServed
  <2>2. CASE Answer(p, note[p].brief) /\ UNCHANGED note
    BY <1>2, <1>5, <1>10, <2>1, <2>2 DEF Reflect
  <2>3. CASE note' = [note EXCEPT ![p].text = bank] /\ Goto(p, "store") /\ UNCHANGED answer
    <3>1. /\ DOMAIN note' = Requests /\ \A r \in Requests \ {p} : note'[r] = note[r]
          /\ note'[p] = [brief |-> note'[p].brief, generation |-> note'[p].generation,
                         text |-> note'[p].text, nodes |-> note'[p].nodes]
      BY <2>3, TextNoted
    <3>2. note'[p].brief = note[p].brief /\ note'[p].generation = note[p].generation
          /\ note'[p].text = bank
      BY <2>3, TextNoted
    <3>3. /\ DOMAIN mpc' = Requests /\ mpc'[p] = "store"
          /\ \A r \in Requests \ {p} : mpc'[r] = mpc[r]
      BY <2>3 DEF Goto, NotesKept
    <3>4. UNCHANGED <<bank, session, generation, cleared, answer, since>> /\ mpc[p] = "reflect"
      BY <1>10, <2>3 DEF Reflect
    <3>5. NotesKept'
      BY <1>6, <3>1, <3>2, <3>3, <3>4 DEF NotesKept
    <3>6. DocumentsSpent' /\ TakenAway' /\ BriefsFenced'
      BY <3>1, <3>3, <3>4 DEF Fenced, DocumentsSpent, WrittenBy, TakenAway, BriefsFenced, Requests
    <3>7. ReflectionsFenced'
      BY <3>1, <3>2, <3>3, <3>4 DEF Fenced, TakenAway, ReflectionsFenced, Requests
    <3>8. TurnsServed'
      BY <2>1, <3>1, <3>2, <3>3, <3>4 DEF Fenced, TurnsServed, Requests
    <3> QED BY <3>5, <3>6, <3>7, <3>8 DEF Fenced
  <2> QED BY <1>10, <2>2, <2>3 DEF Reflect
<1>11. CASE StoreBrief(p)
  <2>1. CASE Fence(p)
    <3>1. note[p].text \cap cleared = {} /\ \A q \in Clears :
            mpc[q] \in {"scan", "keys"} => note[p].text \cap note[q].text = {}
      BY <1>11, <2>1 DEF StoreBrief, Fence, Fenced, ReflectionsFenced
    <3>2. note[p].text \cap since[p] = {}
      BY <3>1 DEF Fenced, TurnsServed
    <3> QED BY <1>2, <1>11, <2>1, <3>1, <3>2 DEF StoreBrief
  <2>2. CASE ~Fence(p)
    BY <1>2, <1>5, <1>11, <2>2 DEF StoreBrief
  <2> QED BY <2>1, <2>2
<1> QED BY <1>7, <1>8, <1>9, <1>10, <1>11

(* A retained turn writes its document once; a removal takes one away.      *)
LEMMA RetainFenced ==
  ASSUME Fenced, NEW p \in Retains, Retain(p) \/ RemoveSource(DocumentId(p))
  PROVE  Fenced'
<1>1. p \in Requests /\ p \notin Turns /\ p \notin Clears /\ NotesKept
  BY MemoryAssumption DEF Requests, Fenced
<1> USE <1>1 DEF bankVars, briefVars, bootVars, Fenced
<1>2. CASE Retain(p)
  <2>1. /\ DOMAIN mpc' = Requests /\ mpc[p] = "retain" /\ mpc'[p] = "done"
        /\ \A r \in Requests \ {p} : mpc'[r] = mpc[r]
    BY <1>2 DEF Retain, Goto, NotesKept
  <2>2. bank' \subseteq bank \cup {p}
    BY <1>2 DEF Retain, Replaced, DocumentId
  <2>3. UNCHANGED <<session, generation, cleared, answer, since, note>>
    BY <1>2 DEF Retain
  <2>4. NotesKept'
    BY <2>1, <2>3 DEF NotesKept
  <2>5. p \notin cleared /\ \A q \in Clears : p \notin note[q].text
    BY <2>1 DEF DocumentsSpent, WrittenBy
  <2>6. DocumentsSpent'
    BY <2>1, <2>2, <2>3 DEF DocumentsSpent, WrittenBy, Requests
  <2>7. TakenAway'
    BY <2>1, <2>2, <2>3, <2>5 DEF TakenAway, Requests
  <2>8. ReflectionsFenced' /\ BriefsFenced' /\ TurnsServed'
    BY <2>1, <2>3 DEF ReflectionsFenced, BriefsFenced, TurnsServed, Requests
  <2> QED BY <2>4, <2>6, <2>7, <2>8
<1>3. CASE RemoveSource(DocumentId(p))
  <2>1. bank' \subseteq bank /\ UNCHANGED <<session, generation, cleared, answer, since, note, mpc>>
    BY <1>3 DEF RemoveSource
  <2>2. NotesKept'
    BY <2>1 DEF NotesKept
  <2>3. DocumentsSpent' /\ TakenAway'
    BY <2>1 DEF DocumentsSpent, WrittenBy, TakenAway
  <2>4. ReflectionsFenced' /\ BriefsFenced' /\ TurnsServed'
    BY <2>1 DEF ReflectionsFenced, BriefsFenced, TurnsServed
  <2> QED BY <2>2, <2>3, <2>4
<1> QED BY <1>2, <1>3

(* The steps of a Clear: the bank first, then the generation, then the keys *)
(* that a scan found (clear_user_memory, clear_user_memory_caches).         *)
LEMMA ClearFenced ==
  ASSUME Fenced, NEW p \in Clears,
         \/ ReadTree(p) \/ ClearBank(p) \/ DeletePage(p) \/ NewGeneration(p)
         \/ ScanKeys(p) \/ DeleteKeys(p) \/ ClearFails(p)
  PROVE  Fenced'
<1>1. p \in Requests /\ p \notin Turns /\ p \notin Retains /\ NotesKept /\ generation \in Nat
  BY MemoryAssumption DEF Requests, Fenced, NotesKept
<1> USE <1>1 DEF bankVars, briefVars, bootVars
<1>2. CASE ReadTree(p)
  <2>1. DOMAIN mpc' = Requests
        /\ \A r \in Requests : mpc'[r] = mpc[r] \/ (mpc[r] # "done" /\ mpc'[r] \in Aside)
    BY <1>2 DEF ReadTree, Goto, Aside, NotesKept
  <2> QED BY <1>2, <2>1, NotingPages DEF ReadTree
<1>3. CASE ClearBank(p)
  <2>1. /\ DOMAIN note' = Requests /\ \A r \in Requests \ {p} : note'[r] = note[r]
        /\ note'[p] = [brief |-> note'[p].brief, generation |-> note'[p].generation,
                       text |-> note'[p].text, nodes |-> note'[p].nodes]
        /\ note'[p].generation = note[p].generation /\ note'[p].text = bank
    BY <1>3, TextNoted DEF ClearBank
  <2>2. /\ DOMAIN mpc' = Requests /\ mpc[p] = "clear" /\ mpc'[p] = "delete"
        /\ \A r \in Requests \ {p} : mpc'[r] = mpc[r]
    BY <1>3 DEF ClearBank, Goto, NotesKept
  <2>3. bank' = {} /\ UNCHANGED <<session, generation, cleared, answer, since>>
    BY <1>3 DEF ClearBank
  <2>4. NotesKept'
    BY <2>1, <2>2, <2>3 DEF NotesKept
  <2>5. DocumentsSpent'
    BY <2>1, <2>2, <2>3 DEF Fenced, DocumentsSpent, WrittenBy, Requests
  <2>6. TakenAway' /\ BriefsFenced'
    BY <2>1, <2>2, <2>3 DEF Fenced, TakenAway, BriefsFenced, Requests
  <2>7. ReflectionsFenced' /\ TurnsServed'
    BY <2>1, <2>2, <2>3 DEF Fenced, ReflectionsFenced, TurnsServed, Requests
  <2> QED BY <2>4, <2>5, <2>6, <2>7 DEF Fenced
<1>4. CASE DeletePage(p)
  <2>1. PICK page : note' = [note EXCEPT ![p].nodes = @ \ {page}] /\ mpc' = mpc
    BY <1>4 DEF DeletePage
  <2>2. note' = [note EXCEPT ![p].nodes = note[p].nodes \ {page}]
    BY <2>1 DEF NotesKept
  <2>3. DOMAIN mpc' = Requests
    BY <2>1 DEF NotesKept
  <2> QED BY <1>4, <2>1, <2>2, <2>3, NotingPages DEF DeletePage
<1>5. CASE NewGeneration(p)
  <2>1. /\ DOMAIN mpc' = Requests /\ mpc[p] = "delete" /\ mpc'[p] = "scan"
        /\ \A r \in Requests \ {p} : mpc'[r] = mpc[r]
    BY <1>5 DEF NewGeneration, Goto, NotesKept
  <2>2. generation' = generation + 1 /\ UNCHANGED <<bank, cleared, session, answer, since, note>>
    BY <1>5 DEF NewGeneration
  <2>3. NotesKept'
    BY <2>1, <2>2 DEF NotesKept
  <2>4. \A t \in Turns : note[t].generation # generation + 1
    <3>1. \A t \in Turns : note[t].generation \in Nat /\ note[t].generation <= generation
      BY DEF NotesKept, Requests
    <3> HIDE <1>1
    <3>2. generation \in Nat
      BY <1>1
    <3> QED BY <3>1, <3>2
  <2>5. DocumentsSpent' /\ TakenAway' /\ BriefsFenced'
    BY <2>1, <2>2 DEF Fenced, DocumentsSpent, WrittenBy, TakenAway, BriefsFenced, Requests
  <2>6. ReflectionsFenced' /\ TurnsServed'
    BY <2>1, <2>2, <2>4 DEF Fenced, ReflectionsFenced, TurnsServed, Requests
  <2> QED BY <2>3, <2>5, <2>6 DEF Fenced
<1>6. CASE ScanKeys(p)
  <2>1. /\ DOMAIN note' = Requests /\ \A r \in Requests \ {p} : note'[r] = note[r]
        /\ note'[p] = [brief |-> note'[p].brief, generation |-> note'[p].generation,
                       text |-> note'[p].text, nodes |-> note'[p].nodes]
        /\ note'[p].brief = session /\ note'[p].generation = note[p].generation
        /\ note'[p].text = note[p].text
    BY <1>6, BriefNoted DEF ScanKeys
  <2>2. /\ DOMAIN mpc' = Requests /\ mpc[p] = "scan" /\ mpc'[p] = "keys"
        /\ \A r \in Requests \ {p} : mpc'[r] = mpc[r]
    BY <1>6 DEF ScanKeys, Goto, NotesKept
  <2>3. UNCHANGED <<bank, generation, cleared, session, answer, since>>
    BY <1>6 DEF ScanKeys
  <2>4. NotesKept'
    BY <2>1, <2>2, <2>3 DEF NotesKept
  <2>5. DocumentsSpent' /\ TakenAway' /\ BriefsFenced'
    BY <2>1, <2>2, <2>3 DEF Fenced, DocumentsSpent, WrittenBy, TakenAway, BriefsFenced, Requests
  <2>6. ReflectionsFenced' /\ TurnsServed'
    BY <2>1, <2>2, <2>3 DEF Fenced, ReflectionsFenced, TurnsServed, Requests
  <2> QED BY <2>4, <2>5, <2>6 DEF Fenced
<1>7. CASE DeleteKeys(p)
  <2>1. /\ DOMAIN mpc' = Requests /\ mpc[p] = "keys" /\ mpc'[p] = "ensure"
        /\ \A r \in Requests \ {p} : mpc'[r] = mpc[r]
    BY <1>7 DEF DeleteKeys, Goto, NotesKept
  <2>2. /\ session' = IF note[p].brief = {} THEN session ELSE {}
        /\ cleared' = cleared \cup note[p].text
        /\ UNCHANGED <<bank, generation, answer, since, note>>
    BY <1>7 DEF DeleteKeys
  <2>3. NotesKept'
    BY <2>1, <2>2 DEF NotesKept
  <2>4. DocumentsSpent' /\ TakenAway'
    BY <2>1, <2>2 DEF Fenced, DocumentsSpent, WrittenBy, TakenAway, Requests
  <2>5. session' \subseteq session /\ session' \cap note[p].text = {}
    BY <2>1, <2>2 DEF Fenced, BriefsFenced
  <2>6. BriefsFenced'
    BY <2>1, <2>2, <2>5 DEF Fenced, BriefsFenced, Requests
  <2>7. ReflectionsFenced'
    BY <2>1, <2>2 DEF Fenced, ReflectionsFenced, Requests
  <2>8. TurnsServed'
    BY <2>1, <2>2 DEF Fenced, TurnsServed, Requests
  <2> QED BY <2>3, <2>4, <2>6, <2>7, <2>8 DEF Fenced
<1>8. CASE ClearFails(p)
  BY <1>8, MovingAside DEF ClearFails, Aside
<1> QED BY <1>2, <1>3, <1>4, <1>5, <1>6, <1>7, <1>8

(* Locks and caches that expire are not what the fence rests on.            *)
LEMMA ExpiryFenced == Fenced /\ (Expire \/ UNCHANGED memoryVars) => Fenced'
<1> SUFFICES ASSUME Fenced, Expire \/ UNCHANGED memoryVars PROVE Fenced'
  OBVIOUS
<1>1. UNCHANGED <<bank, session, generation, cleared, answer, since, mpc, note>>
  BY DEF Expire, memoryVars, bankVars
<1>2. DOMAIN mpc' = Requests /\ DOMAIN note' = Requests
  BY <1>1 DEF Fenced, NotesKept
<1>3. \A r \in Requests : \E ns : note'[r] = [brief |-> note[r].brief,
        generation |-> note[r].generation, text |-> note[r].text, nodes |-> ns]
  BY <1>1 DEF Fenced, NotesKept
<1> QED BY <1>1, <1>2, <1>3, StandingAside

(***************************************************************************)
(* Memory: pages                                                           *)
(***************************************************************************)

(* A step that creates no page, enters no bootstrap and leaves its lock.    *)
LEMMA LeavingBootstraps ==
  ASSUME BootstrapsApart, nodes' \subseteq nodes, uncoordinated' = uncoordinated,
         \A r \in Requests : mpc'[r] \in {"list", "create"} =>
           mpc'[r] = mpc[r] /\ bootLock' = bootLock /\ note'[r].nodes = note[r].nodes
  PROVE  BootstrapsApart'
BY DEF BootstrapsApart

(* Every step keeps bootstraps apart.                                       *)
LEMMA PagesApart ==
  NotesKept /\ BootstrapsApart /\ [MemoryNext]_memoryVars => BootstrapsApart'
<1> SUFFICES ASSUME NotesKept, BootstrapsApart, [MemoryNext]_memoryVars PROVE BootstrapsApart'
  OBVIOUS
<1> USE MemoryAssumption DEF bankVars, briefVars, bootVars
<1>1. \A p \in Requests : After(p) \notin {"list", "create"}
  BY DEF After, Requests
<1>2. ASSUME NEW p \in Requests, Begin(p) \/ EnterBootstrap(p) PROVE BootstrapsApart'
  BY <1>1, <1>2, LeavingBootstraps DEF Begin, EnterBootstrap, Goto, NotesKept
<1>3. ASSUME NEW p \in Requests, Coordinate(p) PROVE BootstrapsApart'
  <2>1. CASE Goto(p, After(p)) /\ UNCHANGED <<bootLock, uncoordinated>>
    BY <1>1, <1>3, <2>1, LeavingBootstraps DEF Coordinate, BootLockFree, Goto, NotesKept
  <2>2. CASE bootLock = Nobody /\ bootLock' = p /\ Goto(p, "list") /\ UNCHANGED uncoordinated
    BY <1>3, <2>2 DEF Coordinate, BootLockFree, Goto, NotesKept, BootstrapsApart
  <2>3. CASE uncoordinated' = TRUE
    BY <2>3 DEF BootstrapsApart
  <2> QED BY <1>3, <2>1, <2>2, <2>3 DEF Coordinate, BootLockFree
<1>4. ASSUME NEW p \in Requests, ListPages(p) PROVE BootstrapsApart'
  <2>1. \A r \in Requests : mpc'[r] = mpc[r] \/ (r = p /\ mpc[r] = "list" /\ mpc'[r] = "create")
    BY <1>4 DEF ListPages, Goto, NotesKept
  <2>2. note'[p].nodes = nodes /\ \A r \in Requests \ {p} : note'[r] = note[r]
    BY <1>4, PagesNoted DEF ListPages
  <2>3. UNCHANGED <<nodes, bootLock, uncoordinated>>
    BY <1>4 DEF ListPages
  <2> QED BY <2>1, <2>2, <2>3 DEF BootstrapsApart
<1>5. ASSUME NEW p \in Requests, CreatePage(p) PROVE BootstrapsApart'
  <2>1. PICK n \in Missing(p) :
          LET page == [name |-> n, id |-> Unused]
          IN  /\ nodes' = nodes \cup {page}
              /\ note' = [note EXCEPT ![p].nodes = @ \cup {page}]
              /\ mpc[p] = "create" /\ UNCHANGED <<mpc, bootLock, uncoordinated>>
    BY <1>5 DEF CreatePage
  <2> DEFINE page == [name |-> n, id |-> Unused]
  <2>2. page.name = n /\ nodes' = nodes \cup {page}
    BY <2>1
  <2>3. note' = [note EXCEPT ![p].nodes = note[p].nodes \cup {page}]
    BY <2>1 DEF NotesKept
  <2> HIDE DEF page
  <2>4. note'[p].nodes = note[p].nodes \cup {page} /\ \A r \in Requests \ {p} : note'[r] = note[r]
    BY <2>3, PagesNoted
  <2>5. \A y \in note[p].nodes : y.name # n
    BY DEF Missing
  <2>6. CASE uncoordinated
    BY <2>1, <2>6 DEF BootstrapsApart
  <2>7. CASE ~uncoordinated
    <3>1. bootLock = p /\ \A x \in nodes : x.name # n
      BY <2>1, <2>5, <2>7 DEF BootstrapsApart
    <3>2. \A x, y \in nodes' : x.name = y.name => x = y
      BY <2>2, <2>7, <3>1 DEF BootstrapsApart
    <3>3. \A r \in Requests : mpc'[r] = "create" => r = p
      BY <2>1, <2>7, <3>1 DEF BootstrapsApart
    <3>4. \A x \in nodes' : \E y \in note'[p].nodes : y.name = x.name
      BY <2>1, <2>2, <2>4, <2>7 DEF BootstrapsApart
    <3>5. \A r \in Requests : mpc'[r] \in {"list", "create"} => bootLock' = r
      BY <2>1, <2>7 DEF BootstrapsApart
    <3> QED BY <3>2, <3>3, <3>4, <3>5 DEF BootstrapsApart
  <2> QED BY <2>6, <2>7
<1>6. ASSUME NEW p \in Requests, Bootstrapped(p) \/ BootstrapFails(p) PROVE BootstrapsApart'
  <2>1. PICK where : Goto(p, where) /\ where \notin {"list", "create"}
    BY <1>1, <1>6 DEF Bootstrapped, BootstrapFails
  <2>2. UNCHANGED <<nodes, note, uncoordinated>> /\ ReleaseBoot(p) /\ mpc[p] \in {"list", "create"}
    <3>1. CASE Bootstrapped(p)
      BY <3>1 DEF Bootstrapped, briefVars
    <3>2. CASE BootstrapFails(p)
      BY <3>2 DEF BootstrapFails, briefVars
    <3> QED BY <1>6, <3>1, <3>2
  <2>3. \A r \in Requests : mpc'[r] = mpc[r] \/ r = p
    BY <2>1 DEF Goto, NotesKept
  <2>4. mpc'[p] = where
    BY <2>1 DEF Goto, NotesKept
  <2> QED BY <2>1, <2>2, <2>3, <2>4 DEF BootstrapsApart, ReleaseBoot
<1>7. ASSUME NEW p \in Turns,
             LookUp(p) \/ ReadGeneration(p) \/ LockBrief(p) \/ Reflect(p) \/ StoreBrief(p)
      PROVE  BootstrapsApart'
  <2>1. PICK where \in {"generation", "lock", "reflect", "store", "done"} :
          Goto(p, where) /\ mpc[p] \in {"look", "generation", "lock", "reflect", "store"}
    BY <1>7 DEF LookUp, ReadGeneration, LockBrief, Reflect, StoreBrief, Answer
  <2>2. UNCHANGED <<nodes, bootLock, uncoordinated>>
    BY <1>7 DEF LookUp, ReadGeneration, LockBrief, Reflect, StoreBrief
  <2>3. \A r \in Requests \ {p} : note'[r] = note[r]
    BY <1>7 DEF LookUp, ReadGeneration, LockBrief, Reflect, StoreBrief, NotesKept
  <2>4. \A r \in Requests : mpc'[r] \in {"list", "create"} => r # p /\ mpc'[r] = mpc[r]
    BY <2>1 DEF Goto, NotesKept, Requests
  <2> QED BY <2>2, <2>3, <2>4, LeavingBootstraps
<1>8. ASSUME NEW p \in Retains, Retain(p) \/ RemoveSource(DocumentId(p)) PROVE BootstrapsApart'
  BY <1>8, LeavingBootstraps DEF Retain, RemoveSource, Goto, NotesKept, Requests
<1>9. ASSUME NEW p \in Clears,
             \/ ReadTree(p) \/ ClearBank(p) \/ DeletePage(p) \/ NewGeneration(p)
             \/ ScanKeys(p) \/ DeleteKeys(p) \/ ClearFails(p)
      PROVE  BootstrapsApart'
  <2>1. \/ mpc' = mpc
        \/ \E where \in {"clear", "delete", "scan", "keys", "ensure", "failed"} : Goto(p, where)
    BY <1>9 DEF ReadTree, ClearBank, DeletePage, NewGeneration, ScanKeys, DeleteKeys, ClearFails
  <2>2. mpc[p] \in {"tree", "clear", "delete", "scan", "keys"}
    BY <1>9 DEF ReadTree, ClearBank, DeletePage, NewGeneration, ScanKeys, DeleteKeys, ClearFails
  <2>3. nodes' \subseteq nodes /\ UNCHANGED <<bootLock, uncoordinated>>
    BY <1>9 DEF ReadTree, ClearBank, DeletePage, NewGeneration, ScanKeys, DeleteKeys, ClearFails
  <2>4. \A r \in Requests \ {p} : note'[r] = note[r]
    BY <1>9 DEF ReadTree, ClearBank, DeletePage, NewGeneration, ScanKeys, DeleteKeys, ClearFails,
                NotesKept
  <2>5. \A r \in Requests : mpc'[r] \in {"list", "create"} => r # p /\ mpc'[r] = mpc[r]
    BY <2>1, <2>2 DEF Goto, NotesKept, Requests
  <2> QED BY <2>3, <2>4, <2>5, LeavingBootstraps
<1>10. CASE Expire
  <2>1. UNCHANGED <<mpc, nodes, note>>
    BY <1>10 DEF Expire
  <2>2. uncoordinated' = TRUE \/ UNCHANGED <<bootLock, uncoordinated>>
    BY <1>10 DEF Expire
  <2> QED BY <2>1, <2>2 DEF BootstrapsApart
<1>11. CASE UNCHANGED memoryVars
  BY <1>11 DEF memoryVars, BootstrapsApart
<1> QED BY <1>2, <1>3, <1>4, <1>5, <1>6, <1>7, <1>8, <1>9, <1>10, <1>11 DEF MemoryNext

(* Every step of a request or of Redis keeps the invariant.                 *)
LEMMA MemorySteps == MemoryInv /\ [MemoryNext]_memoryVars => MemoryInv'
<1> SUFFICES ASSUME MemoryInv, [MemoryNext]_memoryVars PROVE MemoryInv'
  OBVIOUS
<1>1. Fenced
  BY DEF MemoryInv, Fenced
<1>2. ASSUME NEW p \in Requests,
             \/ Begin(p) \/ EnterBootstrap(p) \/ Coordinate(p) \/ ListPages(p)
             \/ CreatePage(p) \/ Bootstrapped(p) \/ BootstrapFails(p)
      PROVE  Fenced'
  BY <1>1, <1>2, BeginFenced, BootstrapFenced
<1>3. Fenced'
  BY <1>1, <1>2, TurnFenced, RetainFenced, ClearFenced, ExpiryFenced DEF MemoryNext
<1> QED BY <1>3, PagesApart DEF MemoryInv, Fenced

(* The invariant says what a final Clear means.                             *)
LEMMA MemoryIsCleared == MemoryInv => ClearIsFinal
<1> SUFFICES ASSUME MemoryInv PROVE ClearIsFinal
  OBVIOUS
<1>1. NothingClearedIsCached /\ NothingClearedIsServed
  BY DEF MemoryInv, BriefsFenced, TurnsServed, NothingClearedIsCached, NothingClearedIsServed
<1>2. ASSUME ~uncoordinated, NEW n \in Pages
      PROVE  Cardinality({page \in nodes : page.name = n}) <= 1
  <2> DEFINE S == {page \in nodes : page.name = n}
  <2>1. \A x, y \in S : x = y
    BY <1>2 DEF MemoryInv, BootstrapsApart
  <2>2. CASE S = {}
    BY <2>2, FS_EmptySet
  <2>3. CASE S # {}
    <3>1. PICK x \in S : TRUE
      BY <2>3
    <3>2. S = {x}
      BY <2>1, <3>1
    <3>3. Cardinality({x}) = 1
      BY FS_Singleton
    <3> QED BY <3>2, <3>3
  <2> QED BY <2>2, <2>3
<1> QED BY <1>1, <1>2 DEF ClearIsFinal, PagesOnce

(* Once a Clear is acknowledged nothing of it is cached or given to a turn  *)
(* that begins later, whatever reflections, retained turns and other Clears *)
(* were under way at any replica, and no page is created twice while the    *)
(* bootstrap lock holds (_session_brief, clear_user_memory_caches,          *)
(* ensure_bank_initialized).                                                *)
THEOREM ClearedMemoryIsKeptOut == Spec => []MemoryKept
<1>1. Init => MemoryInv
  BY MemoryStarts DEF Init
<1>2. [Next]_vars => [MemoryNext]_memoryVars
  <2> SUFFICES ASSUME [Next]_vars PROVE [MemoryNext]_memoryVars
    OBVIOUS
  <2>1. CASE MemoryStep
    BY <2>1 DEF MemoryStep
  <2>2. CASE CenterStep \/ GrantsStep \/ ApprovalStep \/ ReceiptStep \/ MigrationStep
             \/ ImportStep \/ StartupStep \/ AccessStep \/ FeedStep \/ OperationsStep
             \/ EvaluationStep
    BY <2>2 DEF CenterStep, GrantsStep, ApprovalStep, ReceiptStep, MigrationStep, ImportStep,
                StartupStep, AccessStep, FeedStep, OperationsStep, EvaluationStep
  <2>3. CASE UNCHANGED vars
    BY <2>3 DEF vars
  <2> QED BY <2>1, <2>2, <2>3 DEF Next
<1>3. MemoryInv /\ [Next]_vars => MemoryInv'
  BY <1>2, MemorySteps
<1>4. MemoryInv => MemoryKept
  BY MemoryIsCleared DEF MemoryKept
<1> QED BY <1>1, <1>3, <1>4, PTL DEF Spec

(***************************************************************************)
(* Approvals: what needs none                                              *)
(***************************************************************************)

(* A chat's or a background run's call that may act was let through by the  *)
(* policy, or presented a credential.                                       *)
LetThrough(p) ==
  \/ Verdict(job[p].call) = "allow"
  \/ Verdict(job[p].call) = "approve" /\ job[p].token # 0

GateInv ==
  /\ policy \in [Calls -> Policies]
  /\ \A p \in Procs : pc[p] # "idle" => job[p].call \in Calls
  /\ \A p \in Chats \cup Background : pc[p] = "call" => LetThrough(p)

(* A step that moves a call anywhere but to its act, or starts it.          *)
LEMMA MovingKeepsGates ==
  ASSUME ApprovalTypes, GateInv, policy' = policy, NEW p \in Procs,
         pc' = [pc EXCEPT ![p] = pc'[p]],
         \A q \in Procs \ {p} : job'[q] = job[q],
         job'[p].call \in Calls,
         p \in Chats \cup Background => pc'[p] # "call"
  PROVE  GateInv'
<1>1. \A q \in Procs \ {p} : pc'[q] = pc[q]
  BY DEF ApprovalTypes
<1>2. \A q \in Procs : pc'[q] # "idle" => job'[q].call \in Calls
  BY <1>1 DEF GateInv
<1>3. ASSUME NEW q \in Chats \cup Background, pc'[q] = "call"
      PROVE  LetThrough(q)'
  BY <1>1, <1>3 DEF GateInv, LetThrough, Verdict, Procs
<1> QED BY <1>2, <1>3 DEF GateInv

(* No call is under way.                                                    *)
LEMMA GateStarts == ApprovalInit => GateInv
BY DEF ApprovalInit, GateInv, Procs

(* Only what the policy lets through, or a credential, reaches its act.     *)
LEMMA GateSteps == ApprovalTypes /\ GateInv /\ [ApprovalNext]_approvalVars => GateInv'
<1> SUFFICES ASSUME ApprovalTypes, GateInv, [ApprovalNext]_approvalVars
             PROVE  GateInv'
  OBVIOUS
<1> USE ApprovalConstants
<1>1. ASSUME NEW p \in Procs, NEW u \in Users, NEW c \in Calls, NEW t \in {0} \cup DOMAIN tokens,
             Request(p, u, c, t) \/ Arrive(p, u, c, t)
      PROVE  GateInv'
  <2>1. /\ job' = [job EXCEPT ![p] = [user |-> u, call |-> c, token |-> t]]
        /\ policy' = policy
    BY <1>1 DEF Request, Arrive
  <2>2. pc' = [pc EXCEPT ![p] = pc'[p]] /\ pc'[p] # "call"
    BY <1>1 DEF Request, Arrive, ApprovalGoto, ApprovalTypes
  <2>3. job'[p].call \in Calls /\ \A q \in Procs \ {p} : job'[q] = job[q]
    BY <2>1 DEF ApprovalTypes
  <2> QED BY <2>1, <2>2, <2>3, MovingKeepsGates
<1>2. ASSUME NEW p \in Chats \cup Background, Gate(p)
      PROVE  GateInv'
  <2>1. pc[p] = "gate" /\ p \in Procs /\ policy' = policy /\ job' = job
    BY <1>2 DEF Gate
  <2>2. job[p].call \in Calls
    BY <2>1 DEF GateInv
  <2>3. ASSUME pc' = [pc EXCEPT ![p] = "done"]
        PROVE  GateInv'
    <3>1. pc'[p] = "done"
      BY <2>1, <2>3 DEF ApprovalTypes
    <3> QED BY <2>1, <2>2, <2>3, <3>1, MovingKeepsGates
  <2>4. ASSUME LetThrough(p), pc' = [pc EXCEPT ![p] = "call"]
        PROVE  GateInv'
    BY <2>1, <2>2, <2>4 DEF GateInv, LetThrough, Verdict, ApprovalTypes
  <2>5. CASE Verdict(job[p].call) = "allow" /\ ApprovalGoto(p, "call")
    BY <2>4, <2>5 DEF LetThrough, ApprovalGoto
  <2>6. CASE ApprovalGoto(p, "done")
    BY <2>3, <2>6 DEF ApprovalGoto
  <2>7. CASE /\ Verdict(job[p].call) = "approve" /\ job[p].token # 0
             /\ ApprovalGoto(p, IF Matches(p) THEN "call" ELSE "done")
    BY <2>3, <2>4, <2>7 DEF LetThrough, ApprovalGoto
  <2> QED BY <1>2, <2>5, <2>6, <2>7 DEF Gate
<1>3. ASSUME NEW p \in Procs, ApprovalCall(p) \/ Cancel(p)
      PROVE  GateInv'
  <2>1. pc[p] # "idle" /\ policy' = policy /\ job' = job /\ pc' = [pc EXCEPT ![p] = "done"]
    BY <1>3 DEF ApprovalCall, Cancel, ApprovalGoto
  <2>2. pc'[p] = "done" /\ job[p].call \in Calls
    BY <2>1 DEF ApprovalTypes, GateInv
  <2> QED BY <2>1, <2>2, MovingKeepsGates
<1>4. ASSUME NEW r \in Routes, Peek(r) \/ Spend(r) \/ Start(r) \/ Connect(r)
      PROVE  GateInv'
  <2>1. pc[r] # "idle" /\ r \in Procs /\ r \notin Chats \cup Background
        /\ policy' = policy /\ job' = job
    BY <1>4 DEF Peek, Spend, Start, Connect
  <2>2. pc' = [pc EXCEPT ![r] = pc'[r]]
    BY <1>4 DEF Peek, Spend, Start, Connect, ApprovalGoto, ApprovalTypes
  <2>3. job[r].call \in Calls
    BY <2>1 DEF GateInv
  <2> QED BY <2>1, <2>2, <2>3, MovingKeepsGates
<1>5. ASSUME UNCHANGED <<policy, pc, job>>
      PROVE  GateInv'
  BY <1>5 DEF GateInv, LetThrough, Verdict
<1>6. ASSUME NEW d \in Devices, ApprovalLook(d) \/ \E v \in {"approved", "denied"} : Decide(d, v)
      PROVE  GateInv'
  BY <1>5, <1>6 DEF ApprovalLook, Decide
<1>7. ASSUME NEW t \in DOMAIN tokens, TokenExpires(t)
      PROVE  GateInv'
  BY <1>5, <1>7 DEF TokenExpires
<1>8. ASSUME NEW a \in DOMAIN asks, AskExpires(a)
      PROVE  GateInv'
  BY <1>5, <1>8 DEF AskExpires
<1>9. CASE Restart
  <2>1. /\ policy' \in [Calls -> Policies] /\ job' = job
        /\ pc' = [p \in Procs |-> IF pc[p] = "idle" THEN "idle" ELSE "done"]
    BY <1>9 DEF Restart
  <2> QED BY <2>1 DEF GateInv, Procs
<1>10. CASE UNCHANGED approvalVars
  BY <1>5, <1>10 DEF approvalVars
<1> QED BY <1>1, <1>2, <1>3, <1>4, <1>6, <1>7, <1>8, <1>9, <1>10 DEF ApprovalNext, RouteStep

(* What is done is done by one call that waited to act.                     *)
LEMMA OneActs ==
  ASSUME [ApprovalNext]_approvalVars
  PROVE  acts' = acts \/ \E p \in Procs : pc[p] = "call" /\ Act(p)
<1> USE ApprovalConstants
<1>1. ASSUME NEW p \in Procs, ApprovalCall(p) \/ Cancel(p)
      PROVE  acts' = acts \/ (pc[p] = "call" /\ Act(p))
  BY <1>1 DEF ApprovalCall, Cancel
<1>2. CASE Restart
  BY <1>2 DEF Restart
<1>3. ASSUME NEW p \in Procs,
             \/ Gate(p) \/ Peek(p) \/ Spend(p) \/ Start(p) \/ Connect(p)
             \/ \E u \in Users, c \in Calls, t \in {0} \cup DOMAIN tokens :
                  Request(p, u, c, t) \/ Arrive(p, u, c, t)
      PROVE  acts' = acts
  BY <1>3 DEF Gate, Peek, Spend, Start, Connect, Request, Arrive
<1>4. ASSUME \/ \E d \in Devices : ApprovalLook(d) \/ \E v \in {"approved", "denied"} : Decide(d, v)
             \/ \E t \in DOMAIN tokens : TokenExpires(t)
             \/ \E a \in DOMAIN asks : AskExpires(a)
             \/ UNCHANGED approvalVars
      PROVE  acts' = acts
  BY <1>4 DEF ApprovalLook, Decide, TokenExpires, AskExpires, approvalVars
<1> QED BY <1>1, <1>2, <1>3, <1>4 DEF ApprovalNext, RouteStep

(* An act without an ask was let through by the policy.                     *)
LEMMA UnaskedIsAllowed ==
  ASSUME ApprovalTypes, GateInv, NEW p \in Procs, pc[p] = "call", Authority(p) = 0,
         job[p].call \in Destructive
  PROVE  policy[job[p].call] = "auto_approve"
<1>1. job[p].token # 0 => job[p].token \in 1..Len(tokens)
  BY DEF ApprovalTypes
<1>2. job[p].token # 0 => tokens[job[p].token].ask # 0
  BY <1>1 DEF ApprovalTypes
<1>3. p \notin Routes
  BY <1>2 DEF Authority, ApprovalTypes
<1>4. p \in Chats \cup Background /\ LetThrough(p)
  BY <1>3 DEF Procs, GateInv
<1>5. Verdict(job[p].call) = "allow"
  BY <1>2, <1>4 DEF LetThrough, Authority
<1>6. job[p].call \in Calls /\ policy[job[p].call] \in Policies
  BY DEF GateInv
<1> QED BY <1>5, <1>6 DEF Verdict, Mutates, Policies

(* Nothing that mutates happens without an approval unless the operator     *)
(* auto-approved it: not for a chat, a background run or the execute route, *)
(* and not while the runtime restarts under another configuration           *)
(* (_validate_mcp_approval, MCPManager.call).                               *)
THEOREM NothingUnapproved == Spec => NoUnapprovedChange
<1> DEFINE Inv == ApprovalInv /\ GateInv
           Fine == \A i \in DOMAIN acts' \ DOMAIN acts :
                     acts'[i].ask = 0 /\ acts'[i].call \in Destructive
                       => policy[acts'[i].call] = "auto_approve"
<1>1. Init => Inv
  BY ApprovalStarts, GateStarts DEF Init
<1>2. Inv /\ [Next]_vars => Inv'
  BY ServicesApart, ApprovalSteps, GateSteps DEF ApprovalInv
<1>3. Inv /\ [Next]_vars => [Fine]_approvalVars
  <2> SUFFICES ASSUME Inv, [Next]_vars
               PROVE  Fine
    OBVIOUS
  <2>1. acts' = acts \/ \E p \in Procs : pc[p] = "call" /\ Act(p)
    BY ServicesApart, OneActs
  <2>2. CASE acts' = acts
    BY <2>2
  <2>3. ASSUME NEW p \in Procs, pc[p] = "call", Act(p)
        PROVE  Fine
    <3> DEFINE new == [user |-> job[p].user, call |-> job[p].call, ask |-> Authority(p), by |-> p]
    <3>1. acts \in Seq(ActRecords) /\ acts' = Append(acts, new)
      BY <2>3 DEF Act, ApprovalInv, ApprovalTypes
    <3>2. \A i \in DOMAIN acts' \ DOMAIN acts : acts'[i] = new
      BY <3>1
    <3>3. Authority(p) = 0 /\ job[p].call \in Destructive => policy[job[p].call] = "auto_approve"
      BY <2>3, UnaskedIsAllowed DEF ApprovalInv
    <3> QED BY <3>2, <3>3
  <2> QED BY <2>1, <2>2, <2>3
<1> QED BY <1>1, <1>2, <1>3, PTL DEF Spec, NoUnapprovedChange
=============================================================================
