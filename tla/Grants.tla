------------------------------- MODULE Grants -------------------------------
(***************************************************************************)
(* Google authorization of one user and service, shared by the replicas of *)
(* the tool runtime, and the MCP connection each replica caches:           *)
(*   builder/daedalus_runtime: oauth.py, mcp.py                            *)
(* A grant is identified by the consent it descends from; its access token *)
(* by the number of the token response that issued it.                     *)
(***************************************************************************)
EXTENDS Naturals, FiniteSets

CONSTANTS Replicas,
          Workers,     \* operations, each at a replica: Workers -> replica
          At,          \* the replica of each operation
          MaxConsents, \* bound on browser authorizations
          MaxTokens    \* bound on token responses

None == "none"

ASSUME GrantsAssumption == At \in [Workers -> Replicas] /\ None \notin Workers

VARIABLES
  grant,    \* the grant at the user's Redis key
  lock,     \* holder of the Redis refresh lock
  busy,     \* holder of a replica's lock for this server and user
  conn,     \* a replica's cached connection: the credential it was opened with
  wpc, mine,\* stage of an operation; the grant it read, was issued or rejects
  consents, issued, \* authorizations completed, access tokens issued
  newest,   \* history: the consent stored last
  revoked,  \* history: consents whose grant a reset or Google revoked
  stray     \* history: an operation whose lock had lapsed wrote the grant since
            \* one that held it last stored or reset it

grantVars == <<grant, lock, busy, conn, wpc, mine, consents, issued, newest, revoked, stray>>

NoGrant == [consent |-> 0, access |-> 0, fresh |-> FALSE]

GrantsInit ==
  /\ grant = NoGrant /\ lock = None
  /\ busy = [r \in Replicas |-> None] /\ conn = [r \in Replicas |-> NoGrant]
  /\ wpc = [w \in Workers |-> "idle"] /\ mine = [w \in Workers |-> NoGrant]
  /\ consents = 0 /\ issued = 0 /\ newest = 0 /\ revoked = {} /\ stray = FALSE

To(w, stage) == wpc' = [wpc EXCEPT ![w] = stage]
Leave(w) == busy' = [busy EXCEPT ![At[w]] = None]
(* A token response for a consent: Google keeps the refresh token.          *)
Issue(consent) == [consent |-> consent, access |-> issued + 1, fresh |-> TRUE]

(* MCPManager.call and .reset hold the replica's lock for the whole         *)
(* operation; a reset that finds it taken is refused.                       *)
Enter(w) ==
  /\ wpc[w] = "idle" /\ busy[At[w]] = None
  /\ busy' = [busy EXCEPT ![At[w]] = w]
  /\ \E stage \in {"read", "reset"} : To(w, stage)
  /\ UNCHANGED <<grant, lock, conn, mine, consents, issued, newest, revoked, stray>>

(* Refresh, invalidation, reset and a new grant take the same Redis lock,   *)
(* for 40 seconds.                                                          *)
RedisLock(w) ==
  /\ wpc[w] \in {"read", "reset", "keep", "reject"} /\ lock = None
  /\ lock' = w
  /\ To(w, CASE wpc[w] = "read" -> "look" [] wpc[w] = "reset" -> "clear"
             [] wpc[w] = "keep" -> "store" [] wpc[w] = "reject" -> "compare")
  /\ UNCHANGED <<grant, busy, conn, mine, consents, issued, newest, revoked, stray>>

(* It lapses on a refresh, which goes on without noticing: each phase of    *)
(* the request to Google may take 30 seconds. The others make one or two    *)
(* calls to Redis under it, of 5 seconds at most.                           *)
Lapse ==
  /\ lock # None /\ wpc[lock] \in {"refresh", "save"} /\ lock' = None
  /\ UNCHANGED <<grant, busy, conn, wpc, mine, consents, issued, newest, revoked, stray>>

Unlock(w) == lock' = IF lock = w THEN None ELSE lock

(* The release at the end fails the operation when its lock has lapsed.     *)
LeaveLock(w, stage) ==
  /\ Unlock(w)
  /\ IF lock = w THEN To(w, stage) /\ UNCHANGED busy ELSE To(w, "idle") /\ Leave(w)

(* The grant is written, under the lock or after it lapsed.                 *)
Writes(w) == stray' = (lock # w \/ (stray /\ wpc[w] \notin {"store", "clear"}))

(* Waiting for the lock times out: the operation fails, and a failed        *)
(* invalidation is ignored.                                                 *)
LockTimeout(w) ==
  /\ wpc[w] \in {"read", "reset", "keep", "reject"} /\ lock \notin {None, w}
  /\ To(w, "idle") /\ Leave(w)
  /\ UNCHANGED <<grant, lock, conn, mine, consents, issued, newest, revoked, stray>>

(* access_token: a fresh token is returned, a stale one refreshed, none     *)
(* asks the person.                                                         *)
Look(w) ==
  /\ wpc[w] = "look"
  /\ mine' = [mine EXCEPT ![w] = grant]
  /\ IF grant = NoGrant THEN LeaveLock(w, "consent")
     ELSE IF grant.fresh THEN LeaveLock(w, "connect")
     ELSE To(w, "refresh") /\ UNCHANGED <<lock, busy>>
  /\ UNCHANGED <<grant, conn, consents, issued, newest, revoked, stray>>

(* The refresh response: a token, invalid_grant, or an outage that keeps    *)
(* the grant.                                                               *)
Refresh(w) ==
  /\ wpc[w] = "refresh"
  /\ \/ /\ issued < MaxTokens /\ issued' = issued + 1
        /\ mine' = [mine EXCEPT ![w] = Issue(mine[w].consent)]
        /\ To(w, "save") /\ UNCHANGED <<grant, lock, busy, revoked, stray>>
     \/ /\ revoked' = revoked \cup {mine[w].consent}
        /\ grant' = NoGrant /\ LeaveLock(w, "consent") /\ Writes(w)
        /\ UNCHANGED <<mine, issued>>
     \/ /\ To(w, "idle") /\ Unlock(w) /\ Leave(w)
        /\ UNCHANGED <<grant, mine, issued, revoked, stray>>
  /\ UNCHANGED <<conn, consents, newest>>

(* _save_token, for a refreshed grant or a new one.                         *)
Save(w) ==
  /\ wpc[w] \in {"save", "store"}
  /\ grant' = mine[w] /\ LeaveLock(w, "connect") /\ Writes(w)
  /\ newest' = IF wpc[w] = "store" THEN mine[w].consent ELSE newest
  /\ UNCHANGED <<conn, mine, consents, issued, revoked>>

(* The browser: the callback resolves the state once, with a code that is   *)
(* exchanged; or the person declines, the wait times out, the exchange      *)
(* fails, or nobody can be asked.                                           *)
Consent(w) ==
  /\ wpc[w] = "consent"
  /\ \/ /\ consents < MaxConsents /\ issued < MaxTokens
        /\ consents' = consents + 1 /\ issued' = issued + 1
        /\ mine' = [mine EXCEPT ![w] = Issue(consents + 1)]
        /\ To(w, "keep") /\ UNCHANGED busy
     \/ /\ To(w, "idle") /\ Leave(w) /\ UNCHANGED <<mine, consents, issued>>
  /\ UNCHANGED <<grant, lock, conn, newest, revoked, stray>>

(* Mutant: a cached connection is used whatever credential opened it.       *)
ConnectionAny(w) ==
  /\ wpc[w] = "connect" /\ To(w, "call")
  /\ conn' = [conn EXCEPT ![At[w]] = IF @ = NoGrant THEN mine[w] ELSE @]
  /\ UNCHANGED <<grant, lock, busy, mine, consents, issued, newest, revoked, stray>>

(* _connection: another credential's connection is closed and replaced.     *)
Connection(w) ==
  /\ wpc[w] = "connect"
  /\ \/ To(w, "call") /\ conn' = [conn EXCEPT ![At[w]] = mine[w]] /\ UNCHANGED busy
     \/ To(w, "idle") /\ conn' = [conn EXCEPT ![At[w]] = NoGrant] /\ Leave(w)
  /\ UNCHANGED <<grant, lock, mine, consents, issued, newest, revoked, stray>>

(* The call is confirmed, cancelled with its connection, or unconfirmed:    *)
(* the connection is closed and its token rejected.                         *)
Call(w) ==
  /\ wpc[w] = "call"
  /\ \/ To(w, "idle") /\ Leave(w) /\ UNCHANGED conn
     \/ To(w, "idle") /\ Leave(w) /\ conn' = [conn EXCEPT ![At[w]] = NoGrant]
     \/ To(w, "reject") /\ conn' = [conn EXCEPT ![At[w]] = NoGrant] /\ UNCHANGED busy
  /\ UNCHANGED <<grant, lock, mine, consents, issued, newest, revoked, stray>>

(* invalidate_access reads, compares the rejected token and writes back     *)
(* what it read, expired.                                                   *)
Compare(w) ==
  /\ wpc[w] = "compare"
  /\ IF grant.access = mine[w].access /\ grant # NoGrant
     THEN /\ mine' = [mine EXCEPT ![w] = [grant EXCEPT !.fresh = FALSE]]
          /\ To(w, "expire") /\ UNCHANGED <<lock, busy>>
     ELSE To(w, "idle") /\ Unlock(w) /\ Leave(w) /\ UNCHANGED mine
  /\ UNCHANGED <<grant, conn, consents, issued, newest, revoked, stray>>

GrantExpire(w) ==
  /\ wpc[w] = "expire"
  /\ grant' = mine[w] /\ Unlock(w) /\ Leave(w) /\ To(w, "idle") /\ Writes(w)
  /\ UNCHANGED <<conn, mine, consents, issued, newest, revoked>>

(* reset: the grant is deleted and the replica's connection closed, unless  *)
(* the lock had lapsed.                                                     *)
Clear(w) ==
  /\ wpc[w] = "clear"
  /\ grant' = NoGrant /\ revoked' = revoked \cup ({grant.consent} \ {0}) /\ Writes(w)
  /\ conn' = IF lock = w THEN [conn EXCEPT ![At[w]] = NoGrant] ELSE conn
  /\ Unlock(w) /\ Leave(w) /\ To(w, "idle")
  /\ UNCHANGED <<mine, consents, issued, newest>>

(* The hour of a token ends.                                                *)
Age ==
  /\ grant.fresh /\ grant' = [grant EXCEPT !.fresh = FALSE]
  /\ UNCHANGED <<lock, busy, conn, wpc, mine, consents, issued, newest, revoked, stray>>

(* reap: an idle connection is closed, unless an operation holds the lock.  *)
Reap(r) ==
  /\ busy[r] = None /\ conn[r] # NoGrant
  /\ conn' = [conn EXCEPT ![r] = NoGrant]
  /\ UNCHANGED <<grant, lock, busy, wpc, mine, consents, issued, newest, revoked, stray>>

Operation(w) ==
  \/ Enter(w) \/ RedisLock(w) \/ LockTimeout(w) \/ Look(w) \/ Refresh(w) \/ Save(w)
  \/ Consent(w) \/ Connection(w) \/ Call(w) \/ Compare(w) \/ GrantExpire(w) \/ Clear(w)

GrantsNext ==
  (\E w \in Workers : Operation(w)) \/ Lapse \/ Age \/ (\E r \in Replicas : Reap(r))

(* A revoked grant never comes back, and neither does one that a newer      *)
(* consent replaced: refresh, invalidation and reset at other replicas read *)
(* and write the key under one lock (access_token, invalidate_access).      *)
(* Without a write of an operation that outlived its lock, that is: such a  *)
(* write may bring one back, until the next consent or reset.               *)
GrantNeverComesBack ==
  grant # NoGrant /\ ~stray => grant.consent \notin revoked /\ grant.consent = newest

(* A call is sent only over a connection opened with the credential it was  *)
(* given, whatever the replica cached, reset or reaped meanwhile            *)
(* (MCPManager._connection).                                                *)
CallsUseTheirGrant ==
  \A w \in Workers : wpc[w] = "call" => conn[At[w]] = mine[w]
=============================================================================
