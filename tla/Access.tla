------------------------------- MODULE Access -------------------------------
(***************************************************************************)
(* Who a request acts for and what it may call: the internal gate and the  *)
(* request identity (nat_helpers/internal_auth.py, identity.py), the       *)
(* operation contracts of the native tools (daedalus_runtime/              *)
(* tool_contracts.py, tools.py), the explicit tool call of service.py, the *)
(* exploration adapter (exploration.py) and the collection metadata.       *)
(***************************************************************************)
EXTENDS Naturals, FiniteSets

CONSTANTS AccessRequests,
          AccessConnection,   \* the client connection a request comes on
          AccessUsers, NoUser,
          AccessDeployments,  \* is an internal token configured; is insecurity allowed
          Workflow,     \* tools and groups the workflow configures
          GroupOf,      \* the group of a tool (itself for a native tool)
          Contract,     \* per operation: required, optional and one_of fields
          AccessEnabled,      \* operations the configuration enables
          Fields,       \* arguments of the tool's dispatcher
          MayBeEmpty,   \* required fields whose value may be empty (file content)
          Arguments,    \* argument assignments callers try
          Runs, Paths   \* exploration runs and files in them

VARIABLES
  deployed,  \* the deployment's token settings
  req,       \* each request: place, headers, what it asks
  context,   \* request headers in force on each connection
  accessEffects,   \* the last thing done, for whom and by which request
  clients, building, \* model clients built per name; requests about to build
  published  \* the last file published and what was asked for

accessVars == <<deployed, req, context, accessEffects, clients, building, published>>

NoHeaders == [token |-> "none", user |-> NoUser, scope |-> "none", execution |-> "none"]
AccessIdle == [at |-> "idle", headers |-> NoHeaders, asks |-> "nothing", tool |-> "none",
         operation |-> "none", args |-> [f \in Fields |-> "absent"]]
Connections == {AccessConnection[r] : r \in AccessRequests}

AccessInit ==
  /\ deployed \in AccessDeployments
  /\ req = [r \in AccessRequests |-> AccessIdle]
  /\ context = [c \in Connections |-> NoHeaders]
  /\ accessEffects = {} /\ clients = 0 /\ building = {} /\ published = {}

(* What a caller may send: its headers, and a call, a publication, the      *)
(* collection metadata, a use of a model client, or a public path.          *)
Headers == [token : {"good", "bad", "none"}, user : AccessUsers \cup {NoUser},
            scope : {"none", "autonomy"}, execution : {"e1"}]
Asks == {"public", "metadata", "client", "call", "publish"}

(* A connection carries one request at a time.                              *)
AccessArrive(r) ==
  /\ req[r].at = "idle" /\ \A q \in AccessRequests : AccessConnection[q] = AccessConnection[r] => req[q].at = "idle"
  /\ \E h \in Headers, a \in Asks : req' = [req EXCEPT ![r] = [AccessIdle EXCEPT !.at = "arrived", !.headers = h, !.asks = a]]
  /\ UNCHANGED <<deployed, context, accessEffects, clients, building, published>>

---------------------------------------------------------------------------
(* The gate and the identity.                                               *)

(* require_internal_token: without a configured token, only an explicit     *)
(* opt-out lets a request in.                                               *)
TokenAccepted(h) == IF deployed.token THEN h.token = "good" ELSE deployed.insecure

(* require_trusted_user.                                                    *)
Trusted(h) == TokenAccepted(h) /\ h.user # NoUser

(* authenticated_user_id_from_headers must accept what the gate accepts.    *)
UserOf(h) ==
  IF deployed.token /\ h.token # "good" THEN NoUser
  ELSE IF ~deployed.token /\ ~deployed.insecure THEN NoUser
  ELSE h.user

Protected(r) == req[r].asks # "public"

Place(r, at) == req' = [req EXCEPT ![r].at = at]

(* Every path but the public ones is refused or runs with its headers in    *)
(* force.                                                                   *)
AccessGate(r) ==
  /\ req[r].at = "arrived"
  /\ IF Protected(r) /\ ~Trusted(req[r].headers)
       THEN Place(r, "refused") /\ UNCHANGED context
       ELSE /\ Place(r, "running")
            /\ context' = IF Protected(r) THEN [context EXCEPT ![AccessConnection[r]] = req[r].headers]
                                           ELSE context
  /\ UNCHANGED <<deployed, accessEffects, clients, building, published>>

(* authenticated_user_id_from_context, resolve_authenticated_user_id.       *)
CurrentUser(r) == UserOf(context[AccessConnection[r]])

(* An execution identifier counts only on the autonomy path.                *)
Execution(r) ==
  LET h == context[AccessConnection[r]] IN IF h.scope = "autonomy" THEN h.execution ELSE "none"

Done(r, what) ==
  accessEffects' = {[request |-> r, user |-> CurrentUser(r), headers |-> req[r].headers,
                            what |-> what, execution |-> Execution(r)]}

(* The end of a request as it would be if only completion restored the headers. *)
FinishCompleted(r) ==
  /\ req[r].at \in {"running", "calling", "fetched", "refused", "answered"}
  /\ req' = [req EXCEPT ![r] = AccessIdle]
  /\ context' = IF Protected(r) /\ req[r].at = "answered" THEN [context EXCEPT ![AccessConnection[r]] = NoHeaders] ELSE context
  /\ building' = building \ {r}
  /\ accessEffects' = {} /\ published' = {}
  /\ UNCHANGED <<deployed, clients>>

(* The scope's end restores the headers on completion and on cancellation.  *)
Finish(r) ==
  /\ req[r].at \in {"running", "calling", "fetched", "refused", "answered"}
  /\ req' = [req EXCEPT ![r] = AccessIdle]
  /\ context' = IF Protected(r) THEN [context EXCEPT ![AccessConnection[r]] = NoHeaders] ELSE context
  /\ building' = building \ {r}
  /\ accessEffects' = {} /\ published' = {}
  /\ UNCHANGED <<deployed, clients>>

---------------------------------------------------------------------------
(* Operation contracts.                                                     *)

Allowed(o) == Contract[o].required \cup Contract[o].optional \cup Contract[o].one_of

(* parameters: the fields some enabled operation uses.                      *)
UsedFields == UNION {Allowed(o) : o \in AccessEnabled}

(* _present: neither null nor empty.                                        *)
Present(a, f) == a[f] = "value"
Given(a) == {f \in Fields : a[f] # "absent"}

(* ainvoke validates the arguments against the operation's rules.           *)
Accepted(o, a) ==
  /\ o \in AccessEnabled
  /\ Given(a) \subseteq Allowed(o)
  /\ \A f \in Contract[o].required : IF f \in MayBeEmpty THEN a[f] # "absent" ELSE Present(a, f)
  /\ Contract[o].one_of # {} => Cardinality({f \in Contract[o].one_of : Present(a, f)}) = 1

(* explicit_call: only a tool the run was given and the workflow configures.*)
InWorkflow(t) == t \in Workflow \/ GroupOf[t] \in Workflow

ExplicitCall(r) ==
  /\ req[r].at = "running" /\ req[r].asks = "call"
  /\ \E t \in DOMAIN GroupOf, o \in DOMAIN Contract, a \in Arguments :
       IF InWorkflow(t) /\ Accepted(o, a)
         THEN req' = [req EXCEPT ![r].at = "calling", ![r].tool = t, ![r].operation = o, ![r].args = a]
         ELSE Place(r, "answered") \* 400, or the paths and keywords that failed
  /\ UNCHANGED <<deployed, context, accessEffects, clients, building, published>>

(* The tool resolves its user only when it acts, after other requests ran.  *)
Invoke(r) ==
  /\ req[r].at = "calling"
  /\ Done(r, req[r].tool) /\ Place(r, "answered")
  /\ UNCHANGED <<deployed, context, clients, building, published>>

(* _collection_metadata: the caller's private collection and the shared ones.*)
Metadata(r) ==
  /\ req[r].at = "running" /\ req[r].asks = "metadata"
  /\ Done(r, "metadata") /\ Place(r, "answered")
  /\ UNCHANGED <<deployed, context, clients, building, published>>

(* Whatever a public path asks for, it finds no user.                       *)
Public(r) ==
  /\ req[r].at = "running" /\ req[r].asks = "public"
  /\ Done(r, "public") /\ Place(r, "answered")
  /\ UNCHANGED <<deployed, context, clients, building, published>>

(* get_llm, get_embedder: looked up without the lock, built under it after  *)
(* a second look.                                                           *)
AccessLookUp(r) ==
  /\ req[r].at = "running" /\ req[r].asks = "client" /\ r \notin building
  /\ IF clients > 0 THEN Place(r, "answered") /\ UNCHANGED building
                    ELSE building' = building \cup {r} /\ UNCHANGED req
  /\ UNCHANGED <<deployed, context, accessEffects, clients, published>>

Build(r) ==
  /\ r \in building /\ building' = building \ {r}
  /\ clients' = IF clients = 0 THEN 1 ELSE clients
  /\ Place(r, "answered")
  /\ UNCHANGED <<deployed, context, accessEffects, published>>

---------------------------------------------------------------------------
(* The exploration adapter: the service's reply is checked against what was *)
(* asked before a file is published.                                        *)

Reply == [ok : BOOLEAN, fits : BOOLEAN, intact : BOOLEAN, run : Runs, path : Paths]
Provenance(v, run, path) == v.intact /\ v.run = run /\ v.path = path

Explore(r) ==
  /\ req[r].at = "running" /\ req[r].asks = "publish"
  /\ \E v \in Reply, n \in Runs, p \in Paths :
       IF v.ok /\ v.fits /\ Provenance(v, n, p)
         THEN /\ published' = {[asked |-> <<n, p>>, reply |-> v]}
              /\ Done(r, "publish") /\ Place(r, "answered")
         ELSE Place(r, "answered") /\ UNCHANGED <<accessEffects, published>>
  /\ UNCHANGED <<deployed, context, clients, building>>

AccessNext ==
  \E r \in AccessRequests :
    \/ AccessArrive(r) \/ AccessGate(r) \/ Finish(r)
    \/ ExplicitCall(r) \/ Invoke(r) \/ Metadata(r) \/ Public(r)
    \/ AccessLookUp(r) \/ Build(r) \/ Explore(r)

AccessSpec == AccessInit /\ [][AccessNext]_accessVars

---------------------------------------------------------------------------
(* Everything a request does is done for the user whose trusted headers it  *)
(* brought, however requests on one connection end; a public request acts   *)
(* for nobody, and a request the gate let in never lacks its user. Only an  *)
(* autonomous request carries an execution identifier.                      *)
ActsForItsCaller ==
  \A e \in accessEffects :
    /\ IF e.what = "public" THEN e.user = NoUser
                            ELSE Trusted(e.headers) /\ e.user = e.headers.user
    /\ e.execution # "none" => e.headers.scope = "autonomy"

(* A call that reaches a tool is configured and brings only its operation's *)
(* arguments, with exactly one usable alternative.                          *)
CallsFitContracts ==
  \A r \in AccessRequests : req[r].at = "calling" =>
    /\ InWorkflow(req[r].tool)
    /\ LET c == Contract[req[r].operation]
           usable == {f \in Fields : req[r].args[f] = "value"}
       IN /\ usable \subseteq c.required \cup c.optional \cup c.one_of
          /\ c.required \ MayBeEmpty \subseteq usable
          /\ c.one_of # {} => \E f \in c.one_of : usable \cap c.one_of = {f}

(* Concurrent first uses share one client, and a published file is the one  *)
(* that was asked for.                                                      *)
OneClientOneFile ==
  /\ clients <= 1
  /\ \A p \in published : p.reply.intact /\ <<p.reply.run, p.reply.path>> = p.asked

(* Access to the tool service: the conjunction of the three facts above.    *)
AccessSound == ActsForItsCaller /\ CallsFitContracts /\ OneClientOneFile
=============================================================================
