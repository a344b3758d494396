------------------------------ MODULE Startup ------------------------------
(***************************************************************************)
(* The life of one backend container: builder/entrypoint.py supervises the *)
(* Python tool service and the Rust agent; the service loads and validates *)
(* its configuration (daedalus_runtime/config.py), discovers its MCP       *)
(* groups (mcp.py), and answers readiness probes (nat_helpers/front_end.py)*)
(* until it is stopped (the lifespan of service.py).                       *)
(***************************************************************************)
EXTENDS Naturals, Sequences, SequencesExt, FiniteSets, TLC

CONSTANTS Files, NoFile, Root,
          Deployments,  \* what may be deployed: bases of the files, and modes
          Defines,      \* settings each file makes: a function of setting paths
          Retired, Factories, \* function types removed; types with a loaded factory
          Uploads,      \* the collection uploads go to
          MaxDepth,     \* files in a chain of bases (16)
          MaxIterations, MaxRetries, MaxTimeout, \* limits on settings
          ServerTools,  \* operations each MCP server offers
          Fold,         \* an operation's name trimmed and casefolded
          Undescribed,  \* operations without a description
          Required,     \* groups a ready service must reach
          IdleTicks,    \* reaper rounds after which a connection is idle (10)
          StartupMaxFaults, MaxTicks \* bounds: outages of dependencies, reaper rounds

Children == {"tools", "rust"}
Deps == {"redis", "memory", "milvus"}
Groups == DOMAIN ServerTools
StartupOwners == {"readiness", "user"} \* users of connections; each has its own

VARIABLES
  base, modes,        \* the deployment: bases of its files, its readiness
                      \* policies and who owns authorization
  sup, stop,          \* the supervisor's place; its stopping flag
  kids, proc,         \* children it has recorded; their processes
  unasked,            \* history: a child was killed without being asked to stop
  svc, chain, conf,   \* the service's place, the files it has read, the result
  startupPolicy,             \* the approval policy is loaded
  startupConn, age,          \* MCP connections; reaper rounds since their last use
  up, dep,            \* MCP servers and dependencies that answer
  drain,              \* the container's draining marker exists
  hurt,               \* history: servers that have been down
  startupFaults, ticks,
  probe,              \* the readiness request under way and its last answer
  listed              \* the last catalogue served: group and tools

supervisorVars == <<sup, stop, kids, unasked>>
serviceVars == <<svc, chain, conf, startupPolicy>>
mcpVars == <<startupConn, age>>
worldVars == <<up, dep, drain, hurt, startupFaults>>
startupVars == <<base, modes, supervisorVars, proc, serviceVars, mcpVars, worldVars, ticks, probe, listed>>

NoConf == [p \in {} |-> 0]
NoProbe == [at |-> "idle", soft |-> FALSE, answer |-> "none", reason |-> "none", missing |-> {}]
NoList == [group |-> NoFile, tools |-> {}]

(* The policies a deployment may configure; an unknown word is refused.     *)
ReadinessModes == [memory : {"degraded", "required", "invalid"},
                   rag : {"disabled", "degraded", "required", "invalid"},
                   owner : {"python", "rust"}]

StartupInit ==
  /\ \E d \in Deployments : base = d.base /\ modes = d.modes /\ modes \in ReadinessModes
  /\ sup = "spawning" /\ stop = FALSE /\ kids = {} /\ unasked = FALSE
  /\ proc = [c \in Children |-> "none"]
  /\ svc = "none" /\ chain = <<>> /\ conf = NoConf /\ startupPolicy = FALSE
  /\ startupConn = [g \in Groups, o \in StartupOwners |-> "none"]
  /\ age = [g \in Groups, o \in StartupOwners |-> 0]
  /\ up = [g \in Groups |-> TRUE] /\ dep = [d \in Deps |-> "up"] /\ hurt = {} /\ drain = FALSE
  /\ startupFaults = 0 /\ ticks = 0 /\ probe = NoProbe /\ listed = NoList

---------------------------------------------------------------------------
(* The configuration. A file's settings override its base's, path by path. *)

Merge(inherited, own) == own @@ inherited

(* load_config: read a file, then its base; a file met again or too long a  *)
(* chain is refused. The settings are merged on the way back to the root.   *)
Following == IF chain = <<>> THEN Root ELSE base[Last(chain)]
Refused == Contains(chain, Following) \/ Len(chain) >= MaxDepth
Loaded == FoldRight(LAMBDA f, inherited : Merge(inherited, Defines[f]), chain, NoConf)

Named(c, section) == {k[2] : k \in {k \in DOMAIN c : k[1] = section}}
Setting(c, path, default) == IF path \in DOMAIN c THEN c[path] ELSE default

(* A group may hide its operations behind one connect tool; the ones shown  *)
(* at once must be named once and must not be excluded.                     *)
GroupValid(g) ==
  /\ g.deferred => g.described
  /\ g.initial # <<>> => g.deferred
  /\ IsInjective(g.initial)
  /\ IF g.include # {} THEN Range(g.initial) \subseteq g.include
                       ELSE Range(g.initial) \cap g.exclude = {}

(* Search and uploads must share one collection of the default database.    *)
DefaultDatabase(name) == name \in {"", "default"}
SharesUploads(f) == f.kind = "nat_nv_ingest" => f.collection = Uploads

FunctionValid(f) ==
  /\ f.kind \notin Retired /\ f.kind \in Factories
  /\ f.kind \in {"nat_nv_ingest", "domain_retriever"} => DefaultDatabase(f.database)
  /\ SharesUploads(f)

ModelValid(m) ==
  /\ m.endpoint = "http"
  /\ m.retries <= MaxRetries
  /\ m.timeout \in 1..MaxTimeout

(* validate_config: reject unsupported or unbounded settings before work.   *)
Valid(c) ==
  LET tools == Setting(c, <<"workflow", "tools">>, <<>>)
      functions == Named(c, "functions")
      groups == Named(c, "groups")
      models == Named(c, "llms")
  IN /\ Setting(c, <<"workflow", "type">>, "none") = "daedalus_rust_agent"
     /\ Setting(c, <<"workflow", "iterations">>, 1) \in 1..MaxIterations
     /\ functions \cap groups = {}
     /\ \A g \in groups : GroupValid(c[<<"groups", g>>])
     /\ IsInjective(tools) /\ Range(tools) \subseteq functions \cup groups
     /\ \A f \in functions : FunctionValid(c[<<"functions", f>>])
     /\ Setting(c, <<"workflow", "llm">>, "none") \in models
     /\ \A m \in models : ModelValid(c[<<"llms", m>>])
     /\ Named(c, "profiles") \subseteq Named(c, "routes")

---------------------------------------------------------------------------
(* The supervisor. A signal may arrive between any two of its steps; its    *)
(* handler asks every recorded child that still runs to stop.               *)

StartupAsk(p, recorded) == [c \in Children |-> IF c \in recorded /\ p[c] = "up" THEN "asked" ELSE p[c]]

Signal ==
  /\ sup # "exited"
  /\ stop' = TRUE /\ proc' = StartupAsk(proc, kids)
  /\ UNCHANGED <<base, modes, sup, kids, unasked, serviceVars, mcpVars, worldVars, ticks, probe, listed>>

(* Popen, then append: the handler misses a child not recorded yet.         *)
Popen(c, from, to) ==
  /\ sup = from /\ sup' = to
  /\ proc' = [proc EXCEPT ![c] = "up"]
  /\ svc' = IF c = "tools" THEN "loading" ELSE svc
  /\ UNCHANGED <<base, modes, stop, kids, unasked, chain, conf, startupPolicy, mcpVars, worldVars, ticks, probe, listed>>

Record(c, from, to) ==
  /\ sup = from /\ sup' = to /\ kids' = kids \cup {c}
  /\ UNCHANGED <<base, modes, stop, unasked, proc, serviceVars, mcpVars, worldVars, ticks, probe, listed>>

SupGoes(to) ==
  /\ sup' = to
  /\ UNCHANGED <<base, modes, stop, kids, unasked, proc, serviceVars, mcpVars, worldVars, ticks, probe, listed>>

(* The wait for the tools' /health: answered only while the service serves. *)
Alive == proc["tools"] \in {"up", "asked"}
StartupServing == Alive /\ svc \in {"serving", "reaping"}

AwaitHealth ==
  /\ sup = "waiting"
  /\ \/ stop /\ SupGoes("ending")
     \/ ~stop /\ proc["tools"] = "dead" /\ SupGoes("ending")
     \/ ~stop /\ StartupServing /\ SupGoes("checked")
     \/ ~stop /\ ~StartupServing /\ proc["tools"] # "dead" /\ SupGoes("ending") \* 120 seconds are over

(* A signal may still come after the check and before the Rust child runs.  *)
Checked ==
  /\ sup = "checked"
  /\ IF stop THEN SupGoes("ending") ELSE SupGoes("starting")

Watch ==
  /\ sup = "watching"
  /\ stop \/ \E c \in Children : proc[c] = "dead"
  /\ SupGoes("ending")

(* finally: ask every child, then wait for each until the deadline.         *)
Finally ==
  /\ sup = "ending" /\ sup' = "reaping" /\ stop' = TRUE
  /\ proc' = StartupAsk(proc, kids)
  /\ UNCHANGED <<base, modes, kids, unasked, serviceVars, mcpVars, worldVars, ticks, probe, listed>>

Kill(c) ==
  /\ sup = "reaping" /\ c \in kids /\ proc[c] \notin {"none", "dead"}
  /\ proc' = [proc EXCEPT ![c] = "dead"]
  /\ unasked' = (unasked \/ proc[c] = "up")
  /\ svc' = IF c = "tools" THEN "gone" ELSE svc
  /\ probe' = IF c = "tools" THEN NoProbe ELSE probe
  /\ UNCHANGED <<base, modes, sup, stop, kids, chain, conf, startupPolicy, mcpVars, worldVars, ticks, listed>>

Exit ==
  /\ sup = "reaping" /\ \A c \in kids : proc[c] = "dead"
  /\ SupGoes("exited")

(* A child ends by itself (a fault) or because it was asked.                *)
Dies(c) ==
  /\ \/ proc[c] = "asked" /\ ~(c = "tools" /\ StartupServing)
     \/ proc[c] = "up" /\ startupFaults < StartupMaxFaults
  /\ proc' = [proc EXCEPT ![c] = "dead"]
  /\ startupFaults' = IF proc[c] = "up" THEN startupFaults + 1 ELSE startupFaults
  /\ svc' = IF c = "tools" THEN "gone" ELSE svc
  /\ probe' = IF c = "tools" THEN NoProbe ELSE probe
  /\ UNCHANGED <<base, modes, supervisorVars, chain, conf, startupPolicy, mcpVars, up, dep, drain, hurt, ticks, listed>>

---------------------------------------------------------------------------
(* The tool service.                                                        *)

ServiceGoes(place) ==
  /\ svc' = place
  /\ proc' = IF place = "gone" THEN [proc EXCEPT !["tools"] = "dead"] ELSE proc
  /\ UNCHANGED <<base, modes, supervisorVars, mcpVars, worldVars, ticks, probe, listed>>

ReadFile ==
  /\ Alive /\ svc = "loading" /\ conf = NoConf
  /\ IF chain # <<>> /\ Following = NoFile
       THEN ServiceGoes("configuring") /\ conf' = Loaded /\ UNCHANGED <<chain, startupPolicy>>
     ELSE IF Refused THEN ServiceGoes("gone") /\ UNCHANGED <<chain, conf, startupPolicy>>
     ELSE ServiceGoes("loading") /\ chain' = Append(chain, Following) /\ UNCHANGED <<conf, startupPolicy>>

Configure ==
  /\ Alive /\ svc = "configuring" /\ ServiceGoes("validating")
  /\ startupPolicy' = TRUE /\ UNCHANGED <<chain, conf>>

Validate ==
  /\ Alive /\ svc = "validating"
  /\ ServiceGoes(IF Valid(conf) THEN "discovering" ELSE "gone")
  /\ UNCHANGED <<chain, conf, startupPolicy>>

(* MCP belongs to this service only if the deployment leaves authorization  *)
(* to Python; otherwise the Rust agent owns it.                             *)
Enabled == modes.owner = "python"
Configured(groups) == {g \in groups : <<"groups", g>> \in DOMAIN conf}

(* _connection under the key's lock: a live connection is used again, a     *)
(* dead one is replaced; session() refreshes its last use.                  *)
Discovered(c, o) ==
  [k \in DOMAIN c |->
     IF ~Enabled \/ k[1] \notin Configured(Groups) \/ k[2] # o \/ c[k] = "ready" THEN c[k]
     ELSE IF up[k[1]] THEN "ready" ELSE "none"]
Used(o) == [k \in DOMAIN age |-> IF k[2] = o THEN 0 ELSE age[k]]

(* The lifespan discovers every group before the service answers.           *)
Discover ==
  /\ Alive /\ svc = "discovering" /\ svc' = "serving"
  /\ startupConn' = Discovered(startupConn, "readiness") /\ age' = Used("readiness")
  /\ UNCHANGED <<base, modes, supervisorVars, proc, chain, conf, startupPolicy, worldVars, ticks, probe, listed>>

(* The reaper closes idle connections, then reconnects the readiness ones.  *)
ReapClose ==
  /\ Alive /\ Enabled /\ svc = "serving" /\ ticks < MaxTicks
  /\ startupConn' = [k \in DOMAIN startupConn |-> IF age[k] >= IdleTicks THEN "none" ELSE startupConn[k]]
  /\ age' = [k \in DOMAIN age |-> IF age[k] >= IdleTicks THEN 0 ELSE age[k] + 1]
  /\ ticks' = ticks + 1 /\ svc' = "reaping"
  /\ UNCHANGED <<base, modes, supervisorVars, proc, chain, conf, startupPolicy, worldVars, probe, listed>>

(* The reconnection as it would be if it did not count as a use.            *)
ReapDiscoverUnused ==
  /\ Alive /\ svc = "reaping" /\ svc' = "serving"
  /\ startupConn' = Discovered(startupConn, "readiness")
  /\ UNCHANGED <<base, modes, supervisorVars, proc, chain, conf, startupPolicy, worldVars, age, ticks, probe, listed>>

ReapDiscover ==
  /\ Alive /\ svc = "reaping" /\ svc' = "serving"
  /\ startupConn' = Discovered(startupConn, "readiness") /\ age' = Used("readiness")
  /\ UNCHANGED <<base, modes, supervisorVars, proc, chain, conf, startupPolicy, worldVars, ticks, probe, listed>>

(* Asked to stop, the serving process closes its connections and clients in *)
(* the lifespan's finally and exits.                                        *)
Shutdown ==
  /\ proc["tools"] = "asked" /\ StartupServing
  /\ svc' = "gone" /\ proc' = [proc EXCEPT !["tools"] = "dead"]
  /\ startupConn' = [k \in DOMAIN startupConn |-> "none"]
  /\ probe' = NoProbe /\ listed' = NoList
  /\ UNCHANGED <<base, modes, supervisorVars, chain, conf, startupPolicy, age, worldVars, ticks>>

---------------------------------------------------------------------------
(* The catalogue a run is given.                                            *)

Folded(names) == {Fold[n] : n \in names}

(* _schemas: exposure compares trimmed, casefolded names; one operation     *)
(* without a description makes the whole group unavailable.                 *)
Exposed(g) ==
  LET s == conf[<<"groups", g>>]
  IN {t \in ServerTools[g] : IF s.include # {} THEN Fold[t] \in Folded(s.include)
                                               ELSE Fold[t] \notin Folded(s.exclude)}

ConnectTool == {"connect"}

(* catalogue(initial): a deferred group without initial tools is not even   *)
(* connected; with them, only they and the connect tool are shown.          *)
Catalogue(g) ==
  LET s == conf[<<"groups", g>>]
  IN IF s.deferred /\ s.initial = <<>> THEN ConnectTool
     ELSE IF ~up[g] /\ startupConn[g, "user"] # "ready" THEN ConnectTool
     ELSE IF Exposed(g) \cap Undescribed # {} THEN ConnectTool
     ELSE IF s.deferred THEN (Exposed(g) \cap Range(s.initial)) \cup ConnectTool
     ELSE Exposed(g)

Catalog(g) ==
  /\ StartupServing /\ Enabled /\ listed = NoList
  /\ <<"groups", g>> \in DOMAIN conf
  /\ Contains(Setting(conf, <<"workflow", "tools">>, <<>>), g) \* else 400
  /\ listed' = [group |-> g, tools |-> Catalogue(g)]
  /\ IF conf[<<"groups", g>>].deferred /\ conf[<<"groups", g>>].initial = <<>>
       THEN UNCHANGED mcpVars
       ELSE /\ startupConn' = [startupConn EXCEPT ![<<g, "user">>] = Discovered(startupConn, "user")[g, "user"]]
            /\ age' = [age EXCEPT ![<<g, "user">>] = 0]
  /\ UNCHANGED <<base, modes, supervisorVars, proc, serviceVars, worldVars, ticks, probe>>

CatalogRead ==
  /\ listed # NoList /\ listed' = NoList
  /\ UNCHANGED <<base, modes, supervisorVars, proc, serviceVars, mcpVars, worldVars, ticks, probe>>

---------------------------------------------------------------------------
(* Readiness. Every stage may find a world different from the one before.   *)

(* capability_status: a group is available through anyone's live connection.*)
Available == {g \in Groups : \E o \in StartupOwners : startupConn[g, o] = "ready"}
StartupAnswered(answer, reason) == [NoProbe EXCEPT !.answer = answer, !.reason = reason]

ProbeStep(next) ==
  /\ probe' = next
  /\ UNCHANGED <<base, modes, supervisorVars, proc, serviceVars, mcpVars, worldVars, ticks, listed>>

ProbeStart ==
  /\ StartupServing /\ probe = NoProbe
  /\ IF drain THEN ProbeStep(StartupAnswered("unready", "draining"))
     ELSE IF ~startupPolicy THEN ProbeStep(StartupAnswered("unready", "policy"))
     ELSE IF Enabled /\ Required \ Available # {}
       THEN ProbeStep([StartupAnswered("unready", "mcp") EXCEPT !.missing = Required \ Available])
     ELSE ProbeStep([NoProbe EXCEPT !.at = "redis", !.soft = Enabled /\ Configured(Groups) \ Available # {}])

ProbeRedis ==
  /\ StartupServing /\ probe.at = "redis"
  /\ IF dep["redis"] # "up" THEN ProbeStep(StartupAnswered("unready", "redis"))
     ELSE ProbeStep([probe EXCEPT !.at = "memory"])

(* Memory is optional unless the deployment says otherwise: an outage shows *)
(* in the answer and does not take the container out of service.            *)
ProbeMemory ==
  /\ StartupServing /\ probe.at = "memory"
  /\ IF modes.memory = "invalid" THEN ProbeStep(StartupAnswered("unready", "mode"))
     ELSE IF dep["memory"] = "up" THEN ProbeStep([probe EXCEPT !.at = "rag"])
     ELSE IF modes.memory = "required" THEN ProbeStep(StartupAnswered("unready", "memory"))
     ELSE ProbeStep([probe EXCEPT !.at = "rag", !.soft = TRUE])

(* _list_collections: the listing and a description within one deadline.    *)
ListCollections == IF dep["milvus"] = "down" THEN {} ELSE {dep["milvus"]}

(* An unreachable store and one that lacks a required collection count the  *)
(* same way.                                                                *)
ProbeRag ==
  /\ StartupServing /\ probe.at = "rag"
  /\ LET bad == modes.rag # "disabled" /\ "up" \notin ListCollections
     IN IF modes.rag = "invalid" THEN ProbeStep(StartupAnswered("unready", "mode"))
        ELSE IF bad /\ modes.rag = "required" THEN ProbeStep(StartupAnswered("unready", "rag"))
        ELSE ProbeStep(StartupAnswered(IF bad \/ probe.soft THEN "degraded" ELSE "ready", "none"))

ProbeRead ==
  /\ probe.answer # "none"
  /\ ProbeStep(NoProbe)

---------------------------------------------------------------------------
(* The world: outages and recoveries of what the service depends on. A      *)
(* server that goes away may or may not end the connections to it.          *)

ServerDown(g) ==
  /\ startupFaults < StartupMaxFaults /\ up[g]
  /\ up' = [up EXCEPT ![g] = FALSE] /\ hurt' = hurt \cup {g} /\ startupFaults' = startupFaults + 1
  /\ \E lost \in SUBSET StartupOwners :
       startupConn' = [k \in DOMAIN startupConn |-> IF k[1] = g /\ k[2] \in lost THEN "none" ELSE startupConn[k]]
  /\ UNCHANGED <<base, modes, supervisorVars, proc, serviceVars, age, dep, drain, ticks, probe, listed>>

ServerUp(g) ==
  /\ ~up[g] /\ up' = [up EXCEPT ![g] = TRUE]
  /\ UNCHANGED <<base, modes, supervisorVars, proc, serviceVars, mcpVars, dep, drain, hurt, startupFaults, ticks, probe, listed>>

DepDown(d) ==
  /\ startupFaults < StartupMaxFaults /\ dep[d] = "up"
  /\ \E s \in IF d = "milvus" THEN {"down", "partial"} ELSE {"down"} : dep' = [dep EXCEPT ![d] = s]
  /\ startupFaults' = startupFaults + 1
  /\ UNCHANGED <<base, modes, supervisorVars, proc, serviceVars, mcpVars, up, drain, hurt, ticks, probe, listed>>

DepUp(d) ==
  /\ dep[d] # "up" /\ dep' = [dep EXCEPT ![d] = "up"]
  /\ UNCHANGED <<base, modes, supervisorVars, proc, serviceVars, mcpVars, up, drain, hurt, startupFaults, ticks, probe, listed>>

Drain ==
  /\ ~drain /\ drain' = TRUE
  /\ UNCHANGED <<base, modes, supervisorVars, proc, serviceVars, mcpVars, up, dep, hurt, startupFaults, ticks, probe, listed>>

StartupNext ==
  \/ Signal \/ Drain \/ Shutdown
  \/ Popen("tools", "spawning", "recording") \/ Record("tools", "recording", "waiting")
  \/ AwaitHealth \/ Checked
  \/ Popen("rust", "starting", "recordingRust") \/ Record("rust", "recordingRust", "watching")
  \/ Watch \/ Finally \/ Exit
  \/ \E c \in Children : Kill(c) \/ Dies(c)
  \/ ReadFile \/ Configure \/ Validate \/ Discover \/ ReapClose \/ ReapDiscover
  \/ \E g \in Groups : Catalog(g) \/ ServerDown(g) \/ ServerUp(g)
  \/ CatalogRead
  \/ ProbeStart \/ ProbeRedis \/ ProbeMemory \/ ProbeRag \/ ProbeRead
  \/ \E d \in Deps : DepDown(d) \/ DepUp(d)

StartupSpec == StartupInit /\ [][StartupNext]_startupVars

---------------------------------------------------------------------------
(* The Rust agent only ever runs behind a tool service that had a complete, *)
(* valid configuration and its approval policy when it answered /health.    *)
RustBehindTools ==
  proc["rust"] # "none" => Valid(conf) /\ startupPolicy

(* Whatever order signals, crashes and the recording of children come in,   *)
(* no child outlives the supervisor and none is killed before it was asked  *)
(* to stop.                                                                 *)
ChildrenEnd ==
  /\ sup = "exited" => \A c \in Children : proc[c] \in {"none", "dead"}
  /\ ~unasked

(* The effective value of every setting is the one of the nearest file, on  *)
(* the way from the root to its last base, that makes it.                   *)
NearestFileWins ==
  conf # NoConf =>
    \A p \in DOMAIN conf :
      \E i \in 1..Len(chain) :
        /\ p \in DOMAIN Defines[chain[i]] /\ conf[p] = Defines[chain[i]][p]
        /\ \A j \in 1..(i - 1) : p \notin DOMAIN Defines[chain[j]]

(* A configured group is reported missing only if its server was down:      *)
(* the reaper's own housekeeping never takes the container out of service.  *)
NoFalseAlarm ==
  probe.reason = "mcp" => Configured(probe.missing) \subseteq hurt

(* A run never sees an excluded operation, under any spelling, and of a     *)
(* deferred group only its initial operations and the connect tool.         *)
ListedIsExposed ==
  listed # NoList =>
    LET s == conf[<<"groups", listed.group>>]
        tools == listed.tools \ ConnectTool
    IN /\ s.include = {} => Folded(tools) \cap Folded(s.exclude) = {}
       /\ s.deferred => tools \subseteq Range(s.initial)

(* A container starts, serves and stops as its supervisor promises: the     *)
(* conjunction of the five facts above.                                     *)
ContainerSound ==
  RustBehindTools /\ ChildrenEnd /\ NearestFileWins /\ NoFalseAlarm /\ ListedIsExposed
=============================================================================
