----------------------------- MODULE MCServices -----------------------------
(***************************************************************************)
(* The services behind the agent: memory, remote grants, approvals,        *)
(* receipts, migration and import of stored data, start-up and access      *)
(* control of the backend, the feed of the autonomous agent, the operator's *)
(* scripts, and the evaluation of a candidate backend.                     *)
(* They share no state, so a behaviour is about one of them.               *)
(***************************************************************************)
EXTENDS Memory, Grants, Approval, Idempotency, CollectionMigration,
        ProfileImport, Startup, Access, Feed, Operations, ToolEvaluation, TLC

VARIABLE component  \* the component this behaviour is about

(* A replica with a turn and the clearing, one with the rest.               *)
MCHome == [p \in Requests |-> IF p \in {"t1", "k1"} THEN "a" ELSE "b"]

(* A worker in each replica.                                                *)
MCAt == [w \in Workers |-> IF w = "b1" THEN "b" ELSE "a"]

(* Two calls with equal arguments, one with others.                         *)
MCArgs == [c \in ReceiptCalls |-> IF c = "p1" THEN "plain" ELSE "zero"]

(* Two replacements of a one-document profile, then an addition.            *)
MCMode == [i \in Imports |-> IF i = "i3" THEN "append" ELSE "replace"]
MCLabels == [i \in Imports |-> IF i = "i1" THEN {"a", "b"} ELSE {"a"}]
MCOld == <<<<"stable", "a">>>>
MCTurns == {<<5, 4, 2>>}

(* Configuration files with a base, with one that inherits itself and one    *)
(* that stands alone; a server with a tool the group excludes under another  *)
(* spelling.                                                                *)
Group(deferred, first) ==
  [deferred |-> deferred, described |-> TRUE, initial |-> first, include |-> {},
   exclude |-> {"delete"}]
Function(kind, database, collection) ==
  [kind |-> kind, database |-> database, collection |-> collection]
Llm == [endpoint |-> "http", retries |-> 1, timeout |-> 2]
Rust == <<"workflow", "type">> :> "daedalus_rust_agent"
MCDefines ==
  [root |-> <<"workflow", "tools">> :> <<"f1", "g1">>
              @@ <<"functions", "f1">> :> Function("nat_nv_ingest", "default", "uploads")
              @@ <<"groups", "g1">> :> Group(TRUE, <<"read">>),
   mid |-> <<"workflow", "llm">> :> "m1"
             @@ <<"functions", "f1">> :> Function("user_interaction", "", ""),
   bottom |-> Rust @@ <<"workflow", "llm">> :> "m2" @@ <<"llms", "m1">> :> Llm,
   whole |-> Rust @@ <<"workflow", "llm">> :> "m1" @@ <<"llms", "m1">> :> Llm
               @@ <<"workflow", "tools">> :> <<"g1">> @@ <<"groups", "g1">> :> Group(FALSE, <<>>)]
Deployed(root, middle, whole, memory, rag, owner) ==
  [base |-> [root |-> root, mid |-> middle, bottom |-> "NoFile", whole |-> whole],
   modes |-> [memory |-> memory, rag |-> rag, owner |-> owner]]
MCDeployments ==
  {Deployed("mid", "bottom", "NoFile", "degraded", "required", "python"),
   Deployed("mid", "root", "NoFile", "degraded", "required", "python"),
   Deployed("bottom", "NoFile", "NoFile", "degraded", "required", "python"),
   Deployed("whole", "NoFile", "bottom", "required", "degraded", "python"),
   Deployed("whole", "NoFile", "NoFile", "degraded", "invalid", "rust")}
MCServerTools == [g1 |-> {"read", "Delete", "list"}]
MCFold == [read |-> "read", list |-> "list", delete |-> "delete", Delete |-> "delete"]

(* A request again and again on each of two connections; arguments with both *)
(* ways of a choice, neither, an empty value, and a missing field.          *)
MCConnection == [r1 |-> "c1", r2 |-> "c2"]
MCAccessDeployments ==
  {[token |-> TRUE, insecure |-> TRUE], [token |-> FALSE, insecure |-> FALSE],
   [token |-> FALSE, insecure |-> TRUE]}
MCGroupOf == [t1 |-> "t1", g__x |-> "g", h__y |-> "h"]
Takes(required, optional, either) ==
  [required |-> required, optional |-> optional, one_of |-> either]
MCContract ==
  [execute |-> Takes({}, {"env"}, {"argv", "command"}),
   write |-> Takes({"path", "content"}, {}, {}), script |-> Takes({"path"}, {}, {})]
MCFields == {"env", "argv", "command", "path", "content"}
Gives(set, empty) ==
  [f \in MCFields |-> IF f \in empty THEN "empty" ELSE IF f \in set THEN "value" ELSE "absent"]
MCArguments ==
  {Gives({"argv", "command"}, {}), Gives({"env", "argv"}, {}), Gives({"argv"}, {"command"}),
   Gives({}, {"command"}), Gives({"path"}, {"content"}), Gives({"content"}, {"path"}),
   Gives({"command", "path"}, {}), Gives({"path"}, {})}

(* Reports on one story under two threads, with and without an address, a    *)
(* numbered release, and updates of the first item.                         *)
Story == <<"chip", "launch", "berlin">>
Angle == <<"chip", "launch", "berlin", "price">>
Patch == <<"chip", "launch", "berlin", "v2">>
MCDigits == {"v2"}
Report(title, text, url, thread) ==
  [title |-> title, text |-> text, url |-> url, thread |-> thread,
   update |-> FALSE, target |-> 0, summary |-> NoSummary]
Newer(text, url, of, summary) ==
  [title |-> 1, text |-> text, url |-> url, thread |-> <<>>, update |-> TRUE,
   target |-> of, summary |-> summary]
MCCandidates ==
  {Report(1, x, u, k) : x \in {1, 2}, u \in {NoUrl, "a"}, k \in {<<>>, Story, Angle}}
    \cup {Report(2, 1, NoUrl, Patch), Newer(2, "a", 1, ShortSummary)}
    \cup {Newer(x, u, 1, s) : x \in {1, 2}, u \in {"a", "b"}, s \in {"s1", "s2"}}

(* Servers asked directly and from a pod, and declarations that cannot be    *)
(* asked; the two other checks.                                              *)
Server(url, auth, custom, unresolved) ==
  [url |-> url, auth |-> auth, custom |-> custom, unresolved |-> unresolved, include |-> {"read"}]
MCServers ==
  [s1 |-> Server("remote", "key", TRUE, FALSE), s2 |-> Server("cluster", "exact_key", FALSE, FALSE),
   s3 |-> Server("cluster", "key", FALSE, FALSE), s4 |-> Server("unset", "none", FALSE, FALSE),
   s5 |-> Server("remote", "missing", FALSE, TRUE)]
MCOther == [p1 |-> "storage", p2 |-> "rag"]
Service(image, build) == [image |-> image, build |-> build]
Upstream(image, where) == [image |-> image, modes |-> where, pinned |-> TRUE]
Inventory ==
  [platforms |-> {"amd64", "arm64"},
   upstream |-> {Upstream("redis", {"compose", "helm_default", "helm_custom"}),
                 Upstream("mock", {"e2e"})},
   derived |-> {[image |-> "proxy", services |-> [compose |-> {"proxy"}, e2e |-> {}]]},
   built |-> [web |-> FALSE, db |-> TRUE],
   services |-> [compose |-> [web |-> Service("d_web", TRUE), db |-> Service("d_db", TRUE),
                              proxy |-> Service("proxy", TRUE), cache |-> Service("redis", FALSE)],
                 e2e |-> [web |-> Service("d_web", TRUE), peer |-> Service("mock", FALSE)]],
   charts |-> [helm_default |-> {"web", "db", "redis"}, helm_custom |-> {"web", "redis"}]]
(* The inventory of the deployment, and some that miss one thing each.      *)
MCImageInventories ==
  {Inventory, [Inventory EXCEPT !.services.e2e.peer.image = "new"],
   [Inventory EXCEPT !.platforms = {"amd64"}], [Inventory EXCEPT !.charts.helm_custom = {}],
   [Inventory EXCEPT !.services.compose.proxy.build = FALSE],
   [Inventory EXCEPT !.upstream = {[u EXCEPT !.pinned = FALSE] : u \in @}]}

(* A case of each kind that is judged apart, two of them in the paired suite; *)
(* what a backend says of the calls of one request, streams that succeed,    *)
(* time out, or use another tool; and reads of two sources and a missing one. *)
FindTool == <<"find", "a">>
ReadTool == <<"read", "a">>
ClockTool == <<"clock", "">>
Case(stratum, calls, unordered) ==
  [stratum |-> stratum, calls |-> calls, unordered |-> unordered]
MCCases ==
  {Case("stages", <<FindTool, ReadTool>>, FALSE), Case("free", <<FindTool, ReadTool>>, TRUE),
    Case("error", <<ReadTool>>, FALSE), Case("dependent", <<FindTool, ReadTool>>, FALSE)}
Begins(id, tool) ==
  [start |-> TRUE, id |-> id, tool |-> tool, mine |-> TRUE, missing |-> FALSE, carries |-> FALSE]
Ends(id, missing) ==
  [start |-> FALSE, id |-> id, tool |-> <<"", "">>, mine |-> TRUE,
   missing |-> missing, carries |-> TRUE]
MCHeard ==
  {Begins(i, t) : i \in 1..2, t \in {FindTool, ReadTool}}
    \cup {Ends(i, m) : i \in 1..2, m \in BOOLEAN}
Stream(events, failure, words) ==
  [events |-> events, failure |-> failure, answer |-> words, terminal |-> <<"stop">>, fresh |-> TRUE]
Good == <<Begins(1, FindTool), Ends(1, FALSE), Begins(2, ReadTool), Ends(2, TRUE)>>
MCStreams ==
  {Stream(Good, "none", "right"), Stream(Good, "ReadTimeout", "right"),
   Stream(<<Begins(1, ClockTool), Ends(1, TRUE)>>, "none", "right")}
MCSuite == <<Case("stages", <<FindTool, ReadTool>>, FALSE), Case("free", <<FindTool, ReadTool>>, TRUE)>>
MCOverlays == {<<>>, [max_iterations |-> 8], [max_iterations |-> 0], [llm |-> 1]}
Fetch(u, preview, ref, labels, error) ==
  [tool |-> "webscrape", source |-> u, preview |-> preview, reference |-> ref,
   labels |-> labels, error |-> error]
Retrieve(ref, labels) ==
  [tool |-> "retriever", source |-> "none", preview |-> FALSE, reference |-> ref,
   labels |-> labels, error |-> FALSE]
MCReads ==
  {Fetch("alpha", TRUE, "r1", {}, FALSE), Fetch("alpha", TRUE, "r1", {"alpha"}, FALSE)}
    \cup {Fetch("bravo", TRUE, r, {}, FALSE) : r \in {"r1", "r2"}}
    \cup {Fetch("charlie", FALSE, "none", {}, e) : e \in BOOLEAN}
    \cup {Retrieve(r, l) : r \in {"r1", "r2"}, l \in {{"alpha"}, {"bravo"}}}

vars == <<component, memoryVars, centerVars, grantVars, approvalVars,
          idemVars, migrationVars, importVars, startupVars, accessVars,
          feedVars, operationVars, evaluationVars>>

(* The other components rest in an initial state.  The rows of a collection *)
(* are interchangeable: one of them is in it.                               *)
Init ==
  /\ component \in {"memory", "center", "grants", "approval", "receipts",
                   "migration", "import", "startup", "access", "feed", "operations", "evaluation"}
  /\ MemoryInit
  /\ CenterInit /\ (component # "center" => mode = "hindsight")
  /\ GrantsInit
  /\ ApprovalInit /\ (component # "approval" => policy = [c \in Calls |-> "read_only"])
  /\ IdemInit /\ (component # "receipts" => receipt = [k \in Keys |-> NoReceipt])
  /\ MigrationInit /\ "p" \in source.rows
  /\ (component # "migration" => source.rows = {"p"} /\ ~target.exists /\ audit = <<>>)
  /\ ImportInit /\ (component # "import" => stubborn)
  /\ StartupInit /\ (component # "startup" => modes.memory = "required")
  /\ AccessInit /\ (component # "access" => deployed.token)
  /\ FeedInit /\ (component # "feed" => cap = 1)
  /\ OperationsInit /\ (component # "operations" => OperationsRest)
  /\ EvaluationInit /\ (component # "evaluation" => EvaluationRest)

MemoryStep ==
  /\ component = "memory" /\ MemoryNext
  /\ UNCHANGED <<component, centerVars, grantVars, approvalVars, idemVars,
                 migrationVars, importVars, startupVars, accessVars,
                 feedVars, operationVars, evaluationVars>>

CenterStep ==
  /\ component = "center" /\ CenterNext
  /\ UNCHANGED <<component, memoryVars, grantVars, approvalVars, idemVars,
                 migrationVars, importVars, startupVars, accessVars,
                 feedVars, operationVars, evaluationVars>>

GrantsStep ==
  /\ component = "grants" /\ GrantsNext
  /\ UNCHANGED <<component, memoryVars, centerVars, approvalVars, idemVars,
                 migrationVars, importVars, startupVars, accessVars,
                 feedVars, operationVars, evaluationVars>>

ApprovalStep ==
  /\ component = "approval" /\ ApprovalNext
  /\ UNCHANGED <<component, memoryVars, centerVars, grantVars, idemVars,
                 migrationVars, importVars, startupVars, accessVars,
                 feedVars, operationVars, evaluationVars>>

ReceiptStep ==
  /\ component = "receipts" /\ IdemNext
  /\ UNCHANGED <<component, memoryVars, centerVars, grantVars, approvalVars,
                 migrationVars, importVars, startupVars, accessVars,
                 feedVars, operationVars, evaluationVars>>

MigrationStep ==
  /\ component = "migration" /\ MigrationNext
  /\ UNCHANGED <<component, memoryVars, centerVars, grantVars, approvalVars,
                 idemVars, importVars, startupVars, accessVars,
                 feedVars, operationVars, evaluationVars>>

ImportStep ==
  /\ component = "import" /\ ImportNext
  /\ UNCHANGED <<component, memoryVars, centerVars, grantVars, approvalVars,
                 idemVars, migrationVars, startupVars, accessVars,
                 feedVars, operationVars, evaluationVars>>

StartupStep ==
  /\ component = "startup" /\ StartupNext
  /\ UNCHANGED <<component, memoryVars, centerVars, grantVars, approvalVars,
                 idemVars, migrationVars, importVars, accessVars,
                 feedVars, operationVars, evaluationVars>>

AccessStep ==
  /\ component = "access" /\ AccessNext
  /\ UNCHANGED <<component, memoryVars, centerVars, grantVars, approvalVars,
                 idemVars, migrationVars, importVars, startupVars,
                 feedVars, operationVars, evaluationVars>>

FeedStep ==
  /\ component = "feed" /\ FeedNext
  /\ UNCHANGED <<component, memoryVars, centerVars, grantVars, approvalVars,
                 idemVars, migrationVars, importVars, startupVars,
                 accessVars, operationVars, evaluationVars>>

OperationsStep ==
  /\ component = "operations" /\ OperationsNext
  /\ UNCHANGED <<component, memoryVars, centerVars, grantVars, approvalVars,
                 idemVars, migrationVars, importVars, startupVars,
                 accessVars, feedVars, evaluationVars>>

EvaluationStep ==
  /\ component = "evaluation" /\ EvaluationNext
  /\ UNCHANGED <<component, memoryVars, centerVars, grantVars, approvalVars,
                 idemVars, migrationVars, importVars, startupVars,
                 accessVars, feedVars, operationVars>>

Next ==
  \/ MemoryStep
  \/ CenterStep
  \/ GrantsStep
  \/ ApprovalStep
  \/ ReceiptStep
  \/ MigrationStep
  \/ ImportStep
  \/ StartupStep
  \/ AccessStep
  \/ FeedStep
  \/ OperationsStep
  \/ EvaluationStep

Spec == Init /\ [][Next]_vars
-----------------------------------------------------------------------------
(* What acts for a user is authorised and happens once: a revoked grant     *)
(* never comes back, unless an operation that outlived its lock wrote it,   *)
(* and a call uses the grant it was made with (MCP grants), an approval is  *)
(* spent by one act, the one approved (mcpApproval, the execute route), and *)
(* equal calls with one key have one effect (nat_helpers receipts).         *)
ActsAuthorised ==
  /\ component = "grants" => GrantNeverComesBack /\ CallsUseTheirGrant
  /\ component = "approval" => OneActPerApproval /\ ExactlyWhatWasApproved
  /\ component = "receipts" => EffectOnce

(* Once a Clear is acknowledged nothing of it is cached or given to a turn  *)
(* that begins later, whatever was under way at any replica, and the memory *)
(* is initialized once (memory_api, the session brief, the bootstrap lock). *)
MemoryKept == component = "memory" => ClearIsFinal

(* What the memory did not answer is not taken for an empty memory; an      *)
(* import that reports success replaced all of the profile or added all of  *)
(* its documents; a migrated collection reported verified is the source's,  *)
(* under the policy it had (milvus_collection_migration); the container     *)
(* serves only with all its children and as configured (entrypoint,         *)
(* start-up); a request acts for its own user, within its contract          *)
(* (authorization); and the feed repeats nothing, keeps what its runs were  *)
(* told is stored, and drops only its oldest items (autonomous_agent); and  *)
(* the operator's scripts and evaluations report only what they saw.        *)
ServiceSound ==
  /\ []( /\ component = "center" => MemoryAnswers
         /\ component = "import" => MemoryImportsKept
         /\ component = "migration" => VerifiedIsExact /\ PolicyRestored
         /\ component = "startup" => ContainerSound
         /\ component = "access" => AccessSound
         /\ component = "feed" => NoRepeat /\ NoSimilarInWindow
         /\ component = "operations" => OperationsSound
         /\ component = "evaluation" => EvaluationSound)
  /\ StoredAreRetained
=============================================================================
