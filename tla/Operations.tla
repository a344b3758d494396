----------------------------- MODULE Operations -----------------------------
(***************************************************************************)
(* The operator's scripts: the bundle of keys that signs images            *)
(* (create_content_credentials.py), the probes before a rollout            *)
(* (check_mcp_servers.py, check_document_object_storage.py,                *)
(* check_rag_backend.py), the copies of the RAG secrets                    *)
(* (sync_rag_secrets.py) and the scan of the shipped images                *)
(* (check_image_inventory.py).  Other runs of a script, the cluster and    *)
(* the services it asks go on between any two of its calls.                *)
(***************************************************************************)
EXTENDS Naturals, FiniteSets, FiniteSetsExt

CONSTANTS
  Makers,       \* runs of create_content_credentials.py
  Ensuring,     \* those with --ensure
  MaxKills,     \* runs that die without cleaning up
  McpServers,   \* name of a server -> how it is declared
  OtherProbes,  \* other checks before a rollout -> "storage" or "rag"
  Tools,        \* tools a server may offer
  MaxRotations, \* replacements of a source secret
  ImageInventories   \* inventories, each with what the deployment files render to

VARIABLES
  task,       \* the script this behaviour is about
  dirs,       \* credential directories: output, and of each run pending and backup
  making,     \* how far a run is
  bundleLock, \* the run that holds the lock file
  lapsed,     \* identities that are no longer valid
  installed,  \* history: identities that stood at the output as a working bundle
  interfered, \* history: a run without the lock overlapped one that held it
  kills,      \* runs that died
  rollout,    \* the check before a rollout
  check,      \* how far it is, or its verdict
  script,     \* how far the script in its pod is
  pod,        \* its pod exists
  exchange,   \* what the server answered it
  object,     \* the storage rollout's object exists
  mishap,     \* history: a reply or a deletion of the storage probe was lost
  sources,    \* versions of the authoritative secrets, 0 when a key is missing
  targets,    \* versions copied to the workload's secrets
  syncing,    \* the run of sync_rag_secrets.py
  scan        \* the run of check_image_inventory.py

credentialVars == <<dirs, making, bundleLock, lapsed, installed, interfered>>
probeVars == <<rollout, check, script, pod, exchange, object, mishap>>
secretVars == <<sources, targets, syncing>>
operationVars == <<task, credentialVars, kills, probeVars, secretVars, scan>>
-----------------------------------------------------------------------------
(* Credentials.  A directory holds the parts of an identity, named by the   *)
(* run that generated it: the chain of certificates, the signing key, the   *)
(* report and settings derived from them; and other files, its root key's   *)
(* or somebody else's.                                                      *)

Absent == [on |-> FALSE, chain |-> "none", key |-> "none", report |-> "none", rest |-> FALSE]
EmptyDir == [Absent EXCEPT !.on = TRUE]
Bundle(i) == [EmptyDir EXCEPT !.chain = i, !.key = i, !.report = i, !.rest = TRUE]

MakerEnded == {"done", "reused", "refused", "failed", "dead"}

\* What may stand at the output before: also an expired or incomplete bundle.
FoundAtStart ==
  {Absent, EmptyDir, Bundle("old"), [Bundle("old") EXCEPT !.key = "none"],
   [Bundle("old") EXCEPT !.report = "none"], [EmptyDir EXCEPT !.rest = TRUE]}

\* validate_bundle: the certificates are in force, the key is theirs, and the
\* application signs with them.
Working(d) == d.chain # "none" /\ d.chain = d.key /\ d.chain \notin lapsed

\* The names that mark a directory as a credential bundle.
Unrelated(d) == d.rest /\ {d.chain, d.key, d.report} = {"none"}

CredentialsInit ==
  /\ \E found \in FoundAtStart :
       /\ dirs = [output |-> found, pending |-> [m \in Makers |-> Absent],
                  backup |-> [m \in Makers |-> Absent]]
       /\ installed = IF found.chain = found.key THEN {found.chain} \ {"none"} ELSE {}
  /\ lapsed \in {{}, {"old"}} /\ making = [m \in Makers |-> "idle"] /\ bundleLock = "none"
  /\ interfered = FALSE /\ kills = 0

Unlocked == \E m \in Makers \ Ensuring : making[m] \notin {"idle"} \cup MakerEnded

Making(m, stage) == making' = [making EXCEPT ![m] = stage]
Answering(m, answer) == Making(m, answer) /\ bundleLock' = "none"

\* The directory's lock file serializes check and rotation.
TakeLock(m) ==
  /\ m \in Ensuring /\ making[m] = "idle" /\ bundleLock = "none"
  /\ bundleLock' = m /\ Making(m, "examine") /\ interfered' = (interfered \/ Unlocked)
  /\ UNCHANGED <<dirs, lapsed, installed, kills>>

\* A working bundle is kept, and only what is derived from it is repaired.
ReuseBundle(m) ==
  /\ making[m] = "examine" /\ ~Unrelated(dirs.output) /\ Working(dirs.output)
  /\ dirs' = [dirs EXCEPT !.output.report = dirs.output.chain]
  /\ installed' = installed \cup {dirs.output.chain}
  /\ Answering(m, "reused")
  /\ UNCHANGED <<lapsed, interfered, kills>>

RefuseDirectory(m) ==
  /\ making[m] = "examine" /\ Unrelated(dirs.output)
  /\ Answering(m, "refused")
  /\ UNCHANGED <<dirs, lapsed, installed, interfered, kills>>

\* generate_bundle in a directory of the run's own, removed when it fails.
PrepareBundle(m) ==
  /\ making[m] = "examine" /\ ~Unrelated(dirs.output) /\ ~Working(dirs.output)
  /\ \/ dirs' = [dirs EXCEPT !.pending[m] = Bundle(m)] /\ Making(m, "retire") /\ bundleLock' = bundleLock
     \/ Answering(m, "failed") /\ dirs' = dirs
  /\ UNCHANGED <<lapsed, installed, interfered, kills>>

\* What stands at the output becomes a backup.
RetireBundle(m) ==
  /\ making[m] = "retire" /\ Making(m, "install")
  /\ dirs' = IF dirs.output.on
             THEN [dirs EXCEPT !.backup[m] = dirs.output, !.output = Absent] ELSE dirs
  /\ UNCHANGED <<bundleLock, lapsed, installed, interfered, kills>>

\* A rename replaces an empty directory, never a filled one.
Renameable == dirs.output \in {Absent, EmptyDir}

InstallBundle(m) ==
  /\ making[m] = "install" /\ Renameable
  /\ dirs' = [dirs EXCEPT !.output = dirs.pending[m], !.pending[m] = Absent]
  /\ installed' = installed \cup {m} /\ Answering(m, "done")
  /\ UNCHANGED <<lapsed, interfered, kills>>

\* The rename fails: the backup is put back where that is possible, and the
\* pending bundle is removed.
InstallFails(m) ==
  /\ making[m] = "install"
  /\ dirs' = IF dirs.backup[m].on /\ Renameable
             THEN [dirs EXCEPT !.output = dirs.backup[m], !.backup[m] = Absent,
                               !.pending[m] = Absent]
             ELSE [dirs EXCEPT !.pending[m] = Absent]
  /\ Answering(m, "failed")
  /\ UNCHANGED <<lapsed, installed, interfered, kills>>

\* Without --ensure: no lock, but an existing directory is refused.
CreateDirectory(m) ==
  /\ m \in Makers \ Ensuring /\ making[m] = "idle"
  /\ IF dirs.output.on THEN Making(m, "refused") /\ dirs' = dirs
     ELSE Making(m, "root") /\ dirs' = [dirs EXCEPT !.output = EmptyDir]
  /\ interfered' = (interfered \/ bundleLock # "none")
  /\ UNCHANGED <<bundleLock, lapsed, installed, kills>>

\* Each file must be new; a failure of any kind removes the directory.
CreateRootKey(m) ==
  /\ making[m] = "root"
  /\ \/ /\ dirs.output.on /\ ~dirs.output.rest
        /\ dirs' = [dirs EXCEPT !.output.rest = TRUE] /\ Making(m, "chain")
     \/ dirs' = dirs /\ Making(m, "remove")
  /\ UNCHANGED <<bundleLock, lapsed, installed, interfered, kills>>

CreateFile(m, part, stage) ==
  /\ making[m] = part /\ m \notin Ensuring
  /\ \/ /\ dirs.output.on /\ dirs.output[part] = "none"
        /\ dirs' = [dirs EXCEPT !.output[part] = m] /\ Making(m, stage)
     \/ dirs' = dirs /\ Making(m, "remove")
  /\ UNCHANGED <<bundleLock, lapsed, installed, interfered, kills>>

VerifyCreated(m) ==
  /\ making[m] = "verify"
  /\ \/ /\ Working(dirs.output) /\ Making(m, "done")
        /\ dirs' = [dirs EXCEPT !.output.report = dirs.output.chain]
        /\ installed' = installed \cup {dirs.output.chain}
     \/ Making(m, "remove") /\ UNCHANGED <<dirs, installed>>
  /\ UNCHANGED <<bundleLock, lapsed, interfered, kills>>

\* shutil.rmtree of whatever stands at the path by now.
RemoveCreated(m) ==
  /\ making[m] = "remove" /\ Making(m, "failed")
  /\ dirs' = [dirs EXCEPT !.output = Absent]
  /\ UNCHANGED <<bundleLock, lapsed, installed, interfered, kills>>

\* A killed run leaves everything as it is; its lock goes with it.
MakerDies(m) ==
  /\ making[m] \notin {"idle"} \cup MakerEnded /\ kills < MaxKills
  /\ kills' = kills + 1 /\ Making(m, "dead")
  /\ bundleLock' = IF bundleLock = m THEN "none" ELSE bundleLock
  /\ UNCHANGED <<dirs, lapsed, installed, interfered>>

Expires(i) ==
  /\ i \in installed \ lapsed /\ lapsed' = lapsed \cup {i}
  /\ UNCHANGED <<dirs, making, bundleLock, installed, interfered, kills>>

CredentialsNext ==
  \/ \E m \in Makers :
       \/ TakeLock(m) \/ ReuseBundle(m) \/ RefuseDirectory(m) \/ PrepareBundle(m)
       \/ RetireBundle(m) \/ InstallBundle(m) \/ InstallFails(m) \/ CreateDirectory(m)
       \/ CreateRootKey(m)
       \/ CreateFile(m, "chain", "key") \/ CreateFile(m, "key", "verify")
       \/ VerifyCreated(m) \/ RemoveCreated(m) \/ MakerDies(m)
  \/ \E i \in {"old"} \cup Makers : Expires(i)
-----------------------------------------------------------------------------
(* One check before a rollout; they share nothing.  A check of a server      *)
(* asks it directly or from a pod; the other two run a script in a pod.     *)

CheckNames == DOMAIN McpServers \cup DOMAIN OtherProbes
CheckEnded == {"passed", "advisory", "failed", "dead"}

Replies == {"lost", "status", "error", "result"}
NoExchange == [init |-> "lost", tools |-> "lost", offered |-> {}]

ProbesInit ==
  /\ rollout \in CheckNames /\ check = "idle" /\ script = "none"
  /\ pod = FALSE /\ exchange = NoExchange
  /\ object = FALSE /\ mishap = FALSE

Checking(stage) == check' = stage
Scripting(stage) == script' = stage

\* auth_headers: the credential resolved, or an OAuth provider is complete.
Credentialed(s) == s.auth \in {"none", "key", "exact_key", "oauth"}

\* What a check from inside the cluster cannot carry: custom headers, and a
\* key that is not one environment variable of a named secret.
Carried(s) == ~s.custom /\ s.auth \in {"none", "oauth", "exact_key"}

\* check_server up to its first call.
StartMcpCheck ==
  /\ rollout \in DOMAIN McpServers /\ check = "idle"
  /\ LET s == McpServers[rollout] IN
       CASE s.url = "unset" \/ ~Credentialed(s) ->
              Checking("failed") /\ UNCHANGED <<script, pod>>
         [] s.url = "remote" /\ Credentialed(s) ->
              /\ Checking(IF s.unresolved THEN "failed" ELSE "initialize")
              /\ UNCHANGED <<script, pod>>
         [] s.url = "cluster" /\ Credentialed(s) ->
              IF Carried(s) THEN Checking("attached") /\ Scripting("pending")
                                 /\ pod' = TRUE
              ELSE Checking("failed") /\ UNCHANGED <<script, pod>>
  /\ UNCHANGED <<exchange, object, mishap>>

\* validate_payload, validate_tools: a result, and every tool the group includes.
Offers(e) ==
  e.init = "result" /\ e.tools = "result" /\ McpServers[rollout].include \subseteq e.offered

\* rpc_post: any failure of a call fails the check.
InitializeMcp(reply, session) ==
  /\ check = "initialize" /\ exchange' = [exchange EXCEPT !.init = reply]
  /\ Checking(IF reply # "result" THEN "failed" ELSE IF session THEN "notify" ELSE "list")
  /\ UNCHANGED <<script, pod, object, mishap>>

NotifyMcp ==
  /\ check = "notify" /\ \E stage \in {"list", "failed"} : Checking(stage)
  /\ UNCHANGED <<script, pod, exchange, object, mishap>>

ListMcp(reply, offered) ==
  /\ check = "list"
  /\ exchange' = [exchange EXCEPT !.tools = reply, !.offered = offered]
  /\ Checking(IF Offers(exchange') THEN "passed" ELSE "failed")
  /\ UNCHANGED <<script, pod, object, mishap>>

\* The pod's script makes the same calls; a lost call ends it with an error,
\* but the notification may fail.
McpScript(e) ==
  /\ rollout \in DOMAIN McpServers /\ script = "pending" /\ pod
  /\ e.init = "lost" => e.tools = "lost"
  /\ exchange' = e
  /\ Scripting(IF "lost" \in {e.init, e.tools} THEN "error" ELSE "exit")
  /\ UNCHANGED <<check, pod, object, mishap>>

\* The verdict is read from the pod's stored logs, never from the attached
\* output, whose beginning may be missing.
CollectMcp ==
  /\ check = "attached" /\ rollout \in DOMAIN McpServers
  /\ \/ /\ script = "exit" /\ pod
        /\ Checking(IF Offers(exchange) THEN "delete_passed" ELSE "delete_failed")
     \/ Checking("delete_failed")
  /\ UNCHANGED <<script, pod, exchange, object, mishap>>

\* Removal is tried on every path; its own failure is only a warning.
DeleteMcpPod ==
  /\ check \in {"delete_passed", "delete_failed"}
  /\ Checking(IF check = "delete_passed" THEN "passed" ELSE "failed")
  /\ \E deleted \in BOOLEAN : pod' = (pod /\ ~deleted)
  /\ UNCHANGED <<script, exchange, object, mishap>>

\* The other probes create their pod at once.
StartProbe ==
  /\ rollout \in DOMAIN OtherProbes /\ check = "idle"
  /\ Checking("attached") /\ Scripting("pending") /\ pod' = TRUE
  /\ UNCHANGED <<exchange, object, mishap>>

Scripted(kind, stage) ==
  rollout \in DOMAIN OtherProbes /\ OtherProbes[rollout] = kind /\ script = stage /\ pod

\* The storage probe removes the object on every exit once it knows that it
\* created it; a PUT whose reply is lost counts as not created.
PutObject ==
  /\ Scripted("storage", "pending")
  /\ \/ object' = TRUE /\ mishap' = mishap /\ Scripting("get")
     \/ object' \in BOOLEAN /\ mishap' = TRUE /\ Scripting("error")
     \/ UNCHANGED <<object, mishap>> /\ Scripting("error")
  /\ UNCHANGED <<check, pod, exchange>>

GetObject ==
  /\ Scripted("storage", "get")
  /\ \E stage \in {"delete", "cleanup"} : Scripting(stage)
  /\ UNCHANGED <<check, pod, exchange, object, mishap>>

DeleteObject ==
  /\ Scripted("storage", "delete")
  /\ \/ object' = FALSE /\ Scripting("exit")
     \/ object' \in {FALSE, object} /\ Scripting("cleanup")
  /\ UNCHANGED <<check, pod, exchange, mishap>>

CleanUpObject ==
  /\ Scripted("storage", "cleanup") /\ Scripting("error")
  /\ \/ object' = FALSE /\ mishap' = mishap
     \/ object' = object /\ mishap' = TRUE
  /\ UNCHANGED <<check, pod, exchange>>

\* kubectl run --rm removes the pod when it ends, but not when it is cut off
\* by its deadline; the script may then still be going.
EndStorageCheck ==
  /\ check = "attached" /\ rollout \in DOMAIN OtherProbes /\ OtherProbes[rollout] = "storage"
  /\ \/ script = "exit" /\ Checking("passed") /\ pod' = FALSE
     \/ script = "error" /\ Checking("failed") /\ pod' = FALSE
     \/ Checking("failed") /\ pod' = pod
  /\ UNCHANGED <<script, exchange, object, mishap>>

\* Milvus, then the embedding and reranking endpoints.
RagScript ==
  /\ Scripted("rag", "pending") /\ \E stage \in {"exit", "error"} : Scripting(stage)
  /\ UNCHANGED <<check, pod, exchange, object, mishap>>

EndRagCheck ==
  /\ check = "attached" /\ rollout \in DOMAIN OtherProbes /\ OtherProbes[rollout] = "rag"
  /\ \/ script = "exit" /\ Checking("passed") /\ pod' = FALSE
     \/ Checking("inspect") /\ pod' \in {pod, FALSE}
  /\ UNCHANGED <<script, exchange, object, mishap>>

\* A pod that never executed says nothing of the backend: the check is then
\* only advisory.
InspectRagPod ==
  /\ check = "inspect"
  /\ \/ pod /\ script = "pending" /\ Checking("delete_advisory")
     \/ Checking("delete_rag")
  /\ UNCHANGED <<script, pod, exchange, object, mishap>>

DeleteRagPod ==
  /\ check \in {"delete_advisory", "delete_rag"}
  /\ Checking(IF check = "delete_advisory" THEN "advisory" ELSE "failed")
  /\ pod' \in {pod, FALSE}
  /\ UNCHANGED <<script, exchange, object, mishap>>

ProbesNext ==
  \/ StartMcpCheck \/ NotifyMcp \/ CollectMcp \/ DeleteMcpPod
  \/ \E reply \in Replies, session \in BOOLEAN : InitializeMcp(reply, session)
  \/ \E reply \in Replies, offered \in SUBSET Tools : ListMcp(reply, offered)
  \/ \E first, second \in Replies, offered \in SUBSET Tools :
         McpScript([init |-> first, tools |-> second, offered |-> offered])
  \/ StartProbe \/ PutObject \/ GetObject \/ DeleteObject \/ CleanUpObject
  \/ EndStorageCheck \/ RagScript \/ EndRagCheck \/ InspectRagPod
  \/ DeleteRagPod

CheckDies ==
  /\ check \notin {"idle"} \cup CheckEnded /\ kills < MaxKills
  /\ kills' = kills + 1 /\ Checking("dead")
  /\ UNCHANGED <<script, pod, exchange, object, mishap>>
-----------------------------------------------------------------------------
(* Secrets: the authoritative ones are read, then three copies are applied.  *)

Copies == <<"milvus", "minio", "document">>  \* in the order they are applied
SourceOf(t) == IF t = "milvus" THEN "milvus" ELSE "minio"
Versions == [s \in DOMAIN sources |-> sources[s].version]
NoSync == [stage |-> "idle", at |-> 0, milvus |-> 0, minio |-> 0, begun |-> Versions]

SecretsInit ==
  /\ sources = [s \in {"milvus", "minio"} |-> [version |-> 1, whole |-> TRUE]]
  /\ targets = [milvus |-> 0, minio |-> 0, document |-> 0] /\ syncing = NoSync

\* A new version of a secret, or one without its key.
RotateSecret(s) ==
  /\ sources[s].version <= MaxRotations
  /\ \E whole \in BOOLEAN :
       sources' = [sources EXCEPT ![s] = [version |-> @.version + 1, whole |-> whole]]
  /\ UNCHANGED <<targets, syncing>>

StartSync ==
  /\ syncing.stage \in {"idle", "done", "failed"}
  /\ syncing' = [NoSync EXCEPT !.stage = "milvus", !.begun = Versions]
  /\ UNCHANGED <<sources, targets>>

ReadSecret(s, stage) ==
  /\ syncing.stage = s
  /\ \/ syncing' = [syncing EXCEPT !.stage = stage, 
                          ![s] = IF sources[s].whole THEN sources[s].version ELSE 0]
     \/ syncing' = [syncing EXCEPT !.stage = "failed"]
  /\ UNCHANGED <<sources, targets>>

\* target_manifests: both secrets have their keys, before anything is applied.
CheckSecrets ==
  /\ syncing.stage = "manifests"
  /\ syncing' = IF 0 \in {syncing.milvus, syncing.minio} THEN [syncing EXCEPT !.stage = "failed"]
                ELSE [syncing EXCEPT !.stage = "apply", !.at = 1]
  /\ UNCHANGED <<sources, targets>>

\* kubectl apply of one copy; the first that fails ends the run. A reply may
\* be lost after the copy was stored.
ApplySecret ==
  /\ syncing.stage = "apply"
  /\ LET t == Copies[syncing.at]
         stored == [targets EXCEPT ![t] = syncing[SourceOf(t)]] IN
       \/ /\ targets' = stored
          /\ syncing' = IF syncing.at = Cardinality(DOMAIN Copies)
                        THEN [syncing EXCEPT !.stage = "done"]
                        ELSE [syncing EXCEPT !.at = @ + 1]
       \/ targets' \in {targets, stored} /\ syncing' = [syncing EXCEPT !.stage = "failed"]
  /\ sources' = sources

SecretsNext ==
  \/ \E s \in DOMAIN sources : RotateSecret(s)
  \/ StartSync \/ ReadSecret("milvus", "minio") \/ ReadSecret("minio", "manifests")
  \/ CheckSecrets \/ ApplySecret
-----------------------------------------------------------------------------
(* Images.  The inventory must name what the deployment files render to;    *)
(* then every image is scanned on every platform.                           *)

Platforms == {"amd64", "arm64"}
Composed == {"compose", "e2e"}
Charted == {"helm_default", "helm_custom"}

DeclaredImages(inv, mode) == {u.image : u \in {u \in inv.upstream : mode \in u.modes}}

\* One Compose file: derived images are the ones of their services and are
\* built there; what is neither built nor derived is declared, and no more.
ComposeMatches(inv, mode) ==
  LET services == inv.services[mode]
      Built == {n \in DOMAIN services : services[n].build}
      Images(names) == {services[n].image : n \in names}
      Derived == UNION {d.services[mode] : d \in inv.derived} IN
  /\ \A d \in {d \in inv.derived : d.services[mode] # {}} :
       /\ \A n \in d.services[mode] : n \in DOMAIN services /\ services[n].image = d.image
       /\ \E n \in d.services[mode] : services[n].build
  /\ mode = "compose" => Built \ Derived = DOMAIN inv.built
  /\ Images(DOMAIN services) \ Images(Built) = DeclaredImages(inv, mode)

\* One rendering of the chart, with the built images under names of their own.
ChartMatches(inv, mode) ==
  inv.charts[mode] # {} /\ inv.charts[mode] \ DOMAIN inv.built = DeclaredImages(inv, mode)

InventoryValid(inv) ==
  /\ inv.platforms = Platforms
  /\ \A u \in inv.upstream : u.pinned
  /\ \A mode \in Composed : ComposeMatches(inv, mode)
  /\ \A mode \in Charted : ChartMatches(inv, mode)

\* Upstream and derived images, and the built ones with a context of their own.
Scanned(inv) ==
  {u.image : u \in inv.upstream} \cup {d.image : d \in inv.derived}
    \cup {n \in DOMAIN inv.built : inv.built[n]}

Reports ==
  [exists : BOOLEAN, exit : 0..2, sound : BOOLEAN, vulnerable : BOOLEAN, secret : BOOLEAN]

InventoryInit ==
  \E inv \in ImageInventories :
    scan = [stage |-> "validate", inv |-> inv, todo |-> {}, clean |-> {}, flagged |-> FALSE]

ValidateInventory ==
  /\ scan.stage = "validate"
  /\ scan' = IF InventoryValid(scan.inv)
             THEN [scan EXCEPT !.stage = "scan", !.todo = Scanned(scan.inv) \X Platforms]
             ELSE [scan EXCEPT !.stage = "stopped"]

\* A report that is missing or not of this image stops the scan; a finding
\* fails it at the end.
ScanImage(item, report) ==
  /\ scan.stage = "scan" /\ item \in scan.todo
  /\ LET flagged == \/ report.vulnerable \/ report.secret
                    \/ report.exit # 0 /\ ~report.vulnerable IN
     scan' = IF report.exists /\ report.exit \in {0, 1} /\ report.sound
             THEN [scan EXCEPT !.todo = @ \ {item}, !.flagged = @ \/ flagged,
                               !.clean = IF report.vulnerable \/ report.secret THEN @
                                         ELSE @ \cup {item}]
             ELSE [scan EXCEPT !.stage = "stopped"]

\* The image is built for the platform first; that may fail, or yield another.
BuildFails(item) ==
  /\ scan.stage = "scan" /\ item \in scan.todo
  /\ item[1] \notin {u.image : u \in scan.inv.upstream}
  /\ scan' = [scan EXCEPT !.stage = "stopped"]

EndScan ==
  /\ scan.stage = "scan" /\ scan.todo = {}
  /\ scan' = [scan EXCEPT !.stage = IF scan.flagged THEN "failed" ELSE "passed"]

InventoryNext ==
  \/ ValidateInventory \/ EndScan
  \/ \E item \in scan.todo : BuildFails(item) \/ \E report \in Reports : ScanImage(item, report)
-----------------------------------------------------------------------------
OperationsInit ==
  /\ task \in {"credentials", "probes", "secrets", "inventory"}
  /\ CredentialsInit /\ (task # "credentials" => dirs.output = Absent /\ lapsed = {})
  /\ ProbesInit /\ (task # "probes" => rollout = CHOOSE c \in CheckNames : TRUE)
  /\ SecretsInit
  /\ InventoryInit /\ (task # "inventory" => scan.inv = CHOOSE inv \in ImageInventories : TRUE)

\* One of them, for a composition in which the scripts do not run.
OperationsRest == task = "secrets"

OperationsNext ==
  /\ task' = task
  /\ \/ task = "credentials" /\ CredentialsNext /\ UNCHANGED <<probeVars, secretVars, scan>>
     \/ /\ task = "probes" /\ UNCHANGED <<rollout, credentialVars, secretVars, scan>>
        /\ \/ ProbesNext /\ kills' = kills
           \/ CheckDies
     \/ /\ task = "secrets" /\ SecretsNext
        /\ UNCHANGED <<credentialVars, kills, probeVars, scan>>
     \/ /\ task = "inventory" /\ InventoryNext
        /\ UNCHANGED <<credentialVars, kills, probeVars, secretVars>>
-----------------------------------------------------------------------------
(* An identity that once stood at the output as a working bundle is never   *)
(* lost: it stands there or in a backup, however runs overlap and die,      *)
(* unless a run without --ensure and its lock worked in between             *)
(* (ensure_bundle).                                                         *)
IdentityKept ==
  \A i \in installed :
    \/ interfered
    \/ \E d \in {dirs.output} \cup {dirs.backup[m] : m \in Makers} : d.chain = i /\ d.key = i

(* Once every run has answered and none died, what an ensuring run left     *)
(* signs, or has expired since; no two runs replaced it at once.            *)
EnsuredWorks ==
  (/\ \A m \in Makers : making[m] \in ({"idle"} \cup MakerEnded) \ {"dead"}
   /\ \E m \in Ensuring : making[m] \in {"done", "reused"}
   /\ ~interfered)
  => Working(dirs.output) \/ dirs.output.chain \in lapsed

(* A server passes only if it answered both calls and offers every tool its *)
(* group includes, whichever way it was asked; the storage probe leaves no  *)
(* object behind once its script is over, unless a reply was lost; a        *)
(* storage check passes only after that (the probes before a rollout).      *)
ProbesHonest ==
  /\ check = "passed" /\ rollout \in DOMAIN McpServers => Offers(exchange)
  /\ check = "passed" /\ rollout \in DOMAIN OtherProbes => script = "exit" /\ ~object
  /\ script \in {"none", "pending", "exit", "error"} => ~object \/ mishap

(* A finished run left each copy at a version at least as new as its source *)
(* was when the run began, and the two copies of the MinIO keys agree; no   *)
(* copy lacks a key (sync_rag_secrets).                                     *)
CopiesFresh ==
  syncing.stage = "done" =>
    /\ targets.minio = targets.document
    /\ \A t \in DOMAIN targets : targets[t] >= syncing.begun[SourceOf(t)] /\ targets[t] > 0

(* When the scan passes, every image any deployment renders to was scanned  *)
(* clean on both platforms, but those built here without a context, which   *)
(* the release gate scans (check_image_inventory).                          *)
ShippedAreScanned ==
  scan.stage = "passed" =>
    LET inv == scan.inv
        rendered == UNION {{inv.services[m][n].image : n \in DOMAIN inv.services[m]} : m \in Composed}
                      \cup UNION {inv.charts[m] : m \in Charted}
        locals(m) == {n \in DOMAIN inv.built \cap DOMAIN inv.services[m] : inv.services[m][n].build}
        own == UNION {{inv.services[m][n].image : n \in locals(m)} : m \in Composed}
                 \cup {n \in DOMAIN inv.built : ~inv.built[n]} IN
    \A image \in rendered \ own, p \in Platforms : <<image, p>> \in scan.clean

OperationsSound ==
  IdentityKept /\ EnsuredWorks /\ ProbesHonest /\ CopiesFresh /\ ShippedAreScanned
=============================================================================
