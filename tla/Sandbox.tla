------------------------------- MODULE Sandbox -------------------------------
(***************************************************************************)
(* The sandbox tool: cached discovery of the service's capabilities, one   *)
(* command or file operation in the conversation's workspace, and the      *)
(* publication of a file, over a transport that loses replies              *)
(* (builder/llm_sandbox/llm_sandbox_function.py).                          *)
(***************************************************************************)
EXTENDS Naturals, FiniteSets, Sequences

CONSTANTS Steps,          \* tool calls
          SandboxAsked,          \* the arguments a call may be made with, and its trusted scope:
                          \* <<user, conversation>>, or <<>> when it has none
          Capability,     \* what each release of the service advertises
          MaxTimeout,     \* config.max_timeout_seconds
          DefaultTimeout, \* config.default_timeout_seconds
          MaxCommand,     \* config.max_command_bytes
          MaxReleases     \* redeployments of the service with other capabilities

(* Every release advertises how long it lets a command run.                 *)
ASSUME SandboxAssumption ==
  /\ MaxReleases \in Nat /\ MaxTimeout \in Nat
  /\ \A k \in 1..(1 + MaxReleases) : Capability[k].maxTimeout \in Nat

VARIABLES
  step,      \* stage of a call, or what it answered
  asked,     \* the arguments a call was made with
  known,     \* cached capabilities: the release they were read from, 0 when none
  carried,   \* the capabilities a call works with
  release,   \* the release of the service now
  tries,     \* transport attempts of the request under way
  posted,    \* history: the execution requests the service carried out, with the call
  workspace, \* per conversation: the pieces its file consists of, by the call that wrote them
  collected, \* what an execution returned of the requested file
  sent       \* history: the files published, with the call and the conversation

sandboxVars == <<step, asked, known, carried, release, tries, posted, workspace, collected, sent>>

NoScope == <<>>
SandboxScopes == {r.scope : r \in UNION {SandboxAsked[c] : c \in Steps}} \ {NoScope}
Scope(c) == asked[c].scope
NoFile == [content |-> <<>>, truncated |-> FALSE, present |-> FALSE]
FileOperations == {"write_file", "read_file", "publish_file"}

SandboxInit ==
  /\ step = [c \in Steps |-> "idle"] /\ asked \in [Steps -> UNION {SandboxAsked[c] : c \in Steps}]
  /\ \A c \in Steps : asked[c] \in SandboxAsked[c]
  /\ known = 0 /\ carried = [c \in Steps |-> 0]
  /\ release = 1 /\ tries = [c \in Steps |-> 0] /\ posted = {}
  /\ workspace = [s \in SandboxScopes |-> <<>>] /\ collected = [c \in Steps |-> NoFile] /\ sent = {}

SandboxTo(c, stage) == step' = [step EXCEPT ![c] = stage]

(* Mutant: a request that failed in transit is sent once more.              *)
MayRetryAlways(c, method) == tries[c] < 1

(* _request_with_retry: only a GET is tried again.                          *)
MayRetry(c, method) == method = "GET" /\ tries[c] < 1

SandboxAgain(c) == tries' = [tries EXCEPT ![c] = @ + 1] /\ UNCHANGED step
SandboxAnswer(c, stage) == SandboxTo(c, stage) /\ tries' = [tries EXCEPT ![c] = 0]

(* _discover: the cached capabilities while they are fresh; list_commands   *)
(* reads them anew.                                                         *)
SandboxCached(c) ==
  /\ step[c] = "idle" /\ known > 0 /\ asked[c].operation # "list_commands"
  /\ carried' = [carried EXCEPT ![c] = known] /\ SandboxTo(c, "discovered")
  /\ UNCHANGED <<asked, known, release, tries, posted, workspace, collected, sent>>

(* _validate_capabilities: a stateless, isolated service with a limit.      *)
SandboxValid(cap) == cap.isolated /\ cap.maxTimeout >= 1

(* Readiness and capabilities are read and validated.                       *)
SandboxDiscover(c) ==
  /\ step[c] = "idle" /\ (known = 0 \/ asked[c].operation = "list_commands")
  /\ \/ /\ SandboxValid(Capability[release])
        /\ SandboxAnswer(c, "discovered") /\ known' = release
        /\ carried' = [carried EXCEPT ![c] = release]
     \/ ~SandboxValid(Capability[release]) /\ SandboxAnswer(c, "unreachable") /\ UNCHANGED <<known, carried>>
     \/ MayRetry(c, "GET") /\ SandboxAgain(c) /\ UNCHANGED <<known, carried>>
     \/ ~MayRetry(c, "GET") /\ SandboxAnswer(c, "unreachable") /\ UNCHANGED <<known, carried>>
  /\ UNCHANGED <<asked, release, posted, workspace, collected, sent>>

(* _normalize_file_path, _normalize_working_directory, _parse_env_json:     *)
(* only paths inside the workspace and names that are not reserved.         *)
Inside(path) == path = "inside"
EnvAllowed(env) == env \in {"none", "own"}

(* A file operation: no command, a trusted scope, an advertised workspace,  *)
(* a path inside it, and content only to write, within the input limit.     *)
FileAllowed(r, cap) ==
  /\ r.command = 0 /\ r.argv = <<>>
  /\ r.scope # NoScope /\ cap.persistence /\ Inside(r.path) /\ "true" \in cap.commands
  /\ IF r.operation = "write_file" THEN r.content <= cap.inputBytes
     ELSE r.content = 0 /\ ~r.append

(* An execution: exactly one of a shell command and a discovered program.   *)
CommandAllowed(r, cap) ==
  /\ r.path = "none" /\ r.content = 0 /\ ~r.append
  /\ (r.command > 0) # (r.argv # <<>>)
  /\ IF r.argv # <<>> THEN r.argv[1] \in cap.commands /\ Len(r.argv) <= MaxCommand
     ELSE cap.shell /\ r.command <= MaxCommand

Smaller(a, b) == IF a <= b THEN a ELSE b
Effective(cap) == Smaller(cap.maxTimeout, MaxTimeout)
Selected(r, cap) == IF r.timeout = 0 THEN Smaller(DefaultTimeout, Effective(cap)) ELSE r.timeout

Allowed(r, cap) ==
  /\ IF r.operation \in FileOperations THEN FileAllowed(r, cap) ELSE CommandAllowed(r, cap)
  /\ Selected(r, cap) <= Effective(cap)
  /\ EnvAllowed(r.env) /\ r.dir \in {".", "inside"}

(* The arguments are checked against the carried capabilities and the       *)
(* trusted scope; the first objection is the answer.                        *)
SandboxPrepare(c) ==
  /\ step[c] = "discovered"
  /\ SandboxTo(c, IF asked[c].operation = "list_commands" THEN "listed"
           ELSE IF Allowed(asked[c], Capability[carried[c]]) THEN "executing" ELSE "refused")
  /\ UNCHANGED <<asked, known, carried, release, tries, posted, workspace, collected, sent>>

(* _workspace_id_from_scope.                                                *)
Workspace(c) == Scope(c)

(* The service carries out the request: a file is written or appended to,   *)
(* a requested file is collected, whole, cut short or missing.              *)
CarryOut(c) ==
  LET r == asked[c] IN
  /\ posted' = posted \cup {[call |-> c, at |-> Cardinality(posted),
                             timeout |-> Selected(r, Capability[carried[c]])]}
  /\ workspace' = IF r.operation # "write_file" THEN workspace
                  ELSE [workspace EXCEPT ![Workspace(c)] =
                          IF r.append THEN Append(@, c) ELSE <<c>>]

Collected(c) ==
  \E cut \in BOOLEAN :
    collected' = [collected EXCEPT ![c] =
      IF asked[c].operation \notin {"read_file", "publish_file"} \/ workspace[Workspace(c)] = <<>>
      THEN NoFile
      ELSE [content |-> workspace[Workspace(c)], truncated |-> cut, present |-> TRUE]]

(* POST /v1/execute. A release that lacks the capabilities the call carries *)
(* rejects it, which empties the cache; a failure in transit or of the      *)
(* server, or an invalid reply, may come after the execution.               *)
Execute(c) ==
  /\ step[c] = "executing"
  /\ \/ /\ CarryOut(c) /\ Allowed(asked[c], Capability[release]) /\ UNCHANGED known
        /\ \/ /\ Collected(c)
              /\ SandboxAnswer(c, IF asked[c].operation = "publish_file" THEN "collected" ELSE "executed")
           \/ /\ UNCHANGED collected
              /\ \/ SandboxAnswer(c, "server_error")
                 \/ IF MayRetry(c, "POST") THEN SandboxAgain(c) ELSE SandboxAnswer(c, "uncertain")
     \/ /\ UNCHANGED <<posted, workspace, collected>>
        /\ \/ /\ ~Allowed(asked[c], Capability[release]) /\ known' = 0 /\ SandboxAnswer(c, "rejected")
           \/ UNCHANGED known /\ IF MayRetry(c, "POST") THEN SandboxAgain(c) ELSE SandboxAnswer(c, "uncertain")
  /\ UNCHANGED <<asked, carried, release, sent>>

(* Only one whole file of the requested path is published.                  *)
Complete(c) == collected[c].present /\ ~collected[c].truncated

(* _publish_artifact and _validate_published_artifact: to the owner and the *)
(* conversation of the trusted scope.                                       *)
Publish(c) ==
  /\ step[c] = "collected"
  /\ \/ /\ ~Complete(c) /\ SandboxAnswer(c, "not_published") /\ UNCHANGED sent
     \/ /\ Complete(c)
        /\ \/ /\ sent' = sent \cup {[call |-> c, at |-> Cardinality(sent), scope |-> Scope(c),
                                     content |-> collected[c].content]}
              /\ \/ SandboxAnswer(c, "published")
                 \/ SandboxAnswer(c, "not_published")
                 \/ IF MayRetry(c, "POST") THEN SandboxAgain(c) ELSE SandboxAnswer(c, "uncertain")
           \/ /\ UNCHANGED sent
              /\ \/ SandboxAnswer(c, "not_published")
                 \/ IF MayRetry(c, "POST") THEN SandboxAgain(c) ELSE SandboxAnswer(c, "uncertain")
  /\ UNCHANGED <<asked, known, carried, release, posted, workspace, collected>>

(* The cache ages out; the service is redeployed.                           *)
CacheExpires ==
  /\ known > 0 /\ known' = 0
  /\ UNCHANGED <<step, asked, carried, release, tries, posted, workspace, collected, sent>>
Redeploy ==
  /\ release < 1 + MaxReleases /\ release' = release + 1
  /\ UNCHANGED <<step, asked, known, carried, tries, posted, workspace, collected, sent>>

SandboxNext ==
  \/ \E c \in Steps : SandboxCached(c) \/ SandboxDiscover(c) \/ SandboxPrepare(c) \/ Execute(c) \/ Publish(c)
  \/ CacheExpires \/ Redeploy
SandboxSpec == SandboxInit /\ [][SandboxNext]_sandboxVars

Ran(c) == {p \in posted : p.call = c}
SandboxSent(c) == {f \in sent : f.call = c}

(* A call runs its command and publishes its file at most once, whatever is *)
(* lost, so a file holds a piece at most once; it reports a publication     *)
(* only of a whole file that was published, and an unreachable or rejecting *)
(* service only when nothing ran (_UncertainPost).                          *)
AtMostOnce ==
  \A c \in Steps :
    /\ Cardinality(Ran(c)) <= 1 /\ Cardinality(SandboxSent(c)) <= Cardinality(Ran(c))
    /\ step[c] = "published" => SandboxSent(c) # {} /\ Complete(c)
    /\ step[c] \in {"unreachable", "rejected", "refused", "listed"} => Ran(c) = {}
    /\ \A s \in SandboxScopes : Cardinality({i \in DOMAIN workspace[s] : workspace[s][i] = c}) <= 1

(* What a call wrote stays in its conversation's workspace, and what is     *)
(* published to a conversation was written in that conversation.            *)
ConversationsApart ==
  /\ \A s \in SandboxScopes : \A i \in DOMAIN workspace[s] : Scope(workspace[s][i]) = s
  /\ \A f \in sent : \A i \in DOMAIN f.content : Scope(f.content[i]) = f.scope

(* What ran was allowed by the capabilities the call had discovered, for no *)
(* longer than the configured maximum and the discovered one.               *)
WithinCapabilities ==
  \A p \in posted :
    /\ Allowed(asked[p.call], Capability[carried[p.call]])
    /\ p.timeout <= Smaller(MaxTimeout, Capability[carried[p.call]].maxTimeout)

(* The sandbox tool runs at most once, only what is allowed, and keeps      *)
(* conversations apart.                                                     *)
RunsAtMostOnce == AtMostOnce /\ ConversationsApart /\ WithinCapabilities
=============================================================================
