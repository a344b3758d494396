------------------------------ MODULE Approval ------------------------------
(***************************************************************************)
(* Approval of MCP operations: the gate before every MCP call, the request *)
(* it leaves for the user, the decision, the one-use credential, and the   *)
(* route that executes exactly the approved call.                          *)
(*   builder/daedalus_runtime: approval.py, mcp.py, executions.py          *)
(*   builder/user_interaction: approval_tokens.py                          *)
(*   builder/mcp_approval_api.py, frontend/server/chat/mcpApproval.ts      *)
(* A call stands for server, tool and canonical arguments.                 *)
(***************************************************************************)
EXTENDS Naturals, Sequences, FiniteSets

CONSTANTS Users, Calls,
          Destructive,  \* calls whose name, arguments or annotations mutate
          Chats,        \* tool calls of interactive runs
          Background,   \* tool calls of autonomous runs
          Routes,       \* requests to the execute route
          Devices,      \* places where the user decides
          Capacity,     \* execution records the runtime keeps
          MaxFaults     \* bound on restarts, expiries and failed calls

ApprovalNone == "none"
Policies == {"auto_approve", "read_only", "approval_required"}
Procs == Chats \cup Background \cup Routes

ASSUME ApprovalAssumption ==
  /\ Destructive \subseteq Calls /\ Capacity \in Nat \ {0} /\ MaxFaults \in Nat
  /\ Chats \cap Background = {} /\ (Chats \cup Background) \cap Routes = {}

VARIABLES
  policy,  \* of each call, from the deployed configuration
  asks,    \* pending approvals and what became of them
  tokens,  \* credentials: the ask each was issued for, and whether unspent
  view,    \* the ask a device shows
  pc, job, \* the calls in flight: stage, and user, call and credential
  record,  \* execution records of the execute route
  acts,    \* history: remote operations executed
  faults

approvalVars == <<policy, asks, tokens, view, pc, job, record, acts, faults>>

Nothing == [user |-> ApprovalNone, call |-> ApprovalNone, token |-> 0]
Open == {"running", "oauth_required"}
Closed == {"completed", "failed", "cancelled"}

ApprovalTypeOK ==
  /\ policy \in [Calls -> Policies]
  /\ asks \in Seq([user : Users, call : Calls,
                   state : {"pending", "approved", "denied", "expired"}])
  /\ tokens \in Seq([ask : DOMAIN asks, unspent : BOOLEAN])
  /\ view \in [Devices -> {0} \cup DOMAIN asks]
  /\ pc \in [Procs -> {"idle", "gate", "peek", "spend", "start", "connect",
                       "call", "done"}]
  /\ \A p \in Procs : /\ job[p].user \in Users \cup {ApprovalNone}
                      /\ job[p].call \in Calls \cup {ApprovalNone}
                      /\ job[p].token \in {0} \cup DOMAIN tokens
  /\ record \in [Routes -> Open \cup Closed \cup {ApprovalNone}]
  /\ acts \in Seq([user : Users, call : Calls, ask : {0} \cup DOMAIN asks,
                   by : Procs])
  /\ faults \in 0..MaxFaults

ApprovalInit ==
  /\ policy \in [Calls -> Policies]
  /\ asks = <<>> /\ tokens = <<>> /\ acts = <<>>
  /\ view = [d \in Devices |-> 0]
  /\ pc = [p \in Procs |-> "idle"] /\ job = [p \in Procs |-> Nothing]
  /\ record = [r \in Routes |-> ApprovalNone]
  /\ faults = MaxFaults

ApprovalGoto(p, where) == pc' = [pc EXCEPT ![p] = where]
Faulty == faults > 0 /\ faults' = faults - 1

(***************************************************************************)
(* Credentials (approval_tokens.py)                                        *)
(***************************************************************************)

(* The credential a job presents, under its user's key and unspent.         *)
Held(p) ==
  /\ job[p].token # 0 /\ tokens[job[p].token].unspent
  /\ asks[tokens[job[p].token].ask].user = job[p].user

Matches(p) == Held(p) /\ asks[tokens[job[p].token].ask].call = job[p].call

(* Mutant: validation reads the credential without deleting it.             *)
ConsumeReadOnly(p) == tokens' = tokens

(* GETDEL before anything is compared: a mismatch burns the credential.     *)
Consume(p) ==
  tokens' = IF Held(p) THEN [tokens EXCEPT ![job[p].token].unspent = FALSE] ELSE tokens

TokenExpires(t) ==
  /\ Faulty /\ t \in DOMAIN tokens /\ tokens[t].unspent
  /\ tokens' = [tokens EXCEPT ![t].unspent = FALSE]
  /\ UNCHANGED <<policy, asks, view, pc, job, record, acts>>

(***************************************************************************)
(* The gate (_validate_mcp_approval, MCPManager.call)                      *)
(***************************************************************************)

(* A destructive name, argument or annotation of the call                   *)
(* (_is_mutating_mcp_call).                                                 *)
Mutates(c) == c \in Destructive

(* Mutant: a read-only policy is believed whatever the call says.           *)
VerdictTrusting(c) ==
  IF policy[c] \in {"auto_approve", "read_only"} THEN "allow" ELSE "approve"

(* What the configuration says of a call: executed, refused, or up to the   *)
(* user.  Read-like names and remote hints are no evidence.                 *)
Verdict(c) ==
  CASE policy[c] = "auto_approve" -> "allow"
    [] policy[c] = "read_only" /\ ~Mutates(c) -> "allow"
    [] policy[c] = "read_only" /\ Mutates(c) -> "refuse"
    [] policy[c] = "approval_required" -> "approve"

(* A tool call of a run reaches the gate, with the credential its request   *)
(* carries, if any.                                                         *)
Request(p, u, c, t) ==
  /\ p \in Chats \cup Background /\ pc[p] = "idle"
  /\ t # 0 => t \in DOMAIN tokens
  /\ job' = [job EXCEPT ![p] = [user |-> u, call |-> c, token |-> t]]
  /\ ApprovalGoto(p, "gate")
  /\ UNCHANGED <<policy, asks, tokens, view, record, acts, faults>>

Ask(p) ==
  asks' = Append(asks, [user |-> job[p].user, call |-> job[p].call,
                        state |-> "pending"])

(* Without a credential an interactive run leaves a request and ends there; *)
(* a background run is only refused.                                        *)
Gate(p) ==
  LET verdict == Verdict(job[p].call)
  IN  /\ p \in Chats \cup Background /\ pc[p] = "gate"
      /\ \/ verdict = "allow" /\ ApprovalGoto(p, "call") /\ UNCHANGED <<asks, tokens>>
         \/ verdict = "refuse" /\ ApprovalGoto(p, "done") /\ UNCHANGED <<asks, tokens>>
         \/ /\ verdict = "approve" /\ job[p].token # 0
            /\ Consume(p) /\ ApprovalGoto(p, IF Matches(p) THEN "call" ELSE "done")
            /\ UNCHANGED asks
         \/ /\ verdict = "approve" /\ job[p].token = 0
            /\ IF p \in Chats THEN Ask(p) ELSE UNCHANGED asks
            /\ ApprovalGoto(p, "done") /\ UNCHANGED tokens
      /\ UNCHANGED <<policy, view, job, record, acts, faults>>

(***************************************************************************)
(* The decision (mcpApproval.ts)                                           *)
(***************************************************************************)

ApprovalLook(d) ==
  \E a \in DOMAIN asks :
    /\ view[d] = 0 /\ asks[a].state = "pending"
    /\ view' = [view EXCEPT ![d] = a]
    /\ UNCHANGED <<policy, asks, tokens, pc, job, record, acts, faults>>

(* Mutant: the decision is not compared with what is still pending.         *)
StillPendingUnchecked(a) == asks[a].state # "expired"

(* The script compares the pending value with the one that was read.        *)
StillPending(a) == asks[a].state = "pending"

Decide(d, decision) ==
  /\ view[d] # 0
  /\ view' = [view EXCEPT ![d] = 0]
  /\ IF StillPending(view[d])
     THEN /\ asks' = [asks EXCEPT ![view[d]].state = decision]
          /\ tokens' = IF decision = "denied" THEN tokens
                       ELSE Append(tokens, [ask |-> view[d], unspent |-> TRUE])
     ELSE UNCHANGED <<asks, tokens>>
  /\ UNCHANGED <<policy, pc, job, record, acts, faults>>

AskExpires(a) ==
  /\ Faulty /\ a \in DOMAIN asks /\ asks[a].state = "pending"
  /\ asks' = [asks EXCEPT ![a].state = "expired"]
  /\ UNCHANGED <<policy, tokens, view, pc, job, record, acts>>

(***************************************************************************)
(* The execute route (mcp_approval_api.py, executions.py)                  *)
(***************************************************************************)

(* Read-only operations are refused before the credential is looked at.     *)
Arrive(r, u, c, t) ==
  /\ r \in Routes /\ pc[r] = "idle" /\ t \in DOMAIN tokens
  /\ job' = [job EXCEPT ![r] = [user |-> u, call |-> c, token |-> t]]
  /\ ApprovalGoto(r, IF policy[c] = "read_only" THEN "done" ELSE "peek")
  /\ UNCHANGED <<policy, asks, tokens, view, record, acts, faults>>

Peek(r) ==
  /\ pc[r] = "peek"
  /\ ApprovalGoto(r, IF Matches(r) THEN "spend" ELSE "done")
  /\ UNCHANGED <<policy, asks, tokens, view, job, record, acts, faults>>

Spend(r) ==
  /\ pc[r] = "spend"
  /\ Consume(r)
  /\ ApprovalGoto(r, IF Matches(r) THEN "start" ELSE "done")
  /\ UNCHANGED <<policy, asks, view, job, record, acts, faults>>

Kept == {r \in Routes : record[r] # ApprovalNone}

(* Records that ended an hour ago are dropped; a full registry refuses,     *)
(* though the credential is spent.                                          *)
Start(r) ==
  /\ pc[r] = "start"
  /\ \E old \in SUBSET {q \in Routes : record[q] \in Closed} :
       LET full == Cardinality(Kept \ old) >= Capacity
       IN  /\ record' = [q \in Routes |->
                           CASE q \in old -> ApprovalNone
                             [] q = r /\ ~full -> "running"
                             [] OTHER -> record[q]]
           /\ ApprovalGoto(r, IF full THEN "done" ELSE "connect")
  /\ UNCHANGED <<policy, asks, tokens, view, job, acts, faults>>

Close(r, status) == record' = [record EXCEPT ![r] = status]

(* Headers and session: the user may have to authorize first, and may not.  *)
(* The gate then allows the one call whose credential was spent.            *)
Connect(r) ==
  /\ pc[r] = "connect"
  /\ \/ record[r] = "running" /\ Close(r, "oauth_required") /\ UNCHANGED pc
     \/ Close(r, "failed") /\ ApprovalGoto(r, "done")
     \/ /\ Verdict(job[r].call) # "refuse"
        /\ ApprovalGoto(r, "call") /\ UNCHANGED record
  /\ UNCHANGED <<policy, asks, tokens, view, job, acts, faults>>

(***************************************************************************)
(* The remote operation                                                    *)
(***************************************************************************)

(* The ask whose credential covers a job: none where policy allowed it.     *)
Authority(p) ==
  IF job[p].token # 0 /\ (p \in Routes \/ Verdict(job[p].call) = "approve")
  THEN tokens[job[p].token].ask ELSE 0

Act(p) ==
  acts' = Append(acts, [user |-> job[p].user, call |-> job[p].call,
                        ask |-> Authority(p), by |-> p])

(* tools/call is sent once: confirmed, refused by the server, or its outcome*)
(* stays unknown, which is reported as a failure and never retried.         *)
ApprovalCall(p) ==
  /\ pc[p] = "call"
  /\ ApprovalGoto(p, "done")
  /\ \/ /\ Act(p) /\ UNCHANGED faults
        /\ record' = IF p \in Routes THEN [record EXCEPT ![p] = "completed"] ELSE record
     \/ /\ UNCHANGED <<acts, faults>>
        /\ record' = IF p \in Routes THEN [record EXCEPT ![p] = "failed"] ELSE record
     \/ /\ Act(p) /\ Faulty
        /\ record' = IF p \in Routes THEN [record EXCEPT ![p] = "failed"] ELSE record
  /\ UNCHANGED <<policy, asks, tokens, view, job>>

(* A caller that disconnects cancels its call: sent or not.                 *)
Cancel(p) ==
  /\ Faulty /\ p \in Chats \cup Background /\ pc[p] \in {"gate", "call"}
  /\ \/ UNCHANGED acts
     \/ pc[p] = "call" /\ Act(p)
  /\ ApprovalGoto(p, "done")
  /\ UNCHANGED <<policy, asks, tokens, view, job, record>>

(* The runtime stops: calls in flight are cancelled, records are gone, and  *)
(* the next start loads the configuration again.                            *)
Restart ==
  /\ Faulty
  /\ policy' \in [Calls -> Policies]
  /\ pc' = [p \in Procs |-> IF pc[p] = "idle" THEN "idle" ELSE "done"]
  /\ record' = [r \in Routes |-> ApprovalNone]
  /\ \/ UNCHANGED acts
     \/ \E p \in Procs : pc[p] = "call" /\ Act(p)
  /\ UNCHANGED <<asks, tokens, view, job>>

(***************************************************************************)
(* Specification                                                           *)
(***************************************************************************)

RouteStep(r) == Peek(r) \/ Spend(r) \/ Start(r) \/ Connect(r) \/ ApprovalCall(r)

ApprovalNext ==
  \/ \E p \in Chats \cup Background, u \in Users, c \in Calls,
        t \in {0} \cup DOMAIN tokens : Request(p, u, c, t)
  \/ \E p \in Chats \cup Background : Gate(p) \/ ApprovalCall(p) \/ Cancel(p)
  \/ \E r \in Routes, u \in Users, c \in Calls, t \in DOMAIN tokens : Arrive(r, u, c, t)
  \/ \E r \in Routes : RouteStep(r)
  \/ \E d \in Devices : ApprovalLook(d) \/ \E v \in {"approved", "denied"} : Decide(d, v)
  \/ \E t \in DOMAIN tokens : TokenExpires(t)
  \/ \E a \in DOMAIN asks : AskExpires(a)
  \/ Restart

ApprovalSpec == ApprovalInit /\ [][ApprovalNext]_approvalVars

(***************************************************************************)
(* Properties                                                              *)
(***************************************************************************)

(* One approval is good for one remote operation: two devices, repeated     *)
(* requests, an unknown outcome and a restart never make it two (Consume,   *)
(* Decide, Call).                                                           *)
OneActPerApproval ==
  \A a \in DOMAIN asks : Cardinality({i \in DOMAIN acts : acts[i].ask = a}) <= 1

(* What is done on an approval is what its user was shown and approved, and *)
(* a denied or expired request leads to nothing (resolveMcpApprovalDecision,*)
(* validate_approval_token).                                                *)
ExactlyWhatWasApproved ==
  \A i \in DOMAIN acts : acts[i].ask # 0 =>
    LET ask == asks[acts[i].ask]
    IN  ask.state = "approved" /\ ask.user = acts[i].user /\ ask.call = acts[i].call

(* Nothing destructive happens unless the user approved it or the operator  *)
(* auto-approved it: a call without an approval was allowed by the policy at*)
(* the time (_validate_mcp_approval).                                       *)
NoUnapprovedChange ==
  [][\A i \in DOMAIN acts' \ DOMAIN acts :
       acts'[i].ask = 0 /\ acts'[i].call \in Destructive
         => policy[acts'[i].call] = "auto_approve"]_approvalVars

=============================================================================
