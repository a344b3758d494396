---------------------------- MODULE SkillMemory ----------------------------
(***************************************************************************)
(* The governed memory of the development agents: which skills a task      *)
(* starts with, how unused skills decay and are archived, and how an       *)
(* observation becomes a standing rule after the owner's review.           *)
(*   tools/skill-memory/memory.py, tools/skill-capture/capture.py          *)
(* Every command runs under one flock except the owner's review, which     *)
(* reads a proposal, waits for the owner and takes the lock only to write  *)
(* the approval.  A hash stands for what it was computed from.             *)
(***************************************************************************)
EXTENDS Integers, Sequences, FiniteSets

CONSTANTS
    Library,       \* the skills of the catalog, in name order
    PinnedSkills,  \* skills the catalog pins
    DecayDays,     \* POLICY["decay_days"]
    RuleTopK,          \* POLICY["retrieval_top_k"]
    Budget,        \* bytes of context; a trigger takes 1, a body 2 more
    Patterns,      \* pattern keys of observations
    Sources,       \* links to raw observations
    MaxDay,        \* bound: days
    MaxPromotions  \* bound: proposals

VARIABLES
    day,         \* today
    usage,       \* .learnings/state/skills.json
    retrieval,   \* the last task-start: what it ranked and what it selected
    ledger,      \* LEARNINGS.md and ERRORS.md: one row per pattern
    standing,    \* AGENTS.md: the rules it holds, in order
    proposals,   \* .learnings/proposals
    approvals,   \* .learnings/approvals
    promoting    \* the promote command in progress

ASSUME SkillMemoryAssumption ==
    /\ DecayDays \in Nat /\ RuleTopK \in Nat /\ Budget \in Nat /\ MaxPromotions \in Nat
    /\ Library \in Seq({Library[i] : i \in DOMAIN Library})
    /\ \A i, j \in DOMAIN Library : Library[i] = Library[j] => i = j

skillMemoryVars == <<day, usage, retrieval, ledger, standing, proposals, approvals, promoting>>

lifecycleVars == <<day, usage, retrieval>>

promotionVars == <<ledger, standing, proposals, approvals, promoting>>

Skills == {Library[i] : i \in DOMAIN Library}

Never == -1

NoRetrieval == [ranked |-> <<>>, selected |-> <<>>]

NobodyPromotes == [stage |-> "idle"]

\* setdefault: a skill is first seen by the command that meets it.
Seen == [s \in Skills |->
            IF usage[s].firstSeen # Never THEN usage[s]
            ELSE [firstSeen |-> day, lastUsed |-> Never, restored |-> Never,
                  archived |-> "no", pinned |-> s \in PinnedSkills]]

\* inactivity_days: restoration grants a fresh grace period.
Inactive(entry) ==
    LET dates == {entry.firstSeen, entry.lastUsed, entry.restored} \ {Never}
    IN day - (CHOOSE d \in dates : \A e \in dates : e <= d)

Expired(entry) ==
    /\ entry.archived = "no"
    /\ ~entry.pinned
    /\ Inactive(entry) >= 2 * DecayDays

\* A task-start or a sweep archives what has been unused for twice the decay.
Swept(entries) ==
    [s \in Skills |-> IF Expired(entries[s])
                      THEN [entries[s] EXCEPT !.archived = "sweep"] ELSE entries[s]]

----------------------------------------------------------------------------
(* retrieve                                                                *)

\* Words a task shares with a trigger count twice unless the skill decayed.
Weight(entry, matches) ==
    matches * (IF Inactive(entry) >= DecayDays /\ ~entry.pinned THEN 1 ELSE 2)

\* The matching skills by weight, equal weights by name.
RankedSkills(entries, matches) ==
    LET open == {i \in DOMAIN Library :
                    /\ entries[Library[i]].archived = "no"
                    /\ matches[Library[i]] > 0}
        w(i) == Weight(entries[Library[i]], matches[Library[i]])
        before(i, j) == w(i) > w(j) \/ (w(i) = w(j) /\ i < j)
        orders == {order \in [1..Cardinality(open) -> open] :
                      \A m, n \in DOMAIN order : m < n => before(order[m], order[n])}
    IN {[n \in DOMAIN order |-> Library[order[n]]] : order \in orders}

\* Each in turn with its body if that fits, else with its trigger, else not.
Cost(body) == IF body THEN 3 ELSE 1

Added(acc, skill) ==
    LET bodies == {b \in BOOLEAN : acc.used + Cost(b) <= Budget}
        body   == TRUE \in bodies
    IN IF Len(acc.rows) >= RuleTopK \/ bodies = {} THEN acc
       ELSE [rows |-> Append(acc.rows, [skill |-> skill, body |-> body]),
             used |-> acc.used + Cost(body)]

Select(ranked) ==
    LET acc[n \in 0..Len(ranked)] ==
            IF n = 0 THEN [rows |-> <<>>, used |-> 0] ELSE Added(acc[n - 1], ranked[n])
    IN acc[Len(ranked)].rows

Retrieve(matches) ==
    \E entries \in {Swept(Seen)} :
    \E ranked \in RankedSkills(entries, matches) :
    \E chosen \in {Select(ranked)} :
       /\ usage' = [s \in Skills |->
              IF \E i \in DOMAIN chosen : chosen[i].skill = s
              THEN [entries[s] EXCEPT !.lastUsed = day] ELSE entries[s]]
       /\ retrieval' = [ranked |-> ranked, selected |-> chosen]
       /\ UNCHANGED <<day, promotionVars>>

\* The context is printed and the task begins.
TaskStarted ==
    /\ retrieval # NoRetrieval
    /\ retrieval' = NoRetrieval
    /\ UNCHANGED <<day, usage, promotionVars>>

----------------------------------------------------------------------------
(* lifecycle                                                               *)

Sweep ==
    /\ usage' = Swept(Seen)
    /\ UNCHANGED <<day, retrieval, promotionVars>>

Restore(s) ==
    /\ usage' = [Seen EXCEPT ![s].archived = "no", ![s].restored = day]
    /\ UNCHANGED <<day, retrieval, promotionVars>>

Pin(s) ==
    /\ usage' = [Seen EXCEPT ![s].pinned = TRUE, ![s].archived = "no"]
    /\ UNCHANGED <<day, retrieval, promotionVars>>

Unpin(s) ==
    /\ usage' = [Seen EXCEPT ![s].pinned = FALSE]
    /\ UNCHANGED <<day, retrieval, promotionVars>>

\* A pinned skill must be unpinned first.
Archive(s) ==
    /\ ~Seen[s].pinned
    /\ usage' = [Seen EXCEPT ![s].archived = "owner"]
    /\ UNCHANGED <<day, retrieval, promotionVars>>

NextDay ==
    /\ day < MaxDay
    /\ day' = day + 1
    /\ UNCHANGED <<usage, retrieval, promotionVars>>

----------------------------------------------------------------------------
(* capture                                                                 *)

NoRow == [status |-> "none"]

\* A new pattern opens a row; a known one gains a source it did not have, and
\* nothing when the source is known.  Recurrence never implies approval.
WithSource(row, source) ==
    IF row = NoRow THEN [status |-> "open", sources |-> {source}]
    ELSE [row EXCEPT !.sources = @ \cup {source}]

Capture(pattern, source) ==
    /\ promoting = NobodyPromotes
    /\ ledger' = [ledger EXCEPT ![pattern] = WithSource(@, source)]
    /\ UNCHANGED <<lifecycleVars, standing, proposals, approvals, promoting>>

----------------------------------------------------------------------------
(* propose, review, promote                                                *)

\* The rule a row proposes, with the sources it rests on.
Rule(pattern) == [pattern |-> pattern, sources |-> ledger[pattern].sources]

\* A proposal binds the row as it is and the standing text as it is.
Propose(pattern) ==
    /\ promoting = NobodyPromotes
    /\ ledger[pattern].status = "open"
    /\ Cardinality(proposals) < MaxPromotions
    /\ proposals' = proposals \cup
           {[pattern |-> pattern, row |-> ledger[pattern], before |-> standing,
             after |-> Append(standing, Rule(pattern))]}
    /\ UNCHANGED <<lifecycleVars, ledger, standing, approvals, promoting>>

\* The owner approves the proposal read before the wait, whatever happened
\* to the row and to the standing text since.
Review(p) ==
    /\ p \notin approvals
    /\ promoting = NobodyPromotes
    /\ approvals' = approvals \cup {p}
    /\ UNCHANGED <<lifecycleVars, ledger, standing, proposals, promoting>>

\* Mutant: the receipt is enough.
StillReviewedAnyway(p) == p \in approvals

\* promote: an approved proposal whose row and whose target are unchanged.
StillReviewed(p) ==
    /\ p \in approvals
    /\ ledger[p.pattern] = p.row
    /\ standing = p.before

\* The backup is made and the standing text is written.
BeginPromote(p) ==
    /\ promoting = NobodyPromotes
    /\ StillReviewed(p)
    /\ standing' = p.after
    /\ promoting' = [stage |-> "ledger", proposal |-> p]
    /\ UNCHANGED <<lifecycleVars, ledger, proposals, approvals>>

EndPromote ==
    /\ promoting # NobodyPromotes
    /\ ledger' = [ledger EXCEPT ![promoting.proposal.pattern].status = "promoted"]
    /\ promoting' = NobodyPromotes
    /\ UNCHANGED <<lifecycleVars, standing, proposals, approvals>>

\* The ledger cannot be written: the standing text is put back.
PromoteFails ==
    /\ promoting # NobodyPromotes
    /\ standing' = promoting.proposal.before
    /\ promoting' = NobodyPromotes
    /\ UNCHANGED <<lifecycleVars, ledger, proposals, approvals>>

\* The command dies between the two writes; the rule stays and the row is
\* still open.
PromoteDies ==
    /\ promoting # NobodyPromotes
    /\ promoting' = NobodyPromotes
    /\ UNCHANGED <<lifecycleVars, ledger, standing, proposals, approvals>>

SkillMemoryInit ==
    /\ day = 0
    /\ usage = [s \in Skills |-> [firstSeen |-> Never, lastUsed |-> Never,
                    restored |-> Never, archived |-> "no",
                    pinned |-> s \in PinnedSkills]]
    /\ retrieval = NoRetrieval
    /\ ledger = [p \in Patterns |-> NoRow]
    /\ standing = <<>>
    /\ proposals = {}
    /\ approvals = {}
    /\ promoting = NobodyPromotes

\* The two halves share no state, so each is explored with the other at rest.
Skilling ==
    /\ ledger = [p \in Patterns |-> NoRow]
    /\ \/ TaskStarted
       \/ /\ retrieval = NoRetrieval
          /\ \/ \E matches \in [Skills -> 0..2] : Retrieve(matches)
             \/ Sweep
             \/ \E s \in Skills : Restore(s) \/ Pin(s) \/ Unpin(s) \/ Archive(s)
             \/ NextDay

Learning ==
    /\ day = 0
    /\ \A s \in Skills : usage[s].firstSeen = Never
    /\ \/ \E p \in Patterns :
             \/ \E source \in Sources : Capture(p, source)
             \/ Propose(p)
       \/ \E p \in proposals : Review(p) \/ BeginPromote(p)
       \/ EndPromote
       \/ PromoteFails
       \/ PromoteDies

SkillMemoryNext == Skilling \/ Learning

SkillMemorySpec == SkillMemoryInit /\ [][SkillMemoryNext]_skillMemoryVars

----------------------------------------------------------------------------
\* A skill is put away by the clock only when nothing has touched it for twice
\* the decay, a pinned one never; a task gets at most top_k skills within the
\* budget, none of them archived, and a heavier match is passed over only for
\* want of room.
SkillsKept ==
    /\ \A s \in Skills : usage[s].firstSeen # Never =>
          /\ usage[s].pinned => usage[s].archived = "no"
          /\ usage[s].archived = "sweep" =>
                \A d \in {usage[s].lastUsed, usage[s].restored} : day - d >= 2 * DecayDays \/ d = Never
    /\ LET chosen == retrieval.selected
           names  == {chosen[i].skill : i \in DOMAIN chosen}
           bodies == {i \in DOMAIN chosen : chosen[i].body}
       IN /\ Len(chosen) <= RuleTopK
          /\ Len(chosen) + 2 * Cardinality(bodies) <= Budget
          /\ \A s \in names : usage[s].archived = "no"
          /\ \A i, j \in DOMAIN retrieval.ranked :
                i < j /\ retrieval.ranked[j] \in names =>
                    retrieval.ranked[i] \in names

\* Every standing rule is one the owner approved, word for word and on the
\* text it was shown with, with the sources the row had then; a row says
\* promoted only when its rule stands; and a rule stands at most as often as
\* the owner approved a proposal for it, however often promote was repeated
\* or died half way.
RulesReviewed ==
    /\ \A n \in DOMAIN standing :
          \E p \in approvals : p.after = SubSeq(standing, 1, n)
    /\ promoting = NobodyPromotes =>
          \A p \in Patterns : ledger[p].status = "promoted" =>
              \E n \in DOMAIN standing : standing[n].pattern = p
    /\ \A p \in Patterns :
          Cardinality({n \in DOMAIN standing : standing[n].pattern = p})
              <= Cardinality({q \in approvals : q.pattern = p})

GovernedMemory == SkillsKept /\ RulesReviewed
=============================================================================
