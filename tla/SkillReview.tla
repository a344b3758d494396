---------------------------- MODULE SkillReview ----------------------------
(***************************************************************************)
(* Changes of a maintenance skill: one bounded proposal is applied in a    *)
(* worktree of its own, measured before and after, shown to the owner as   *)
(* an exact diff, committed on a candidate branch with its receipt, and    *)
(* checked again by CI when it reaches the main branch.                    *)
(*   tools/skill-loop/reviewed.py, tools/skill-eval/reviewed_gate.py       *)
(* A command holds the flock of reviewed.py from start to end, so commands *)
(* never overlap; what does overlap are the waits for a measurement, for   *)
(* hooks and for the owner, during which the worktree, the evaluator's     *)
(* files or the main branch may change, and during which the command may   *)
(* die.  A hash stands for the value it was computed from; a skill's text  *)
(* is the set of edits applied to it, "junk" an edit nobody proposed.      *)
(***************************************************************************)
EXTENDS Naturals, Sequences, FiniteSets

CONSTANTS
    Rounds,      \* round identifiers
    Ideas,       \* idea slugs of proposals
    Edits,       \* replacements a proposal can make
    MaxForeign,  \* bound: changes made behind a command's back, and deaths
    MaxCommits   \* bound: commits of the repository

VARIABLES
    commits,   \* the commits: parents, text of the skill, receipts in the tree
    main,      \* the commit the main branch points to
    gate,      \* version of tools/skill-eval and tools/skill-loop
    rounds,    \* per round: state.json, packet.json, approval.json, worktree
    history,   \* .learnings/rounds.jsonl: what was rejected or reverted
    command,   \* the command that holds the lock
    foreign    \* number of foreign changes so far

reviewVars == <<commits, main, gate, rounds, history, command, foreign>>

ReviewNone == [kind |-> "none"]

ReviewIdle == [op |-> "idle"]

\* A round before run() makes its directory and its worktree.
NoRound == [phase |-> "none"]

\* The text of the skill at a commit.
TextAt(c) == commits[c].text

\* edit_text: the text to replace must occur exactly once, which it does not
\* any more once the edit is in.
Applies(edit, text) == edit \notin text

\* A rejected or reverted row forbids the same idea, the same edits, and the
\* same change of the same skill under another name.
Repeated(idea, edit, text) ==
    \E row \in history :
        \/ row.idea = idea
        \/ row.edit = edit
        \/ row.before = text /\ row.after = text \cup {edit}

Row(r) == [idea   |-> rounds[r].idea,
           edit   |-> rounds[r].edit,
           before |-> TextAt(rounds[r].base),
           after  |-> TextAt(rounds[r].base) \cup {rounds[r].edit}]

Change(r, fields) ==
    rounds' = [rounds EXCEPT ![r] = [f \in DOMAIN @ |->
                   IF f \in DOMAIN fields THEN fields[f] ELSE @[f]]]

Stage(stage) == command' = [command EXCEPT !.stage = stage]

Release == command' = ReviewIdle

----------------------------------------------------------------------------
(* run(): one round                                                        *)

\* A proposal that was not rejected before gets a worktree on a branch of its
\* own at the current base.
BeginRound(r, idea, edit) ==
    /\ command = ReviewIdle
    /\ rounds[r] = NoRound
    /\ Applies(edit, TextAt(main))
    /\ ~Repeated(idea, edit, TextAt(main))
    /\ rounds' = [rounds EXCEPT ![r] =
           [phase |-> "evaluating", idea |-> idea, edit |-> edit, base |-> main,
            head |-> main, text |-> TextAt(main), staged |-> ReviewNone,
            receipt |-> FALSE, packet |-> ReviewNone, approval |-> ReviewNone]]
    /\ command' = [op |-> "run", r |-> r, stage |-> "before", gate |-> gate,
                   before |-> ReviewNone, after |-> ReviewNone]
    /\ UNCHANGED <<commits, main, gate, history, foreign>>

\* rollback: the worktree is restored to its base, staged and untracked files
\* included; it refuses a branch that has moved.
RolledBack(r) ==
    /\ rounds[r].head = rounds[r].base
    /\ Change(r, [phase |-> "reverted", text |-> TextAt(rounds[r].base),
                  staged |-> ReviewNone, receipt |-> FALSE])

\* Any exception of a round: rollback, then the row is appended.
RejectRound ==
    /\ RolledBack(command.r)
    /\ Stage("log")
    /\ UNCHANGED <<commits, main, gate, history, foreign>>

AppendLog ==
    /\ command # ReviewIdle
    /\ command.stage = "log"
    /\ history' = history \cup {Row(command.r)}
    /\ Release
    /\ UNCHANGED <<commits, main, gate, rounds, foreign>>

\* evaluate(before) ends with a score of the text it found, and the edits are
\* written over it.
MeasureBefore ==
    /\ command # ReviewIdle
    /\ command.stage = "before"
    /\ LET r == command.r IN
       \/ /\ Change(r, [text |-> TextAt(rounds[r].base) \cup {rounds[r].edit}])
          /\ command' = [command EXCEPT !.stage = "hooks",
                            !.before = [text |-> rounds[r].text, gate |-> gate]]
          /\ UNCHANGED <<commits, main, gate, history, foreign>>
       \/ RejectRound

\* The hooks must pass and leave the diff as it was; the second measurement
\* then reads the hash of the candidate.
RunHooks ==
    /\ command # ReviewIdle
    /\ command.stage = "hooks"
    /\ LET r == command.r
           intact == rounds[r].text = TextAt(rounds[r].base) \cup {rounds[r].edit}
       IN \/ /\ intact
             /\ command' = [command EXCEPT !.stage = "measuring",
                               !.after = [text |-> rounds[r].text, gate |-> gate]]
             /\ UNCHANGED <<commits, main, gate, rounds, history, foreign>>
          \/ RejectRound

\* The evaluator compares its own identity and the skill's hash again at the
\* end, and reports the score: a gain of 0 or 1, and the held-out suite.
MeasureAfter ==
    /\ command # ReviewIdle
    /\ command.stage = "measuring"
    /\ LET r == command.r
           valid == /\ gate = command.after.gate
                    /\ rounds[r].text = command.after.text
       IN \/ /\ valid
             /\ \E gain \in 0..1, heldout \in BOOLEAN :
                   command' = [command EXCEPT !.stage = "decide",
                       !.after = [text |-> @.text, gate |-> @.gate,
                                  gain |-> gain, heldout |-> heldout]]
             /\ UNCHANGED <<commits, main, gate, rounds, history, foreign>>
          \/ RejectRound

\* decision(): POLICY["min_gain"] is 1.
ReviewRequired(before, after) ==
    /\ before.gate = after.gate
    /\ after.heldout
    /\ after.gain >= 1

\* The judge and the candidate are compared once more; what passes becomes a
\* packet that waits for the owner, everything else is rolled back.
ReviewDecide ==
    /\ command # ReviewIdle
    /\ command.stage = "decide"
    /\ LET r == command.r IN
       IF /\ gate = command.gate
          /\ rounds[r].text = command.after.text
          /\ ReviewRequired(command.before, command.after)
       THEN /\ Change(r, [phase |-> "review_required",
                          packet |-> [kind |-> "packet", round |-> r,
                                      base |-> rounds[r].base,
                                      gate |-> command.gate,
                                      before |-> command.before,
                                      after |-> command.after]])
            /\ Release
            /\ UNCHANGED <<commits, main, gate, history, foreign>>
       ELSE RejectRound

----------------------------------------------------------------------------
(* review, accept, reject                                                  *)

\* validate_binding: the text is the base with exactly the proposed edits, and
\* the measurements are of these two texts.
Bound(r, text) ==
    LET p == rounds[r].packet
    IN /\ text = TextAt(p.base) \cup {rounds[r].edit}
       /\ p.before.text = TextAt(p.base)
       /\ p.after.text = text

\* check_workspace: the branch has not moved, the index is empty and nothing
\* is untracked.
WorkspaceClean(r) ==
    /\ rounds[r].head = rounds[r].packet.base
    /\ rounds[r].staged = ReviewNone
    /\ ~rounds[r].receipt

\* verify: everything the owner is shown still holds.
ReviewVerified(r) ==
    LET p == rounds[r].packet
    IN /\ rounds[r].phase = "review_required"
       /\ gate = p.gate
       /\ main = p.base
       /\ WorkspaceClean(r)
       /\ Bound(r, rounds[r].text)
       /\ ReviewRequired(p.before, p.after)

BeginReview(r) ==
    /\ command = ReviewIdle
    /\ rounds[r] # NoRound
    /\ ReviewVerified(r)
    /\ command' = [op |-> "review", r |-> r, stage |-> "asked"]
    /\ UNCHANGED <<commits, main, gate, rounds, history, foreign>>

\* The owner types APPROVE and the packet's hash; everything is verified a
\* second time, because the owner may have taken long.
OwnerAnswers ==
    /\ command # ReviewIdle
    /\ command.stage = "asked"
    /\ \/ /\ ReviewVerified(command.r)
          /\ Change(command.r, [approval |-> rounds[command.r].packet])
       \/ UNCHANGED rounds
    /\ Release
    /\ UNCHANGED <<commits, main, gate, history, foreign>>

BeginAccept(r) ==
    /\ command = ReviewIdle
    /\ rounds[r] # NoRound
    /\ ReviewVerified(r)
    /\ rounds[r].approval = rounds[r].packet
    /\ command' = [op |-> "accept", r |-> r, stage |-> "acceptHooks"]
    /\ UNCHANGED <<commits, main, gate, rounds, history, foreign>>

\* After the hooks everything is verified again and the receipt is written.
WriteReceipt ==
    /\ command # ReviewIdle
    /\ command.stage = "acceptHooks"
    /\ \/ /\ ReviewVerified(command.r)
          /\ Change(command.r, [receipt |-> TRUE])
          /\ Stage("stage")
       \/ UNCHANGED rounds /\ Release
    /\ UNCHANGED <<commits, main, gate, history, foreign>>

\* A failure of accept unstages, removes the receipt and keeps the candidate.
AcceptFailed ==
    /\ Change(command.r, [staged |-> ReviewNone, receipt |-> FALSE])
    /\ Release
    /\ UNCHANGED <<commits, main, gate, history, foreign>>

\* The hooks of the receipt have run: gate, base and binding are compared.
CheckBeforeStaging ==
    /\ command # ReviewIdle
    /\ command.stage = "stage"
    /\ LET r == command.r IN
       \/ /\ gate = rounds[r].packet.gate
          /\ main = rounds[r].packet.base
          /\ Bound(r, rounds[r].text)
          /\ Stage("add")
          /\ UNCHANGED <<commits, main, gate, rounds, history, foreign>>
       \/ AcceptFailed

\* git add reads the files once more.
StageCandidate ==
    /\ command # ReviewIdle
    /\ command.stage = "add"
    /\ Change(command.r, [staged |-> [kind |-> "text", text |-> rounds[command.r].text]])
    /\ Stage("commit")
    /\ UNCHANGED <<commits, main, gate, history, foreign>>

\* Mutant: the check made before the files were added is trusted.
StagedUnchecked(r) == rounds[r].staged # ReviewNone

\* What is staged, and the diff of the worktree, are the evaluated ones.
StagedAsEvaluated(r) ==
    /\ rounds[r].staged.text = rounds[r].packet.after.text
    /\ rounds[r].text = rounds[r].packet.after.text

CommitCandidate ==
    /\ command # ReviewIdle
    /\ command.stage = "commit"
    /\ LET r == command.r
           p == rounds[r].packet
       IN \/ /\ StagedAsEvaluated(r)
             /\ Len(commits) < MaxCommits
             /\ commits' = Append(commits,
                    [parents  |-> {rounds[r].head},
                     text     |-> rounds[r].staged.text,
                     receipts |-> commits[rounds[r].head].receipts \cup {p}])
             /\ Change(r, [head |-> Len(commits) + 1, staged |-> ReviewNone,
                           receipt |-> FALSE])
             /\ Stage("accepted")
             /\ UNCHANGED <<main, gate, history, foreign>>
          \/ AcceptFailed

RecordAccepted ==
    /\ command # ReviewIdle
    /\ command.stage = "accepted"
    /\ Change(command.r, [phase |-> "accepted"])
    /\ Release
    /\ UNCHANGED <<commits, main, gate, history, foreign>>

\* reject: also of a round whose command died; without a packet the row is
\* never appended, because reading packet.json fails first.
RejectCommand(r) ==
    /\ command = ReviewIdle
    /\ rounds[r] # NoRound
    /\ rounds[r].phase \notin {"accepted", "reverted"}
    /\ RolledBack(r)
    /\ command' = IF rounds[r].packet = ReviewNone THEN ReviewIdle
                  ELSE [op |-> "reject", r |-> r, stage |-> "log"]
    /\ UNCHANGED <<commits, main, gate, history, foreign>>

----------------------------------------------------------------------------
(* The main branch: check_commit_range runs in CI over every new commit.   *)

\* A merge takes the skill of one of its parents as a whole.
MergeAccepted(c) == \E p \in c.parents : c.text = TextAt(p)

\* A rollback removes one receipt and restores the snapshot it was measured on.
RevertAccepted(c, parent) ==
    \E p \in commits[parent].receipts :
        /\ c.receipts = commits[parent].receipts \ {p}
        /\ TextAt(parent) = p.after.text
        /\ c.text = TextAt(p.base)

\* A change brings exactly one receipt, made on this parent under this gate,
\* and its text is the evaluated one.
ChangeAccepted(c, parent) ==
    \E p \in c.receipts \ commits[parent].receipts :
        /\ c.receipts = commits[parent].receipts \cup {p}
        /\ p.base = parent
        /\ p.gate = gate
        /\ ReviewRequired(p.before, p.after)
        /\ c.text = p.after.text

CommitAccepted(c) ==
    IF Cardinality(c.parents) # 1
    THEN MergeAccepted(c)
    ELSE \E parent \in c.parents :
            \/ c.text = TextAt(parent)
            \/ RevertAccepted(c, parent)
            \/ ChangeAccepted(c, parent)

\* A candidate branch at the main branch's commit is fast-forwarded.
FastForward(r) ==
    /\ rounds[r] # NoRound
    /\ rounds[r].head # rounds[r].base
    /\ main \in commits[rounds[r].head].parents
    /\ CommitAccepted(commits[rounds[r].head])
    /\ main' = rounds[r].head
    /\ UNCHANGED <<commits, gate, rounds, history, command, foreign>>

\* Somebody pushes a commit of their own, or merges a candidate branch: any
\* text the authors could have produced, kept only when CI accepts it.
PushCommit(parents, text, receipts) ==
    LET c == [parents |-> parents, text |-> text, receipts |-> receipts]
    IN /\ Len(commits) < MaxCommits
       /\ foreign < MaxForeign
       /\ main \in parents
       /\ \A p \in parents \ {main} : CommitAccepted(commits[p])
       /\ CommitAccepted(c)
       /\ commits' = Append(commits, c)
       /\ main' = Len(commits) + 1
       /\ foreign' = foreign + 1
       /\ UNCHANGED <<gate, rounds, history, command>>

Pushes ==
    \/ \E text \in {TextAt(main), TextAt(main) \cup {"junk"}} :
          PushCommit({main}, text, commits[main].receipts)
    \/ \E p \in commits[main].receipts :
          PushCommit({main}, TextAt(p.base), commits[main].receipts \ {p})
    \/ \E r \in {q \in Rounds : rounds[q] # NoRound} :
          /\ rounds[r].head # rounds[r].base
          /\ \E text \in {TextAt(main), TextAt(rounds[r].head),
                          TextAt(main) \cup TextAt(rounds[r].head)} :
                PushCommit({main, rounds[r].head}, text,
                    commits[main].receipts \cup commits[rounds[r].head].receipts)

\* Somebody edits a candidate's files, in either direction.
Tamper(r) ==
    /\ foreign < MaxForeign
    /\ rounds[r] # NoRound
    /\ rounds[r].phase # "reverted"
    /\ Change(r, [text |-> IF "junk" \in rounds[r].text
                           THEN rounds[r].text \ {"junk"}
                           ELSE rounds[r].text \cup {"junk"}])
    /\ foreign' = foreign + 1
    /\ UNCHANGED <<commits, main, gate, history, command>>

\* Somebody edits the evaluator or the loop.
ChangeGate ==
    /\ foreign < MaxForeign
    /\ gate' = gate + 1
    /\ foreign' = foreign + 1
    /\ UNCHANGED <<commits, main, rounds, history, command>>

\* The command's process dies; the flock goes with it.
Die ==
    /\ foreign < MaxForeign
    /\ command # ReviewIdle
    /\ Release
    /\ foreign' = foreign + 1
    /\ UNCHANGED <<commits, main, gate, rounds, history>>

----------------------------------------------------------------------------
ReviewInit ==
    /\ commits = <<[parents |-> {}, text |-> {}, receipts |-> {}]>>
    /\ main = 1
    /\ gate = 0
    /\ rounds = [r \in Rounds |-> NoRound]
    /\ history = {}
    /\ command = ReviewIdle
    /\ foreign = 0

ReviewNext ==
    \/ \E r \in Rounds :
          \/ \E i \in Ideas, e \in Edits : BeginRound(r, i, e)
          \/ BeginReview(r)
          \/ BeginAccept(r)
          \/ RejectCommand(r)
          \/ FastForward(r)
          \/ Tamper(r)
    \/ MeasureBefore
    \/ RunHooks
    \/ MeasureAfter
    \/ ReviewDecide
    \/ AppendLog
    \/ OwnerAnswers
    \/ WriteReceipt
    \/ CheckBeforeStaging
    \/ StageCandidate
    \/ CommitCandidate
    \/ RecordAccepted
    \/ Pushes
    \/ ChangeGate
    \/ Die

ReviewSpec == ReviewInit /\ [][ReviewNext]_reviewVars

----------------------------------------------------------------------------
\* The packets the owner approved.
Approved == {rounds[r].approval : r \in {q \in Rounds : rounds[q] # NoRound}}
                \ {ReviewNone}

\* Whatever changes while a command waits and wherever it dies: a commit that
\* changes the skill holds exactly the text that was measured with a gain and a
\* passing held-out suite and that the owner approved, on the text it was
\* measured against, or restores the text before such a change; a round
\* commits at most once, never after it was rolled back, and an idea the
\* history rejects is not under evaluation again.
SkillChangesEarned ==
    /\ \A c \in 2..Len(commits) :
          \/ \E p \in commits[c].parents : TextAt(c) = TextAt(p)
          \/ \E p \in Approved :
                /\ TextAt(c) = p.after.text
                /\ commits[c].parents = {p.base}
                /\ p.before.text = TextAt(p.base)
                /\ ReviewRequired(p.before, p.after)
          \/ \E p \in Approved :
                /\ TextAt(c) = TextAt(p.base)
                /\ \A parent \in commits[c].parents : TextAt(parent) = p.after.text
    /\ \A r \in Rounds : rounds[r] # NoRound =>
          /\ Cardinality({c \in 2..Len(commits) :
                 /\ rounds[r].packet \in commits[c].receipts
                 /\ commits[c].parents = {rounds[r].base}
                 /\ TextAt(c) # TextAt(rounds[r].base)}) <= 1
          /\ rounds[r].phase = "reverted" => rounds[r].head = rounds[r].base
    /\ command # ReviewIdle /\ command.op = "run" /\ command.stage # "log" =>
          \A row \in history : row.idea # rounds[command.r].idea
=============================================================================
