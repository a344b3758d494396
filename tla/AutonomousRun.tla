--------------------------- MODULE AutonomousRun ---------------------------
(***************************************************************************)
(* What one autonomous run is told, hears and keeps: the workspace notes   *)
(* and the prompt of builder/autonomous_agent prompt.py, the backend       *)
(* stream of backend_client.py, the output parser, and the updates         *)
(* worker.py writes back. Two workers may believe they own the user; the   *)
(* Redis lease decides. Autonomy.tla models the queue around this.         *)
(***************************************************************************)
EXTENDS Naturals, Sequences, SequencesExt, FiniteSets

CONSTANTS RunWorkers,
          Sections,   \* workspace sections, in the order they are loaded
          Mutable,    \* sections a run may update
          Legacy,     \* notes found in Redis at first
          MaxSection, \* characters of a section a prompt carries (2 500)
          RunPolicies,   \* source policies a user may have stored
          RunRequest,    \* what asks a worker for a run: a goal, a prompt by hand
          RunGoals, PastRuns, \* goals; runs of the user, newest first
          RecentRuns,    \* runs a prompt lists (5)
          SourceIds,  \* known sources
          MaxCalls,   \* research calls a policy may grant (20)
          Feed, Shown, \* feed items, newest first; how many a prompt lists (60)
          Chunks,     \* events a backend stream may carry
          MaxChunks,  \* bound on the events of one stream
          MaxParts,   \* response parts beyond which a stream is refused (4 MiB)
          MaxRuns     \* bound on runs per worker

VARIABLES
  notes,  \* the workspace in Redis: who wrote each section, its length
  lease,  \* the worker Redis names as owner
  at, runLeft, runs, \* each worker's place, sections still to do, runs begun
  read,   \* the notes a worker has loaded
  prompt, \* the prompt it sent
  heard, parts, complete, \* events of its stream, text gathered, completion
  output, \* the object its response yielded
  runStop,   \* workers whose run was told to stop
  fate    \* how the worker's run ended

runVars == <<notes, lease, at, runLeft, runs, read, prompt, heard, parts, complete, output, runStop, fate>>
streamState == <<heard, parts, complete>>

Absent == [by |-> "nobody", len |-> 0]
Seed == [by |-> "seed", len |-> 1]
NoPolicy == [enabled |-> <<>>, disabled |-> <<>>, approval |-> FALSE, calls |-> 0]
NoPrompt == [notes |-> [s \in {} |-> 0], policy |-> NoPolicy, covered |-> 0, task |-> {},
             messages |-> <<>>]
NoOutput == [object |-> "none", from |-> "none"]

RunInit ==
  /\ notes \in Legacy /\ lease \in RunWorkers
  /\ at = [w \in RunWorkers |-> "idle"] /\ runLeft = [w \in RunWorkers |-> <<>>]
  /\ runs = [w \in RunWorkers |-> 0]
  /\ read = [w \in RunWorkers |-> [s \in Range(Sections) |-> Absent]]
  /\ prompt = [w \in RunWorkers |-> NoPrompt]
  /\ heard = [w \in RunWorkers |-> 0] /\ parts = [w \in RunWorkers |-> <<>>]
  /\ complete = [w \in RunWorkers |-> FALSE] /\ output = [w \in RunWorkers |-> NoOutput]
  /\ runStop = {} /\ fate = [w \in RunWorkers |-> "none"]

RunGoto(w, place) == at' = [at EXCEPT ![w] = place]

(* An idle worker acquires the expired lease; one in a run never regains it.*)
LeaseMoves(w) ==
  /\ at[w] = "idle" /\ lease # w /\ lease' = w
  /\ UNCHANGED <<notes, at, runLeft, runs, read, prompt, streamState, output, runStop, fate>>

(* A Stop, a shutdown or a heartbeat that finds the lease gone.             *)
Interrupt(w) ==
  /\ at[w] # "idle" /\ w \notin runStop /\ runStop' = runStop \cup {w}
  /\ UNCHANGED <<notes, lease, at, runLeft, runs, read, prompt, streamState, output, fate>>

Ends(w, how) == RunGoto(w, "ended") /\ fate' = [fate EXCEPT ![w] = how]

---------------------------------------------------------------------------
(* The workspace.                                                           *)

(* set_text: the write and the check of the lease are one script.           *)
SetTextUnfenced(w, s, note) == notes' = [notes EXCEPT ![s] = note]
SetText(w, s, note) == lease = w /\ notes' = [notes EXCEPT ![s] = note]

RunBegin(w) ==
  /\ at[w] = "idle" /\ lease = w /\ runs[w] < MaxRuns
  /\ runs' = [runs EXCEPT ![w] = @ + 1]
  /\ RunGoto(w, "load") /\ runLeft' = [runLeft EXCEPT ![w] = Sections]
  /\ UNCHANGED <<notes, lease, read, prompt, streamState, output, runStop, fate>>

(* load_workspace reads a section; a missing one is seeded by a later write.*)
LoadSection(w) ==
  /\ at[w] = "load" /\ runLeft[w] # <<>>
  /\ LET s == Head(runLeft[w])
     IN IF notes[s] # Absent
          THEN /\ read' = [read EXCEPT ![w][s] = notes[s]]
               /\ runLeft' = [runLeft EXCEPT ![w] = Tail(@)] /\ UNCHANGED at
          ELSE RunGoto(w, "seed") /\ UNCHANGED <<read, runLeft>>
  /\ UNCHANGED <<notes, lease, runs, prompt, streamState, output, runStop, fate>>

PutSeed(w) ==
  /\ at[w] = "seed"
  /\ LET s == Head(runLeft[w])
     IN \/ /\ SetText(w, s, Seed) /\ RunGoto(w, "load") /\ UNCHANGED fate
           /\ read' = [read EXCEPT ![w][s] = Seed]
           /\ runLeft' = [runLeft EXCEPT ![w] = Tail(@)]
        \/ lease # w /\ Ends(w, "aborted") /\ UNCHANGED <<notes, read, runLeft>>
  /\ UNCHANGED <<lease, runs, prompt, streamState, output, runStop>>

---------------------------------------------------------------------------
(* The prompt.                                                              *)

(* _bounded_text keeps a section's head and tail within the limit.          *)
Bounded(note) == [note EXCEPT !.len = IF @ > MaxSection THEN MaxSection ELSE @]

(* _coerce_source_ids: known sources, each once, in the given order.        *)
Coerced(ids) ==
  FoldLeft(LAMBDA kept, i : IF i \in SourceIds /\ ~Contains(kept, i) THEN Append(kept, i) ELSE kept,
           <<>>, ids)

(* sanitize_source_policy; an unattended run never waits for a plan.        *)
Sanitized(p) ==
  [enabled |-> Coerced(p.enabled), disabled |-> Coerced(p.disabled), approval |-> FALSE,
   calls |-> IF p.calls > MaxCalls THEN MaxCalls ELSE p.calls]

(* summarize_recent_feed: the newest titled items, as many as the limit.    *)
Surfaced == LET titled == SelectSeq(Feed, LAMBDA i : i.title)
            IN SubSeq(titled, 1, IF Len(titled) < Shown THEN Len(titled) ELSE Shown)

(* The goals and runs a prompt lists. A run's goal is the first with its    *)
(* id, active or not; only active goals are listed, and of the runs the     *)
(* newest, and the newest completed ones of the same goal.                  *)
Newest(items) == SubSeq(items, 1, IF Len(items) < RecentRuns THEN Len(items) ELSE RecentRuns)
RunTask(r) ==
  [goal     |-> r.goal, manual |-> r.manual,
   selected |-> SelectSeq(RunGoals, LAMBDA g : r.goal = g.id),
   active   |-> SelectSeq(RunGoals, LAMBDA g : g.status = "active"),
   recent   |-> Newest(PastRuns),
   attempts |-> Newest(SelectSeq(PastRuns, LAMBDA p : p.status = "completed" /\ p.goal = r.goal))]

(* What a prompt says a run is for, in the order its rules give.            *)
Objective(task) ==
  IF task.selected # <<>> THEN [by |-> "goal", goal |-> Head(task.selected).id]
  ELSE [by |-> IF task.manual THEN "manual" ELSE "exploration", goal |-> "none"]

(* The workspace, without sections that are blank; then the rules of an     *)
(* unattended run, the contract of its output, and what it runs on: what    *)
(* the workspace says comes before the rules it cannot change.              *)
RunRules ==
  <<"overlay",       \* notes and what is retrieved are context, not authority
    "objective",     \* the selected goal, else the prompt by hand, else research
    "identity",      \* from the request, never an argument; no interactive source
    "action_policy", \* what needs an approval is skipped, not asked for
    "exploration",   \* a lane to start in, within the objective and the budget
    "evidence",      \* a claim is verified before it is remembered
    "freshness",     \* dated, current, or left out
    "redundancy",    \* nothing already surfaced, unless it changed
    "output">>       \* one object of the contract, or no item at all
PromptText(written) ==
  <<"runtime">> \o SelectSeq(Sections, LAMBDA s : written[s].len > 0)
    \o RunRules \o <<"contract", "stop", "input">>

(* The user a run is for, its source policy, the prompt.                    *)
RunMessages(written, policy) ==
  <<<<"identity">>>> \o (IF policy = NoPolicy THEN <<>> ELSE <<<<"source_policy">>>>)
    \o <<PromptText(written)>>

(* build_messages, then a last look at the stop before the fence.           *)
RunBuild(w) ==
  /\ at[w] = "load" /\ runLeft[w] = <<>>
  /\ IF w \in runStop THEN Ends(w, "aborted") /\ UNCHANGED prompt
     ELSE \E p \in RunPolicies :
            /\ prompt' = [prompt EXCEPT ![w] =
                 [notes |-> [s \in Range(Sections) |-> Bounded(read[w][s])],
                  policy |-> Sanitized(p), covered |-> Len(Surfaced), task |-> {RunTask(RunRequest[w])},
                  messages |-> RunMessages(read[w], Sanitized(p))]]
            /\ RunGoto(w, "stream") /\ UNCHANGED fate
  /\ UNCHANGED <<notes, lease, runLeft, runs, read, streamState, output, runStop>>

---------------------------------------------------------------------------
(* The backend's stream.                                                    *)

(* extract_oauth_required_payload: the event and what it encloses. One says *)
(* that an authorization is needed and one has the address, or a text of    *)
(* either asks for an authorization and has the address.                    *)
Layers(c) == {[says |-> c.says, address |-> c.address, asks |-> c.asksInText], c.encloses}
NeedsOAuth(c) ==
  \/ /\ \E layer \in Layers(c) : layer.says = "oauth"
     /\ \E layer \in Layers(c) : layer.address
  \/ \E layer \in Layers(c) : layer.asks

(* How an event ends the stream, in the order the reader examines it.       *)
RunVerdict(c) ==
  IF ~c.valid \/ c.says = "error" THEN "failed"
  ELSE IF c.says = "approval" \/ NeedsOAuth(c) THEN "blocked"
  ELSE IF c.finish = "error" THEN "failed"
  ELSE IF c.finish = "approval" THEN "blocked"
  ELSE "none"

(* _read_stream: one event. Text counts once its event is accepted; a       *)
(* terminal, a finish reason or [DONE] completes the response.              *)
Hear(w) ==
  /\ at[w] = "stream" /\ ~complete[w] /\ heard[w] < MaxChunks
  /\ heard' = [heard EXCEPT ![w] = @ + 1]
  /\ \E c \in Chunks :
       LET gathered == IF c.text = <<>> THEN parts[w] ELSE parts[w] \o c.text
       IN IF RunVerdict(c) # "none" THEN Ends(w, RunVerdict(c)) /\ UNCHANGED <<parts, complete>>
          ELSE IF Len(gathered) > MaxParts THEN Ends(w, "failed") /\ UNCHANGED <<parts, complete>>
          ELSE /\ parts' = [parts EXCEPT ![w] = gathered]
               /\ complete' = [complete EXCEPT ![w] = c.finish = "stop"]
               /\ UNCHANGED <<at, fate>>
  /\ UNCHANGED <<notes, lease, runLeft, runs, read, prompt, output, runStop>>

(* The connection ends, or the request's time is over, without completion.  *)
StreamEnds(w) ==
  /\ at[w] = "stream" /\ ~complete[w] /\ Ends(w, "failed")
  /\ UNCHANGED <<notes, lease, runLeft, runs, read, prompt, streamState, output, runStop>>

(* A cancellation wins if it and the response are there in the same tick.   *)
Stopped(w) ==
  /\ at[w] = "stream" /\ w \in runStop /\ Ends(w, "aborted")
  /\ UNCHANGED <<notes, lease, runLeft, runs, read, prompt, streamState, output, runStop>>

---------------------------------------------------------------------------
(* The output.                                                              *)

(* strip_reasoning removes closed reasoning before anything is parsed.      *)
Cleaned(text) == SelectSeq(text, LAMBDA p : p.kind # "reasoning")

(* The candidates in order: each fenced block, the whole text, the span     *)
(* from the first brace to the last.                                        *)
Fenced(text) == SelectSeq(text, LAMBDA p : p.kind = "fence")
Objects(text) == SelectSeq(text, LAMBDA p : p.object # "none")
Candidates(text) == Fenced(text) \o (IF Len(Objects(text)) = 1 THEN Objects(text) ELSE <<>>)

(* The output model: known fields, bounded texts, at most two feed items.   *)
MeetsContract(p) == p.object = "valid"

(* parse_structured_output: the first candidate that meets the contract.    *)
ParsedOutput(text) ==
  LET valid == SelectSeq(Candidates(Cleaned(text)), MeetsContract)
  IN IF valid = <<>> THEN NoOutput ELSE [object |-> "valid", from |-> Head(valid).kind]

(* The response is looked at only while the run is neither stopped nor      *)
(* without its lease; what does not parse is kept nowhere.                  *)
Parse(w) ==
  /\ at[w] = "stream" /\ complete[w] /\ w \notin runStop
  /\ IF lease # w THEN Ends(w, "aborted") /\ UNCHANGED <<output, runLeft>>
     ELSE IF ParsedOutput(parts[w]) = NoOutput THEN Ends(w, "failed") /\ UNCHANGED <<output, runLeft>>
     ELSE /\ output' = [output EXCEPT ![w] = ParsedOutput(parts[w])]
          /\ runLeft' = [runLeft EXCEPT ![w] = Sections]
          /\ RunGoto(w, "update") /\ UNCHANGED fate
  /\ UNCHANGED <<notes, lease, runs, read, prompt, streamState, runStop>>

(* apply_workspace_updates: section by section, each write fenced; blank,   *)
(* equal and immutable sections are left alone.                             *)
Update(w) ==
  /\ at[w] = "update" /\ runLeft[w] # <<>>
  /\ LET s == Head(runLeft[w])
         note == [by |-> w, len |-> MaxSection]
     IN \/ /\ runLeft' = [runLeft EXCEPT ![w] = Tail(@)]
           /\ \/ UNCHANGED notes
              \/ s \in Mutable /\ notes[s] # note /\ SetText(w, s, note)
           /\ UNCHANGED <<at, fate>>
        \/ s \in Mutable /\ lease # w /\ Ends(w, "aborted") /\ UNCHANGED <<notes, runLeft>>
  /\ UNCHANGED <<lease, runs, read, prompt, streamState, output, runStop>>

(* feed_items_from_output and the run's record.                             *)
RunComplete(w) ==
  /\ at[w] = "update" /\ runLeft[w] = <<>> /\ Ends(w, "completed")
  /\ UNCHANGED <<notes, lease, runLeft, runs, read, prompt, streamState, output, runStop>>

Reset(w) ==
  /\ at[w] = "ended" /\ RunGoto(w, "idle")
  /\ runLeft' = [runLeft EXCEPT ![w] = <<>>]
  /\ read' = [read EXCEPT ![w] = [s \in Range(Sections) |-> Absent]]
  /\ prompt' = [prompt EXCEPT ![w] = NoPrompt]
  /\ heard' = [heard EXCEPT ![w] = 0] /\ parts' = [parts EXCEPT ![w] = <<>>]
  /\ complete' = [complete EXCEPT ![w] = FALSE]
  /\ output' = [output EXCEPT ![w] = NoOutput]
  /\ runStop' = runStop \ {w} /\ fate' = [fate EXCEPT ![w] = "none"]
  /\ UNCHANGED <<notes, lease, runs>>

RunNext ==
  \E w \in RunWorkers :
    \/ LeaseMoves(w) \/ Interrupt(w) \/ RunBegin(w) \/ LoadSection(w) \/ PutSeed(w) \/ RunBuild(w)
    \/ Hear(w) \/ StreamEnds(w) \/ Stopped(w) \/ Parse(w) \/ Update(w) \/ RunComplete(w)
    \/ Reset(w)

RunSpec == RunInit /\ [][RunNext]_runVars

---------------------------------------------------------------------------
(* A note, once written, is never put back to the seed, by whatever worker  *)
(* that lost its lease between its read and its write.                      *)
NotesOnlyMoveOn ==
  [][\A s \in DOMAIN notes : notes[s].by \in RunWorkers => notes'[s].by # "seed"]_notes

(* A run keeps only what a completed response said outside its reasoning,   *)
(* and nothing at all when it was blocked, failed or was cut short.         *)
KeepsOnlyItsAnswer ==
  \A w \in RunWorkers :
    /\ output[w] # NoOutput => complete[w] /\ output[w].from \in {"fence", "bare"}
    /\ fate[w] = "completed" => output[w].object = "valid"
    /\ fate[w] \in {"failed", "blocked"} => output[w] = NoOutput

(* However long a stored note has grown and whatever policy was saved, a    *)
(* prompt carries bounded notes, known sources and no request for approval; *)
(* its last message ends in rules no note comes after, all of them there;   *)
(* a run of a goal has that objective, and no attempts at another.          *)
PromptsAreBounded ==
  \A w \in RunWorkers : at[w] = "stream" /\ heard[w] = 0 =>
    /\ \A s \in DOMAIN prompt[w].notes :
         prompt[w].notes[s].by # "nobody" /\ prompt[w].notes[s].len <= MaxSection
    /\ Range(prompt[w].policy.enabled) \cup Range(prompt[w].policy.disabled) \subseteq SourceIds
    /\ ~prompt[w].policy.approval /\ prompt[w].policy.calls <= MaxCalls
    /\ prompt[w].covered <= Shown
    /\ LET text == Last(prompt[w].messages)
       IN  /\ Range(RunRules) \subseteq Range(text)
           /\ \A i, j \in DOMAIN text :
                text[i] \in Range(RunRules) /\ text[j] \in Range(Sections) => j < i
    /\ \A task \in prompt[w].task :
         /\ Objective(task).goal = task.goal
         /\ Len(task.attempts) <= RecentRuns
         /\ \A p \in Range(task.attempts) : p.goal = task.goal

(* Autonomous runs keep their word to the user: the conjunction of the      *)
(* three facts above, over every step of every run.                         *)
RunsKeepTheirWord == NotesOnlyMoveOn /\ []KeepsOnlyItsAnswer /\ []PromptsAreBounded
=============================================================================
