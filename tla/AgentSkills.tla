----------------------------- MODULE AgentSkills -----------------------------
(***************************************************************************)
(* The agent-skills tool: the catalogue discovered once, instructions and  *)
(* resources loaded from it while the files change, and a bundled script   *)
(* run as a child process whose two pipes share one output budget          *)
(* (builder/agent_skills, builder/daedalus_runtime/processes.py).          *)
(***************************************************************************)
EXTENDS Naturals, FiniteSets, Sequences, FiniteSetsExt

CONSTANTS SkillCalls,   \* tool calls
          SkillAsked,   \* the requests a call may be made with
          Folders,      \* the skill directories in the order they are scanned
          Frontmatter,  \* per folder: its declared name, or "invalid"
          DailyName,    \* the skill whose required references come along
          Bundled,      \* those references
          Operations,   \* config.enabled_operations
          AllowScripts, \* config.allow_script_execution
          Extensions,   \* config.allowed_script_extensions
          OutputLimit,  \* _MAX_SCRIPT_OUTPUT_BYTES
          SkillChunk,        \* most bytes one read returns
          SkillMaxEdits      \* edits of the files on disk, all of one skill

(* Folders are scanned in order, and a read returns some of what a script   *)
(* writes.                                                                  *)
ASSUME SkillsAssumption ==
  /\ Folders \in Seq(DOMAIN Frontmatter) /\ OutputLimit \in Nat /\ SkillChunk \in Nat
  /\ \A c \in SkillCalls : \A r \in SkillAsked[c] :
       /\ r.output \in [{"stdout", "stderr"} -> Nat]
       /\ r.helper \in BOOLEAN /\ r.escaped \in BOOLEAN

VARIABLES
  disk,     \* per folder: the edition of its files and the resources present
  catalog,  \* skill name -> folder, for the names discovered
  cached,   \* skill name -> edition of the cached instructions, 0 when not cached
  call,     \* stage of a call and its request
  script,   \* the running script of a call
  skillReader,   \* the two capture tasks of a call
  captured, \* the bytes kept of each stream
  budget,   \* the bytes a call may still keep
  events    \* history: load events notified, by call

skillsVars == <<disk, catalog, cached, call, script, skillReader, captured, budget, events>>

SkillStreams == {"stdout", "stderr"}
Zero == [s \in SkillStreams |-> 0]
NoScript ==
  [running |-> FALSE, helper |-> FALSE, escaped |-> FALSE, todo |-> Zero, pipe |-> Zero,
   wrote |-> Zero]
Reader(state, asked) == [s \in SkillStreams |-> [state |-> state, asked |-> asked]]
Waiting == [stage |-> "idle", answer |-> "none"]

(* _parse_frontmatter: a name and a description in the allowed form.        *)
ValidSkill(f) == Frontmatter[f] # "invalid"

(* discover_skills: a later directory replaces an earlier one of its name.  *)
Discovered ==
  [n \in {Frontmatter[Folders[i]] : i \in {j \in DOMAIN Folders : ValidSkill(Folders[j])}} |->
     Folders[Max({i \in DOMAIN Folders : Frontmatter[Folders[i]] = n})]]

SkillsInit ==
  /\ disk = [i \in {Folders[j] : j \in DOMAIN Folders} |-> [edition |-> 1, files |-> Bundled]]
  /\ catalog = Discovered /\ cached = [n \in DOMAIN Discovered |-> 0]
  /\ call = [c \in SkillCalls |-> Waiting] /\ script = [c \in SkillCalls |-> NoScript]
  /\ skillReader = [c \in SkillCalls |-> Reader("none", 0)]
  /\ captured = [c \in SkillCalls |-> Zero] /\ budget = [c \in SkillCalls |-> OutputLimit]
  /\ events = [c \in SkillCalls |-> {}]

Ends(c, answer) == call' = [call EXCEPT ![c].stage = "ended", ![c].answer = answer]
SkillUntouched == UNCHANGED <<disk, catalog, script, skillReader, captured, budget>>

(* Operations that are not enabled, and requests that name no skill, are    *)
(* answered without touching anything.                                      *)
Objection(r) ==
  \/ r.operation \notin Operations
  \/ r.operation # "list_skills" /\ r.skill = ""
  \/ r.operation = "run_skill_script" /\ (~AllowScripts \/ r.file = "")
SkillRefuse(c, r) == Objection(r) /\ Ends(c, "refused") /\ UNCHANGED <<cached, events>> /\ SkillUntouched

(* _list_skills.                                                            *)
List(c, r) ==
  /\ ~Objection(r) /\ r.operation = "list_skills"
  /\ Ends(c, "listed") /\ UNCHANGED <<cached, events>> /\ SkillUntouched

Present(f, path) == path \in disk[f].files

(* get_skill_resource: inside the skill's directory, an existing text file. *)
LoadResource(c, r) ==
  /\ ~Objection(r) /\ r.operation = "load_skill" /\ r.file # ""
  /\ Ends(c, IF r.skill \notin DOMAIN catalog THEN "not_found"
             ELSE IF r.place = "inside" /\ Present(catalog[r.skill], r.file) THEN "resource" ELSE "error")
  /\ UNCHANGED <<cached, events>> /\ SkillUntouched

(* get_skill_instructions: read once, then from the cache.                  *)
Instructions(n) == IF cached[n] > 0 THEN cached[n] ELSE disk[catalog[n]].edition

(* _load_skill: the instructions, for the daily summary with all of its     *)
(* required references, and one event when the load succeeded.              *)
LoadSkill(c, r) ==
  /\ ~Objection(r) /\ r.operation = "load_skill" /\ r.file = "" /\ SkillUntouched
  /\ \/ r.skill \notin DOMAIN catalog /\ Ends(c, "not_found") /\ UNCHANGED <<cached, events>>
     \/ /\ r.skill \in DOMAIN catalog
        /\ cached' = [cached EXCEPT ![r.skill] = Instructions(r.skill)]
        /\ \/ /\ r.skill = DailyName /\ ~(Bundled \subseteq disk[catalog[r.skill]].files)
              /\ Ends(c, "error") /\ UNCHANGED events
           \/ /\ r.skill = DailyName => Bundled \subseteq disk[catalog[r.skill]].files
              /\ Ends(c, "loaded")
              /\ events' = [events EXCEPT ![c] = @ \cup
                   {[skill |-> r.skill, edition |-> Instructions(r.skill),
                     folder |-> catalog[r.skill]]}]

(* resolve_script_path and the extension allowlist, then the child in its   *)
(* own session with a reader per pipe; the spawn itself may fail.           *)
Runnable(r) == r.skill \in DOMAIN catalog /\ r.place = "inside" /\ r.extension \in Extensions

RunScript(c, r) ==
  /\ ~Objection(r) /\ r.operation = "run_skill_script"
  /\ UNCHANGED <<disk, catalog, cached, captured, budget, events>>
  /\ \/ ~Runnable(r) /\ Ends(c, "error") /\ UNCHANGED <<script, skillReader>>
     \/ Runnable(r) /\ Ends(c, "spawn_failed") /\ UNCHANGED <<script, skillReader>>
     \/ /\ Runnable(r) /\ call' = [call EXCEPT ![c].stage = "running"]
        /\ script' = [script EXCEPT ![c] =
             [running |-> TRUE, helper |-> r.helper, escaped |-> r.escaped, todo |-> r.output,
              pipe |-> Zero, wrote |-> Zero]]
        /\ skillReader' = [skillReader EXCEPT ![c] = Reader("ready", 0)]

SkillDispatch(c) ==
  /\ call[c].stage = "idle"
  /\ \E r \in SkillAsked[c] :
       SkillRefuse(c, r) \/ List(c, r) \/ LoadResource(c, r) \/ LoadSkill(c, r) \/ RunScript(c, r)

(* The script: it writes to its pipes and exits; a helper it left in its    *)
(* group goes on until it is done or killed, one that made its own session  *)
(* holds the pipes open as long as it likes.                                *)
SkillWrite(c, s) ==
  /\ (script[c].running \/ script[c].helper) /\ script[c].todo[s] > 0
  /\ script' = [script EXCEPT ![c].todo[s] = @ - 1, ![c].pipe[s] = @ + 1,
                              ![c].wrote[s] = @ + 1]
  /\ UNCHANGED <<disk, catalog, cached, call, skillReader, captured, budget, events>>
ScriptExits(c) ==
  /\ script[c].running
  /\ script' = [script EXCEPT ![c].running = FALSE,
                              ![c].todo = IF script[c].helper THEN @ ELSE Zero]
  /\ UNCHANGED <<disk, catalog, cached, call, skillReader, captured, budget, events>>
HelperExits(c) ==
  /\ script[c].helper /\ script[c].todo = Zero /\ script' = [script EXCEPT ![c].helper = FALSE]
  /\ UNCHANGED <<disk, catalog, cached, call, skillReader, captured, budget, events>>
EscapedExits(c) ==
  /\ script[c].escaped /\ script' = [script EXCEPT ![c].escaped = FALSE]
  /\ UNCHANGED <<disk, catalog, cached, call, skillReader, captured, budget, events>>
Closed(c) == ~script[c].running /\ ~script[c].helper /\ ~script[c].escaped

(* capture: a read asks for one byte more than the budget it saw; what it   *)
(* keeps is bounded by the budget left when the bytes arrive, since the     *)
(* other reader may have spent some meanwhile.                              *)
SkillAsk(c, s) ==
  /\ call[c].stage = "running" /\ skillReader[c][s].state = "ready"
  /\ skillReader' = [skillReader EXCEPT ![c][s] = [state |-> "reading", asked |-> Min({SkillChunk, budget[c] + 1})]]
  /\ UNCHANGED <<disk, catalog, cached, call, script, captured, budget, events>>

(* Mutant: what was asked for is kept.                                      *)
KeptAsAsked(c, s, n) == Min({n, skillReader[c][s].asked})

SkillKept(c, s, n) == Min({n, budget[c]})

SkillReceive(c, s) ==
  LET n == Min({script[c].pipe[s], skillReader[c][s].asked})
      kept == SkillKept(c, s, n)
  IN /\ call[c].stage = "running" /\ skillReader[c][s].state = "reading" /\ n > 0
     /\ captured' = [captured EXCEPT ![c][s] = @ + kept]
     /\ budget' = [budget EXCEPT ![c] = @ - Min({kept, @})]
     /\ script' = [script EXCEPT ![c].pipe[s] = @ - n]
     /\ skillReader' = [skillReader EXCEPT ![c][s] =
                                 [state |-> IF n > kept THEN "over" ELSE "ready", asked |-> 0]]
     /\ UNCHANGED <<disk, catalog, cached, call, events>>
EndOfStream(c, s) ==
  /\ call[c].stage = "running" /\ skillReader[c][s].state = "reading" /\ script[c].pipe[s] = 0 /\ Closed(c)
  /\ skillReader' = [skillReader EXCEPT ![c][s].state = "done"]
  /\ UNCHANGED <<disk, catalog, cached, call, script, captured, budget, events>>

(* kill_process_group: everything in the child's session, in one step.      *)
Killed(c) == [script[c] EXCEPT !.running = FALSE, !.helper = FALSE, !.todo = Zero]

(* The finally block: the group is killed, the readers are cancelled, the   *)
(* child is reaped. It follows the end of both streams and of the child, a  *)
(* reader over the limit, the timeout and the cancellation of the call.     *)
Outcome(c) ==
  CASE \E s \in SkillStreams : skillReader[c][s].state = "over" -> {"limit", "timeout", "cancelled"}
    [] (\A s \in SkillStreams : skillReader[c][s].state = "done") /\ ~script[c].running ->
         {"ran", "timeout", "cancelled"}
    [] OTHER -> {"timeout", "cancelled"}

Cleanup(c) ==
  /\ call[c].stage = "running"
  /\ \E answer \in Outcome(c) : Ends(c, answer)
  /\ script' = [script EXCEPT ![c] = Killed(c)]
  /\ skillReader' = [skillReader EXCEPT ![c] = Reader("gone", 0)]
  /\ UNCHANGED <<disk, catalog, cached, captured, budget, events>>

(* A skill's files change on disk while the runtime serves.                 *)
SkillEdit(f) ==
  /\ disk[f].edition <= SkillMaxEdits /\ \A g \in DOMAIN disk \ {f} : disk[g].edition = 1
  /\ \E files \in SUBSET Bundled :
       disk' = [disk EXCEPT ![f] = [edition |-> @.edition + 1, files |-> files]]
  /\ UNCHANGED <<catalog, cached, call, script, skillReader, captured, budget, events>>

SkillsNext ==
  \/ \E c \in SkillCalls :
       \/ SkillDispatch(c) \/ ScriptExits(c) \/ HelperExits(c) \/ EscapedExits(c) \/ Cleanup(c)
       \/ \E s \in SkillStreams : SkillWrite(c, s) \/ SkillAsk(c, s) \/ SkillReceive(c, s) \/ EndOfStream(c, s)
  \/ \E f \in DOMAIN disk : SkillEdit(f)
SkillsSpec == SkillsInit /\ [][SkillsNext]_skillsVars

(* A script's two streams together never keep more than the limit, and a    *)
(* run that is reported as complete lost nothing its group wrote.           *)
OutputBounded ==
  \A c \in SkillCalls :
    /\ captured[c]["stdout"] + captured[c]["stderr"] <= OutputLimit
    /\ call[c].answer = "ran" => captured[c] = script[c].wrote
    /\ call[c].answer = "limit" => captured[c]["stdout"] + captured[c]["stderr"] = OutputLimit

(* Once a call has ended, however it ended, no process of its group runs.   *)
NothingSurvives ==
  \A c \in SkillCalls : call[c].stage = "ended" => ~script[c].running /\ ~script[c].helper

(* Every call that announced a loaded skill had the instructions of the     *)
(* last valid directory of that name, of an edition no newer than the       *)
(* files, and every later load of it has the same instructions.             *)
LoadsAgree ==
  \A c, d \in SkillCalls : \A e \in events[c], g \in events[d] :
    /\ e.edition <= disk[e.folder].edition
    /\ e.skill = g.skill => e = g
    /\ \A i \in DOMAIN Folders :
         Frontmatter[Folders[i]] = e.skill => \E j \in DOMAIN Folders : j >= i /\ Folders[j] = e.folder

(* Scripts are bounded, leave nothing running, and loads agree.             *)
SkillsSound == OutputBounded /\ NothingSurvives /\ LoadsAgree
=============================================================================
