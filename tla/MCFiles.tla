------------------------------ MODULE MCFiles -------------------------------
(***************************************************************************)
(* The tools that keep a user's files, and the skills: documents and their *)
(* retrieval, images, the sandbox, skill scripts, and how the library of   *)
(* skills is changed.  They share no state, so a behaviour is about one of *)
(* them.                                                                   *)
(***************************************************************************)
EXTENDS Documents, Retrieval, Images, Sandbox,
        AgentSkills, SkillReview, SkillLoop, SkillMeasure, SkillMemory, TLC

VARIABLE component  \* the component this behaviour is about

Ranked(i, c) == [index |-> i, score |-> c]

(* Nothing found and three hits; replies of the reranker that are empty, out *)
(* of order, short, or name a hit twice or none.                            *)
MCHits == {<<>>, <<1, 2, 3>>}
MCReplies == {<<>>, <<Ranked(1, 2), Ranked(2, 3)>>, <<Ranked(2, 1)>>,
              <<Ranked(1, 2), Ranked(1, 2)>>, <<Ranked(3, 2)>>}

(* A publication, a write, and a third call of every kind: within and beyond *)
(* what the service offers, and for another scope.                          *)
SandboxCall(op, text, argv, path, timeout) ==
  [operation |-> op, command |-> text, argv |-> argv, path |-> path, content |-> 0,
   append |-> FALSE, timeout |-> timeout, env |-> "own", dir |-> ".", scope |-> <<"u", "k1">>]
WriteCall == [SandboxCall("write_file", 0, <<>>, "inside", 0) EXCEPT !.content = 1]
MCAsked ==
  [c \in Steps |->
     CASE c = "p" -> {SandboxCall("publish_file", 0, <<>>, "inside", 0)}
       [] c = "a" -> {[WriteCall EXCEPT !.append = TRUE], [WriteCall EXCEPT !.content = 2]}
       [] OTHER ->
            {SandboxCall("list_commands", 0, <<>>, "none", 0),
             SandboxCall("execute", 2, <<>>, "none", 3),
             SandboxCall("execute", 0, <<"ls", "x">>, "none", 2),
             SandboxCall("execute", 1, <<"ls">>, "none", 2),
             [WriteCall EXCEPT !.path = "outside"], [WriteCall EXCEPT !.env = "reserved"],
             [WriteCall EXCEPT !.scope = <<>>], [WriteCall EXCEPT !.append = TRUE],
             [WriteCall EXCEPT !.scope = <<"u", "k2">>, !.append = TRUE]}]
FirstAsked == [c \in Steps |-> CHOOSE r \in SandboxAsked[c] : TRUE]
Offers(shell, listed, timeout, room) ==
  [isolated |-> TRUE, shell |-> shell, commands |-> listed, persistence |-> TRUE,
   maxTimeout |-> timeout, inputBytes |-> room]
MCCapability == <<Offers(TRUE, {"true", "ls"}, 3, 2), Offers(FALSE, {"true"}, 2, 1)>>

(* A script with and without helpers and much output, loads of a skill and   *)
(* of a resource; two folders with one name, one with an invalid one.       *)
Asks(op, skill, file) ==
  [operation |-> op, skill |-> skill, file |-> file, place |-> "inside", extension |-> ".py",
   helper |-> FALSE, escaped |-> FALSE, output |-> [s \in SkillStreams |-> 1]]
Script == Asks("run_skill_script", "s", "a")
MCSkillAsked ==
  [c \in SkillCalls |->
     CASE c = "run" ->
            {[Script EXCEPT !.helper = h, !.escaped = x, !.output = [s \in SkillStreams |-> 2]] :
               h \in BOOLEAN, x \in BOOLEAN}
              \cup {Script, [Script EXCEPT !.place = "outside"], [Script EXCEPT !.extension = ".exe"]}
       [] c = "l1" -> {Asks("load_skill", "daily", ""), Asks("load_skill", "nope", ""),
                       Asks("load_skill", "daily", "r1"), Asks("load_skill", "", ""),
                       Asks("list_skills", "", "")}
       [] OTHER -> {Asks("load_skill", "daily", "")}]
MCFolders == <<"a", "b", "c", "d">>
MCFrontmatter == "a" :> "daily" @@ "b" :> "s" @@ "c" :> "invalid" @@ "d" :> "daily"

(* One public case and one held out; a pinned skill before another.         *)
MCPublic == <<"p1">>
MCHeldout == <<"h1">>
MCLibrary == <<"s1", "s2">>

vars == <<component, documentVars, retrievalVars, imageVars,
          settingVars, sandboxVars, skillsVars, reviewVars, loopVars,
          measureVars, skillMemoryVars>>

(* The other components rest in an initial state.                          *)
Init ==
  /\ component \in {"documents", "retrieval", "embedding", "images",
                   "settings", "sandbox", "skills", "review", "loop",
                   "measure", "skill_memory"}
  /\ DocumentsInit
  /\ RetrievalInit
  /\ ImagesInit
  /\ SettingsInit
  /\ SandboxInit /\ (component # "sandbox" => asked = FirstAsked)
  /\ SkillsInit
  /\ ReviewInit
  /\ LoopInit /\ (component # "loop" => reference = LoopMissing)
  /\ MeasureInit
  /\ SkillMemoryInit

DocumentsStep ==
  /\ component = "documents" /\ DocumentsNext
  /\ UNCHANGED <<component, retrievalVars, imageVars, settingVars,
                 sandboxVars, skillsVars, reviewVars, loopVars, measureVars,
                 skillMemoryVars>>

RetrievalStep ==
  /\ component = "retrieval" /\ RetrievalNext
  /\ UNCHANGED <<component, documentVars, imageVars, settingVars, sandboxVars,
                 skillsVars, reviewVars, loopVars, measureVars,
                 skillMemoryVars>>

EmbedStep ==
  /\ component = "embedding" /\ EmbedNext
  /\ UNCHANGED <<component, documentVars, imageVars, settingVars, sandboxVars,
                 skillsVars, reviewVars, loopVars, measureVars,
                 skillMemoryVars>>

ImagesStep ==
  /\ component = "images" /\ ImagesNext
  /\ UNCHANGED <<component, documentVars, retrievalVars, settingVars,
                 sandboxVars, skillsVars, reviewVars, loopVars, measureVars,
                 skillMemoryVars>>

SettingsStep ==
  /\ component = "settings" /\ SettingsNext
  /\ UNCHANGED <<component, documentVars, retrievalVars, imageVars,
                 sandboxVars, skillsVars, reviewVars, loopVars, measureVars,
                 skillMemoryVars>>

SandboxStep ==
  /\ component = "sandbox" /\ SandboxNext
  /\ UNCHANGED <<component, documentVars, retrievalVars, imageVars,
                 settingVars, skillsVars, reviewVars, loopVars, measureVars,
                 skillMemoryVars>>

SkillsStep ==
  /\ component = "skills" /\ SkillsNext
  /\ UNCHANGED <<component, documentVars, retrievalVars, imageVars,
                 settingVars, sandboxVars, reviewVars, loopVars, measureVars,
                 skillMemoryVars>>

ReviewStep ==
  /\ component = "review" /\ ReviewNext
  /\ UNCHANGED <<component, documentVars, retrievalVars, imageVars,
                 settingVars, sandboxVars, skillsVars, loopVars, measureVars,
                 skillMemoryVars>>

LoopStep ==
  /\ component = "loop" /\ LoopNext
  /\ UNCHANGED <<component, documentVars, retrievalVars, imageVars,
                 settingVars, sandboxVars, skillsVars, reviewVars,
                 measureVars, skillMemoryVars>>

MeasureStep ==
  /\ component = "measure" /\ MeasureNext
  /\ UNCHANGED <<component, documentVars, retrievalVars, imageVars,
                 settingVars, sandboxVars, skillsVars, reviewVars, loopVars,
                 skillMemoryVars>>

SkillMemoryStep ==
  /\ component = "skill_memory" /\ SkillMemoryNext
  /\ UNCHANGED <<component, documentVars, retrievalVars, imageVars,
                 settingVars, sandboxVars, skillsVars, reviewVars, loopVars,
                 measureVars>>

Next ==
  \/ DocumentsStep
  \/ RetrievalStep
  \/ EmbedStep
  \/ ImagesStep
  \/ SettingsStep
  \/ SandboxStep
  \/ SkillsStep
  \/ ReviewStep
  \/ LoopStep
  \/ MeasureStep
  \/ SkillMemoryStep

Spec == Init /\ [][Next]_vars
-----------------------------------------------------------------------------
(* A user reads his own documents only and is told what became of them      *)
(* (nat_nv_ingest), and a retrieval reports hits of collections that exist; *)
(* a thread beyond its slots is one whose search timed out (smart_milvus).  *)
DocumentsKept ==
  /\ component = "documents" => DocumentsPrivate
  /\ component \in {"retrieval", "embedding"} => RetrievalSound

(* An image request reaches the model with the settings it resolved to, a   *)
(* choice altered only where a JPEG would have to be transparent, and what  *)
(* it returns is stored and signed before it is reported.                   *)
ImagesSound ==
  /\ component = "settings" => SettingsHonoured
  /\ component = "images" => ImagesKept

(* A sandbox step changes a workspace at most once (llm_sandbox), and a     *)
(* skill script is answered with all the output that fits (agent_skills).   *)
ActsOnceAndWhole ==
  /\ component = "sandbox" => RunsAtMostOnce
  /\ component = "skills" => SkillsSound

(* The library changes only by what was measured and reviewed: a committed  *)
(* change is the one evaluated, a round counts only if it did not lose a    *)
(* case, a measurement is of the workspace it names, and a promoted rule    *)
(* was still reviewed (skill evaluation, skill memory).                     *)
SkillsEarned ==
  /\ component = "review" => SkillChangesEarned
  /\ component = "loop" => LoopEarnsItsCommits
  /\ component = "measure" => MeasurementsHonest
  /\ component = "skill_memory" => GovernedMemory
=============================================================================
