------------------------------- MODULE MCWeb --------------------------------
(***************************************************************************)
(* The tools that read the open web, and what becomes of their results: a  *)
(* page, a search, a forecast, a feed, a shared article, the sources of an *)
(* answer, a stored result, a briefing, an autonomous run.  They share no  *)
(* state, so a behaviour is about one of them.                             *)
(***************************************************************************)
EXTENDS Scrape, Lookups, FeedSearch, Evidence,
        ToolOutput, Daybook, AutonomousRun, TLC

VARIABLE component  \* the component this behaviour is about

(* Two spellings of one query, another, and a blank one.                    *)
MCFold == "a" :> "a" @@ "A" :> "a" @@ "b" :> "b" @@ "" :> ""

(* Two reports on one place, one on another.                                *)
MCPlaceOf == "a" :> "p" @@ "b" :> "p" @@ "c" :> "q"

(* A ranking of each kind: empty, out of order, an index twice, one too many. *)
MCFeedOf == "x" :> "u1" @@ "y" :> "u2"
Ranked(i, c) == [index |-> i, score |-> c]
MCRankings == {<<>>, <<Ranked(1, 1), Ranked(2, 2)>>,
               <<Ranked(1, 1), Ranked(1, 2)>>, <<Ranked(3, 1)>>}

(* Two readers of one article, public or private, and one of a larger one.  *)
MCPublic == "c1" :> "u" @@ "c2" :> "u" @@ "c3" :> "v"
MCRequests == {MCPublic, "c1" :> "w" @@ "c2" :> "w" @@ "c3" :> "v"}
MCSize == "u" :> 1 @@ "v" :> 2 @@ "w" :> 1

(* Every known source alone, none, an unknown one, and combinations.        *)
MCSelections == {{}, {"unknown"}, {"nvidia_docs", "x_mcp"}, {"uploaded_documents", "unknown"}}
                  \cup {{s} : s \in ToSet(Known)}

(* Links a ledger gives in every form, in all but one, and in its text only. *)
MCLedgerItems ==
  <<[kind |-> "string", link |-> "v"], [kind |-> "keyed", link |-> "u"],
    [kind |-> "nested", link |-> "w"]>>

(* Results of every kind, wrapped in each way, with each flaw and none,      *)
(* too small and too large to be exchanged, and on both sides of what is    *)
(* worth it.                                                                *)
MCToolResults ==
  [wrap : {"none", "tag", "fence", "prose"}, flaws : {{}} \cup {{f} : f \in Flaws},
   kind : {"rows", "feed_article", "research", "plain"}, marked : BOOLEAN,
   whole : {0, 3, 10, 11}, minified : {0, 9}, preview : {7, 8}]
MCShrinking == {d \in MCToolResults : d.minified <= d.whole}

(* An edition's schema: its version, a lead and its blocks, each told apart  *)
(* by its type; a cyclic one, a dangling one and one that requires a field   *)
(* it does not have.  Values that keep it and values that break it, one of   *)
(* them more often than errors are shown.                                   *)
Is(type, text) == [type |-> type, text |-> text]
Text(text) == Is("string", text)
Object == Is("object", "none")
Block(properties, required) ==
  [type |-> "object", properties |-> properties, required |-> required, closed |-> TRUE]
MCSchema ==
  "root" :> Block([version |-> "version", lead |-> "story", blocks |-> "blocks"],
                  {"version", "lead"})
  @@ "version" :> [type |-> "string", enum |-> {"v1"}]
  @@ "story" :> [ref |-> "block"]
  @@ "blocks" :> [type |-> "array", items |-> "block", minItems |-> 1, maxItems |-> 2]
  @@ "block" :> [anyOf |-> <<"paragraph", "figure">>]
  @@ "paragraph" :> Block([type |-> "isParagraph", text |-> "text"], {"type", "text"})
  @@ "figure" :> Block([type |-> "isFigure", url |-> "text", alt |-> "alt"], {"type", "url"})
  @@ "isParagraph" :> [type |-> "string", enum |-> {"paragraph"}]
  @@ "isFigure" :> [type |-> "string", enum |-> {"figure"}]
  @@ "text" :> [type |-> "string"] @@ "null" :> [type |-> "null"]
  @@ "alt" :> [anyOf |-> <<"text", "null">>]
MCEditionSchemas ==
  {MCSchema, [MCSchema EXCEPT !["block"] = [anyOf |-> <<"paragraph", "story">>]],
   [MCSchema EXCEPT !["story"] = [ref |-> "gone"]],
   [MCSchema EXCEPT !["root"].required = {"version", "author"}]}
Paragraph(path) ==
  path :> Object @@ Append(path, "type") :> Text("paragraph") @@ Append(path, "text") :> Text("x")
FigureBlock(path, alt) ==
  path :> Object @@ Append(path, "type") :> Text("figure") @@ Append(path, "url") :> Text("x")
    @@ Append(path, "alt") :> alt
Form(version, lead) == <<>> :> Object @@ <<"version">> :> version @@ lead
Sound == Form(Text("v1"), FigureBlock(<<"lead">>, Is("null", "none")))
           @@ <<"blocks">> :> Is("array", "none") @@ Paragraph(<<"blocks", "1">>)
MCMisshapen ==
  {Sound @@ <<"author">> :> Object,
   Sound @@ Paragraph(<<"blocks", "2">>) @@ FigureBlock(<<"blocks", "3">>, Text("x")),
   [Sound EXCEPT ![<<"lead", "type">>] = Text("poem"), ![<<"blocks">>] = Text("x")],
   Form(Text("v1"), <<"lead">> :> Object @@ <<"lead", "type">> :> Text("figure")
                      @@ <<"lead", "alt">> :> Object @@ <<"lead", "credit">> :> Text("x"))}

(* Editions with photos repeated and over the limit, with desks whose ids    *)
(* collide, and with one defect each.                                       *)
Row(d, s) == [desk |-> d, status |-> s]
Dept(d, bs) == [desk |-> d, blocks |-> bs]
Plain ==
  [lead |-> <<"tech">>, figure |-> "none", departments |-> <<>>, operations |-> <<>>,
   weather |-> "covered", personal |-> "unavailable", agenda |-> 0, form |-> Sound,
   source |-> [kind |-> "web", url |-> "a"], fits |-> TRUE, unfinished |-> FALSE,
   coverage |-> <<>>]
MCPolicyDesks == {<<"tech">>, <<"health">>, <<"weather">>, <<"email", "calendar">>}
MCRailDesks == {<<"health">>}
Desks(e) == {e.departments[i].desk : i \in DOMAIN e.departments}
Covered(e) ==
  [e EXCEPT !.coverage =
     <<Row(e.lead, "covered"), Row(<<"weather">>, e.weather),
       Row(<<"email", "calendar">>, e.personal)>>
     \o SetToSeq({Row(d, IF d \in Desks(e) THEN "covered" ELSE "quiet") :
                   d \in (MCPolicyDesks \cup Desks(e))
                          \ {e.lead, <<"weather">>, <<"email", "calendar">>}})
     \o (IF e.operations # <<>> THEN <<Row(<<"cluster", "infrastructure">>, "covered")>>
         ELSE <<>>)]
Photos ==
  Covered([Plain EXCEPT !.figure = "p1",
    !.departments = <<Dept(<<"health">>, <<Figure("p1"), TextBlock, Figure("p2")>>),
                      Dept(<<"tech">>, <<Figure("p2")>>)>>,
    !.operations = <<[desk |-> "none", blocks |-> <<Figure("p3"), TextBlock>>]>>])
Collisions ==
  Covered([Plain EXCEPT !.agenda = 5,
    !.departments = <<Dept(<<"lead", "heading">>, <<TextBlock>>), Dept(<<"lead">>, <<TextBlock>>),
                      Dept(<<"day", "ahead", "continuation">>, <<TextBlock>>),
                      Dept(<<"department", "lead">>, <<TextBlock>>)>>])
Agenda ==
  Covered([Plain EXCEPT !.agenda = 5, !.personal = "covered",
    !.source = [kind |-> "tool", url |-> DaybookNone],
    !.departments = <<Dept(<<"department", "weather">>, <<TextBlock>>),
                      Dept(<<"weather">>, <<TextBlock, TextBlock>>),
                      Dept(<<"health">>, <<Figure("p1")>>)>>])
MCEditions ==
  {Photos, Collisions, Agenda,
   [Photos EXCEPT !.unfinished = TRUE],
   [Photos EXCEPT !.fits = FALSE], [Photos EXCEPT !.coverage = Tail(@)],
   [Photos EXCEPT !.lead = <<"opinion">>], [Collisions EXCEPT !.weather = "unavailable"],
   Covered([Plain EXCEPT !.departments = <<Dept(<<"coverage">>, <<TextBlock>>)>>])}
  \cup {[Photos EXCEPT !.form = f] : f \in MCMisshapen}

(* Notes of an older release, present and absent; a policy with a source     *)
(* twice and an unknown one; chunks of every kind a backend sends.          *)
MCSections == <<"soul", "memory">>
MCLegacy ==
  {[soul |-> Absent, memory |-> Absent], [soul |-> [by |-> "seed", len |-> 5], memory |-> Seed]}
MCPolicies ==
  {[enabled |-> <<"web", "web", "bad">>, disabled |-> <<"mail">>, approval |-> TRUE, calls |-> 9]}
MCRequest ==
  "w1" :> [goal |-> "g2", manual |-> TRUE] @@ "w2" :> [goal |-> "none", manual |-> FALSE]
MCGoals == <<[id |-> "g1", status |-> "active"], [id |-> "g2", status |-> "paused"]>>
PastRun(goal, status) == [goal |-> goal, status |-> status]
MCPastRuns == <<PastRun("g2", "failed"), PastRun("g1", "completed"), PastRun("g2", "completed"),
                PastRun("none", "completed"), PastRun("g2", "completed")>>
MCFeed == <<[title |-> TRUE], [title |-> FALSE], [title |-> TRUE], [title |-> TRUE]>>
Event ==
  [valid |-> TRUE, says |-> "none", address |-> FALSE, asksInText |-> FALSE, finish |-> "none",
   text |-> <<>>, encloses |-> [says |-> "none", address |-> FALSE, asks |-> FALSE]]
Part(kind, object) == [kind |-> kind, object |-> object]
MCChunks ==
  {[Event EXCEPT !.text = <<Part("reasoning", "valid"), Part("prose", "none")>>],
   [Event EXCEPT !.text = <<Part("reasoning", "valid"), Part("fence", "valid")>>],
   [Event EXCEPT !.text = <<Part("bare", "valid")>>, !.finish = "stop"],
   [Event EXCEPT !.text = <<Part("fence", "invalid")>>],
   [Event EXCEPT !.finish = "stop"], [Event EXCEPT !.valid = FALSE],
   [Event EXCEPT !.says = "oauth", !.encloses.address = TRUE],
   [Event EXCEPT !.encloses.asks = TRUE], [Event EXCEPT !.finish = "approval"],
   [Event EXCEPT !.finish = "error"], [Event EXCEPT !.says = "oauth"]}

vars == <<component, scrapeVars, searchVars, weatherVars, feedSearchVars,
          contentVars, evidenceVars, outputVars, daybookVars, runVars>>

(* The other components rest in an initial state.                          *)
Init ==
  /\ component \in {"scrape", "web_search", "weather", "feed_search",
                   "content", "evidence", "output", "daybook", "run"}
  /\ ScrapeInit /\ (component # "scrape" => robots = "allow")
  /\ SearchInit
  /\ WeatherInit
  /\ FeedSearchInit
  /\ ContentInit /\ (component # "content" => asks = MCPublic)
  /\ EvidenceInit
  /\ OutputInit
  /\ DaybookInit /\ (component # "daybook" => editionSchema = MCSchema)
  /\ RunInit /\ (component # "run" => lease = "w1" /\ notes.memory = Absent)

ScrapeStep ==
  /\ component = "scrape" /\ ScrapeNext
  /\ UNCHANGED <<component, searchVars, weatherVars, feedSearchVars,
                 contentVars, evidenceVars, outputVars, daybookVars, runVars>>

SearchStep ==
  /\ component = "web_search" /\ SearchNext
  /\ UNCHANGED <<component, scrapeVars, weatherVars, feedSearchVars,
                 contentVars, evidenceVars, outputVars, daybookVars, runVars>>

WeatherStep ==
  /\ component = "weather" /\ WeatherNext
  /\ UNCHANGED <<component, scrapeVars, searchVars, feedSearchVars,
                 contentVars, evidenceVars, outputVars, daybookVars, runVars>>

FeedSearchStep ==
  /\ component = "feed_search" /\ FeedSearchNext
  /\ UNCHANGED <<component, scrapeVars, searchVars, weatherVars, contentVars,
                 evidenceVars, outputVars, daybookVars, runVars>>

ContentStep ==
  /\ component = "content" /\ ContentNext
  /\ UNCHANGED <<component, scrapeVars, searchVars, weatherVars,
                 feedSearchVars, evidenceVars, outputVars, daybookVars,
                 runVars>>

EvidenceStep ==
  /\ component = "evidence" /\ EvidenceNext
  /\ UNCHANGED <<component, scrapeVars, searchVars, weatherVars,
                 feedSearchVars, contentVars, outputVars, daybookVars,
                 runVars>>

OutputStep ==
  /\ component = "output" /\ OutputNext
  /\ UNCHANGED <<component, scrapeVars, searchVars, weatherVars,
                 feedSearchVars, contentVars, evidenceVars, daybookVars,
                 runVars>>

DaybookStep ==
  /\ component = "daybook" /\ DaybookNext
  /\ UNCHANGED <<component, scrapeVars, searchVars, weatherVars,
                 feedSearchVars, contentVars, evidenceVars, outputVars,
                 runVars>>

RunStep ==
  /\ component = "run" /\ RunNext
  /\ UNCHANGED <<component, scrapeVars, searchVars, weatherVars,
                 feedSearchVars, contentVars, evidenceVars, outputVars,
                 daybookVars>>

Next ==
  \/ ScrapeStep
  \/ SearchStep
  \/ WeatherStep
  \/ FeedSearchStep
  \/ ContentStep
  \/ EvidenceStep
  \/ OutputStep
  \/ DaybookStep
  \/ RunStep

Spec == Init /\ [][Next]_vars
-----------------------------------------------------------------------------
(* The open web: a page is scraped only as its robots policy allows and cut *)
(* only where the text was too long (webscrape); a search asks what it was  *)
(* asked and reports what it was told (serpapi, perplexity); readers share  *)
(* one load of a public article and none of a private one (public content). *)
WebHonest ==
  /\ component = "scrape" => ScrapeKeepsRules
  /\ component = "web_search" => SearchFaithful
  /\ component = "content" => SharedLoads

(* What tools state as facts: a feed search hides no feed it could not read *)
(* and uses no stale snapshot, a forecast names the hours it covers, and a  *)
(* repaired answer keeps every source it cites (source_verifier).           *)
FactsHonest ==
  /\ component = "feed_search" => FeedFactsTrue
  /\ component = "weather" => WeatherHonest
  /\ component = "evidence" => RepairKeepsSources

(* What becomes of results: an autonomous run keeps only its own answer and *)
(* writes only while it owns the user (autonomous_agent), a compacted tool  *)
(* result can be read back by its owner (tool_output), and a briefing is    *)
(* accepted only once its rendering passed (daily-summary).                 *)
ResultsKept ==
  /\ RunsKeepTheirWord
  /\ [](component = "output" => ToolOutputsKept)
  /\ [](component = "daybook" => BriefingSound)
=============================================================================
