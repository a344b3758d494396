------------------------------ MODULE Daybook ------------------------------
(***************************************************************************)
(* The daily briefing: an agent hands an edition to the briefing renderer, *)
(* which embeds the article photos, has the canonical scripts render and   *)
(* validate the page in the sandbox, recovers locally when the sandbox     *)
(* fails, and delivers at most one page per request.                       *)
(*                                                                         *)
(* Wording and CSS are left out: an edition is its desks, stories, photos  *)
(* and coverage ledger, and the shape of its JSON; a page is its tags, and *)
(* what the validator's parser makes of them.  Ids and desk keys are the   *)
(* words between their hyphens.                                            *)
(***************************************************************************)
EXTENDS Integers, Sequences, SequencesExt, FiniteSets, FiniteSetsExt

CONSTANTS
  Calls,         \* tool calls of one request, possibly parallel
  Editions,      \* the editions the agent may submit
  PolicyDesks,   \* the desks of edition-policy.json
  RailDesks,     \* those with placement "rail"
  MaxPhotos,     \* briefing_images._MAX_PHOTOS
  EditionSchemas,   \* edition-schema.json: its nodes by name, and broken variants
  MaxErrors      \* edition_contract._MAX_ERRORS

VARIABLES
  run,     \* the request's AgentRun: attempts and the terminal contents set so far
  holder,  \* the call inside run.artifact_lock
  editionSchema,  \* the schema the tool was registered with
  daybookCall     \* what each call is doing

daybookVars == <<run, holder, editionSchema, daybookCall>>

DaybookNone == "none"
BriefingAttempts == 2
FrontAgenda == 4

Weather  == <<"weather">>
Personal == <<"email", "calendar">>
Opinion  == <<"opinion">>
Health   == <<"health">>
Cluster  == <<"cluster", "infrastructure">>
----------------------------------------------------------------------------
\* The edition's schema (edition_contract.py).  A JSON value is its nodes by
\* path, the root's path empty; a schema is its nodes by name, the edition's
\* being "root", and a node has only the keywords it states.

NoErrors == [shown |-> <<>>, count |-> 0, truncated |-> FALSE]

\* ValidationErrors: at most MaxErrors are shown, all of them are counted.
AddError(errors, error) ==
  IF Len(errors.shown) < MaxErrors
  THEN [errors EXCEPT !.shown = Append(@, error), !.count = @ + 1]
  ELSE [errors EXCEPT !.count = @ + 1, !.truncated = TRUE]
AddErrors(errors, more) ==
  LET all == FoldLeft(AddError, errors, more.shown)
  IN [all EXCEPT !.count = @ + more.count - Len(more.shown),
                 !.truncated = @ \/ more.truncated]
OneError(path, what) == AddError(NoErrors, <<path, what>>)
ErrorsIf(condition, path, what) == IF condition THEN OneError(path, what) ELSE NoErrors
AllErrors(lists) == FoldLeft(AddErrors, NoErrors, lists)

States(node, keyword) == keyword \in DOMAIN node
Stated(node, keyword, default) == IF States(node, keyword) THEN node[keyword] ELSE default
Properties(node) == Stated(node, "properties", <<>>)

\* _check_schema.
NodeSound(node) ==
  /\ States(node, "ref") => DOMAIN node = {"ref"}
  /\ Stated(node, "minItems", 0) <= Stated(node, "maxItems", Stated(node, "minItems", 0))
  /\ States(node, "enum") => node.enum # {}
  /\ Stated(node, "required", {}) \subseteq DOMAIN Properties(node)
  /\ States(node, "anyOf") => node.anyOf # <<>>

\* The nodes written inside a node.
Inner(node) ==
  {Properties(node)[key] : key \in DOMAIN Properties(node)}
    \union ToSet(Stated(node, "anyOf", <<>>))
    \union (IF States(node, "items") THEN {node.items} ELSE {})

\* expanded_schema: every reference names a definition outside itself.
Expands(schema) ==
  LET expand[name \in DOMAIN schema, stack \in SUBSET DOMAIN schema] ==
        LET node == schema[name]
        IN IF States(node, "ref")
           THEN node.ref \in DOMAIN schema \ stack /\ expand[node.ref, stack \union {node.ref}]
           ELSE \A inner \in Inner(node) : expand[inner, stack]
  IN expand["root", {}]

SchemaUsable(schema) == (\A name \in DOMAIN schema : NodeSound(schema[name])) /\ Expands(schema)

\* The node a name stands for once its references are replaced.
Expanded(schema, name) ==
  LET end[n \in DOMAIN schema] == IF States(schema[n], "ref") THEN end[schema[n].ref] ELSE schema[n]
  IN end[name]

Keys(value, path) == {Last(p) : p \in {q \in DOMAIN value : q # <<>> /\ Front(q) = path}}

\* _matches_type.
Typed(schema, value, path) ==
  LET fits[name \in DOMAIN schema] ==
        LET node == Expanded(schema, name)
        IN /\ States(node, "type") => value[path].type = node.type
           /\ States(node, "anyOf") => \E branch \in ToSet(node.anyOf) : fits[branch]
  IN {name \in DOMAIN schema : fits[name]}

\* Alternatives told apart by a required property that has one value in each.
Choice(schema, branch, key) ==
  LET node == Expanded(schema, branch)
  IN IF /\ Stated(node, "type", "any") = "object"
        /\ key \in DOMAIN Properties(node) \intersect Stated(node, "required", {})
     THEN Stated(Expanded(schema, node.properties[key]), "enum", {}) ELSE {}
Discriminators(schema, branches) ==
  SelectSeq(<<"type", "kind", "status">>,
            LAMBDA key : \A i \in DOMAIN branches :
                           Cardinality(Choice(schema, branches[i], key)) = 1)

\* The alternatives whose errors are worth reporting; none when the value's
\* discriminator names no alternative.
Alternatives(schema, value, path, branches) ==
  LET keys   == Discriminators(schema, branches)
      key    == Head(keys)
      chosen == SelectSeq(branches, LAMBDA b :
                  /\ key \in Keys(value, path)
                  /\ value[Append(path, key)].text \in Choice(schema, b, key))
  IN IF value[path].type # "object" \/ keys = <<>> THEN branches
     ELSE IF Len(chosen) > 1 THEN branches ELSE chosen

FewestErrors(alternatives) ==
  CHOOSE errors \in ToSet(alternatives) :
    \A other \in ToSet(alternatives) : errors.count <= other.count

ObjectErrors(node, value, path) ==
  LET present == Keys(value, path)
      missing == SetToSeq(Stated(node, "required", {}) \ present)
  IN AllErrors(
       <<ErrorsIf(Stated(node, "closed", FALSE) /\ ~(present \subseteq DOMAIN Properties(node)),
                  path, "unsupported")>>
         \o [i \in DOMAIN missing |-> OneError(Append(path, missing[i]), "required")])

ArrayErrors(node, value, path) ==
  LET n == Cardinality(Keys(value, path))
  IN AllErrors(<<ErrorsIf(n < Stated(node, "minItems", 0), path, "few"),
                 ErrorsIf(n > Stated(node, "maxItems", n), path, "many")>>)

\* validate_edition.
StructuralErrors(schema, value) ==
  LET errors[path \in DOMAIN value, name \in DOMAIN schema] ==
        LET node     == Expanded(schema, name)
            typed    == Typed(schema, value, path)
            branches == SelectSeq(Stated(node, "anyOf", <<>>), LAMBDA b : b \in typed)
            chosen   == Alternatives(schema, value, path, branches)
            known    == SetToSeq(Keys(value, path) \intersect DOMAIN Properties(node))
            items    == IF States(node, "items") THEN SetToSeq(Keys(value, path)) ELSE <<>>
        IN IF name \notin typed THEN OneError(path, "type")
           ELSE IF States(node, "anyOf") /\ chosen = <<>> THEN OneError(path, "choice")
           ELSE AllErrors(
             (IF States(node, "anyOf")
              THEN <<FewestErrors([i \in DOMAIN chosen |-> errors[path, chosen[i]]])>> ELSE <<>>)
             \o <<ErrorsIf(States(node, "enum") /\ value[path].text \notin node.enum, path, "enum")>>
             \o (IF value[path].type = "object"
                 THEN <<ObjectErrors(node, value, path)>>
                        \o [i \in DOMAIN known |->
                              errors[Append(path, known[i]), node.properties[known[i]]]]
                 ELSE <<>>)
             \o (IF value[path].type = "array"
                 THEN <<ArrayErrors(node, value, path)>>
                        \o [i \in DOMAIN items |-> errors[Append(path, items[i]), node.items]]
                 ELSE <<>>))
  IN errors[<<>>, "root"]

Misshapen(e) == StructuralErrors(editionSchema, e.form)
WellFormed(e) == Misshapen(e).count = 0
----------------------------------------------------------------------------
\* Article photos (briefing_images.py).

TextBlock == [kind |-> "text", url |-> DaybookNone, data |-> FALSE]
Figure(url) == [kind |-> "figure", url |-> url, data |-> FALSE]
FigureUrls(blocks) ==
  FlattenSeq([i \in DOMAIN blocks |->
    IF blocks[i].kind = "figure" THEN <<blocks[i].url>> ELSE <<>>])

\* The edition's stories in the order the photos are looked at.
EditionStories(e) == e.departments \o e.operations
PhotoUrls(e) ==
  (IF e.figure = DaybookNone THEN <<>> ELSE <<e.figure>>)
    \o FlattenSeq([i \in DOMAIN EditionStories(e) |->
         FigureUrls(EditionStories(e)[i].blocks)])

\* The first MaxPhotos distinct addresses are fetched, each once.
DaybookSelected(e) ==
  FoldLeft(LAMBDA chosen, url :
             IF Cardinality(chosen) < MaxPhotos THEN chosen \union {url} ELSE chosen,
           {}, PhotoUrls(e))

\* A figure keeps its place when its photo arrived and was not shown before.
KeepBlock(kept, block, fetched) ==
  IF block.kind # "figure"
  THEN [kept EXCEPT !.blocks = Append(@, block)]
  ELSE IF block.url \in fetched \ kept.seen
  THEN [seen   |-> kept.seen \union {block.url},
        blocks |-> Append(kept.blocks, [block EXCEPT !.data = TRUE])]
  ELSE kept

EmbedStory(acc, story, fetched) ==
  LET kept == FoldLeft(LAMBDA k, b : KeepBlock(k, b, fetched),
                       [seen |-> acc.seen, blocks |-> <<>>], story.blocks)
      shown == IF kept.blocks = <<>> THEN <<TextBlock>> ELSE kept.blocks
  IN [seen    |-> kept.seen,
      stories |-> Append(acc.stories, [story EXCEPT !.blocks = shown])]

\* embed_article_photos: a photo that failed, came too late or repeats is
\* left out; a story left with nothing says so.
DaybookEmbedded(e, fetched) ==
  LET lead == e.figure \in fetched
      all  == FoldLeft(LAMBDA acc, s : EmbedStory(acc, s, fetched),
                       [seen |-> IF lead THEN {e.figure} ELSE {}, stories |-> <<>>],
                       EditionStories(e))
      n    == Len(e.departments)
  IN [e EXCEPT !.figure      = IF lead THEN @ ELSE DaybookNone,
               !.departments = SubSeq(all.stories, 1, n),
               !.operations  = SubSeq(all.stories, n + 1, Len(all.stories))]
----------------------------------------------------------------------------
\* The page's elements (render_daybook.py and its template), in the order and
\* at the depth they open.

NoAttrs ==
  [id |-> <<>>, marks |-> {}, desk |-> <<>>, status |-> DaybookNone, kind |-> DaybookNone,
   url |-> DaybookNone, photo |-> DaybookNone, data |-> FALSE, target |-> <<>>, href |-> DaybookNone]
Element(tag, attrs, inside) ==
  <<[tag |-> tag, attrs |-> attrs, depth |-> 0]>>
    \o [i \in DOMAIN inside |-> [inside[i] EXCEPT !.depth = @ + 1]]
Plainly(tag, inside) == Element(tag, NoAttrs, inside)
Marked(tag, mark, inside) == Element(tag, [NoAttrs EXCEPT !.marks = {mark}], inside)
Identified(tag, id, inside) == Element(tag, [NoAttrs EXCEPT !.id = id], inside)
Words == <<>>

ExternalLink(url) == Element("a", [NoAttrs EXCEPT !.href = url], Words)
RailLink(id) == Element("a", [NoAttrs EXCEPT !.target = id], Words)

\* The validator's reading of a page (validate_daybook.DaybookParser): what
\* stands inside an element is what opens before the stack is as low again.

Within(page, i) ==
  LET later == (i + 1)..Len(page)
  IN (i + 1)..(Min({k \in later : page[k].depth <= page[i].depth} \union {Len(page) + 1}) - 1)
Tagged(page, tag) == {i \in DOMAIN page : page[i].tag = tag}
MarkedAs(page, mark) == {i \in DOMAIN page : mark \in page[i].attrs.marks}
LinksIn(page, i) == {page[j].attrs.href : j \in Within(page, i) \intersect Tagged(page, "a")}

Ids(page) ==
  LET named == SelectSeq(page, LAMBDA t : t.attrs.id # <<>>)
  IN [i \in DOMAIN named |-> named[i].attrs.id]
Targets(page) == {page[i].attrs.target : i \in Tagged(page, "a")} \ {<<>>}

Level(tag) == CASE tag = "h1" -> 1 [] tag = "h2" -> 2 [] tag = "h3" -> 3 [] tag = "h4" -> 4 [] OTHER -> 0
Headings(page) ==
  LET headings == SelectSeq(page, LAMBDA t : Level(t.tag) > 0)
  IN [i \in DOMAIN headings |-> Level(headings[i].tag)]

Sources(page) == {i \in DOMAIN page : page[i].attrs.kind # DaybookNone} \union MarkedAs(page, "report")

\* Images in no figure, a figure's own, and what its caption links to.
Figures(page) == Tagged(page, "figure")
OrphanImages(page) == Tagged(page, "img") \ UNION {Within(page, i) : i \in Figures(page)}
FigureImages(page, i) == Within(page, i) \intersect Tagged(page, "img")
Captions(page, i) == Within(page, i) \intersect Tagged(page, "figcaption")
CaptionLinks(page, i) == UNION {LinksIn(page, j) : j \in Captions(page, i)}

HeadingOf(id) == id \o <<"heading">>

\* _source_attrs, _sourced_title and _source_line.
Sourced(source, attrs) == [attrs EXCEPT !.kind = source.kind, !.url = source.url]
SourcedTitle(tag, source) ==
  Plainly(tag, IF source.kind = "web" THEN ExternalLink(source.url) ELSE Words)
SourceLine(source) == SourcedTitle("p", source)

\* _render_figure: the caption names the page the photo came from.
FigureTags(block) ==
  Element("figure", [NoAttrs EXCEPT !.photo = block.url],
    Element("img", [NoAttrs EXCEPT !.data = block.data], <<>>)
      \o Plainly("figcaption", Words \o ExternalLink(block.url)))

\* _render_blocks.
BlockTags(block) ==
  CASE block.kind = "figure"  -> FigureTags(block)
    [] block.kind = "subhead" -> Plainly("h4", Words)
    [] block.kind = "brief"   -> Plainly("div", Plainly("h4", Words) \o Plainly("p", Words))
    [] OTHER -> Plainly("p", Words)
BlocksTags(blocks) == FlattenSeq([i \in DOMAIN blocks |-> BlockTags(blocks[i])])

\* _render_lead.
LeadTags(e) ==
  Element("article", Sourced(e.source, [NoAttrs EXCEPT !.id = <<"lead">>, !.desk = e.lead,
                                                       !.marks = {"story", "lead"}]),
    SourcedTitle("h2", e.source) \o Plainly("p", Words)
      \o (IF e.figure = DaybookNone THEN <<>>
          ELSE FigureTags([Figure(e.figure) EXCEPT !.data = TRUE]))
      \o Plainly("div", Plainly("p", Words)) \o SourceLine(e.source))

\* _render_day_ahead: two sections that carry their own status, and what the
\* front page has no room for.
WeatherTags(e) ==
  LET attrs == [NoAttrs EXCEPT !.id = Weather, !.status = e.weather]
  IN IF e.weather = "covered"
     THEN Element("section", Sourced(e.source, attrs),
            SourcedTitle("h2", e.source) \o Plainly("ul", Plainly("li", Plainly("h3", Words))))
     ELSE Element("section", attrs, Plainly("h2", Words) \o Plainly("p", Words))

AgendaTags(items) == Plainly("h3", Words) \o Plainly(IF items > 0 THEN "table" ELSE "p", Words)
PersonalTags(e) ==
  LET attrs == [NoAttrs EXCEPT !.id = Personal, !.status = e.personal]
  IN IF e.personal = "covered"
     THEN Element("section", Sourced(e.source, attrs),
            SourcedTitle("h2", e.source) \o AgendaTags(e.agenda)
              \o Plainly("h3", Words) \o BlockTags([TextBlock EXCEPT !.kind = "brief"]))
     ELSE Element("section", attrs, Plainly("h2", Words) \o Plainly("p", Words))

Continuation(id, marks, inside) ==
  Element("section", [NoAttrs EXCEPT !.id = id, !.marks = marks],
          Identified("h2", HeadingOf(id), Words) \o Plainly("div", inside))
ContinuationTags(e) ==
  IF e.agenda > FrontAgenda
  THEN Continuation(<<"day", "ahead", "continuation">>, {},
                    Plainly("div", AgendaTags(e.agenda - FrontAgenda)))
  ELSE <<>>

\* _render_operations.
OperationsTags(e) ==
  IF e.operations = <<>> THEN <<>>
  ELSE Continuation(<<"operations", "continuation">>, {"continuation"},
         FlattenSeq([i \in DOMAIN e.operations |->
           Element("article", Sourced(e.source, [NoAttrs EXCEPT !.marks = {"story", "report"},
                                                                !.desk = Cluster]),
                   SourcedTitle("h3", e.source) \o BlocksTags(e.operations[i].blocks))]))

\* _render_departments, for one department.
DepartmentTags(department, anchor, source) ==
  Element("section", [NoAttrs EXCEPT !.id = anchor, !.marks = {"department"}],
    Identified("h2", HeadingOf(anchor), Words)
      \o Element("article", Sourced(source, [NoAttrs EXCEPT !.marks = {"story"},
                                                            !.desk = department.desk]),
           SourcedTitle("h3", source) \o Plainly("div", BlocksTags(department.blocks))
             \o SourceLine(source)))

\* The template with its tokens replaced.
TemplateTags(rail, news, aside, operations) ==
  Plainly("meta", <<>>) \o Plainly("title", Words) \o Plainly("style", Words)
    \o Plainly("body",
         Plainly("header",
           Marked("p", "strap", Words) \o Plainly("h1", Words) \o Marked("p", "tagline", Words)
             \o Marked("nav", "rail", rail))
         \o Identified("main", <<"daybook">>,
              Marked("section", "grid", Plainly("div", news) \o Marked("aside", "day_ahead", aside))
                \o operations)
         \o Plainly("footer", Words))

\* The fragments whose ids DepartmentIds starts from.
FixedIds(e) ==
  Ids(TemplateTags(<<>>, <<>>, <<>>, <<>>) \o LeadTags(e) \o WeatherTags(e)
           \o PersonalTags(e) \o ContinuationTags(e) \o OperationsTags(e))
----------------------------------------------------------------------------
\* Rendering (render_daybook.py).

Status(e, desk) ==
  LET rows == {i \in DOMAIN e.coverage : e.coverage[i].desk = desk}
  IN IF rows = {} THEN DaybookNone ELSE e.coverage[Min(rows)].status
CoveredDesks(e) == {d \in {e.coverage[i].desk : i \in DOMAIN e.coverage} :
                       Status(e, d) = "covered"}

\* _render_departments runs over the ranked desks, then health, then the rail.
Placed(e) ==
  SelectSeq(e.departments, LAMBDA d : d.desk \notin RailDesks)
    \o SelectSeq(e.departments, LAMBDA d : d.desk = Health)
    \o SelectSeq(e.departments, LAMBDA d : d.desk \in RailDesks \ {Health})
Navigation(e) == [i \in DOMAIN Placed(e) |-> Placed(e)[i].desk]

\* DepartmentIds.allocate: the key, department-key, department-key-2, ...
Candidate(desk, n) ==
  CASE n = 0 -> desk
    [] n = 1 -> <<"department">> \o desk
    [] OTHER -> <<"department">> \o desk \o <<ToString(n)>>
Allocate(used, desk) ==
  LET free == {n \in 0..Cardinality(used) + 1 :
                 {Candidate(desk, n), HeadingOf(Candidate(desk, n))} \intersect used = {}}
  IN Candidate(desk, Min(free))

Anchors(e) ==
  FoldLeft(LAMBDA acc, desk :
             LET anchor == Allocate(acc.used, desk)
             IN [used    |-> acc.used \union {anchor, HeadingOf(anchor)},
                 anchors |-> Append(acc.anchors, anchor)],
           [used |-> ToSet(FixedIds(e)), anchors |-> <<>>], Navigation(e)).anchors

\* _coverage_manifest: every policy desk once, nothing twice.
LedgerSound(e) ==
  /\ IsInjective([i \in DOMAIN e.coverage |-> e.coverage[i].desk])
  /\ PolicyDesks \subseteq {e.coverage[i].desk : i \in DOMAIN e.coverage}

ReportedDesks(e) ==
  {e.lead, Weather, Personal} \union ToSet(Navigation(e))
    \union (IF e.operations # <<>> THEN {Cluster} ELSE {})

LeadAllowed(e) == e.lead \in PolicyDesks \ {Opinion, Weather, Personal}

FiguresEmbedded(e) ==
  \A i \in DOMAIN EditionStories(e) : \A j \in DOMAIN EditionStories(e)[i].blocks :
    LET block == EditionStories(e)[i].blocks[j]
    IN block.kind = "figure" => block.data

\* The conditions under which render_daybook raises no RenderError.
RenderAccepts(e) ==
  /\ WellFormed(e)
  /\ LeadAllowed(e)
  /\ FiguresEmbedded(e)
  /\ IsInjective([i \in DOMAIN e.departments |-> e.departments[i].desk])
  /\ LedgerSound(e)
  /\ Status(e, e.lead) = "covered"
  /\ e.operations # <<>> => Status(e, Cluster) = "covered"
  /\ Status(e, Weather) = e.weather
  /\ Status(e, Personal) = e.personal
  /\ ToSet(Navigation(e)) \subseteq CoveredDesks(e)
  /\ CoveredDesks(e) \subseteq ReportedDesks(e)

Story(desk, blocks) == [desk |-> desk, blocks |-> blocks]

\* _render_lead, _render_operations and _render_departments.
LeadStory(e) ==
  Story(e.lead, IF e.figure = DaybookNone THEN <<TextBlock>>
                ELSE <<[Figure(e.figure) EXCEPT !.data = TRUE], TextBlock>>)
OperationStories(e) ==
  [i \in DOMAIN e.operations |-> Story(Cluster, e.operations[i].blocks)]
DepartmentStories(e) ==
  [i \in DOMAIN Placed(e) |-> Story(Placed(e)[i].desk, Placed(e)[i].blocks)]

\* The department rail: the lead stands for its own desk.
DaybookLinks(e) ==
  LET anchors == Anchors(e)
      desks   == Navigation(e)
  IN <<<<"lead">>>>
       \o FlattenSeq([i \in DOMAIN desks |-> IF desks[i] = e.lead THEN <<>> ELSE <<anchors[i]>>])
       \o <<Weather>>
       \o (IF e.operations # <<>> THEN <<<<"operations", "continuation">>>> ELSE <<>>)

\* What goes where in the template: ranked desks with the lead, health and the
\* rail with the day ahead.
PageTags(e) ==
  LET placed  == Placed(e)
      anchors == Anchors(e)
      links   == DaybookLinks(e)
      Departments(desks) ==
        FlattenSeq([i \in DOMAIN placed |->
          IF placed[i].desk \in desks
          THEN DepartmentTags(placed[i], anchors[i], e.source) ELSE <<>>])
      all == ToSet(Navigation(e))
  IN TemplateTags(
       FlattenSeq([i \in DOMAIN links |-> RailLink(links[i])]),
       LeadTags(e) \o Departments(all \ RailDesks),
       WeatherTags(e) \o Departments(all \intersect RailDesks \intersect {Health})
         \o PersonalTags(e) \o ContinuationTags(e) \o Departments((all \intersect RailDesks) \ {Health}),
       OperationsTags(e))
----------------------------------------------------------------------------
\* A document as it is delivered, with the coverage manifest beside it.
Rendered(e) ==
  [tags       |-> PageTags(e),
   stories    |-> <<LeadStory(e)>> \o OperationStories(e) \o DepartmentStories(e),
   manifest   |-> [lead |-> e.lead, coverage |-> e.coverage],
   unfinished |-> e.unfinished]
----------------------------------------------------------------------------
\* Validation of the page and its manifest (validate_daybook.py).

Stories(page) == Tagged(page.tags, "article") \intersect MarkedAs(page.tags, "story")
DayAhead(page) == {i \in DOMAIN page.tags : page.tags[i].attrs.id \in {Weather, Personal}}
PageDesks(page) == {page.tags[i].attrs.desk : i \in Stories(page)}
PagePhotos(page) ==
  LET figures == SelectSeq(page.tags, LAMBDA t : t.tag = "figure")
  IN [i \in DOMAIN figures |-> figures[i].attrs.photo]

ManifestValid(manifest) ==
  /\ LedgerSound(manifest)
  /\ manifest.lead \in PolicyDesks \ {Opinion, Weather, Personal}
  /\ Status(manifest, manifest.lead) = "covered"

LandmarksValid(page) ==
  LET tags     == page.tags
      headings == Headings(tags)
      Inside(mark) == \E i \in MarkedAs(tags, "grid") : MarkedAs(tags, mark) \subseteq Within(tags, i)
  IN /\ \A tag \in {"main", "title", "h1"} : Cardinality(Tagged(tags, tag)) = 1
     /\ \A tag \in {"header", "footer", "nav"} : Tagged(tags, tag) # {}
     /\ \A mark \in {"strap", "tagline", "rail", "grid", "lead", "day_ahead"} :
          Cardinality(MarkedAs(tags, mark)) = 1
     /\ Inside("lead") /\ Inside("day_ahead")
     /\ Cardinality(MarkedAs(tags, "continuation")) <= 1
     /\ MarkedAs(tags, "continuation") = {} \/ ~Inside("continuation")
     /\ \A i \in MarkedAs(tags, "lead") : tags[i].attrs.desk = page.manifest.lead
     /\ \A i \in 1..(Len(headings) - 1) : headings[i + 1] <= headings[i] + 1

ReservedIds == {<<"coverage">>, <<"sources">>, <<"editors", "note">>}
IdsValid(page) ==
  LET ids == Ids(page.tags)
  IN /\ IsInjective(ids)
     /\ <<"daybook">> \in ToSet(ids)
     /\ ReservedIds \intersect ToSet(ids) = {}
     /\ Targets(page.tags) \subseteq ToSet(ids)
     /\ ~page.unfinished

CoverageValid(page) ==
  LET Day(id) == {page.tags[i].attrs : i \in {j \in DayAhead(page) : page.tags[j].attrs.id = id}}
  IN /\ CoveredDesks(page.manifest)
          \subseteq PageDesks(page) \union {page.tags[i].attrs.id : i \in DayAhead(page)}
     /\ PageDesks(page) \subseteq CoveredDesks(page.manifest)
     /\ \A id \in {Weather, Personal} :
          /\ Status(page.manifest, id) \in {"covered", "unavailable"}
          /\ \E day \in Day(id) : /\ day.status = Status(page.manifest, id)
                                  /\ day.status = "covered" => day.kind # DaybookNone

\* What is reported names where it is from, and links there.
SourcesValid(page) ==
  \A i \in Sources(page.tags) :
    LET source == page.tags[i].attrs
    IN /\ source.kind \in {"web", "tool"}
       /\ source.kind = "web" => source.url \in LinksIn(page.tags, i)

PhotosValid(page) ==
  /\ OrphanImages(page.tags) = {}
  /\ IsInjective(PagePhotos(page))
  /\ \A i \in Figures(page.tags) :
       /\ page.tags[i].attrs.photo \in CaptionLinks(page.tags, i)
       /\ Cardinality(FigureImages(page.tags, i)) = 1
       /\ \A j \in FigureImages(page.tags, i) : page.tags[j].attrs.data

DaybookValid(page) ==
  /\ ManifestValid(page.manifest)
  /\ LandmarksValid(page)
  /\ IdsValid(page)
  /\ CoverageValid(page)
  /\ SourcesValid(page)
  /\ PhotosValid(page)

\* Mutant: the local path renders but does not validate.
LocallyRendered(e) == RenderAccepts(e)

\* _render_locally runs the same two scripts before it returns a page.
LocallyPassed(e) == RenderAccepts(e) /\ DaybookValid(Rendered(e))
----------------------------------------------------------------------------
NoCall == [pc |-> "idle", edition |-> DaybookNone, prepared |-> DaybookNone, answer |-> DaybookNone]

DaybookInit ==
  /\ editionSchema \in EditionSchemas
  /\ run = [attempts |-> 0, terminal |-> <<>>]
  /\ holder = DaybookNone
  /\ daybookCall = [c \in Calls |-> NoCall]

At(c, pc) == holder = c /\ daybookCall[c].pc = pc
Goto(c, pc) == daybookCall' = [daybookCall EXCEPT ![c].pc = pc] /\ UNCHANGED <<run, holder>>

\* A call leaves the lock with its answer.
DaybookAnswer(c, answer) ==
  /\ daybookCall' = [daybookCall EXCEPT ![c].pc = "answered", ![c].prepared = DaybookNone,
                          ![c].answer = answer]
  /\ holder' = DaybookNone

\* fail: the submitted edition goes back with the errors, so that what was
\* researched can still be delivered as text; the render script's structural
\* errors are counted in full however many are shown.
Fail(c, retained, misshapen) ==
  /\ DaybookAnswer(c, [passed |-> FALSE, retained |-> retained, misshapen |-> misshapen,
                remaining |-> Max({0, BriefingAttempts - run.attempts})])
  /\ UNCHANGED run

Succeed(c, e) ==
  /\ DaybookAnswer(c, [passed |-> TRUE, retained |-> FALSE, misshapen |-> NoErrors, remaining |-> 0])
  /\ run' = [run EXCEPT !.terminal =
       Append(@, [page |-> Rendered(e), edition |-> daybookCall[c].edition])]

MayAttempt == run.attempts < BriefingAttempts

\* The tool is there only if its schema loads and expands.
Submit(c, e) ==
  /\ SchemaUsable(editionSchema)
  /\ daybookCall[c].pc = "idle"
  /\ daybookCall' = [daybookCall EXCEPT ![c] = [NoCall EXCEPT !.pc = "waiting", !.edition = e]]
  /\ UNCHANGED <<run, holder>>

\* Inside the lock: a finished request answers at once, an edition over the
\* size budget costs no attempt, the third attempt is refused.
DaybookEnter(c) ==
  /\ holder = DaybookNone /\ daybookCall[c].pc = "waiting"
  /\ \/ /\ run.terminal # <<>>
        /\ DaybookAnswer(c, [passed |-> TRUE, retained |-> FALSE, misshapen |-> NoErrors, remaining |-> 0])
        /\ UNCHANGED run
     \/ /\ run.terminal = <<>>
        /\ ~daybookCall[c].edition.fits
        /\ Fail(c, FALSE, NoErrors)
     \/ /\ run.terminal = <<>>
        /\ daybookCall[c].edition.fits /\ ~MayAttempt
        /\ Fail(c, TRUE, NoErrors)
     \/ /\ run.terminal = <<>>
        /\ daybookCall[c].edition.fits /\ MayAttempt
        /\ run' = [run EXCEPT !.attempts = @ + 1]
        /\ holder' = c
        /\ daybookCall' = [daybookCall EXCEPT ![c].pc = "photos"]

ResourcesMissing(c) == At(c, "photos") /\ Fail(c, TRUE, NoErrors)

\* Photos are fetched only for a well-formed edition; any of them may fail.
EmbedPhotos(c) ==
  /\ At(c, "photos")
  /\ LET e == daybookCall[c].edition
     IN \E fetched \in IF WellFormed(e) THEN SUBSET DaybookSelected(e) ELSE {{}} :
          daybookCall' = [daybookCall EXCEPT ![c].pc = "capability",
                     ![c].prepared = IF WellFormed(e) THEN DaybookEmbedded(e, fetched) ELSE e]
  /\ UNCHANGED <<run, holder>>

DaybookCapability(c) == At(c, "capability") /\ Goto(c, "staging")
Stage(c) == At(c, "staging") /\ Goto(c, "render")

SandboxRender(c) ==
  /\ At(c, "render")
  /\ LET e == daybookCall[c].prepared
     IN IF RenderAccepts(e) THEN Goto(c, "validate") ELSE Fail(c, TRUE, Misshapen(e))

SandboxValidate(c) ==
  /\ At(c, "validate")
  /\ IF DaybookValid(Rendered(daybookCall[c].prepared)) THEN Goto(c, "collect") ELSE Fail(c, TRUE, NoErrors)

Collect(c) == At(c, "collect") /\ Succeed(c, daybookCall[c].prepared)

\* An unusable report, a truncated result, a transport error or the deadline
\* at any sandbox step: the page is rendered locally instead.
SandboxFails(c) ==
  /\ \E pc \in {"capability", "staging", "render", "validate", "collect"} : At(c, pc)
  /\ Goto(c, "local")

RenderLocally(c) ==
  /\ At(c, "local")
  /\ \/ LocallyPassed(daybookCall[c].prepared) /\ Succeed(c, daybookCall[c].prepared)
     \/ ~LocallyPassed(daybookCall[c].prepared) /\ Fail(c, TRUE, Misshapen(daybookCall[c].prepared))

LocalUnavailable(c) == At(c, "local") /\ Fail(c, TRUE, NoErrors)

\* The request's task is cancelled: the lock is released, the attempt spent.
DaybookCancel(c) ==
  /\ holder = c
  /\ daybookCall' = [daybookCall EXCEPT ![c].pc = "cancelled", ![c].prepared = DaybookNone]
  /\ holder' = DaybookNone
  /\ UNCHANGED run

DaybookNext ==
  /\ UNCHANGED editionSchema
  /\ \E c \in Calls :
      \/ \E e \in Editions : Submit(c, e)
      \/ DaybookEnter(c)
      \/ ResourcesMissing(c)
      \/ EmbedPhotos(c)
      \/ DaybookCapability(c)
      \/ Stage(c)
      \/ SandboxRender(c)
      \/ SandboxValidate(c)
      \/ Collect(c)
      \/ SandboxFails(c)
      \/ RenderLocally(c)
      \/ LocalUnavailable(c)
      \/ DaybookCancel(c)

DaybookSpec == DaybookInit /\ [][DaybookNext]_daybookVars
----------------------------------------------------------------------------
\* A desk of the ledger is covered exactly when the page reports on it.
LedgerHonest(page) ==
  \A i \in DOMAIN page.manifest.coverage :
    LET row == page.manifest.coverage[i]
    IN IF row.desk \in {Weather, Personal}
       THEN row.desk \in PageDesks(page) => row.status = "covered"
       ELSE (row.status = "covered") <=> (row.desk \in PageDesks(page))

\* Every story the agent submitted is on the page with all its text, and no
\* story is empty: a photo that could not be had costs only itself.
StoriesKept(page, e) ==
  \A i \in DOMAIN EditionStories(e) :
    \E j \in DOMAIN page.stories :
      LET told  == SelectSeq(EditionStories(e)[i].blocks, LAMBDA b : b.kind # "figure")
          shown == SelectSeq(page.stories[j].blocks, LAMBDA b : b.kind # "figure")
      IN /\ i > Len(e.departments) \/ page.stories[j].desk = e.departments[i].desk
         /\ page.stories[j].blocks # <<>>
         /\ Len(shown) >= Len(told)

\* What the schema says of a value, whatever order and alternatives it is
\* checked in.
Conforms(schema, value) ==
  LET fits[path \in DOMAIN value, name \in DOMAIN schema] ==
        LET node == Expanded(schema, name)
            at   == value[path]
            keys == Keys(value, path)
        IN /\ Stated(node, "type", at.type) = at.type
           /\ at.text \in Stated(node, "enum", {at.text})
           /\ States(node, "anyOf") => \E b \in ToSet(node.anyOf) : fits[path, b]
           /\ at.type = "object" =>
                /\ Stated(node, "required", {}) \subseteq keys
                /\ Stated(node, "closed", FALSE) => keys \subseteq DOMAIN Properties(node)
                /\ \A key \in keys \intersect DOMAIN Properties(node) :
                     fits[Append(path, key), node.properties[key]]
           /\ at.type = "array" =>
                /\ Cardinality(keys) >= Stated(node, "minItems", 0)
                /\ Cardinality(keys) <= Stated(node, "maxItems", Cardinality(keys))
                /\ States(node, "items") => \A key \in keys : fits[Append(path, key), node.items]
  IN fits[<<>>, "root"]

\* However many errors are shown, all are counted.
ToldInFull(errors) ==
  /\ Len(errors.shown) = Min({errors.count, MaxErrors})
  /\ errors.truncated <=> errors.count > Len(errors.shown)

\* The validator has no other objection to a page the renderer made.
RefusedFor(page) ==
  \/ DaybookValid(page)
  \/ page.unfinished
  \/ ReservedIds \intersect ToSet(Ids(page.tags)) # {}

\* What the reader is given was honest, complete and whole, whichever path
\* produced it; the request spent at most two attempts on it, and only one
\* page was ever delivered; a refused edition went back to the agent.
BriefingSound ==
  /\ run.attempts <= BriefingAttempts
  /\ Len(run.terminal) <= 1
  /\ run.terminal # <<>> =>
       LET page == run.terminal[1].page
       IN /\ LedgerHonest(page)
          /\ StoriesKept(page, run.terminal[1].edition)
          /\ IsInjective(Ids(page.tags))
          /\ Targets(page.tags) \subseteq ToSet(Ids(page.tags))
          /\ IsInjective(PagePhotos(page))
          /\ Len(PagePhotos(page)) <= MaxPhotos
          /\ ~page.unfinished
          /\ Conforms(editionSchema, run.terminal[1].edition.form)
  /\ \A c \in Calls : At(c, "validate") =>
       RefusedFor(Rendered(daybookCall[c].prepared))
  /\ \A c \in Calls : daybookCall[c].pc = "answered" =>
       /\ ToldInFull(daybookCall[c].answer.misshapen)
       /\ daybookCall[c].answer.misshapen.count > 0 =>
            ~Conforms(editionSchema, daybookCall[c].edition.form)
       /\ daybookCall[c].answer.passed => run.terminal # <<>>
       /\ ~daybookCall[c].answer.passed /\ daybookCall[c].edition.fits => daybookCall[c].answer.retained
=============================================================================
