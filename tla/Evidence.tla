------------------------------ MODULE Evidence ------------------------------
(***************************************************************************)
(* The source verifier: auditing the citations of a draft against the      *)
(* sources actually read, planning which sources to use, and verifying one *)
(* claim (builder/source_verifier/source_verifier_function.py, critic.py). *)
(***************************************************************************)
EXTENDS Naturals, Sequences, SequencesExt, FiniteSets, FiniteSetsExt

CONSTANTS Links,     \* normalized reference URLs; NoLink: a line without one
          NoLink,
          Unsafe,    \* links that are placeholders or not public
          LedgerItems, \* what a ledger of tool results lists: kind and link
          Numbers,   \* citation numbers
          MaxLines,  \* reference lines and inline citations of a draft
          Selections, \* sets of source ids a call may name
          Marker,    \* characters of the omission marker
          Lengths,   \* characters of a source
          Shortest,  \* of one that counts as content (50)
          Limits,    \* max_source_chars
          Least      \* characters of the smallest excerpt selected again (256)

VARIABLES
  operation, \* the operation this call runs
  ledger,   \* the form of the URL ledger passed to an audit
  refs,     \* reference lines: number and link
  inline,   \* numbers cited in the body, in order
  verdict,  \* of a claim being verified: stage or verdict
  reachable, \* the source was read
  excerpt,  \* of it: its length, the limit, the best match of the claim (the
            \* length: none), the spans selected, and whether their end was cut
  plan      \* the last source plan: what was asked for and the order

evidenceVars == <<operation, ledger, refs, inline, verdict, reachable, excerpt, plan>>

EvidenceInit ==
  /\ operation = "none" /\ ledger = "absent" /\ refs = <<>> /\ inline = <<>> /\ verdict = "none" /\ reachable = FALSE
  /\ excerpt = [length |-> 0, limit |-> 0, match |-> 0, spans |-> <<>>,
                cut |-> FALSE]
  /\ plan = [selected |-> {}, disabled |-> {}, order |-> <<>>, blocked |-> {}, hints |-> <<>>,
             beside |-> <<>>, approval |-> FALSE]

LedgerForms == {"absent", "malformed", "text", "list", "sources", "object"}

(* source_verifier: one operation per call; a disabled operation or a       *)
(* missing argument ends it.                                                *)
Dispatch ==
  /\ operation = "none" /\ operation' \in {"audit", "plan", "verify", "refused"}
  /\ ledger' \in IF operation' = "audit" THEN LedgerForms ELSE {ledger}
  /\ UNCHANGED <<refs, inline, verdict, reachable, excerpt, plan>>

(* A draft: reference lines and inline citations in any number and order.   *)
Write ==
  /\ operation = "audit" /\ Len(refs) + Len(inline) < MaxLines
  /\ \/ \E n \in Numbers, u \in Links \cup {NoLink} :
          refs' = Append(refs, [number |-> n, link |-> u]) /\ UNCHANGED inline
     \/ \E n \in Numbers : inline' = Append(inline, n) /\ UNCHANGED refs
  /\ UNCHANGED <<operation, ledger, verdict, reachable, excerpt, plan>>

(***************************************************************************)
(* audit_citations                                                         *)
(***************************************************************************)

Numbered(lines, n) == {i \in DOMAIN lines : lines[i].number = n}

(* _safe_audit_url: an unresolved host is only a warning.                   *)
Safe(u) == u \notin Unsafe

(* _parse_source_urls: the links of a ledger, without tracking parameters   *)
(* (_normalize_audit_url). Text gives every link in it; JSON gives those of *)
(* its strings and of its objects' known fields, in a list, in a list under *)
(* a known field, or in a lone object.                                      *)
LedgerUrls(form) ==
  LET read == SelectSeq(LedgerItems, LAMBDA i : i.kind \in {"string", "keyed"})
      keyed == SelectSeq(LedgerItems, LAMBDA i : i.kind = "keyed")
      links(items) == {items[i].link : i \in DOMAIN items}
  IN  CASE form = "text" -> links(LedgerItems)
        [] form \in {"list", "sources"} -> links(read)
        [] form = "object" -> links(SubSeq(keyed, 1, 1))
        [] OTHER -> {}

(* Without a ledger every link counts; in a malformed one none is found.    *)
Observed(u) == ledger = "absent" \/ u \in LedgerUrls(ledger)

(* Mutant: a number used twice stands for its first line.                   *)
AdmissibleFirst(lines, i) ==
  /\ i = Min(Numbered(lines, lines[i].number)) /\ lines[i].link # NoLink
  /\ Safe(lines[i].link) /\ Observed(lines[i].link)

(* A line that may stand: its number is used once, its link is there, safe  *)
(* and one that was observed.                                               *)
Admissible(lines, i) ==
  /\ Numbered(lines, lines[i].number) = {i} /\ lines[i].link # NoLink
  /\ Safe(lines[i].link) /\ Observed(lines[i].link)

(* The first admissible line of each link is valid.                         *)
Valid(lines) ==
  {i \in DOMAIN lines : /\ Admissible(lines, i)
                        /\ \A j \in 1..(i - 1) : Admissible(lines, j) => lines[j].link # lines[i].link}

ValidNumbers(lines) == {lines[i].number : i \in Valid(lines)}
Orphaned(lines, body) == ToSet(body) \ ValidNumbers(lines)

Passed(lines, body) ==
  /\ ledger # "malformed" /\ Valid(lines) = DOMAIN lines /\ Valid(lines) # {} /\ Orphaned(lines, body) = {}

(* _renumber_markdown_citations: valid numbers become 1, 2, ... in order;   *)
(* other lines and citations go.                                            *)
Renumbered(lines, n) == Cardinality({m \in ValidNumbers(lines) : m <= n})

RepairedRefs(lines) ==
  LET kept == SelectSeq(lines, LAMBDA e : e.number \in ValidNumbers(lines))
  IN  [i \in DOMAIN kept |-> [kept[i] EXCEPT !.number = Renumbered(lines, @)]]

RepairedInline(lines, body) ==
  LET kept == SelectSeq(body, LAMBDA n : n \in ValidNumbers(lines))
  IN  [i \in DOMAIN kept |-> Renumbered(lines, kept[i])]

(***************************************************************************)
(* plan_sources                                                            *)
(***************************************************************************)

(* _default_source_registry: the tools of each source, in alphabetical      *)
(* order, and the sources that are on unless a call selects its own.        *)
Registry ==
  <<<<"cluster_state", {"k8s_mcp_server"}>>, <<"curated_domains", {"domain_retriever_tool"}>>,
    <<"curated_feeds", {"curated_feed_search_tool"}>>, <<"fantasy_data", {"espn_mcp_server"}>>,
    <<"known_url_scrape", {"webscrape_tool", "nws_weather_tool"}>>,
    <<"network_state", {"unifi_mcp_server"}>>, <<"nvidia_docs", {"nvidia_docs_tool"}>>,
    <<"perplexity_search", {"perplexity_search_tool"}>>,
    <<"repository_data", {"github_mcp_server"}>>,
    <<"uploaded_documents", {"user_document_tool"}>>,
    <<"workspace_data", {"gmail_mcp_server", "calendar_mcp_server", "docs_mcp_server"}>>,
    <<"x_mcp", {"x_mcp_server"}>>>>
Known == [i \in DOMAIN Registry |-> Registry[i][1]]
Defaults == {"curated_domains", "curated_feeds", "perplexity_search", "known_url_scrape",
             "nvidia_docs", "x_mcp"}
ToolsOf(sources) == UNION {Registry[i][2] : i \in {j \in DOMAIN Registry : Known[j] \in sources}}

(* What each kind of word in a question says about it: _question_flags and  *)
(* the aliases of _preferred_source_ids.                                    *)
Raises ==
  [uploaded |-> {"uploaded"}, gmail |-> {"workspace"}, schedule |-> {"workspace"},
   google_doc |-> {"workspace", "news"}, k8s |-> {"cluster"}, unifi |-> {"network"},
   github |-> {"repository"}, fantasy |-> {"fantasy"}, dynamo |-> {"docs"},
   api |-> {"docs"}, aistore |-> {}, link |-> {"has_url"}, today |-> {"current"},
   latest |-> {"current"}, news |-> {"current", "news"}, image |-> {"news"},
   survey |-> {"broad"}, cuda |-> {}, semianalysis |-> {}, clinic |-> {}, therapy |-> {},
   weather |-> {}]
Wordings == DOMAIN Raises
Flags(words) == UNION {Raises[w] : w \in words}

(* The sources each flag prefers, in order.                                 *)
Preferences ==
  <<<<"uploaded", "uploaded_documents">>, <<"workspace", "workspace_data">>,
    <<"cluster", "cluster_state">>, <<"network", "network_state">>,
    <<"repository", "repository_data">>, <<"fantasy", "fantasy_data">>,
    <<"docs", "nvidia_docs">>, <<"has_url", "known_url_scrape">>,
    <<"current", "curated_feeds">>, <<"current", "perplexity_search">>,
    <<"broad", "curated_domains">>, <<"broad", "perplexity_search">>,
    <<"news", "perplexity_search">>,
    <<"always", "curated_domains">>, <<"always", "perplexity_search">>>>

(* preferred_depth: a broad question is deep unless the call says otherwise, *)
(* and a deep plan prefers what a broad question does.                      *)
Depth(asked, words) == IF asked = "auto" /\ "broad" \in Flags(words) THEN "deep" ELSE asked
Wanted(depth, words) == Flags(words) \cup (IF depth = "deep" THEN {"broad"} ELSE {})

Distinct(seq) == FoldLeft(LAMBDA kept, s : IF Contains(kept, s) THEN kept ELSE Append(kept, s), <<>>, seq)

(* _preferred_source_ids.                                                   *)
PreferredSources(flags) ==
  LET chosen == SelectSeq(Preferences, LAMBDA p : p[1] \in flags \cup {"always"})
  IN  Distinct([i \in DOMAIN chosen |-> chosen[i][2]])

(* The preferred sources that were selected, in order of preference, then   *)
(* the others selected in alphabetical order; disabled and unknown ones are *)
(* out.                                                                     *)
Planned(selected, disabled, flags) ==
  LET usable == (selected \ disabled) \cap ToSet(Known)
      first == SelectSeq(PreferredSources(flags), LAMBDA s : s \in usable)
  IN  first \o SelectSeq(Known, LAMBDA s : s \in usable \ ToSet(first))

(* _tool_hints: where to start with a source. A list of words and arguments *)
(* gives the first that the question has, or what holds without any.        *)
FirstOf(choices, words, default) ==
  LET fit == SelectSeq(choices, LAMBDA c : c[1] \in words)
  IN  IF fit = <<>> THEN default ELSE fit[1][2]
Domains == <<<<"k8s", "kubernetes">>, <<"semianalysis", "semianalysis">>,
             <<"clinic", "veterinarian">>, <<"therapy", "mentalhealth">>>>
FeedScopes == <<<<"semianalysis", "semianalysis">>, <<"cuda", "nvidia_developer">>>>
Products == <<<<"aistore", "aistore">>, <<"dynamo", "dynamo">>>>
Workspace == <<<<"gmail", "gmail_mcp_server">>, <<"schedule", "calendar_mcp_server">>,
               <<"google_doc", "docs_mcp_server">>>>
Hint(tool, argument) == {[tool |-> tool, argument |-> argument]}

Hints(s, words) ==
  CASE s = "curated_domains" -> Hint("domain_retriever_tool", FirstOf(Domains, words, "nvidia"))
    [] s = "curated_feeds" -> Hint("curated_feed_search_tool", FirstOf(FeedScopes, words, "auto"))
    [] s = "perplexity_search" ->
         Hint("perplexity_search_tool", IF words \cap {"latest", "news"} # {} THEN "week" ELSE "any")
    [] s = "known_url_scrape" ->
         Hint(IF "weather" \in words THEN "nws_weather_tool" ELSE "webscrape_tool", "none")
    [] s = "uploaded_documents" -> Hint("user_document_tool", "none")
    [] s = "workspace_data" ->
         LET named == {w \in ToSet(Workspace) : w[1] \in words}
         IN  UNION {Hint(w[2], "none") : w \in IF named = {} THEN ToSet(Workspace) ELSE named}
    [] s = "nvidia_docs" -> Hint("nvidia_docs_tool", FirstOf(Products, words, "routed"))
    [] OTHER -> {}

(* _source_reason: what a plan asks to use beside a source.                 *)
Beside(s, depth, words) ==
  (IF depth = "deep" /\ s = "perplexity_search" THEN {"independent"} ELSE {})
    \cup (IF "current" \in Flags(words) /\ s = "curated_domains" THEN {"current"} ELSE {})

(* Any selection, or the defaults, and any exclusion; advice to have a      *)
(* costly plan approved is no more than that.                               *)
PlanSources ==
  /\ operation = "plan" /\ plan.selected = {} /\ plan.disabled = {}
  /\ \E on \in Selections \cup {Defaults}, off \in Selections, asked \in {"auto", "quick", "deep"} :
       \E words \in {{}, Wordings} \cup {{w} : w \in Wordings} :
         LET depth == Depth(asked, words)
             order == Planned(on, off, Wanted(depth, words))
         IN  plan' = [selected |-> on, disabled |-> off, order |-> order, blocked |-> ToolsOf(off),
                      hints |-> [i \in DOMAIN order |-> Hints(order[i], words)],
                      beside |-> [i \in DOMAIN order |-> Beside(order[i], depth, words)],
                      approval |-> /\ depth # "quick" /\ "broad" \in Wanted(depth, words)
                                   /\ Len(order) >= 3]
  /\ UNCHANGED <<operation, ledger, refs, inline, verdict, reachable, excerpt>>

(***************************************************************************)
(* verify_claim                                                            *)
(***************************************************************************)

To(v) == verdict' = v /\ UNCHANGED <<operation, ledger, refs, inline, plan>>

(* A placeholder source ends the verification at once.                      *)
EvidenceAsk ==
  /\ operation = "verify" /\ verdict = "none" /\ UNCHANGED <<reachable, excerpt>>
  /\ To("fetching") \/ To("error") \/ To("unsupported")

(* A source that was not read is never shown to the critic.                 *)
EvidenceUnreachable == To("source_unreachable")

(* _is_valid_content: enough text below its header, not a challenge.        *)
ValidContent(page) == page.chars >= Shortest /\ ~page.challenge

(* _fetch_source: content, or an invalid, challenged or unreachable source. *)
FetchSource ==
  /\ verdict = "fetching" /\ UNCHANGED excerpt
  /\ \E page \in [chars : Lengths \cup {0}, challenge : BOOLEAN] :
       \/ ValidContent(page) /\ To("selecting") /\ reachable' = TRUE
       \/ EvidenceUnreachable /\ UNCHANGED reachable

Join(spans, s) ==
  IF spans # <<>> /\ s[1] <= Last(spans)[2]
  THEN Append(Front(spans), <<Last(spans)[1], Max({Last(spans)[2], s[2]})>>)
  ELSE Append(spans, s)

(* The beginning, the end and the span around the best match of the claim,  *)
(* joined where they touch.                                                 *)
Spans(length, limit, match) ==
  LET budget == limit - 2 * Marker
      side == budget \div 4
      focus == budget - 2 * side
      from == Min({IF match < focus \div 2 THEN 0 ELSE match - focus \div 2, length - focus})
      sides == <<<<0, side>>, <<from, from + focus>>, <<length - side, length>>>>
      sorted == SortSeq(sides, LAMBDA s, t : s[1] < t[1] \/ (s[1] = t[1] /\ s[2] < t[2]))
  IN  FoldLeft(Join, <<>>, sorted)

(* A source without a match is shown by its halves.                         *)
Halves(length, limit) ==
  LET head == (limit - Marker + 1) \div 2
  IN  <<<<0, head>>, <<length - (limit - Marker - head), length>>>>

(* _claim_focused_excerpt                                                   *)
Focused(length, limit, match) ==
  IF length <= limit THEN <<<<0, length>>>>
  ELSE IF match = length THEN Halves(length, limit) ELSE Spans(length, limit, match)

ExcerptSize(spans) ==
  FoldLeft(LAMBDA n, s : n + (s[2] - s[1]), 0, spans) + (Len(spans) - 1) * Marker

(* The evidence is selected from the whole source. When it has too many     *)
(* tokens it is selected again for fewer characters, in proportion, where   *)
(* another match may score best; and what still has too many loses its end. *)
SelectEvidence ==
  /\ verdict = "selecting" /\ To("criticizing") /\ UNCHANGED reachable
  /\ \E l \in Lengths, m \in Limits : \E matched \in BOOLEAN :
     \E best, again \in IF matched THEN 0..(l - 1) ELSE {l} :
       LET first == Focused(l, m, best)
           Chosen(match, spans, cut) ==
             excerpt' = [length |-> l, limit |-> m, match |-> match, spans |-> spans, cut |-> cut]
       IN  \/ Chosen(best, first, FALSE)
           \/ \E chars \in Least..Max({Least, (9 * ExcerptSize(first)) \div 10}), cut \in BOOLEAN :
                Chosen(again, Focused(l, chars, again), cut)

(* _call_llm: a failed call or an empty answer is an error, not a verdict.  *)
CriticError == To("error")

(* ClaimVerification: what the first JSON object of an answer must be.      *)
Verdicts == {"supported", "partially_supported", "unsupported", "insufficient_context"}
CriticAnswers ==
  [object    : BOOLEAN,               \* _extract_json_object finds one
   verdict   : Verdicts \cup {"other"},
   certainty : {0, 100, 101},         \* per cent
   reasoned  : BOOLEAN,               \* its reasoning is not blank
   extra     : BOOLEAN]               \* it has a field of its own
Judged(a) ==
  IF /\ a.object /\ ~a.extra /\ a.reasoned
     /\ a.verdict \in Verdicts /\ a.certainty \in 0..100
  THEN a.verdict ELSE "error"

(* LLMClaimCritic.verify: a verdict of the schema, or an error.             *)
Criticize ==
  /\ verdict = "criticizing"
  /\ \/ CriticError
     \/ \E a \in CriticAnswers : To(Judged(a))
  /\ UNCHANGED <<reachable, excerpt>>

EvidenceNext ==
  Dispatch \/ Write \/ PlanSources \/ EvidenceAsk \/ FetchSource \/ SelectEvidence \/ Criticize

(* Every selected source that is known and not excluded is planned, once;   *)
(* a source is started with a tool the registry gives it, none of them      *)
(* blocked; and a plan worth approving pairs its internet search.           *)
PlanComplete ==
  /\ ToolsOf(ToSet(plan.order)) \cap plan.blocked = {}
  /\ \A i \in DOMAIN plan.order :
       /\ {h.tool : h \in plan.hints[i]} \subseteq ToolsOf({plan.order[i]})
       /\ plan.approval /\ plan.order[i] = "perplexity_search" => "independent" \in plan.beside[i]
  /\ IsInjective(plan.order)
  /\ ToSet(plan.order) = (plan.selected \ plan.disabled) \cap ToSet(Known)

(* The excerpt fits its limit with its markers, and shows the beginning,    *)
(* the end and the match, unless its end had to be cut.                     *)
ExcerptFits ==
  LET e == excerpt
  IN  e.spans # <<>> =>
        /\ ExcerptSize(e.spans) <= e.limit
        /\ \A i \in DOMAIN e.spans : e.spans[i][1] < e.spans[i][2] /\ e.spans[i][2] <= e.length
        /\ ~e.cut =>
             /\ e.spans[1][1] = 0 /\ Last(e.spans)[2] = e.length
             /\ e.match < e.length =>
                  \E i \in DOMAIN e.spans : e.match \in e.spans[i][1]..(e.spans[i][2] - 1)

(* The repaired draft passes the audit again, with references 1, 2, ..., k; *)
(* every citation left in it leads to the link it led to before; and only a *)
(* source that was read supports a claim. Plans and excerpts are complete.  *)
RepairKeepsSources ==
  LET r == RepairedRefs(refs)
      b == RepairedInline(refs, inline)
      cited == SelectSeq(inline, LAMBDA n : n \in ValidNumbers(refs))
  IN  /\ r # <<>> => Passed(r, b) /\ ToSet([i \in DOMAIN r |-> r[i].number]) = 1..Len(r)
      /\ \A i \in DOMAIN b : \A j \in DOMAIN r : r[j].number = b[i] =>
           \A k \in Numbered(refs, cited[i]) : refs[k].link = r[j].link
      /\ verdict \in {"supported", "partially_supported", "insufficient_context"} => reachable
      /\ PlanComplete /\ ExcerptFits
=============================================================================
