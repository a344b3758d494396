------------------------------ MODULE Documents ------------------------------
(***************************************************************************)
(* Reading an uploaded document: whose it is, where its bytes are, the     *)
(* Markdown made of them, how much of it the caller gets and how a failure *)
(* is reported; and which collections a user may read.                     *)
(*   builder/nat_nv_ingest: nat_nv_ingest.py (loading and extraction)      *)
(*   builder: document_ingest_api.py (/extract, /markdown)                 *)
(***************************************************************************)
EXTENDS Naturals, FiniteSets, Sequences, FiniteSetsExt, SequencesExt

CONSTANTS DocumentReaders,      \* authenticated users, among them "anonymous"
          Uploads,      \* document ids (with their session)
          MaxDocBytes,  \* DOCUMENT_INGEST_MAX_SIZE_BYTES
          MaxExtracted, \* characters of the longest Markdown
          MarkerLen,    \* length of the "middle omitted" marker
          InlineLimit,  \* INLINE_MARKDOWN_CHAR_LIMIT
          Bases, SharedBases, \* collection names, the shared ones
          Words, DocumentMaxEntries, MaxBatch

ASSUME DocumentsAssumption == MaxDocBytes \in Nat /\ MarkerLen \in Nat /\ InlineLimit \in Nat

VARIABLES
  record, \* the Redis record of a document
  object, \* [owner, document] -> length of the stored object, 0 when absent
  read,   \* a request; others share only the storage, which may always change
  sample  \* the last pure computation, with its inputs

documentVars == <<record, object, read, sample>>

NoRecord == [storage |-> "none"]
NotReading == [stage |-> "idle"]
NoSample == [kind |-> "none"]
Kinds == {"tool", "extract", "markdown"}
Sizes == 0..(MaxDocBytes + 1)

(***************************************************************************)
(* Extracted entries to Markdown                                           *)
(***************************************************************************)

(* Half of the words of two entries are shared.                             *)
SimilarTexts(a, b) == 2 * Cardinality(a.words \cap b.words) >= Cardinality(a.words \cup b.words)

(* _dedup_entries over the entries of one page, best first where two are    *)
(* similar; an entry dropped while it is compared goes on being compared.   *)
DedupEntries(e) ==
  LET against(i, D) ==
        FoldLeft(LAMBDA d, j : IF j \in d \/ ~SimilarTexts(e[i], e[j]) THEN d
                               ELSE d \cup {IF e[i].quality >= e[j].quality THEN j ELSE i},
                 D, [k \in 1..(Len(e) - i) |-> i + k])
  IN  FoldLeft(LAMBDA d, i : IF i \in d THEN d ELSE against(i, d), {}, [k \in DOMAIN e |-> k])

(* clean_table_markdown: the rows of a table get the header's columns; a    *)
(* row is its number of cells, 0 an empty row, and empty rows end it.       *)
RepairTable(rows) ==
  LET full == {i \in DOMAIN rows : rows[i] > 0}
      kept == IF full = {} THEN <<>> ELSE SubSeq(rows, 1, Max(full))
  IN  [i \in DOMAIN kept |-> kept[1]]

(* _apply_char_limit: the head and the tail around a marker.                *)
ApplyCharLimit(len, limit) ==
  IF len <= limit THEN [head |-> len, tail |-> 0, out |-> len, truncated |-> FALSE]
  ELSE IF limit <= MarkerLen THEN [head |-> limit, tail |-> 0, out |-> limit, truncated |-> TRUE]
  ELSE LET room == limit - MarkerLen
           head == (room + 1) \div 2
       IN  [head |-> head, tail |-> room - head, out |-> limit, truncated |-> TRUE]

(* _percent_for, the weight of the phase in hundredths.                     *)
PercentFor(completed, total, weight) ==
  IF completed >= total THEN 100 ELSE Min({99, (completed * 100 + weight) \div total})

DocumentOutcomes == {"success", "partial", "failure"}
Count(outcomes, kinds) == Cardinality({i \in DOMAIN outcomes : outcomes[i] \in kinds})

(* format_batch_response: a partly indexed document counts as indexed.      *)
BatchMessage(outcomes) ==
  IF Count(outcomes, {"failure"}) = 0 THEN "processed_all"
  ELSE IF Count(outcomes, {"success", "partial"}) > 0 THEN "partially_completed"
  ELSE "failed_to_process_any"

(* _classify_status reads the status back from the message.                 *)
ClassifyStatus(message) ==
  CASE message = "failed_to_process_any" -> "failure"
    [] message = "partially_completed" -> "partial" [] OTHER -> "success"

(* format_single_doc_response and format_extract_response: what a single    *)
(* document's reply is.                                                     *)
SingleMessage(outcome, markdown) ==
  CASE outcome = "failure" -> "error" [] outcome # "failure" /\ markdown -> "content"
    [] OTHER -> "receipt"

(* _extract_dense_dim: the configured field's dimension, or the first one   *)
(* that declares any; 0 is none.                                            *)
DenseDim(fields) ==
  LET declaring == {i \in DOMAIN fields : fields[i].dim > 0}
      named == {i \in declaring : fields[i].name = "vector"}
  IN  IF named # {} THEN fields[Min(named)].dim
      ELSE IF declaring # {} THEN fields[Min(declaring)].dim ELSE 0

(* _validate_embedding_dimension: refused only when both are known and      *)
(* differ.                                                                  *)
DimensionFits(exists, readable, fields, expected) ==
  \/ ~readable \/ ~exists \/ expected = 0
  \/ DenseDim(fields) \in {0, expected}

(* Milvus credentials: those of the client, and those given to the SDK,     *)
(* which takes a user and a password and splits a token of that form.       *)
Missing == "missing"
ClientLogin(token, user, password) ==
  IF token.kind # Missing THEN <<token.user, token.password>> ELSE <<user, password>>
SdkLogin(token, user, password) ==
  LET pair == token.kind = "pair" /\ (user = Missing \/ password = Missing)
  IN  <<IF user = Missing /\ pair THEN token.user ELSE user,
        IF password = Missing /\ pair THEN token.password ELSE password>>
DocumentTokens == {[kind |-> Missing, user |-> Missing, password |-> Missing],
           [kind |-> "opaque", user |-> "token", password |-> "token"],
           [kind |-> "pair", user |-> "tu", password |-> "tp"]}

(***************************************************************************)
(* Storage                                                                 *)
(***************************************************************************)

DocumentsInit ==
  /\ record = [d \in Uploads |-> NoRecord] /\ object = [x \in DocumentReaders \X Uploads |-> 0]
  /\ read = NotReading /\ sample = NoSample

(* The uploader writes the object, then the record. A record may lie: about *)
(* its size, or name the object of someone else. Owner "" is a legacy one.  *)
StoreObject(u, d, size) ==
  /\ sample = NoSample /\ record[d] = NoRecord /\ object[<<u, d>>] = 0 /\ size > 0
  /\ object' = [object EXCEPT ![<<u, d>>] = size]
  /\ UNCHANGED <<record, read, sample>>

StoreRecord(d, r) ==
  /\ sample = NoSample /\ record[d] = NoRecord
  /\ record' = [record EXCEPT ![d] = r]
  /\ UNCHANGED <<object, read, sample>>

(* Both expire, or are removed, on their own.                               *)
Vanish(u, d) ==
  /\ \/ record[d] # NoRecord /\ record' = [record EXCEPT ![d] = NoRecord] /\ UNCHANGED object
     \/ object[<<u, d>>] > 0 /\ object' = [object EXCEPT ![<<u, d>>] = 0] /\ UNCHANGED record
  /\ UNCHANGED <<read, sample>>

Records ==
  [storage : {"inline"}, owner : DocumentReaders \cup {""}, chars : 1..(2 * MaxDocBytes)] \cup
  [storage : {"object-v1"}, owner : DocumentReaders, key : DocumentReaders, size : Sizes, expired : BOOLEAN]

(***************************************************************************)
(* Reading                                                                 *)
(***************************************************************************)

Done(code) == [stage |-> "done", kind |-> read.kind, user |-> read.user, code |-> code]

(* user_document_tool extract, /extract and /markdown; user names that do   *)
(* not match the trusted identity are refused before anything is read.      *)
AskFor(u, kind, d, matches) ==
  /\ read = NotReading /\ sample = NoSample
  /\ read' = IF matches THEN [stage |-> "get", kind |-> kind, user |-> u, doc |-> d]
             ELSE [stage |-> "done", kind |-> kind, user |-> u, code |-> 403]
  /\ UNCHANGED <<record, object, sample>>

(* _can_access_stored_document                                              *)
CanAccess(r, u) == IF r.owner # "" THEN r.owner = u ELSE u = "anonymous"

(* JSON.GET and the ownership check.                                        *)
Get(up) ==
  /\ read.stage = "get"
  /\ LET r == record[read.doc]
     IN  read' = CASE ~up -> Done(503)
                   [] up /\ r = NoRecord -> Done(404)
                   [] up /\ r # NoRecord /\ ~CanAccess(r, read.user) -> Done(403)
                   [] OTHER -> [stage |-> "load", kind |-> read.kind, user |-> read.user,
                                doc |-> read.doc, rec |-> r]
  /\ UNCHANGED <<record, object, sample>>

(* _expected_document_object_key: the object is the requester's own.        *)
KeyAnyOwner(r, u) == TRUE
KeyExpected(r, u) == r.key = u

(* What _load_document_bytes and _read_document_object make of a record,    *)
(* with the length of the object found: bytes read or the code reported.    *)
Inline(r) == [code |-> IF (r.chars * 3) \div 4 > MaxDocBytes THEN 413
                       ELSE IF r.chars % 4 = 1 THEN 400 ELSE 200,
              bytes |-> (r.chars * 3) \div 4, of |-> r.owner]

(* _document_object_settings and the request timeout, read for every object.*)
Settings == {"complete", "missing", "invalid", "bad_timeout"}

FromObject(r, u, found, settings) ==
  [code |-> CASE settings = "missing" -> 500 [] settings = "invalid" -> 400
              [] OTHER -> IF ~KeyExpected(r, u) THEN 400
                          ELSE IF r.size = 0 THEN 400
                          ELSE IF r.size > MaxDocBytes THEN 413
                          ELSE IF r.expired THEN 404
                          ELSE IF settings = "bad_timeout" THEN 400
                          ELSE IF found = 0 THEN 503
                          ELSE IF found > MaxDocBytes THEN 413
                          ELSE IF found # r.size THEN 500 ELSE 200,
   bytes |-> found, of |-> r.key]
LoadBytes(r, u, found, settings) ==
  IF r.storage = "inline" THEN Inline(r) ELSE FromObject(r, u, found, settings)

DocumentLoad(settings) ==
  /\ read.stage = "load"
  /\ LET r == read.rec
         found == IF r.storage = "inline" THEN 0 ELSE object[<<r.key, read.doc>>]
         got == LoadBytes(r, read.user, found, settings)
     IN  read' = IF got.code # 200 THEN Done(got.code)
                 ELSE [stage |-> "extract", kind |-> read.kind, user |-> read.user,
                       bytes |-> got.bytes, of |-> got.of]
  /\ UNCHANGED <<record, object, sample>>

(* The extraction thread fails or times out.                                *)
ExtractFails(code) ==
  /\ read.stage = "extract" /\ read' = Done(code)
  /\ UNCHANGED <<record, object, sample>>

(* /markdown never answers with a part of the document, or an empty file.   *)
MarkdownWhole(len, got) == IF got.truncated \/ got.out # len THEN 500 ELSE IF len = 0 THEN 422 ELSE 200

(* It gives Markdown: cut for the model, whole for a download.              *)
Extracted(len, limit) ==
  /\ read.stage = "extract" /\ (limit = InlineLimit \/ read.kind = "extract")
  /\ LET got == ApplyCharLimit(len, IF read.kind = "markdown" THEN len ELSE limit)
         code == IF read.kind = "markdown" THEN MarkdownWhole(len, got) ELSE 200
     IN  read' = IF code # 200 THEN Done(code)
                 ELSE [stage |-> "done", kind |-> read.kind, user |-> read.user, code |-> 200,
                       len |-> len, limit |-> limit, bytes |-> read.bytes, of |-> read.of, got |-> got]
  /\ UNCHANGED <<record, object, sample>>

DocumentReturned ==
  /\ read.stage = "done" /\ read' = NotReading
  /\ UNCHANGED <<record, object, sample>>

(***************************************************************************)
(* Collections a user reads                                                *)
(***************************************************************************)

(* A name is a base and the private part of a user, if it has one.          *)
Names == [base : Bases, owner : DocumentReaders \cup {""}]
IsShared(n) == n.base \in SharedBases /\ n.owner = ""
ResolveName(u, n) == IF IsShared(n) \/ n.owner = u THEN n
                     ELSE [base |-> n.base, owner |-> u]
ListCollections(u, existing, default) ==
  {n \in existing : IsShared(n) \/ n = [base |-> default, owner |-> u]}

(* The searches and listings, and the computations above, over every small  *)
(* input; none reads shared state.                                          *)
DocumentEntries == [words : (SUBSET Words) \ {{}}, quality : 0..1]
Compute ==
  \/ \E n \in 1..DocumentMaxEntries : \E e \in [1..n -> DocumentEntries] :
       sample' = [kind |-> "dedup", e |-> e, dropped |-> DedupEntries(e)]
  \/ \E n \in 1..DocumentMaxEntries : \E rows \in [1..n -> 0..2] : rows[1] > 0 /\
       sample' = [kind |-> "table", rows |-> rows, out |-> RepairTable(rows)]
  \/ \E total \in 1..MaxBatch, done \in 0..MaxBatch, w \in {0, 24, 70, 94} : done <= total /\
       sample' = [kind |-> "progress", done |-> done, total |-> total,
                  percent |-> PercentFor(done, total, w)]
  \/ \E n \in 1..MaxBatch : \E o \in [1..n -> DocumentOutcomes] :
       sample' = [kind |-> "batch", o |-> o, status |-> ClassifyStatus(BatchMessage(o))]
  \/ \E o \in DocumentOutcomes, markdown \in BOOLEAN :
       sample' = [kind |-> "single", o |-> o, message |-> SingleMessage(o, markdown)]
  \/ \E exists, readable \in BOOLEAN, expected \in 0..2, n \in 0..2 :
       \E fields \in [1..n -> [name : {"vector", "other"}, dim : 0..2]] :
         sample' = [kind |-> "dimension", known |-> exists /\ readable, fields |-> fields,
                    expected |-> expected, fits |-> DimensionFits(exists, readable, fields, expected)]
  \/ \E token \in DocumentTokens, user \in {"u", Missing}, password \in {"p", Missing} :
       sample' = [kind |-> "login", token |-> token.kind, separate |-> {user, password} # {Missing},
                  client |-> ClientLogin(token, user, password), sdk |-> SdkLogin(token, user, password)]
  \/ \E u \in DocumentReaders, n \in Names :
       sample' = [kind |-> "search", user |-> u, names |-> {ResolveName(u, n)}]
  \/ \E u \in DocumentReaders, existing \in SUBSET Names, b \in Bases \ SharedBases :
       sample' = [kind |-> "list", user |-> u, names |-> ListCollections(u, existing, b)]

Untouched == /\ record = [d \in Uploads |-> NoRecord] /\ read = NotReading
             /\ object = [x \in DocumentReaders \X Uploads |-> 0]

Forget == sample # NoSample /\ sample' = NoSample

DocumentsNext ==
  \/ /\ \/ sample = NoSample /\ Untouched /\ Compute
        \/ Forget
     /\ UNCHANGED <<record, object, read>>
  \/ \E u \in DocumentReaders, d \in Uploads :
       \/ \E size \in Sizes : StoreObject(u, d, size)
       \/ Vanish(u, d)
       \/ \E kind \in Kinds, matches \in BOOLEAN : AskFor(u, kind, d, matches)
  \/ \E d \in Uploads, r \in Records : StoreRecord(d, r)
  \/ \E up \in BOOLEAN : Get(up)
  \/ \E settings \in Settings : DocumentLoad(settings)
  \/ \E code \in {500, 504} : ExtractFails(code)
  \/ \E len \in 0..MaxExtracted, limit \in 1..InlineLimit : Extracted(len, limit)
  \/ DocumentReturned

(***************************************************************************)
(* Properties                                                              *)
(***************************************************************************)

(* A reader gets only bytes of its own document, all of them and within the *)
(* size limit; a download is the whole Markdown and a cut one keeps both    *)
(* ends and says that it was cut; a user sees no private collection of      *)
(* another; of similar passages the best one stays, progress says 100 only  *)
(* at the end, a batch's status tells whether all or none was indexed, no   *)
(* vectors are written to a collection known to have another dimension, and *)
(* one set of credentials means one login for client and SDK.               *)
OwnDocumentsOnly ==
  read.stage = "done" /\ read.code = 200 =>
    LET r == read
        u == read.user
    IN  /\ r.of = u \/ (r.of = "" /\ u = "anonymous")
        /\ r.bytes <= MaxDocBytes
        /\ r.kind = "markdown" => r.got.head = r.len /\ ~r.got.truncated /\ r.len > 0
        /\ r.kind # "markdown" =>
             /\ r.got.out <= r.limit /\ (r.got.truncated <=> r.len > r.limit)
             /\ r.got.head + r.got.tail <= r.len
             /\ r.limit > MarkerLen + 1 /\ r.got.truncated => r.got.head > 0 /\ r.got.tail > 0
SamplesRight ==
  CASE sample.kind = "dedup" ->
         LET best == {i \in DOMAIN sample.e : \A j \in DOMAIN sample.e :
                        \/ sample.e[j].quality < sample.e[i].quality
                        \/ (sample.e[j].quality = sample.e[i].quality /\ i <= j)}
         IN  /\ sample.dropped \cap best = {}
             /\ \A i \in sample.dropped : \E j \in DOMAIN sample.e \ {i} :
                  SimilarTexts(sample.e[i], sample.e[j]) /\ sample.e[j].quality >= sample.e[i].quality
    [] sample.kind = "table" -> \A i \in DOMAIN sample.out : sample.out[i] = sample.rows[1]
    [] sample.kind = "progress" -> sample.percent = 100 <=> sample.done = sample.total
    [] sample.kind = "batch" ->
         /\ sample.status = "success" <=> Count(sample.o, {"failure"}) = 0
         /\ sample.status = "failure" <=> Count(sample.o, {"failure"}) = Len(sample.o)
    [] sample.kind = "single" -> sample.message = "error" <=> sample.o = "failure"
    [] sample.kind = "dimension" ->
         /\ ~sample.fits => sample.known
         /\ sample.fits /\ sample.known /\ sample.expected > 0 =>
              \A i \in DOMAIN sample.fields : sample.fields[i].name = "vector" /\ sample.fields[i].dim > 0 =>
                \E j \in 1..i : sample.fields[j].name = "vector" /\ sample.fields[j].dim = sample.expected
    [] sample.kind = "login" ->
         sample.token = Missing \/ (sample.token = "pair" /\ ~sample.separate) => sample.client = sample.sdk
    [] sample.kind \in {"search", "list"} ->
         \A n \in sample.names : IsShared(n) \/ n.owner = sample.user
    [] OTHER -> TRUE
DocumentsPrivate == OwnDocumentsOnly /\ SamplesRight

(* "Keeps the higher-quality version when two entries on the same page      *)
(* share at least 50% of their word sets": one might take it to mean that   *)
(* what is dropped has a similar passage that is kept. That is not so: the  *)
(* passage it was dropped for may be dropped for a third one.               *)
DroppedIsCovered ==
  sample.kind = "dedup" => \A i \in sample.dropped :
    \E j \in DOMAIN sample.e \ sample.dropped : SimilarTexts(sample.e[i], sample.e[j])

DocumentsSpec == DocumentsInit /\ [][DocumentsNext]_documentVars

=============================================================================
