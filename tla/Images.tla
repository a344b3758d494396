------------------------------- MODULE Images --------------------------------
(***************************************************************************)
(* Image generation, editing and analysis, and the settings of a request.  *)
(* Requests read the source images, call the provider and store what it    *)
(* returns; settings are prepared from what the caller chose, what a       *)
(* planning model proposed and what the edited image was made with.        *)
(*   builder: image_api.py (Create panel), visual_media_function.py (chat) *)
(*   nat_helpers: image_utils.py, image_input_budget.py, openai_images.py, *)
(*   image_brief.py                                                        *)
(* One request is followed at a time: requests share nothing but the       *)
(* stored images, and those only ever appear or expire.  Settings are a    *)
(* function from names to values, None where unset; sizes are classes: fit *)
(* suits every output, strip only an animation.                            *)
(***************************************************************************)
EXTENDS Naturals, Sequences, FiniteSets, SequencesExt

(***************************************************************************)
(* Requests                                                                *)
(***************************************************************************)

CONSTANTS ImageUsers, Pictures,
          MaxRefs,      \* references of an edit (MAX_IMAGE_INPUTS)
          MaxFileSize,  \* MAX_IMAGE_INPUT_BYTES
          ImageMaxBytes,     \* MAX_IMAGE_REQUEST_BYTES
          MaxEvents,    \* events of a provider stream, images of a reply
          MaxChunks,    \* chunks of a mask file
          Signing       \* C2PA_SIGNING_MODE: off or local

ASSUME ImagesAssumption ==
  /\ MaxFileSize \in Nat /\ ImageMaxBytes \in Nat /\ MaxEvents \in Nat /\ MaxChunks \in Nat
  /\ "nobody" \notin ImageUsers

VARIABLES
  pictures, \* the stored images
  ask       \* the request in progress and what it has done

imageVars == <<pictures, ask>>

NoOwner == "nobody"
Absent == [place |-> "none", owner |-> NoOwner, size |-> 0,
           signed |-> FALSE, origin |-> "none"]

(***************************************************************************)
(* The mask check                                                          *)
(***************************************************************************)

(* A PNG is a sequence of chunks; "cut" runs past the end of the file.      *)
Chunks == {"IHDR_alpha", "IHDR_plain", "tRNS", "IDAT", "IEND", "cut"}
Headers == {"IHDR_alpha", "IHDR_plain"}
MaskFiles == UNION {[1..n -> Chunks] : n \in 0..MaxChunks}

(* _png_metadata, one chunk: the loop stops at a broken chunk or at IEND.   *)
Chunk(scan, chunk) ==
  [at |-> CASE scan.at \in {"bad", "end"} -> scan.at
            [] scan.at = "start" ->
                 IF chunk \in Headers THEN "body"
                 ELSE IF chunk \in {"cut", "IEND"} THEN "bad" ELSE "headless"
            [] scan.at \in {"headless", "body"} ->
                 IF chunk \in Headers \cup {"cut"} THEN "bad"
                 ELSE IF chunk # "IEND" THEN scan.at
                 ELSE IF scan.at = "body" THEN "end" ELSE "bad",
   alpha |-> \/ scan.alpha
             \/ scan.at = "start" /\ chunk = "IHDR_alpha"
             \/ scan.at = "body" /\ chunk = "tRNS"]

PngMetadata(file) == FoldLeft(Chunk, [at |-> "start", alpha |-> FALSE], file)
IsPng(file) == PngMetadata(file).at = "end"

(* _mask_validation_error.  The first source is a PNG of the mask's size,   *)
(* or not; the normalized source is never broken.                           *)
MaskFits(source, file) ==
  /\ source = "png"
  /\ IsPng(file) /\ PngMetadata(file).alpha

(***************************************************************************)
(* Stored images                                                           *)
(***************************************************************************)

(* fetch_image_from_redis for an authenticated user.  A reference may name  *)
(* the user it belongs to.  The user's own uploads come first; a generated  *)
(* image has an unscoped key, so its owner is compared.                     *)
Readable(user, ref) ==
  LET p == pictures[ref.id]
  IN  /\ ref.claim \in {NoOwner, user}
      /\ p.place \in {"upload", "generated"}
      /\ p.owner = user

Free == {i \in Pictures : pictures[i].place = "none"}

(* sign_final_image: a final is signed, or not stored; with signing off it  *)
(* is stored as it is.                                                      *)
SignFinal == Signing = "local"

(* store_image_in_redis: only a final is signed; the record and its expiry  *)
(* are one transaction.                                                     *)
Stored(i, user, partial, origin) ==
  [pictures EXCEPT ![i] = [place |-> "generated", owner |-> user, size |-> 1,
                           signed |-> ~partial /\ SignFinal, origin |-> origin]]

(***************************************************************************)
(* Requests                                                                *)
(***************************************************************************)

ImageIdle == [pc |-> "idle", user |-> NoOwner, mode |-> "none", streamed |-> FALSE,
         refs |-> <<>>, mask |-> FALSE, cache |-> {}, parts |-> <<>>, decoded |-> 0,
         first |-> "none", file |-> <<>>, left |-> 0, ids |-> {}, outcome |-> "none"]

ImagesInit == pictures = [i \in Pictures |-> Absent] /\ ask = ImageIdle

Refs == [id : Pictures, claim : ImageUsers \cup {NoOwner}]

End(outcome) == ask' = [ImageIdle EXCEPT !.pc = "done", !.user = ask.user, !.ids = ask.ids,
                                    !.outcome = outcome]
Refuse == End("refused") /\ UNCHANGED pictures

(* The frontend stores an upload under its owner.                           *)
Upload(i, user, size) ==
  /\ ask.pc = "idle" /\ i \in Free
  /\ pictures' = [pictures EXCEPT ![i] = [Absent EXCEPT !.place = "upload",
                                            !.owner = user, !.size = size]]
  /\ UNCHANGED ask

(* An image outlives neither its week nor, as a preview, its hour.          *)
Expire(i) ==
  /\ pictures[i].place # "none"
  /\ pictures' = [pictures EXCEPT ![i] = [@ EXCEPT !.place = "expired"]]
  /\ UNCHANGED ask

(* generate, edit: the identity is the caller's, whatever a reference says. *)
Generate(user, streamed) ==
  /\ ask = ImageIdle
  /\ ask' = [ImageIdle EXCEPT !.pc = "prepare", !.user = user, !.mode = "generate",
                         !.streamed = streamed]
  /\ UNCHANGED pictures

Edit(user, refs, mask, streamed) ==
  /\ ask = ImageIdle
  /\ ask' = [ImageIdle EXCEPT !.pc = "read", !.user = user, !.mode = "edit", !.refs = refs,
                         !.mask = mask, !.streamed = streamed]
  /\ UNCHANGED pictures

(* The chat tool's operations: always with the authenticated identity,      *)
(* never streamed, never masked.                                            *)
ChatGenerate(user) == Generate(user, FALSE)
ChatEdit(user, refs) == Edit(user, refs, FALSE, FALSE)

(* _analyze looks at one stored image, or at a public URL.                  *)
Analyze(user, ref) ==
  /\ ask = ImageIdle
  /\ \/ ask' = [ImageIdle EXCEPT !.pc = "look", !.user = user, !.mode = "analyze",
                            !.parts = <<[id |-> ref.id, size |-> 0]>>]
        /\ Readable(user, ref)
     \/ ask' = [ImageIdle EXCEPT !.pc = "done", !.user = user, !.mode = "analyze",
                            !.outcome = "refused"]
  /\ UNCHANGED pictures

(* The local route of a generated image is a reference, never fetched.      *)
GeneratedRoute(i) == [id |-> i, claim |-> NoOwner]

(* _validate_analyze_url: the model fetches a public URL itself.            *)
AnalyzeUrl(user, public) ==
  /\ ask = ImageIdle /\ UNCHANGED pictures
  /\ ask' = [ImageIdle EXCEPT !.user = user, !.mode = "analyze",
                         !.pc = IF public THEN "look" ELSE "done",
                         !.outcome = IF public THEN "none" ELSE "refused"]

Look == /\ ask.pc = "look" /\ UNCHANGED pictures
        /\ End("answered") \/ End("failed")

SizeOf(parts) == FoldLeft(LAMBDA sum, part : sum + part.size, 0, parts)
Charged == SizeOf(ask.parts)

(* ImageInputBudget.add_part: every part sent counts, repeated or not.      *)
AddPart(size) == Charged + size <= ImageMaxBytes

(* ImageInputBudget.decode.                                                 *)
Decodes(size) == size < MaxFileSize /\ ask.decoded + size <= ImageMaxBytes

Took(ref, size) ==
  [ask EXCEPT !.refs = Tail(@), !.cache = @ \cup {ref},
              !.parts = Append(@, [id |-> ref.id, size |-> size])]

(* normalize_edit_source: one frame, as PNG or as JPEG, perhaps larger than *)
(* the upload, never at the limit.                                          *)
NormalizeEditSource(size) ==
  {[size |-> n, kind |-> k] : n \in {m \in {size, size + 1} : m < MaxFileSize},
                              k \in {"png", "other"}}

(* The next source: a repeated reference is taken from the cache, another   *)
(* is read, decoded and normalized, which may make it larger.               *)
ReadSource ==
  /\ ask.pc = "read" /\ ask.refs # <<>>
  /\ LET ref == Head(ask.refs)
         known == {k \in 1..Len(ask.parts) : ask.parts[k].id = ref.id}
     IN  IF ref \in ask.cache
         THEN \E k \in known :
                IF AddPart(ask.parts[k].size)
                THEN ask' = Took(ref, ask.parts[k].size) /\ UNCHANGED pictures
                ELSE Refuse
         ELSE \/ Refuse   \* not found, not the user's, storage failed, undecodable
              \/ /\ Readable(ask.user, ref) /\ Decodes(pictures[ref.id].size)
                 /\ \E still \in NormalizeEditSource(pictures[ref.id].size) :
                      IF AddPart(still.size)
                      THEN /\ ask' = [Took(ref, still.size) EXCEPT
                                        !.decoded = @ + pictures[ref.id].size,
                                        !.first = IF ask.parts = <<>> THEN still.kind ELSE @]
                           /\ UNCHANGED pictures
                      ELSE Refuse

(* The mask is read as it was uploaded, and must fit the first source.      *)
ReadMask ==
  /\ ask.pc = "read" /\ ask.refs = <<>>
  /\ IF ~ask.mask THEN ask' = [ask EXCEPT !.pc = "prepare"] /\ UNCHANGED pictures
     ELSE \/ Refuse
          \/ \E i \in Pictures, file \in MaskFiles :
               /\ Readable(ask.user, [id |-> i, claim |-> NoOwner])
               /\ Decodes(pictures[i].size) /\ AddPart(pictures[i].size)
               /\ MaskFits(ask.first, file)
               /\ ask' = [ask EXCEPT !.pc = "prepare", !.file = file,
                                     !.decoded = @ + pictures[i].size,
                                     !.parts = Append(@, [id |-> i, size |-> pictures[i].size])]
               /\ UNCHANGED pictures

(* The bytes are gone once they are sent.                                   *)
Sent == [ask EXCEPT !.file = <<>>, !.parts = <<>>, !.cache = {}, !.decoded = 0]

(* prepare_image_request (ImageSettings) and check_signing_configuration    *)
(* refuse, or the provider fails.                                           *)
NotCalled == ask.pc = "prepare" /\ UNCHANGED pictures /\ (End("refused") \/ End("failed"))

(* Only a single image that is not an animation is streamed.                *)
Streams(n, gif) == ask.streamed /\ n = 1 /\ ~gif

(* generate_images: items of the reply that carry no image are left out.    *)
Reply(items) ==
  LET n == Cardinality({k \in DOMAIN items : items[k]})
  IN  IF n = 0 THEN End("failed") ELSE ask' = [Sent EXCEPT !.pc = "store", !.left = n]

GenerateOnce(items, gif) ==
  /\ ask.pc = "prepare" /\ ask.mode = "generate" /\ ~Streams(Len(items), gif)
  /\ Reply(items) /\ UNCHANGED pictures

(* edit_images: an animation has no mask.                                   *)
EditOnce(items, gif) ==
  /\ ask.pc = "prepare" /\ ask.mode = "edit" /\ ~Streams(Len(items), gif)
  /\ (IF gif /\ ask.mask THEN End("refused") ELSE Reply(items)) /\ UNCHANGED pictures

Opened == ask' = [Sent EXCEPT !.pc = "stream", !.left = MaxEvents]

StreamGenerate(gif) ==
  /\ ask.pc = "prepare" /\ ask.mode = "generate" /\ Streams(1, gif)
  /\ Opened /\ UNCHANGED pictures

StreamEdit(gif) ==
  /\ ask.pc = "prepare" /\ ask.mode = "edit" /\ Streams(1, gif)
  /\ Opened /\ UNCHANGED pictures

(* _store_results: signing or storage may fail; what is stored stays.       *)
StoreResult ==
  /\ ask.pc = "store"
  /\ \/ End("failed") /\ UNCHANGED pictures
     \/ \E i \in Free :
          /\ pictures' = Stored(i, ask.user, FALSE, "completed")
          /\ ask' = [ask EXCEPT !.ids = @ \cup {i}, !.left = @ - 1,
                                !.pc = IF ask.left = 1 THEN "done" ELSE "store",
                                !.outcome = IF ask.left = 1 THEN "completed" ELSE @]

(* _stream_image_events and _stream_stored_images, one provider event.      *)
Preview ==
  /\ ask.pc = "stream" /\ ask.left > 0
  /\ \E i \in Free : pictures' = Stored(i, ask.user, TRUE, "preview")
  /\ ask' = [ask EXCEPT !.left = @ - 1]

Completed ==
  /\ ask.pc = "stream" /\ ask.left > 0
  /\ \E i \in Free : /\ pictures' = Stored(i, ask.user, FALSE, "completed")
                     /\ ask' = [ask EXCEPT !.left = @ - 1, !.ids = @ \cup {i}]

(* An event of another type, or one that carries no image.                  *)
Ignored ==
  /\ ask.pc = "stream" /\ ask.left > 0
  /\ ask' = [ask EXCEPT !.left = @ - 1] /\ UNCHANGED pictures

(* Mutant: with no final, the last preview becomes one.                     *)
EndStreamPromoting ==
  /\ ask.pc = "stream"
  /\ LET previews == {i \in Pictures : pictures[i].origin = "preview"}
     IN  IF ask.ids # {} \/ previews = {}
         THEN (IF ask.ids # {} THEN End("completed") ELSE End("failed")) /\ UNCHANGED pictures
         ELSE \E i \in previews :
                /\ pictures' = [pictures EXCEPT ![i].signed = TRUE]
                /\ ask' = [ask EXCEPT !.pc = "done", !.outcome = "completed", !.ids = {i}]

(* The stream ends: previews are never promoted.                            *)
EndStream ==
  /\ ask.pc = "stream" /\ UNCHANGED pictures
  /\ IF ask.ids # {} THEN End("completed") ELSE End("failed")

(* It is interrupted, by the provider, by signing or storage, or by the     *)
(* client leaving.                                                          *)
Interrupted == ask.pc = "stream" /\ End("failed") /\ UNCHANGED pictures

ImageAnswered == ask.pc = "done" /\ ask' = ImageIdle /\ UNCHANGED pictures

ImagesNext ==
  \/ \E user \in ImageUsers :
       \/ \E i \in Pictures, size \in 1..MaxFileSize : Upload(i, user, size)
       \/ \E streamed \in BOOLEAN :
            \/ Generate(user, streamed)
            \/ \E n \in 1..MaxRefs, mask \in BOOLEAN : \E refs \in [1..n -> Refs] :
                 Edit(user, refs, mask, streamed)
       \/ ChatGenerate(user)
       \/ \E n \in 1..MaxRefs : \E refs \in [1..n -> Refs] : ChatEdit(user, refs)
       \/ \E ref \in Refs : Analyze(user, ref)
       \/ \E i \in Pictures : Analyze(user, GeneratedRoute(i))
       \/ \E public \in BOOLEAN : AnalyzeUrl(user, public)
  \/ \E i \in Pictures : Expire(i)
  \/ Look \/ ReadSource \/ ReadMask \/ NotCalled \/ StoreResult
  \/ \E n \in 1..MaxEvents, gif \in BOOLEAN : \E items \in [1..n -> BOOLEAN] :
       GenerateOnce(items, gif) \/ EditOnce(items, gif)
  \/ \E gif \in BOOLEAN : StreamGenerate(gif) \/ StreamEdit(gif)
  \/ Preview \/ Completed \/ Ignored \/ EndStream \/ Interrupted \/ ImageAnswered

(***************************************************************************)
(* Properties                                                              *)
(***************************************************************************)

(* Whatever a reference claims, a request sends only its user's images      *)
(* (fetch_image_from_redis).                                                *)
OnlyOwnImages ==
  \A k \in 1..Len(ask.parts) : pictures[ask.parts[k].id].owner = ask.user

(* The parts of a request fit its budget, repeated ones included, and so    *)
(* does what is decoded for it (ImageInputBudget).                          *)
WithinBudget == Charged <= ImageMaxBytes /\ ask.decoded <= ImageMaxBytes

(* Only what the provider completed is signed or reported as an image, and  *)
(* a completed request reports at least one (_stream_image_events).         *)
OnlyCompletedIsFinal ==
  /\ \A i \in Pictures : pictures[i].signed => pictures[i].origin = "completed"
  /\ ask.outcome = "completed" =>
       /\ ask.ids # {}
       /\ \A i \in ask.ids : /\ pictures[i].signed <=> SignFinal
                             /\ pictures[i].origin = "completed"
                             /\ pictures[i].owner = ask.user

(* A mask that is sent is a PNG with an alpha channel: one header, first,   *)
(* nothing broken up to its end, and alpha from the header or from a tRNS.  *)
MaskIsPng ==
  ask.file # <<>> =>
    \E e \in 1..Len(ask.file) :
      /\ ask.file[e] = "IEND" /\ ask.file[1] \in Headers
      /\ \A k \in 2..(e - 1) : ask.file[k] \in {"tRNS", "IDAT"}
      /\ ask.file[1] = "IHDR_alpha" \/ \E k \in 2..(e - 1) : ask.file[k] = "tRNS"

(* What an image request may read, send and publish.                        *)
ImagesKept == OnlyOwnImages /\ WithinBudget /\ OnlyCompletedIsFinal /\ MaskIsPng

(***************************************************************************)
(* Settings                                                                *)
(***************************************************************************)

CONSTANTS GenerationModel, EditModel,
          MaxChosen, \* settings a caller sets at a time
          MaxEdits   \* edits of edits

ASSUME SettingsAssumption == MaxChosen \in Nat

VARIABLES
  context, \* the settings of the image the next edit starts from
  edits,   \* how many edits led to it
  last     \* the last request: what was chosen, and its outcome

settingVars == <<context, edits, last>>

None == "none"
Sunburst26 == "gpt-image-2.6-sunburst"
Sunburst25 == "gpt-image-2.5-sunburst"

(* Numbers are 0 where unset.                                               *)
SettingValues ==
  [output_format |-> {None, "png", "jpeg", "webp", "gif"},
   frame_count |-> {0, 9, 16, 20}, frame_duration_ms |-> {0, 10, 20, 23},
   output_compression |-> {0, 50}, background |-> {None, "transparent", "opaque"},
   size |-> {None, "fit", "strip", "wrong"}, complexity |-> {None, "low"},
   input_fidelity |-> {None, "high"}, moderation |-> {None, "low"}]
Unset == [output_format |-> None, frame_count |-> 0, frame_duration_ms |-> 0,
          output_compression |-> 0, background |-> None, size |-> None,
          complexity |-> None, input_fidelity |-> None, moderation |-> None]
SettingNames == DOMAIN Unset
SetIn(o) == {k \in SettingNames : o[k] # Unset[k]}

(* The settings a caller can bring, at most n of them, and those of a plan. *)
SettingsUpTo[n \in 0..MaxChosen] ==
  IF n = 0 THEN {Unset}
  ELSE UNION {{[o EXCEPT ![k] = v] : v \in SettingValues[k]} :
                o \in SettingsUpTo[n - 1], k \in SettingNames}
SettingChoices == SettingsUpTo[MaxChosen]
Plans == {[Unset EXCEPT !.output_format = "gif"], [Unset EXCEPT !.output_format = "jpeg"],
          [Unset EXCEPT !.background = "transparent"], [Unset EXCEPT !.frame_count = 20]}

SettingWithout(o, names) == [k \in SettingNames |-> IF k \in names THEN Unset[k] ELSE o[k]]
Over(o, base) == [k \in SettingNames |-> IF k \in SetIn(o) THEN o[k] ELSE base[k]]
Animated(o) == o.output_format = "gif"

(* ImageOptions: animation settings belong to GIF, which has no alpha.      *)
ValidOptions(o) ==
  /\ Animated(o) \/ (o.frame_count = 0 /\ o.frame_duration_ms = 0)
  /\ Animated(o) => o.background # "transparent"
  /\ o.size \in {None, "fit"} \/ (Animated(o) /\ o.size = "strip")
  /\ o.frame_duration_ms \notin 1..19

(* What normalize_image_options refuses.                                    *)
Acceptable(model, o, mode) ==
  /\ Animated(o) => /\ model = Sunburst26
                    /\ mode = "edit" => o.frame_count <= 16
                    /\ o.frame_duration_ms # 0 => ValidOptions(o)
  /\ model \in {Sunburst25, Sunburst26} => ValidOptions(o)

SettingRounded(ms) == ((ms + 5) \div 10) * 10

(* Settings the output, the model or the endpoint cannot take are dropped.  *)
Dropped(model, o, mode) ==
  (IF Animated(o) THEN {"output_compression"} ELSE {})
  \cup (IF model \in {Sunburst25, Sunburst26} \/ mode = "generate"
        THEN {"input_fidelity"} ELSE {})
  \cup (IF model # Sunburst26 THEN {"complexity"} ELSE {})
  \cup (IF mode = "edit" THEN {"moderation"} ELSE {})

Alpha(o) ==
  IF o.background = "transparent" /\ o.output_format \notin {"png", "webp"}
  THEN [o EXCEPT !.output_format = "png"] ELSE o

Uncompressed(o) ==
  IF o.output_format \in {None, "png", "gif"} THEN [o EXCEPT !.output_compression = 0]
  ELSE o

Normalized(model, o, mode) ==
  LET rounded == IF Animated(o) THEN [o EXCEPT !.frame_duration_ms = SettingRounded(@)] ELSE o
  IN  Uncompressed(Alpha(SettingWithout(rounded, Dropped(model, o, mode))))

(* _prune forwards the endpoint's own keys, and an alpha output again.      *)
Pruned(o, mode) ==
  LET kept == Alpha(SettingWithout(o, IF mode = "generate" THEN {"input_fidelity"} ELSE {"moderation"}))
  IN  IF o.background = "transparent" /\ kept.output_format = "png"
      THEN [kept EXCEPT !.output_compression = 0] ELSE kept

SettingSent(model, o, mode) == Pruned(Normalized(model, o, mode), mode)

(***************************************************************************)
(* Inheritance                                                             *)
(***************************************************************************)

(* Mutant: the parent's settings are only overridden, never dropped.        *)
InheritedPlainly(parent, requested, mode) == Over(requested, parent)

(* _inherit_settings: what the new choices make invalid is not inherited.   *)
Inherited(parent, requested, mode) ==
  LET format == requested.output_format
      still == \/ format \notin {None, "gif"}
               \/ format = None /\ requested.background = "transparent"
      base == IF Animated(parent) /\ still
              THEN SettingWithout(parent, {"output_format", "frame_count",
                                    "frame_duration_ms", "size"})
              ELSE parent
      moving == format = "gif" \/ (format = None /\ Animated(base))
      opaque == IF moving /\ base.background = "transparent"
                THEN [base EXCEPT !.background = None] ELSE base
      few == IF moving /\ mode = "edit" /\ opaque.frame_count > 16
             THEN [opaque EXCEPT !.frame_count = 16] ELSE opaque
  IN  Over(requested, few)

(***************************************************************************)
(* Preparation                                                             *)
(***************************************************************************)

Model(mode) == IF mode = "generate" THEN GenerationModel ELSE EditModel

NoRequest == [mode |-> "none", chosen |-> Unset, brief |-> Unset, planned |-> FALSE,
              params |-> Unset, outcome |-> "none"]

SettingsInit ==
  /\ context = Unset /\ edits = 0
  /\ last = NoRequest

(* prepare_image_request.  An edit inherits from the image it starts from,  *)
(* if that is the owner's and generated; explicit settings are checked      *)
(* first.  A planned brief is optional: one whose settings do not fit is    *)
(* used without them.  guidance = exact has no brief.                       *)
Prepare(mode, chosen, brief, planned) ==
  LET parent == IF mode = "edit" THEN context ELSE Unset
      model == Model(mode)
      full == Inherited(parent, Over(chosen, brief), mode)
      bare == Inherited(parent, chosen, mode)
      source == IF planned /\ ~Acceptable(model, full, mode) THEN bare ELSE full
      prepared == Acceptable(model, chosen, mode) /\ Acceptable(model, source, mode)
      params == IF prepared THEN Normalized(model, source, mode) ELSE Unset
  IN  /\ last = NoRequest
      /\ mode = "edit" => edits < MaxEdits
      /\ context' = IF prepared THEN params ELSE context
      /\ edits' = IF ~prepared THEN edits ELSE IF mode = "edit" THEN edits + 1 ELSE 0
      /\ last' = [mode |-> mode, chosen |-> chosen, brief |-> brief, planned |-> planned,
                  params |-> params, outcome |-> IF prepared THEN "prepared" ELSE "refused"]

(* The outcome is reported; the next request edits the same image, or       *)
(* another, uploaded or somebody else's, that carries no settings.          *)
SettingReported ==
  /\ last # NoRequest /\ last' = NoRequest
  /\ \/ UNCHANGED <<context, edits>>
     \/ context' = Unset /\ edits' = 0

SettingsNext ==
  \/ \E mode \in {"generate", "edit"}, chosen \in SettingChoices :
       \/ Prepare(mode, chosen, Unset, FALSE)
       \/ \E brief \in Plans, planned \in BOOLEAN : Prepare(mode, chosen, brief, planned)
  \/ SettingReported

(***************************************************************************)
(* Properties                                                              *)
(***************************************************************************)

(* A caller whose settings are valid, alone and with the caller's brief, is *)
(* never refused because of what a plan proposed or what the edited image   *)
(* was made with (_inherit_settings, prepare_image_request), as long as one *)
(* model serves both.                                                       *)
ValidIsPrepared ==
  last.outcome = "refused" /\ GenerationModel = EditModel =>
    \/ ~Acceptable(Model(last.mode), last.chosen, last.mode)
    \/ /\ ~last.planned
       /\ ~Acceptable(Model(last.mode), Over(last.chosen, last.brief), last.mode)

(* What is prepared, and recorded with the image, is what is sent: the      *)
(* second normalization before the call accepts it and changes nothing      *)
(* (generate_images, edit_images).                                          *)
PreparedIsSent ==
  last.outcome = "prepared" =>
    /\ Acceptable(Model(last.mode), last.params, last.mode)
    /\ SettingSent(Model(last.mode), last.params, last.mode) = last.params

(* A chosen background is kept.  A chosen output is kept too, but for one   *)
(* case: a JPEG of a transparent image becomes a PNG, whether that          *)
(* transparency was chosen, planned or inherited (normalize_image_options). *)
(* In the last two the docstring of _inherit_settings ("Requested settings  *)
(* win and are never altered") is true of that function and not of what is  *)
(* prepared.                                                                *)
ChoiceIsHonoured ==
  last.outcome = "prepared" =>
    /\ last.chosen.background # None => last.params.background = last.chosen.background
    /\ last.chosen.output_format \notin {None, last.params.output_format} =>
         /\ last.chosen.output_format = "jpeg" /\ last.params.output_format = "png"
         /\ last.params.background = "transparent"

(* While one model serves generation and editing, a valid choice is not     *)
(* refused; what is prepared is what is sent; and a choice is altered only  *)
(* as ChoiceIsHonoured says.                                                *)
SettingsHonoured == ValidIsPrepared /\ PreparedIsSent /\ ChoiceIsHonoured

SettingsSpec == SettingsInit /\ [][SettingsNext]_settingVars
==============================================================================
