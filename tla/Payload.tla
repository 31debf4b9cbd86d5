------------------------------ MODULE Payload ------------------------------
(***************************************************************************)
(* The walk of a request's JSON to the texts and documents the pipeline    *)
(* may rewrite, and the writing back of what it made of them.              *)
(*                                                                         *)
(* A body has fields at its top and a sequence of messages (for responses, *)
(* the items of its input); each holds content: nothing an adapter knows,  *)
(* a string, or a list of parts.  A value is Empty, Own (what the caller   *)
(* sent) or the result of the k-th segment.                                *)
(***************************************************************************)
EXTENDS Naturals, Sequences, SequencesExt

Provider == {"openai", "anthropic", "compatible"}
Endpoint == {"chat/completions", "responses", "assistants", "threads/t/messages",
             "v1/messages", "v1/messages/batches", "embeddings"}
Field    == {"system", "instructions", "additional_instructions", "input", "content"}

Empty       == 0
Own         == 1
ResultOf(k) == 1 + k

\* "machine" is an image, what a model thought, or a tool's call or answer; an answer that is
\* a message of its own (role "tool") has a string for its content, like any other.
\* A document is inline in its source or file, or it is not, or does not decode.
PartKind == {"text", "machine", "document"}
Carried  == {"absent", "inline", "elsewhere", "broken"}
Part     == [type : PartKind, text : {Empty, Own}, source : Carried, file : Carried,
             cacheControl : BOOLEAN]

Unread      == [form |-> "none", value |-> Empty, parts |-> <<>>]
StringOf(v) == [Unread EXCEPT !.form = "string", !.value = v]
ListOf(ps)  == [Unread EXCEPT !.form = "list", !.parts = ps]

-----------------------------------------------------------------------------
(* The adapters of the providers.                                          *)

\* for_path: which adapter, if any.
AdapterFor(provider, path) ==
  CASE provider = "anthropic" ->
         IF path \in {"v1/messages", "threads/t/messages"} THEN "anthropic.messages" ELSE "none"
    [] path = "chat/completions" -> "openai.chat.completions"
    [] provider = "openai" /\ path = "responses" -> "openai.responses"
    [] provider = "openai" /\ path \in {"assistants", "threads/t/messages"} -> "openai.assistants"
    [] OTHER -> "none"

\* The fields an adapter reads before the messages, and after.
FieldsBefore(adapter) ==
  CASE adapter = "anthropic.messages" -> <<"system">>
    [] adapter = "openai.responses"   -> <<"instructions", "input">>
    [] adapter = "openai.assistants"  -> <<"instructions", "additional_instructions">>
    [] OTHER -> <<>>
FieldsAfter(adapter) == IF adapter = "openai.assistants" THEN <<"content">> ELSE <<>>

\* Whether it reads messages that are lists of parts.
ReadsParts(adapter) == adapter # "openai.assistants"

-----------------------------------------------------------------------------
(* Extraction.                                                             *)

\* A place is a field (message 0) or a message, and a part of it (0 for a string).
TextAt(field, m, j)     == [field |-> field, message |-> m, part |-> j, kind |-> "text"]
DocumentAt(field, m, j) == [TextAt(field, m, j) EXCEPT !.kind = "document"]

Indexes(parts) == [j \in DOMAIN parts |-> j]

\* text_parts: any part with a text that is not empty.
TextParts(parts, field, m) ==
  LET found == SelectSeq(Indexes(parts), LAMBDA j : parts[j].text # Empty)
  IN  [k \in DOMAIN found |-> TextAt(field, m, found[k])]

\* Mutant: any part that carries something that decodes.
AnyCarried(part) == "inline" \in {part.source, part.file}

\* _document_from_block: in its source, or else in its file.
DocumentFrom(part) == part.type = "document" /\ "inline" \in {part.source, part.file}

DocumentParts(parts, field, m) ==
  LET found == SelectSeq(Indexes(parts), LAMBDA j : DocumentFrom(parts[j]))
  IN  [k \in DOMAIN found |-> DocumentAt(field, m, found[k])]

PlacesInField(body, field) ==
  LET content == body.fields[field]
  IN  CASE content.form = "string" /\ content.value # Empty -> <<TextAt(field, 0, 0)>>
        [] content.form = "list" /\ field = "system" -> TextParts(content.parts, field, 0)
        [] OTHER -> <<>>

PlacesInMessage(body, m, adapter) ==
  LET content == body.messages[m]
  IN  CASE content.form = "string" /\ content.value # Empty -> <<TextAt("messages", m, 0)>>
        [] content.form = "list" /\ ReadsParts(adapter) ->
             TextParts(content.parts, "messages", m) \o DocumentParts(content.parts, "messages", m)
        [] OTHER -> <<>>

\* extract: every segment, in the order of the pipeline's work.
PlacesIn(adapter, body) ==
  IF adapter = "none" THEN <<>>
  ELSE LET InFields(names) == FlattenSeq([k \in DOMAIN names |-> PlacesInField(body, names[k])])
           messages == [m \in DOMAIN body.messages |-> PlacesInMessage(body, m, adapter)]
       IN  InFields(FieldsBefore(adapter)) \o FlattenSeq(messages) \o InFields(FieldsAfter(adapter))

-----------------------------------------------------------------------------
(* Writing back.                                                           *)

\* DocumentSegment.replace.
TextBlock(part, result) ==
  [type |-> "text", text |-> result, source |-> "absent", file |-> "absent",
   cacheControl |-> part.cacheControl]

\* A result in its place within some content.
Placed(content, place, result) ==
  CASE place.part = 0       -> [content EXCEPT !.value = result]
    [] place.kind = "text"  -> [content EXCEPT !.parts[place.part].text = result]
    [] OTHER                -> [content EXCEPT !.parts[place.part] = TextBlock(@, result)]

Replace(body, place, result) ==
  IF place.message = 0 THEN [body EXCEPT !.fields[place.field] = Placed(@, place, result)]
  ELSE [body EXCEPT !.messages[place.message] = Placed(@, place, result)]

\* The body after the results of the segments that changed, in their order.
Rewritten(body, places, changed) ==
  FoldLeftDomain(LAMBDA b, k : IF k \in changed THEN Replace(b, places[k], ResultOf(k)) ELSE b,
                 body, places)
=============================================================================
