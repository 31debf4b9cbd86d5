------------------------------ MODULE MCTexts ------------------------------
(***************************************************************************)
(* Texts, pages, documents and requests for TLC, written line by line,     *)
(* node by node and part by part: every one up to a length, over a few     *)
(* lines, tags and parts.                                                  *)
(***************************************************************************)
EXTENDS PromptDedup, Documents, Payload

CONSTANTS
  Lines,     \* the lines of a text
  MaxLines,
  MaxNodes,
  MaxRows,
  Media,     \* the formats a document may be declared to have
  MaxParts   \* fields, messages and parts of a request

VARIABLES
  text,    \* the lines of a prompt
  page,    \* the nodes of a page
  rows,    \* the rows of a table
  tree,    \* the nodes of an XML document
  upload,  \* a document of bytes
  request  \* the body of a request

vars == <<text, page, rows, tree, upload, request>>

line(mark, said) == [mark |-> mark, indent |-> 0, text |-> said, gap |-> 1]
deep(l)          == [l EXCEPT !.indent = 4]
fence            == line("fence", <<"ticks">>)
headingA         == line("heading", <<"A">>)
headingB         == line("heading", <<"B">>)
item             == line("item", <<"i">>)
prose            == line("none", <<"s">>)
twice            == [line("none", <<"s", "s">>) EXCEPT !.gap = 2]
spaced           == [line("none", <<"s", "t">>) EXCEPT !.gap = 2]

everyLine   == {Blank, fence, headingA, headingB, item, prose, twice, spaced,
                deep(fence), deep(item), deep(twice)}
sectionLine == {Blank, headingA, headingB, item}

\* What the content model of HTML, and the parser that mends the rest, let a node hold.
Phrasing == {"span", "br", "img", "comment"}
Flow     == Phrasing \cup {"ul", "p", "pre", "table", "hr", "div", "nav", "header", "article"}
Holds(tag) ==
  CASE tag \in {"ul", "ol"} -> {"li", "comment"}
    [] tag = "table" -> {"tr"}
    [] tag = "tr" -> {"td"}
    [] tag \in {"p", "h1", "span"} -> Phrasing
    [] tag = "pre" -> {"span", "br", "comment"}
    [] tag \in {"br", "img", "hr", "comment", "nav"} -> {}
    [] tag = "body" -> Flow \cup {"h1", "ol", "blockquote", "script"}
    [] OTHER -> Flow

\* The tags a page marks as noise; those of one kind are dropped alike.
Noisy == {"span", "div", "li"}

\* The nodes that a new node may be put in.
Open(nodes, i) == {i} \cup Inside(nodes, i)

\* Only one of them is written.
Other(mine) == \A written \in {text, page, rows, tree, upload, request} \ {mine} : written = <<>>

Write(l) ==
  /\ Other(text) /\ Len(text) < MaxLines
  /\ text' = Append(text, l) /\ UNCHANGED <<page, rows, tree, upload, request>>

Add(i, tag, noise) ==
  /\ Other(page) /\ Len(page) < MaxNodes
  /\ i \in Open(page, Len(page)) /\ tag \in Holds(Tag(page, i)) /\ (noise => tag \in Noisy)
  /\ page' = Append(page, [tag |-> tag, parent |-> i, noise |-> noise])
  /\ UNCHANGED <<text, rows, tree, upload, request>>

Fill(row) ==
  /\ Other(rows) /\ Len(rows) < MaxRows
  /\ rows' = Append(rows, row) /\ UNCHANGED <<text, page, tree, upload, request>>

Grow(i, tag) ==
  /\ Other(tree) /\ Len(tree) < MaxNodes
  /\ IF tree = <<>> THEN i = 0 /\ tag = "element"
     ELSE i \in Open(tree, Len(tree)) \ {0} /\ tree[i].tag = "element"
  /\ tree' = Append(tree, [tag |-> tag, parent |-> i])
  /\ UNCHANGED <<text, page, rows, upload, request>>

Receive ==
  /\ Other(upload) /\ upload = <<>>
  /\ \E opens \in Opening, n \in 1..(SniffBytes + 1) :
     \E members \in IF opens = "PK" THEN SUBSET Office ELSE {{}},
        bytes \in [1..n -> Byte], media, extension \in Media :
       /\ opens # "other" => bytes[1] = "char"
       /\ upload' = <<[opens |-> opens, members |-> members, bytes |-> bytes,
                       media |-> media, extension |-> extension]>>
  /\ UNCHANGED <<text, page, rows, tree, request>>

\* What the parts of a request are, and what the fields and messages hold at first.
aText     == [type |-> "text", text |-> Own, source |-> "absent", file |-> "absent",
              cacheControl |-> FALSE]
aCall     == [aText EXCEPT !.type = "machine", !.text = Empty]
aThought  == [aText EXCEPT !.type = "machine"]
anImage   == [aCall EXCEPT !.source = "inline", !.cacheControl = TRUE]
aDocument == [anImage EXCEPT !.type = "document"]
aFile     == [aCall EXCEPT !.type = "document", !.file = "inline"]
everyPart == {aText, [aText EXCEPT !.text = Empty], [aText EXCEPT !.cacheControl = TRUE],
              aCall, aThought, anImage, aDocument, aFile,
              [aDocument EXCEPT !.source = "elsewhere"], [aDocument EXCEPT !.source = "broken"]}
contents  == {Unread, StringOf(Empty), StringOf(Own), ListOf(<<>>)}

Size(body) ==
  LET messages == body.messages
  IN  Cardinality({f \in Field : body.fields[f] # Unread}) + Len(messages)
        + Len(body.fields["system"].parts)
        + FoldLeft(LAMBDA n, content : n + Len(content.parts), 0, messages)

\* A request is received with a field, a message or a part more than another.
Compose(larger) == request' = <<larger>> /\ UNCHANGED <<text, page, rows, tree, upload>>

Ask ==
  /\ Other(request) /\ request = <<>>
  /\ Compose([fields |-> [f \in Field |-> Unread], messages |-> <<>>])

Extend(body) ==
  /\ Size(body) < MaxParts
  /\ \/ \E f \in Field, content \in contents \ {Unread} :
          body.fields[f] = Unread /\ Compose([body EXCEPT !.fields[f] = content])
     \/ \E content \in contents : Compose([body EXCEPT !.messages = Append(@, content)])
     \/ \E part \in everyPart : body.fields["system"].form = "list"
          /\ Compose([body EXCEPT !.fields["system"].parts = Append(@, part)])
     \/ \E part \in everyPart, m \in {Len(body.messages)} \ {0} :
          body.messages[m].form = "list"
          /\ Compose([body EXCEPT !.messages[m].parts = Append(@, part)])

Init ==
  /\ text = <<>> /\ page = <<>> /\ rows = <<>> /\ tree = <<>>
  /\ upload = <<>> /\ request = <<>>
Next ==
  \/ \E l \in Lines : Write(l)
  \/ \E i \in 0..Len(page), tag \in Tags, noise \in BOOLEAN : Add(i, tag, noise)
  \/ \E n \in 0..3 : \E row \in [1..n -> BOOLEAN] : Fill(row)
  \/ \E i \in 0..Len(tree), tag \in {"element", "comment"} : Grow(i, tag)
  \/ Receive
  \/ Ask
  \/ \E i \in DOMAIN request : Extend(request[i])
Spec == Init /\ [][Next]_vars

-----------------------------------------------------------------------------
(* Properties.                                                             *)

\* "pipeline(pipeline(x)) == pipeline(x) holds exactly": what the prompt transformer made is
\* left alone by it, unless the text has an indented first line or blank lines in a fence.
PromptSettles ==
  Plain(text) => LET out == PromptTransform(text) IN PromptTransform(out) = out

\* "Keep-first so ordering never changes": whatever a prompt says, it says afterwards, once or
\* more, and in the order of the first time, in whichever order the passes feed each other;
\* "it will never touch the inside of a code fence": a closed fence stays, and none comes up.
PromptKeepsFirst ==
  Plain(text) => LET out == PromptTransform(text) IN
    /\ FirstSaid(out) = FirstSaid(text)
    /\ Regions(out) = Regions(text)

Sectioned ==
  \A i \in DOMAIN text : IsHeading(text[i]) => i = 1 \/ IsBlank(text[i - 1])

\* "An identical bullet under a different heading is left alone", where headings follow blank
\* lines.
SectionsKept ==
  Sectioned => Instructions(PromptTransform(text)) = Instructions(text)

\* Comments where blocks are written, images in code and tables in tables are left out.
Regular ==
  \A i \in DOMAIN page :
    /\ page[i].tag = "img" => \A j \in Inside(page, i) : Tag(page, j) # "pre"
    /\ page[i].tag = "comment" =>
         Tag(page, page[i].parent) \in {"p", "h1", "span", "pre", "li", "td"}
    /\ page[i].tag = "table" => \A j \in Inside(page, i) : Tag(page, j) # "table"

\* "Removes structural noise and nothing else": every word that is not in a dropped element is
\* in the Markdown, once and in its place, also the words after a dropped element.
EveryWordOnce ==
  Regular => WordsOf(HtmlTransform(page)) = SaidBy(page, 0)

\* "The bytes cannot lie": whatever is declared of a document, of what it opens with no
\* character is replaced on the way to the provider, unless it opens with an encoding of its
\* own; what lies beyond the sample is another matter.  And a text is read, unless the sample
\* ends inside one of its characters.
BytesDecide ==
  \A i \in DOMAIN upload : LET u == upload[i] IN
    /\ u.opens # "<?xml" => \A k \in Replaced(u) : k > SniffBytes
    /\ IsText(u.bytes) /\ SaidText(u) => ReadAs(u) \in Textual \/ Split(u.bytes)

\* "Never changes a value": every filled cell of a table stands in its Markdown, once, in its
\* order, and only with cells of its column; so does everything in an XML document without
\* comments and within the bounds.
EveryValueOnce ==
  /\ LET made == CsvToMarkdown(rows) IN made.form # "none" =>
       /\ CellsIn(made.lines) = CellsOf(rows)
       /\ \A l, m \in DOMAIN made.lines : \A c \in DOMAIN made.lines[l] :
            LET a == made.lines[l][c] b == made.lines[m][c]
            IN  a # <<>> /\ b # <<>> => a[2] = b[2]
  /\ /\ tree # <<>> /\ Len(tree) <= XmlNodes
     /\ \A i \in DOMAIN tree : tree[i].tag = "element" /\ Depth(tree, i) <= MaxDepth
     => XmlToMarkdown(tree) = WrittenIn(tree, 1)

ContentAt(body, field, m) == IF m = 0 THEN body.fields[field] ELSE body.messages[m]
ValueIn(content, j)       == IF j = 0 THEN content.value ELSE content.parts[j].text

\* The items of a response's input are its messages.
Asks(adapter, body) ==
  adapter = "openai.responses" => body.fields["input"] = Unread \/ body.messages = <<>>

\* No tool's answer and no thought of a model's carries a text.  Some do, and such a text is
\* rewritten, where the docstrings of schemas.py say that they are left alone.
Spoken(body) ==
  LET Carries(content) == \E j \in DOMAIN content.parts :
                         content.parts[j].type = "machine" /\ content.parts[j].text # Empty
  IN  /\ ~Carries(body.fields["system"])
      /\ \A m \in DOMAIN body.messages : ~Carries(body.messages[m])

\* "Never tool-call arguments, never image parts": in every rewritten request the results stand
\* each in its place, none in a call or an image, and nothing else is different; and the same
\* places are there to be read again.  The mark for the provider's cache that a document bears
\* may stay with the text that takes its place, or not: docstring and test disagree.
OnlyItsOwnPlace ==
  \A i \in DOMAIN request, provider \in Provider, path \in Endpoint :
    LET body    == request[i]
        adapter == AdapterFor(provider, path)
        places  == PlacesIn(adapter, body)
    IN  Spoken(body) /\ Asks(adapter, body) => \A changed \in SUBSET DOMAIN places :
      LET out == Rewritten(body, places, changed)
          Touched(field, m) ==
            {places[k].part : k \in {c \in changed : places[c].field = field
                                                     /\ places[c].message = m}}
          Otherwise(field, m) ==
            LET was == ContentAt(body, field, m)
                is  == ContentAt(out, field, m)
            IN  /\ is.form = was.form /\ DOMAIN is.parts = DOMAIN was.parts
                /\ 0 \in Touched(field, m) \/ is.value = was.value
                /\ \A j \in DOMAIN was.parts :
                     CASE j \notin Touched(field, m) -> is.parts[j] = was.parts[j]
                       [] was.parts[j].type = "text" ->
                            is.parts[j] = [was.parts[j] EXCEPT !.text = is.parts[j].text]
                       [] OTHER -> was.parts[j].type = "document" /\ is.parts[j].type = "text"
      IN  /\ \A k \in changed :
               ValueIn(ContentAt(out, places[k].field, places[k].message), places[k].part)
                 = ResultOf(k)
          /\ \A field \in Field : Otherwise(field, 0)
          /\ DOMAIN out.messages = DOMAIN body.messages
          /\ \A m \in DOMAIN body.messages : Otherwise("messages", m)
          /\ ToSet(PlacesIn(adapter, out))
               = {IF k \in changed THEN [places[k] EXCEPT !.kind = "text"] ELSE places[k] :
                    k \in DOMAIN places}
=============================================================================
