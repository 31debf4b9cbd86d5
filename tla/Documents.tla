----------------------------- MODULE Documents -----------------------------
(***************************************************************************)
(* Uploaded documents: which format one is in, by its bytes first and by   *)
(* what was declared of it second; and the Markdown of tables and of XML.  *)
(*                                                                         *)
(* Bytes are told apart as UTF-8 does: "char" is a character of one byte,  *)
(* "lead" begins one of two and "trail" ends it, "nul" is the byte 0.      *)
(* Encodings other than UTF-8 have leads without trails, or trails alone.  *)
(* What the bytes open with stands beside them; it is the first of them.   *)
(***************************************************************************)
EXTENDS HtmlMarkdown, FiniteSets

CONSTANTS
  Permitted,        \* the formats that settings do not disable
  SniffBytes,       \* _TEXT_SNIFF_BYTES
  MaxDecodedBytes,  \* documents_max_decoded_bytes
  MaxTableColumns,  \* _MAX_TABLE_COLUMNS
  MaxTableRows,     \* _MAX_TABLE_ROWS
  MaxDepth,         \* _MAX_DEPTH
  XmlNodes          \* _MAX_NODES

Byte      == {"char", "lead", "trail", "nul"}
Opening   == {"%PDF-", "OLE", "<?xml", "PK", "blank, <?xml", "<html", "other"}
Office    == {"docx", "xlsx", "pptx"}
Binary    == {"pdf"} \cup Office
Textual   == {"csv", "xml", "html", "markdown", "text"}
Formats   == Binary \cup Textual
Undecided == "unknown"

\* A document, the format its media type stands for, and that of its file name.
Upload == [opens : Opening, members : SUBSET Office, bytes : Seq(Byte),
           media : Formats \cup {Undecided}, extension : Formats \cup {Undecided}]

-----------------------------------------------------------------------------
(* detect_format.                                                          *)

\* The bytes that are of no character; and do all of them decode?
Astray(bytes) ==
  {i \in DOMAIN bytes : \/ bytes[i] = "lead" /\ ~(i < Len(bytes) /\ bytes[i + 1] = "trail")
                        \/ bytes[i] = "trail" /\ ~(i > 1 /\ bytes[i - 1] = "lead")}
Utf8(bytes) == Astray(bytes) = {}

Sample(bytes) == SubSeq(bytes, 1, IF Len(bytes) < SniffBytes THEN Len(bytes) ELSE SniffBytes)

\* Mutant: a byte 0 is all that tells binary from text.
LooksFreeOfNul(bytes) ==
  LET sample == Sample(bytes) IN \A i \in DOMAIN sample : sample[i] # "nul"

LooksTextual(bytes) ==
  LET sample == Sample(bytes) IN Utf8(sample) /\ \A i \in DOMAIN sample : sample[i] # "nul"

\* _classify_zip: the first of the three that has a member.
ClassifyZip(u) ==
  IF "docx" \in u.members THEN "docx" ELSE IF "xlsx" \in u.members THEN "xlsx"
  ELSE IF "pptx" \in u.members THEN "pptx" ELSE Undecided

ClassifyText(u) ==
  IF u.opens = "blank, <?xml" THEN "xml" ELSE IF u.opens = "<html" THEN "html" ELSE Undecided

FirstOf(formats) ==
  LET known == SelectSeq(formats, LAMBDA f : f # Undecided)
  IN  IF known = <<>> THEN Undecided ELSE Head(known)

Declared(u, allowed) == IF u.media \in allowed THEN u.media ELSE Undecided

DetectFormat(u) ==
  CASE u.opens = "%PDF-" -> "pdf"
    [] u.opens = "OLE"   -> Undecided
    [] u.opens = "<?xml" -> "xml"
    [] u.opens = "PK"    -> FirstOf(<<ClassifyZip(u), Declared(u, Office)>>)
    [] OTHER -> IF LooksTextual(u.bytes)
                THEN FirstOf(<<ClassifyText(u), u.media, u.extension, "text">>)
                ELSE Declared(u, Binary)

\* build_document_registry: the formats that have an extractor.
Extractable == {"pdf", "docx"} \cup Textual

\* extract: the format as which a document is read; if none, it is left as it is.
ReadAs(u) ==
  LET format == DetectFormat(u)
  IN  IF u.bytes # <<>> /\ Len(u.bytes) <= MaxDecodedBytes /\ format \in Permitted \cap Extractable
      THEN format ELSE Undecided

\* _decode: what does not decode is replaced.
Replaced(u) == IF ReadAs(u) \in Textual THEN Astray(u.bytes) ELSE {}

-----------------------------------------------------------------------------
(* csv_to_markdown.  A table is rows of cells, filled or not; a filled cell *)
(* is known by its place.                                                  *)

Filled(rows, r, c) == c <= Len(rows[r]) /\ rows[r][c]
Row(rows, r, keep) ==
  [k \in DOMAIN keep |-> IF Filled(rows, r, keep[k]) THEN <<r, keep[k]>> ELSE <<>>]

\* Mutant: the header says how wide the table is.
WidthOfHeader(rows, kept) == Len(rows[Head(kept)])

Width(rows, kept) ==
  LET widths == {Len(rows[kept[k]]) : k \in DOMAIN kept}
  IN  CHOOSE w \in widths : \A v \in widths : v <= w

Ordered(S, n) == SelectSeq([i \in 1..n |-> i], LAMBDA i : i \in S)

\* Empty rows go, then columns without a filled cell; a large table stays CSV.
CsvToMarkdown(rows) ==
  LET kept == Ordered({r \in DOMAIN rows : \E c \in DOMAIN rows[r] : rows[r][c]}, Len(rows))
  IN  IF Len(kept) < 2 THEN [form |-> "none", lines |-> <<>>]
      ELSE LET width == Width(rows, kept)
               keep  == Ordered({c \in 1..width : \E k \in DOMAIN kept : Filled(rows, kept[k], c)}, width)
               small == Len(keep) <= MaxTableColumns /\ Len(kept) - 1 <= MaxTableRows
           IN  [form  |-> IF small THEN "table" ELSE "csv",
                lines |-> [k \in DOMAIN kept |-> Row(rows, kept[k], keep)]]

-----------------------------------------------------------------------------
(* xml_to_markdown.  A document is a sequence of nodes, in document order, *)
(* of which the first is the root; tags are "element" and "comment".       *)

Depth(tree, i) == Cardinality(Inside(tree, i)) - 1
Elements(tree, i) == SelectSeq(Children(tree, i), LAMBDA k : tree[k].tag = "element")

\* Nodes that were visited, up to i, which gives up on what is too deep or too much.
Visited(tree, i) ==
  Cardinality({j \in 1..i : tree[j].tag = "element" /\ Depth(tree, j) <= MaxDepth + 1})

Name(i) == <<[of |-> i, at |-> "name"]>>
Text(i) == <<[of |-> i, at |-> "text"]>>
After(i) == <<[of |-> i, at |-> "tail"]>>

RECURSIVE Render(_, _)
Render(tree, i) ==
  IF Depth(tree, i) > MaxDepth \/ Visited(tree, i) > XmlNodes THEN <<>>
  ELSE Name(i) \o Text(i) \o Each(Elements(tree, i), LAMBDA k : Render(tree, k) \o After(k))

XmlToMarkdown(tree) == Render(tree, 1)

-----------------------------------------------------------------------------
(* Properties, of one document.                                            *)

IsText(bytes) == Utf8(bytes) /\ \A i \in DOMAIN bytes : bytes[i] # "nul"

\* The sample ends inside a character.
Split(bytes) == Len(bytes) > SniffBytes /\ bytes[SniffBytes] = "lead"

\* Nothing else is said of it than that it is a text.
SaidText(u) ==
  u.opens \notin {"%PDF-", "OLE", "PK"} /\ {u.media, u.extension} \cap Binary = {}

\* The filled cells of a table, and of the lines made of it.
CellsOf(rows) ==
  Each([r \in DOMAIN rows |-> r],
       LAMBDA r : Each(Ordered({c \in DOMAIN rows[r] : rows[r][c]}, Len(rows[r])), LAMBDA c : <<<<r, c>>>>))
CellsIn(lines) == Each(lines, LAMBDA l : SelectSeq(l, LAMBDA cell : cell # <<>>))

\* Every element's name, text and tail, in order.
RECURSIVE WrittenIn(_, _)
WrittenIn(tree, i) ==
  Name(i) \o Text(i) \o Each(Children(tree, i), LAMBDA k : WrittenIn(tree, k) \o After(k))
=============================================================================
