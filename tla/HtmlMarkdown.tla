---------------------------- MODULE HtmlMarkdown ----------------------------
(***************************************************************************)
(* The HTML transformer: noise is dropped from the tree, and what is left  *)
(* is written as blocks of Markdown.                                       *)
(*                                                                         *)
(* A page is the sequence of the nodes below its body, in document order.  *)
(* A node has a tag, a parent (0 is the body) and may be noise by its      *)
(* attributes.  Its text, its tail (what follows its end tag) and the alt  *)
(* text of an image are words of their own; the marks of inline elements,  *)
(* links, white space, escapes and the title are left out.                 *)
(*                                                                         *)
(* One tag stands for those treated alike: "span" for inline elements,     *)
(* "h1" for headings, "script" for elements with code, "nav" for site      *)
(* chrome, "div" for containers, "article" for the two a header is kept in. *)
(***************************************************************************)
EXTENDS Naturals, Sequences, SequencesExt

Lists      == {"ul", "ol"}
InlineTags == {"span", "br", "img"}
BlockTags  == Lists \cup {"h1", "p", "pre", "blockquote", "table", "hr"}
DropTags   == {"script", "nav"}
Void       == {"br", "img", "hr"}
Tags       == InlineTags \cup BlockTags \cup DropTags
                \cup {"li", "tr", "td", "div", "article", "header", "comment"}

Node == [tag : Tags, parent : Nat, noise : BOOLEAN]

Tag(page, i)    == IF i = 0 THEN "body" ELSE page[i].tag
Parent(page, i) == Tag(page, page[i].parent)
Inside(page, i) == LET up[j \in 0..i] == IF j = 0 THEN {} ELSE {page[j].parent} \cup up[page[j].parent]
                   IN  up[i]

\* Where the content model of HTML has text: not directly in a list, a table or a row.
TextOf(page, i) == IF Tag(page, i) \in Lists \cup {"table", "tr"} \cup Void THEN <<>>
                 ELSE <<[of |-> i, at |-> "text"]>>
TailOf(page, i) == IF Parent(page, i) \in Lists \cup {"table", "tr"} THEN <<>>
                 ELSE <<[of |-> i, at |-> "tail"]>>
Alt(i)        == <<[of |-> i, at |-> "alt"]>>

Children(page, i) == SelectSeq([j \in DOMAIN page |-> j], LAMBDA j : page[j].parent = i)
Each(seq, op(_))  == FoldLeft(LAMBDA words, k : words \o op(k), <<>>, seq)

-----------------------------------------------------------------------------
(* _strip.                                                                 *)

Dropped(page, i) ==
  \/ page[i].tag \in DropTags
  \/ page[i].tag = "header" /\ \A j \in Inside(page, i) : Tag(page, j) # "article"
  \/ page[i].noise /\ page[i].tag # "comment"

Kept(page, i) == SelectSeq(Children(page, i), LAMBDA k : ~Dropped(page, k))

\* Mutant: remove() takes the tail with the element.
TailOfRemoved(page, i) == <<>>

\* drop_tree() leaves the tail: it joins that of the sibling before it, or the parent's text.
TailOfDropped(page, i) == TailOf(page, i)

\* The tails of the elements dropped after child i of its parent (after its text, if 0).
Joined(page, parent, i) ==
  LET all   == Children(page, parent)
      later == SelectSeq(all, LAMBDA k : k > i)
      next  == {k \in DOMAIN later : ~Dropped(page, later[k])}
      end   == IF next = {} THEN Len(later) ELSE (CHOOSE k \in next : \A m \in next : k <= m) - 1
  IN  Each(SubSeq(later, 1, end), LAMBDA k : TailOfDropped(page, k))

TextNow(page, i) == TextOf(page, i) \o Joined(page, i, 0)
TailNow(page, i) == TailOf(page, i) \o Joined(page, page[i].parent, i)

-----------------------------------------------------------------------------
(* _MarkdownWriter.                                                        *)

RECURSIVE InlineChildren(_, _)
Inline(page, i) ==
  CASE page[i].tag \in {"br", "comment"} -> <<>>
    [] page[i].tag = "img" -> Alt(i)
    [] OTHER -> InlineChildren(page, i)
InlineChildren(page, i) ==
  TextNow(page, i) \o Each(Kept(page, i), LAMBDA k : Inline(page, k) \o TailNow(page, k))

\* text_content(): an image has none.
RECURSIVE TextContent(_, _)
TextContent(page, i) ==
  TextNow(page, i) \o Each(Kept(page, i), LAMBDA k :
    (IF page[k].tag = "comment" THEN <<>> ELSE TextContent(page, k)) \o TailNow(page, k))

\* An item is one line; the lists in it follow, an indent deeper.
RECURSIVE List(_, _)
Item(page, i) ==
  LET IsList(k) == page[k].tag \in Lists IN
  TextNow(page, i)
    \o Each(Kept(page, i), LAMBDA k : (IF IsList(k) THEN <<>> ELSE Inline(page, k)) \o TailNow(page, k))
    \o Each(SelectSeq(Kept(page, i), IsList), LAMBDA k : List(page, k))
List(page, i) ==
  Each(SelectSeq(Kept(page, i), LAMBDA k : page[k].tag = "li"), LAMBDA k : Item(page, k))

\* Of every row at any depth, the cells.
Survives(page, i) == \A j \in (Inside(page, i) \ {0}) \cup {i} : ~Dropped(page, j)
Table(page, i) ==
  LET rows == SelectSeq([j \in DOMAIN page |-> j],
                        LAMBDA j : page[j].tag = "tr" /\ i \in Inside(page, j) /\ Survives(page, j))
  IN  Each(rows, LAMBDA row :
        Each(SelectSeq(Kept(page, row), LAMBDA k : page[k].tag = "td"), LAMBDA k : InlineChildren(page, k)))

Paragraph(mark, words) == IF words = <<>> THEN <<>> ELSE <<[mark |-> mark, words |-> words]>>
WordsOf(blocks) == Each(blocks, LAMBDA b : b.words)

\* _flush, then the blocks of an element.
Flush(inline, blocks, more) ==
  [inline |-> <<>>, blocks |-> blocks \o Paragraph("", inline) \o more]

RECURSIVE Walk(_, _)
Blocks(page, i) ==
  CASE page[i].tag = "h1"         -> Paragraph("#", InlineChildren(page, i))
    [] page[i].tag = "p"          -> Paragraph("", InlineChildren(page, i))
    [] page[i].tag \in Lists      -> Paragraph("-", List(page, i))
    [] page[i].tag = "pre"        -> Paragraph("code", TextContent(page, i))
    [] page[i].tag = "blockquote" -> Paragraph(">", WordsOf(Walk(page, i)))
    [] page[i].tag = "table"      -> Paragraph("|", Table(page, i))
    [] page[i].tag = "hr"         -> <<[mark |-> "---", words |-> <<>>]>>
    [] OTHER                      -> Walk(page, i)

\* A comment is passed over, and its tail with it.
Walk(page, i) ==
  LET Visit(w, k) ==
        IF page[k].tag = "comment" THEN w
        ELSE LET v == IF page[k].tag \in InlineTags
                      THEN [w EXCEPT !.inline = @ \o Inline(page, k)]
                      ELSE Flush(w.inline, w.blocks, Blocks(page, k))
             IN  [v EXCEPT !.inline = @ \o TailNow(page, k)]
      w == FoldLeft(Visit, [inline |-> TextNow(page, i), blocks |-> <<>>], Kept(page, i))
  IN  Flush(w.inline, w.blocks, <<>>).blocks

HtmlTransform(page) == Walk(page, 0)

-----------------------------------------------------------------------------
(* Properties, of one page.                                                *)

\* What the page says below node i, in order; the lists in an item after its other words, as
\* the item is one line.
RECURSIVE SaidBy(_, _)
SaidBy(page, i) ==
  LET Shown(k) == IF Dropped(page, k) \/ page[k].tag = "comment" THEN <<>>
                  ELSE IF page[k].tag = "img" THEN Alt(k) ELSE SaidBy(page, k)
      Nested(k) == Tag(page, i) = "li" /\ page[k].tag \in Lists /\ ~Dropped(page, k)
      all == Children(page, i)
  IN  TextOf(page, i)
        \o Each(all, LAMBDA k : (IF Nested(k) THEN <<>> ELSE Shown(k)) \o TailOf(page, k))
        \o Each(SelectSeq(all, Nested), LAMBDA k : SaidBy(page, k))
=============================================================================
