---------------------------- MODULE PromptDedup ----------------------------
(***************************************************************************)
(* The prompt transformer, which removes from a prompt what it says twice, *)
(* and the text normalizer it ends with.                                   *)
(*                                                                         *)
(* A text is a sequence of lines.  A line has a mark: "fence", "heading",  *)
(* "item", "code" (prose with a code span) or "none"; an indent; the       *)
(* sentences that it holds; and the number of spaces between them.  White  *)
(* space at the end of lines and carriage returns are left out, and so is  *)
(* collapse_inline_whitespace, which is off.                               *)
(***************************************************************************)
EXTENDS Naturals, FiniteSets, Sequences, SequencesExt

Line == [mark : {"fence", "heading", "item", "code", "none"}, indent : Nat,
         text : Seq(STRING), gap : Nat]
Blank == [mark |-> "none", indent |-> 0, text |-> <<>>, gap |-> 1]

IsBlank(l)    == l.text = <<>>
IsFence(l)    == l.mark = "fence" /\ l.indent <= 3
IsHeading(l)  == l.mark = "heading" /\ l.indent <= 3
IsListItem(l) == l.mark = "item"

\* in_fence, before line i.
InFence(lines, i)  == Cardinality({j \in 1..(i - 1) : IsFence(lines[j])}) % 2 = 1

Outside(lines)     == {i \in DOMAIN lines : ~IsFence(lines[i]) /\ ~InFence(lines, i)}
Headings(lines)    == {i \in Outside(lines) : IsHeading(lines[i])}
Items(lines)       == {i \in Outside(lines) : IsListItem(lines[i])}

\* current_heading: its line without the indent, "" before the first one.
HeadingOf(lines, i) ==
  LET above == {j \in Headings(lines) : j < i} IN
  IF above = {} THEN <<>> ELSE lines[CHOOSE j \in above : \A k \in above : k <= j].text

\* The members of S, indices of lines, in order; and what is there.
Ascending(lines, S) == SelectSeq([i \in DOMAIN lines |-> i], LAMBDA i : i \in S)
Pick(lines, S)      == LET at == Ascending(lines, S) IN [k \in DOMAIN at |-> lines[at[k]]]

-----------------------------------------------------------------------------
(* The passes.                                                             *)

SameItemAndSection(lines, i, j) ==
  lines[i].text = lines[j].text /\ HeadingOf(lines, i) = HeadingOf(lines, j)

\* Mutant: of equal items the last is kept.
DedupeListItemsKeepingLast(lines) ==
  LET items == Items(lines) IN
  Pick(lines, {i \in DOMAIN lines :
                 i \in items => \A j \in items : j > i => ~SameItemAndSection(lines, i, j)})

\* Of equal items of a section the first is kept.
DedupeListItems(lines) ==
  LET items == Items(lines) IN
  Pick(lines, {i \in DOMAIN lines :
                 i \in items => \A j \in items : j < i => ~SameItemAndSection(lines, i, j)})

\* Blank lines outside fences separate blocks, which start and end at:
Breaks(lines) == {i \in Outside(lines) : IsBlank(lines[i])}
Starts(lines) == {i \in DOMAIN lines \ Breaks(lines) : i = 1 \/ i - 1 \in Breaks(lines)}
Block(lines, i) ==
  LET after == {j \in Breaks(lines) : j > i} IN
  SubSeq(lines, i, IF after = {} THEN Len(lines) ELSE (CHOOSE j \in after : \A k \in after : j <= k) - 1)
SplitBlocks(lines) == LET at == Ascending(lines, Starts(lines)) IN [k \in DOMAIN at |-> Block(lines, at[k])]

BareHeading(block) == Len(block) = 1 /\ IsHeading(block[1])
ListOnly(block)    == \A k \in DOMAIN block : IsBlank(block[k]) \/ IsListItem(block[k])

\* The k-th block says what an earlier one says, or is a heading that opened an earlier one.
Repeated(blocks, k) ==
  \/ BareHeading(blocks[k]) /\ \E j \in 1..(k - 1) :
        IsHeading(blocks[j][1]) /\ blocks[j][1].text = blocks[k][1].text
  \/ ~BareHeading(blocks[k]) /\ ~ListOnly(blocks[k]) /\ \E j \in 1..(k - 1) : blocks[j] = blocks[k]

\* Lines as they are if no block goes; else the blocks with one blank line between them.
DedupeBlocks(lines) ==
  LET blocks == SplitBlocks(lines)
      kept   == {k \in DOMAIN blocks : ~Repeated(blocks, k)}
  IN  IF kept = DOMAIN blocks THEN lines
      ELSE FoldLeft(LAMBDA out, b : IF out = <<>> THEN b ELSE Append(out, Blank) \o b,
                    <<>>, Pick(blocks, kept))

\* The indent is part of the first sentence.
Echo(l, k) == k > 1 /\ l.text[k] = l.text[k - 1] /\ (k = 2 => l.indent = 0)
Echoes(l)  == {k \in DOMAIN l.text : Echo(l, k)}
Prose(lines) == {i \in Outside(lines) : lines[i].mark = "none"}

\* changed stays TRUE for the lines below the first one that changed: they are joined anew too.
DedupeSentences(lines) ==
  LET prose == Prose(lines) IN
  [i \in DOMAIN lines |->
     IF /\ i \in prose /\ Len(lines[i].text) > 1
        /\ \E j \in prose : j <= i /\ Echoes(lines[j]) # {}
     THEN [lines[i] EXCEPT !.text = Pick(@, DOMAIN @ \ Echoes(lines[i])), !.gap = 1]
     ELSE lines[i]]

Round(lines) == DedupeSentences(DedupeBlocks(DedupeListItems(lines)))

\* Mutant: one round.
DeduplicateOnce(lines) == Round(lines)

\* Rounds until one removes nothing.
RECURSIVE Deduplicate(_)
Deduplicate(lines) == LET out == Round(lines) IN IF out = lines THEN lines ELSE Deduplicate(out)

-----------------------------------------------------------------------------
(* normalize_text, which knows no fences.                                  *)

\* Runs of blank lines, at the ends or repeated, go.
CollapseBlankLines(lines) ==
  Pick(lines, {i \in DOMAIN lines : ~IsBlank(lines[i])
                                     \/ (i > 1 /\ ~IsBlank(lines[i - 1]) /\ \E j \in (i + 1)..Len(lines) : ~IsBlank(lines[j]))})

\* strip(): the indent of its first line goes with the white space.
Stripped(paragraph) ==
  IF paragraph = <<>> THEN <<>> ELSE [paragraph EXCEPT ![1].indent = 0]

Paragraphs(lines) ==
  LET starts == Ascending(lines, {i \in DOMAIN lines : ~IsBlank(lines[i]) /\ (i = 1 \/ IsBlank(lines[i - 1]))})
      End(k) == IF k = Len(starts) THEN Len(lines) ELSE starts[k + 1] - 2
  IN  [k \in DOMAIN starts |-> SubSeq(lines, starts[k], End(k))]

\* A paragraph is compared with the one before it: of a run of equal ones the first is kept.
DedupeParagraphs(lines) ==
  LET paragraphs == Paragraphs(lines)
      kept == {k \in DOMAIN paragraphs : k = 1 \/ Stripped(paragraphs[k]) # Stripped(paragraphs[k - 1])}
  IN  FoldLeft(LAMBDA out, p : IF out = <<>> THEN p ELSE Append(out, Blank) \o p,
               <<>>, Pick(paragraphs, kept))

NormalizeText(lines) == Stripped(DedupeParagraphs(CollapseBlankLines(lines)))

PromptTransform(lines) == NormalizeText(Deduplicate(lines))

-----------------------------------------------------------------------------
(* Properties, of one text.                                                *)

\* What the normalizer may change within a line or a fence is not there: no blank line in a
\* fence, and no indent before the first word.
Plain(lines) ==
  /\ \A i \in DOMAIN lines : IsBlank(lines[i]) => i \in Outside(lines)
  /\ \A i \in DOMAIN lines : lines[i].indent > 0 => \E j \in 1..(i - 1) : ~IsBlank(lines[j])

\* What a line says, once its echoes are gone.
Says(l) == <<l.mark, Pick(l.text, DOMAIN l.text \ {k \in DOMAIN l.text : k > 1 /\ l.text[k] = l.text[k - 1]})>>

\* What a text says, in the order in which it says it first.
FirstSaid(lines) ==
  LET said == {i \in DOMAIN lines : ~IsBlank(lines[i])} IN
  LET first == Ascending(lines, {i \in said : \A j \in said : j < i => Says(lines[j]) # Says(lines[i])})
  IN  [k \in DOMAIN first |-> Says(lines[first[k]])]

\* The fenced regions: from a fence to the next.
Regions(lines) ==
  LET fences == {i \in DOMAIN lines : IsFence(lines[i])} IN
  {SubSeq(lines, i, j) : <<i, j>> \in
     {<<i, j>> \in fences \X fences : /\ ~InFence(lines, i) /\ i < j
                                      /\ \A k \in fences : ~(i < k /\ k < j)}}

\* The list items, each with the heading it stands under.
Instructions(lines) == {<<HeadingOf(lines, i), lines[i].text>> : i \in Items(lines)}
=============================================================================
