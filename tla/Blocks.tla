------------------------------- MODULE Blocks -------------------------------
(***************************************************************************)
(* pleading/md_pleading.py: how the lines of a Markdown body become        *)
(* blocks, and what of it the other two renderers, md_to_docx.py and       *)
(* md_to_txt.py, do in another way.                                        *)
(*                                                                         *)
(* A line is its kind, its words, and whether it is indented; a word is a  *)
(* string.  What a parser does with a line depends on no more than that.   *)
(***************************************************************************)
EXTENDS Naturals, FiniteSetsExt, SequencesExt

CONSTANT Num  \* the words for 1, 2, 3 ...

VARIABLES
  lines,      \* the body, macros substituted
  letter,     \* doctype: letter
  at,         \* the next line
  pend,       \* the paragraph, quotation or list item that is being read
  table,      \* the words of the rows of the table that is being read
  verb,       \* \fixedwidth{: the words that are being read
  commented,  \* in an HTML comment
  blocks      \* what is read

parseVars == <<lines, letter, at, pend, table, verb, commented, blocks>>

Block(kind, words, n) == [kind |-> kind, words |-> words, n |-> n]
Nothing == Block("none", << >>, 0)
Closed  == [on |-> FALSE, words |-> << >>]

-----------------------------------------------------------------------------
(* Before the lines are read.                                              *)

\* #. takes the next number of the document, wherever the line stands.
Autos(body, i) == Cardinality({j \in 1 .. i : body[j].k = "auto"})

Autonumbered(body) ==
  [i \in DOMAIN body |-> IF body[i].k = "auto"
                         THEN [body[i] EXCEPT !.k = "item", !.n = Autos(body, i)] ELSE body[i]]

\* A footnote's definition goes on through indented lines.
IsNote(body, i) ==
  \E j \in 1 .. i : body[j].k = "note"
    /\ \A m \in j + 1 .. i : body[m].indent /\ body[m].k # "blank"

WithoutNotes(body) == LET kept[i \in 0 .. Len(body)] ==
                            IF i = 0 THEN << >>
                            ELSE IF IsNote(body, i) THEN kept[i - 1] ELSE Append(kept[i - 1], body[i])
                      IN  kept[Len(body)]

\* A tight list: lines without a blank one between, the first of them an
\* item, and their numbers one, two, three from there.
Tight(i) ==
  \E s \in 1 .. i : \E e \in i .. Len(lines) :
    LET items == {j \in s .. e : lines[j].k = "item"}
    IN  /\ \A j \in s .. e : lines[j].k # "blank"
        /\ s = 1 \/ lines[s - 1].k = "blank"
        /\ e = Len(lines) \/ lines[e + 1].k = "blank"
        /\ s \in items /\ Cardinality(items) >= 2
        /\ \A j \in items : lines[j].n = lines[s].n + Cardinality({m \in items : m < j})

-----------------------------------------------------------------------------
(* parse_markdown_blocks: one line after the other.                        *)

Line == lines[at]
Text == IF Line.k = "item" THEN <<Num[Line.n]>> \o Line.words ELSE Line.words

ParseInit(body, isLetter) ==
  /\ lines = body /\ letter = isLetter /\ at = 1 /\ pend = Nothing
  /\ table = << >> /\ verb = Closed /\ commented = FALSE /\ blocks = << >>

Flushed(bs) == IF pend.words = << >> THEN bs ELSE Append(bs, pend)

\* Mutant: a line of text after a table does not flush it.
TabledLost == blocks

Tabled == IF table = << >> THEN blocks ELSE Append(blocks, Block("table", table, 0))
Settled == Flushed(Tabled)

\* \fixedwidth{ to the lone }: every line as it is.  The table before it is
\* not flushed.
Verbatim ==
  /\ IF verb.on
     THEN IF Line.k = "end"
          THEN blocks' = Append(blocks, Block("fixed", verb.words, 0)) /\ verb' = Closed
          ELSE verb' = [verb EXCEPT !.words = @ \o Text] /\ UNCHANGED blocks
     ELSE Line.k = "fixed" /\ blocks' = Flushed(blocks) /\ verb' = [Closed EXCEPT !.on = TRUE]
  /\ pend' = IF verb.on THEN pend ELSE Nothing
  /\ UNCHANGED <<table, commented>>

\* A comment of several lines leaves no trace, not even a blank line.
Comment ==
  /\ commented \/ Line.k = "open"
  /\ commented' = (Line.k # "close")
  /\ UNCHANGED <<pend, table, verb, blocks>>

InTable == Line.k = "row" \/ (Line.k = "rule" /\ table # << >>)

Row ==
  /\ InTable
  /\ blocks' = IF table = << >> THEN Flushed(blocks) ELSE blocks
  /\ pend' = IF table = << >> THEN Nothing ELSE pend
  /\ table' = IF Line.k = "row" THEN table \o Line.words ELSE table
  /\ UNCHANGED <<verb, commented>>

\* The indented rest of a list item; an indented bullet begins no item.
Continues == /\ Line.indent
             /\ \/ pend.kind = "bullet" /\ Line.k = "text"
                \/ pend.kind = "numbered" /\ Line.k \in {"text", "bullet"}

\* What starts with this line and may go on; Nothing for a blank line and
\* for a block of one line.
Starts ==
  CASE Line.k = "bullet" /\ ~Line.indent -> Block("bullet", Line.words, 0)
    [] Line.k = "item" /\ (letter \/ Tight(at)) -> Block("numbered", Line.words, Line.n)
    [] Line.k = "quote" -> Block("quote", Line.words, 0)
    [] Line.k \in {"blank", "comment", "heading", "macro"} -> Nothing
    [] OTHER -> Block("paragraph", Text, 0)

Whole == IF Line.k \in {"heading", "macro"}
         THEN <<Block(IF Line.k = "heading" THEN "heading" ELSE Line.macro, Line.words, Line.n)>> ELSE << >>

\* A line of text goes on with a paragraph, a > line with a quotation.
Joins == Continues \/ (Starts.kind = pend.kind /\ Starts.kind \in {"paragraph", "quote"})

ReadLine ==
  /\ ~InTable
  /\ table' = << >>
  /\ IF Joins
     THEN pend' = [pend EXCEPT !.words = @ \o Text] /\ blocks' = Tabled
     ELSE pend' = Starts /\ blocks' = Settled \o Whole
  /\ UNCHANGED <<verb, commented>>

\* \fixedwidth comes before everything, then the comments, then the table.
ParseLine ==
  /\ at <= Len(lines)
  /\ at' = at + 1 /\ UNCHANGED <<lines, letter>>
  /\ IF verb.on \/ (Line.k = "fixed") THEN Verbatim
     ELSE IF commented \/ Line.k = "open" THEN Comment ELSE Row \/ ReadLine

\* What is still verbatim at the end is dropped.
ParseEnd ==
  /\ at = Len(lines) + 1
  /\ at' = at + 1
  /\ blocks' = Settled /\ pend' = Nothing /\ table' = << >>
  /\ UNCHANGED <<lines, letter, verb, commented>>

-----------------------------------------------------------------------------
(* number_headings.                                                        *)

\* I., A., 1.: a heading starts the counts below it anew.
Counted(c, level) == [m \in 1 .. 3 |-> IF m < level THEN c[m] ELSE IF m = level THEN c[m] + 1 ELSE 0]

NumberHeadings(bs) ==
  LET counts[i \in 0 .. Len(bs)] ==
        IF i = 0 THEN <<0, 0, 0>>
        ELSE IF bs[i].kind = "heading" THEN Counted(counts[i - 1], bs[i].n) ELSE counts[i - 1]
  IN  [i \in DOMAIN bs |-> IF bs[i].kind = "heading" THEN [bs[i] EXCEPT !.n = counts[i][bs[i].n]] ELSE bs[i]]

-----------------------------------------------------------------------------
(* md_to_docx.py reads the body in chunks between blank lines.  A chunk    *)
(* that begins with a bullet keeps its bullet lines and nothing else.      *)

Hidden(body, i) ==
  body[i].k = "comment"
    \/ \E s \in 1 .. i : \E e \in i .. Len(body) :
         /\ body[s].k = "open" /\ body[e].k = "close"
         /\ \A j \in s .. e - 1 : body[j].k # "close"

Parts(body, i) == body[i].k \in {"blank", "fixed"} \/ Hidden(body, i)

Kept(body, i) ==
  \A s \in 1 .. i :
    (body[s].k = "bullet" /\ (s = 1 \/ Parts(body, s - 1)) /\ \A j \in s .. i : ~Parts(body, j))
      => body[i].k = "bullet"

DocxWords(body) ==
  LET words[i \in 0 .. Len(body)] ==
        IF i = 0 THEN << >>
        ELSE IF Kept(body, i) /\ ~Hidden(body, i)
        THEN words[i - 1] \o (IF body[i].k = "item" THEN <<Num[body[i].n]>> ELSE << >>) \o body[i].words
        ELSE words[i - 1]
  IN  words[Len(body)]
=============================================================================
