------------------------------- MODULE Pages -------------------------------
(***************************************************************************)
(* pleading/md_pleading.py, PleadingPDF: how blocks become pages of        *)
(* numbered lines.  Each word stands for one line of wrapped text.         *)
(***************************************************************************)
EXTENDS Blocks

CONSTANTS
  LinesPerPage,
  CaptionEnd,     \* the first line of the body on the first page
  SignLines,      \* SIGNBLOCK_GRID_LINES
  MaxLeads,       \* SIG_KEEP_MAX_LEAD_BLOCKS
  LeadLines,      \* SIG_LEAD_MAX_GRID_LINES
  FollowingLines, \* HEADING_MIN_FOLLOWING_LINES
  NoteLines,      \* the lines of the footnote of each word that has one
  Ties,           \* words before \newline{keep}
  Colons          \* words that end with a colon

\* A page holds the longest run of leads and the signature under it, which
\* is higher than what must follow a heading.
ASSUME PageAssumption ==
  /\ {LinesPerPage, CaptionEnd, SignLines, MaxLeads, LeadLines, FollowingLines} \subseteq Nat \ {0}
  /\ MaxLeads * LeadLines + SignLines + 1 <= LinesPerPage
  /\ FollowingLines < SignLines
  /\ \A w \in DOMAIN NoteLines : NoteLines[w] \in Nat

VARIABLES
  sheet,  \* the page and line reached, its footnotes; what is drawn, and at the foot
  placed  \* how many blocks are emitted

layVars == <<sheet, placed>>

TextKinds == {"paragraph", "heading", "bullet", "numbered", "quote"}
ListKinds == {"bullet", "numbered"}
SignKinds == {"sign", "judge", "seal"}

-----------------------------------------------------------------------------
(* A page.                                                                 *)

\* The lines of the first notes, one after the other.
NoteHeights(ns) ==
  LET sum[k \in 0 .. Len(ns)] == IF k = 0 THEN 0 ELSE sum[k - 1] + NoteLines[ns[k]]
  IN  sum

\* _fn_area_for: a line for the rule, and the lines of the notes.
Area(ns) == IF ns = << >> THEN 0 ELSE 1 + NoteHeights(ns)[Len(ns)]

Bottom(s) == LinesPerPage - Area(s.notes)

Mark(s, n, height, block, what) ==
  [page |-> s.page, line |-> n, height |-> height, block |-> block, what |-> what]

Draw(s, height, block, what) ==
  [s EXCEPT !.drawn = Append(@, Mark(s, s.line, height, block, what)), !.line = @ + height]

\* _render_page_footnotes: the lines above a note's are those of the notes before it.
RenderNotes(s) ==
  [s EXCEPT !.foot = @ \cup
     {Mark(s, Bottom(s) + 2 + NoteHeights(s.notes)[k - 1], NoteLines[s.notes[k]], 0, s.notes[k]) :
        k \in DOMAIN s.notes}]

StartPage(s) == [RenderNotes(s) EXCEPT !.page = @ + 1, !.line = 1, !.notes = << >>]

TurnIf(s, turns) == IF turns THEN StartPage(s) ELSE s

\* Mutant: a line too late.
AdvanceLate(s) == TurnIf(s, s.line > Bottom(s) + 1)

\* _advance_line
Advance(s) == TurnIf(s, s.line > Bottom(s))

-----------------------------------------------------------------------------
(* How many lines a block will take.                                       *)

GridLines(b) == IF b.kind \in TextKinds THEN Len(b.words) + 1 ELSE 1

IsLead(b) ==
  b.kind = "heading" \/ (b.kind \in {"paragraph", "numbered", "bullet"} /\ GridLines(b) <= LeadLines)

SignNeeded(b) == CASE b.kind = "sign"  -> SignLines + 1
                   [] b.kind = "judge" -> SignLines
                   [] b.kind = "seal"  -> b.n

\* The lines of the first blocks, one after the other.
LinesUpTo(bs) ==
  LET sum[k \in 0 .. Len(bs)] == IF k = 0 THEN 0 ELSE sum[k - 1] + GridLines(bs[k])
  IN  sum

Total(bs, i, j) == LinesUpTo(bs)[j] - LinesUpTo(bs)[i - 1]

\* A run of leads, at most MaxLeads of them, before a signature block.
RunsTo(bs, i, j) ==
  /\ i < j /\ j - i <= MaxLeads /\ bs[j].kind \in SignKinds
  /\ \A k \in i .. j - 1 : IsLead(bs[k])

\* The block before the run joins it when that fits a page, whatever its
\* length; then the leads before that one, as many as fit.
PrevStart(bs, i, j) ==
  IF i > 1 /\ bs[i - 1].kind \notin SignKinds \cup {"heading"}
       /\ Total(bs, i - 1, j - 1) + SignNeeded(bs[j]) <= LinesPerPage
  THEN i - 1 ELSE i

GroupStart(bs, i, j) ==
  Min({PrevStart(bs, i, j)} \cup
      {r \in 1 .. PrevStart(bs, i, j) :
         (\A k \in r .. PrevStart(bs, i, j) - 1 : IsLead(bs[k]))
           /\ Total(bs, r, j - 1) + SignNeeded(bs[j]) <= LinesPerPage})

\* _compute_keep_groups: <<the first block, the signature block>>.
KeepGroups(bs) ==
  {<<GroupStart(bs, p[1], p[2]), p[2]>> : p \in
     {p \in (DOMAIN bs) \X (DOMAIN bs) :
        RunsTo(bs, p[1], p[2]) /\ (p[1] = 1 \/ ~RunsTo(bs, p[1] - 1, p[2]))}}

GroupLines(bs, g) == Total(bs, g[1], g[2] - 1) + SignNeeded(bs[g[2]])

\* Mutant: the group is broken wherever the page ends.
BreaksGroupNever(bs, i, s) == FALSE

BreaksGroup(bs, i, s) ==
  \E g \in KeepGroups(bs) :
    /\ g[1] = i /\ s.line # 1 /\ GroupLines(bs, g) <= LinesPerPage
    /\ s.line + GroupLines(bs, g) - 1 > Bottom(s)

-----------------------------------------------------------------------------
(* Text.                                                                   *)

\* keep_runs: a line that is tied to the next, and those tied to that one.
Tied(ws, i) == i < Len(ws) /\ ws[i] \in Ties
KeepRun(ws, i) ==
  IF ~Tied(ws, i) \/ (i > 1 /\ Tied(ws, i - 1)) THEN 1
  ELSE 1 + Cardinality({j \in i .. Len(ws) : \A m \in i .. j : Tied(ws, m)})

\* Mutant: after the page is turned the marker's footnote is not added again.
NewNotesOnce(s, w) == IF s.line # 1 /\ w \in DOMAIN NoteLines /\ w \notin ToSet(s.notes) THEN <<w>> ELSE << >>

\* A marker that is new on its page.
NewNotes(s, w) == IF w \in DOMAIN NoteLines /\ w \notin ToSet(s.notes) THEN <<w>> ELSE << >>

PutLine(s, block, w, run) ==
  LET bottom == LinesPerPage - Area(s.notes \o NewNotes(s, w))
      turns  == s.line > bottom \/ (run > 1 /\ s.line # 1 /\ s.line + run - 1 > bottom)
      t      == TurnIf(s, turns)
      noted  == [t EXCEPT !.notes = @ \o NewNotes(t, w)]
  IN  Draw(noted, 1, block, w)

PutLines(s, block, ws) ==
  LET put[i \in 0 .. Len(ws)] ==
        IF i = 0 THEN s ELSE PutLine(put[i - 1], block, ws[i], KeepRun(ws, i))
  IN  put[Len(ws)]

\* A heading wants itself, a blank line and two more lines on its page; a
\* paragraph with a colon its list's first item; a tie its whole paragraph.
TurnsBefore(bs, i, s) ==
  LET b == bs[i]
      fits(n) == s.line + n - 1 <= Bottom(s)
      last == i = Len(bs)
  IN  s.line # 1 /\
      (\/ b.kind = "heading" /\ ~last /\ ~fits(2 + FollowingLines)
       \/ /\ b.kind = "paragraph" /\ ~last /\ b.words[Len(b.words)] \in Colons
          /\ bs[i + 1].kind \in ListKinds
          /\ GridLines(b) + GridLines(bs[i + 1]) <= LinesPerPage
          /\ ~fits(GridLines(b) + GridLines(bs[i + 1]))
       \/ /\ \E k \in DOMAIN b.words : Tied(b.words, k)
          /\ Len(b.words) <= LinesPerPage /\ ~fits(Len(b.words)))

\* The separator after a list item goes when another one follows.
Separated(bs, i) == ~(bs[i].kind \in ListKinds /\ i < Len(bs) /\ bs[i + 1].kind = bs[i].kind)

EmitText(bs, i, s) ==
  LET t == PutLines(TurnIf(s, TurnsBefore(bs, i, s)), i, bs[i].words)
  IN  IF Separated(bs, i) /\ t.line <= Bottom(t) THEN [t EXCEPT !.line = @ + 1] ELSE t

-----------------------------------------------------------------------------
(* Objects.  A block of signatures looks at the page's lines, and not at   *)
(* its footnotes; all but seals leave a blank line.                        *)

\* What an object of one line shows.
Label(b) == IF b.words = << >> THEN "" ELSE b.words[1]

EmitSign(b, i, s) ==
  LET height == IF b.kind = "sign" THEN SignLines + b.n ELSE SignNeeded(b)
      t == TurnIf(s, s.line + height - 1 > LinesPerPage /\ (b.kind = "seal" => s.line # 1))
  IN  [Draw(t, height, i, Label(b)) EXCEPT !.line = IF b.kind = "judge" THEN @ ELSE @ + 1]

\* A row of up to four lines stays whole, and never takes the last line.
EmitTable(b, i, s) ==
  LET rows[k \in 0 .. Len(b.words)] ==
        IF k = 0 THEN s
        ELSE Draw(TurnIf(rows[k - 1], Bottom(rows[k - 1]) - rows[k - 1].line < 1), 1, i, b.words[k])
      t == Advance(rows[Len(b.words)])
  IN  [t EXCEPT !.line = @ + 1]

EmitFixed(b, i, s) ==
  LET put[k \in 0 .. Len(b.words)] ==
        IF k = 0 THEN s ELSE Draw(Advance(put[k - 1]), 1, i, b.words[k])
      t == put[Len(b.words)]
  IN  [t EXCEPT !.line = @ + 1]

EmitCenter(b, i, s) == Draw(Advance(s), 1, i, Label(b))

\* emit_body, for one block.
Emitted(bs, i, s0) ==
  LET b == bs[i]
      s == TurnIf(s0, BreaksGroup(bs, i, s0))
  IN  CASE b.kind = "pagebreak" -> TurnIf(s, s.line # 1)
        [] b.kind \in SignKinds -> EmitSign(b, i, s)
        [] b.kind = "table"  -> EmitTable(b, i, s)
        [] b.kind = "fixed"  -> EmitFixed(b, i, s)
        [] b.kind = "center" -> EmitCenter(b, i, s)
        [] OTHER -> EmitText(bs, i, s)

FirstSheet == [page |-> 1, line |-> CaptionEnd, notes |-> << >>, drawn |-> << >>, foot |-> {}]

LayInit == sheet = FirstSheet /\ placed = 0

EmitBlock(bs) ==
  /\ placed < Len(bs)
  /\ placed' = placed + 1
  /\ sheet' = Emitted(bs, placed + 1, sheet)

EmitEnd(bs) ==
  /\ placed = Len(bs)
  /\ placed' = placed + 1
  /\ sheet' = RenderNotes(sheet)
=============================================================================
