----------------------------- MODULE SignSlots -----------------------------
(***************************************************************************)
(* signing/slots.py: which blanks of a built PDF are whose.  The printed   *)
(* page is read line by line: a signature rule belongs to the name below   *)
(* it, and a date blank to the rule that follows it.  The pages are those  *)
(* that md_pleading prints: signature blocks, never split over two pages,  *)
(* and text between them.  Left out: \sigrow blocks, whose two rules stand *)
(* side by side (md_pleading.py:4472), and Judicial Council forms.         *)
(*                                                                         *)
(* A line is what discover can tell of it (kind, number of blanks, what it *)
(* says), and the truth that it cannot see: for each blank the role it     *)
(* wants, and whose block it is in.  Names are names after normalise_name: *)
(* upper case, without punctuation.                                        *)
(***************************************************************************)
EXTENDS Integers, Sequences, FiniteSets, FiniteSetsExt

CONSTANTS
  Names,    \* names printed in signature blocks
  Titles,   \* a judicial officer's: what _JUDICIAL_TITLE_RE matches
  Nobody    \* the empty belongs_to

-----------------------------------------------------------------------------
\* What is printed.

Line(kind, wants, words, of) == [kind |-> kind, wants |-> wants, words |-> words, of |-> of]

Text(words)     == Line("other", << >>, words, Nobody)
Rule(of)        == Line("rule", <<"mark">>, "rule", of)
Dated(wants, of) == Line(IF wants = << >> THEN "other" ELSE "dated", wants, "prose", of)

\* How a document is built: with blanks, --final with a sign_date, or --sign,
\* which writes the date and a name in script in place of the rule.
Builds == {"plain", "dated", "signed"}

SignatureLine(of, built) == IF built = "signed" THEN Text("prose") ELSE Rule(of)

Blank(wants, built) == IF built = "plain" THEN wants ELSE << >>

\* A signature block: its style, the name under its rule, and for whereof how
\* many of its blanks its first line holds.  The role line is a text line.
Emit(b, built) ==
  CASE b.style = "dated" ->
         << Dated(Blank(<<"date">>, built), b.name), SignatureLine(b.name, built),
            Text(b.name), Text("prose") >>
    [] b.style = "decl" ->
         << Line("executed", Blank(<<"ordinal", "month">>, built), "prose", b.name),
            SignatureLine(b.name, built), Text(b.name) >>
    [] b.style = "whereof" ->
         LET wants == <<"ordinal", "month", "year", "place">> IN
         << Line("whereof", SubSeq(wants, 1, b.cut), "prose", b.name),
            Line("other", SubSeq(wants, b.cut + 1, 4), "prose", b.name),
            SignatureLine(b.name, built), Text(b.name) >>
    [] b.style = "letter" ->
         << Text("prose"), SignatureLine(b.name, built), Text(b.name) >>
    [] b.style = "judge" ->
         << Dated(<<"date">>, b.name), SignatureLine(b.name, built), Text(b.name) >>
    [] b.style = "prose" -> << Text("prose") >>
    \* prose that recites "IN WITNESS WHEREOF" and has no blanks
    [] b.style = "recital" -> << Line("whereof", << >>, "prose", Nobody) >>

Styles == {"dated", "decl", "whereof", "letter", "judge", "prose", "recital"}

\* A judge's block names a judicial officer, the others a party.
SignBlocks == {b \in [style : Styles, name : Names \cup Titles, cut : 0 .. 4] :
                 b.name \in Titles <=> b.style = "judge"}

\* A page holds whole blocks; starts says where each of them begins.
Printed(lines, built) ==
  /\ lines \in Seq({lines[i] : i \in DOMAIN lines})
  /\ \E starts \in SUBSET DOMAIN lines :
       /\ lines # << >> => 1 \in starts
       /\ \A s \in starts : \E b \in SignBlocks :
            LET text == Emit(b, built) IN
            /\ s + Len(text) \in starts \cup {Len(lines) + 1}
            /\ \A j \in DOMAIN text : lines[s + j - 1] = text[j]

-----------------------------------------------------------------------------
\* discover, on one page.

IsRule(lines, i) == lines[i].kind = "rule"

\* _CLAUSES: the roles of a clause's blanks, in printed order.
Clause(line) ==
  CASE line.kind = "executed" -> <<"ordinal", "month">>
    [] line.kind = "whereof"  -> <<"ordinal", "month", "year", "place">>
    [] OTHER -> << >>

\* The blanks of lines i to j - 1, and how many of them come before one.
Blanks(lines, i, j) == UNION {{k} \X DOMAIN lines[k].wants : k \in i .. j - 1}

Rank(blanks, b) ==
  Cardinality({c \in blanks : c[1] < b[1] \/ (c[1] = b[1] /\ c[2] <= b[2])})

\* Slip: a clause is read on its own line only.
StopSlip(lines, i) == i + 1

\* Where a clause's blanks end: all found, or a signature rule.
Stop(lines, i) ==
  Min({j \in i + 1 .. Len(lines) + 1 :
         \/ j = Len(lines) + 1
         \/ IsRule(lines, j)
         \/ Cardinality(Blanks(lines, i, j)) >= Len(Clause(lines[i]))})

\* The lines the scan stands at from line i on; those a clause took in are
\* passed over.
Scan(lines) ==
  LET From[i \in 1 .. Len(lines) + 1] ==
        IF i > Len(lines) THEN {}
        ELSE {i} \cup From[IF Clause(lines[i]) # << >> THEN Stop(lines, i) ELSE i + 1]
  IN  From

Visited(lines) == Scan(lines)[1]

\* _owner_below: the first text within three lines, unless it has blanks.
OwnerBelow(lines, r) ==
  LET below == {k \in r + 1 .. Min({r + 3, Len(lines)}) : ~IsRule(lines, k)} IN
  IF below = {} \/ lines[Min(below)].wants # << >> THEN Nobody ELSE lines[Min(below)].words

\* A date blank is whose the next rule of the page is.
Owner(lines, i) ==
  LET rules == {r \in i .. Len(lines) : IsRule(lines, r)} IN
  IF rules = {} THEN Nobody ELSE OwnerBelow(lines, Min(rules))

Slot(i, pos, role, owner) ==
  [line |-> i, pos |-> pos, role |-> role, owner |-> owner, forSigner |-> owner \notin Titles]

PageSlots(lines) ==
  UNION {
    CASE IsRule(lines, i) -> {Slot(i, 1, "mark", Owner(lines, i))}
      [] Clause(lines[i]) # << >> ->
           LET blanks == Blanks(lines, i, Stop(lines, i)) IN
           {Slot(b[1], b[2], Clause(lines[i])[Rank(blanks, b)], Owner(lines, i)) :
              b \in {c \in blanks : Rank(blanks, c) <= Len(Clause(lines[i]))}}
      [] lines[i].kind = "dated" -> {Slot(i, 1, "date", Owner(lines, i))}
      [] OTHER -> {}
    : i \in Visited(lines)}

Discover(pages) ==
  UNION {{[page |-> p, slot |-> s] : s \in PageSlots(pages[p])} : p \in DOMAIN pages}

-----------------------------------------------------------------------------
\* Slip: a judge's block is one more block that nobody is named in.
MineSlip(slots, wanted) ==
  {s \in slots : s.slot.owner \in wanted
                   \/ ~\E t \in slots : t.slot.owner \in Names}

\* LocalSigner._partition: the signer's own, exactly; all of them where the
\* document names nobody; a judicial officer's never.
Mine(slots, wanted) ==
  {s \in slots : /\ s.slot.forSigner
                 /\ \/ s.slot.owner \in wanted
                    \/ s.slot.owner = Nobody /\ \A t \in slots : t.slot.owner = Nobody}
=============================================================================
