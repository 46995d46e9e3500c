----------------------------- MODULE Redaction -----------------------------
(***************************************************************************)
(* pleading/redact_pdf.py applies the operations of a configuration to a   *)
(* PDF, one after the other, and writes the result only if every one of    *)
(* them had an effect; pleading/verify_redactions.py then looks for what   *)
(* should be gone; pleading/check_redaction_schedule.py compares the       *)
(* operations with the schedule that authorises them.                      *)
(*                                                                         *)
(* A page is a grid: lines of two cells, a phrase in each.  A phrase is    *)
(* one word here, and covering any of a cell covers it.  What covers it is *)
(* a box with a label printed at its top, text like any other to whoever   *)
(* searches the page later.  Off the page a PDF carries strings: a link's  *)
(* address, a comment, alternative text, the document's information, and   *)
(* streams (XMP, attachments).                                             *)
(***************************************************************************)
EXTENDS Naturals, FiniteSetsExt, SequencesExt

CONSTANTS
  Words,     \* phrases
  Labels,    \* texts an operation draws on what it covers
  Says,      \* the phrases a search finds in a label
  Breaks,    \* the phrases that are not there any more where a label's text is removed
  Fold,      \* _LABEL_FOLD: a label as the font can draw it
  Bracketed, \* texts in capitals between brackets
  Long,      \* those of at least _MIN_SCRUB_LEN characters
  Gone,      \* what a covered cell holds that has no label, or one of no interest
  Documents, \* PDFs: [pages, carriers]
  Configs,   \* sequences of operations
  TermLists, \* what must not survive: sets of [word, regex]
  Schedules  \* sequences of item identifiers

VARIABLES
  source,  \* the PDF on disk
  config,
  pdf,     \* the PDF as it is in memory
  todo,    \* operations not applied yet, with their resolved pages
  noted,   \* _REDACTED_TEXT: strings that were covered
  failures,
  out,     \* what is written, << >> for nothing
  pc

redactVars == <<source, config, pdf, todo, noted, failures, out, pc>>

Columns == {1, 2}

\* A page; what is carried off the pages; an operation as a configuration has it,
\* with the fields of all types, before the anchors are resolved.
Phrases       == Words \cup Labels
PageRecs    == [cells : Seq([Columns -> Phrases \cup {Gone}]), layer : {"text", "ocr", "scan"},
                rules : SUBSET Nat, edge : SUBSET Nat, ruled : BOOLEAN, joined : BOOLEAN, labelled : BOOLEAN]
CarrierRecs == [kind : {"link", "comment", "alt", "info", "orphan", "stream"}, val : Seq(Words), wide : BOOLEAN,
                page : Nat, cell : Nat \X Columns]
OpRecs      == [type : STRING, find : Words, end : Words, first : Nat, last : Nat, count : Nat,
                scope : {"row", "cell"}, box : SUBSET (Nat \X Columns), anchor : Words \cup {Gone},
                cap : Nat, optional : BOOLEAN, item : STRING \cup {Gone}, section : BOOLEAN,
                label : Labels \cup {Gone}, resolved : {0}]

\* A page nothing was drawn on yet.
SourcePages == {page \in PageRecs : \A i \in DOMAIN page.cells : page.cells[i] \in [Columns -> Words \cup {Gone}]}

ASSUME RedactionAssumption ==
  /\ Gone \notin Phrases /\ Words \cap Labels = {} /\ Long \subseteq Phrases /\ Bracketed \subseteq Phrases
  /\ Says \in [Labels -> SUBSET Words] /\ Breaks \in [Labels -> SUBSET Words] /\ Fold \in [Labels -> Labels]
  /\ Documents \subseteq [pages : Seq(SourcePages), carriers : SUBSET CarrierRecs]
  /\ Configs \subseteq Seq(OpRecs) /\ Schedules \subseteq Seq(STRING)
  /\ TermLists \subseteq SUBSET [word : Words, regex : BOOLEAN]

LinesOf(page) == DOMAIN page.cells
CellsOf(page) == LinesOf(page) \X Columns
Full(page, lines) == (lines \cap LinesOf(page)) \X Columns

\* A scan without a text layer shows words that no search finds.
Searchable(page) == page.layer # "scan"
IsText(page, x)  == x \in Labels \/ (x \in Words /\ Searchable(page))

\* search_for finds a phrase where it is printed, and in a label that names it.
Reads(page, x, word) == IsText(page, x) /\ (x = word \/ (x \in Labels /\ word \in Says[x]))
Hits(page, word)     == {c \in CellsOf(page) : Reads(page, page.cells[c[1]][c[2]], word)}

Before(c, d) == c[1] < d[1] \/ (c[1] = d[1] /\ c[2] < d[2])

PagesWith(pages, word) == {i \in DOMAIN pages : Hits(pages[i], word) # {}}
FindPage(pages, word)  == IF PagesWith(pages, word) = {} THEN 0 ELSE Min(PagesWith(pages, word))

-----------------------------------------------------------------------------
(* Covering.                                                               *)

Topmost(c, box) == c \in box /\ \A d \in box \ {c} : Before(c, d)

\* A box takes what is under it away and has its label printed at its top.
Cover(page, boxes, label) ==
  [page EXCEPT !.labelled = TRUE,
     !.cells = [i \in LinesOf(page) |-> [k \in Columns |->
        IF \E b \in boxes : Topmost(<<i, k>>, b) THEN label
        ELSE IF <<i, k>> \in UNION boxes THEN Gone ELSE page.cells[i][k]]]]

Enough(s) == Len(s) >= 2 \/ (Len(s) = 1 /\ s[1] \in Long)

\* get_textbox gives the text under a box line by line; what was in two
\* cells of a line is one line of text, or two, as the PDF was made.
Lines(page, box, i) ==
  LET under == {k \in Columns : <<i, k>> \in box /\ IsText(page, page.cells[i][k])}
  IN  IF page.joined /\ under = Columns THEN {page.cells[i]} ELSE {<<page.cells[i][k]>> : k \in under}

TextUnder(page, box) == {s \in UNION {Lines(page, box, i) : i \in LinesOf(page)} : Enough(s)}

Touched(d, n, box) == {c \in d.carriers : c.kind = "link" /\ c.page = n /\ c.cell \in box}

\* Mutant: after the redaction is applied.
NoteLate(d, n, box) ==
  TextUnder(Cover(d.pages[n], {box}, Gone), box) \cup {c.val : c \in {t \in Touched(d, n, box) : Enough(t.val)}}

\* _note_redaction, before the redaction is applied: text and link addresses.
Note(d, n, box) ==
  TextUnder(d.pages[n], box) \cup {c.val : c \in {t \in Touched(d, n, box) : Enough(t.val)}}

\* What an operation covers, page by page, and the label; its count of effects.
Put(boxes, label) == [boxes |-> boxes, label |-> label]

Effect(d, puts, count) ==
  [pdf |-> [pages |-> [n \in DOMAIN d.pages |->
              IF n \in DOMAIN puts THEN Cover(d.pages[n], puts[n].boxes, puts[n].label) ELSE d.pages[n]],
            carriers |-> d.carriers \ UNION {Touched(d, n, UNION puts[n].boxes) : n \in DOMAIN puts}],
   noted |-> UNION {UNION {Note(d, n, b) : b \in puts[n].boxes} : n \in DOMAIN puts},
   count |-> count]

NoEffect(d) == [pdf |-> d, noted |-> {}, count |-> 0]

-----------------------------------------------------------------------------
(* The operations.                                                         *)

\* A label is folded to what its font can draw; the text of a sealed page is not.
Seals == {"seal_pages", "seal_page_range"}

Drawn(op) == IF op.label = Gone \/ op.type \in Seals THEN op.label ELSE Fold[op.label]

\* A sealed page keeps its half inch of margin.
Inside(page) == Full(page, LinesOf(page) \ page.edge)

SealPageRange(d, op) ==
  IF op.first < 1 \/ op.last < op.first \/ op.last > Len(d.pages) THEN NoEffect(d)
  ELSE Effect(d, [n \in op.first .. op.last |-> Put({Inside(d.pages[n])}, Drawn(op))], op.last - op.first + 1)

\* seal_pages counts the pages it was asked for, those past the end as well.
SealPages(d, op) ==
  LET start == FindPage(d.pages, op.find)
      stop  == Min({start + op.count - 1, Len(d.pages)})
  IN  IF start = 0 THEN NoEffect(d)
      ELSE Effect(d, [n \in start .. stop |-> Put({Inside(d.pages[n])}, Drawn(op))], op.count)

\* The lines between the rules around a line; with no rule on one of its
\* sides, as far as one line's height and a fifth reaches.
Band(page, i) ==
  LET above == {r \in page.rules : r <= i}  below == {r \in page.rules : r > i}
  IN  IF above # {} /\ below # {} THEN Max(above) .. Min(below) - 1 ELSE {i - 1, i, i + 1}

RowBox(page, op, hit) ==
  IF op.scope = "cell" /\ page.ruled
  THEN {c \in Full(page, Band(page, hit[1])) : c[2] = hit[2]}
  ELSE Full(page, Band(page, hit[1]))

RedactRow(d, op) ==
  LET n == FindPage(d.pages, op.find)
  IN  IF n = 0 THEN NoEffect(d)
      ELSE LET hits == Hits(d.pages[n], op.find)
           IN  Effect(d, [p \in {n} |-> Put({RowBox(d.pages[n], op, h) : h \in hits}, Drawn(op))],
                      Cardinality(hits))

RedactRegion(d, op) ==
  IF op.first < 1 \/ op.first > Len(d.pages) \/ op.box = {} THEN NoEffect(d)
  ELSE Effect(d, [p \in {op.first} |-> Put({op.box \cap CellsOf(d.pages[op.first])}, Drawn(op))], 1)

LinesOfHits(page, word) == {c[1] : c \in Hits(page, word)}

\* From the first place of the start to the last place of the end: on the
\* page, or on the next one; to the bottom of the page when there is no end.
\* An end above the start makes an inverted box, which covers what is
\* between them, or nothing.
RedactBlock(d, op, turned) ==
  LET n     == FindPage(d.pages, op.find)
      page  == d.pages[n]
      next  == d.pages[n + 1]
      first == Min(LinesOfHits(page, op.find))
      body(p) == LinesOf(p) \ p.edge
      block(lines) == Put({Full(page, lines)}, Drawn(op))
  IN  IF n = 0 THEN NoEffect(d)
      ELSE IF Hits(page, op.end) # {}
      THEN LET last == Max(LinesOfHits(page, op.end))
           IN  Effect(d, [p \in {n} |->
                 block(IF last >= first THEN first .. last
                       ELSE IF turned THEN last + 1 .. first - 1 ELSE {})], 1)
      ELSE IF n < Len(d.pages) /\ Hits(next, op.end) # {}
      THEN Effect(d, [p \in {n, n + 1} |->
             IF p = n THEN block({i \in body(page) : i >= first})
             ELSE Put({Full(next, {i \in body(next) : i <= Max(LinesOfHits(next, op.end))})}, Gone)], 1)
      ELSE Effect(d, [p \in {n} |-> block({i \in body(page) : i >= first})], 1)

\* The pages of a clause: the anchor's, which was resolved before the first
\* operation; all of them when there is no anchor, or when it was not found.
PagesOf(d, op) == IF op.anchor = Gone \/ op.resolved = 0 THEN DOMAIN d.pages ELSE {op.resolved}

\* max_hits is counted on each page anew.
Capped(hits, cap) == {h \in hits : cap = 0 \/ Cardinality({g \in hits : Before(g, h)}) < cap}

Each(cells) == {{c} : c \in cells}

\* Mutant: one page is enough.
RedactClauseOnce(d, op) ==
  LET pages == {m \in PagesOf(d, op) : Hits(d.pages[m], op.find) # {}}
  IN  IF pages = {} THEN NoEffect(d)
      ELSE Effect(d, [n \in {Min(pages)} |->
                        Put(Each(Capped(Hits(d.pages[n], op.find), op.cap)), Drawn(op))], 1)

RedactClause(d, op) ==
  LET hits == [n \in {m \in PagesOf(d, op) : Hits(d.pages[m], op.find) # {}} |->
                 Capped(Hits(d.pages[n], op.find), op.cap)]
  IN  Effect(d, [n \in DOMAIN hits |-> Put(Each(hits[n]), Drawn(op))],
             SumFunctionOnSet([n \in DOMAIN hits |-> Cardinality(hits[n])], DOMAIN hits))

\* The phrase is covered, as by redact_clause; what follows it is not.
RedactSentences(d, op) == RedactClause(d, op)

Handled(d, op, turned) ==
  CASE op.type = "seal_pages"      -> SealPages(d, op)
    [] op.type = "seal_page_range" -> SealPageRange(d, op)
    [] op.type = "redact_row"      -> RedactRow(d, op)
    [] op.type = "redact_region"   -> RedactRegion(d, op)
    [] op.type = "redact_block"    -> RedactBlock(d, op, turned)
    [] op.type = "redact_clause"   -> RedactClause(d, op)
    [] op.type = "redact_sentences" -> RedactSentences(d, op)
    [] OTHER -> NoEffect(d)

Types == {"seal_pages", "seal_page_range", "redact_row", "redact_region", "redact_block",
          "redact_clause", "redact_sentences"}

-----------------------------------------------------------------------------
(* run.                                                                    *)

\* An entry all of whose keys begin with an underscore is a comment.
IsComment(op) == op.type = "comment"

Resolved(pages, ops) ==
  [i \in DOMAIN ops |-> [ops[i] EXCEPT !.resolved =
     IF ops[i].anchor = Gone THEN 0 ELSE FindPage(pages, ops[i].anchor)]]

RedactInit ==
  /\ source \in Documents /\ config \in Configs
  /\ pdf = source /\ todo = Resolved(source.pages, config)
  /\ noted = {} /\ failures = 0 /\ out = << >> /\ pc = "apply"

\* An operation without effect is a failure, unless it is a declared
\* backstop; one of an unknown type always is.
Operate ==
  /\ pc = "apply" /\ todo # << >>
  /\ LET op == Head(todo)
     IN  \E turned \in BOOLEAN :
           LET r == Handled(pdf, op, turned)
           IN  /\ pdf' = r.pdf /\ noted' = noted \cup r.noted
               /\ failures' = IF r.count = 0 /\ ~IsComment(op) /\ (op.type \in Types => ~op.optional)
                              THEN failures + 1 ELSE failures
  /\ todo' = Tail(todo)
  /\ UNCHANGED <<source, config, out, pc>>

\* Off-page strings in which a covered one occurs are emptied, but not those
\* of a stream; a link no page lists any more is blanked whatever it says.
Within(t, val) == \E i \in 0 .. Len(val) - Len(t) : \A k \in DOMAIN t : val[i + k] = t[k]
Leaks(val)     == \E t \in noted : Within(t, val)

Scrubbed(carriers) == {c \in carriers : c.kind # "orphan" /\ (Leaks(c.val) => c.kind = "stream")}

Finish ==
  /\ pc = "apply" /\ todo = << >>
  /\ IF failures > 0
     THEN pc' = "refused" /\ UNCHANGED <<pdf, out>>
     ELSE /\ pdf' = [pdf EXCEPT !.carriers = Scrubbed(@)]
          /\ out' = <<pdf'>> /\ pc' = "written"
  /\ UNCHANGED <<source, config, todo, noted, failures>>

RedactNext == Operate \/ Finish

RedactSpec == RedactInit /\ [][RedactNext]_redactVars

-----------------------------------------------------------------------------
(* verify_redactions.py, given the configuration.                          *)

\* A page with a picture and next to no text, which a label ends.
ImageOnly(page) == page.layer = "scan" /\ ~page.labelled

\* Mutant: the text of sealed pages (replacement_text) is forgotten.
ConfigLabelsSlip == {config[i].label : i \in {k \in DOMAIN config : config[k].type \notin Seals}}

ConfigLabels == {config[i].label : i \in DOMAIN config}

\* strip_labels removes the labels, whoever drew them, and all that is in
\* capitals between brackets, before the text is searched.
Kept(text) ==
  text \notin ConfigLabels \cup Bracketed /\ \A l \in ConfigLabels \ {Gone} : text \notin Breaks[l]

\* A page without text is not searched.
Shows(page, word) == ~ImageOnly(page) /\ \E c \in Hits(page, word) : Kept(page.cells[c[1]][c[2]])

TextLeaks(d, term) == \E n \in DOMAIN d.pages : Shows(d.pages[n], term.word)

\* Comments and the document's information are read through the library and
\* stripped.  All is looked for in the bytes, where a string in another encoding
\* than UTF-8 is not seen and a regular expression is not tried.
CarrierLeaks(d, term) ==
  \E c \in d.carriers : term.word \in ToSet(c.val)
    /\ \/ c.kind \in {"comment", "info"} /\ Kept(term.word)
       \/ ~c.wide /\ ~term.regex

Verified(d, list) ==
  /\ \A n \in DOMAIN d.pages : ~ImageOnly(d.pages[n])
  /\ \A t \in list : ~TextLeaks(d, t) /\ ~CarrierLeaks(d, t)

(* check_redaction_schedule.py.                                            *)

Dupes(schedule) ==
  {i \in ToSet(schedule) : Cardinality({k \in DOMAIN schedule : schedule[k] = i}) > 1}

\* An entry with a _section key is a heading to the check; run applies it
\* all the same when it has other keys.
Checked            == {i \in DOMAIN config : ~config[i].section}
Untagged           == {i \in Checked : config[i].item = Gone}
Cited              == {config[i].item : i \in Checked \ Untagged}
Approved(schedule) == Untagged = {} /\ Cited \subseteq ToSet(schedule) /\ Dupes(schedule) = {}

-----------------------------------------------------------------------------
CellAt(page, c) == page.cells[c[1]][c[2]]

\* A clause of the whole document, without a limit.
Everywhere(i) ==
  /\ config[i].type \in {"redact_clause", "redact_sentences"} /\ config[i].cap = 0
  /\ PagesOf(source, Resolved(source.pages, config)[i]) = DOMAIN source.pages

DrawnLabels == {Drawn(config[i]) : i \in DOMAIN config} \ {Gone}

\* When an operation names a phrase, the whole document and no limit, it is
\* on no page of what is written; what a search for it still finds is a
\* label that one of the operations drew.
NamedIsGone ==
  pc = "written" =>
    \A i \in DOMAIN config : Everywhere(i) =>
      \A n \in DOMAIN out[1].pages : \A c \in Hits(out[1].pages[n], config[i].find) :
        CellAt(out[1].pages[n], c) \in DrawnLabels

\* The labels this run draws can be drawn as they are, or are in brackets.
PlainLabels == \A i \in DOMAIN config : Drawn(config[i]) \in {config[i].label} \cup Bracketed

\* On a page that can be searched, the verification finds a term in what was
\* written exactly when the source showed it there and no operation covered
\* it: whatever the labels say, none is reported, and none hides a term but
\* one that a label is a part of, or that stands in capitals between brackets.
VerdictIsExact ==
  pc = "written" /\ PlainLabels =>
    \A list \in TermLists : \A t \in list : Kept(t.word) =>
      \A n \in DOMAIN source.pages : Searchable(source.pages[n]) =>
        (Shows(out[1].pages[n], t.word)
          <=> \E c \in Hits(source.pages[n], t.word) : CellAt(out[1].pages[n], c) = t.word)

\* What get_textbox gave as a line of its own: the two phrases of a line are
\* two lines of text, or the other one is still there.
Alone(n, c) ==
  ~source.pages[n].joined \/ CellAt(out[1].pages[n], <<c[1], 3 - c[2]>>) \in Words

\* A phrase that some operation covered, long enough to look for, is in no
\* string off the pages: neither in a link nor a comment, whichever operation
\* came first and whatever was printed over it since.  Streams are not scrubbed.
OffPageGone ==
  pc = "written" =>
    \A n \in DOMAIN source.pages : Searchable(source.pages[n]) =>
      \A c \in CellsOf(source.pages[n]) :
        LET word == CellAt(source.pages[n], c)
        IN  word \in Long /\ CellAt(out[1].pages[n], c) # word /\ Alone(n, c)
              => \A v \in out[1].carriers : v.kind # "stream" => word \notin ToSet(v.val)

-----------------------------------------------------------------------------
(* What is promised and does not hold.                                     *)

\* verify_redactions.py:36: 0 only when nothing in the term list survives
\* anywhere.  There are pages it does not search, strings it does not read,
\* and texts it removes before it looks.
Survives(page, word) == \E c \in CellsOf(page) : CellAt(page, c) = word

PassedIsGone ==
  pc = "written" => \A list \in TermLists : Verified(out[1], list) =>
    \A t \in list : /\ \A n \in DOMAIN out[1].pages : ~Survives(out[1].pages[n], t.word)
                    /\ \A c \in out[1].carriers : t.word \notin ToSet(c.val)

\* verify_redactions.py:15-18: a label is not reported as a leak.
LabelsPass ==
  pc = "written" => \A list \in TermLists : \A t \in list : \A n \in DOMAIN out[1].pages :
    Shows(out[1].pages[n], t.word) => Survives(out[1].pages[n], t.word)

\* check_redaction_schedule.py:17: every operation carries an item of the
\* schedule.  An entry with a _section key and a type is applied unseen.
AppliedIsListed ==
  \A schedule \in Schedules : Approved(schedule) =>
    \A i \in DOMAIN config : ~IsComment(config[i]) => config[i].item \in ToSet(schedule)

\* What the header says of redact_sentences: it covers from the phrase to
\* the end of the paragraph; here, to the end of the line at least.
SentencesCovered ==
  pc = "written" =>
    \A i \in DOMAIN config : config[i].type = "redact_sentences" /\ config[i].cap = 0 =>
      \A n \in PagesOf(source, Resolved(source.pages, config)[i]) :
        \A c \in Hits(source.pages[n], config[i].find) : c[2] = 1 =>
          out[1].pages[n].cells[c[1]][2] \notin Words
=============================================================================
