------------------------------ MODULE FormFill ------------------------------
(***************************************************************************)
(* pleading/form_fill.py: a court form from its descriptor, the front      *)
(* matter and the values given.  A value is drawn in its box as large as   *)
(* it fits; what cannot fit goes to continuation sheets (MC-025) behind    *)
(* the form, or beside it when only the ink is wanted.                     *)
(*                                                                         *)
(* A text is a sequence of paragraphs of words.  At size s a word is s     *)
(* wide and a line s high.                                                 *)
(***************************************************************************)
EXTENDS Naturals, FiniteSetsExt, SequencesExt

CONSTANTS
  FullSize,   \* DEFAULT_FONT_SIZE
  FloorSize,  \* DEFAULT_MIN_FONT_SIZE
  Sheet       \* width and height of the body of a continuation sheet

ASSUME SheetAssumption == {FullSize, FloorSize, Sheet[1], Sheet[2]} \subseteq Nat \ {0}

\* A field, as the descriptor and the blank give it: its box, what is printed
\* around that, and who signs in it.
FieldSpec ==
  [name : STRING, when : STRING, auto : STRING, default : Seq(Seq(STRING)), label : STRING,
   page : Nat, fit : STRING, multiline : BOOLEAN, width : Nat, height : Nat, font : Nat \ {0}, floor : Nat,
   group : STRING, attached : STRING, inline : STRING, at : Nat, forced : STRING,
   near : [label : BOOLEAN, cell : Seq(Nat), beside : BOOLEAN, rule : Seq(Nat), borders : SUBSET Nat, above : BOOLEAN],
   esign : [party : STRING, when : STRING, unless : STRING]]

VARIABLE
  form  \* `sc form fill`: where it is, what it fills, what is at its output's place

-----------------------------------------------------------------------------
(* resolve_values: a field's text, from the default up to the data given.  *)

Given(spec, meta, data) ==
  CASE spec.name \in DOMAIN data -> data[spec.name]
    [] spec.name \in DOMAIN meta.block \ DOMAIN data -> meta.block[spec.name]
    [] spec.name \notin DOMAIN meta.block \cup DOMAIN data /\ spec.auto \in DOMAIN meta.auto -> meta.auto[spec.auto]
    [] OTHER -> spec.default

\* A field that only some filers have is empty for the others.
Value(spec, meta, data) ==
  IF spec.when \in meta.keys \cup {""} THEN Given(spec, meta, data) ELSE << >>

\* An empty value is not drawn.
Texts(desc, meta, data) == [k \in DOMAIN desc.fields |-> Value(desc.fields[k], meta, data)]

Explicit(meta, data) == DOMAIN meta.block \cup DOMAIN data

Ticked(box, meta, data) ==
  \/ box \in DOMAIN data /\ data[box]
  \/ box \in DOMAIN meta.block \ DOMAIN data /\ meta.block[box]

\* A group in which nobody has set a box is left to the signer.
GroupOk(group, desc, meta, data) ==
  /\ group.boxes \cap Explicit(meta, data) # {} =>
       Cardinality({b \in group.boxes : Ticked(b, meta, data)}) = 1
  /\ \A k \in DOMAIN desc.fields :
       desc.fields[k].name = group.text /\ Ticked(group.other, meta, data) => Texts(desc, meta, data)[k] # << >>

-----------------------------------------------------------------------------
(* fit_text.                                                               *)

CanShrink(spec) == spec.fit \in {"shrink", "shrink_wrap", "overflow_attachment"}
CanWrap(spec)   == spec.fit \in {"wrap", "shrink_wrap", "overflow_attachment"} \/ spec.multiline

\* _wrap_to_width, one paragraph; an empty one is an empty line.
Wrapped(para, n) ==
  IF para = << >> THEN << << >> >>
  ELSE [i \in 1 .. (Len(para) + n - 1) \div n |-> SubSeq(para, (i - 1) * n + 1, Min({i * n, Len(para)}))]

Lines(text, spec, size) ==
  IF CanWrap(spec)
  THEN FlattenSeq([k \in DOMAIN text |-> Wrapped(text[k], Max({1, spec.width \div size}))])
  ELSE text

FitsAt(text, spec, size) ==
  LET drawn == Lines(text, spec, size)
  IN  Len(drawn) * size <= spec.height /\ \A k \in DOMAIN drawn : Len(drawn[k]) * size <= spec.width

\* What may go to an attachment is not made small first, and no floor is
\* higher than the box.
Floor(spec) ==
  IF spec.floor # 0 THEN spec.floor
  ELSE Max({1, Min({spec.height, IF spec.fit = "overflow_attachment" THEN FullSize ELSE FloorSize})})

Sizes(spec) == IF CanShrink(spec) THEN Min({Floor(spec), spec.font}) .. spec.font ELSE {spec.font}

Fit(text, spec) ==
  LET good == {s \in Sizes(spec) : FitsAt(text, spec, s)}
      size == IF good = {} THEN Min(Sizes(spec)) ELSE Max(good)
  IN  [size |-> size, lines |-> Lines(text, spec, size), fits |-> good # {}]

-----------------------------------------------------------------------------
(* fill: the texts, related boxes in one size.                             *)

\* No rectangle and no widget of the name in the blank: warned of.
Placed(desc, texts) == {k \in DOMAIN texts : texts[k] # << >> /\ desc.fields[k].page # 0}

\* _handle_overflow
Overflows(desc, texts) ==
  {k \in Placed(desc, texts) :
     desc.fields[k].fit = "overflow_attachment" /\ ~Fit(texts[k], desc.fields[k]).fits}

Shown(desc, texts, k) ==
  IF k \in Overflows(desc, texts) THEN << <<"see", desc.fields[k].label>> >> ELSE texts[k]

First(desc, texts, k) ==
  Fit(Shown(desc, texts, k),
      IF k \in Overflows(desc, texts) THEN [desc.fields[k] EXCEPT !.fit = "shrink"] ELSE desc.fields[k])

GroupSize(desc, texts, g) ==
  Min({First(desc, texts, k).size : k \in {k \in Placed(desc, texts) : desc.fields[k].group = g}})

Fitted(desc, texts, k) ==
  LET spec == desc.fields[k]
      size == GroupSize(desc, texts, spec.group)
  IN  IF spec.group = "none" \/ First(desc, texts, k).size <= size THEN First(desc, texts, k)
      ELSE Fit(Shown(desc, texts, k), [spec EXCEPT !.font = size, !.floor = size])

\* The boxes that say whether a value is attached; the last value decides.
Linked(desc, texts, box) ==
  LET tied == {k \in DOMAIN texts : texts[k] # << >> /\ box \in {desc.fields[k].attached, desc.fields[k].inline}}
  IN  /\ tied # {}
      /\ LET k == Max(tied)
         IN  IF k \in Overflows(desc, texts) THEN desc.fields[k].attached = box ELSE desc.fields[k].inline = box

Marked(desc, meta, data) ==
  {b \in DOMAIN desc.boxes :
     IF b \in Explicit(meta, data) THEN Ticked(b, meta, data) ELSE Linked(desc, Texts(desc, meta, data), b)}

-----------------------------------------------------------------------------
(* classify_layout, text_origins: where a single line goes.                *)

\* Vertical rules divide a rule into columns.
Stretch(spec) ==
  LET rule == spec.near.rule
  IN  << Max({rule[1]} \cup {c \in spec.near.borders : c <= spec.at}),
         Min({rule[2]} \cup {c \in spec.near.borders : c >= spec.at + spec.width}) >>

\* A label before it, a cell that has no text beside it, a rule under it; a
\* rule with a label above it and no caption below is the bottom of a box.
Layout(spec) ==
  LET near == spec.near
      cell == near.cell # << >> /\ ~near.beside
      rule == near.rule # << >>
  IN  CASE near.label -> "labeled"
        [] ~near.label /\ (cell \/ (rule /\ near.above)) -> "box"
        [] ~near.label /\ ~cell /\ rule /\ ~near.above -> "line"
        [] OTHER -> "none"

\* resolve_layout: a layout the descriptor forces has what the blank has of it.
Extent(spec) ==
  CASE spec.forced \notin {"", Layout(spec)} \/ Layout(spec) \in {"none", "labeled"} -> <<spec.at, spec.at + spec.width>>
    [] spec.forced \in {"", "box"} /\ Layout(spec) = "box" /\ spec.near.cell # << >> /\ ~spec.near.beside -> spec.near.cell
    [] OTHER -> Stretch(spec)

\* A block of lines, and a value beside its label, begin at the left.
Start(spec, fit) ==
  IF Len(fit.lines) > 1 \/ (IF spec.forced = "" THEN Layout(spec) ELSE spec.forced) = "labeled"
  THEN spec.at
  ELSE (Extent(spec)[1] + Extent(spec)[2] - Len(fit.lines[1]) * fit.size) \div 2

-----------------------------------------------------------------------------
(* fill: the pages.                                                        *)

\* parse_page_spec: ranges, in the order given, each page once.
SpecOk(ranges, n) == \A k \in DOMAIN ranges : ranges[k][1] >= 1 /\ ranges[k][1] <= ranges[k][2] /\ ranges[k][2] <= n

Once(s) == FoldLeft(LAMBDA seen, x : IF x \in ToSet(seen) THEN seen ELSE Append(seen, x), << >>, s)

PageSpec(ranges) ==
  Once(FlattenSeq([k \in DOMAIN ranges |-> [i \in 1 .. ranges[k][2] - ranges[k][1] + 1 |-> ranges[k][1] + i - 1]]))

\* What is asked for, or else what is filed, or else every page.
KeptPages(desc, ranges) ==
  IF ranges # << >> THEN PageSpec(ranges)
  ELSE IF desc.filed # << >> THEN PageSpec(desc.filed) ELSE [i \in 1 .. desc.pages |-> i]

\* No value is refused: a group of boxes, a text that must fit, a page.
Fillable(desc, meta, data, ranges) ==
  /\ SpecOk(ranges, desc.pages)
  /\ \A g \in desc.groups : GroupOk(g, desc, meta, data)
  /\ \A k \in Placed(desc, Texts(desc, meta, data)) :
       desc.fields[k].fit = "strict" => Fit(Texts(desc, meta, data)[k], desc.fields[k]).fits

Drawn(desc, texts, page) ==
  {[field |-> k, fit |-> Fitted(desc, texts, k)] : k \in {k \in Placed(desc, texts) : desc.fields[k].page = page}}

\* _strip_pushbutton_widgets, _bake_widgets: the viewer's own buttons go before
\* all other widgets are made part of the page; a label can be a button too.
Chrome(desc, w) == w.name \in desc.chrome \/ (w.button /\ w.viewer)

Baked(desc, page) == {w.name : w \in {w \in desc.widgets : w.page = page /\ ~Chrome(desc, w)}}

FormPages(desc, meta, data, ranges, ink) ==
  LET keep == KeptPages(desc, ranges)
  IN  [i \in DOMAIN keep |-> [of |-> keep[i], printed |-> IF ink THEN {} ELSE Baked(desc, keep[i]), label |-> "", number |-> 0, total |-> 0,
                              drawn |-> Drawn(desc, Texts(desc, meta, data), keep[i]),
                              ticked |-> {b \in Marked(desc, meta, data) : desc.boxes[b] = keep[i]}]]

PerSheet == Max({1, Sheet[2] \div FullSize})

\* _chunk_for_mc025, measured at the size in which the sheet is filled.
Sheets(text, label) ==
  LET broken == FlattenSeq([k \in DOMAIN text |-> Wrapped(text[k], Max({1, Sheet[1] \div FullSize}))])
      total  == (Len(broken) + PerSheet - 1) \div PerSheet
  IN  [i \in 1 .. total |->
         [of |-> 0, printed |-> {}, label |-> label, number |-> i, total |-> total, ticked |-> {},
          drawn |-> {[field |-> 0, fit |->
            Fit(SubSeq(broken, (i - 1) * PerSheet + 1, Min({i * PerSheet, Len(broken)})),
                [width |-> Sheet[1], height |-> Sheet[2], fit |-> "shrink_wrap", multiline |-> FALSE,
                 font |-> FullSize, floor |-> FloorSize])]}]]

\* _append_mc025_attachments, in the order of the descriptor.
Attachments(desc, meta, data) ==
  LET texts == Texts(desc, meta, data)
  IN  FlattenSeq([k \in DOMAIN texts |->
        IF k \in Overflows(desc, texts) THEN Sheets(texts[k], desc.fields[k].label) ELSE << >>])

\* Mutant: the pages of the blank.
PlaceOfBlank(keep, page) == page

PlaceOf(keep, page) == CHOOSE i \in DOMAIN keep : keep[i] = page

\* esign_fields, and the pages they are on in what is written.
SignFields(desc, meta, keep) ==
  {[field |-> k, page |-> PlaceOf(keep, desc.fields[k].page),
    role |-> IF desc.fields[k].esign.party \in ToSet(desc.parties)
             THEN CHOOSE n \in DOMAIN desc.parties : desc.parties[n] = desc.fields[k].esign.party ELSE 1] :
     k \in {k \in DOMAIN desc.fields :
              LET es == desc.fields[k].esign
              IN  /\ es.party # "" /\ desc.fields[k].page \in ToSet(keep)
                  /\ es.when # "" => es.when \in meta.keys
                  /\ es.unless \notin meta.keys \cup DOMAIN meta.block}}

-----------------------------------------------------------------------------
(* fill, standalone: three files, one after the other.                     *)

NoForm == [stage |-> "idle", desc |-> << >>, req |-> << >>,
           pages |-> << >>, beside |-> << >>, fields |-> {}]

FormInit == form = NoForm

FillForm(desc, req) ==
  /\ form.stage = "idle" /\ Fillable(desc, req.meta, req.data, req.pages)
  /\ form' = [form EXCEPT !.stage = "attach", !.desc = desc, !.req = req,
                !.pages = FormPages(desc, req.meta, req.data, req.pages, req.ink)]

\* With the ink only, the sheets are a file of their own, and the file goes
\* when there are none.
AttachSheets ==
  /\ form.stage = "attach"
  /\ LET sheets == Attachments(form.desc, form.req.meta, form.req.data)
     IN  form' = IF form.req.ink THEN [form EXCEPT !.stage = "fields", !.beside = sheets]
                 ELSE [form EXCEPT !.stage = "fields", !.pages = @ \o sheets]

\* write_esign_sidecar; ink is signed by hand.
WriteFormFields ==
  /\ form.stage = "fields"
  /\ form' = [form EXCEPT !.stage = "done",
                !.fields = IF form.req.ink THEN {}
                           ELSE SignFields(form.desc, form.req.meta, KeptPages(form.desc, form.req.pages))]

\* The fill is over, or is killed.  Of what it wrote, only the sheets beside
\* an ink fill outlive an ordinary one.
EndForm == form.stage # "idle" /\ form' = [NoForm EXCEPT !.beside = form.beside]

-----------------------------------------------------------------------------
(* Properties.                                                             *)

PageWords(page) == UNION {UNION {ToSet(d.fit.lines[n]) : n \in DOMAIN d.fit.lines} : d \in page.drawn}

\* The words of the sheets with one label, in their order.
SheetWords(pages, label) ==
  FlattenSeq([i \in DOMAIN pages |->
    IF pages[i].label = label /\ pages[i].of = 0
    THEN FlattenSeq((CHOOSE d \in pages[i].drawn : TRUE).fit.lines) ELSE << >>])

\* On the field's side of every rule that divides its row.
InColumn(spec, fit) ==
  LET x == Start(spec, fit)
  IN  \A c \in spec.near.borders :
        /\ c <= spec.at => c <= x
        /\ c >= spec.at + spec.width => x + Len(fit.lines[1]) * fit.size <= c

FormTexts == Texts(form.desc, form.req.meta, form.req.data)
FormKeep  == KeptPages(form.desc, form.req.pages)

\* Where the sheets are.
FormSheets == IF form.req.ink THEN form.beside ELSE form.pages

InBox(k) ==
  \E i \in DOMAIN FormKeep : \E d \in form.pages[i].drawn :
    /\ d.field = k /\ FlattenSeq(d.fit.lines) = FlattenSeq(FormTexts[k]) /\ d.fit.fits
    /\ form.pages[i].of = form.desc.fields[k].page
    /\ Len(d.fit.lines) = 1 => InColumn(form.desc.fields[k], d.fit)

OnSheets(k) ==
  LET label == form.desc.fields[k].label
  IN  label # "" /\ SheetWords(FormSheets, label) = FlattenSeq(FormTexts[k])

\* The boxes of a value that nobody else has set.
OwnBoxes(k) ==
  {form.desc.fields[k].attached, form.desc.fields[k].inline} \ ({""} \cup Explicit(form.req.meta, form.req.data))

TickedBoxes == UNION {form.pages[i].ticked : i \in DOMAIN FormKeep}

\* Of a value that does not fit, fill warns.
ValueKept(k) ==
  /\ InBox(k) \/ OnSheets(k)
  /\ \A b \in OwnBoxes(k) : form.desc.boxes[b] \in ToSet(FormKeep) =>
       (b \in TickedBoxes <=> IF b = form.desc.fields[k].attached THEN OnSheets(k) ELSE InBox(k))

ValuesKept ==
  \A k \in Placed(form.desc, FormTexts) :
    form.desc.fields[k].page \in ToSet(FormKeep) /\ First(form.desc, FormTexts, k).fits => ValueKept(k)

SheetsUncut == \A i \in DOMAIN FormSheets : \A d \in FormSheets[i].drawn : FormSheets[i].of = 0 => d.fit.fits

GroupsEven ==
  \A i, j \in DOMAIN FormKeep : \A d \in form.pages[i].drawn, e \in form.pages[j].drawn :
    LET group == form.desc.fields[d.field].group
    IN  group = form.desc.fields[e.field].group /\ group # "none" => d.fit.size = e.fit.size

SignsPlaced ==
  /\ \A f \in form.fields : form.pages[f.page].of = form.desc.fields[f.field].page
  /\ form.req.ink => form.fields = {}

OnlyPrinted ==
  \A w \in form.desc.widgets : w.page \in ToSet(FormKeep) =>
    (w.name \in form.pages[PlaceOf(FormKeep, w.page)].printed <=>
       ~form.req.ink /\ w.name \notin form.desc.chrome /\ ~w.viewer)

\* "What you put in is what the court sees" (specs/pleading/forms/README.md,
\* promises 1 and 3): each value that nothing was warned of is whole in its
\* box, on its page and within its column, or else whole on the sheets that
\* the box names, of which none is cut; the boxes that say which are marked
\* so, related values have one size, and the places to sign are on the pages
\* that have their fields (fill, _append_mc025_attachments).
FormKept == form.stage = "done" => ValuesKept /\ SheetsUncut /\ GroupsEven /\ SignsPlaced /\ OnlyPrinted
=============================================================================
