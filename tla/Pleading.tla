------------------------------ MODULE Pleading ------------------------------
(***************************************************************************)
(* pleading/md_pleading.py, main: one source is built, and built again in  *)
(* another variant or mode, to the same output.  What a build writes, in   *)
(* its order: the packet; the cover sheet's cache and the packet with the  *)
(* cover sheet; the notices; the DRAFT banner over all of them; the fields *)
(* for electronic signatures; the log of the redactions.  A build can stop *)
(* between any two, and the author can edit the source between two builds. *)
(***************************************************************************)
EXTENDS Pages, Markup, FormFill

CONSTANTS
  Sources,    \* each a record of what a Markdown file declares
  Secrets,    \* words that only the sealed variant may show
  Stray,      \* a field that a notice's form does not have
  CoverForm,  \* the descriptor of the cover sheet's form
  FormDescs,  \* descriptors that are filled by themselves
  FormAsks,   \* and what they are filled with
  MaxBuilds

\* Under a signature there is a line of the role, or none; a certificate is
\* higher than what must follow a heading.
MacroIs(macro, n) ==
  /\ macro \in SignKinds \cup {"center", "pagebreak"}
  /\ macro = "sign" => n \in {0, 1}
  /\ macro = "seal" => n > FollowingLines

\* A body is lines of words; a macro that stands as a block is one of those
\* that parse_markdown_blocks knows.
ASSUME SourceAssumption ==
  \A s \in Sources :
    /\ s.body \in Seq([k : STRING, words : Seq(STRING), n : Nat, indent : BOOLEAN, macro : STRING])
    /\ \A i \in DOMAIN s.body : s.body[i].k = "macro" => MacroIs(s.body[i].macro, s.body[i].n)
    /\ s.exhibits \in Seq([name : STRING, disclosure : {"full", "redacted", "omitted"}, sealed : BOOLEAN, files : SUBSET STRING])
    /\ s.notices \in Seq([to : STRING, field : STRING])
    /\ s.form \in Seq(STRING) /\ s.external \in Seq(STRING)
    /\ s.cover \in BOOLEAN /\ s.coverOnly \in BOOLEAN

\* The fields are a list, and so are the pages of the form that are filed.
ASSUME CoverAssumption ==
  /\ CoverForm.fields \in Seq(FieldSpec)
  /\ CoverForm.pages \in Nat /\ KeptPages(CoverForm, << >>) \in Seq(1 .. CoverForm.pages)

\* What the blank has around a field spans it.
Spanned(spec) ==
  LET cell == spec.near.cell  rule == spec.near.rule  right == spec.at + spec.width
  IN  /\ cell # << >> =>
           /\ Len(cell) = 2 /\ cell[1] <= spec.at /\ right <= cell[2]
           /\ \A c \in spec.near.borders : (c <= spec.at => c <= cell[1]) /\ (c >= right => c >= cell[2])
      /\ rule # << >> => Len(rule) = 2 /\ rule[1] <= spec.at /\ right <= rule[2]

Boxes(spec) == {spec.attached, spec.inline} \ {""}

\* A label is of one field, and so is a box that says where its value is.
Apart(f, g) ==
  /\ f.fit = "overflow_attachment" => f.label # g.label
  /\ Boxes(f) \cap Boxes(g) = {}

DescOk(desc) ==
  /\ desc.fields \in Seq(FieldSpec)
  /\ \A k \in DOMAIN desc.fields :
       LET f == desc.fields[k]
       IN  /\ Spanned(f) /\ (f.fit = "overflow_attachment" => f.label # "")
           /\ Boxes(f) \subseteq DOMAIN desc.boxes /\ (f.attached = f.inline => f.attached = "")
           /\ \A m \in DOMAIN desc.fields \ {k} : Apart(f, desc.fields[m])
  /\ \A w \in desc.widgets :
       /\ w.viewer => w.button \/ w.name \in desc.chrome
       /\ \A v \in desc.widgets : v.name = w.name /\ v.page = w.page => v.viewer = w.viewer

\* A value says something, and not what is written in place of it.
AskOk(desc, req) ==
  /\ \A k \in DOMAIN desc.fields :
       LET text == Texts(desc, req.meta, req.data)[k]
       IN  /\ text \in Seq(Seq(STRING))
           /\ text # << >> => FlattenSeq(text) \notin {<< >>, <<"see", desc.fields[k].label>>}
  /\ SpecOk(req.pages, desc.pages) => KeptPages(desc, req.pages) \in Seq(1 .. desc.pages)

\* The forms of the registry, with their blanks; a sheet holds a line.
ASSUME FormAssumption ==
  /\ FullSize <= Sheet[1] /\ FullSize <= Sheet[2]
  /\ \A desc \in FormDescs : DescOk(desc) /\ \A req \in FormAsks : AskOk(desc, req)

\* The word at k is in the first argument of the \redact at j.
Hides(t, j, k) == t[j] = "redact" /\ IsOpen(t, j + 1) /\ j + 1 < k /\ k < Close(t, j + 1)

MarkedFrom(t, i) == \A k \in i .. Len(t) : t[k] \in Secrets => \E j \in i .. k - 1 : Hides(t, j, k)

\* What is sealed is what the author marked, and not what the public reader
\* is shown in its place.
SecretsMarked ==
  \A s \in Sources :
    /\ \A i \in 1 .. Len(s.body) : MarkedFrom(s.body[i].words, 1)
    /\ MarkedFrom(s.form, 1)
    /\ \A x \in DOMAIN s.literals : s.literals[x] \notin Secrets

\* No word that the program writes of its own is sealed, and every exhibit
\* has a letter.
WordsApart ==
  /\ \A n \in DOMAIN Num : Num[n] \notin Secrets
  /\ Letters \in Seq(STRING) /\ \A k \in 1 .. Len(Letters) : Letters[k] \notin Secrets
  /\ \A s \in Sources : Len(s.exhibits) <= Len(Letters) /\ Len(s.external) <= Len(Letters)
  /\ "redact" \notin DOMAIN Cites /\ {"", "see"} \cap Secrets = {} /\ DOMAIN NoteLines \cap Secrets = {}
  /\ \A k \in DOMAIN CoverForm.fields :
       /\ CoverForm.fields[k].label \notin Secrets
       /\ \A p \in DOMAIN CoverForm.fields[k].default :
            \A x \in DOMAIN CoverForm.fields[k].default[p] : CoverForm.fields[k].default[p][x] \notin Secrets

\* There is a word for the number of every item, of a #. line too.
NumbersNamed ==
  \A s \in Sources :
    /\ \A i \in DOMAIN s.body : s.body[i].k = "item" => s.body[i].n \in DOMAIN Num
    /\ 1 .. Cardinality({i \in DOMAIN s.body : s.body[i].k = "auto"}) \subseteq DOMAIN Num

ASSUME SecretAssumption == SecretsMarked /\ WordsApart /\ NumbersNamed

VARIABLES
  src, asked, final,  \* the source; --variant, or none; --final
  variant, own, log,  \* what the build makes of it
  stage, builds,
  disk,               \* what is at the output's place, and the cover's cache
  exports             \* the .docx and the .txt of the source

srcVars   == <<src, asked, final, variant, own, log, builds>>
pleadVars == <<parseVars, layVars, srcVars, stage, disk, exports, form>>

EmptyDisk == [packet |-> << >>, notices |-> {}, fields |-> {}, log |-> << >>,
              cache |-> [pages |-> << >>, key |-> << >>, old |-> FALSE, torn |-> FALSE]]

NoExport == [words |-> {}, asked |-> "none", variant |-> "none", marked |-> FALSE, log |-> << >>, copied |-> {}]

\* No body is being read or laid out.
AtRest(body) ==
  /\ lines' = body /\ letter' = src.letter /\ at' = 1 /\ pend' = Nothing /\ table' = << >>
  /\ verb' = Closed /\ commented' = FALSE /\ blocks' = << >> /\ sheet' = FirstSheet /\ placed' = 0

PleadInit ==
  /\ src \in Sources /\ asked = "none" /\ final = FALSE
  /\ variant = "sealed" /\ own = << >> /\ log = << >>
  /\ stage = "idle" /\ builds = 0 /\ disk = EmptyDisk
  /\ exports = [docx |-> NoExport, txt |-> NoExport]
  /\ ParseInit(<< >>, FALSE) /\ LayInit /\ FormInit

-----------------------------------------------------------------------------
(* The body, macro by macro.                                               *)

Unsealed(v) == [i \in DOMAIN src.body |-> Redacted(src.body[i].words, src.literals, v)]

LogOf(r) == FlattenSeq([i \in DOMAIN r |-> r[i].log])

LineOf(kind, words) == [k |-> kind, words |-> words, n |-> 0, indent |-> FALSE, macro |-> "none"]

\* substitute_exhibit_list_macro: every exhibit, at the end of the body.
InlineList(letters) ==
  IF src.listMode = "inline" /\ letters # << >>
  THEN <<LineOf("blank", << >>)>> \o [k \in DOMAIN letters |-> LineOf("bullet", <<letters[k]>>)]
  ELSE << >>

\* The log is written before the citations are.
Logged(r) == [i \in DOMAIN r |-> [r[i] EXCEPT !.text = WithLog(@, LogOf(r))]]

Prepared(r, exhibits) ==
  LET text == [i \in DOMAIN src.body |-> [src.body[i] EXCEPT !.words = Cited(exhibits, src.external, r[i].text)]]
  IN  WithoutNotes(Autonumbered(text \o InlineList([k \in DOMAIN exhibits |-> exhibits[k].letter])))

BodyOk(r, exhibits, external) == \A i \in DOMAIN r : r[i].ok /\ RefsOk(exhibits, external, r[i].text)

\* --final refuses a source that its author still disclaims; no error of the
\* source itself leaves anything at the output's place.
Accepts(fin, v, r) ==
  /\ ~(fin /\ src.notreal) /\ ExhibitsOk(src, v)
  /\ src.coverOnly => src.cover
  /\ ~src.coverOnly => BodyOk(r, ExhibitsOf(src, v), src.external)

Begin(request, fin) ==
  LET v == Effective(src, request)
      r == Logged(Unsealed(v))
      exhibits == ExhibitsOf(src, v)
  IN  /\ stage = "idle" /\ builds < MaxBuilds
      /\ exports = [docx |-> NoExport, txt |-> NoExport]
      /\ Accepts(fin, v, r)
      /\ builds' = builds + 1 /\ asked' = request /\ final' = fin
      /\ variant' = v /\ own' = exhibits
      /\ log' = IF src.coverOnly THEN << >> ELSE LogOf(r)
      /\ stage' = IF src.coverOnly THEN "fill" ELSE "parse"
      /\ AtRest(IF src.coverOnly THEN << >> ELSE Prepared(r, exhibits))
      /\ UNCHANGED <<src, disk>>

Parse ==
  /\ stage = "parse"
  /\ ParseLine \/ ParseEnd
  /\ stage' = IF at = Len(lines) + 1 THEN "lay" ELSE stage
  /\ UNCHANGED <<layVars, srcVars, disk>>

Numbered == NumberHeadings(blocks)

Lay ==
  /\ stage = "lay"
  /\ EmitBlock(Numbered) \/ EmitEnd(Numbered)
  /\ stage' = IF placed = Len(blocks) THEN "merge" ELSE stage
  /\ UNCHANGED <<parseVars, srcVars, disk>>

-----------------------------------------------------------------------------
(* merge_outputs.                                                          *)

Page(part, name, words) == [part |-> part, name |-> name, words |-> words, stamped |-> FALSE]

BodyPages ==
  [p \in 1 .. sheet.page |->
     Page("body", "none", {m.what : m \in {m \in ToSet(sheet.drawn) \cup sheet.foot : m.page = p}})]

ListPages ==
  IF own # << >> /\ (src.listMode = "page" \/ (src.coverOnly /\ src.listMode = "inline"))
  THEN <<Page("list", "none", {own[k].letter : k \in DOMAIN own})>> ELSE << >>

\* A sealed exhibit is lodged apart from the sealed packet; the public one
\* shows the gap.
ExhibitPages(ex) ==
  (IF ex.sealed /\ variant = "sealed" THEN << >> ELSE <<Page("tab", ex.name, {ex.letter})>>)
    \o (IF ex.sealed THEN << >> ELSE <<Page(ex.file, ex.name, {})>>)

Attached == ListPages \o FlattenSeq([k \in DOMAIN own |-> ExhibitPages(own[k])])

Keep == UNCHANGED <<parseVars, layVars, srcVars>>

Merge ==
  /\ stage = "merge"
  /\ disk' = [disk EXCEPT !.packet = BodyPages \o Attached]
  /\ stage' = IF src.cover THEN "fill" ELSE "notices"
  /\ Keep

-----------------------------------------------------------------------------
(* The cover sheet, and its cache in assets/, which every variant and mode *)
(* of the source shares.                                                   *)

FormText == Redacted(src.form, src.literals, variant)

\* The citations are replaced only where the source has exhibits.
FormWords == IF own = << >> THEN FormText.text ELSE Cited(own, src.external, FormText.text)

FormOk == FormText.ok /\ (own # << >> => RefsOk(own, src.external, FormText.text))

\* The form's values: the text that the source declares for it.
CoverMeta == [keys |-> {}, auto |-> [n \in {} |-> << >>], block |-> [n \in {"body"} |-> <<FormWords>>]]
NoData    == [n \in {} |-> << >>]

\* form_fill.fill: the form, and the sheets for what it does not hold.
CoverFill == FormPages(CoverForm, CoverMeta, NoData, << >>, FALSE) \o Attachments(CoverForm, CoverMeta, NoData)

PagesAttached == IF src.coverOnly THEN 0 ELSE Len(disk.packet)

\* Mutant: the key is of the source, not of what the macros made of it.
FillKeyOfSource(entries) == <<src.form, << >>, final, PagesAttached>>

\* What the fill depends on: the text, and in meta the log so far, the mode
\* and the pages that are attached.
FillKey(entries) == <<FormWords, entries, final, PagesAttached>>

Fill ==
  /\ stage = "fill" /\ FormOk
  /\ log' = log \o FormText.log
  /\ IF disk.cache.key = FillKey(log \o FormText.log) /\ ~disk.cache.old
     THEN stage' = "prepend" /\ UNCHANGED disk
     ELSE /\ stage' = "key"
          /\ disk' = [disk EXCEPT !.cache = [@ EXCEPT !.pages = CoverFill, !.old = FALSE, !.torn = TRUE]]
  /\ UNCHANGED <<parseVars, layVars, src, asked, final, variant, own, builds>>

\* The key follows the fill; until then the file beside it has the key of
\* the fill before.
WriteKey ==
  /\ stage = "key"
  /\ disk' = [disk EXCEPT !.cache = [@ EXCEPT !.key = FillKey(log), !.torn = FALSE]]
  /\ stage' = "prepend"
  /\ Keep

Cover == [p \in DOMAIN disk.cache.pages |-> Page("cover", "none", PageWords(disk.cache.pages[p]))]

\* form_fill.prepend; a cover sheet only is the packet.
Prepend ==
  /\ stage = "prepend"
  /\ disk' = [disk EXCEPT !.packet = Cover \o (IF src.coverOnly THEN Attached ELSE disk.packet)]
  /\ stage' = "notices"
  /\ Keep

-----------------------------------------------------------------------------
(* emit_consumer_notices: one file each, beside the packet; the notice of a *)
(* recipient who is gone stays.                                            *)

Notice(k) == [to |-> src.notices[k].to, stamped |-> FALSE, of |-> builds]

\* A field that the form does not have is found after the notice is written.
Notices ==
  /\ stage = "notices"
  /\ LET stray  == {k \in DOMAIN src.notices : src.notices[k].field = Stray}
         filled == {Notice(k) : k \in 1 .. Min(stray \cup {Len(src.notices)})}
         stay   == {n \in disk.notices : \A m \in filled : m.to # n.to}
     IN  /\ disk' = [disk EXCEPT !.notices = stay \cup filled]
         /\ stage' = IF stray = {} THEN "stamp" ELSE "failed"
  /\ Keep

-----------------------------------------------------------------------------
(* The banner, the fields, the log.                                        *)

Stamped(pages) == [k \in DOMAIN pages |-> [pages[k] EXCEPT !.stamped = TRUE]]

\* draft_banner_text, stamp_draft_banner: the assembled packet.
StampPacket ==
  /\ stage = "stamp"
  /\ disk' = IF final THEN disk ELSE [disk EXCEPT !.packet = Stamped(@)]
  /\ stage' = IF final THEN "fields" ELSE "stamp notices"
  /\ Keep

\* Every notice of this build.
StampNotices ==
  /\ stage = "stamp notices"
  /\ disk' = [disk EXCEPT !.notices = {[n EXCEPT !.stamped = @ \/ n.of = builds] : n \in disk.notices}]
  /\ stage' = "fields"
  /\ Keep

CoverPages == IF src.cover THEN Len(disk.cache.pages) ELSE 0

Field(part, what, page) == [part |-> part, what |-> what, page |-> page, moved |-> ~final]

CoverFields == IF src.cover THEN SignFields(CoverForm, CoverMeta, [i \in 1 .. CoverForm.pages |-> i]) ELSE {}

\* Mutant: the cover sheet is not counted.
FieldsUnshifted(marks) == {Field("body", m.what, m.page) : m \in marks}

\* The lines that are signed, behind the cover sheet's pages; its own fields
\* on the pages of the form.  The banner moves them.
FieldsOf(marks) ==
  {Field("body", m.what, m.page + CoverPages) : m \in marks}
    \cup {Field("cover", "cover", f.page) : f \in CoverFields}

SignMarks == {m \in ToSet(sheet.drawn) : blocks[m.block].kind = "sign"}

\* Without any field the file of an earlier build goes.
WriteFields ==
  /\ stage = "fields"
  /\ disk' = [disk EXCEPT !.fields = FieldsOf(SignMarks)]
  /\ stage' = "log"
  /\ Keep

\* The log quotes what is sealed.
WriteLog ==
  /\ stage = "log"
  /\ disk' = [disk EXCEPT !.log = IF variant = "sealed" THEN log ELSE << >>]
  /\ stage' = "done"
  /\ Keep

-----------------------------------------------------------------------------
(* The other two renderers: nothing of a build, and nothing but the source, *)
(* goes into what they write, so one of them is run here in place of the   *)
(* builds.  Neither refuses --final for a disclaimed source.               *)

\* md_to_docx.py, main: \redactionlog is not expanded.
RenderDocx(request, fin) ==
  LET v == Effective(src, request)
      r == Unsealed(v)
      cited == [i \in DOMAIN src.body |-> [src.body[i] EXCEPT !.words = Cited(DocxMap(src), src.external, r[i].text)]]
      body  == WithoutNotes(Autonumbered(cited \o InlineList(DocxListed(src))))
  IN  /\ BodyOk(r, DocxMap(src), src.external)
      /\ exports' = [exports EXCEPT !.docx =
           [words |-> ToSet(DocxWords(body)), asked |-> request, variant |-> v, marked |-> ~fin,
            log |-> IF v = "sealed" THEN LogOf(r) ELSE << >>, copied |-> {}]]

LineWords(body, i) ==
  IF Hidden(body, i) THEN << >>
  ELSE (IF body[i].k = "item" THEN <<Num[body[i].n]>> ELSE << >>) \o body[i].words

\* md_to_txt.py, render_text, of a source that says how its exhibits are numbered:
\* of one that does not, it would cite numbers where the PDF has letters.
TxtLines(v) == [i \in DOMAIN src.body |->
  [src.body[i] EXCEPT !.words = Cited(DocxMap(src), << >>, Unsealed(v)[i].text)]]

\* md_to_txt.py, main, copy_attachments: the exhibits' files as they are.
RenderText(request, fin) ==
  LET body == WithoutNotes(Autonumbered(TxtLines(TxtVariant(request))))
  IN  /\ BodyOk(Unsealed(TxtVariant(request)), DocxMap(src), << >>)
      /\ exports' = [exports EXCEPT !.txt =
           [words |-> UNION {ToSet(LineWords(body, i)) : i \in DOMAIN body}, asked |-> request,
            variant |-> TxtVariant(request), marked |-> ~fin, log |-> << >>,
            copied |-> {src.exhibits[k].name : k \in {k \in DOMAIN src.exhibits : "plain" \in src.exhibits[k].files}}]]

Export(request, fin) ==
  /\ stage = "idle" /\ builds = 0 /\ exports = [docx |-> NoExport, txt |-> NoExport]
  /\ RenderDocx(request, fin) \/ RenderText(request, fin)
  /\ UNCHANGED <<parseVars, layVars, srcVars, stage, disk>>

-----------------------------------------------------------------------------
Forget == AtRest(<< >>) /\ UNCHANGED srcVars

\* The build is over, or an error or a kill has ended it.
Stop ==
  /\ stage # "idle"
  /\ stage' = "idle" /\ Forget /\ UNCHANGED disk

\* The author saves the source; what is cached is older.
Edit ==
  /\ stage = "idle" /\ builds < MaxBuilds
  /\ src' \in {s \in Sources : s.title = src.title}
  /\ disk' = [disk EXCEPT !.cache.old = TRUE]
  /\ UNCHANGED <<parseVars, layVars, asked, final, variant, own, log, builds, stage>>

Build ==
  \/ \E request \in Variants \cup {"none"}, fin \in BOOLEAN : Begin(request, fin)
  \/ Parse \/ Lay \/ Merge
  \/ Fill \/ WriteKey \/ Prepend
  \/ Notices \/ StampPacket \/ StampNotices \/ WriteFields \/ WriteLog
  \/ Stop \/ Edit

\* `sc form fill` reads and writes nothing of a build: it is run beside the
\* source that has a form and no body, before its builds.
FillAlone ==
  /\ src.coverOnly /\ stage = "idle" /\ builds = 0 /\ exports = [docx |-> NoExport, txt |-> NoExport]
  /\ \/ \E desc \in FormDescs, req \in FormAsks : FillForm(desc, req)
     \/ AttachSheets \/ WriteFormFields \/ EndForm
  /\ UNCHANGED <<parseVars, layVars, srcVars, stage, disk, exports>>

PleadNext ==
  \/ Build /\ form = NoForm /\ UNCHANGED <<exports, form>>
  \/ \E request \in Variants \cup {"none"}, fin \in BOOLEAN : Export(request, fin) /\ form = NoForm /\ UNCHANGED form
  \/ FillAlone

PleadSpec == PleadInit /\ [][PleadNext]_pleadVars

-----------------------------------------------------------------------------
(* Properties.                                                             *)

\* What only marks a place has no words, and an item has some.
Formed(body) ==
  \A i \in DOMAIN body :
    /\ body[i].k \in {"blank", "rule", "fixed", "end"} => body[i].words = << >>
    /\ body[i].k = "item" => body[i].words # << >>
    /\ body[i].k = "heading" => body[i].n \in 1 .. 3

\* A comment is closed.  Verbatim text is closed, has no comment in it, is in
\* none, and follows no table.
Sane(body) ==
  \A i \in DOMAIN body :
    /\ body[i].k = "open" => \E e \in i .. Len(body) : body[e].k = "close"
    /\ body[i].k = "fixed" =>
         /\ ~Hidden(body, i)
         /\ \E e \in i + 1 .. Len(body) : body[e].k = "end" /\ \A j \in i .. e : body[j].k \notin {"open", "comment"}
         /\ \A s \in 1 .. i - 1 : body[s].k = "row" =>
              \E m \in s + 1 .. i - 1 : body[m].k \notin {"row", "rule"} /\ ~Hidden(body, m)

BlockWords(b) == (IF b.kind = "numbered" THEN <<Num[b.n]>> ELSE << >>) \o b.words

DocxLoses(body) == \E i \in 2 .. Len(body) : body[i - 1].k = "bullet" /\ body[i].k \notin {"bullet", "blank", "fixed"}

\* Whatever kinds of lines alternate, the blocks hold every word that no
\* comment hides, each once and in the order of the source: a table, a list
\* item or a quotation that is still open is written before what follows it
\* (parse_markdown_blocks, flush_all).  A heading's number is its place
\* among those of its level since the last one above (number_headings).  The
\* .docx of the same lines holds the same words, unless a bullet is followed
\* by text: build_body drops it.
InOrder ==
  stage = "lay" /\ placed = 0 /\ Formed(lines) /\ Sane(lines) =>
    LET read == FlattenSeq([b \in DOMAIN blocks |-> BlockWords(blocks[b])])
    IN  /\ read = FlattenSeq([i \in DOMAIN lines |-> LineWords(lines, i)])
        /\ DocxLoses(lines) \/ DocxWords(lines) = read
        /\ \A b \in {b \in DOMAIN blocks : blocks[b].kind = "heading"} :
             Numbered[b].n = Cardinality({c \in 1 .. b : blocks[c].kind = "heading" /\ blocks[c].n = blocks[b].n
                                           /\ \A m \in c .. b : blocks[m].kind = "heading" => blocks[m].n >= blocks[b].n})

Marks == sheet.drawn

Lowest(m) == m.line + m.height - 1

ToDraw(b) == CASE b.kind = "pagebreak" -> << >>
               [] b.kind \in SignKinds \cup {"center"} -> <<Label(b)>>
               [] OTHER -> b.words

\* Every line of every block is drawn, once and in order, below the one
\* before it or on a later page, and on the page (emit_body).
DrawnInOrder ==
  stage = "merge" =>
    /\ FlattenSeq([b \in DOMAIN blocks |-> ToDraw(blocks[b])]) = [k \in DOMAIN Marks |-> Marks[k].what]
    /\ \A k \in 1 .. Len(Marks) - 1 :
         \/ Marks[k].page < Marks[k + 1].page
         \/ Marks[k].page = Marks[k + 1].page /\ Lowest(Marks[k]) < Marks[k + 1].line
    /\ \A k \in DOMAIN Marks : Lowest(Marks[k]) <= LinesPerPage

\* A footnote stands at the foot of each page that has its marker in a text,
\* and no line on it or on the rule above it, wherever a page is turned while
\* the footnotes are counted (_fn_area_for, _render_page_footnotes).  A table,
\* verbatim and a centred line count none, and a block of signatures does not
\* look at them.
NotesWithMarkers ==
  stage = "merge" =>
    /\ \A m \in ToSet(Marks) : blocks[m.block].kind \in TextKinds /\ m.what \in DOMAIN NoteLines =>
         \E n \in sheet.foot : n.what = m.what /\ n.page = m.page
    /\ \A n \in sheet.foot :
         /\ Lowest(n) <= LinesPerPage
         /\ \A m \in ToSet(Marks) :
              m.page = n.page /\ blocks[m.block].kind \notin SignKinds => Lowest(m) < n.line - 1

\* No footnote takes lines of a page.
Unnoted(bs) == \A b \in DOMAIN bs : bs[b].kind \in TextKinds => ToSet(bs[b].words) \cap DOMAIN NoteLines = {}

\* The lines of the group are those that were counted, and a page holds them.
FitsPage(bs, g) ==
  GroupLines(bs, g) <= LinesPerPage /\ \A k \in g[1] .. g[2] - 1 : bs[k].kind \notin {"table", "fixed"}

\* The author breaks no page from block k to block p.
Unbroken(bs, k, p) == \A b \in k .. p : bs[b].kind # "pagebreak"

\* Text that goes wherever the page has room: no group starts with it, it
\* introduces no list, and no line of it is tied to the next.
Unbound(bs, b) ==
  /\ bs[b].kind \in TextKinds \ {"heading"} /\ ToSet(bs[b].words) \cap (Ties \cup Colons) = {}
  /\ \A g \in KeepGroups(bs) : g[1] # b

\* A signature stands on one page with all of the leads above it and with the
\* paragraph that they follow, however the page fell before them
\* (_compute_keep_groups).  Under a heading there are as many lines of its
\* text as it was given room for, or the whole of it (emit_body,
\* HEADING_MIN_FOLLOWING_LINES, which counts a heading as one line).  Not so
\* where footnotes take the lines that were counted, of a table or verbatim
\* text, which is counted as one line, and under a heading whose text itself
\* stays whole.
KeptTogether ==
  stage = "merge" /\ Unnoted(Numbered) =>
    /\ \A g \in KeepGroups(Numbered) : FitsPage(Numbered, g) =>
         \A m, n \in ToSet(Marks) :
           /\ m.block = g[2] /\ n.block \in g[1] .. g[2] - 1 /\ Unbroken(Numbered, n.block, g[2] - 1)
           => n.page = m.page
    /\ \A f \in DOMAIN Marks \ {1} :
         LET text == Marks[f].block  above == Numbered[text - 1]
         IN  Marks[f - 1].block = text - 1 /\ above.kind = "heading" /\ Unbound(Numbered, text) =>
               \A j \in 0 .. FollowingLines - Len(above.words) :
                 j < Len(Numbered[text].words) => Marks[f + j].page = Marks[f - 1].page

PacketWords == UNION {disk.packet[p].words : p \in DOMAIN disk.packet}

\* Nothing sealed is in a packet, or beside it, when a build that was not
\* asked for the sealed variant ends well, whatever an earlier sealed build
\* left at the same place and in the cover sheet's cache; nor the file of an
\* exhibit that the public packet withholds or redacts (main,
\* _parse_exhibits, ensure_cached).  The .docx is as clean as the packet, the
\* .txt when it is asked to be.  Not so where document_has_redactions sees
\* none because the only macros are in a form's text, where a \redact in
\* another's argument stays one, and of a cache whose key was not written
\* (CoverIsThisBuild).
PublicClean ==
  /\ stage = "done" /\ asked # "sealed" /\ (asked = "public" \/ HasRedactions(src))
       /\ "redact" \notin PacketWords /\ ~disk.cache.torn =>
       /\ PacketWords \cap Secrets = {} /\ disk.log = << >>
       /\ \A p \in DOMAIN disk.packet : \A k \in DOMAIN src.exhibits :
            LET ex == src.exhibits[k]
            IN  disk.packet[p].name = ex.name /\ disk.packet[p].part = "plain"
                  => ex.disclosure = "full" /\ ~ex.sealed
  /\ exports.docx.asked # "sealed" /\ HasRedactions(src) /\ "redact" \notin exports.docx.words
       => exports.docx.words \cap Secrets = {} /\ exports.docx.log = << >>
  /\ exports.txt.asked = "public" /\ "redact" \notin exports.txt.words => exports.txt.words \cap Secrets = {}

\* "Mtimes alone would hand the second variant the first one's fill --- sealed
\* text into a public packet" (form_fill.py:1761): the cover sheet that is
\* prepended is the one of this build (ensure_cached).
CoverIsThisBuild == stage = "prepend" => disk.cache.pages = CoverFill

\* A draft that is done is marked on every page, the cover sheet and the
\* exhibits too, and on each of its notices, and a final document on none
\* (stamp_draft_banner).  Each place to sign is on the packet's page that has
\* its block, behind a cover sheet of any length, moved as the banner moved
\* that page, and each block to sign has one (transform_esign_fields).
DraftMarked ==
  stage = "done" =>
    /\ \A p \in DOMAIN disk.packet : disk.packet[p].stamped = ~final
    /\ \A n \in disk.notices : n.of = builds => n.stamped = ~final
    /\ {n.to : n \in {n \in disk.notices : n.of = builds}} = {src.notices[k].to : k \in DOMAIN src.notices}
    /\ \A f \in disk.fields :
         /\ f.page \in DOMAIN disk.packet /\ disk.packet[f.page].stamped = f.moved
         /\ disk.packet[f.page].part = f.part /\ (f.part = "body" => f.what \in disk.packet[f.page].words)
    /\ \A b \in DOMAIN blocks : blocks[b].kind = "sign" =>
         \E f \in disk.fields : f.part = "body" /\ f.what = Label(blocks[b])

\* Every word of the cover sheet's text is in the packet, however long it is
\* (specs/pleading/forms/mc025.md: never cut).
CoverWhole ==
  stage = "done" /\ src.cover /\ ~disk.cache.torn =>
    ToSet(FormWords) \subseteq UNION {disk.packet[p].words : p \in {p \in DOMAIN disk.packet : disk.packet[p].part = "cover"}}

\* Both ways to fill a form keep the text (FormKept, CoverWhole).
FormsKept == FormKept /\ CoverWhole

CitedNames == {Cites[w] : w \in {w \in DOMAIN Cites : \E i \in DOMAIN src.body : w \in ToSet(src.body[i].words)}}

\* One exhibit has one letter: the one that the PDF of either variant cites,
\* that its tab shows, and that the .docx cites; and what is cited is in the
\* packet, unless it is another document's or lodged apart (_parse_exhibits,
\* merge_outputs, build_citation_exhibit_map).
OneLetter ==
  stage = "done" /\ ~src.coverOnly =>
    /\ \A n \in CitedNames :
         /\ \A v \in Variants : Letter(ExhibitsOf(src, v), src.external, n) = Letter(DocxMap(src), src.external, n)
         /\ n \in {own[k].name : k \in DOMAIN own} =>
              \/ \E p \in DOMAIN disk.packet : disk.packet[p].part = "tab" /\ disk.packet[p].name = n
                   /\ disk.packet[p].words = {Letter(own, src.external, n)}
              \/ variant = "sealed" /\ \E k \in DOMAIN own : own[k].name = n /\ own[k].sealed
=============================================================================
