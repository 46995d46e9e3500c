----------------------------- MODULE MCPleading -----------------------------
(***************************************************************************)
(* Small sources for Pleading: a page of eight lines, a caption of two.    *)
(***************************************************************************)
EXTENDS Pleading, TLC

MCNum      == <<"1.", "2.", "3.", "4.">>
MCNotes    == "noted" :> 2 @@ "again" :> 1
MCCites    == "Ex-deed" :> "deed" @@ "Ex-bank" :> "bank" @@ "Ex-theirs" :> "theirs"
MCLetters  == <<"A", "B", "C">>
MCTies     == {"tied"}
MCColons   == {"follows:"}
MCSheet    == <<6, 6>>
MCSecrets  == {"name", "sum"}

LineAs(kind, words) == [k |-> kind, words |-> words, n |-> 0, indent |-> FALSE, macro |-> "none"]
Blank     == LineAs("blank", << >>)
Txt(w)    == LineAs("text", w)
Bullet(w) == LineAs("bullet", w)
Indented(line)  == [line EXCEPT !.indent = TRUE]
Item(n, w) == [LineAs("item", w) EXCEPT !.n = n]
Heading(n, w) == [LineAs("heading", w) EXCEPT !.n = n]
Macro(m, n, w) == [LineAs("macro", w) EXCEPT !.macro = m, !.n = n]

Source(title, body) ==
  [title |-> title, body |-> body, literals |-> << >>, exhibits |-> << >>, external |-> << >>,
   form |-> << >>, cover |-> FALSE, coverOnly |-> FALSE, notreal |-> FALSE, letter |-> FALSE,
   listMode |-> "none", notices |-> << >>]

Exhibit(name, disclosure, sealed) ==
  [name |-> name, disclosure |-> disclosure, sealed |-> sealed, files |-> {"plain", "redacted"}]

\* Filler of every length before what the page must keep together.
Filler(n) == [i \in 1 .. n |-> <<"l1", "l2", "l3", "l4", "l5", "l6", "l7", "l8">>[i]]

Paged ==
  {Source("signed", <<Txt(Filler(n)), Blank, Txt(<<"sworn">>), Blank, Macro("sign", 1, <<"signer">>)>>) : n \in 1 .. 8}
  \cup
  {Source("noted", <<Txt(Filler(n)), Txt(<<"noted", "then", "again", "tied", "end">>), LineAs("note", << >>),
                     Indented(Txt(<<"n">>)), Blank, Txt(<<"noted", "last">>)>>) : n \in 1 .. 8}
  \cup
  {Source("headed", <<Txt(Filler(n)), Blank, Heading(1, <<"facts">>), Txt(<<"follows:">>), Blank,
                      Bullet(<<"first">>), Indented(Txt(<<"and">>)), Bullet(<<"second">>),
                      Heading(2, <<"claim">>), Txt(<<"plain">>), Macro("judge", 1, <<"judge">>)>>) : n \in 1 .. 6}
  \cup
  {Source("topped", <<Txt(Filler(n)), Blank, Heading(1, <<"facts">>), Txt(<<"f1", "f2", "f3">>)>>) : n \in 1 .. 8}

\* Verbatim lines, a table and an empty page break at every place of a page.
Objects ==
  {Source("objects", <<Txt(Filler(n)), LineAs("row", <<"r1">>), LineAs("row", <<"r2">>), Macro("center", 0, <<"mid">>),
                       LineAs("fixed", << >>), Txt(<<"v1", "v2", "v3">>), LineAs("end", << >>),
                       Macro("pagebreak", 0, << >>)>>) : n \in 1 .. 6}

Kinds ==
  Source("kinds",
    <<Heading(1, <<"one">>), LineAs("row", <<"r1">>), LineAs("rule", << >>), LineAs("row", <<"r2">>),
      Item(1, <<"i1">>), Indented(Txt(<<"i2">>)), Item(2, <<"i3">>), Blank,
      LineAs("auto", <<"a1">>), LineAs("open", << >>), LineAs("auto", <<"gone">>), LineAs("close", << >>),
      LineAs("quote", <<"q1">>), LineAs("quote", <<"q2">>), Heading(3, <<"deep">>),
      Blank, Bullet(<<"b1">>), LineAs("fixed", << >>), Txt(<<"v1">>), LineAs("end", << >>),
      Macro("pagebreak", 0, << >>), Txt(<<"p1">>), LineAs("comment", << >>), Macro("center", 0, <<"mid">>),
      Heading(1, <<"two">>), Heading(3, <<"low">>), Txt(<<"p2">>)>>)

Redaction(n) ==
  CASE n = 1 -> <<"by", "redact", "{", "name", "}", "{", "blank", "}">>
    [] n = 2 -> <<"paid", "redact", "{", "sum", "}", "{", "blank", "}", "{", "privacy", "}">>
    [] n = 3 -> <<"redact", "{", "name", "}">>

Filing ==
  [Source("filing", <<Txt(Redaction(1)), Txt(<<"see", "Ex-bank">>), Blank, Macro("sign", 1, <<"signer">>)>>)
     EXCEPT !.exhibits = <<Exhibit("deed", "omitted", FALSE), Exhibit("bank", "redacted", FALSE)>>,
            !.listMode = "page", !.cover = TRUE, !.form = Redaction(2) \o <<"by", "deed">>,
            !.notices = <<[to |-> "emp", field |-> "known"]>>]

FilingLater ==
  [Filing EXCEPT !.body = <<Txt(<<"see", "Ex-deed", "Ex-theirs", "log">>), Txt(Redaction(2))>>,
                 !.external = <<"bank", "theirs">>, !.form = <<"plain">>, !.listMode = "inline", !.notreal = TRUE,
                 !.notices = <<[to |-> "emp", field |-> "known"], [to |-> "bank", field |-> Stray]>>]

\* A cover sheet only, in which the names are.
FormOnly ==
  [Source("form", << >>) EXCEPT !.cover = TRUE, !.coverOnly = TRUE, !.form = Redaction(3),
     !.literals = "name" :> "blank", !.exhibits = <<Exhibit("deed", "full", TRUE), Exhibit("bank", "full", FALSE)>>]

MCSources == Paged \cup Objects \cup {Kinds, Filing, FilingLater, FormOnly}

-----------------------------------------------------------------------------
(* Forms.                                                                  *)

Near == [label |-> FALSE, cell |-> << >>, beside |-> FALSE, rule |-> << >>, borders |-> {}, above |-> FALSE]
NoSign == [party |-> "", when |-> "", unless |-> ""]

FieldAs(name, page, fit, width, height) ==
  [name |-> name, when |-> "", auto |-> "", default |-> << >>, label |-> "",
   page |-> page, fit |-> fit, multiline |-> FALSE, width |-> width, height |-> height, font |-> 3, floor |-> 0,
   group |-> "none", attached |-> "", inline |-> "", at |-> 0, near |-> Near, forced |-> "", esign |-> NoSign]

Overflowing(name, page, label) == [FieldAs(name, page, "overflow_attachment", 6, 3) EXCEPT !.label = label]

SignedBy(name, page, party) == [FieldAs(name, page, "shrink", 6, 3) EXCEPT !.esign.party = party]

FormAs(pages, fields) ==
  [pages |-> pages, fields |-> fields, boxes |-> [b \in {} |-> 0], groups |-> {}, widgets |-> {}, chrome |-> {}, filed |-> << >>, parties |-> <<"filer">>]

MCCoverForm == FormAs(1, <<Overflowing("body", 1, "A1"), SignedBy("sign", 1, "filer")>>)

\* Three pages: boxes of one size on two of them, a table's column, two
\* texts that may be attached, and places to sign that depend on the filer.
Declaration ==
  [FormAs(3, <<
     [FieldAs("name", 1, "shrink", 6, 3) EXCEPT !.group = "g", !.auto = "name",
        !.near = [Near EXCEPT !.rule = <<0, 18>>, !.borders = {6}]],
     [FieldAs("office", 2, "shrink_wrap", 4, 6) EXCEPT !.group = "g", !.when = "bar", !.default = <<<<"at">>>>,
        !.near = [Near EXCEPT !.cell = <<0, 6>>, !.beside = TRUE]],
     [Overflowing("body", 2, "A1") EXCEPT !.attached = "see", !.inline = "here"],
     [Overflowing("more", 3, "A2") EXCEPT !.near = [Near EXCEPT !.label = TRUE]],
     [SignedBy("sign", 3, "filer") EXCEPT !.esign.unless = "mailed"],
     [SignedBy("counsel", 1, "counsel") EXCEPT !.esign.when = "bar"]>>)
   EXCEPT !.boxes = [b \in {"see", "here", "party", "other"} |-> IF b \in {"see", "here"} THEN 2 ELSE 1],
          !.groups = {[boxes |-> {"party", "other"}, other |-> "other", text |-> "more"]},
          !.widgets = {[name |-> "print", page |-> 1, button |-> TRUE, viewer |-> TRUE],
                       [name |-> "attachment", page |-> 2, button |-> TRUE, viewer |-> FALSE],
                       [name |-> "banner", page |-> 3, button |-> FALSE, viewer |-> FALSE]}, !.chrome = {"banner"},
          !.parties = <<"filer", "counsel">>, !.filed = <<<<2, 3>>, <<1, 1>>>>]

MCForms == {Declaration}

Bodies == {<< >>, <<<<"b1", "b2">>>>, <<<<"b1", "b2", "b3">>, <<"b4">>, <<"b5", "b6">>>>}

MCAsks ==
  {[meta |-> [keys |-> keys, auto |-> "name" :> <<<<"n1", "n2", "n3">>>>, block |-> "body" :> body],
    data |-> data, pages |-> pages, ink |-> ink] :
     keys \in {{}, {"bar"}}, body \in Bodies, ink \in BOOLEAN,
     pages \in {<< >>, <<<<3, 3>>, <<2, 3>>>>, <<<<2, 4>>>>},
     data \in {[n \in {} |-> << >>], "other" :> TRUE, "other" :> TRUE @@ "more" :> <<<<"m1", "m2", "m3">>>>,
                "see" :> FALSE @@ "more" :> <<<<"m1">>>>}}
=============================================================================
