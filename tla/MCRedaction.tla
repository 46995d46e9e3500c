---------------------------- MODULE MCRedaction ----------------------------
(***************************************************************************)
(* Instances of Redaction for TLC: two pages out of a ruled table, a page  *)
(* of prose, a scan and a scan with a text layer; strings off the page;    *)
(* configurations of one and two operations.                               *)
(***************************************************************************)
EXTENDS Redaction, TLC

MCWords == {"head", "name", "addr", "no"}
MCLabels == {"[NAME SEALED]", "name sealed", "name -- sealed", "name {dash} sealed", "addr."}
MCSays   == [l \in MCLabels |-> IF l = "addr." THEN {"addr"} ELSE {"name"}]
MCBreaks == [l \in MCLabels |-> IF l = "addr." THEN {"addr"} ELSE {}]
MCFold   == [l \in MCLabels |-> IF l = "name {dash} sealed" THEN "name -- sealed" ELSE l]
MCLong   == {"head", "name", "addr"} \cup MCLabels

Plain == [cells |-> << <<"name", "no">>, <<"no", "addr">>, <<"addr", "name">> >>, layer |-> "text",
          rules |-> {}, ruled |-> FALSE, edge |-> {}, joined |-> FALSE, labelled |-> FALSE]
Table == [Plain EXCEPT !.cells = << <<"head", "no">>, <<"name", "addr">>, <<"no", "addr">> >>,
                       !.rules = {2, 3}, !.ruled = TRUE, !.edge = {3}, !.joined = TRUE]
Scan  == [Plain EXCEPT !.layer = "scan"]
Ocr   == [Table EXCEPT !.layer = "ocr", !.cells = << <<"addr", "name">>, <<"head", "no">>, <<"no", "no">> >>]

Carrier(kind, val, wide) == [kind |-> kind, val |-> val, wide |-> wide, page |-> 1, cell |-> <<2, 1>>]

MCCarriers ==
  { {}, {Carrier("link", <<"name">>, FALSE)}, {Carrier("alt", <<"name">>, TRUE)},
    {Carrier("info", <<"no", "name", "addr">>, FALSE), Carrier("alt", <<"addr">>, FALSE)},
    {Carrier("stream", <<"name">>, FALSE), Carrier("info", <<"addr">>, TRUE)},
    {Carrier("comment", <<"name">>, FALSE), Carrier("orphan", <<"no">>, FALSE)} }

MCDocuments ==
  [pages : {<<p, q>> : p \in {Plain, Table, Scan}, q \in {Plain, Ocr, Scan}}, carriers : MCCarriers]

Op == [type |-> "redact_clause", find |-> "name", end |-> "addr", first |-> 1, last |-> 2,
       count |-> 1, scope |-> "row", box |-> {}, anchor |-> "gone", cap |-> 0,
       optional |-> FALSE, item |-> "A1", section |-> FALSE,
       label |-> "gone", resolved |-> 0]

MCOps ==
  { Op, [Op EXCEPT !.find = "no", !.optional = TRUE, !.item = "A2", !.label = "name sealed"],
    [Op EXCEPT !.anchor = "head", !.item = "B9", !.label = "[NAME SEALED]"],
    [Op EXCEPT !.cap = 1, !.label = "name {dash} sealed"],
    [Op EXCEPT !.type = "redact_sentences", !.label = "addr."],
    [Op EXCEPT !.type = "redact_row", !.label = "name sealed"],
    [Op EXCEPT !.type = "redact_row", !.scope = "cell", !.find = "head", !.item = "gone"],
    [Op EXCEPT !.type = "redact_block"],
    [Op EXCEPT !.type = "redact_block", !.find = "addr", !.end = "head", !.label = "name sealed"],
    [Op EXCEPT !.type = "redact_region", !.box = {<<1, 1>>, <<1, 2>>}, !.label = "addr."],
    [Op EXCEPT !.type = "seal_pages", !.count = 3, !.find = "head", !.label = "name {dash} sealed"],
    [Op EXCEPT !.type = "seal_page_range", !.last = 1, !.label = "name sealed"],
    [Op EXCEPT !.find = "addr", !.section = TRUE, !.item = "gone"],
    [Op EXCEPT !.type = "comment", !.section = TRUE], [Op EXCEPT !.type = "redact_words"] }

MCConfigs == {<<o>> : o \in MCOps} \cup (MCOps \X MCOps)

MCTerms == { {[word |-> "name", regex |-> FALSE]},
             {[word |-> "addr", regex |-> TRUE], [word |-> "name", regex |-> FALSE]} }

MCSchedules == {<<"A1", "A2">>, <<"A1", "A2", "B9", "A1">>, <<"A1", "B9", "A2">>}
=============================================================================
