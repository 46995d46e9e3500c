------------------------------- MODULE Markup -------------------------------
(***************************************************************************)
(* pleading/md_pleading.py: one source, two variants.  What \redact and    *)
(* \exhibit become, which exhibits a variant shows, and what the other two *)
(* renderers, md_to_docx.py and md_to_txt.py, cite.                        *)
(*                                                                         *)
(* A text is a sequence of words, among them "redact", "{", "}", and "log" *)
(* for \redactionlog.                                                      *)
(***************************************************************************)
EXTENDS Naturals, FiniteSetsExt, SequencesExt

CONSTANTS
  Cites,   \* the shortname that \exhibit{} names, of each word that is one
  Letters  \* designators, in order

Variants == {"sealed", "public"}

-----------------------------------------------------------------------------
(* substitute_redaction_macros.                                            *)

Count(t, w, i, j) == Cardinality({k \in i .. j : t[k] = w})

\* The brace that closes the one at i; 0 when none does.
Close(t, i) ==
  LET ends == {j \in i .. Len(t) : Count(t, "{", i, j) = Count(t, "}", i, j)}
  IN  IF ends = {} THEN 0 ELSE Min(ends)

IsOpen(t, i) == i <= Len(t) /\ t[i] = "{"

\* The braced arguments from i on, at most n: <<first, last>> positions.
Arguments(t, i, n) ==
  LET args[k \in 0 .. n] ==
        IF k = 0 THEN << >>
        ELSE LET from == IF k = 1 THEN i ELSE args[k - 1][Len(args[k - 1])][2] + 1
             IN  IF Len(args[k - 1]) = k - 1 /\ IsOpen(t, from) /\ Close(t, from) # 0
                 THEN Append(args[k - 1], <<from, Close(t, from)>>) ELSE args[k - 1]
  IN  args[n]

\* The next argument, of three at most, is not closed.
Unclosed(t, args) == Len(args) = 0 \/ (Len(args) < 3 /\ IsOpen(t, args[Len(args)][2] + 1))

Inner(t, arg) == SubSeq(t, arg[1] + 1, arg[2] - 1)

\* An argument on its own names a literal of the front matter.
OneArgument(arg, literals, variant) ==
  IF variant = "sealed" THEN arg ELSE <<literals[arg[1]]>>

Known(arg, literals) == Len(arg) = 1 /\ arg[1] \in DOMAIN literals

\* \redact that no brace follows is a word like any other, and one with an
\* argument that is not closed an error; what an argument holds is not looked
\* at again.
Redacted(t, literals, variant) ==
  LET scan[i \in 1 .. Len(t) + 1] ==
        IF i > Len(t) THEN [text |-> << >>, log |-> << >>, ok |-> TRUE]
        ELSE IF t[i] = "redact" /\ IsOpen(t, i + 1)
        THEN LET args == Arguments(t, i + 1, 3)
                 rest == scan[IF args = << >> THEN Len(t) + 1 ELSE args[Len(args)][2] + 1]
                 arg(k) == Inner(t, args[k])
             IN  CASE Unclosed(t, args) -> [rest EXCEPT !.ok = FALSE]
                   [] Len(args) = 1 /\ ~Unclosed(t, args) ->
                        IF Known(arg(1), literals)
                        THEN [rest EXCEPT !.text = OneArgument(arg(1), literals, variant) \o @]
                        ELSE [rest EXCEPT !.ok = FALSE]
                   [] OTHER ->
                        [rest EXCEPT !.text = (IF variant = "sealed" THEN arg(1) ELSE arg(2)) \o @,
                                     !.log = IF Len(args) = 3 THEN <<<<arg(1), arg(2), arg(3)>>>> \o @ ELSE @]
        ELSE [scan[i + 1] EXCEPT !.text = <<t[i]>> \o @]
  IN  scan[1]

\* substitute_redaction_log_macro: the reasons, in the order of the text.
LogText(log) == FlattenSeq([k \in DOMAIN log |-> log[k][3]])

WithLog(t, log) == FlattenSeq([k \in DOMAIN t |-> IF t[k] = "log" THEN LogText(log) ELSE <<t[k]>>])

-----------------------------------------------------------------------------
(* effective_variant.  A front matter value by variant is what differs in  *)
(* meta; a form's text is no such value, whatever macros it holds.         *)

HasRedactions(src) ==
  \/ \E i \in DOMAIN src.body : \E k \in DOMAIN src.body[i].words : src.body[i].words[k] \in {"redact", "log"}
  \/ DOMAIN src.literals # {}
  \/ \E k \in DOMAIN src.exhibits :
       src.exhibits[k].sealed \/ src.exhibits[k].disclosure # "full"

Effective(src, requested) ==
  IF requested # "none" THEN requested ELSE IF HasRedactions(src) THEN "public" ELSE "sealed"

-----------------------------------------------------------------------------
(* _parse_exhibits.                                                        *)

\* A public packet shows the place of what it omits.
SealedIn(ex, variant) == ex.sealed \/ (variant = "public" /\ ex.disclosure = "omitted")

\* The companion file that a redacted exhibit has by convention.
FileOf(ex, variant) ==
  IF variant = "public" /\ ex.disclosure = "redacted" THEN "redacted" ELSE "plain"

ExhibitsOk(src, variant) ==
  \A k \in DOMAIN src.exhibits :
    LET ex == src.exhibits[k]
    IN  /\ \A m \in 1 .. k - 1 : src.exhibits[m].name # ex.name
        /\ SealedIn(ex, variant) \/ FileOf(ex, variant) \in ex.files

\* Mutant: the letters go to the exhibits that are shown.
ExhibitsShown(src, variant) ==
  LET shown == SelectSeq(src.exhibits, LAMBDA ex : ~SealedIn(ex, variant))
  IN  [k \in DOMAIN shown |-> [name |-> shown[k].name, letter |-> Letters[k], sealed |-> FALSE,
                               file |-> FileOf(shown[k], variant)]]

\* The letters go by place, and a sealed exhibit has its own.
ExhibitsOf(src, variant) ==
  [k \in DOMAIN src.exhibits |->
     [name |-> src.exhibits[k].name, letter |-> Letters[k],
      sealed |-> SealedIn(src.exhibits[k], variant), file |-> FileOf(src.exhibits[k], variant)]]

\* Those of another source, exhibit_source, keep the letters they have there.
Letter(own, external, n) ==
  IF n \in {own[k].name : k \in DOMAIN own}
  THEN own[Min({k \in DOMAIN own : own[k].name = n})].letter
  ELSE Letters[Min({k \in DOMAIN external : external[k] = n})]

Citable(own, external) == {own[k].name : k \in DOMAIN own} \cup ToSet(external)

\* substitute_exhibit_refs
RefsOk(own, external, t) == \A k \in DOMAIN t : t[k] \in DOMAIN Cites => Cites[t[k]] \in Citable(own, external)

Cited(own, external, t) ==
  [k \in DOMAIN t |-> IF t[k] \in DOMAIN Cites THEN Letter(own, external, Cites[t[k]]) ELSE t[k]]

\* md_to_docx.py, build_citation_exhibit_map: whether a file exists does not
\* matter.
DocxMap(src) ==
  [k \in DOMAIN src.exhibits |->
     [name |-> src.exhibits[k].name, letter |-> Letters[k], sealed |-> src.exhibits[k].sealed]]

\* The inline list of the .docx holds every exhibit that can be cited, in the
\* order of the letters.
DocxListed(src) ==
  LET listed == {Letter(DocxMap(src), src.external, n) : n \in Citable(DocxMap(src), src.external)}
  IN  FlattenSeq([k \in DOMAIN Letters |-> IF Letters[k] \in listed THEN <<Letters[k]>> ELSE << >>])

\* md_to_txt.py knows no other document's exhibits, and builds the sealed
\* variant unless it is told.
TxtVariant(requested) == IF requested = "none" THEN "sealed" ELSE requested
=============================================================================
