--------------------------- MODULE MCTextCoverage ---------------------------
(***************************************************************************)
(* Instances of TextCoverage for TLC: a PDF of two pages, an image, a      *)
(* Word document.                                                          *)
(***************************************************************************)
EXTENDS TextCoverage, TLC

MCLooks ==
  ("pdf" :> {<<"typed", "bodied">>}) @@ ("image" :> {<<"scan">>}) @@ ("docx" :> {<<"typed">>})
=============================================================================
