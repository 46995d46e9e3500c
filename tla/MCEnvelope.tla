----------------------------- MODULE MCEnvelope -----------------------------
(***************************************************************************)
(* An instance of Envelope for TLC: a declaration with a Word copy, which  *)
(* also goes out as a text, in one envelope, a copied exhibit and a        *)
(* redacted PDF in another; the declaration and the second envelope need   *)
(* the same scan.                                                          *)
(***************************************************************************)
EXTENDS Envelope, TLC

MCEntries == {"decl", "mail", "exhibit", "redacted"}
MCKind ==
  ("decl" :> "docx") @@ ("mail" :> "txt") @@ ("exhibit" :> "copy") @@ ("redacted" :> "redacted")
MCOwn ==
  ("decl" :> "decl.md") @@ ("mail" :> "decl.md") @@ ("exhibit" :> "scan.pdf")
    @@ ("redacted" :> "cfg.json")
MCUses ==
  ("decl" :> {"decl.md", "scan.pdf"}) @@ ("mail" :> {"decl.md"}) @@ ("exhibit" :> {"scan.pdf"})
    @@ ("redacted" :> {"cfg.json", "scan.pdf"})
MCFiles == {"decl.md", "scan.pdf", "cfg.json"}

MCHolds == ("E1" :> <<"mail", "decl">>) @@ ("E2" :> <<"exhibit", "redacted">>)

MCAsked == {[final |-> FALSE, variant |-> "public"], [final |-> TRUE, variant |-> "public"]}
=============================================================================
