---------------------------- MODULE MCGmailPull ----------------------------
(***************************************************************************)
(* An instance of GmailPull for TLC: one thread of two messages, new to    *)
(* the connector, or exported before there were mboxes with none or one of *)
(* them in it.                                                             *)
(***************************************************************************)
EXTENDS GmailPull, TLC

CONSTANTS t, m1, m2

MCMsgs   == {m1, m2}
MCThread == (m1 :> t) @@ (m2 :> t)
=============================================================================
