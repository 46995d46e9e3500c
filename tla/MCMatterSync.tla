---------------------------- MODULE MCMatterSync ----------------------------
(***************************************************************************)
(* Instances of MatterSync for TLC: the launchd job and a terminal, a mail *)
(* connector that exits 0 although a thread failed, a portal connector     *)
(* that does not, a connector without a pull.js, something to fetch from   *)
(* each, and one file to land under inbox/.                                *)
(***************************************************************************)
EXTENDS MatterSync, TLC

CONSTANTS job, term, gmail, portal, docket, mail, notice, entry, file

MCProcs == {job, term}

\* The calendar's job against a person at a terminal.
MCJobAndTerm == (job :> {"scheduled"}) @@ (term :> {"manual"})
\* The job with both its firings, and nobody at the terminal.
MCJobAlone   == job :> {"scheduled", "watch"}

MCConnectors == {gmail, portal, docket}
MCItems      == {mail, notice, entry}
MCSourceOf   == (mail :> gmail) @@ (notice :> portal) @@ (entry :> docket)
MCRank       == (gmail :> 1) @@ (portal :> 2) @@ (docket :> 3)

\* What the liveness run has: the mail alone.
MCMail       == {mail}
MCMailOf     == mail :> gmail
=============================================================================
