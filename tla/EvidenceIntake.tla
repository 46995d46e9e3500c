--------------------------- MODULE EvidenceIntake ---------------------------
(***************************************************************************)
(* What the sync promises of the record, whatever runs, fails or is killed *)
(* (specs/sync.md, specs/connectors/README.md): a document is stored once  *)
(* and stays; only a stored document is findable, has a text sidecar, or   *)
(* reaches the triage agent; and none of that is ever taken back.          *)
(***************************************************************************)
EXTENDS FiniteSets

CONSTANT Docs

VARIABLES stored, searchable, sidecar, briefed

intake == <<stored, searchable, sidecar, briefed>>

Init == stored = {} /\ searchable = {} /\ sidecar = {} /\ briefed = {}

\* One connector run adds documents to the record.
Store ==
  /\ \E new \in SUBSET (Docs \ stored) : stored' = stored \cup new
  /\ UNCHANGED <<searchable, sidecar, briefed>>

\* The mail index and the text sidecars are derived from the record.
Derive ==
  /\ searchable \subseteq searchable' /\ searchable' \subseteq stored
  /\ sidecar \subseteq sidecar' /\ sidecar' \subseteq stored
  /\ UNCHANGED <<stored, briefed>>

\* The triage agent reads part of the record.
Brief ==
  /\ briefed \subseteq briefed' /\ briefed' \subseteq stored
  /\ UNCHANGED <<stored, searchable, sidecar>>

Next == Store \/ Derive \/ Brief

Spec == Init /\ [][Next]_intake
=============================================================================
