# A verification project for prosaic

prosaic keeps the record of a legal matter: it pulls evidence from mail and
portals on a schedule, lets an agent triage it, indexes it, drafts and builds
court filings, sends them to be signed and signs them itself. This directory
holds TLA+ models of the parts of it where order, failure and restarts decide
whether the record is right, the TLC configurations that check them on small
instances, and proofs, checked by TLAPS, that the main properties hold for every
value of the constants.

`PROJECT.json` lists the components, the runs, the source lines behind every
definition (`map`), a mutant for every property (a plausible bug that breaks it),
the hazards the properties are aimed at, and the theorems.

    tlc -workers 2 -config flow_runs.cfg MCFlowRun     # one run
    tlapm MatterSyncProofs.tla                          # one component's proofs

## 1. The system: an inventory

Paths are relative to `src/`. "State" is what outlives a process.

### Evidence comes in

**Scheduled sync** (`sync/matter_sync.sh`, `sync/lib.sh`). State: the lock
directory (its mtime is its age), the success guard `.state/sync_last_success`,
`watch_seen.txt`, `sync_last_run.json`, and through the programs it calls the
connectors' ledgers, the mail index, the text sidecars. One run: mode and watch
filter, interval guard, lock (stale after three hours), connectors in order, mail
index, `sc text ensure`, guard, triage agent, summary. Runs start manually, by
the calendar, and on a change under `inbox/`; nothing but the lock keeps them
apart, and any of them can be killed. Correct when: exclusion holds as long as no
lock is broken; the guard never advances over something unread; a failing
connector delays and never loses; a dead run's lock is reclaimed; the reported
failure streak is not overstated.

**Supervisor** (`sync/matter_supervisor.sh`, `install_schedule.sh`,
`runner_shim.c`, `second_opinion_openai.sh`). One launchd job that decides, per
firing, between a watch run, the scheduled sync, a refinement and the morning
brief, each with a dated marker. Hard: the date is computed before a sync that
may run past midnight.

**Gmail connector** (`connectors/gmail/pull.js`, `mbox.js`; `auth.js`, `creds.js`,
`drafts_audit.js`, `mime.js`, `render.js`, `mail_index.py`). State: the ledger
`.state/gmail.json` (per thread: historyId, count, ids, whether it has an mbox),
`lastRunAt`, `lastFullListAt`; one mbox and one PDF per thread; attachments. A
run lists (the whole history, or a window), compares historyIds, reads metadata,
fetches raw messages, appends, renders, announces, records. Hard: four calls per
thread between which the thread changes; drafts that become mail; exports that
fail half way; a ledger that says "done" of what is not. Correct when: a skipped
thread really was exported; what the ledger lists is in the mbox; no draft ever
enters; nothing escapes the listings.

**MyCase connector** (`connectors/mycase/pull.js`, `core/portal_common.js`). State:
`.state/mycase.json`, the downloaded documents, the billing ledger. Crawl of a
portal; save after each document; failures counted into the exit status. Hard:
what makes a document "known".

**DocuSeal and Proof connectors** (`connectors/docuseal`, `connectors/proof`).
Two shells around `poll` of the clients below.

**Connector core** (`connectors/core`). Paths, secrets, configuration, `loadState`
and `saveState` of the ledgers (a plain overwrite).

**Phone store** (`triage/phone_store.py`; `triage/phone_logs.py` is the one-off
extractor). State: one SQLite file per matter: messages, calls, the backups read,
coverage intervals, `since_ms`. Ingest reads gigabyte backups only across dates no
other backup covered, with a margin. Hard: late delivery, deleted records,
backups out of order, a moved date of relevance, a stop between two files.
Correct when: what is said to be searched is stored; the newest backup's records
and the only witnesses are not skipped; nothing older than relevant is kept.

**Text coverage** (`triage/text_coverage.py`, `read_coverage.py`,
`pleading/ocr_supplement.py`). State: text files under `derived/text/`, OCR'd copies
under `derived/ocr/`, both possibly beside the original from earlier times, and an
audit cache. Hard: documents replaced while they are read, kills between copy and
text, a cache that answers for six files, transcriptions by hand in the same
places. Correct when: a document reported searchable has its words in a text file,
the cache says what a survey would, and repair converges.

**Knowledge and recall** (`triage/knowledge_vault.py`, `triage/recall.py`). State: the
vault's notes and their links. Correct when: a migration loses no entry, links
resolve, a search that truncates says so.

### Judgment runs

**Files-first flows** (`flows/run.py`). State: a run directory (`inputs.json`,
`state.json`, an output per step, `APPROVAL-<id>.pending/.approved`). Steps are
agents, commands, judges that loop back at most `max_rounds`, gates that wait for a
person. Hard: kills and resumes, overlapping loops, approvals of what is later
rewritten. Correct when: loops are bounded over all executions; what is complete is
fresh, judged and approved; state on disk is all the execution knows.

**Agent seam** (`cli/agent-run`). One call to whichever agent CLI is installed; no
state.

**The `sc` command** (`cli/sc`). Dispatcher; scaffolding of a matter, `clean`,
`init`, `doctor`, backups of configuration. State: the matter's directories.

### Filings go out

**Pleading generator** (`pleading/md_pleading.py`, `md_to_docx.py`, `md_to_txt.py`,
`jc_common.py`). Reads a Markdown source (and today's date); writes, in this order,
the packet, the cover sheet's cache under `assets/` and the packet again with the
cover sheet, the notices, the DRAFT banner over all of them, the e-sign fields,
the log of redactions. Lines become blocks, blocks pages of 28 numbered lines with
footnotes at their foot; `\redact` and `\exhibit` depend on the variant. The Word and
text renderers read the same source in their own way. Hard: two variants and two
modes at one output; a cache all of them share; groups that must not be parted at
the end of a page; footnotes that are counted while the page is turned. Correct
when: no word is lost, doubled or moved; nothing sealed is in a public packet or
beside it; a draft is marked as one everywhere; an exhibit has one letter.

**Envelope build** (`pleading/build_envelope.py`). State: `out/<envelope>/`, the build
manifest, the redacted cache. Renders run at the same time; what is up to date is
answered by the manifest, or by times. Hard: an input that changes under its
build, a render that fails beside others that do not, an option that is not a file.
Correct when: what is called up to date is what a build would make; building comes
to rest; a sent envelope is not replaced; cleaning takes nothing a build made.

**Forms** (`pleading/form_fill.py`, `forms/registry`). A descriptor and values to a
filled PDF: binding, the size at which a value fits, one size for a group,
attachment sheets for what fits nowhere, boxes that say so, pages dropped or
repeated. Correct when: a value that nobody was warned of is whole, in its box or
on the sheets its box names.

**Redaction** (`pleading/redact_pdf.py`, `verify_redactions.py`,
`check_redaction_schedule.py`). A configuration's operations on a PDF, written only
if each had an effect; a verification of the result; a comparison with the
schedule that authorises it. Correct when: what was named is gone from the page and
from behind it; what passes is clean; what is applied was authorised.

**Pleadings folder** (`pleadings_manifest.py`, `pleadings_scan.py`), **exhibit
tools** (`highlight_pdf.py`, `tsv_to_exhibit.py`, `timestamp.py`). Small passes over
files.

**Local signing** (`signing/`). State: the signed artifact, one event directory
per signing (retained bytes, statement, gpg signature, attestation.json), the mark
store outside of any matter. Hard: whose blank is whose, on a page that has been
printed and is read back; six writes any of which can fail. Correct when: nothing
is drawn on another's line, above all a judge's; a block is filled whole; no signed
artifact without a record, and a record stays.

**Remote signing and notarization** (`docuseal-client/client.py`,
`proof-client/client.py`). State: a receipt per document, the signed files, the
service's own. `send`, `poll` (from the sync) and `fetch` share the receipts with
no lock. Hard: failing calls, kills, re-sends under a poll. Correct when: a settled
receipt is true, what completed comes back, fetch overwrites nothing. `send`'s
checks of drafts, fields and roles are algorithms of their own.

**Attestation** (`crypto/attest.py`). Manifests and signatures in an isolated
keyring; two hashes per document.

### How they interact

    supervisor -> matter_sync -> connector -> ledger + evidence + NEW lines
                     |               (gmail, mycase, docuseal/proof: client poll)
                     |-> mail_index, sc text ensure       (derived/)
                     |-> agent-run: triage                (knowledge/)
    person -> sc build -> md_pleading -> sc sign apply | docuseal send | proof send
                                              |                |
                                         audit record       receipt -> poll -> inbox/
           sc envelope -> build_envelope -> md_pleading, md_to_docx, md_to_txt (jobs)
                                         -> redact_pdf -> copies;  sc clean
           md_pleading -> form_fill (cover sheet, notices);  sc form fill
    person or agent -> sc flow -> flows/run -> agent-run

Everything is files. Processes share no memory; they meet in the lock, the ledgers,
the receipts, the inbox and the run directory, and most writes are plain
overwrites. That is where the models put their atomicity boundaries.

## 2. The modules

| module | models | state kept | atomic step |
|---|---|---|---|
| `MatterSync` | `sync/matter_sync.sh` | lock, guard, watch list, summary, stored/indexed/sidecar/triaged items, every run's variables | what one command of the script does to a shared file |
| `EvidenceIntake` | the promise of the sync (specs/sync.md, specs/connectors) | four growing sets | a batch of documents |
| `FlowWork` | the promise of a run directory (specs/flows.md) | steps done, rounds used | a step, a loop back |
| `FlowRun` | `flows/run.py` | `inputs.json`, `state.json`, outputs, verdicts, approvals, the runner's memory | one statement that changes the run directory |
| `GmailPull` | `gmail/pull.js`, `mbox.js` | mailbox, ledger, stamps, mboxes, PDFs, announcements, the run's memory | one call to the service or one write |
| `PhoneStore` | `triage/phone_store.py` | the phone's history, synced backups, tables of the store, ingest queue | one file (one transaction) |
| `TextCoverage` | `triage/text_coverage.py` | a document, its copies, text files and cached row, the run | one read of a file or one write |
| `RemoteSigning` | both remote clients | submissions, receipts, inbox, folder, each poll's and fetch's memory | one call or one write |
| `Envelope` | `pleading/build_envelope.py` | inputs' times, artifacts, redacted cache, manifest, the build with its jobs | one read of the inputs or one write |
| `Blocks` | `md_pleading.py`: lines to blocks; the two other renderers' reading | lines read, blocks, what is open | one line |
| `Pages` | `md_pleading.py`: blocks to pages | the sheet: cursor, footnotes counted, marks drawn | one block |
| `Markup` | `md_pleading.py`: macros, exhibits, variants | none (operators) | |
| `FormFill` | `pleading/form_fill.py` | one fill: pages, sheets, fields | one file written |
| `Pleading` | `md_pleading.py` main; `md_to_docx.py`, `md_to_txt.py` | packet, cover cache, notices, fields, log; the build | one file written |
| `Redaction` | the three redaction programs | the page, what is off it, the verdicts | one operation, one pass |
| `SignSlots` | `signing/slots.py` over what `md_pleading.py` prints | none (operators) | |
| `LocalSign` | `signing/local.py`, `audit.py` | files, event directories, the run | one write |

`MatterSync` composes with its connectors by what the script can see of them:
items stored, a NEW list, an exit status (`PullOk`, `PullFail`); `GmailPull` and
`RemoteSigning` are what two of those connectors do in that step, and
`TextCoverage` is what its sidecar step (`Derive`) does to one document. `LocalSign`
EXTENDS `SignSlots`, which composes the reader with the printer: its pages are
those `_emit_signblock` and its siblings draw. `Pleading` EXTENDS `Pages` (which
EXTENDS `Blocks`), `Markup` and `FormFill`: the blocks it lays out are those it has
read, with the words the macros left, and the cover sheet it prepends is what
`FormFill` fills; `FormPages` serves `sc form fill` as well. `Envelope` takes a
renderer as one job that reads its inputs when it starts and writes when it ends.
`MC*` modules give TLC's instances,
`*Proofs` modules the theorems.

How code becomes TLA+, where it is not plain:

* **Time** is an age that stops at its threshold (`MatterSync`: lock and guard;
  `GmailPull`: stamps and messages, in days), or a day (`PhoneStore`). The scripts
  only ever compare with the threshold. In `TextCoverage` it is a clock every write
  advances, because modification times are what that code compares.
* **A kill** is an action that is enabled between any two steps and forgets the
  process's memory. Writes that truncate first can be torn: `state.json` of a flow,
  a receipt, an mbox append. The connector ledgers' write is taken as atomic.
* **Files** are what is in them as far as the properties tell apart: a score passes
  or fails; an output is fresh or stale; a page is its lines, each with the number
  of its blanks and what its text matches.
* **Text** is a sequence of words, a word being the smallest thing a property tells
  apart. In `Pages` a word is one line of wrapped text; in `FormFill`, at size s, a
  word is s wide and a line s high, so that the arithmetic of fitting is kept and
  glyph widths are not; in `Redaction` a page is a grid of cells.
* **Files beside each other.** The Word and text renderers and `sc form fill` write
  nothing a build reads, so `Pleading` runs them in place of the builds of a source
  and not between them. `EndForm` keeps of a fill only what the next one does not
  overwrite. The fields of a packet are those of `sign` blocks.
* **History variables** (`broke`, `sinceSched`, `streak`, `loops`, `absorbed`,
  `peak`, ...) are read by properties only; each is marked where it is declared.
* **Slips** (`...Slip`) beside a definition are the mutants: the bug a property is
  there to exclude.

## 3. What the runs check

| run | instance and bounds | shows |
|---|---|---|
| `sync_safety` | calendar job and terminal; three connectors: one that fails loudly, one that exits 0 over a failed thread, one without a `pull.js`; one item, of any of them; one crash, thresholds of 0 and 1 tick | exclusion until a lock is broken; a guard that is honest of every connector whose failures the script sees; the sync refines `EvidenceIntake` |
| `sync_liveness` | the job alone, watch and scheduled, one connector that exits 0 over failed items, one crash | every item stored, through the guard, failures nobody sees and locks that killed runs leave |
| `flow_runs` | three flows of three to five steps and the one the repository ships, one kill, three resumes | coherent outputs, all executions one walk through the flow (it refines `FlowWork`), a complete flow did every step behind passing judges and approved gates, every execution ends |
| `gmail_pull` | one thread of two messages, new or exported before there were mboxes, three changes, one kill, one torn append, all four kinds of run | drafts leave no trace; a skipped thread is exported; what the ledger lists is stored |
| `gmail_days` | the same over days, window 1, slack 1, full listing every 2 | no message escapes a listing; a failed one is stored by a later full listing |
| `phone_store` | two records of two kinds, four days, three large backups (one out of order), margin 1, two dates of relevance | coverage is honest; newest and sole-witness records are read although backups are skipped |
| `text_coverage` | a PDF of a typed and a bodied page, a scanned image, a typed Word document, under inbox/ or not, with or without files from before `derived/`; one of: replacement, kill, forced OCR | a cached row is what a survey finds; searchable means searched; what tools can read is searched in the end |
| `remote_signing` | two documents, two submissions, two attachments of different or the same name, one poll with its output buffered, one kill, both clients | settled receipts are true, completed documents return, fetch overwrites nothing |
| `local_sign` | every document of one or two blocks (five styles, two parties, a judge), three builds, two pages at most; two runs of which any step may fail, one kill | own lines only, blocks filled whole, records whole and lasting, no orphan but of a kill or of a failure to print |
| `envelope` | two envelopes: a declaration with its Word copy, also sent as a text; an exhibit that is copied and a redacted PDF; two workers, two builds in draft or final, one edit, loss, removal or mark, and one failure, kill or taking back of the defaults | what is called up to date is right outside the windows that section 5 lists; builds come to rest; what was sent when a build began stays |
| `redaction` | two-page documents with a table, prose, a scan and strings off the page; every configuration of one or two operations, with labels that name a phrase, are folded or in brackets; four lists of terms, three schedules | what is named is gone but from labels, the verdict on a page is exact, what is covered is off the page too |
| `pleading` | sources of every kind of line; a page of eight lines, with groups, footnotes, tables and verbatim text that end at every place of it; a filing with exhibits, cover sheet and notices in two versions, built three times in either variant and mode, each build stopped anywhere; a form of three pages filled alone, with 144 requests | order and completeness of the text, footnotes, groups, secrecy, the draft mark, the exhibit letters, the forms' text |

Why the bounds suffice. Each is one more than the number at which the interesting
case first happens. Two runs are enough for a lock to be broken and taken over; a
third only repeats it (and `MutualExclusion` is proved for any number). One crash
separates any two steps, and what it leaves is again an initial state of the next
run. Two judges with overlapping loops are the smallest flow in which rounds
could be reset. Two messages are the fewest for a thread to grow and to shrink
under an export. Three backups are needed for a record that is deleted before the
newest and late for the oldest. Two documents are the fewest for one to block the
other; two signature blocks for a blank to be given to the wrong one. Two builds are
needed for what one leaves to be misread by the next, a third for a sealed, an
interrupted and a public one in a row. A page of eight lines holds every group the
code keeps together with one line to spare, and the filler before it takes every
length, so that the page ends at every place of every group. The properties
marked as proved below do not depend on the bounds at all.

What the bounds leave out: a third run, a second item or a second crash in
`MatterSync` for the properties that are not proved; a third thread; a second
poller in `RemoteSigning` for `EventuallyReturned` (`SettledIsTrue` is proved for any
number, and TLC finds it true of two over 9,834,393 states, which takes too long to
be a run); more than two signature blocks on a page.

`CHECK_DEADLOCK FALSE` stands where the system really stops: a flow that has ended
and has no resume left, a document in which the signer has no line.

No run expects a violation. Where the code does not do what it says of itself, the
module states the promise with a comment that says it does not hold, and section 5
lists it: `InboxTriaged` and `GuardMeansPulled` (`MatterSync`), `RunSurvives` (`FlowRun`),
`AlwaysHonest` (`PhoneStore`), `NothingMissed` and `RecordIsWhole` (`GmailPull`),
`SettledIsAnnounced` (`RemoteSigning`), `NeverOrphaned` (`LocalSign`), `FinalIsFinal`,
`SentIsFinal` and `CleanTakesNothing` (`Envelope`), `CoverIsThisBuild` (`Pleading`), `PassedIsGone`,
`LabelsPass`, `AppliedIsListed` and `SentencesCovered` (`Redaction`). To see one, add it to
the cfg of its run.

### Fairness

* `MatterSync`: weak fairness of every step of a run that lives, of time, and of a
  written file coming to rest; strong fairness of the firings of launchd (calendar
  and watch path), and of each thing that can be down for a while: a volume, a
  configuration that parses, a connector that stores all its source has, the
  sidecar step, the agent.
  launchd re-fires without end and the script retries nothing itself, so only
  "again and again possible" can be asked of them. Nothing is assumed of a person.
* `FlowRun`: weak fairness of the runner only: one sequential process. Resumes and
  approvals are a person's and are not assumed.
* `GmailPull`: as in the sync; strong fairness per thread of metadata, append,
  render and record: a thread that is tried in run after run is not failed for ever.
* `RemoteSigning`: weak fairness of the poll's own steps, strong fairness per
  document of the status call and of each download. It is needed: a failing call
  ends the whole poll, so one submission that always errors would block all later
  receipts.
* `TextCoverage`: weak fairness of a run that lives, strong fairness of `ensure` as
  the sync calls it (`matter_sync.sh:319`, on every pass) and of each tool and write:
  a tool that is called again and again works in the end. A document under inbox/
  is not repaired by that call and nothing is claimed of it.
* `PhoneStore`, `LocalSign`, `Envelope`, `Pleading`, `Redaction`: safety only; no fairness.
  The last three are programs that run once and end; `Settles` says of the envelope
  what liveness would, that a build which ended well leaves nothing to do.

## 4. What is proved

All of it with SMT, Zenon and, for the temporal steps, PTL; no proof leans on a
bound of a configuration. The assumptions are the named ASSUMEs of each module
(types of the constants).

**MatterSync.** `TypeCorrect`. `MutualExclusion` (`MutexUntilBroken`): as long as
`broke` is false a run in its critical section owns the lock, the lock is taken by
an atomic mkdir, and only its owner removes it. `GuardIsHonest`
(`GuardCoversArrivals`) rests on `RunInv`: what a run owes (what its sources held
when it began) is stored, or belongs to a connector still to do, to one that
failed, or to an exempt one; a clean run has neither of the first two. Exempt are the
connectors whose failures the script cannot see, which the property names; of
those the guard is not honest (`GuardMeansPulled`, section 5). `CatchUpOnce` (`ScheduledSpacing`) assumes one scheduled slot.
`SyncImplementsIntake`: the refinement mapping to `EvidenceIntake`, step by step, on
`StoredInv` (what is indexed, has a sidecar or was triaged is stored).
`StreakNeverOverstated` (`StreakSound`).

**FlowRun** (in `ResumeProofs`). `TypeCorrect`; `LoopBound`: a judge's recorded rounds equal the loops
it has made, in memory and on disk, also after a torn write and a resume
(`RoundsInv`). `OneExecution` (`AsOne`): FlowRun implements `FlowWork`, where a kill and a
resume are no step at all, because what a resume reads is what the killed execution
knew, and a kill inside a save ends the walk. `CompletedIsCoherent`, `JudgesPass`, `GatesHold` and
`CompleteMeansAll` follow from one invariant, `WalkInv`: the loop variable stands
behind exactly what is done, what is done has its output, nothing done before the
position is stale, and what lies behind a gate was cleared. It is needed because
none of the four is inductive: a loop back empties `done` from `on_fail` on, and only
the position says that the steps before are untouched. The four hold for flows whose
`on_fail` is not later than the judge (`Backward`), which `load_flow` does not check;
`MCFlowRun`'s `Forward` flow is why the condition is there.

`EarnedEnd` (`CompleteIsEarned`) puts three of them together: a flow that says
complete did every step, with judges that passed and gates that were approved.

**GmailPull.** `DraftsNeverEnter` (`DraftsStayOut`): a message the connector has
anything of was sent (`OnlyMail`), and the mailbox never makes a draft of what was
sent. `SkippingIsSafe` (`SkippedIsDone`) and `LedgerIsTrue` (`RecordedIsStored`) follow
from `Work`, which relates all a run holds to the mailbox it was read from: ids were
read at a historyId, and they are all of the thread's mail or the historyId has
moved since (`ReadWhole`); in each step of an export, every id that will be recorded
is already in the mbox, shown or announced, or deleted (`ExportDone`); an entry of a
thread that was never absorbed says no more than that (`LedgerDone`). It is needed
because the entry that is written is about calls of several steps ago, and because a
later export fetches only what no entry lists: one wrong entry would be believed
for ever. `TypeCorrect` carries what `TypeOK` leaves out (`Held`): the run's ledger is
the one on disk, a backfill's queue is in the ledger. `ListingsReach` (`NothingEscapes`)
has an invariant of its own, `Reach`: mail that no listing has seen is no older than the
window of the run at work, nor than the last run's stamp plus the slack; it is needed
because a run may be killed before it moves the stamps it was planned with. They hold
for any mailbox, any threads from before the mboxes, any number of changes, kills and
torn appends.

**RemoteSigning** (in `SigningProofs`, with `LocalSign`). `FetchIsExclusive`
(`NeverOverwrites`) needs no invariant: every write of a fetch has its own check. `SettledReceiptsAreTrue` (`SettledIsTrue`) holds
for any number of polls and any documents; what a second poll's kill tears (`spoiled`) and
which of two documents of one name is the last are in the property. Its invariant
(`SInv`) says which submission a receipt is of and that no other receipt is of it
(`Owned`), and how far a poll has come (`Walked`): the documents before the one it is at
are in the inbox, whole, and their NEW lines printed. It is needed because the receipt is settled at the end of a walk on the
strength of a status read at its start. `RemoteTypeCorrect` has an invariant of its
own (`RInv`): with any number of polls side by side, each holds a receipt of its
own walk, which could be read and was not settled (`Proper`).

**PhoneStore** (in `ResumeProofs`, with `FlowRun`). `StoreTypes`, `NothingOlder`, `SearchedIsStored` (`CoverageHonest`),
from an invariant that says of every backup on which days it was examined, of every
record of those days that it is in the store if it is after the latest date of
relevance there ever was, and of the queue that no queued file covers anything yet.
`NewestIsComplete` (`NewestComplete`) and `WitnessIsHeard` (`SoleWitness`) ask about days
that were *not* examined in the backup that holds a record. They follow from `JInv`: what a
trusted backup that was examined holds and the store lacks lies in a time another
trusted backup reaches back to; and if it reached the phone within the margin of its
date, a later one no longer has it, or one taken out of order misled the store
(`Answered`). It is needed because the plan for one backup is made from the coverage
the others had then.

**LocalSign.** `Attestations` (`AttestedWhole`), `FailuresLeaveNone` (`NoOrphan`),
`AttestationsStay` (`RecordsStay`): the invariant says which parts of the current
event's record exist at each step, that the reference of a run is larger than
all used so far (so its directory is new), and that every stamped file is the
current run's, has a completed record, or was left by a run that was killed,
interrupted or stopped as it printed (`stray`). `TypeCorrect` adds the files: one
that bears marks bears references of runs that began.

`OnlyTheirs` (`OnlyTheirOwn`) and `SignedWhole` (`FilledWhole`) are about what `discover`
reads off a page. They need that pages are printed as `md_pleading` prints them, whole
blocks one after the other (`PrintedAssumption`, which the documents of the run meet).
From it follows, line by line, what else of its block comes below a line (`Placed`): a
blank is never more than one line of its own clause away from its own rule (`RuleOf`),
and a name is right below that, so every slot has the owner its block has
(`BlankOwner`, `SlotPlace`). The scan of a page is a recursive function; that it is one
is shown first (`ScanIs`: the least sets closed under its equation), and then that it
stands at each line but those a clause has taken in (`AllVisited`). A clause ends at
its own rule at the latest, with all its blanks and no others (`ClauseIs`), so the rank
of a blank among them tells its role (`RankIs`, `SlotTrue`). The invariant carries this
to the files: what is drawn on one, by however many runs, is in a block of who drew it
(`Sound`), and where a mark is drawn so is all of its block (`Whole`). `SignedWhole`
is proved for documents without a recited "IN WITNESS WHEREOF" (`NoRecitals`): with one
`FilledWhole` is false (section 5).

**TextCoverage.** `TypeCorrect` (of `PdfTextProofs`); `CacheIsHonest` (`CacheHonest`). The invariant
bounds every time, in a file and in a stamp, by the clock (`Shape`), so that whatever
is written next has a stamp no row was filed under (`NewStamp`); between the stamp
and the save, a run whose stamp is still that of the files has the true state
(`RowHonest`). It is needed because the row that is saved is about the files of two
steps ago. It holds for any sequence of replacements, kills and migrations.
`SearchableIsSpoken` (`TextHonest`) follows from `WInv`: a copy that is no older than
the document was made of the version that is there (`Copied`), and a text that is no
older than document and copy says what a tool would get now
(`Written`); the audit compares times only.

**Envelope.** `RecordedIsRight` (`OnlyWindows`) has two halves. That of the renders
(`RenderedIsRight`) follows from `EInv`. What the manifest
records of a source is about jobs that read their inputs at different times, none of
them the time of the record. So for every planned source that is not late each of its
jobs is still queued, or is at work and has read what is there now, or has left what is
there now (`Planned`), and while one is queued or at work the defaults are those of the
plan (`Waits`); the record of a source that is in no window says of each of its artifacts
what it was made from and under which defaults (`Recorded`). No order of times is used
of the defaults, which are a digest and may come back to what they were.
`Staged` says at which stages there is a plan at all. The half of what is compared by
times only (`TimedIsRight`: texts, copies, redacted PDFs) follows from `TimesKept`: what
is there was made from inputs that are still the ones there, or were replaced since by
one newer than it, or by one restored with an older time. There it matters that a
renderer read its inputs before its output got its time: a source of which one changed
in between is in the window.
`SentIsKept` (`SentStays`) needs that no target of a build that is not forced was sent
when it began, whatever is marked while it runs (`Chosen`). Both hold for any envelopes and kinds of
entries, any number of renderers at a time, and inputs that are saved, restored from
elsewhere, lost and deleted while a build runs. `TypeCorrect` needs that no time recorded or on
disk is ahead of the clock (`Timed`) and that a run has no more renderers at work than
workers (`Crew`).

`Settles` (theorem `BuildSettles`) takes another invariant. While a build goes on in
which nothing was touched and nothing failed, each entry of its envelope is fresh, or
the build has still to come to it (`Promised`: `ToCome` says where the entry then is, in
the list of a stage, in a plan or among the jobs; `Foreseen` that every job of a planned
source is queued, at work, or has left its outputs). When the last stage is through
nothing is left to come, so all is fresh; and what has come to rest stays so until
something is touched or another build of the envelope begins (`Rests`). `House` keeps
the lists in order: no envelope is built twice in a run (`Once`), a redaction works
alone (`Hands`). It needs of the entries only that a copy is compared with its own file
(`EnvelopeAssumption`).

**Redaction.** `ClausesSweep` (`NamedIsGone`) follows from `CoverInv`: the document in
memory is the source with some of its cells covered (`Shrinking`), which every operation
keeps since it only covers (`HandledCovers`), with labels of the operations so far in place
of what was there; and after a clause of the whole document has been applied no page a
search reads shows its phrase but in such a label (`Swept`). It needs that the anchors
are resolved once, before the first operation (`Queued`). `VerdictsAreExact`
(`VerdictIsExact`) follows from it too: of what is on a written page, the verification
removes every label that was drawn, since it can be drawn as it is (`PlainLabels`), and
no phrase of the source that is neither in brackets nor broken by a label.
`CoveredIsScrubbed` (`OffPageGone`) needs that what an operation covered was noted when it
did (`Remembered`), since a later box or label may cover the place again before the scrub.
The theorems on redaction are in `PdfTextProofs` with those of `TextCoverage`.

**Pleading, pages and packet** (`PleadingProofs`). Five theorems, on one chain of lemmas. What reaches the
parser is a body of lines, whatever the macros of a source make of its words
(`RedactedOk`: the scan for `\redact` and its braced arguments; `PreparedOk`); what is
read of it at any line are blocks of known shape (`ParseOk`); and what is drawn of the
first blocks is exactly their words, in order, each line below the last one of its page
(`LaidOut`, `SheetOk`). `LayInv` says so at each stage of a build. It is needed because
nothing of the page under work says what was drawn on the pages before, nor what the
parser had open. `EachLineOnce` (`DrawnInOrder`) follows when no block of signatures is
higher than a page (`BlocksFit`), and `EachNoteThere` (`NotesWithMarkers`) when each
footnote fits on a page with a line of text (`NotesFit`); for the second the lines already
drawn must leave the room that the notes counted so far will take (`FootOk`), which a
note more makes smaller. Without these the code draws over the end of the page.

`PackInv` says what the packet is at each stage (`Middle`, then `Assembled` with the
cover sheet in front, then `Banner`), that a cache with a key has the pages that are filed,
and `NoteInv` which notices are this build's. They hold for any number of builds,
edits and kills, because the place of the output and the cache outlive a build.
`LettersAgree` (`OneLetter`) needs no more than that; `MarkedThrough` (`DraftMarked`) needs
that the pages of the cover sheet's form that are filed hold its places to sign, as they
do for every form of the registry (`SignedKept`; section 5, Forms, says what happens
otherwise). The model assumes of the sources only their types and that a macro is one
the parser knows (`SourceAssumption`, `CoverAssumption`), and of the page that it holds the
longest run of leads with its signature (`PageAssumption`). Two inequalities among them
are of the code's constants: a line block of a signature, and a certificate, are higher
than the `HEADING_MIN_FOLLOWING_LINES` a heading asks for (5 and more against 2,
md_pleading.py:306-319).

`TogetherKept` (`KeptTogether`). Whether a group goes to the next page is decided once, at
its first block, on a count of lines (`_compute_keep_groups`); its other blocks are drawn
much later, by emitters that each turn the page for reasons of their own. `KeepInv`
says what links the two, block by block: while a group is open, the page has room for
all that is left of it, and what was drawn of it is on that page (`HalfKept`, `Needs`); under
a heading that was drawn last there is room for what must follow (`HeadLast`). It is
inductive because no two groups share a block (`GroupsApart`), so no other group's
break falls inside one; because the lines a `\newline{keep}` ties are never more than
the lines left of their block (`RunIs`), so what fits stays; and because each emitter takes no more
lines than were counted for its block. The property and the theorem are about bodies
without footnotes, whose lines the count leaves out, and about groups that fit a page
and have no table or verbatim text, which the count takes for one line (section 5, Pages).

The recursive functions of these modules (flattening, the scan, the lines of a block)
are shown to exist by an induction over their places that uses only a set as the
induction hypothesis (`Induct`, from `WFMin`), since the library's induction theorems
take an operator.

Theorems about properties that no run checks any more, because one that implies or
replaces them does: `JudgesPass`, `GatesHold`, `CompleteMeansAll` (in
`CompleteIsEarned`), `LoopBound`, `CatchUpOnce`, `StreakNeverOverstated`, `NothingOlder`,
`AttestationsStay`. The type invariants of the proved modules are theorems and not
runs.

**Pleading, words** (`PleadingWordsProofs`). These ask what the recursive definitions
compute, not only what shape it has.

`NothingSealedShows` (`PublicClean`). A text is `Guarded` when no secret stands in it
before a `redact` that was left as it is. What the macros make of a line of a public
build is guarded (`Redacted`: the scan for `\redact` and the close of its first argument,
`Close`, where the braces are even for the first time), and no later step takes a word
from before another: not the log, the citations, the numbers, the footnotes, the parser,
the pages, the cover sheet's fill or the two other renderers. `CleanInv` says so of what
is read and laid out, `CacheInv` of the cover sheet's cache, which outlives the build,
and `ExportInv` of the .docx and the .txt. The cache is why an invariant is needed at
all: a fill of a sealed build is still there when the public one asks for it, and only
its key tells them apart. It assumes (`SecretAssumption`, met by the sources of the run)
that what is sealed is what the author marked and not what is shown in its place
(`SecretsMarked`), that no word the program writes itself is sealed and no source has
more exhibits than there are letters (`WordsApart`), and that every list number has a
word (`NumbersNamed`; a limit of the model, the code formats any number).
`CoverOfThisBuild` follows from `CacheInv` too: short of a fill that was cut off before
its key (section 5), the cover sheet that is prepended is this build's. So does
`CoverIsWhole` (`CoverWhole`), for a form that has a box for the text on a page that is
filed (`HoldsText`).

`WordsInOrder` (`InOrder`). `OrderInv` says at each line that the words of the blocks made,
then of the table, the paragraph or the verbatim text that is open, are those of the
lines read so far. It is needed because a line's words enter the blocks many lines
later. `DocxReads` is the same induction over the other reading of the lines
(`md_to_docx.py`), and `NumbersAre` says of a heading's number what the counters of
`NumberHeadings` hold. It is about bodies that are `Formed` and `Sane`, as the property is.

`FormsAreKept` (`FormsKept`). `FormInv` says what the pages, the sheets and the fields of a
fill are at each stage. The rest is about the operators: joining lists loses nothing
(`FlatBy`), so the paragraphs of a value, broken into lines, cut into sheets and joined
again, are the value; what fits at a size fits at a smaller one, so `fit_text` finds the
largest; what is spread over a column stays in it; and a place to sign, a box and a
printed widget are on the page of the form that was kept (`PlaceOf`). It assumes of the
forms (`FormAssumption`, met by those of the run) that what the blank has around a field
spans it, that no two fields share an attachment's label or a box that says where a value
went, that a value says something and is not itself the note "See Attachment N.", and
that a continuation sheet holds at least a line. The registry's descriptors are
written so; `load_descriptor` does not check it.

Only model-checked: the liveness properties of the runs. Every safety invariant and
action property that a run checks is also a theorem.

## 5. What is not modelled, and why

* Within the modelled parts: notifications, logging and wording; `GmailPull` gives
  each thread its own file name and leaves out attachments' contents and the watch
  for unlisted addresses; `PhoneStore` lets backups appear and configuration change
  between ingests only, and takes backups as immutable; `TextCoverage` has one
  document and one run of ensure at a time, no audio, unsupported or unreadable
  files, no replacement by a file with an older time, and takes what
  `read_coverage.py` says of a page as given; `RemoteSigning` sends
  without the checks; `LocalSign` runs one signing at a time and leaves out the mark
  store, the placement of marks and stamps, and Judicial Council lines.
  `Envelope` takes every write to have a time of its own and compares contents by
  them, but the defaults by what they say; `Pleading` leaves out tables of contents, cross references, inline styles and
  the captions' layout; `FormFill` starts from a descriptor and not from a blank
  form; `Redaction` takes the removal of glyphs and pixels as done by PyMuPDF.
* Rendering (`render.js`, `mime.js`, drawing in `md_pleading.py`, `md_to_docx.py`,
  `form_fill.py`, Judicial Council forms in `jc_common.py`): layout whose correctness
  is in what it looks like.
* Templates, form descriptors, fonts, skills, docs: data.
* `agent-run` and the agents: external; a step of theirs is any output.

Known disagreements between the code and what it, a comment or a document says:

* Signing. Ctrl-C at gpg's passphrase prompt leaves a signed PDF without a record, and
  so does a failure to print what was left blank (a closed output, a name it cannot
  encode): local.py:147-155 comes after the save and before the `try` (162) whose comment
  says that the artifact must not survive (`NeverOrphaned` in `LocalSign` states the
  promise). A recital "IN WITNESS WHEREOF"
  above a signature block takes that block's date blank for its own (`MCRecital`). `\sigrow` blocks, two rules side
  by side with a date rule of their own (md_pleading.py:4472), are not modelled.
* Gmail. A PDF whose run failed between render and ledger is absorbed by the next
  one as if it were from before the ledger (pull.js:880), with the counts of then,
  so that a message between the two is recorded and never shown (`NothingMissed`
  states it; spec gmail.md:88-91 promises the re-export). A backfill writes counts into
  entries whose PDF is older; a torn mbox append is never repaired (`RecordIsWhole`).
* Flows. A kill inside a save leaves an empty or cut state.json, which no resume can
  read, and the run is lost (`RunSurvives`; run.py:118 and 112, against "which also holds
  for any interrupted run", specs/flows.md:27-31). A gate inside a loop asks once, and
  an `on_fail` that names a later step jumps over what is between (run.py:71, 145).
  `flows/draft-review.yaml:45` names `{revised}`, which is neither an input nor a
  step id (the step is `revise`), so the shipped flow stops after two agents, with
  "no value for {revised}".
* Text. "Searchable: a current sidecar covers every page" (text_coverage.py:19) is
  false of a PDF revised after its OCR'd copy was made: it is read from the old copy
  for ever (classify_pdf:271, repair:538), which is why `TextHonest` asks for
  `CopyCurrent`; and of a copy that `--skip-text` made of a page whose text layer is
  useless. A plain audit caches "untriaged" for what is under inbox/, and
  `--include-inbox` then believes it (413-421). A person's transcription written after
  the audit of an image or Word document is overwritten by the repair (555-615),
  against "never overwritten wherever it sits" (docs/triage.md). Tesseract's output
  without its header, after a kill, counts as a person's for ever. After a kill between
  copy and text, a PDF with a page OCR finds no words on never gets a text file
  (499-500): the copy exists and no later run gets to the dump.
* Sync. The guard also advances over what it did not read (`GuardMeansPulled`;
  specs/sync.md:25-27, "only when every configured connector succeeded", and
  matter_sync.sh:19-20): a configured connector without a `pull.js` is a warning and no
  failure (matter_sync.sh:266-268), and gmail exits 0 although a thread failed
  (gmail/pull.js:990-992, 1264-1272). A file recorded as seen in a watch run that then ends early is never triaged
  (`InboxTriaged`; matter_sync.sh:189 against design/adr/0044-standby-supervisor.md:65).
* Remote signing. A NEW line is printed to the pipe the sync reads and stays in the
  buffer until the poll ends (docuseal-client/client.py:758, proof-client/client.py:325,
  inherited through connectors/docuseal/pull.js:22-24); a poll that settled one receipt
  (765-767) and is killed at the next loses it, and no later poll looks at that receipt: what it
  brought is in the inbox and never triaged (`SettledIsAnnounced`). Two documents of one
  submission that have the same name overwrite each other in the inbox, and a second
  poll that is killed in a download can tear what the first has settled (`spoiled`).
* Phone. A date of relevance moved later and back leaves dates "searched" that are not
  (`AlwaysHonest`; phone_store.py:400 and 404 against 24-25 and specs/phone-store.md:63-65).
* Envelope. After a draft build of which one document failed, a final build takes the
  drafts of the others for its own, and of a text source nothing records the options, so
  that a final build takes any text that is new enough (`FinalIsFinal`;
  build_envelope.py:788, 437 and 571 against 240-243). An input that is saved after a
  renderer of its source has begun and before the record is recorded as if it had been
  rendered (364-372), and so are defaults that change after the plan and are taken back
  (248-267); a text or a redacted PDF whose input is saved while it is made is newer
  than that input; a file restored with an older time is not seen by what compares times
  alone (221-235). These are the windows `OnlyWindows` excepts. An envelope that is
  marked sent while a build runs is replaced by it, since envelopes.yaml is read once, at the
  start (`SentIsFinal`; 1013 against pleading_markdown_spec.md:1892-1900).
  `sc clean` removes redacted PDFs, the files copied beside a text and `.fields.json`
  sidecars (`CleanTakesNothing`; 912-969 against "a false negative destroys work", 915-920).
* Redaction. `redact_sentences` covers the phrase it searches and not what follows it, to
  the end of the paragraph or even of the line (`SentencesCovered`; redact_pdf.py:977
  against 105-107). A page number past the end
  counts as an effect; `redact_row` acts on the first page it finds; a block whose ends
  are the wrong way round is accepted; a `page_anchor` that is not found searches all
  pages; the result is saved in place. A label or replacement text is text: one that names
  the phrase, as the verification's own example does, leaves it to be found
  (redact_pdf.py:363-370, 769, 812), and a label that was folded to what its font has
  (434-452) is reported as a leak (`LabelsPass`; verify_redactions.py:15-18). Streams (XMP,
  attachments) are not scrubbed; what `get_textbox` gives as one line is looked for as
  one line only. "0 only when nothing in the term list survives anywhere"
  (`PassedIsGone`; verify_redactions.py:36): not of a scan whose only text is a label drawn
  on it, of a string in another encoding or a term that is an expression, nor of a term
  that `strip_labels` removes, because a label is a part of it or because it is in capitals
  between brackets (102-107). An operation on a `_section` entry is applied and
  skipped by the schedule's check (`AppliedIsListed`; check_redaction_schedule.py:90
  against 17).
* Cover sheet. Between the fill and its key a kill leaves a fill under the key of another
  variant, which a later build of that variant believes (`CoverIsThisBuild`;
  form_fill.py:1785 against 1761).
* Variants. A source whose only macros are in a form's text builds sealed when no
  variant is asked for (md_pleading.py:1833-1853 against 1859-1865). A `\redact` inside
  another's public argument, and `\redact {` with a space, pass through. Notices' text is
  not expanded, and the notice of a recipient who was removed stays. The text renderer
  builds sealed by default, cites exhibits by number unless the source says how they are
  numbered (md_to_txt.py:52-76, against letters in the PDF; the model's sources say so),
  knows no `exhibit_source` and no front-matter defaults, and
  copies the plain files of sealed and omitted exhibits in every variant. `--final` of a
  source that says `notreal:` is refused by the PDF only (5659-5670); an empty one gets no
  banner. The Word renderer does not expand `\redactionlog`, ignores
  `heading_numbers: false`, lists external exhibits, and drops a line of text that follows
  a bullet.
* Pages. Signature blocks ignore the lines footnotes will take. A table or verbatim text
  in a group counts as one line (`_block_grid_lines`, 4724-4726), so that its signature
  can go to a page alone, against "never land on a page with no substantive body text"
  (4753-4758). A group that fits a page, but not with the heading above the paragraph
  it follows, leaves that heading behind; and a heading of several lines is given the
  room of one. A signature after a
  long paragraph that is no lead, or with leads and a block taller than the page, has no
  group (docstring, 4753-4758). A heading above another heading, or above a paragraph
  that stays whole, can end a page (303-306; skills/drafting-conventions/SKILL.md:49). A
  `\pagebreak` or a full table at the end makes an empty page. An unclosed `\fixedwidth{`
  drops the rest; one right after a table is written before it; markers of automatic
  numbers and footnotes inside comments count. A footnote's marker in a centred or
  left-right line is drawn as its number, and in a cell of a table as it is written, without
  the note (4442-4472, 3979 against "A marker and its note always share a page",
  pleading_markdown_spec.md:1315).
* Forms. Filled forms "remain interactive" (specs/pleading/forms/README.md, promise 6)
  and are flattened (ADR-0046); the engine "does not paginate" (mc025.md) and does. The
  warnings of the fill of a continuation sheet are discarded (form_fill.py:1466);
  `form_style` of the sheet is not used when its text is cut to sheets; "See Attachment
  N." that does not fit its box is not warned of; an ordinary fill leaves the
  attachments file of an earlier ink fill; prepending a cover sheet drops the packet's
  outline; a cover sheet's own sign fields keep the form's page numbers where
  `filed_pages` drops some (md_pleading.py:5893).

## 6. The plan

Done, in this order, the most important behaviour first:

1. `MatterSync`, `EvidenceIntake` and their proofs.
2. `FlowRun` and its proofs.
3. `GmailPull` and its proofs.
4. `PhoneStore` and its proofs.
5. `RemoteSigning` and its proofs; `SignSlots`, `LocalSign` and its proofs.
6. `TextCoverage` and its proofs (audit, cache, repair, migration).
7. `Envelope` and its proofs, `Redaction`: staleness, rest and cleaning of `out/`; operations,
   verification and schedule.
8. `Blocks`, `Pages`, `Markup`, `FormFill`, composed by `Pleading`, and its proofs: the
   algorithms of the largest files and the order in which a build writes.

Left:

* `MyCase`, `Creds` (token refresh against a second process), the drafts audit: the
  other writers of connector state.
* `Supervisor` over `MatterSync`; the migration of `KnowledgeVault`.
* `SendChecks`: roles and fields of docuseal send.
* Two documents with one legacy text file, and the refinement of `Derive` by
  `TextCoverage`; tables of contents and cross references of `Pleading`.

Theorems left: none of a safety property that a run checks. Those of the modules above
come with them.
