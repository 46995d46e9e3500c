----------------------------- MODULE GmailPull -----------------------------
(***************************************************************************)
(* connectors/gmail/pull.js and mbox.js: how the mail of one account gets  *)
(* from the mailbox into a matter.  A pull lists the threads of the        *)
(* configured correspondents, skips those whose historyId the ledger has,  *)
(* reads the metadata of the rest, and exports what is new or changed: raw *)
(* messages into the thread's mbox, then the PDF and the attachments, then *)
(* the NEW lines, then the ledger.  A backfill gives an mbox to threads    *)
(* exported before there were any.  Between any two calls the mailbox      *)
(* changes; a thread can fail; the process can be killed.                  *)
(*                                                                         *)
(* Pulls run one at a time, under the lock of the scheduled sync.  A       *)
(* message is an id with the day it was sent; Message-ID and Gmail id      *)
(* coincide.  A thread has a file name of its own.  Time is kept as ages   *)
(* in days: of the two stamps of the ledger, and of each message.          *)
(***************************************************************************)
EXTENDS Integers, FiniteSets, Functions

CONSTANTS
  Threads,       \* threads with a configured correspondent
  Msgs,          \* their messages
  ThreadOf,      \* the thread of each message
  NoThread,      \* none of the threads
  Legacy,        \* threads that may have been exported before there were mboxes
  Old,           \* messages that may have been exported and triaged then
  Modes,         \* what the runs are: "pull", "full", "force", "backfill"
  FullEvery,     \* FULL_LIST_EVERY_DAYS
  MinWindow,     \* MIN_WINDOW_DAYS
  Slack,         \* WINDOW_SLACK_DAYS
  MaxChanges,    \* bound: changes of a thread
  MaxCrashes,    \* bound: runs killed
  MaxTorn        \* bound: appends that stop half way

ASSUME MailAssumption ==
  /\ IsFiniteSet(Msgs) /\ ThreadOf \in [Msgs -> Threads] /\ NoThread \notin Threads
  /\ Legacy \subseteq Threads
  /\ Old \subseteq {m \in Msgs : ThreadOf[m] \in Legacy}
  /\ Modes \subseteq {"pull", "full", "force", "backfill"}
ASSUME DaysAssumption ==
  /\ FullEvery \in Nat \ {0} /\ MinWindow \in Nat \ {0} /\ Slack \in Nat
ASSUME BoundsAssumption ==
  /\ MaxChanges \in Nat /\ MaxCrashes \in Nat /\ MaxTorn \in Nat

VARIABLES
  mail,        \* each message: "none", "draft", "sent", "deleted", "discarded"
  history,     \* historyId of each thread
  age,         \* days since each message was sent
  ledger,      \* .state/gmail.json: an entry for some threads
  lastRun,     \* days since lastRunAt, Never
  lastFull,    \* days since lastFullListAt, Never
  mbox,        \* messages in each thread's mbox; no mbox while empty
  cut,         \* messages whose bytes in an mbox are incomplete
  pdf,         \* threads with a PDF where the connector put it
  told,        \* messages shown by a PDF announced with NEW
  pc,          \* where the run is
  mode,        \* what the run was started for
  led,         \* its copy of the ledger
  full,        \* it lists the whole history
  stubs,       \* threads still to decide, with the historyId they were listed with
  meta,        \* metadata fetched: ids of sent messages, ids of drafts
  queue,       \* threads to export, with their metadata
  cur,         \* the thread being exported
  wanted,      \* its messages being fetched
  shown,       \* the messages its capture listed, then those of its new PDF
  span,        \* days the run has taken
  absorbed,    \* history: threads taken to be from before the ledger
  unlisted,    \* history: sent since, and not yet in reach of a listing
  changes, crashes, torn

Never  == -1

mailbox == <<mail, history, age, changes>>
stamps  == <<lastRun, lastFull>>
record  == <<mbox, cut, pdf, told>>
batch   == <<mode, led, full, stubs, meta, queue>>
export  == <<cur, wanted, shown>>
bounds  == <<crashes, torn>>
observed == <<absorbed, unlisted>>
vars == <<mailbox, ledger, stamps, record, pc, batch, export, span, observed, bounds>>

MaxOf(a, b) == IF a > b THEN a ELSE b

\* Older than any window reaches.
AgeCap == MaxOf(MinWindow, FullEvery + Slack)

MsgsOf(t) == {m \in Msgs : ThreadOf[m] = t}
Sent(t)   == {m \in MsgsOf(t) : mail[m] = "sent"}
Drafts(t) == {m \in MsgsOf(t) : mail[m] = "draft"}
Empty     == [t \in {} |-> {}]
With(f, t, x) == [u \in DOMAIN f \cup {t} |-> IF u = t THEN x ELSE f[u]]
Without(f, t) == Restrict(f, DOMAIN f \ {t})

\* An entry of the ledger; one made before message ids were kept has none.
Entry(id, n, ids, known, box, migrated) ==
  [history |-> id, count |-> n, ids |-> ids, known |-> known, mbox |-> box,
   migrated |-> migrated, gone |-> FALSE]

\* A pre-ledger PDF, absorbed.
Absorbed(id, n) == Entry(id, n, {}, FALSE, FALSE, TRUE)

Init ==
  /\ \E legacy \in SUBSET Legacy, old \in SUBSET Old :
       /\ \A m \in old : ThreadOf[m] \in legacy
       /\ mail = [m \in Msgs |-> IF m \in old THEN "sent" ELSE "none"]
       /\ age = [m \in Msgs |-> IF m \in old THEN AgeCap ELSE 0]
       /\ ledger = [t \in legacy |-> Absorbed(0, Cardinality(old \cap MsgsOf(t)))]
       /\ pdf = legacy /\ told = old /\ absorbed = legacy
  /\ history = [t \in Threads |-> 0]
  /\ lastRun = Never /\ lastFull = Never
  /\ mbox = [t \in Threads |-> {}] /\ cut = {}
  /\ pc = "idle" /\ mode = "pull" /\ led = ledger /\ full = FALSE
  /\ stubs = Empty /\ meta = Empty /\ queue = Empty
  /\ cur = NoThread /\ wanted = {} /\ shown = {}
  /\ span = 0 /\ unlisted = {}
  /\ changes = 0 /\ crashes = 0 /\ torn = 0

-----------------------------------------------------------------------------
\* The mailbox.  Every change of a thread moves its historyId.
Change(m, to) ==
  /\ changes < MaxChanges
  /\ changes' = changes + 1
  /\ mail' = [mail EXCEPT ![m] = to]
  /\ history' = [history EXCEPT ![ThreadOf[m]] = @ + 1]
  /\ age' = [age EXCEPT ![m] = 0]
  /\ unlisted' = IF to = "sent" THEN unlisted \cup {m} ELSE unlisted \ {m}
  /\ UNCHANGED <<ledger, stamps, record, pc, batch, export, span, absorbed, bounds>>

Arrive(m)  == mail[m] \in {"none", "draft"} /\ Change(m, "sent")
Draft(m)   == mail[m] = "none" /\ Change(m, "draft")
Discard(m) == mail[m] = "draft" /\ Change(m, "discarded")
Delete(m)  == mail[m] = "sent" /\ Change(m, "deleted")

\* A label or read-state change.
Relabel(t) ==
  /\ changes < MaxChanges
  /\ changes' = changes + 1
  /\ history' = [history EXCEPT ![t] = @ + 1]
  /\ UNCHANGED <<mail, age, ledger, stamps, record, pc, batch, export, span,
                 observed, bounds>>

Older(a, cap) == IF a = Never THEN Never ELSE IF a < cap THEN a + 1 ELSE cap

\* A day passes.  A run takes no more days than the window has slack.
Day ==
  /\ pc # "idle" => span < Slack
  /\ span' = IF pc = "idle" THEN 0 ELSE span + 1
  /\ age' = [m \in Msgs |-> IF mail[m] = "sent" THEN Older(age[m], AgeCap) ELSE 0]
  /\ lastRun' = Older(lastRun, FullEvery) /\ lastFull' = Older(lastFull, FullEvery)
  /\ UNCHANGED <<mail, history, changes, ledger, record, pc, batch, export,
                 observed, bounds>>

\* Triage files the PDF elsewhere.
Move(t) ==
  /\ t \in pdf /\ (pc = "idle" \/ t \in DOMAIN ledger)
  /\ pdf' = pdf \ {t}
  /\ UNCHANGED <<mailbox, ledger, stamps, mbox, cut, told, pc, batch, export, span,
                 observed, bounds>>

-----------------------------------------------------------------------------
\* listingPlan: all of the history, or the days since the last run.
FullPlan == mode' = "full" \/ lastFull = Never \/ lastFull >= FullEvery

WindowSlip == MaxOf(MinWindow, lastRun)   \* no slack

Window   == MaxOf(MinWindow, lastRun + Slack)

\* The query excludes drafts.
Listed(t) == \E m \in Sent(t) : full' \/ age[m] <= Window

Current(t) ==
  /\ mode' # "force" /\ t \in DOMAIN led'
  /\ led'[t].history = history[t]

\* The listing, and the threads that need a look.
Start ==
  /\ pc = "idle"
  /\ mode' \in Modes \ {"backfill"}
  /\ led' = ledger /\ full' = FullPlan
  /\ LET found == {t \in Threads : Listed(t)}
     IN  /\ stubs' = [t \in {u \in found : ~Current(u)} |-> history[t]]
         /\ unlisted' = {m \in unlisted : ThreadOf[m] \notin found}
  /\ meta' = Empty /\ queue' = Empty /\ span' = 0
  /\ pc' = "decide"
  /\ UNCHANGED <<mailbox, ledger, stamps, record, export, absorbed, bounds>>

IsNotDraftSlip(t) == Sent(t) \cup Drafts(t)

\* isNotDraft, on the stubs of a thread.
Mail(t) == Sent(t)

\* Metadata comes concurrently, and without an order.  A thread whose fetch
\* fails, or that holds nothing but drafts, is left alone.
FetchMeta(t) ==
  /\ pc = "decide" /\ t \in DOMAIN stubs \ DOMAIN meta
  /\ IF Mail(t) = {}
       THEN stubs' = Without(stubs, t) /\ UNCHANGED meta
       ELSE /\ meta' = With(meta, t, [ids |-> Mail(t), exclude |-> Drafts(t)])
            /\ UNCHANGED stubs
  /\ UNCHANGED <<mailbox, ledger, stamps, record, pc, mode, led, full, queue, export,
                 span, observed, bounds>>

SkipMeta(t) ==
  /\ pc = "decide" /\ t \in DOMAIN stubs \ DOMAIN meta
  /\ stubs' = Without(stubs, t)
  /\ UNCHANGED <<mailbox, ledger, stamps, record, pc, mode, led, full, meta, queue,
                 export, span, observed, bounds>>

\* threadChanged: growth, or another set of ids.
ThreadChanged(prev, ids) ==
  \/ mode = "force" \/ Cardinality(ids) > prev.count
  \/ prev.known /\ ids # prev.ids

\* One thread's decision.  All metadata is there before the first.
Ready(t) == pc = "decide" /\ DOMAIN stubs = DOMAIN meta /\ t \in DOMAIN stubs

Decided(t) == stubs' = Without(stubs, t) /\ meta' = Without(meta, t)

\* saveState: the run's ledger becomes the one on disk.
Put(t, entry) == led' = With(led, t, entry) /\ ledger' = led'

Enqueue(t) ==
  /\ Ready(t)
  /\ IF t \in DOMAIN led THEN ThreadChanged(led[t], meta[t].ids)
                         ELSE mode = "force" \/ t \notin pdf
  /\ Decided(t)
  /\ queue' = With(queue, t, [ids |-> meta[t].ids, exclude |-> meta[t].exclude,
                              history |-> stubs[t]])
  /\ UNCHANGED <<mailbox, ledger, stamps, record, pc, mode, led, full, export, span,
                 observed, bounds>>

\* Only labels changed.
Refresh(t) ==
  /\ Ready(t) /\ t \in DOMAIN led /\ ~ThreadChanged(led[t], meta[t].ids)
  /\ Decided(t)
  /\ Put(t, [led[t] EXCEPT !.history = stubs[t], !.ids = meta[t].ids, !.known = TRUE,
                           !.count = Cardinality(meta[t].ids)])
  /\ UNCHANGED <<mailbox, stamps, record, pc, mode, full, queue, export, span,
                 observed, bounds>>

\* A PDF is where this thread's would go: taken to be from before the ledger.
Absorb(t) ==
  /\ Ready(t) /\ t \notin DOMAIN led /\ mode # "force" /\ t \in pdf
  /\ Decided(t)
  /\ Put(t, Absorbed(stubs[t], Cardinality(meta[t].ids)))
  /\ absorbed' = absorbed \cup {t}
  /\ UNCHANGED <<mailbox, stamps, record, pc, mode, full, queue, export, span,
                 unlisted, bounds>>

-----------------------------------------------------------------------------
\* The ids captureThread asks for: what the ledger says is stored is not
\* fetched again, as long as there is an mbox.
Known(t) ==
  IF t \in DOMAIN led /\ mode # "backfill" /\ mbox[t] # {} THEN led[t].ids ELSE {}

Capture(t) ==
  /\ pc \in {"decide", "backfill"} /\ stubs = Empty /\ t \in DOMAIN queue
  /\ cur' = t /\ wanted' = Mail(t) \ Known(t) /\ shown' = Mail(t)
  /\ pc' = IF pc = "decide" THEN "fetch" ELSE "refetch"
  /\ UNCHANGED <<mailbox, ledger, stamps, record, batch, span, observed, bounds>>

\* The raw messages came, and those that are no drafts are appended.
Append ==
  /\ pc \in {"fetch", "refetch"} /\ \A m \in wanted : mail[m] # "deleted"
  /\ mbox' = [mbox EXCEPT ![cur] = @ \cup {m \in wanted : mail[m] # "draft"}]
  /\ pc' = IF pc = "fetch" THEN "render" ELSE "recapture"
  /\ UNCHANGED <<mailbox, ledger, stamps, cut, pdf, told, batch, export, span,
                 observed, bounds>>

AppendTornSlip ==   \* the error is swallowed
  /\ pc \in {"fetch", "refetch"} /\ torn < MaxTorn
  /\ \E some \in SUBSET (wanted \ mbox[cur]) : mbox' = [mbox EXCEPT ![cur] = @ \cup some]
  /\ torn' = torn + 1
  /\ pc' = IF pc = "fetch" THEN "render" ELSE "recapture"
  /\ UNCHANGED <<mailbox, ledger, stamps, cut, pdf, told, batch, export, span, observed,
                 crashes>>

\* The disk is full, or the process is killed: some of the new messages are
\* there, and the last of them is not whole.
AppendTorn ==
  /\ pc \in {"fetch", "refetch"} /\ torn < MaxTorn
  /\ \E some \in SUBSET (wanted \ mbox[cur]) : \E m \in some :
       /\ mbox' = [mbox EXCEPT ![cur] = @ \cup some]
       /\ cut' = cut \cup {m}
  /\ torn' = torn + 1
  /\ pc' = IF pc = "fetch" THEN "skip" ELSE "skipback"
  /\ UNCHANGED <<mailbox, ledger, stamps, pdf, told, batch, export, span, observed,
                 crashes>>

Renderable == mbox[cur] \ queue[cur].exclude

\* The PDF is made from the mbox, less what is a draft's.
Render ==
  /\ pc = "render"
  /\ IF Renderable = {}
       THEN pc' = "skip" /\ UNCHANGED <<pdf, shown>>
       ELSE pc' = "announce" /\ pdf' = pdf \cup {cur} /\ shown' = Renderable
  /\ UNCHANGED <<mailbox, ledger, stamps, mbox, cut, told, batch, cur, wanted, span,
                 observed, bounds>>

\* NEW <pdf>; the attachments follow.
Announce ==
  /\ pc = "announce"
  /\ told' = told \cup shown
  /\ pc' = "record"
  /\ UNCHANGED <<mailbox, ledger, stamps, mbox, cut, pdf, batch, export, span,
                 observed, bounds>>

Leave(t) == queue' = Without(queue, t) /\ cur' = NoThread /\ wanted' = {} /\ shown' = {}

RecordSlip ==   \* the historyId of now, not the one the listing saw
  /\ pc = "record"
  /\ Put(cur, Entry(history[cur], Cardinality(queue[cur].ids), queue[cur].ids, TRUE,
                    TRUE, FALSE))
  /\ Leave(cur) /\ pc' = "decide"
  /\ UNCHANGED <<mailbox, stamps, record, mode, full, stubs, meta, span, observed, bounds>>

\* The ledger records the export.
Record ==
  /\ pc = "record"
  /\ Put(cur, Entry(queue[cur].history, Cardinality(queue[cur].ids), queue[cur].ids,
                    TRUE, TRUE, FALSE))
  /\ Leave(cur) /\ pc' = "decide"
  /\ UNCHANGED <<mailbox, stamps, record, mode, full, stubs, meta, span, observed, bounds>>

\* Anything that fails (a fetch, the browser, an attachment) costs its thread.
Fail ==
  /\ pc \in {"fetch", "render", "record", "skip", "refetch", "skipback"}
  /\ Leave(cur)
  /\ pc' = IF pc \in {"refetch", "skipback"} THEN "backfill" ELSE "decide"
  /\ UNCHANGED <<mailbox, ledger, stamps, record, mode, led, full, stubs, meta, span,
                 observed, bounds>>

\* The process ends: what it knew is gone.
Exit == pc' = "idle" /\ mode' = "pull" /\ full' = FALSE /\ span' = 0

StampSlip ==   \* every run counts as a full listing
  /\ pc = "decide" /\ stubs = Empty /\ queue = Empty
  /\ lastRun' = 0 /\ lastFull' = 0
  /\ ledger' = led /\ led' = led /\ Exit
  /\ UNCHANGED <<mailbox, record, stubs, meta, queue, export, observed, bounds>>

\* The run is over, whatever failed in it: the stamps move.
Stamp ==
  /\ pc = "decide" /\ stubs = Empty /\ queue = Empty
  /\ lastRun' = 0 /\ lastFull' = IF full THEN 0 ELSE lastFull
  /\ ledger' = led /\ led' = led /\ Exit
  /\ UNCHANGED <<mailbox, record, stubs, meta, queue, export, observed, bounds>>

-----------------------------------------------------------------------------
\* --backfill-mbox: the entries without an mbox.
StartBackfill ==
  /\ pc = "idle" /\ "backfill" \in Modes
  /\ mode' = "backfill" /\ led' = ledger /\ full' = FALSE
  /\ stubs' = Empty /\ meta' = Empty /\ span' = 0
  /\ queue' = [t \in {u \in DOMAIN ledger : ~ledger[u].mbox /\ ~ledger[u].gone}
                 |-> [ids |-> {}, exclude |-> {}, history |-> 0]]
  /\ pc' = "backfill"
  /\ UNCHANGED <<mailbox, ledger, stamps, record, export, observed, bounds>>

\* The entry gets its mbox and its ids; its historyId stays.
Recapture ==
  /\ pc = "recapture"
  /\ Put(cur, [led[cur] EXCEPT !.mbox = TRUE, !.ids = shown, !.known = TRUE,
                               !.count = MaxOf(@, Cardinality(shown))])
  /\ Leave(cur) /\ pc' = "backfill"
  /\ UNCHANGED <<mailbox, stamps, record, mode, full, stubs, meta, span, observed, bounds>>

\* A thread the mailbox no longer has is not asked for again.
Gone(t) ==
  /\ pc = "backfill" /\ t \in DOMAIN queue /\ Sent(t) \cup Drafts(t) = {}
  /\ Put(t, [led[t] EXCEPT !.gone = TRUE])
  /\ queue' = Without(queue, t)
  /\ UNCHANGED <<mailbox, stamps, record, pc, mode, full, stubs, meta, export, span,
                 observed, bounds>>

\* Nor is one that lost a message since its ids were listed: both errors say
\* that the entity was not found.
GoneMidway ==
  /\ pc = "refetch" /\ \E m \in wanted : mail[m] = "deleted"
  /\ Put(cur, [led[cur] EXCEPT !.gone = TRUE])
  /\ Leave(cur) /\ pc' = "backfill"
  /\ UNCHANGED <<mailbox, stamps, record, mode, full, stubs, meta, span, observed, bounds>>

\* threadsNeedingPdf: captured threads whose PDF is not where it was put.
ListMissing ==
  /\ pc = "backfill" /\ queue = Empty
  /\ stubs' = [t \in {u \in DOMAIN led \ pdf : led[u].mbox /\ mbox[u] # {}} |-> 0]
  /\ pc' = "rerender"
  /\ UNCHANGED <<mailbox, ledger, stamps, record, mode, led, full, meta, queue, export,
                 span, observed, bounds>>

\* They are rendered from their mbox, whole, and announced, unless that fails.
Rerender(t) ==
  /\ pc = "rerender" /\ t \in DOMAIN stubs
  /\ stubs' = Without(stubs, t)
  /\ \/ pdf' = pdf \cup {t} /\ told' = told \cup mbox[t]
     \/ UNCHANGED <<pdf, told>>
  /\ UNCHANGED <<mailbox, ledger, stamps, mbox, cut, pc, mode, led, full, meta, queue,
                 export, span, observed, bounds>>

EndBackfill ==
  /\ pc = "rerender" /\ stubs = Empty
  /\ Exit
  /\ UNCHANGED <<mailbox, ledger, led, stamps, record, stubs, meta, queue, export, observed,
                 bounds>>

\* The run is killed.
Crash ==
  /\ pc # "idle" /\ crashes < MaxCrashes
  /\ crashes' = crashes + 1
  /\ Exit /\ led' = ledger /\ stubs' = Empty /\ meta' = Empty /\ queue' = Empty
  /\ cur' = NoThread /\ wanted' = {} /\ shown' = {}
  /\ UNCHANGED <<mailbox, ledger, stamps, record, observed, torn>>

Mailbox ==
  \/ \E m \in Msgs : Arrive(m) \/ Draft(m) \/ Discard(m) \/ Delete(m)
  \/ \E t \in Threads : Relabel(t) \/ Move(t)
  \/ Day

Run ==
  \/ Start \/ StartBackfill
  \/ \E t \in Threads : \/ FetchMeta(t) \/ SkipMeta(t) \/ Enqueue(t) \/ Refresh(t)
                        \/ Absorb(t) \/ Capture(t) \/ Gone(t) \/ Rerender(t)
  \/ Append \/ AppendTorn \/ Render \/ Announce \/ Record \/ Fail \/ Stamp
  \/ Recapture \/ GoneMidway \/ ListMissing \/ EndBackfill

Next == Mailbox \/ Run \/ Crash

Spec == Init /\ [][Next]_vars

\* The schedule starts a pull again and again, and a run goes on; days pass; and
\* a thread that is tried again and again succeeds at last.
Fairness ==
  /\ WF_vars(Run) /\ WF_vars(Day)
  /\ SF_vars(Start)
  /\ \A t \in Threads : /\ SF_vars(FetchMeta(t))
                        /\ SF_vars(cur = t /\ Append)
                        /\ SF_vars(cur = t /\ Render)
                        /\ SF_vars(cur = t /\ Record)

FairSpec == Spec /\ Fairness

-----------------------------------------------------------------------------
Entries == [history : Nat, count : Nat, ids : SUBSET Msgs, known : BOOLEAN,
            mbox : BOOLEAN, migrated : BOOLEAN, gone : BOOLEAN]

LedgerType(l) == DOMAIN l \subseteq Threads /\ \A t \in DOMAIN l : l[t] \in Entries

TypeOK ==
  /\ mail \in [Msgs -> {"none", "draft", "sent", "deleted", "discarded"}]
  /\ history \in [Threads -> Nat] /\ age \in [Msgs -> 0 .. AgeCap]
  /\ LedgerType(ledger) /\ LedgerType(led)
  /\ lastRun \in -1 .. FullEvery /\ lastFull \in -1 .. FullEvery
  /\ mbox \in [Threads -> SUBSET Msgs] /\ \A t \in Threads : mbox[t] \subseteq MsgsOf(t)
  /\ cut \subseteq Msgs /\ pdf \subseteq Threads /\ told \subseteq Msgs
  /\ pc \in {"idle", "decide", "fetch", "render", "announce", "record", "skip",
             "backfill", "refetch", "recapture", "skipback", "rerender"}
  /\ mode \in {"pull", "full", "force", "backfill"} /\ full \in BOOLEAN
  /\ DOMAIN stubs \subseteq Threads /\ DOMAIN meta \subseteq DOMAIN stubs
  /\ DOMAIN queue \subseteq Threads
  /\ cur \in Threads \cup {NoThread} /\ (cur # NoThread => cur \in DOMAIN queue)
  /\ wanted \subseteq Msgs /\ shown \subseteq Msgs
  /\ span \in 0 .. Slack /\ unlisted \subseteq Msgs

\* ADR-0049: nothing of a draft is stored, rendered, announced or recorded,
\* whichever state of a message each call of the export saw.
DraftsStayOut ==
  \A m \in Msgs : mail[m] \in {"none", "draft", "discarded"} =>
    /\ \A t \in Threads : m \notin mbox[t]
    /\ m \notin told
    /\ \A t \in DOMAIN ledger : m \notin ledger[t].ids

\* Promise 8: a thread whose historyId is unchanged may be skipped, because
\* all its mail has been stored and shown in an announced PDF.  (Not so a
\* thread that was ever absorbed: see NothingMissed.)
SkippedIsDone ==
  \A t \in DOMAIN ledger \ absorbed : ledger[t].history = history[t]
    => Sent(t) \subseteq mbox[t] \cap told

\* An id the ledger of an mbox lists is never fetched again, so the message must
\* be in that mbox, unless the mailbox lost it during the export (promise 1).
\* (Not so for a thread that was ever absorbed: its ids may come from Refresh.)
RecordedIsStored ==
  \A t \in DOMAIN ledger \ absorbed : ledger[t].mbox =>
    \A m \in ledger[t].ids : m \in mbox[t] \/ mail[m] = "deleted"

\* Promise 8: the window is sized so that no message sent since the last
\* listing escapes the next one, however the days fall.
NothingEscapes == [][pc = "idle" /\ pc' = "decide" => unlisted' = {}]_vars

\* A thread that failed is tried again, although the stamps have moved and the
\* window has passed it: mail that stays in the mailbox is stored at last.
EventuallyStored ==
  \A m \in Msgs : mail[m] = "sent" ~> \/ m \in mbox[ThreadOf[m]] \/ mail[m] = "deleted"
                                      \/ ThreadOf[m] \in absorbed

\* Promises 1 and 2: what the ledger lists of an mbox is there whole.
RecordIsWhole ==
  \A t \in DOMAIN ledger : ledger[t].mbox => ledger[t].ids \cap cut = {}

\* Promise 8 without exception: a message of a thread the ledger calls
\* unchanged has been announced.  (It does not hold: the PDF of a run that failed
\* between render and ledger is absorbed, with what came since.)
NothingMissed ==
  \A t \in DOMAIN ledger : ledger[t].history = history[t] => Sent(t) \subseteq told
=============================================================================
