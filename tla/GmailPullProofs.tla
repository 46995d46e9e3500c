-------------------------- MODULE GmailPullProofs --------------------------
(***************************************************************************)
(* Theorems about GmailPull, for any mailbox and any number of changes,    *)
(* killed runs and broken appends.  A message that was ever sent is        *)
(* delivered for good; everything a run holds is of delivered messages,    *)
(* and what it holds of a thread is either all of the thread's mail or of  *)
(* an older historyId than the thread's.                                   *)
(***************************************************************************)
EXTENDS GmailPull, FiniteSetTheorems, TLAPS

PullPcs == {"decide", "fetch", "render", "announce", "record", "skip"}
BackPcs == {"backfill", "refetch", "recapture", "skipback", "rerender"}
\* One thread is being exported or captured.
ExportPcs == (PullPcs \ {"decide"}) \cup (BackPcs \ {"backfill", "rerender"})

Metas  == [ids : SUBSET Msgs, exclude : SUBSET Msgs]
Queued == [ids : SUBSET Msgs, exclude : SUBSET Msgs, history : Nat]

\* What TypeOK leaves out: the contents of what a run holds, and that its
\* ledger is the one on disk.
Held ==
  /\ \A t \in DOMAIN stubs : stubs[t] \in Nat
  /\ \A t \in DOMAIN meta : meta[t] \in Metas
  /\ \A t \in DOMAIN queue : queue[t] \in Queued
  /\ led = ledger /\ absorbed \subseteq Threads
  /\ pc \in PullPcs => mode # "backfill"
  /\ pc \in BackPcs => DOMAIN queue \subseteq DOMAIN led /\ DOMAIN meta = {}
  /\ pc \in ExportPcs <=> cur # NoThread
  /\ cur # NoThread => wanted \subseteq MsgsOf(cur) /\ shown \subseteq MsgsOf(cur)

TInv == TypeOK /\ Held

Delivered(m) == mail[m] \in {"sent", "deleted"}

\* Nothing the connector holds or keeps is of a message that was not sent.
OnlyMail ==
  /\ \A t \in Threads : \A m \in mbox[t] : Delivered(m)
  /\ \A m \in told \cup wanted \cup shown : Delivered(m)
  /\ \A t \in DOMAIN ledger : \A m \in ledger[t].ids : Delivered(m)
  /\ \A t \in DOMAIN meta : \A m \in meta[t].ids : Delivered(m)
  /\ \A t \in DOMAIN queue : \A m \in queue[t].ids : Delivered(m)

-----------------------------------------------------------------------------
LEMMA CapType == AgeCap \in Nat /\ \A n \in Nat : MaxOf(n, 0) \in Nat
BY DaysAssumption DEF AgeCap, MaxOf

LEMMA CountType ==
  ASSUME NEW S \in SUBSET Msgs
  PROVE  Cardinality(S) \in Nat
BY MailAssumption, FS_Subset, FS_CardinalityType

LEMMA OfThread ==
  ASSUME NEW t
  PROVE  MsgsOf(t) \subseteq Msgs /\ Sent(t) \subseteq MsgsOf(t) /\ Drafts(t) \subseteq MsgsOf(t)
         /\ Mail(t) = Sent(t)
BY DEF MsgsOf, Sent, Drafts, Mail

LEMMA OlderType ==
  ASSUME NEW cap \in Nat, NEW a \in -1 .. cap
  PROVE  Older(a, cap) \in -1 .. cap /\ (a \in 0 .. cap => Older(a, cap) \in 0 .. cap)
BY DEF Older, Never

\* The parts of TInv an action leaves alone.
LEMMA PutType ==
  ASSUME TInv, NEW t \in Threads, NEW e \in Entries, Put(t, e)
  PROVE  LedgerType(ledger') /\ LedgerType(led') /\ led' = ledger' /\ DOMAIN led' = DOMAIN led \cup {t}
BY DEF Put, With, LedgerType, TInv, TypeOK, Held

LEMMA EntryType ==
  ASSUME NEW id \in Nat, NEW n \in Nat, NEW ids \in SUBSET Msgs, NEW known \in BOOLEAN,
         NEW box \in BOOLEAN, NEW migrated \in BOOLEAN
  PROVE  Entry(id, n, ids, known, box, migrated) \in Entries
BY DEF Entry, Entries

LEMMA InitTypes == Init => TInv
<1> SUFFICES ASSUME Init PROVE TInv
  OBVIOUS
<1>1. PICK legacy \in SUBSET Legacy, old \in SUBSET Old :
        /\ \A m \in old : ThreadOf[m] \in legacy
        /\ mail = [m \in Msgs |-> IF m \in old THEN "sent" ELSE "none"]
        /\ age = [m \in Msgs |-> IF m \in old THEN AgeCap ELSE 0]
        /\ ledger = [t \in legacy |-> Absorbed(0, Cardinality(old \cap MsgsOf(t)))]
        /\ pdf = legacy /\ told = old /\ absorbed = legacy
  BY DEF Init
<1>2. \A t \in legacy : Absorbed(0, Cardinality(old \cap MsgsOf(t))) \in Entries
  <2> TAKE t \in legacy
  <2>1. old \cap MsgsOf(t) \in SUBSET Msgs
    BY MailAssumption, OfThread
  <2>2. Cardinality(old \cap MsgsOf(t)) \in Nat
    BY <2>1, CountType
  <2> QED
    BY <2>2, EntryType DEF Absorbed
<1>3. LedgerType(ledger) /\ LedgerType(led)
  BY <1>1, <1>2, MailAssumption DEF LedgerType, Init
<1>4. lastRun \in -1 .. FullEvery /\ lastFull \in -1 .. FullEvery /\ span \in 0 .. Slack
      /\ age \in [Msgs -> 0 .. AgeCap]
  BY <1>1, CapType, DaysAssumption DEF Init, Never
<1>5. TypeOK
  BY <1>1, <1>3, <1>4, MailAssumption DEF TypeOK, Init, Empty
<1>6. Held
  BY <1>1, MailAssumption DEF Held, Init, Empty, PullPcs, BackPcs, ExportPcs
<1> QED
  BY <1>5, <1>6 DEF TInv

-----------------------------------------------------------------------------
LEMMA MailboxTypes == TInv /\ Mailbox => TInv'
<1> SUFFICES ASSUME TInv, Mailbox PROVE TInv'
  OBVIOUS
<1> USE DEF TInv, Held, PullPcs, BackPcs, ExportPcs
<1>1. ASSUME NEW m \in Msgs, NEW to \in {"draft", "sent", "deleted", "discarded"}, Change(m, to)
      PROVE  TInv'
  <2>1. ThreadOf[m] \in Threads /\ 0 \in 0 .. AgeCap
    BY MailAssumption, CapType
  <2>2. mail' \in [Msgs -> {"none", "draft", "sent", "deleted", "discarded"}]
        /\ history' \in [Threads -> Nat] /\ age' \in [Msgs -> 0 .. AgeCap]
        /\ unlisted' \subseteq Msgs
    BY <1>1, <2>1 DEF Change, TypeOK
  <2>3. TypeOK'
    BY <1>1, <2>2 DEF Change, TypeOK, stamps, record, batch, export, LedgerType, MsgsOf
  <2> QED
    BY <1>1, <2>3 DEF Change, TypeOK, stamps, record, batch, export
<1>2. ASSUME NEW m \in Msgs, Arrive(m) \/ Draft(m) \/ Discard(m) \/ Delete(m)
      PROVE  TInv'
  BY <1>1, <1>2 DEF Arrive, Draft, Discard, Delete
<1>3. ASSUME NEW t \in Threads, Relabel(t)
      PROVE  TInv'
  <2>1. history' \in [Threads -> Nat]
    BY <1>3 DEF Relabel, TypeOK
  <2> QED
    BY <1>3, <2>1 DEF Relabel, TypeOK, stamps, record, batch, export, observed, LedgerType, MsgsOf
<1>4. ASSUME NEW t \in Threads, Move(t)
      PROVE  TInv'
  BY <1>4 DEF Move, TypeOK, mailbox, stamps, batch, export, observed, LedgerType, MsgsOf
<1>5. CASE Day
  <2>1. lastRun' \in -1 .. FullEvery /\ lastFull' \in -1 .. FullEvery
    BY <1>5, OlderType, DaysAssumption DEF Day, TypeOK
  <2>2. age' \in [Msgs -> 0 .. AgeCap]
    <3>1. \A m \in Msgs : age[m] \in 0 .. AgeCap /\ age[m] \in -1 .. AgeCap
      BY CapType DEF TypeOK
    <3>2. \A m \in Msgs : Older(age[m], AgeCap) \in 0 .. AgeCap
      BY <3>1, OlderType, CapType
    <3> QED
      BY <1>5, <3>2, CapType DEF Day
  <2>3. span' \in 0 .. Slack
    BY <1>5, DaysAssumption DEF Day, TypeOK
  <2> QED
    BY <1>5, <2>1, <2>2, <2>3 DEF Day, TypeOK, record, batch, export, observed, LedgerType, MsgsOf
<1> QED
  BY <1>2, <1>3, <1>4, <1>5 DEF Mailbox

LEMMA RunTypes == TInv /\ (Run \/ Crash) => TInv'
<1> SUFFICES ASSUME TInv, Run \/ Crash PROVE TInv'
  OBVIOUS
<1> USE DEF TInv, Held, PullPcs, BackPcs, ExportPcs, mailbox, stamps, record, batch,
            export, bounds, observed
<1>1. CASE Start
  <2>1. mode' \in {"pull", "full", "force"} /\ full' \in BOOLEAN
    BY <1>1, MailAssumption DEF Start, FullPlan
  <2>2. DOMAIN stubs' \subseteq Threads /\ \A t \in DOMAIN stubs' : stubs'[t] \in Nat
    BY <1>1 DEF Start, TypeOK
  <2>3. span' \in 0 .. Slack /\ unlisted' \subseteq Msgs
    BY <1>1, DaysAssumption DEF Start, TypeOK
  <2> QED
    BY <1>1, <2>1, <2>2, <2>3 DEF Start, Empty, TypeOK, LedgerType
<1>2. CASE StartBackfill
  <2>1. DOMAIN queue' \subseteq DOMAIN led' /\ \A t \in DOMAIN queue' : queue'[t] \in Queued
    BY <1>2 DEF StartBackfill, Queued
  <2>2. span' \in 0 .. Slack
    BY <1>2, DaysAssumption DEF StartBackfill
  <2> QED
    BY <1>2, <2>1, <2>2 DEF StartBackfill, Empty, TypeOK, LedgerType
<1>3. ASSUME NEW t \in Threads, FetchMeta(t) \/ SkipMeta(t)
      PROVE  TInv'
  <2>1. [ids |-> Mail(t), exclude |-> Drafts(t)] \in Metas
    BY OfThread DEF Metas
  <2> QED
    BY <1>3, <2>1 DEF FetchMeta, SkipMeta, TypeOK, LedgerType, With, Without, Restrict
<1>4. ASSUME NEW t \in Threads, Enqueue(t)
      PROVE  TInv'
  <2>1. [ids |-> meta[t].ids, exclude |-> meta[t].exclude, history |-> stubs[t]] \in Queued
    BY <1>4 DEF Enqueue, Ready, Metas, Queued
  <2> QED
    BY <1>4, <2>1 DEF Enqueue, Ready, Decided, TypeOK, LedgerType, With, Without, Restrict
<1>5. ASSUME NEW t \in Threads, Refresh(t)
      PROVE  TInv'
  <2>1. Cardinality(meta[t].ids) \in Nat /\ meta[t].ids \in SUBSET Msgs /\ stubs[t] \in Nat
    BY <1>5, CountType DEF Refresh, Ready, Metas
  <2>a. led[t] \in Entries
    BY <1>5 DEF Refresh, TypeOK, LedgerType
  <2>2. [led[t] EXCEPT !.history = stubs[t], !.ids = meta[t].ids, !.known = TRUE,
                       !.count = Cardinality(meta[t].ids)] \in Entries
    BY <2>1, <2>a DEF Entries
  <2>3. LedgerType(ledger') /\ LedgerType(led') /\ led' = ledger'
    BY <1>5, <2>2, PutType DEF Refresh
  <2> QED
    BY <1>5, <2>3 DEF Refresh, Ready, Decided, TypeOK, Without, Restrict
<1>6. ASSUME NEW t \in Threads, Absorb(t)
      PROVE  TInv'
  <2>1. Cardinality(meta[t].ids) \in Nat /\ stubs[t] \in Nat
    BY <1>6, CountType DEF Absorb, Ready, Metas
  <2>2. Absorbed(stubs[t], Cardinality(meta[t].ids)) \in Entries
    BY <2>1, EntryType DEF Absorbed
  <2>3. LedgerType(ledger') /\ LedgerType(led') /\ led' = ledger'
    BY <1>6, <2>2, PutType DEF Absorb
  <2> QED
    BY <1>6, <2>3 DEF Absorb, Ready, Decided, TypeOK, Without, Restrict
<1>7. ASSUME NEW t \in Threads, Capture(t)
      PROVE  TInv'
  <2>1. /\ wanted' \subseteq Msgs /\ shown' \subseteq Msgs
        /\ wanted' \subseteq MsgsOf(t) /\ shown' \subseteq MsgsOf(t)
    BY <1>7, OfThread DEF Capture
  <2>2. t # NoThread /\ MsgsOf(t)' = MsgsOf(t)
    BY MailAssumption DEF MsgsOf
  <2>3. TypeOK'
    BY <1>7, <2>1 DEF Capture, TypeOK, LedgerType, MsgsOf
  <2>4. cur' # NoThread => wanted' \subseteq MsgsOf(cur)' /\ shown' \subseteq MsgsOf(cur)'
    BY <1>7, <2>1 DEF Capture, MsgsOf
  <2> QED
    BY <1>7, <2>2, <2>3, <2>4 DEF Capture, TypeOK
<1>8. CASE Append
  <2>1. cur \in DOMAIN queue /\ mbox[cur] \subseteq MsgsOf(cur) /\ wanted \subseteq MsgsOf(cur)
    BY <1>8, MailAssumption DEF Append, TypeOK
  <2>2. mbox' \in [Threads -> SUBSET Msgs] /\ \A t \in Threads : mbox'[t] \subseteq MsgsOf(t)
    BY <1>8, <2>1, OfThread DEF Append, TypeOK
  <2> QED
    BY <1>8, <2>2 DEF Append, TypeOK, LedgerType, MsgsOf
<1>9. CASE AppendTorn
  <2>1. cur \in DOMAIN queue /\ mbox[cur] \subseteq MsgsOf(cur) /\ wanted \subseteq MsgsOf(cur)
    BY <1>9, MailAssumption DEF AppendTorn, TypeOK
  <2>2. mbox' \in [Threads -> SUBSET Msgs] /\ (\A t \in Threads : mbox'[t] \subseteq MsgsOf(t))
        /\ cut' \subseteq Msgs
    BY <1>9, <2>1, OfThread DEF AppendTorn, TypeOK
  <2> QED
    BY <1>9, <2>2 DEF AppendTorn, TypeOK, LedgerType, MsgsOf
<1>10. CASE Render
  <2>1. cur \in Threads /\ Renderable \subseteq MsgsOf(cur) /\ Renderable \subseteq Msgs
    BY <1>10, MailAssumption, OfThread DEF Render, Renderable, TypeOK
  <2> QED
    BY <1>10, <2>1 DEF Render, TypeOK, LedgerType, MsgsOf
<1>11. CASE Announce
  BY <1>11 DEF Announce, TypeOK, LedgerType, MsgsOf
<1>12. CASE Record
  <2>1. cur \in Threads /\ queue[cur].ids \in SUBSET Msgs /\ queue[cur].history \in Nat
    BY <1>12 DEF Record, Queued, TypeOK
  <2>2. Entry(queue[cur].history, Cardinality(queue[cur].ids), queue[cur].ids, TRUE, TRUE, FALSE)
          \in Entries
    BY <2>1, CountType, EntryType
  <2>3. LedgerType(ledger') /\ LedgerType(led') /\ led' = ledger'
    BY <1>12, <2>1, <2>2, PutType DEF Record
  <2> QED
    BY <1>12, <2>3 DEF Record, Leave, TypeOK, Without, Restrict, MsgsOf
<1>13. CASE Fail
  BY <1>13 DEF Fail, Leave, TypeOK, LedgerType, Without, Restrict, MsgsOf
<1>14. CASE Stamp
  <2>1. lastRun' \in -1 .. FullEvery /\ lastFull' \in -1 .. FullEvery /\ span' \in 0 .. Slack
    BY <1>14, DaysAssumption DEF Stamp, Exit, TypeOK
  <2> QED
    BY <1>14, <2>1 DEF Stamp, Exit, TypeOK, LedgerType, MsgsOf
<1>15. CASE Recapture
  <2>1. cur \in DOMAIN led /\ cur \in Threads /\ led[cur] \in Entries /\ shown \in SUBSET Msgs
    BY <1>15 DEF Recapture, TypeOK, LedgerType
  <2>2. MaxOf(led[cur].count, Cardinality(shown)) \in Nat
    BY <2>1, CountType DEF MaxOf, Entries
  <2>3. [led[cur] EXCEPT !.mbox = TRUE, !.ids = shown, !.known = TRUE,
                         !.count = MaxOf(@, Cardinality(shown))] \in Entries
    BY <2>1, <2>2 DEF Entries
  <2>4. LedgerType(ledger') /\ LedgerType(led') /\ led' = ledger' /\ DOMAIN led' = DOMAIN led \cup {cur}
    BY <1>15, <2>1, <2>3, PutType DEF Recapture
  <2> QED
    BY <1>15, <2>1, <2>4 DEF Recapture, Leave, TypeOK, Without, Restrict, MsgsOf
<1>16. ASSUME NEW t \in Threads, Gone(t)
       PROVE  TInv'
  <2>a. led[t] \in Entries
    BY <1>16 DEF Gone, TypeOK, LedgerType
  <2>1. [led[t] EXCEPT !.gone = TRUE] \in Entries
    BY <2>a DEF Entries
  <2>2. LedgerType(ledger') /\ LedgerType(led') /\ led' = ledger' /\ DOMAIN led' = DOMAIN led \cup {t}
    BY <1>16, <2>1, PutType DEF Gone
  <2> QED
    BY <1>16, <2>2 DEF Gone, TypeOK, Without, Restrict, MsgsOf
<1>17. CASE GoneMidway
  <2>a. cur \in Threads /\ led[cur] \in Entries
    BY <1>17 DEF GoneMidway, TypeOK, LedgerType
  <2>1. cur \in Threads /\ [led[cur] EXCEPT !.gone = TRUE] \in Entries
    BY <2>a DEF Entries
  <2>2. LedgerType(ledger') /\ LedgerType(led') /\ led' = ledger' /\ DOMAIN led' = DOMAIN led \cup {cur}
    BY <1>17, <2>1, PutType DEF GoneMidway
  <2> QED
    BY <1>17, <2>2 DEF GoneMidway, Leave, TypeOK, Without, Restrict, MsgsOf
<1>18. CASE ListMissing
  BY <1>18 DEF ListMissing, Empty, TypeOK, LedgerType, MsgsOf
<1>19. ASSUME NEW t \in Threads, Rerender(t)
       PROVE  TInv'
  <2>1. mbox[t] \subseteq Msgs
    BY DEF TypeOK
  <2> QED
    BY <1>19, <2>1 DEF Rerender, TypeOK, LedgerType, Without, Restrict, MsgsOf
<1>20. CASE EndBackfill
  <2>1. span' \in 0 .. Slack /\ pc' = "idle" /\ mode' = "pull" /\ full' = FALSE
    BY <1>20, DaysAssumption DEF EndBackfill, Exit
  <2>2. TypeOK'
    BY <1>20, <2>1 DEF EndBackfill, TypeOK, LedgerType, MsgsOf
  <2> QED
    BY <1>20, <2>1, <2>2 DEF EndBackfill, TypeOK, MsgsOf
<1>21. CASE Crash
  <2>1. span' \in 0 .. Slack /\ pc' = "idle" /\ mode' = "pull" /\ full' = FALSE
    BY <1>21, DaysAssumption DEF Crash, Exit
  <2>2. TypeOK'
    BY <1>21, <2>1 DEF Crash, Empty, TypeOK, LedgerType, MsgsOf
  <2> QED
    BY <1>21, <2>1, <2>2 DEF Crash, Empty, TypeOK, MsgsOf
<1> QED
  BY <1>1, <1>2, <1>3, <1>4, <1>5, <1>6, <1>7, <1>8, <1>9, <1>10, <1>11, <1>12, <1>13, <1>14,
     <1>15, <1>16, <1>17, <1>18, <1>19, <1>20, <1>21 DEF Run

LEMMA StepTypes == TInv /\ [Next]_vars => TInv'
<1>1. TInv /\ UNCHANGED vars => TInv'
  BY DEF TInv, TypeOK, Held, vars, mailbox, stamps, record, batch, export, bounds, observed,
         LedgerType, MsgsOf
<1> QED
  BY <1>1, MailboxTypes, RunTypes DEF Next

\* The state has the types TypeOK gives, and a run's ledger is the one on
\* disk: every decision is saved when it is made.
THEOREM TypeCorrect == Spec => []TInv
<1> QED
  BY InitTypes, StepTypes, PTL DEF Spec

-----------------------------------------------------------------------------
\* What was sent stays delivered, and what was deleted stays deleted.
LEMMA MailStays ==
  ASSUME TInv, [Next]_vars
  PROVE  \A m \in Msgs : /\ Delivered(m) => Delivered(m)'
                         /\ mail[m] = "deleted" => mail'[m] = "deleted"
<1>1. ASSUME NEW m \in Msgs, Arrive(m) \/ Draft(m) \/ Discard(m) \/ Delete(m)
      PROVE  \A k \in Msgs : /\ Delivered(k) => Delivered(k)'
                             /\ mail[k] = "deleted" => mail'[k] = "deleted"
  BY <1>1 DEF Arrive, Draft, Discard, Delete, Change, Delivered, TInv, TypeOK
<1>2. ASSUME mail' = mail
      PROVE  \A k \in Msgs : /\ Delivered(k) => Delivered(k)'
                             /\ mail[k] = "deleted" => mail'[k] = "deleted"
  BY <1>2 DEF Delivered
<1>3. ASSUME Mailbox
      PROVE  \/ mail' = mail
             \/ \E m \in Msgs : Arrive(m) \/ Draft(m) \/ Discard(m) \/ Delete(m)
  BY <1>3 DEF Mailbox, Relabel, Move, Day, mailbox
<1>4. Run \/ Crash \/ UNCHANGED vars => mail' = mail
  BY DEF Run, Crash, Start, StartBackfill, FetchMeta, SkipMeta, Enqueue, Refresh, Absorb, Capture,
     Gone, Rerender, Append, AppendTorn, Render, Announce, Record, Fail, Stamp, Recapture, GoneMidway,
     ListMissing, EndBackfill, vars, mailbox
<1> QED
  BY <1>1, <1>2, <1>3, <1>4 DEF Next

LEMMA InitOnlyMail == Init => OnlyMail
<1> SUFFICES ASSUME Init PROVE OnlyMail
  OBVIOUS
<1>1. PICK legacy \in SUBSET Legacy, old \in SUBSET Old :
        /\ mail = [m \in Msgs |-> IF m \in old THEN "sent" ELSE "none"]
        /\ ledger = [t \in legacy |-> Absorbed(0, Cardinality(old \cap MsgsOf(t)))]
        /\ told = old
  BY DEF Init
<1>2. \A m \in told : Delivered(m)
  BY <1>1, MailAssumption DEF Delivered
<1>3. \A t \in DOMAIN ledger : ledger[t].ids = {}
  BY <1>1 DEF Absorbed, Entry
<1> QED
  BY <1>2, <1>3 DEF Init, OnlyMail, Empty

LEMMA OnlyMailStep == TInv /\ OnlyMail /\ [Next]_vars => OnlyMail'
<1> SUFFICES ASSUME TInv, OnlyMail, [Next]_vars PROVE OnlyMail'
  OBVIOUS
<1>a. \A m \in Msgs : Delivered(m) => Delivered(m)'
  BY MailStays
<1>b. \A t \in Threads : \A m \in Sent(t) : m \in Msgs /\ Delivered(m)
  BY DEF Sent, MsgsOf, Delivered
<1>c. /\ \A t \in Threads : mbox[t] \subseteq Msgs
      /\ told \cup wanted \cup shown \subseteq Msgs
      /\ \A t \in DOMAIN ledger : t \in Threads /\ ledger[t].ids \subseteq Msgs
      /\ \A t \in DOMAIN meta : t \in Threads /\ meta[t].ids \subseteq Msgs
      /\ \A t \in DOMAIN queue : t \in Threads /\ queue[t].ids \subseteq Msgs
      /\ led = ledger
  BY DEF TInv, TypeOK, Held, LedgerType, Entries, Metas, Queued
<1> USE DEF OnlyMail, mailbox, stamps, record, batch, export, bounds, observed
<1>1. CASE UNCHANGED <<ledger, mbox, told, meta, queue, wanted, shown>>
  BY <1>1, <1>a, <1>c
<1>2. ASSUME mail' = mail PROVE \A m : Delivered(m)' <=> Delivered(m)
  BY <1>2 DEF Delivered
<1>3. CASE Mailbox
  BY <1>3, <1>1 DEF Mailbox, Arrive, Draft, Discard, Delete, Change, Relabel, Move, Day, record,
     batch, export
<1>4. CASE Start \/ StartBackfill
  BY <1>4, <1>2 DEF Start, StartBackfill, Empty
<1>5. ASSUME NEW t \in Threads, FetchMeta(t) \/ SkipMeta(t)
      PROVE  OnlyMail'
  BY <1>5, <1>2, <1>b, OfThread DEF FetchMeta, SkipMeta, With, Without, Restrict
<1>6. ASSUME NEW t \in Threads, Enqueue(t)
      PROVE  OnlyMail'
  BY <1>6, <1>2 DEF Enqueue, Ready, Decided, With, Without, Restrict
<1>7. ASSUME NEW t \in Threads, Refresh(t) \/ Absorb(t)
      PROVE  OnlyMail'
  <2>1. \A m \in meta[t].ids : Delivered(m)
    BY <1>7 DEF Refresh, Absorb, Ready
  <2>2. CASE Refresh(t)
    <3>1. led[t] \in Entries
      BY <2>2 DEF Refresh, TInv, TypeOK, LedgerType
    <3> DEFINE e == [led[t] EXCEPT !.history = stubs[t], !.ids = meta[t].ids, !.known = TRUE,
                                   !.count = Cardinality(meta[t].ids)]
    <3>a. Put(t, e)
      BY <2>2 DEF Refresh
    <3>b. e.ids = meta[t].ids
      BY <3>1 DEF Entries
    <3> HIDE DEF e
    <3>2. ledger' = led' /\ led'[t].ids = meta[t].ids
          /\ \A u \in DOMAIN led' : u # t => u \in DOMAIN ledger /\ led'[u] = ledger[u]
      BY <3>a, <3>b DEF Put, With, TInv, Held
    <3>3. \A u \in DOMAIN ledger' : \A m \in ledger'[u].ids : Delivered(m)
      BY <2>1, <3>2
    <3> QED
      BY <2>2, <1>2, <3>3 DEF Refresh, Decided, Without, Restrict
  <2>3. CASE Absorb(t)
    <3> DEFINE e == Absorbed(stubs[t], Cardinality(meta[t].ids))
    <3>a. Put(t, e)
      BY <2>3 DEF Absorb
    <3>b. e.ids = {}
      BY DEF Absorbed, Entry
    <3> HIDE DEF e
    <3>1. ledger' = led' /\ led'[t].ids = {}
          /\ \A u \in DOMAIN led' : u # t => u \in DOMAIN ledger /\ led'[u] = ledger[u]
      BY <3>a, <3>b DEF Put, With, TInv, Held
    <3>2. \A u \in DOMAIN ledger' : \A m \in ledger'[u].ids : Delivered(m)
      BY <3>1
    <3> QED
      BY <2>3, <1>2, <3>2 DEF Absorb, Decided, Without, Restrict
  <2> QED
    BY <1>7, <2>2, <2>3
<1>8. ASSUME NEW t \in Threads, Capture(t)
      PROVE  OnlyMail'
  BY <1>8, <1>2, <1>b, OfThread DEF Capture
<1>9. CASE Append \/ AppendTorn
  BY <1>9, <1>2, <1>c DEF Append, AppendTorn, TInv, TypeOK
<1>10. CASE Render
  <2>1. \A m \in Renderable : Delivered(m)
    BY <1>10 DEF Renderable, Render, TInv, TypeOK, Held, PullPcs, ExportPcs
  <2> QED
    BY <1>10, <1>2, <2>1 DEF Render
<1>11. CASE Announce
  BY <1>11, <1>2 DEF Announce
<1>12. CASE Record
  <2>1. \A m \in queue[cur].ids : Delivered(m)
    BY <1>12 DEF Record, TInv, TypeOK, Held, PullPcs, ExportPcs
  <2> QED
    BY <1>12, <1>2, <1>c, <2>1 DEF Record, Entry, Put, Leave, With, Without, Restrict
<1>13. CASE Fail
  BY <1>13, <1>2 DEF Fail, Leave, Without, Restrict
<1>14. CASE Stamp \/ EndBackfill \/ ListMissing
  BY <1>14, <1>2, <1>c DEF Stamp, EndBackfill, ListMissing
<1>15. CASE Recapture \/ GoneMidway
  <2>1. cur \in DOMAIN led /\ led[cur] \in Entries
    BY <1>15 DEF Recapture, GoneMidway, TInv, TypeOK, Held, LedgerType, BackPcs, ExportPcs
  <2>a. \E e : Put(cur, e) /\ e.ids \in {shown, ledger[cur].ids}
    <3>1. CASE Recapture
      <4> DEFINE e == [led[cur] EXCEPT !.mbox = TRUE, !.ids = shown, !.known = TRUE,
                                       !.count = MaxOf(@, Cardinality(shown))]
      <4>1. Put(cur, e) /\ e.ids = shown
        BY <2>1, <3>1 DEF Recapture, Entries
      <4> QED
        BY <4>1
    <3>2. CASE GoneMidway
      <4> DEFINE e == [led[cur] EXCEPT !.gone = TRUE]
      <4>1. Put(cur, e) /\ e.ids = ledger[cur].ids
        BY <1>c, <2>1, <3>2 DEF GoneMidway, Entries
      <4> QED
        BY <4>1
    <3> QED
      BY <1>15, <3>1, <3>2
  <2>b. led'[cur].ids \in {shown, ledger[cur].ids} /\ ledger' = led'
        /\ \A u \in DOMAIN led' : u # cur => u \in DOMAIN ledger /\ led'[u] = ledger[u]
    BY <2>a DEF Put, With, TInv, Held
  <2>2. ledger' = led' /\ \A u \in DOMAIN led' : \A m \in led'[u].ids : Delivered(m)
    BY <1>c, <2>1, <2>b
  <2> QED
    BY <1>15, <1>2, <2>2 DEF Recapture, GoneMidway, Leave, Without, Restrict
<1>16. ASSUME NEW t \in Threads, Gone(t)
       PROVE  OnlyMail'
  <2>1. t \in DOMAIN led /\ led[t] \in Entries
    BY <1>16 DEF Gone, TInv, TypeOK, Held, LedgerType, BackPcs
  <2>2. ledger' = led' /\ \A u \in DOMAIN led' : \A m \in led'[u].ids : Delivered(m)
    BY <1>16, <1>c, <2>1 DEF Gone, Put, With, Entries
  <2> QED
    BY <1>16, <1>2, <2>2 DEF Gone, Without, Restrict
<1>17. ASSUME NEW t \in Threads, Rerender(t)
       PROVE  OnlyMail'
  BY <1>17, <1>2 DEF Rerender
<1>18. CASE Crash
  BY <1>18, <1>2 DEF Crash, Empty
<1>19. CASE UNCHANGED vars
  BY <1>19, <1>1 DEF vars
<1> QED
  BY <1>3, <1>4, <1>5, <1>6, <1>7, <1>8, <1>9, <1>10, <1>11, <1>12, <1>13, <1>14, <1>15, <1>16,
     <1>17, <1>18, <1>19 DEF Next, Run

\* Nothing of a draft is stored, announced or recorded, whichever states the
\* calls of an export saw a message in (ADR-0049): a message the connector
\* has anything of was sent, and cannot become a draft again.
THEOREM DraftsNeverEnter == Spec => []DraftsStayOut
<1>1. TInv /\ OnlyMail => DraftsStayOut
  BY DEF TInv, TypeOK, OnlyMail, Delivered, DraftsStayOut
<1> QED
  BY <1>1, InitOnlyMail, OnlyMailStep, TypeCorrect, PTL DEF Spec

-----------------------------------------------------------------------------
(* What the ledger says of a thread that was never absorbed.               *)

\* The message needs nothing more: it was stored and shown, or is gone.
Done(m, t) == mail[m] = "deleted" \/ m \in mbox[t] \cap told

\* An entry is of an export: its messages are done, and they are all there
\* are as long as its historyId is the thread's.
EntryDone(t) ==
  /\ ledger[t].mbox /\ ledger[t].known
  /\ ledger[t].history <= history[t]
  /\ \A m \in ledger[t].ids : Done(m, t)
  /\ ledger[t].history = history[t] => \A m \in Sent(t) : Done(m, t)

LedgerDone == \A t \in DOMAIN ledger \ absorbed : EntryDone(t)

\* What was read of a thread: all of its mail, or of an older historyId.
Whole(t, id, ids, exclude) ==
  /\ id <= history[t] /\ ids \subseteq MsgsOf(t) /\ ids \cap exclude = {}
  /\ id = history[t] => Sent(t) \subseteq ids

ReadWhole ==
  /\ \A t \in DOMAIN stubs : stubs[t] <= history[t]
  /\ \A t \in DOMAIN meta : Whole(t, stubs[t], meta[t].ids, meta[t].exclude)
  /\ pc \in PullPcs => \A t \in DOMAIN queue :
       Whole(t, queue[t].history, queue[t].ids, queue[t].exclude)
  /\ pc \in BackPcs => DOMAIN queue \subseteq absorbed

\* How far the export of the current thread has come.
Reached(m) ==
  \/ mail[m] = "deleted"
  \/ /\ pc = "fetch" => m \in wanted \cup mbox[cur]
     /\ pc \in {"render", "announce", "record"} => m \in mbox[cur]
     /\ pc = "announce" => m \in shown
     /\ pc = "record" => m \in told

ExportDone ==
  pc \in PullPcs /\ cur \in DOMAIN queue \ absorbed => \A m \in queue[cur].ids : Reached(m)

Work == LedgerDone /\ ReadWhole /\ ExportDone
GInv == TInv /\ OnlyMail /\ Work

LEMMA WorkGivesProperties == GInv => SkippedIsDone /\ RecordedIsStored
<1> SUFFICES ASSUME GInv, NEW t \in DOMAIN ledger \ absorbed
             PROVE  /\ ledger[t].history = history[t] => Sent(t) \subseteq mbox[t] \cap told
                    /\ ledger[t].mbox => \A m \in ledger[t].ids : m \in mbox[t] \/ mail[m] = "deleted"
  BY DEF SkippedIsDone, RecordedIsStored
<1>1. EntryDone(t)
  BY DEF GInv, Work, LedgerDone
<1> QED
  BY <1>1 DEF EntryDone, Done, Sent

\* A change of the mailbox moves the historyId of its thread past whatever a
\* run or the ledger holds of it.
LEMMA MailboxWork == GInv /\ Mailbox => Work'
<1> SUFFICES ASSUME GInv, Mailbox PROVE Work'
  OBVIOUS
<1>a. TInv' /\ \A m \in Msgs : mail[m] = "deleted" => mail'[m] = "deleted"
  BY MailboxTypes, MailStays DEF GInv, Next
<1>b. \A t \in DOMAIN ledger : t \in Threads /\ ledger[t].history \in Nat /\ ledger[t].ids \subseteq Msgs
  BY DEF GInv, TInv, TypeOK, LedgerType, Entries
<1>c. \A t \in DOMAIN stubs : t \in Threads /\ stubs[t] \in Nat
  BY DEF GInv, TInv, TypeOK, Held
<1>d. /\ \A t \in DOMAIN queue : t \in Threads /\ queue[t].history \in Nat /\ queue[t].ids \subseteq Msgs
      /\ DOMAIN meta \subseteq DOMAIN stubs
  BY DEF GInv, TInv, TypeOK, Held, Queued
<1>1. ASSUME NEW u \in Threads, UNCHANGED <<ledger, mbox, told, stubs, meta, queue, pc, absorbed, cur, wanted, shown>>,
             history' = [history EXCEPT ![u] = @ + 1],
             \A m \in Msgs : ThreadOf[m] # u => mail'[m] = mail[m]
      PROVE  Work'
  <2>1. \A t \in Threads : /\ t # u => history'[t] = history[t] /\ Sent(t)' = Sent(t)
                           /\ t = u => history'[t] = history[t] + 1
                           /\ history[t] \in Nat
    BY <1>1 DEF Sent, MsgsOf, GInv, TInv, TypeOK
  <2>2. \A m \in Msgs, t \in Threads : Done(m, t) => Done(m, t)'
    BY <1>1, <1>a DEF Done
  <2>3. LedgerDone'
    <3> SUFFICES ASSUME NEW t \in DOMAIN ledger \ absorbed PROVE EntryDone(t)'
      BY <1>1 DEF LedgerDone
    <3>1. EntryDone(t) /\ t \in Threads /\ ledger[t].history \in Nat /\ ledger[t].ids \subseteq Msgs
          /\ Sent(t) \subseteq Msgs
      BY <1>b, OfThread DEF GInv, Work, LedgerDone
    <3>2. \A m \in ledger[t].ids : Done(m, t)'
      BY <3>1, <2>2 DEF EntryDone
    <3> QED
      BY <1>1, <3>1, <3>2, <2>1, <2>2 DEF EntryDone
  <2>4. \A t \in Threads, id \in Nat : \A ids, exclude :
          Whole(t, id, ids, exclude) => Whole(t, id, ids, exclude)'
    BY <2>1 DEF Whole, MsgsOf
  <2>5. ReadWhole'
    BY <1>1, <1>c, <1>d, <2>1, <2>4 DEF ReadWhole, GInv, Work
  <2>6. ExportDone'
    BY <1>1, <1>a, <1>d DEF ExportDone, Reached, GInv, Work
  <2> QED
    BY <2>3, <2>5, <2>6 DEF Work
<1>2. ASSUME NEW m \in Msgs, Arrive(m) \/ Draft(m) \/ Discard(m) \/ Delete(m)
      PROVE  Work'
  <2>1. /\ UNCHANGED <<ledger, mbox, told, stubs, meta, queue, pc, absorbed, cur, wanted, shown>>
        /\ history' = [history EXCEPT ![ThreadOf[m]] = @ + 1]
        /\ \A k \in Msgs : ThreadOf[k] # ThreadOf[m] => mail'[k] = mail[k]
    BY <1>2 DEF Arrive, Draft, Discard, Delete, Change, mailbox, stamps, record, batch, export, bounds, observed, GInv, TInv, TypeOK
  <2> QED
    BY <2>1, <1>1, MailAssumption
<1>3. ASSUME NEW t \in Threads, Relabel(t)
      PROVE  Work'
  BY <1>3, <1>1 DEF Relabel, mailbox, stamps, record, batch, export, bounds, observed
<1>4. ASSUME UNCHANGED <<mail, history, ledger, mbox, told, stubs, meta, queue, pc, absorbed, cur, wanted, shown>>
      PROVE  Work'
  BY <1>4 DEF GInv, Work, LedgerDone, EntryDone, Done, ReadWhole, Whole, ExportDone, Reached, Sent, MsgsOf
<1> QED
  BY <1>2, <1>3, <1>4 DEF Mailbox, Move, Day, mailbox, stamps, record, batch, export, bounds, observed

\* What is done stays done while the mailbox stands still and the record grows.
LEMMA LedgerKept ==
  ASSUME GInv, UNCHANGED <<ledger, mail, history, absorbed>>,
         \A t \in Threads : mbox[t] \subseteq mbox'[t], told \subseteq told'
  PROVE  LedgerDone'
<1> SUFFICES ASSUME NEW t \in DOMAIN ledger \ absorbed PROVE EntryDone(t)'
  BY DEF LedgerDone
<1>1. EntryDone(t) /\ t \in Threads
  BY DEF GInv, Work, LedgerDone, TInv, TypeOK, LedgerType
<1>2. Sent(t)' = Sent(t) /\ \A m : Done(m, t) => Done(m, t)'
  BY <1>1 DEF Sent, MsgsOf, Done
<1> QED
  BY <1>1, <1>2 DEF EntryDone

\* An entry is written for a thread: it is done, or the thread was absorbed.
LEMMA LedgerWritten ==
  ASSUME GInv, NEW t \in Threads, NEW e, Put(t, e),
         UNCHANGED <<mail, history, mbox, told>>, absorbed \subseteq absorbed',
         \/ t \in absorbed'
         \/ /\ e.mbox /\ e.known /\ e.history <= history[t]
            /\ \A m \in e.ids : Done(m, t)
            /\ e.history = history[t] => \A m \in Sent(t) : Done(m, t)
  PROVE  LedgerDone'
<1> SUFFICES ASSUME NEW u \in DOMAIN ledger' \ absorbed' PROVE EntryDone(u)'
  BY DEF LedgerDone
<1>1. Sent(u)' = Sent(u) /\ \A m : Done(m, u)' <=> Done(m, u)
  BY DEF Sent, MsgsOf, Done
<1>2. CASE u # t
  <2>1. u \in DOMAIN ledger \ absorbed /\ ledger'[u] = ledger[u]
    BY <1>2 DEF Put, With, GInv, TInv, Held
  <2>2. EntryDone(u)
    BY <2>1 DEF GInv, Work, LedgerDone
  <2> QED
    BY <1>1, <2>1, <2>2 DEF EntryDone
<1>3. CASE u = t
  <2>1. ledger'[u] = e
    BY <1>3 DEF Put, With
  <2> QED
    BY <1>1, <1>3, <2>1 DEF EntryDone
<1> QED
  BY <1>2, <1>3

LEMMA RunWork == GInv /\ (Run \/ Crash) => Work'
<1> SUFFICES ASSUME GInv, Run \/ Crash PROVE Work'
  OBVIOUS
<1>a. /\ \A t \in DOMAIN stubs : t \in Threads /\ stubs[t] \in Nat /\ stubs[t] <= history[t]
      /\ \A t \in Threads : history[t] \in Nat
      /\ led = ledger /\ LedgerDone /\ ReadWhole /\ ExportDone
      /\ DOMAIN queue \subseteq Threads /\ DOMAIN meta \subseteq DOMAIN stubs
      /\ mbox \in [Threads -> SUBSET Msgs] /\ NoThread \notin Threads
      /\ pc \in ExportPcs <=> cur # NoThread
      /\ cur # NoThread => cur \in DOMAIN queue
  BY MailAssumption DEF GInv, TInv, TypeOK, Held, Work, ReadWhole
<1>b. ASSUME UNCHANGED <<mail, history>>
      PROVE  \A t, id, ids, exclude : Whole(t, id, ids, exclude)' <=> Whole(t, id, ids, exclude)
  BY <1>b DEF Whole, Sent, MsgsOf
<1>c. ASSUME UNCHANGED <<mail, history, ledger, mbox, told, absorbed>> PROVE LedgerDone'
  BY <1>c, LedgerKept
<1> USE DEF PullPcs, BackPcs, ExportPcs, mailbox, stamps, record, batch, export, bounds,
            observed
<1>1. CASE Start
  <2>1. LedgerDone'
    BY <1>1, <1>c DEF Start
  <2>2. ReadWhole'
    BY <1>1, <1>a DEF Start, ReadWhole, Empty
  <2>3. ExportDone'
    BY <1>1 DEF Start, ExportDone, Empty
  <2> QED
    BY <2>1, <2>2, <2>3 DEF Work
<1>2. CASE StartBackfill
  <2>1. LedgerDone'
    BY <1>2, <1>c DEF StartBackfill
  <2>2. DOMAIN queue' \subseteq absorbed
    BY <1>2, <1>a DEF StartBackfill, LedgerDone, EntryDone
  <2>3. ReadWhole'
    BY <1>2, <1>a, <2>2 DEF StartBackfill, ReadWhole, Empty
  <2>4. ExportDone'
    BY <1>2 DEF StartBackfill, ExportDone
  <2> QED
    BY <2>1, <2>3, <2>4 DEF Work
<1>3. ASSUME NEW t \in Threads, FetchMeta(t) \/ SkipMeta(t)
      PROVE  Work'
  <2>1. LedgerDone'
    BY <1>3, <1>c DEF FetchMeta, SkipMeta
  <2>2. Whole(t, stubs[t], Mail(t), Drafts(t))
    BY <1>3, <1>a DEF FetchMeta, SkipMeta, Whole, Mail, Sent, Drafts
  <2>3. ReadWhole'
    BY <1>3, <1>a, <1>b, <2>2 DEF FetchMeta, SkipMeta, ReadWhole, With, Without, Restrict
  <2>4. ExportDone'
    BY <1>3, <1>a DEF FetchMeta, SkipMeta, ExportDone, Reached
  <2> QED
    BY <2>1, <2>3, <2>4 DEF Work
<1>4. ASSUME NEW t \in Threads, Enqueue(t)
      PROVE  Work'
  <2>1. LedgerDone'
    BY <1>4, <1>c DEF Enqueue
  <2>2. Whole(t, stubs[t], meta[t].ids, meta[t].exclude)
    BY <1>4, <1>a DEF Enqueue, Ready, ReadWhole
  <2>3. ReadWhole'
    BY <1>4, <1>a, <1>b, <2>2 DEF Enqueue, Ready, Decided, ReadWhole, With, Without, Restrict
  <2>4. ExportDone'
    BY <1>4, <1>a DEF Enqueue, Ready, With, ExportDone
  <2> QED
    BY <2>1, <2>3, <2>4 DEF Work
<1>5. ASSUME NEW t \in Threads, Refresh(t)
      PROVE  Work'
  <2> DEFINE e == [led[t] EXCEPT !.history = stubs[t], !.ids = meta[t].ids, !.known = TRUE,
                                 !.count = Cardinality(meta[t].ids)]
  <2>1. Put(t, e) /\ led[t] \in Entries /\ t \in DOMAIN ledger
    BY <1>5, <1>a DEF Refresh, GInv, TInv, TypeOK, LedgerType
  <2>2. e.history = stubs[t] /\ e.ids = meta[t].ids /\ e.known = TRUE /\ e.mbox = ledger[t].mbox
    BY <2>1, <1>a DEF Entries
  <2>3. Whole(t, stubs[t], meta[t].ids, meta[t].exclude)
    BY <1>5, <1>a DEF Refresh, Ready, ReadWhole
  <2>4. t \notin absorbed => /\ e.mbox /\ e.known /\ e.history <= history[t]
                             /\ \A m \in e.ids : Done(m, t)
                             /\ e.history = history[t] => \A m \in Sent(t) : Done(m, t)
    <3> SUFFICES ASSUME t \notin absorbed
                 PROVE  /\ e.mbox /\ e.known /\ e.history <= history[t]
                        /\ \A m \in e.ids : Done(m, t)
                        /\ e.history = history[t] => \A m \in Sent(t) : Done(m, t)
      OBVIOUS
    <3>1. EntryDone(t)
      BY <1>a, <2>1 DEF LedgerDone
    <3>2. meta[t].ids = ledger[t].ids
      BY <1>5, <1>a, <3>1 DEF Refresh, ThreadChanged, EntryDone
    <3> HIDE DEF e
    <3> QED
      BY <2>2, <2>3, <3>1, <3>2 DEF EntryDone, Whole
  <2> HIDE DEF e
  <2>5. LedgerDone'
    BY <1>5, <2>1, <2>4, LedgerWritten DEF Refresh
  <2>6. ReadWhole'
    BY <1>5, <1>a, <1>b DEF Refresh, Decided, ReadWhole, Without, Restrict
  <2>7. ExportDone'
    BY <1>5, <1>a DEF Refresh, Ready, ExportDone
  <2> QED
    BY <2>5, <2>6, <2>7 DEF Work
<1>6. ASSUME NEW t \in Threads, Absorb(t)
      PROVE  Work'
  <2>1. LedgerDone'
    BY <1>6, LedgerWritten DEF Absorb
  <2>2. ReadWhole'
    BY <1>6, <1>a, <1>b DEF Absorb, Ready, Decided, ReadWhole, Without, Restrict
  <2>3. ExportDone'
    BY <1>6, <1>a DEF Absorb, Ready, ExportDone
  <2> QED
    BY <2>1, <2>2, <2>3 DEF Work
<1>7. ASSUME NEW t \in Threads, Capture(t)
      PROVE  Work'
  <2>1. LedgerDone'
    BY <1>7, <1>c DEF Capture
  <2>2. ReadWhole'
    BY <1>7, <1>a, <1>b DEF Capture, ReadWhole
  <2>3. ExportDone'
    <3> SUFFICES ASSUME pc' \in PullPcs, cur' \in DOMAIN queue' \ absorbed',
                        NEW m \in queue'[cur'].ids
                 PROVE  Reached(m)'
      BY DEF ExportDone
    <3>1. /\ pc = "decide" /\ pc' = "fetch" /\ cur' = t /\ t \in DOMAIN queue \ absorbed
          /\ m \in queue[t].ids /\ wanted' = Sent(t) \ Known(t)
          /\ UNCHANGED <<mail, mbox, led, ledger>>
      BY <1>7, OfThread DEF Capture
    <3>2. Whole(t, queue[t].history, queue[t].ids, queue[t].exclude)
      BY <3>1, <1>a DEF ReadWhole
    <3>3. m \in MsgsOf(t) /\ Delivered(m)
      BY <3>1, <3>2 DEF Whole, GInv, OnlyMail
    <3>4. CASE m \in Known(t)
      <4>1. t \in DOMAIN ledger /\ m \in ledger[t].ids
        BY <3>4, <1>a DEF Known
      <4>2. Done(m, t)
        BY <4>1, <3>1, <1>a DEF LedgerDone, EntryDone
      <4> QED
        BY <3>1, <4>2 DEF Done, Reached
    <3>5. CASE m \notin Known(t)
      BY <3>1, <3>3, <3>5 DEF Delivered, Sent, Reached
    <3> QED
      BY <3>4, <3>5
  <2> QED
    BY <2>1, <2>2, <2>3 DEF Work
<1>8. CASE Append
  <2>1. LedgerDone'
    <3>1. \A t \in Threads : mbox[t] \subseteq mbox'[t]
      BY <1>8, <1>a DEF Append
    <3> QED
      BY <1>8, <3>1, LedgerKept DEF Append
  <2>2. ReadWhole'
    BY <1>8, <1>a, <1>b DEF Append, ReadWhole
  <2>3. ExportDone'
    <3>1. \A m \in wanted : Delivered(m)
      BY DEF GInv, OnlyMail
    <3>2. \A m \in wanted : mail[m] = "sent"
      BY <1>8, <3>1 DEF Append, Delivered
    <3> QED
      BY <1>8, <1>a, <3>2 DEF Append, ExportDone, Reached
  <2> QED
    BY <2>1, <2>2, <2>3 DEF Work
<1>9. CASE AppendTorn
  <2>1. LedgerDone'
    <3>1. \A t \in Threads : mbox[t] \subseteq mbox'[t]
      BY <1>9, <1>a DEF AppendTorn
    <3> QED
      BY <1>9, <3>1, LedgerKept DEF AppendTorn
  <2>2. ReadWhole'
    BY <1>9, <1>a, <1>b DEF AppendTorn, ReadWhole
  <2>3. ExportDone'
    BY <1>9, <1>a DEF AppendTorn, ExportDone, Reached
  <2> QED
    BY <2>1, <2>2, <2>3 DEF Work
<1>10. CASE Render
  <2>1. LedgerDone'
    BY <1>10, <1>c DEF Render
  <2>2. ReadWhole'
    BY <1>10, <1>a, <1>b DEF Render, ReadWhole
  <2>3. ExportDone'
    <3>1. CASE Renderable = {}
      BY <1>10, <1>a, <3>1 DEF Render, ExportDone, Reached
    <3>2. CASE Renderable # {}
      <4> SUFFICES ASSUME cur \in DOMAIN queue \ absorbed, NEW m \in queue[cur].ids
                   PROVE  Reached(m)'
        BY <1>10, <3>2 DEF Render, ExportDone
      <4>1. Reached(m) /\ pc = "render"
        BY <1>10, <1>a DEF Render, ExportDone
      <4>2. m \notin queue[cur].exclude
        BY <4>1, <1>a DEF ReadWhole, Whole
      <4> QED
        BY <1>10, <3>2, <4>1, <4>2 DEF Render, Renderable, Reached
    <3> QED
      BY <3>1, <3>2
  <2> QED
    BY <2>1, <2>2, <2>3 DEF Work
<1>11. CASE Announce
  <2>1. LedgerDone'
    <3>1. told \subseteq told'
      BY <1>11 DEF Announce
    <3> QED
      BY <1>11, <3>1, LedgerKept DEF Announce
  <2>2. ReadWhole'
    BY <1>11, <1>a, <1>b DEF Announce, ReadWhole
  <2>3. ExportDone'
    BY <1>11, <1>a DEF Announce, ExportDone, Reached
  <2> QED
    BY <2>1, <2>2, <2>3 DEF Work
<1>12. CASE Record
  <2> DEFINE e == Entry(queue[cur].history, Cardinality(queue[cur].ids), queue[cur].ids, TRUE, TRUE, FALSE)
  <2>1. Put(cur, e) /\ cur \in Threads /\ cur \in DOMAIN queue /\ pc = "record"
    BY <1>12, <1>a DEF Record
  <2>2. e.history = queue[cur].history /\ e.ids = queue[cur].ids /\ e.known = TRUE /\ e.mbox = TRUE
    BY DEF Entry
  <2>3. Whole(cur, queue[cur].history, queue[cur].ids, queue[cur].exclude)
    BY <2>1, <1>a DEF ReadWhole
  <2>4. cur \notin absorbed => \A m \in queue[cur].ids : Done(m, cur)
    BY <2>1, <1>a DEF ExportDone, Reached, Done
  <2> HIDE DEF e
  <2>5. LedgerDone'
    BY <1>12, <2>1, <2>2, <2>3, <2>4, LedgerWritten DEF Record, Whole
  <2>6. ReadWhole'
    BY <1>12, <1>a, <1>b DEF Record, Leave, ReadWhole, Without, Restrict
  <2>7. ExportDone'
    BY <1>12, <1>a DEF Record, Leave, ExportDone, Without, Restrict
  <2> QED
    BY <2>5, <2>6, <2>7 DEF Work
<1>13. CASE Fail
  <2>1. LedgerDone'
    BY <1>13, <1>c DEF Fail
  <2>2. ReadWhole'
    BY <1>13, <1>a, <1>b DEF Fail, Leave, ReadWhole, Without, Restrict
  <2>3. ExportDone'
    BY <1>13, <1>a DEF Fail, Leave, ExportDone, Without, Restrict
  <2> QED
    BY <2>1, <2>2, <2>3 DEF Work
<1>14. CASE Stamp \/ EndBackfill
  <2>1. LedgerDone'
    BY <1>14, <1>a, <1>c DEF Stamp, EndBackfill
  <2>2. ReadWhole'
    BY <1>14, <1>a, <1>b DEF Stamp, EndBackfill, Exit, ReadWhole
  <2>3. ExportDone'
    BY <1>14 DEF Stamp, EndBackfill, Exit, ExportDone
  <2> QED
    BY <2>1, <2>2, <2>3 DEF Work
<1>19. CASE ListMissing
  <2>1. LedgerDone'
    BY <1>19, <1>c DEF ListMissing
  <2>2. DOMAIN meta' = {} /\ DOMAIN queue' = {}
        /\ \A t \in DOMAIN stubs' : stubs'[t] = 0 /\ t \in Threads /\ history'[t] = history[t]
    BY <1>19 DEF ListMissing, Empty, GInv, TInv, TypeOK, LedgerType, Held
  <2>3. ReadWhole'
    <3>1. \A t \in DOMAIN stubs' : 0 <= history'[t]
      BY <1>a, <2>2
    <3>2. \A t \in DOMAIN stubs' : stubs'[t] <= history'[t]
      BY <2>2, <3>1
    <3>3. pc' = "rerender"
      BY <1>19 DEF ListMissing
    <3> QED
      BY <2>2, <3>2, <3>3 DEF ReadWhole
  <2>4. ExportDone'
    BY <1>19 DEF ListMissing, ExportDone
  <2> QED
    BY <2>1, <2>3, <2>4 DEF Work
<1>15. CASE Recapture \/ GoneMidway
  <2>1. cur \in Threads /\ cur \in absorbed
    BY <1>15, <1>a DEF Recapture, GoneMidway, ReadWhole
  <2>2. \E e : Put(cur, e)
    BY <1>15 DEF Recapture, GoneMidway
  <2>3. LedgerDone'
    BY <1>15, <2>1, <2>2, LedgerWritten DEF Recapture, GoneMidway
  <2>4. ReadWhole'
    BY <1>15, <1>a, <1>b DEF Recapture, GoneMidway, Leave, ReadWhole, Without, Restrict
  <2>5. ExportDone'
    BY <1>15, <1>a DEF Recapture, GoneMidway, Leave, ExportDone
  <2> QED
    BY <2>3, <2>4, <2>5 DEF Work
<1>16. ASSUME NEW t \in Threads, Gone(t)
       PROVE  Work'
  <2>1. t \in absorbed
    BY <1>16, <1>a DEF Gone, ReadWhole
  <2>2. \E e : Put(t, e)
    BY <1>16 DEF Gone
  <2>3. LedgerDone'
    BY <1>16, <2>1, <2>2, LedgerWritten DEF Gone
  <2>4. ReadWhole'
    BY <1>16, <1>a, <1>b DEF Gone, ReadWhole, Without, Restrict
  <2>5. ExportDone'
    BY <1>16, <1>a DEF Gone, ExportDone
  <2> QED
    BY <2>3, <2>4, <2>5 DEF Work
<1>17. ASSUME NEW t \in Threads, Rerender(t)
       PROVE  Work'
  <2>1. LedgerDone'
    BY <1>17, LedgerKept DEF Rerender
  <2>2. ReadWhole'
    <3>1. DOMAIN meta = {}
      BY <1>17 DEF Rerender, GInv, TInv, Held
    <3> QED
      BY <1>17, <1>a, <1>b, <3>1 DEF Rerender, ReadWhole, Without, Restrict
  <2>3. ExportDone'
    BY <1>17, <1>a DEF Rerender, ExportDone
  <2> QED
    BY <2>1, <2>2, <2>3 DEF Work
<1>18. CASE Crash
  <2>1. LedgerDone'
    BY <1>18, <1>c DEF Crash
  <2>2. ReadWhole'
    BY <1>18 DEF Crash, Exit, ReadWhole, Empty
  <2>3. ExportDone'
    BY <1>18 DEF Crash, Exit, ExportDone
  <2> QED
    BY <2>1, <2>2, <2>3 DEF Work
<1> QED
  BY <1>1, <1>2, <1>3, <1>4, <1>5, <1>6, <1>7, <1>8, <1>9, <1>10, <1>11, <1>12, <1>13, <1>14,
     <1>15, <1>16, <1>17, <1>18, <1>19 DEF Run

LEMMA InitWork == Init => Work
<1> SUFFICES ASSUME Init PROVE Work
  OBVIOUS
<1>1. DOMAIN ledger \subseteq absorbed
  BY DEF Init
<1> QED
  BY <1>1 DEF Init, Work, LedgerDone, ReadWhole, ExportDone, Empty, PullPcs, BackPcs

LEMMA StepWork == GInv /\ [Next]_vars => GInv'
<1>1. GInv /\ UNCHANGED vars => Work'
  BY DEF GInv, Work, LedgerDone, EntryDone, Done, ReadWhole, Whole, ExportDone, Reached, Sent, MsgsOf,
         vars, mailbox, stamps, record, batch, export, bounds, observed
<1>2. GInv /\ [Next]_vars => Work'
  BY <1>1, MailboxWork, RunWork DEF Next
<1> QED
  BY <1>2, StepTypes, OnlyMailStep DEF GInv

LEMMA WorkHolds == Spec => []GInv
<1>1. Init => OnlyMail
  BY InitOnlyMail
<1>2. Init => GInv
  BY <1>1, InitTypes, InitWork DEF GInv
<1> QED
  BY <1>2, StepWork, PTL DEF Spec

\* A thread whose historyId is unchanged may be skipped: every message of it is
\* stored, and shown by a PDF that was announced, however many calls, failures
\* and kills its export took.
THEOREM SkippingIsSafe == Spec => []SkippedIsDone
<1> QED
  BY WorkHolds, WorkGivesProperties, PTL

\* A message the ledger of an mbox lists, and which is never fetched again for
\* it, is in the mbox.
THEOREM LedgerIsTrue == Spec => []RecordedIsStored
<1> QED
  BY WorkHolds, WorkGivesProperties, PTL
-----------------------------------------------------------------------------
(* Days.  What was sent since the last listing is no older than the run    *)
(* that is on, and no older than the last run and the slack of its window. *)

Reach ==
  /\ lastRun = Never => lastFull = Never
  /\ \A m \in unlisted : /\ mail[m] = "sent"
                         /\ pc \in PullPcs => age[m] <= span
                         /\ lastRun # Never /\ lastRun < FullEvery => age[m] <= lastRun + Slack

\* The window of a listing that is not full reaches what is unlisted.
LEMMA WindowReaches ==
  ASSUME TInv, Reach, Start
  PROVE  unlisted' = {}
<1> SUFFICES ASSUME NEW m \in unlisted, ThreadOf[m] \notin {t \in Threads : Listed(t)}
             PROVE  FALSE
  BY DEF Start
<1>1. m \in Msgs /\ ThreadOf[m] \in Threads /\ m \in Sent(ThreadOf[m])
  BY MailAssumption DEF TInv, TypeOK, Reach, Sent, MsgsOf
<1>2. ~full' /\ ~(age[m] <= Window)
  BY <1>1 DEF Listed
<1>3. lastFull # Never /\ lastRun # Never
  BY <1>2 DEF Start, FullPlan, Reach
<1>4. lastRun \in 0 .. FullEvery /\ age[m] \in 0 .. AgeCap
  BY <1>1, <1>3 DEF TInv, TypeOK, Never
<1>5. CASE lastRun < FullEvery
  <2>1. age[m] <= lastRun + Slack
    BY <1>3, <1>5 DEF Reach
  <2> QED
    BY <1>2, <1>4, <2>1, DaysAssumption DEF Window, MaxOf, AgeCap
<1>6. CASE lastRun = FullEvery
  BY <1>2, <1>4, <1>6, DaysAssumption DEF Window, MaxOf, AgeCap
<1> QED
  BY <1>4, <1>5, <1>6, DaysAssumption

LEMMA ReachStep == TInv /\ Reach /\ [Next]_vars => Reach'
<1> SUFFICES ASSUME TInv, Reach, [Next]_vars PROVE Reach'
  OBVIOUS
<1>a. /\ lastRun \in -1 .. FullEvery /\ span \in 0 .. Slack /\ unlisted \subseteq Msgs
      /\ age \in [Msgs -> 0 .. AgeCap] /\ mail \in [Msgs -> {"none", "draft", "sent", "deleted", "discarded"}]
      /\ AgeCap \in Nat
  BY CapType DEF TInv, TypeOK
<1> USE DaysAssumption DEF Never, PullPcs, mailbox, stamps, record, batch, export, bounds, observed
<1>1. ASSUME NEW m \in Msgs, Arrive(m) \/ Draft(m) \/ Discard(m) \/ Delete(m)
      PROVE  Reach'
  BY <1>1, <1>a DEF Arrive, Draft, Discard, Delete, Change, Reach
<1>2. ASSUME NEW t \in Threads, Relabel(t) \/ Move(t)
      PROVE  Reach'
  BY <1>2 DEF Relabel, Move, Reach
<1>3. CASE Day
  <2>1. /\ lastRun' = Older(lastRun, FullEvery) /\ lastFull' = Older(lastFull, FullEvery)
        /\ span' = IF pc = "idle" THEN 0 ELSE span + 1
        /\ UNCHANGED <<mail, unlisted, pc>>
        /\ \A m \in unlisted : age'[m] = Older(age[m], AgeCap)
    BY <1>3, <1>a DEF Day, Reach
  <2>2. \A m \in unlisted : age'[m] \in Nat /\ age'[m] <= age[m] + 1
    BY <1>a, <2>1 DEF Older
  <2>3. lastRun' = Never <=> lastRun = Never
    BY <1>a, <2>1 DEF Older
  <2>4. lastFull = Never => lastFull' = Never
    BY <2>1 DEF Older
  <2>5. ASSUME NEW m \in unlisted, lastRun' # Never, lastRun' < FullEvery
        PROVE  age'[m] <= lastRun' + Slack
    <3>1. lastRun # Never /\ lastRun < FullEvery /\ lastRun' = lastRun + 1
      BY <1>a, <2>1, <2>3, <2>5 DEF Older
    <3>2. age[m] <= lastRun + Slack /\ age[m] \in Nat
      BY <1>a, <3>1 DEF Reach
    <3> QED
      BY <1>a, <2>2, <3>1, <3>2
  <2>6. ASSUME NEW m \in unlisted, pc \in PullPcs
        PROVE  age'[m] <= span'
    <3>1. age[m] <= span /\ age[m] \in Nat /\ span' = span + 1
      BY <1>a, <2>1, <2>6 DEF Reach
    <3> QED
      BY <1>a, <2>2, <3>1
  <2> QED
    BY <2>1, <2>3, <2>4, <2>5, <2>6 DEF Reach
<1>4. CASE Start
  BY <1>4, WindowReaches DEF Start, Reach
<1>5. CASE Stamp
  BY <1>5, <1>a DEF Stamp, Exit, Reach
<1>6. CASE StartBackfill \/ ListMissing \/ EndBackfill \/ Recapture \/ GoneMidway \/ Crash
  BY <1>6 DEF StartBackfill, ListMissing, EndBackfill, Recapture, GoneMidway, Crash, Exit, Reach
<1>7. ASSUME NEW t \in Threads, \/ FetchMeta(t) \/ SkipMeta(t) \/ Enqueue(t) \/ Refresh(t) \/ Absorb(t)
                                \/ Capture(t) \/ Gone(t) \/ Rerender(t)
      PROVE  Reach'
  BY <1>7 DEF FetchMeta, SkipMeta, Enqueue, Ready, Refresh, Absorb, Capture, Gone, Rerender, Reach
<1>8. CASE Append \/ AppendTorn \/ Render \/ Announce \/ Record \/ Fail
  BY <1>8 DEF Append, AppendTorn, Render, Announce, Record, Fail, Reach
<1>9. CASE UNCHANGED vars
  BY <1>9 DEF vars, Reach
<1> QED
  BY <1>1, <1>2, <1>3, <1>4, <1>5, <1>6, <1>7, <1>8, <1>9 DEF Next, Mailbox, Run

\* Every message that was sent since the last listing is in reach of the next
\* one, full or not, however many days the runs take up to the slack, and
\* however many of them were killed before they moved the stamps (listingPlan).
THEOREM ListingsReach == Spec => NothingEscapes
<1>1. Init => Reach
  BY DEF Init, Reach
<1>2. TInv /\ Reach /\ [Next]_vars => (pc = "idle" /\ pc' = "decide" => unlisted' = {})
  <2>1. TInv /\ [Next]_vars /\ pc = "idle" /\ pc' = "decide" => Start
    BY DEF Next, Mailbox, Run, Arrive, Draft, Discard, Delete, Change, Relabel, Move, Day, StartBackfill,
       FetchMeta, SkipMeta, Enqueue, Ready, Refresh, Absorb, Capture, Append, AppendTorn, Render, Announce,
       Record, Fail, Stamp, Recapture, GoneMidway, Gone, ListMissing, Rerender, EndBackfill, Crash, vars
  <2> QED
    BY <2>1, WindowReaches
<1> QED
  BY <1>1, <1>2, ReachStep, TypeCorrect, PTL DEF Spec, NothingEscapes
=============================================================================
