----------------------------- MODULE PhoneStore -----------------------------
(***************************************************************************)
(* triage/phone_store.py: one matter's store of text messages and calls,   *)
(* fed from the backups of a phone.  A backup holds what was on the phone  *)
(* when it was taken.  The store remembers, for each backup it read and    *)
(* each kind of record, the dates it read it across (the coverage table);  *)
(* a large backup is read only across the dates that no coverage has yet,  *)
(* each gap started a margin early; a small one is read whole.  Nothing    *)
(* older than the configured date of relevance is kept, and that date can  *)
(* be moved.                                                               *)
(*                                                                         *)
(* Dates are Days.  A list of intervals is the set of days in it: merge is *)
(* union and subtract is difference.  Reading one backup is one            *)
(* transaction, committed at its end.                                      *)
(***************************************************************************)
EXTENDS Integers, FiniteSets

CONSTANTS
  Records,       \* messages and calls
  Tags,          \* kinds of records: "sms", "mms", "call"
  MaxDay,        \* bound: dates are 1 .. MaxDay
  Backups,       \* backup files
  Taken,         \* the day each was taken
  Small,         \* those below FULL_READ_BELOW
  Shuffled,      \* those whose records are not in the order of their dates
  Margin,        \* overlap_days
  Sinces         \* values of phone.since in matter.yaml

Days == 1 .. MaxDay

ASSUME BackupsAssumption ==
  /\ MaxDay \in Nat /\ Margin \in Nat /\ Sinces \subseteq Days
  /\ Taken \in [Backups -> Days] /\ Small \subseteq Backups /\ Shuffled \subseteq Backups
  /\ \A b, c \in Backups : Taken[b] = Taken[c] => b = c

VARIABLES
  phone,       \* each record: its kind and date, the days it reached the phone and was deleted
  visible,     \* backups the drive has synced
  config,      \* phone.since
  since,       \* the store's since_ms; 0 before the first ingest
  store,       \* the records in the store
  coverage,    \* days covered, by backup and kind
  source,      \* each backup's row: "none", "read", "covered", "empty"
  whole,       \* backups read in full
  ingest,      \* "idle", or the ingest is at its "first" file, or at the "rest"
  exhaustive,  \* it was told to read every file in full
  queue,       \* files it has still to examine
  peak         \* history: the latest date of relevance so far

storeVars == <<phone, visible, config, since, store, coverage, source, whole, ingest,
               exhaustive, queue, peak>>

Phone == [tag : Tags, date : Days, arrives : Days, gone : 2 .. MaxDay + 1]

Date(r)     == phone[r].date
Contents(b) == {r \in Records : phone[r].arrives <= Taken[b] /\ Taken[b] < phone[r].gone}
Block(b, t) == {r \in Contents(b) : phone[r].tag = t}
From(d, S)  == {r \in S : Date(r) >= d}

\* On or after the first record of the block.
Reaches(b, t, d) == \E r \in Block(b, t) : Date(r) <= d

NoDays == [t \in Tags |-> {}]

StoreInit ==
  /\ phone \in {p \in [Records -> Phone] :
                  \A r \in Records : p[r].date <= p[r].arrives /\ p[r].arrives < p[r].gone}
  /\ visible = {} /\ config \in Sinces /\ since = 0
  /\ store = {} /\ coverage = [b \in Backups |-> NoDays]
  /\ source = [b \in Backups |-> "none"] /\ whole = {}
  /\ ingest = "idle" /\ exhaustive = FALSE /\ queue = {} /\ peak = 0

-----------------------------------------------------------------------------
\* The drive syncs a backup, in any order.  An ingest lists the files and reads
\* the configuration once, as it starts: changes between two ingests are enough.
Appear(b) ==
  /\ ingest = "idle" /\ b \notin visible
  /\ visible' = visible \cup {b}
  /\ UNCHANGED <<phone, config, since, store, coverage, source, whole, ingest, exhaustive,
                 queue, peak>>

\* The date of relevance is moved in matter.yaml.
Configure(d) ==
  /\ ingest = "idle" /\ d # config /\ config' = d
  /\ UNCHANGED <<phone, visible, since, store, coverage, source, whole, ingest, exhaustive,
                 queue, peak>>

MaxOf(a, b) == IF a > b THEN a ELSE b

\* apply_since: a later date prunes the store; an earlier one makes the
\* backups that were not needed candidates again.
Prune   == store' = IF since = 0 THEN store ELSE From(config, store)
Rejudge == source' = IF config >= since THEN source
                     ELSE [b \in Backups |-> IF source[b] \in {"covered", "empty"}
                                               THEN "none" ELSE source[b]]

\* ingest: the store is opened, and the files that are not in it are listed.
Open(all) ==
  /\ ingest = "idle"
  /\ since' = config /\ peak' = MaxOf(peak, config)
  /\ Prune /\ Rejudge
  /\ queue' = {b \in visible : source'[b] = "none"}
  /\ exhaustive' = all /\ ingest' = "first"
  /\ UNCHANGED <<phone, visible, config, coverage, whole>>

Newest(B) == {b \in B : \A c \in B : Taken[c] <= Taken[b]}

\* choose_order: the newest large backup is first, the small ones are last;
\* the order between, which saves reading, is left open.
Turn(b) ==
  LET large == queue \ Small
  IN  /\ ingest # "idle" /\ b \in queue
      /\ large # {} => b \in large /\ (ingest = "first" => b \in Newest(large))

Covered(t) == UNION {coverage[b][t] : b \in Backups}

\* plan_reads: the gaps, each widened by the margin.
Gap(t, end) == {d \in Days : since <= d /\ d <= end} \ Covered(t)

PlanSlip(t, end) == Gap(t, end)   \* no margin

Plan(t, end) ==
  {d \in Days : since <= d /\ \E g \in Gap(t, end) : d <= g /\ g <= d + Margin}

Examined(b, status, days, full) ==
  /\ source' = [source EXCEPT ![b] = status]
  /\ coverage' = [coverage EXCEPT ![b] = days]
  /\ whole' = IF full THEN whole \cup {b} ELSE whole
  /\ queue' = queue \ {b} /\ ingest' = "rest"
  /\ UNCHANGED <<phone, visible, config, since, exhaustive, peak>>

\* full_coverage: from the first record of the kind to the backup's date.
FullCoverage(b) ==
  [t \in Tags |-> {d \in Days : since <= d /\ d <= Taken[b] /\ Reaches(b, t, d)}]

\* read_full, of a backup that holds anything.
ReadFull(b) ==
  /\ Contents(b) # {}
  /\ store' = store \cup From(since, Contents(b))
  /\ Examined(b, "read", FullCoverage(b), TRUE)

Whole(b) ==
  /\ Turn(b) /\ (exhaustive \/ b \in Small)
  /\ ReadFull(b)

\* Judged by the name of the file, which tells its date: every day is covered.
Unneeded(b) == ~exhaustive /\ b \notin Small /\ \A t \in Tags : Plan(t, Taken[b]) = {}

JudgeByDate(b) ==
  /\ Turn(b) /\ Unneeded(b)
  /\ store' = store
  /\ Examined(b, "covered", NoDays, FALSE)

\* The date of each block's first record; a block in order starts with its oldest.
Firsts(b) ==
  {first \in [Tags -> 1 .. MaxDay + 1] : \A t \in Tags :
     LET dates == {Date(r) : r \in Block(b, t)}
     IN  /\ first[t] \in dates \cup (IF dates = {} THEN {MaxDay + 1} ELSE {})
         /\ b \notin Shuffled => \A d \in dates : first[t] <= d}

SeekDaysSlip(b, first) == [t \in Tags |-> Plan(t, Taken[b])]   \* also before the first record

\* The planned days a backup can answer for.
SeekDays(b, first) == [t \in Tags |-> {d \in Plan(t, Taken[b]) : first[t] <= d}]

SeekCoverageSlip(b, first) == FullCoverage(b)   \* also what was not read

SeekCoverage(b, first) == SeekDays(b, first)

\* _read_planned: bisection finds the days; where the records are shuffled it
\* may miss some of them.
Seek(b) ==
  /\ Turn(b) /\ ~exhaustive /\ b \notin Small /\ ~Unneeded(b) /\ Contents(b) # {}
  /\ \E first \in Firsts(b) :
       LET days   == SeekDays(b, first)
           wanted == {r \in Contents(b) : Date(r) \in days[phone[r].tag]}
       IN  /\ \E some \in SUBSET wanted :
                /\ b \notin Shuffled => some = wanted
                /\ store' = store \cup some
           /\ Examined(b, IF days = NoDays THEN "covered" ELSE "read",
                       SeekCoverage(b, first), FALSE)

\* OutOfOrder: a record out of order was read, and the backup is reread in full.
Reread(b) ==
  /\ Turn(b) /\ ~exhaustive /\ b \in Shuffled \ Small /\ ~Unneeded(b)
  /\ ReadFull(b)

\* No record in it.
ReadEmpty(b) ==
  /\ Turn(b) /\ ~Unneeded(b) /\ Contents(b) = {}
  /\ store' = store
  /\ Examined(b, "empty", NoDays, FALSE)

Close ==
  /\ ingest # "idle"   \* done when the queue is empty, killed or failed otherwise
  /\ ingest' = "idle" /\ queue' = {} /\ exhaustive' = FALSE
  /\ UNCHANGED <<phone, visible, config, since, store, coverage, source, whole, peak>>

StoreNext ==
  \/ \E b \in Backups : Appear(b) \/ Whole(b) \/ JudgeByDate(b) \/ Seek(b) \/ Reread(b) \/ ReadEmpty(b)
  \/ \E d \in Sinces : Configure(d)
  \/ \E all \in BOOLEAN : Open(all)
  \/ Close

StoreSpec == StoreInit /\ [][StoreNext]_storeVars

-----------------------------------------------------------------------------
\* The tables; only a backup that was read covers anything, up to its own date.
StoreTypeOK ==
  /\ phone \in [Records -> Phone]
  /\ visible \subseteq Backups /\ config \in Days /\ since \in 0 .. MaxDay
  /\ store \subseteq Records /\ coverage \in [Backups -> [Tags -> SUBSET Days]]
  /\ source \in [Backups -> {"none", "read", "covered", "empty"}] /\ whole \subseteq Backups
  /\ ingest \in {"idle", "first", "rest"} /\ exhaustive \in BOOLEAN /\ queue \subseteq visible
  /\ peak \in 0 .. MaxDay
  /\ \A b \in Backups, t \in Tags : \A d \in coverage[b][t] : source[b] = "read" /\ d <= Taken[b]

\* Promise 2: nothing older than the date of relevance is in the store, however
\* that date was moved and whichever way a backup was read.
OnlyRelevant == \A r \in store : Date(r) >= since

\* What the order of the records of a shuffled backup cannot have spoilt.
Trusted(b) == b \in whole \/ b \notin Shuffled

\* A report prints the coverage, so that "no rows" says what was searched: what
\* a backup holds on a day it is said to cover is in the store.  (Not so what
\* was pruned by a later date of relevance: the coverage is not.)
CoverageHonest ==
  \A b \in Backups : Trusted(b) =>
    \A r \in From(peak, Contents(b)) : Date(r) \in coverage[b][phone[r].tag] => r \in store

\* An ingest has seen all there is, and no shuffled backup has misled it.
Settled ==
  /\ ingest = "idle" /\ since = config /\ \A b \in visible : source[b] # "none"
  /\ \A b \in visible : Trusted(b) \/ coverage[b] = NoDays

Late(r) == phone[r].arrives - phone[r].date

\* However the backups came in, and although each is read only where no other
\* was: what the newest one holds is in the store, unless it reached the phone
\* later than the margin allows.
NewestComplete ==
  Settled => \A b \in Newest(visible) : Trusted(b) =>
    \A r \in From(peak, Contents(b)) : Late(r) <= Margin => r \in store

\* A record of a time that no other backup reaches back to is read from the
\* one that has it.
SoleWitness ==
  Settled => \A b \in visible : Trusted(b) =>
    \A r \in From(peak, Contents(b)) :
      (\A c \in visible \ {b} : ~(Reaches(c, phone[r].tag, Date(r)) /\ Date(r) <= Taken[c]))
        => r \in store

\* CoverageHonest without the exception: what the store says it has searched,
\* it holds, also after the date of relevance was moved later and back.
AlwaysHonest ==
  \A b \in Backups : Trusted(b) =>
    \A r \in From(since, Contents(b)) : Date(r) \in coverage[b][phone[r].tag] => r \in store
=============================================================================
