----------------------------- MODULE MatterSync -----------------------------
(***************************************************************************)
(* sync/matter_sync.sh: one run of the scheduled sync of one matter, and   *)
(* any number of runs interleaved.  A run is started manually, by the      *)
(* calendar (--scheduled) or by a change under inbox/ (--watch).  It       *)
(* passes the interval guard, takes the mkdir lock, pulls every configured *)
(* connector, rebuilds the mail index and the text sidecars, stamps the    *)
(* success guard, hands the new files to the triage agent, and writes the  *)
(* run summary.  Each step of a run that touches a file another run can    *)
(* touch is an action of its own; a run can be killed between any two.     *)
(*                                                                         *)
(* Time is kept as ages, in ticks, of the two time stamps the script       *)
(* compares with a threshold (the lock's mtime and the guard's contents).  *)
(* An age stops at its threshold: the script never asks for more.          *)
(***************************************************************************)
EXTENDS Integers, FiniteSets

CONSTANTS
  Procs,         \* run slots: a terminal, the launchd job
  ModesOf,       \* the modes each slot is launched in
  Configured,    \* connectors matter.yaml names
  Installed,     \* connectors with a pull.js in connectors/ or local/
  Quiet,         \* connectors that exit 0 although some items failed
  Gmail,         \* the connector whose new items rebuild the mail index
  Items,         \* what the sources hold
  SourceOf,      \* the connector each item comes from
  Rank,          \* the order in which matter.yaml names the connectors
  Files,         \* what lands under inbox/
  MaxItems,      \* bound: items that appear
  MaxVersion,    \* bound: how often a file is (re)written
  StaleAfter,    \* lock age (ticks) beyond which the lock is stale: 180 min
  MinInterval,   \* PROSAIC_MIN_INTERVAL_HOURS (ticks): 11 h
  MaxCrashes,    \* bound: runs killed
  StreakCap      \* bound: failing runs counted

Modes == {"manual", "scheduled", "watch"}

ASSUME ProcsAssumption  == Procs # {} /\ ModesOf \in [Procs -> SUBSET Modes]
ASSUME SourceAssumption == SourceOf \in [Items -> Configured]
ASSUME RankAssumption   == \A c \in Configured : Rank[c] \in Nat
ASSUME BoundsAssumption ==
  /\ MaxItems \in Nat /\ MaxVersion \in Nat /\ MaxCrashes \in Nat
  /\ StaleAfter \in Nat /\ MinInterval \in Nat
  /\ StreakCap \in Nat \ {0}
ASSUME FilesAreNotItems == Files \cap Items = {}

VARIABLES
  source,      \* items present at their source
  inbox,       \* version of each inbox file, 0 while absent
  settled,     \* inbox files unchanged for 20 seconds
  lock,        \* age of the lock directory, Free when there is none
  guard,       \* age of .state/sync_last_success, NoGuard when there is none
  watchSeen,   \* .state/watch_seen.txt: <<file, version>> already listed
  summary,     \* .state/sync_last_run.json
  pulled,      \* items stored in the matter and in their connector's ledger
  indexed,     \* items the mail index under derived/mail/ finds
  text,        \* items with a text sidecar
  triaged,     \* items the triage agent has processed
  readFiles,   \* <<file, version>> the triage agent has processed
  pc,          \* where each run is
  run,         \* each run's shell variables
  broke,       \* history: a lock was removed as stale
  sinceSched,  \* history: age of the last success of a scheduled run
  streak,      \* history: failing syncs reported since the last clean one
  crashes      \* runs killed so far

matter  == <<pulled, indexed, text, triaged, readFiles>>
world   == <<source, inbox, settled>>
history == <<broke, sinceSched, streak, crashes>>
vars    == <<world, lock, guard, watchSeen, summary, matter, pc, run, history>>

Free    == -1
NoGuard == -1
Older(age, limit) == IF age < limit THEN age + 1 ELSE limit
Capped(n)         == IF n < StreakCap THEN n ELSE StreakCap

\* A missing or truncated summary reads as {}: no failed connector, no streak.
\* Of the failed connectors it lists, the model keeps whether there are any.
NoSummary == [failed |-> FALSE, first |-> 0, runs |-> 0]

\* new: NEW_LIST.  owed (history): what the sources held when the run began.
IdleRun == [mode |-> "manual", scan |-> {}, todo |-> {}, new |-> {},
            failed |-> {}, owed |-> {}]

Locations == {"idle", "scan", "guard", "lock", "stale", "breakrm", "breakmk",
              "config", "pull", "stamp", "route", "summary", "exit"}

\* The steps between taking the lock and the EXIT trap that removes it.
Critical == {"config", "pull", "stamp", "route", "summary", "exit"}
InCS(p)  == pc[p] \in Critical

Init ==
  /\ source = {} /\ inbox = [f \in Files |-> 0] /\ settled = {}
  /\ lock = Free /\ guard = NoGuard /\ watchSeen = {} /\ summary = NoSummary
  /\ pulled = {} /\ indexed = {} /\ text = {} /\ triaged = {}
  /\ readFiles = {}
  /\ pc = [p \in Procs |-> "idle"] /\ run = [p \in Procs |-> IdleRun]
  /\ broke = FALSE /\ sinceSched = MinInterval /\ streak = 0 /\ crashes = 0

At(p, here)    == pc[p] = here
GoTo(p, there) == pc' = [pc EXCEPT ![p] = there]
\* The script ends: its shell variables and its mktemp list are gone.
End(p) == GoTo(p, "idle") /\ run' = [run EXCEPT ![p] = IdleRun]

-----------------------------------------------------------------------------
(* Start of a run *)

\* A run that finds no matter.yaml (the volume is not mounted) ends at once and
\* changes nothing: it is a stuttering step.  This is a run that goes on.
Launch(p, m) ==
  /\ At(p, "idle") /\ m \in ModesOf[p]
  /\ run' = [run EXCEPT ![p] =
       [IdleRun EXCEPT !.mode = m, !.owed = source,
          !.scan = IF m = "watch" THEN {f \in Files : inbox[f] > 0} ELSE {}]]
  /\ GoTo(p, CASE m = "watch"     -> "scan"
               [] m = "scheduled" -> "guard"
               [] m = "manual"    -> "lock")
  /\ UNCHANGED <<world, lock, guard, watchSeen, summary, matter, history>>

\* One file of the watcher's loop: settled and not listed before, it is
\* recorded as seen and put on the run's list at once.
Scan(p, f) ==
  /\ At(p, "scan") /\ f \in run[p].scan
  /\ LET sig  == <<f, inbox[f]>>
         lists == f \in settled /\ sig \notin watchSeen
     IN  /\ watchSeen' = IF lists THEN watchSeen \cup {sig} ELSE watchSeen
         /\ run' = [run EXCEPT ![p].scan = @ \ {f},
                               ![p].new = IF lists THEN @ \cup {f} ELSE @]
  /\ UNCHANGED <<world, lock, guard, summary, matter, pc, history>>

Scanned(p) ==
  /\ At(p, "scan") /\ run[p].scan = {}
  /\ IF run[p].new = {} THEN End(p) ELSE GoTo(p, "lock") /\ UNCHANGED run
  /\ UNCHANGED <<world, lock, guard, watchSeen, summary, matter, history>>

\* Slip: the elapsed time never grows.
TooSoonForever == guard # NoGuard

TooSoon == guard # NoGuard /\ guard < MinInterval

GuardCheck(p) ==
  /\ At(p, "guard")
  /\ IF TooSoon THEN End(p) ELSE GoTo(p, "lock") /\ UNCHANGED run
  /\ UNCHANGED <<world, lock, guard, watchSeen, summary, matter, history>>

-----------------------------------------------------------------------------
(* The lock: a directory, created by mkdir, reclaimed when old *)

Mkdir(p, otherwise) ==
  IF lock = Free THEN lock' = 0 /\ GoTo(p, "config") /\ UNCHANGED run
                 ELSE UNCHANGED lock /\ otherwise

TryLock(p) ==
  /\ At(p, "lock")
  /\ Mkdir(p, GoTo(p, "stale") /\ UNCHANGED run)
  /\ UNCHANGED <<world, guard, watchSeen, summary, matter, history>>

\* Slip: the EXIT trap is set before the lock is taken.
StaleCheckTrapped(p) ==
  /\ At(p, "stale") /\ End(p) /\ lock' = Free
  /\ UNCHANGED <<world, guard, watchSeen, summary, matter, history>>

\* find -mmin +180 prints nothing for a young lock or one just released: SKIP.
StaleCheck(p) ==
  /\ At(p, "stale")
  /\ IF lock > StaleAfter THEN GoTo(p, "breakrm") /\ UNCHANGED run ELSE End(p)
  /\ UNCHANGED <<world, lock, guard, watchSeen, summary, matter, history>>

\* rm -rf removes whatever directory has that name now.
BreakRm(p) ==
  /\ At(p, "breakrm") /\ GoTo(p, "breakmk")
  /\ lock' = Free /\ broke' = TRUE
  /\ UNCHANGED <<world, guard, watchSeen, summary, matter, run>>
  /\ UNCHANGED <<sinceSched, streak, crashes>>

BreakMk(p) ==
  /\ At(p, "breakmk")
  /\ Mkdir(p, End(p))
  /\ UNCHANGED <<world, guard, watchSeen, summary, matter, history>>

-----------------------------------------------------------------------------
(* Under the lock: connectors, derived files, guard *)

\* No python with PyYAML, or connectors declared and none resolved: exit 1.
BadConfig(p) ==
  /\ At(p, "config") /\ GoTo(p, "exit")
  /\ UNCHANGED <<world, lock, guard, watchSeen, summary, matter, run, history>>

Config(p) ==
  /\ At(p, "config") /\ GoTo(p, "pull")
  /\ run' = [run EXCEPT ![p].todo =
               IF run[p].mode = "watch" THEN {} ELSE Configured]
  /\ UNCHANGED <<world, lock, guard, watchSeen, summary, matter, history>>

\* The connectors run one after another, as configured.
Turn(p) == {c \in run[p].todo : \A d \in run[p].todo : Rank[c] <= Rank[d]}

Due(c) == {i \in source \ pulled : SourceOf[i] = c}

\* Slip: the connector rewrites its ledger with this run's items only.
FetchedAnew(p, c, got) ==
  /\ At(p, "pull") /\ c \in Turn(p) \cap Installed
  /\ pulled' = got
  /\ UNCHANGED <<world, lock, guard, watchSeen, summary, pc, history>>
  /\ UNCHANGED <<indexed, text, triaged, readFiles>>

\* Connector c's pull.js ran, stored got, and printed a NEW line for each.
Fetched(p, c, got) ==
  /\ At(p, "pull") /\ c \in Turn(p) \cap Installed
  /\ pulled' = pulled \cup got
  /\ UNCHANGED <<world, lock, guard, watchSeen, summary, pc, history>>
  /\ UNCHANGED <<indexed, text, triaged, readFiles>>

\* Exit 0.  It means nothing is left, except for a quiet connector.
PullOk(p, c) ==
  \E got \in IF c \in Quiet THEN SUBSET Due(c) ELSE {Due(c)} :
     /\ Fetched(p, c, got)
     /\ run' = [run EXCEPT ![p].todo = @ \ {c}, ![p].new = @ \cup got]

\* Slip (one the script once had): the status tested is that of sed.
PullFailUnseen(p, c) ==
  \E got \in SUBSET Due(c) :
     /\ Fetched(p, c, got)
     /\ run' = [run EXCEPT ![p].todo = @ \ {c}, ![p].new = @ \cup got]

\* Exit nonzero, after any part of the work.
PullFail(p, c) ==
  \E got \in SUBSET Due(c) :
     /\ Fetched(p, c, got)
     /\ run' = [run EXCEPT ![p].todo = @ \ {c}, ![p].new = @ \cup got,
                           ![p].failed = @ \cup {c}]

\* Configured, no pull.js anywhere: a WARN line, and not a failure.
PullMissing(p, c) ==
  /\ At(p, "pull") /\ c \in Turn(p) \ Installed
  /\ run' = [run EXCEPT ![p].todo = @ \ {c}]
  /\ UNCHANGED <<world, lock, guard, watchSeen, summary, matter, pc, history>>

NewMail(p) == {i \in run[p].new \cap Items : SourceOf[i] = Gmail}

\* sc mail-index rebuilds the index from every stored mbox, when this run has
\* new mail; its failure is not fatal.
Index(p) ==
  IF NewMail(p) = {}
  THEN UNCHANGED indexed
  ELSE \/ indexed' = {i \in pulled : SourceOf[i] = Gmail}
       \/ UNCHANGED indexed

\* The connectors are done: mail index, then sc text ensure, which looks at
\* every stored document and not only at this run's.
Derive(p) ==
  /\ At(p, "pull") /\ run[p].todo = {} /\ GoTo(p, "stamp")
  /\ Index(p) /\ text' = pulled
  /\ UNCHANGED <<world, lock, guard, watchSeen, summary, run, history>>
  /\ UNCHANGED <<pulled, triaged, readFiles>>

\* The same, and some documents are left without a sidecar ("gaps remain").
DeriveGaps(p) ==
  /\ At(p, "pull") /\ run[p].todo = {} /\ GoTo(p, "stamp")
  /\ Index(p) /\ \E some \in SUBSET (pulled \ text) : text' = text \cup some
  /\ UNCHANGED <<world, lock, guard, watchSeen, summary, run, history>>
  /\ UNCHANGED <<pulled, triaged, readFiles>>

CleanSync(p) == run[p].failed = {} /\ run[p].mode # "watch"

Stamp(p) ==
  /\ At(p, "stamp") /\ GoTo(p, "route")
  /\ guard' = IF CleanSync(p) THEN 0 ELSE guard
  /\ sinceSched' = IF CleanSync(p) /\ run[p].mode = "scheduled"
                   THEN 0 ELSE sinceSched
  /\ UNCHANGED <<world, lock, watchSeen, summary, matter, run>>
  /\ UNCHANGED <<broke, streak, crashes>>

-----------------------------------------------------------------------------
(* Triage, summary, end of the run *)

ToSummary(p) ==
  /\ At(p, "route") /\ GoTo(p, "summary")
  /\ UNCHANGED <<world, lock, guard, watchSeen, summary, run, history>>

NothingNew(p) == run[p].new = {} /\ ToSummary(p) /\ UNCHANGED matter

\* No agent CLI, or the agent failed: NEW_LIST is deleted all the same.
Untriaged(p) == run[p].new # {} /\ ToSummary(p) /\ UNCHANGED matter

\* The agent reads the files as they are now, not as they were when listed.
Triage(p) ==
  /\ run[p].new # {} /\ ToSummary(p)
  /\ triaged' = triaged \cup (run[p].new \cap Items)
  /\ readFiles' = readFiles \cup
                    {<<f, inbox[f]>> : f \in run[p].new \cap Files}
  /\ UNCHANGED <<pulled, indexed, text>>

\* The prompt template is missing: the run ends without a summary.
NoPrompt(p) ==
  /\ At(p, "route") /\ run[p].new # {} /\ GoTo(p, "exit")
  /\ UNCHANGED <<world, lock, guard, watchSeen, summary, matter, run, history>>

\* The streak write_summary derives from the summary it replaces.  first is
\* which failing sync of the current streak first_failure dates from.
NewStreak(p) ==
  CASE run[p].mode = "watch" -> [first |-> summary.first, runs |-> summary.runs]
    [] run[p].mode # "watch" /\ run[p].failed = {} -> [first |-> 0, runs |-> 0]
    [] OTHER ->
         IF summary.failed
         THEN [first |-> IF summary.first = 0 THEN Capped(streak + 1)
                                              ELSE summary.first,
               runs  |-> Capped(summary.runs + 1)]
         ELSE [first |-> Capped(streak + 1), runs |-> 1]

WriteSummary(p) ==
  /\ At(p, "summary") /\ GoTo(p, "exit")
  /\ summary' = [failed |-> run[p].failed # {},
                 first |-> NewStreak(p).first, runs |-> NewStreak(p).runs]
  /\ streak' = CASE run[p].mode = "watch" -> streak
                 [] run[p].mode # "watch" /\ run[p].failed = {} -> 0
                 [] OTHER -> Capped(streak + 1)
  /\ UNCHANGED <<world, lock, guard, watchSeen, matter, run>>
  /\ UNCHANGED <<broke, sinceSched, crashes>>

\* The EXIT trap: rmdir, whoever made the directory.
Exit(p) ==
  /\ At(p, "exit") /\ End(p) /\ lock' = Free
  /\ UNCHANGED <<world, guard, watchSeen, summary, matter, history>>

\* Power loss or SIGKILL: no trap runs, and a summary being written is torn.
Crash(p) ==
  /\ pc[p] # "idle" /\ crashes < MaxCrashes /\ End(p)
  /\ crashes' = crashes + 1
  /\ \/ UNCHANGED summary
     \/ At(p, "summary") /\ summary' = NoSummary
  /\ UNCHANGED <<world, lock, guard, watchSeen, matter>>
  /\ UNCHANGED <<broke, sinceSched, streak>>

-----------------------------------------------------------------------------
(* The world around the runs *)

\* A message or a document appears at its source.
Arrive(i) ==
  /\ i \notin source /\ Cardinality(source) < MaxItems
  /\ source' = source \cup {i}
  /\ UNCHANGED <<inbox, settled, lock, guard, watchSeen, summary, matter>>
  /\ UNCHANGED <<pc, run, history>>

\* A file is written, or rewritten, under inbox/.
Land(f) ==
  /\ inbox[f] < MaxVersion
  /\ inbox' = [inbox EXCEPT ![f] = @ + 1] /\ settled' = settled \ {f}
  /\ UNCHANGED <<source, lock, guard, watchSeen, summary, matter>>
  /\ UNCHANGED <<pc, run, history>>

Settle(f) ==
  /\ inbox[f] > 0 /\ f \notin settled /\ settled' = settled \cup {f}
  /\ UNCHANGED <<source, inbox, lock, guard, watchSeen, summary, matter>>
  /\ UNCHANGED <<pc, run, history>>

Tick ==
  /\ lock' = IF lock = Free THEN Free ELSE Older(lock, StaleAfter + 1)
  /\ guard' = IF guard = NoGuard THEN NoGuard ELSE Older(guard, MinInterval)
  /\ sinceSched' = Older(sinceSched, MinInterval)
  /\ UNCHANGED <<world, watchSeen, summary, matter, pc, run>>
  /\ UNCHANGED <<broke, streak, crashes>>

-----------------------------------------------------------------------------
Step(p) ==
  \/ (\E f \in Files : Scan(p, f)) \/ Scanned(p)
  \/ GuardCheck(p) \/ TryLock(p) \/ StaleCheck(p) \/ BreakRm(p) \/ BreakMk(p)
  \/ BadConfig(p) \/ Config(p)
  \/ (\E c \in Configured : PullOk(p, c) \/ PullFail(p, c) \/ PullMissing(p, c))
  \/ Derive(p) \/ DeriveGaps(p) \/ Stamp(p)
  \/ NothingNew(p) \/ Untriaged(p) \/ NoPrompt(p) \/ Triage(p)
  \/ WriteSummary(p) \/ Exit(p)

Environment ==
  \/ \E i \in Items : Arrive(i)
  \/ \E f \in Files : Land(f) \/ Settle(f)
  \/ Tick

Next ==
  \/ \E p \in Procs : (\E m \in Modes : Launch(p, m)) \/ Step(p) \/ Crash(p)
  \/ Environment

Spec == Init /\ [][Next]_vars

\* launchd keeps firing the job (at load, by the calendar, on a change under
\* inbox/), a run that is not killed goes on, time passes, a written file comes
\* to rest; and a volume that is mounted, a configuration that parses, a source
\* that answers in full and an agent that is installed again and again are met
\* in the end.  Nothing is assumed of what a person starts at a terminal.
Fairness ==
  /\ \A p \in Procs :
       /\ WF_vars(Step(p))
       /\ SF_vars(Derive(p)) /\ SF_vars(Triage(p))
       /\ \A m \in ModesOf[p] : SF_vars(run[p].mode = m /\ Config(p))
       /\ \A c \in Configured : SF_vars(PullOk(p, c) /\ Due(c) \subseteq pulled')
       /\ \A m \in ModesOf[p] \ {"manual"} : SF_vars(Launch(p, m))
  /\ WF_vars(Tick)
  /\ \A f \in Files : WF_vars(Settle(f))

FairSpec == Spec /\ Fairness

-----------------------------------------------------------------------------
(* Properties *)

Runs == [mode : Modes, scan : SUBSET Files, todo : SUBSET Configured,
         new : SUBSET (Items \cup Files), failed : SUBSET Configured,
         owed : SUBSET Items]

Summaries == [failed : BOOLEAN,
              first : 0..StreakCap, runs : 0..StreakCap]

\* The type of every variable.
TypeOK ==
  /\ source \in SUBSET Items /\ inbox \in [Files -> 0..MaxVersion]
  /\ settled \in SUBSET Files
  /\ lock \in Free..(StaleAfter + 1) /\ guard \in NoGuard..MinInterval
  /\ watchSeen \in SUBSET (Files \X (0..MaxVersion))
  /\ summary \in Summaries
  /\ pulled \in SUBSET Items /\ indexed \in SUBSET Items
  /\ text \in SUBSET Items /\ triaged \in SUBSET Items
  /\ readFiles \in SUBSET (Files \X (0..MaxVersion))
  /\ pc \in [Procs -> Locations] /\ run \in [Procs -> Runs]
  /\ broke \in BOOLEAN /\ sinceSched \in 0..MinInterval
  /\ streak \in 0..StreakCap /\ crashes \in 0..MaxCrashes

\* Two runs work on the matter at the same time.
Overlap == \E p, q \in Procs : p # q /\ InCS(p) /\ InCS(q)

\* Promise 4, as far as the mkdir lock keeps it: as long as no lock was ever
\* removed as stale, runs never overlap and a working run's lock is in place,
\* whoever crashes, skips or exits meanwhile.
MutexUntilBroken ==
  ~broke => ~Overlap /\ \A p \in Procs : InCS(p) => lock # Free

\* Connectors whose failures the script cannot see: the ones that exit 0 after
\* an item failed, and the ones without a pull.js, for which it only warns.
Exempt == Quiet \cup (Configured \ Installed)

\* Promise 3, the part that holds: when the guard advances, whatever a source
\* held as the run began has been stored, by this run or by another one that it
\* overlapped, unless its connector is one whose failures are not seen.
GuardCoversArrivals ==
  [][\A p \in Procs : Stamp(p) /\ CleanSync(p)
        => {i \in run[p].owed : SourceOf[i] \notin Exempt} \subseteq pulled]_vars

\* Promise 3 as it is written, "the guard only advances when every configured
\* connector succeeded": false, it also advances over what an exempt connector
\* left at its source.
GuardMeansPulled ==
  [][\A p \in Procs : Stamp(p) /\ CleanSync(p)
        => run[p].owed \subseteq pulled]_vars

\* Promise 2, catch-up once: with the calendar's job the only scheduled one,
\* two scheduled runs that fully succeed are MinInterval apart, whatever manual
\* and watch runs, failures and crashes come between them.
ScheduledSpacing ==
  [][\A p \in Procs : Stamp(p) /\ CleanSync(p) /\ run[p].mode = "scheduled"
        => sinceSched = MinInterval]_vars

\* The streak the brief prints never counts a failing sync of an earlier
\* streak or one that did not happen, and a reported failure is counted.
StreakSound ==
  /\ summary.runs <= streak /\ summary.first <= streak
  /\ summary.failed => summary.runs > 0 /\ summary.first > 0

Intake == INSTANCE EvidenceIntake WITH Docs <- Items, stored <- pulled,
            searchable <- indexed, sidecar <- text, briefed <- triaged

\* Documents only move forward: see EvidenceIntake.
Intakes == Intake!Spec

\* Promise 3: a failing connector delays what its source holds and never
\* loses it, also when the guard has advanced over it: every item an installed
\* connector can fetch is stored in the end.
EventuallyPulled ==
  \A i \in Items : SourceOf[i] \in Installed => (i \in source ~> i \in pulled)

\* ADR-0044: a document that lands is triaged, in the version it came to rest
\* in (or a later one).
InboxTriaged ==
  \A f \in Files : (f \in settled /\ inbox[f] = MaxVersion)
                     ~> (<<f, MaxVersion>> \in readFiles)
=============================================================================
