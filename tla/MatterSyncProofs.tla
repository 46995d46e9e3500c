-------------------------- MODULE MatterSyncProofs --------------------------
(***************************************************************************)
(* Proofs about MatterSync, for every set of runs, connectors and items.   *)
(***************************************************************************)
EXTENDS MatterSync, TLAPS

LEMMA BoundTypes ==
  ASSUME NEW age \in Nat, NEW limit \in Nat, age <= limit
  PROVE  Older(age, limit) \in 0..limit
BY DEF Older

LEMMA CappedType ==
  ASSUME NEW n \in Nat
  PROVE  Capped(n) \in 0..StreakCap /\ (n > 0 => Capped(n) > 0)
BY BoundsAssumption DEF Capped

LEMMA IdleRunType == IdleRun \in Runs
BY DEF IdleRun, Runs, Modes

LEMMA NoSummaryType == NoSummary \in Summaries
BY BoundsAssumption DEF NoSummary, Summaries

LEMMA InitType == Init => TypeOK
<1> SUFFICES ASSUME Init PROVE TypeOK
    OBVIOUS
<1> USE BoundsAssumption DEF Init
<1>1. pc \in [Procs -> Locations] /\ run \in [Procs -> Runs]
  BY IdleRunType DEF Locations
<1>2. summary \in Summaries
  BY DEF NoSummary, Summaries
<1>3. lock \in Free..(StaleAfter + 1) /\ guard \in NoGuard..MinInterval
  BY DEF Free, NoGuard
<1>4. inbox \in [Files -> 0..MaxVersion]
  OBVIOUS
<1>5. crashes \in 0..MaxCrashes /\ sinceSched \in 0..MinInterval
      /\ streak \in 0..StreakCap
  OBVIOUS
<1>. HIDE DEF Init
<1>6. /\ source = {} /\ settled = {} /\ watchSeen = {} /\ pulled = {}
      /\ indexed = {} /\ text = {} /\ triaged = {} /\ readFiles = {}
      /\ broke = FALSE
  BY DEF Init
<1>. QED BY <1>1, <1>2, <1>3, <1>4, <1>5, <1>6 DEF TypeOK

\* A run's own fields keep their types under the updates the actions make.
LEMMA StepType == TypeOK /\ [Next]_vars => TypeOK'
<1> SUFFICES ASSUME TypeOK, [Next]_vars PROVE TypeOK'
    OBVIOUS
<1> USE BoundsAssumption, SourceAssumption, ProcsAssumption, IdleRunType
<1>1. ASSUME NEW p \in Procs, NEW m \in Modes, Launch(p, m) PROVE TypeOK'
  <2>1. [IdleRun EXCEPT !.mode = m, !.owed = source,
          !.scan = IF m = "watch" THEN {f \in Files : inbox[f] > 0} ELSE {}]
        \in Runs
    BY DEF IdleRun, Runs, Modes, TypeOK
  <2>2. pc' \in [Procs -> Locations]
    BY <1>1 DEF Launch, GoTo, TypeOK, Locations, Modes
  <2>. QED BY <1>1, <2>1, <2>2
       DEF Launch, TypeOK, world, matter, history, GoTo
<1>2. ASSUME NEW p \in Procs, NEW f \in Files, Scan(p, f) PROVE TypeOK'
  <2>1. run' \in [Procs -> Runs]
    BY <1>2 DEF Scan, TypeOK, Runs
  <2>2. <<f, inbox[f]>> \in Files \X (0..MaxVersion)
    BY DEF TypeOK
  <2>. QED BY <1>2, <2>1, <2>2 DEF Scan, TypeOK, world, matter, history
<1>3. ASSUME NEW p \in Procs, Scanned(p) PROVE TypeOK'
  BY <1>3 DEF Scanned, End, GoTo, TypeOK, Locations, world, matter, history
<1>4. ASSUME NEW p \in Procs, GuardCheck(p) PROVE TypeOK'
  BY <1>4 DEF GuardCheck, End, GoTo, TypeOK, Locations, world, matter, history
<1>5. ASSUME NEW p \in Procs, TryLock(p) PROVE TypeOK'
  BY <1>5 DEF TryLock, Mkdir, GoTo, TypeOK, Locations, world, matter, history,
              Free
<1>6. ASSUME NEW p \in Procs, StaleCheck(p) PROVE TypeOK'
  BY <1>6 DEF StaleCheck, End, GoTo, TypeOK, Locations, world, matter, history
<1>7. ASSUME NEW p \in Procs, BreakRm(p) PROVE TypeOK'
  BY <1>7 DEF BreakRm, GoTo, TypeOK, Locations, world, matter, history, Free
<1>8. ASSUME NEW p \in Procs, BreakMk(p) PROVE TypeOK'
  BY <1>8 DEF BreakMk, Mkdir, End, GoTo, TypeOK, Locations, world, matter,
              history, Free
<1>9. ASSUME NEW p \in Procs, BadConfig(p) PROVE TypeOK'
  BY <1>9 DEF BadConfig, GoTo, TypeOK, Locations, world, matter, history
<1>10. ASSUME NEW p \in Procs, Config(p) PROVE TypeOK'
  BY <1>10 DEF Config, GoTo, TypeOK, Locations, Runs, world, matter, history
<1>11. ASSUME NEW p \in Procs, NEW c \in Configured, PullOk(p, c) PROVE TypeOK'
  <2>1. PICK got \in SUBSET Due(c) :
          /\ Fetched(p, c, got)
          /\ run' = [run EXCEPT ![p].todo = @ \ {c}, ![p].new = @ \cup got]
    BY <1>11 DEF PullOk
  <2>2. got \subseteq Items
    BY <2>1 DEF Due, TypeOK
  <2>3. run' \in [Procs -> Runs]
    BY <2>1, <2>2 DEF Runs, TypeOK
  <2>. QED BY <2>1, <2>2, <2>3 DEF Fetched, TypeOK, world, matter, history
<1>12. ASSUME NEW p \in Procs, NEW c \in Configured, PullFail(p, c) PROVE TypeOK'
  <2>1. PICK got \in SUBSET Due(c) :
          /\ Fetched(p, c, got)
          /\ run' = [run EXCEPT ![p].todo = @ \ {c}, ![p].new = @ \cup got,
                                ![p].failed = @ \cup {c}]
    BY <1>12 DEF PullFail
  <2>2. got \subseteq Items
    BY <2>1 DEF Due, TypeOK
  <2>3. run' \in [Procs -> Runs]
    <3>1. run[p] \in Runs
      BY DEF TypeOK
    <3>2. [run[p] EXCEPT !.todo = @ \ {c}, !.new = @ \cup got,
                         !.failed = @ \cup {c}] \in Runs
      BY <3>1, <2>2 DEF Runs
    <3>3. run' = [run EXCEPT ![p] = [run[p] EXCEPT !.todo = @ \ {c},
                     !.new = @ \cup got, !.failed = @ \cup {c}]]
      BY <2>1 DEF TypeOK
    <3>. QED BY <3>2, <3>3 DEF TypeOK
  <2>. QED BY <2>1, <2>2, <2>3 DEF Fetched, TypeOK, world, matter, history
<1>13. ASSUME NEW p \in Procs, NEW c \in Configured, PullMissing(p, c)
       PROVE TypeOK'
  BY <1>13 DEF PullMissing, TypeOK, Runs, world, matter, history
<1>14. ASSUME NEW p \in Procs, Derive(p) PROVE TypeOK'
  BY <1>14 DEF Derive, Index, GoTo, TypeOK, Locations, world, matter, history
<1>15. ASSUME NEW p \in Procs, DeriveGaps(p) PROVE TypeOK'
  BY <1>15 DEF DeriveGaps, Index, GoTo, TypeOK, Locations, world, matter, history
<1>16. ASSUME NEW p \in Procs, Stamp(p) PROVE TypeOK'
  BY <1>16 DEF Stamp, GoTo, TypeOK, Locations, world, matter, history, NoGuard
<1>17. ASSUME NEW p \in Procs, NothingNew(p) \/ Untriaged(p) PROVE TypeOK'
  BY <1>17 DEF NothingNew, Untriaged, ToSummary, GoTo, TypeOK, Locations, world,
               matter, history
<1>18. ASSUME NEW p \in Procs, Triage(p) PROVE TypeOK'
  <2>1. readFiles' \in SUBSET (Files \X (0..MaxVersion))
    BY <1>18 DEF Triage, TypeOK
  <2>. QED BY <1>18, <2>1 DEF Triage, ToSummary, GoTo, TypeOK, Locations, world,
                              matter, history
<1>19. ASSUME NEW p \in Procs, NoPrompt(p) PROVE TypeOK'
  BY <1>19 DEF NoPrompt, GoTo, TypeOK, Locations, world, matter, history
<1>20. ASSUME NEW p \in Procs, WriteSummary(p) PROVE TypeOK'
  <2>1. Capped(streak + 1) \in 0..StreakCap /\ Capped(summary.runs + 1) \in 0..StreakCap
    BY CappedType DEF TypeOK, Summaries
  <2>2. NewStreak(p).first \in 0..StreakCap /\ NewStreak(p).runs \in 0..StreakCap
    BY <2>1 DEF NewStreak, TypeOK, Summaries
  <2>3. summary' \in Summaries
    BY <1>20, <2>2 DEF WriteSummary, TypeOK, Summaries, Runs
  <2>. QED BY <1>20, <2>1, <2>3 DEF WriteSummary, GoTo, TypeOK, Locations, world,
                                    matter, history
<1>21. ASSUME NEW p \in Procs, Exit(p) PROVE TypeOK'
  BY <1>21 DEF Exit, End, GoTo, TypeOK, Locations, world, matter, history, Free
<1>22. ASSUME NEW p \in Procs, Crash(p) PROVE TypeOK'
  <2>1. summary' \in Summaries
    BY <1>22, NoSummaryType DEF Crash, TypeOK
  <2>. QED BY <1>22, <2>1 DEF Crash, End, GoTo, TypeOK, Locations, world, matter,
                              history
<1>23. ASSUME Environment PROVE TypeOK'
  <2>1. ASSUME Tick PROVE TypeOK'
    <3>1. lock' \in Free..(StaleAfter + 1) /\ guard' \in NoGuard..MinInterval
          /\ sinceSched' \in 0..MinInterval
      BY <2>1 DEF Tick, Older, TypeOK, Free, NoGuard
    <3>. QED BY <2>1, <3>1 DEF Tick, TypeOK, world, matter, history
  <2>2. ASSUME NEW i \in Items, Arrive(i) PROVE TypeOK'
    BY <2>2 DEF Arrive, TypeOK, matter, history
  <2>3. ASSUME NEW f \in Files, Land(f) \/ Settle(f) PROVE TypeOK'
    BY <2>3 DEF Land, Settle, TypeOK, matter, history
  <2>. QED BY <1>23, <2>1, <2>2, <2>3 DEF Environment
<1>24. CASE UNCHANGED vars
  BY <1>24 DEF vars, world, matter, history, TypeOK
<1>. QED
  BY <1>1, <1>2, <1>3, <1>4, <1>5, <1>6, <1>7, <1>8, <1>9, <1>10, <1>11, <1>12,
     <1>13, <1>14, <1>15, <1>16, <1>17, <1>18, <1>19, <1>20, <1>21, <1>22,
     <1>23, <1>24 DEF Next, Step

\* Every variable keeps its type, whatever the runs and the world do.
THEOREM TypeCorrect == Spec => []TypeOK
BY InitType, StepType, PTL DEF Spec

-----------------------------------------------------------------------------
(* Mutual exclusion, as far as it goes *)

\* A step that brings no run under the lock and takes no lock away.
LEMMA MutexKept ==
  ASSUME MutexUntilBroken, broke' = broke, lock # Free => lock' # Free,
         \A p \in Procs : InCS(p)' => InCS(p)
  PROVE  MutexUntilBroken'
BY DEF MutexUntilBroken, Overlap

\* Where mkdir finds no lock, nobody is under it.
LEMMA MutexMkdir ==
  ASSUME TypeOK, MutexUntilBroken, broke' = broke, NEW p \in Procs, lock = Free,
         lock' = 0, pc' = [pc EXCEPT ![p] = "config"]
  PROVE  MutexUntilBroken'
<1> SUFFICES ASSUME ~broke PROVE ~Overlap' /\ \A q \in Procs : InCS(q)' => lock' # Free
    BY DEF MutexUntilBroken
<1>1. \A q \in Procs : ~InCS(q)
  BY DEF MutexUntilBroken
<1>2. \A q \in Procs : InCS(q)' => q = p
  BY <1>1 DEF InCS, TypeOK
<1>. QED BY <1>2 DEF Overlap, Free

LEMMA MutexStep == TypeOK /\ MutexUntilBroken /\ [Next]_vars => MutexUntilBroken'
<1> SUFFICES ASSUME TypeOK, MutexUntilBroken, [Next]_vars PROVE MutexUntilBroken'
    OBVIOUS
<1> USE DEF TypeOK
<1>1. ASSUME NEW p \in Procs, TryLock(p) \/ BreakMk(p) PROVE MutexUntilBroken'
  <2>1. CASE lock = Free
    <3>1. lock' = 0 /\ pc' = [pc EXCEPT ![p] = "config"] /\ broke' = broke
      BY <1>1, <2>1 DEF TryLock, BreakMk, Mkdir, GoTo, history
    <3>. QED BY <2>1, <3>1, MutexMkdir
  <2>2. CASE lock # Free
    <3>1. lock' = lock /\ broke' = broke
          /\ \E here \in {"stale", "idle"} : pc' = [pc EXCEPT ![p] = here]
      BY <1>1, <2>2 DEF TryLock, BreakMk, Mkdir, End, GoTo, history
    <3>2. \A q \in Procs : InCS(q)' => InCS(q)
      BY <3>1 DEF InCS, Critical
    <3>. QED BY <3>1, <3>2, MutexKept
  <2>. QED BY <2>1, <2>2
<1>2. ASSUME NEW p \in Procs, BreakRm(p) PROVE MutexUntilBroken'
  BY <1>2 DEF BreakRm, MutexUntilBroken
<1>3. ASSUME NEW p \in Procs, Exit(p) PROVE MutexUntilBroken'
  <2>1. InCS(p) /\ broke' = broke /\ pc' = [pc EXCEPT ![p] = "idle"]
    BY <1>3 DEF Exit, End, GoTo, At, InCS, Critical, history
  <2>2. ASSUME ~broke PROVE \A q \in Procs : ~InCS(q)'
    <3>1. \A q \in Procs \ {p} : ~InCS(q)
      BY <2>1, <2>2 DEF MutexUntilBroken, Overlap
    <3>. QED BY <2>1, <3>1 DEF InCS, Critical
  <2>. QED BY <2>1, <2>2 DEF MutexUntilBroken, Overlap
<1>4. ASSUME NEW p \in Procs,
             \/ \E m \in Modes : Launch(p, m)
             \/ \E f \in Files : Scan(p, f)
             \/ Scanned(p) \/ GuardCheck(p) \/ StaleCheck(p) \/ Crash(p)
      PROVE  MutexUntilBroken'
  <2>1. lock' = lock /\ broke' = broke
    BY <1>4 DEF Launch, Scan, Scanned, GuardCheck, StaleCheck, Crash, history
  <2>2. \/ pc' = pc
        \/ \E here \in {"idle", "scan", "guard", "lock", "breakrm"} :
              pc' = [pc EXCEPT ![p] = here]
    BY <1>4 DEF Launch, Scan, Scanned, GuardCheck, StaleCheck, Crash, End, GoTo,
                Modes
  <2>3. \A q \in Procs : InCS(q)' => InCS(q)
    BY <2>2 DEF InCS, Critical
  <2>. QED BY <2>1, <2>3, MutexKept
<1>5. ASSUME NEW p \in Procs,
             \/ BadConfig(p) \/ Config(p)
             \/ \E c \in Configured : \/ PullOk(p, c) \/ PullFail(p, c)
                                     \/ PullMissing(p, c)
             \/ Derive(p) \/ DeriveGaps(p) \/ Stamp(p) \/ NothingNew(p)
             \/ Untriaged(p) \/ NoPrompt(p) \/ Triage(p) \/ WriteSummary(p)
      PROVE  MutexUntilBroken'
  <2>1. lock' = lock /\ broke' = broke
    BY <1>5 DEF BadConfig, Config, PullOk, PullFail, PullMissing, Fetched, Derive,
                DeriveGaps, Stamp, NothingNew, Untriaged, NoPrompt, Triage,
                ToSummary, WriteSummary, history
  <2>2. \/ pc' = pc
        \/ InCS(p) /\ \E here \in Locations : pc' = [pc EXCEPT ![p] = here]
    BY <1>5 DEF BadConfig, Config, PullOk, PullFail, PullMissing, Fetched, Derive,
                DeriveGaps, Stamp, NothingNew, Untriaged, NoPrompt, Triage,
                ToSummary, WriteSummary, GoTo, At, InCS, Critical, Locations
  <2>3. \A q \in Procs : InCS(q)' => InCS(q)
    BY <2>2 DEF InCS
  <2>. QED BY <2>1, <2>3, MutexKept
<1>6. ASSUME Environment PROVE MutexUntilBroken'
  <2>1. broke' = broke /\ pc' = pc
    BY <1>6 DEF Environment, Arrive, Land, Settle, Tick, history
  <2>2. lock # Free => lock' # Free
    BY <1>6, BoundsAssumption
       DEF Environment, Arrive, Land, Settle, Tick, Older, Free
  <2>. QED BY <2>1, <2>2, MutexKept DEF InCS
<1>7. CASE UNCHANGED vars
  BY <1>7, MutexKept DEF vars, history, InCS
<1>. QED BY <1>1, <1>2, <1>3, <1>4, <1>5, <1>6, <1>7 DEF Next, Step

\* Until some lock has been removed as stale, no two runs overlap.
THEOREM MutualExclusion == Spec => []MutexUntilBroken
<1>1. Init => MutexUntilBroken
  BY DEF Init, MutexUntilBroken, Overlap, InCS, Critical
<1>. QED BY <1>1, TypeCorrect, MutexStep, PTL DEF Spec

-----------------------------------------------------------------------------
(* What a run knows of the record *)

\* Of what the sources held when the run began, nothing is missing but what a
\* connector still to run, a failed one or an exempt one is to bring.
Covered(p) ==
  \A i \in run[p].owed :
     i \in pulled \/ SourceOf[i] \in run[p].todo \cup run[p].failed \cup Exempt

\* The inductive invariant: what a run has on its list is stored, a watch run
\* neither runs nor fails connectors, and Covered from the first connector to
\* the stamp, where none is still to run.
RunInv ==
  \A p \in Procs :
    /\ run[p].owed \subseteq source
    /\ run[p].new \cap Items \subseteq pulled
    /\ run[p].mode = "watch" => run[p].failed = {} /\ run[p].todo = {}
    /\ pc[p] = "stamp" => run[p].todo = {}
    /\ pc[p] \in {"pull", "stamp"} /\ run[p].mode # "watch" => Covered(p)

LEMMA RunInit == Init => RunInv
BY DEF Init, RunInv, IdleRun

\* Nothing in RunInv is undone while the sources and the record grow, the runs
\* keep their variables, and no run moves to a connector or to the stamp.
LEMMA RunKept ==
  ASSUME TypeOK, RunInv, source \subseteq source', pulled \subseteq pulled',
         NEW p \in Procs,
         run' = run \/ run' = [run EXCEPT ![p] = IdleRun],
         pc' = pc \/ \E here \in Locations \ {"pull", "stamp"} :
                       pc' = [pc EXCEPT ![p] = here]
  PROVE  RunInv'
<1> SUFFICES ASSUME NEW q \in Procs
    PROVE /\ run'[q].owed \subseteq source'
          /\ run'[q].new \cap Items \subseteq pulled'
          /\ run'[q].mode = "watch" => run'[q].failed = {} /\ run'[q].todo = {}
          /\ pc'[q] = "stamp" => run'[q].todo = {}
          /\ pc'[q] \in {"pull", "stamp"} /\ run'[q].mode # "watch" => Covered(q)'
    BY DEF RunInv
<1>1. CASE run'[q] = run[q]
  <2>1. pc'[q] \in {"pull", "stamp"} => pc'[q] = pc[q]
    BY DEF TypeOK
  <2>2. Covered(q) => Covered(q)'
    BY <1>1 DEF Covered
  <2>. QED BY <1>1, <2>1, <2>2 DEF RunInv
<1>2. CASE run'[q] = IdleRun
  BY <1>2 DEF IdleRun, Covered
<1>. QED BY <1>1, <1>2 DEF TypeOK

\* A connector's run, whatever it stored: it stays covered when all that was
\* due is stored, or the connector is counted as failed, or it is exempt.
LEMMA RunPull ==
  ASSUME TypeOK, RunInv, NEW p \in Procs, NEW c \in Configured,
         NEW got \in SUBSET Due(c), NEW fails \in SUBSET {c},
         pc[p] = "pull", c \in run[p].todo, pc' = pc, source' = source,
         pulled' = pulled \cup got,
         run' = [run EXCEPT ![p].todo = @ \ {c}, ![p].new = @ \cup got,
                            ![p].failed = @ \cup fails],
         got = Due(c) \/ c \in fails \cup Exempt
  PROVE  RunInv'
<1> SUFFICES ASSUME NEW q \in Procs
    PROVE /\ run'[q].owed \subseteq source'
          /\ run'[q].new \cap Items \subseteq pulled'
          /\ run'[q].mode = "watch" => run'[q].failed = {} /\ run'[q].todo = {}
          /\ pc'[q] = "stamp" => run'[q].todo = {}
          /\ pc'[q] \in {"pull", "stamp"} /\ run'[q].mode # "watch" => Covered(q)'
    BY DEF RunInv
<1>1. CASE q # p
  <2>1. run'[q] = run[q]
    BY <1>1 DEF TypeOK
  <2>2. Covered(q) => Covered(q)'
    BY <2>1 DEF Covered
  <2>. QED BY <2>1, <2>2 DEF RunInv
<1>2. CASE q = p
  <2>1. /\ run'[p].owed = run[p].owed /\ run'[p].mode = run[p].mode
        /\ run'[p].new = run[p].new \cup got
        /\ run'[p].todo = run[p].todo \ {c}
        /\ run'[p].failed = run[p].failed \cup fails
    BY DEF TypeOK, Runs
  <2>2. run[p].mode # "watch"
    BY DEF RunInv
  <2>3. Covered(p)'
    <3> SUFFICES ASSUME NEW i \in run[p].owed, i \notin pulled'
        PROVE  SourceOf[i] \in (run[p].todo \ {c}) \cup run[p].failed
                                 \cup fails \cup Exempt
        BY <2>1 DEF Covered
    <3>1. SourceOf[i] \in run[p].todo \cup run[p].failed \cup Exempt
      BY <2>2 DEF RunInv, Covered
    <3>2. CASE SourceOf[i] = c
      BY <3>2 DEF Due, RunInv
    <3>. QED BY <3>1, <3>2
  <2>. QED BY <1>2, <2>1, <2>2, <2>3 DEF RunInv
<1>. QED BY <1>1, <1>2

LEMMA RunStep == TypeOK /\ RunInv /\ [Next]_vars => RunInv'
<1> SUFFICES ASSUME TypeOK, RunInv, [Next]_vars PROVE RunInv'
    OBVIOUS
<1>1. ASSUME NEW p \in Procs, NEW m \in Modes, Launch(p, m) PROVE RunInv'
  <2>1. /\ \A q \in Procs \ {p} : run'[q] = run[q] /\ pc'[q] = pc[q]
        /\ run'[p].owed = source /\ run'[p].new = {} /\ run'[p].failed = {}
        /\ run'[p].todo = {} /\ pc'[p] \notin {"pull", "stamp"}
    BY <1>1 DEF Launch, GoTo, IdleRun, TypeOK, Modes
  <2>2. source' = source /\ pulled' = pulled
    BY <1>1 DEF Launch, world, matter
  <2>. QED BY <2>1, <2>2 DEF RunInv, Covered
<1>2. ASSUME NEW p \in Procs, NEW f \in Files, Scan(p, f) PROVE RunInv'
  <2>1. /\ \A q \in Procs \ {p} : run'[q] = run[q]
        /\ run'[p].owed = run[p].owed /\ run'[p].mode = run[p].mode
        /\ run'[p].todo = run[p].todo /\ run'[p].failed = run[p].failed
        /\ run'[p].new \subseteq run[p].new \cup {f}
        /\ pc' = pc /\ pc[p] = "scan"
    BY <1>2 DEF Scan, At, TypeOK, Runs
  <2>2. source' = source /\ pulled' = pulled
    BY <1>2 DEF Scan, world, matter
  <2>. QED BY <2>1, <2>2, FilesAreNotItems DEF RunInv, Covered
<1>3. ASSUME NEW p \in Procs, Config(p) PROVE RunInv'
  <2>1. /\ \A q \in Procs \ {p} : run'[q] = run[q] /\ pc'[q] = pc[q]
        /\ run'[p].owed = run[p].owed /\ run'[p].mode = run[p].mode
        /\ run'[p].new = run[p].new /\ run'[p].failed = run[p].failed
        /\ run'[p].todo = IF run[p].mode = "watch" THEN {} ELSE Configured
        /\ pc'[p] = "pull"
    BY <1>3 DEF Config, GoTo, TypeOK, Runs
  <2>2. source' = source /\ pulled' = pulled
    BY <1>3 DEF Config, world, matter
  <2>3. \A i \in run[p].owed : SourceOf[i] \in Configured
    BY SourceAssumption DEF TypeOK, Runs
  <2>. QED BY <2>1, <2>2, <2>3 DEF RunInv, Covered
<1>4. ASSUME NEW p \in Procs, NEW c \in Configured, PullOk(p, c) PROVE RunInv'
  <2>1. PICK got \in IF c \in Quiet THEN SUBSET Due(c) ELSE {Due(c)} :
          /\ Fetched(p, c, got)
          /\ run' = [run EXCEPT ![p].todo = @ \ {c}, ![p].new = @ \cup got]
    BY <1>4 DEF PullOk
  <2>2. got \in SUBSET Due(c) /\ (got = Due(c) \/ c \in Exempt)
    BY <2>1 DEF Exempt
  <2>3. run' = [run EXCEPT ![p].todo = @ \ {c}, ![p].new = @ \cup got,
                           ![p].failed = @ \cup {}]
    BY <2>1 DEF TypeOK, Runs
  <2>4. /\ pc[p] = "pull" /\ c \in run[p].todo /\ pc' = pc /\ source' = source
        /\ pulled' = pulled \cup got
    BY <2>1 DEF Fetched, Turn, At, world
  <2>5. {} \in SUBSET {c} /\ (got = Due(c) \/ c \in {} \cup Exempt)
    BY <2>2
  <2>. QED BY <2>2, <2>3, <2>4, <2>5, RunPull
<1>5. ASSUME NEW p \in Procs, NEW c \in Configured, PullFail(p, c) PROVE RunInv'
  <2>1. PICK got \in SUBSET Due(c) :
          /\ Fetched(p, c, got)
          /\ run' = [run EXCEPT ![p].todo = @ \ {c}, ![p].new = @ \cup got,
                                ![p].failed = @ \cup {c}]
    BY <1>5 DEF PullFail
  <2>2. /\ pc[p] = "pull" /\ c \in run[p].todo /\ pc' = pc /\ source' = source
        /\ pulled' = pulled \cup got
    BY <2>1 DEF Fetched, Turn, At, world
  <2>. QED BY <2>1, <2>2, RunPull
<1>6. ASSUME NEW p \in Procs, NEW c \in Configured, PullMissing(p, c) PROVE RunInv'
  <2>1. /\ pc[p] = "pull" /\ c \in run[p].todo \cap Exempt /\ pc' = pc
        /\ source' = source /\ pulled' = pulled
        /\ run' = [run EXCEPT ![p].todo = @ \ {c}]
    BY <1>6 DEF PullMissing, Turn, At, world, matter, Exempt
  <2>2. pulled' = pulled \cup {}
    BY <2>1
  <2>3. run' = [run EXCEPT ![p].todo = @ \ {c}, ![p].new = @ \cup {},
                           ![p].failed = @ \cup {}]
    BY <2>1 DEF TypeOK, Runs
  <2>4. /\ {} \in SUBSET {c} /\ {} \in SUBSET Due(c)
        /\ ({} = Due(c) \/ c \in {} \cup Exempt)
    BY <2>1
  <2>. QED BY <2>1, <2>2, <2>3, <2>4, RunPull
<1>7. ASSUME NEW p \in Procs, Derive(p) \/ DeriveGaps(p) PROVE RunInv'
  <2>1. /\ run' = run /\ source' = source /\ pulled' = pulled
        /\ pc[p] = "pull" /\ run[p].todo = {} /\ pc' = [pc EXCEPT ![p] = "stamp"]
    BY <1>7 DEF Derive, DeriveGaps, At, GoTo, world
  <2>. QED BY <2>1 DEF RunInv, Covered, TypeOK
<1>8. ASSUME NEW p \in Procs,
             \/ Scanned(p) \/ GuardCheck(p) \/ TryLock(p) \/ StaleCheck(p)
             \/ BreakRm(p) \/ BreakMk(p) \/ BadConfig(p) \/ Stamp(p)
      PROVE  RunInv'
  <2>1. source' = source /\ pulled' = pulled
    BY <1>8 DEF Scanned, GuardCheck, TryLock, StaleCheck, BreakRm, BreakMk,
                BadConfig, Stamp, world, matter
  <2>2. /\ run' = run \/ run' = [run EXCEPT ![p] = IdleRun]
        /\ \E here \in Locations \ {"pull", "stamp"} : pc' = [pc EXCEPT ![p] = here]
    BY <1>8 DEF Scanned, GuardCheck, TryLock, StaleCheck, BreakRm, BreakMk, Mkdir,
                BadConfig, Stamp, End, GoTo, Locations
  <2>. QED BY <2>1, <2>2, RunKept
<1>9. ASSUME NEW p \in Procs,
             \/ NothingNew(p) \/ Untriaged(p) \/ NoPrompt(p) \/ Triage(p)
             \/ WriteSummary(p) \/ Exit(p) \/ Crash(p)
      PROVE  RunInv'
  <2>1. source' = source /\ pulled' = pulled
    BY <1>9 DEF NothingNew, Untriaged, NoPrompt, Triage, WriteSummary, Exit, Crash,
                ToSummary, world, matter
  <2>2. /\ run' = run \/ run' = [run EXCEPT ![p] = IdleRun]
        /\ \E here \in Locations \ {"pull", "stamp"} : pc' = [pc EXCEPT ![p] = here]
    BY <1>9 DEF NothingNew, Untriaged, NoPrompt, Triage, WriteSummary, Exit, Crash,
                ToSummary, End, GoTo, Locations
  <2>. QED BY <2>1, <2>2, RunKept
<1>10. ASSUME Environment PROVE RunInv'
  <2>1. /\ run' = run /\ pc' = pc /\ source \subseteq source' /\ pulled' = pulled
    BY <1>10 DEF Environment, Arrive, Land, Settle, Tick, world, matter
  <2>. QED BY <2>1, RunKept, ProcsAssumption
<1>11. CASE UNCHANGED vars
  <2>1. run' = run /\ pc' = pc /\ source' = source /\ pulled' = pulled
    BY <1>11 DEF vars, world, matter
  <2>. QED BY <2>1, RunKept, ProcsAssumption
<1>. QED BY <1>1, <1>2, <1>3, <1>4, <1>5, <1>6, <1>7, <1>8, <1>9, <1>10, <1>11
         DEF Next, Step

THEOREM RunInvariant == Spec => [](TypeOK /\ RunInv)
BY InitType, RunInit, StepType, RunStep, PTL DEF Spec

\* Promise 3 of specs/sync.md, as far as it holds and for any set of connectors:
\* of what waited as the run began, the guard is advanced over nothing but what
\* a connector without a pull.js, or one that exits 0 all the same, left there.
THEOREM GuardIsHonest == Spec => GuardCoversArrivals
<1>1. ASSUME RunInv, NEW p \in Procs, Stamp(p), CleanSync(p)
      PROVE  {i \in run[p].owed : SourceOf[i] \notin Exempt} \subseteq pulled
  <2>1. /\ pc[p] = "stamp" /\ run[p].mode # "watch" /\ run[p].failed = {}
    BY <1>1 DEF Stamp, At, CleanSync
  <2>2. run[p].todo = {} /\ Covered(p)
    BY <1>1, <2>1 DEF RunInv
  <2>. QED BY <2>1, <2>2 DEF Covered
<1>2. RunInv /\ [Next]_vars =>
        [\A p \in Procs : Stamp(p) /\ CleanSync(p)
            => {i \in run[p].owed : SourceOf[i] \notin Exempt} \subseteq pulled]_vars
  BY <1>1
<1>. QED BY <1>2, RunInvariant, PTL DEF Spec, GuardCoversArrivals

-----------------------------------------------------------------------------
(* The sync implements EvidenceIntake *)

StoredInv ==
  /\ indexed \subseteq {i \in pulled : SourceOf[i] = Gmail}
  /\ text \subseteq pulled /\ triaged \subseteq pulled

LEMMA StoredStep ==
  TypeOK /\ RunInv /\ StoredInv /\ [Next]_vars
     => StoredInv' /\ [Intake!Next]_(Intake!intake)
<1> SUFFICES ASSUME TypeOK, RunInv, StoredInv, [Next]_vars
             PROVE  StoredInv' /\ [Intake!Next]_(Intake!intake)
    OBVIOUS
<1> DEFINE Record == <<pulled, indexed, text, triaged>>
<1>1. ASSUME Record' = Record PROVE StoredInv' /\ [Intake!Next]_(Intake!intake)
  BY <1>1 DEF StoredInv, Intake!intake
<1>2. ASSUME NEW got \in SUBSET (source \ pulled), pulled' = pulled \cup got,
             <<indexed, text, triaged>>' = <<indexed, text, triaged>>
      PROVE  StoredInv' /\ [Intake!Next]_(Intake!intake)
  <2>1. got \in SUBSET (Items \ pulled)
    BY DEF TypeOK
  <2>. QED BY <1>2, <2>1 DEF StoredInv, Intake!Next, Intake!Store
<1>3. ASSUME NEW p \in Procs, NEW c \in Configured, PullOk(p, c) \/ PullFail(p, c)
      PROVE  StoredInv' /\ [Intake!Next]_(Intake!intake)
  <2>1. PICK got \in SUBSET Due(c) : Fetched(p, c, got)
    BY <1>3 DEF PullOk, PullFail
  <2>. QED BY <1>2, <2>1 DEF Fetched, Due
<1>4. ASSUME NEW p \in Procs, Derive(p) \/ DeriveGaps(p)
      PROVE  StoredInv' /\ [Intake!Next]_(Intake!intake)
  <2>1. pulled' = pulled /\ triaged' = triaged
    BY <1>4 DEF Derive, DeriveGaps
  <2>2. text \subseteq text' /\ text' \subseteq pulled
    BY <1>4 DEF Derive, DeriveGaps, StoredInv
  <2>3. indexed \subseteq indexed'
        /\ indexed' \subseteq {i \in pulled : SourceOf[i] = Gmail}
    BY <1>4 DEF Derive, DeriveGaps, Index, StoredInv
  <2>. QED BY <2>1, <2>2, <2>3 DEF StoredInv, Intake!Next, Intake!Derive
<1>5. ASSUME NEW p \in Procs, Triage(p)
      PROVE  StoredInv' /\ [Intake!Next]_(Intake!intake)
  <2>1. <<pulled, indexed, text>>' = <<pulled, indexed, text>>
        /\ triaged' = triaged \cup (run[p].new \cap Items)
    BY <1>5 DEF Triage
  <2>2. run[p].new \cap Items \subseteq pulled
    BY DEF RunInv
  <2>. QED BY <2>1, <2>2 DEF StoredInv, Intake!Next, Intake!Brief
<1>6. ASSUME NEW p \in Procs,
             \/ \E m \in Modes : Launch(p, m)
             \/ \E f \in Files : Scan(p, f)
             \/ \E c \in Configured : PullMissing(p, c)
             \/ Scanned(p) \/ GuardCheck(p) \/ TryLock(p) \/ StaleCheck(p)
             \/ BreakRm(p) \/ BreakMk(p) \/ BadConfig(p) \/ Config(p) \/ Stamp(p)
             \/ NothingNew(p) \/ Untriaged(p) \/ NoPrompt(p) \/ WriteSummary(p)
             \/ Exit(p) \/ Crash(p)
      PROVE  Record' = Record
  BY <1>6 DEF Launch, Scan, PullMissing, Scanned, GuardCheck, TryLock, StaleCheck,
              BreakRm, BreakMk, BadConfig, Config, Stamp, NothingNew, Untriaged,
              NoPrompt, WriteSummary, Exit, Crash, matter
<1>7. ASSUME Environment \/ UNCHANGED vars PROVE Record' = Record
  BY <1>7 DEF Environment, Arrive, Land, Settle, Tick, matter, vars
<1>. QED BY <1>1, <1>3, <1>4, <1>5, <1>6, <1>7 DEF Next, Step

\* Every behaviour of the sync is one of EvidenceIntake: the record and what is
\* derived from it only grow, and nothing is read before it is stored.
THEOREM SyncImplementsIntake == Spec => Intakes
<1>1. Init => StoredInv /\ Intake!Init
  BY DEF Init, StoredInv, Intake!Init
<1>2. TypeOK /\ RunInv /\ StoredInv /\ [Next]_vars
        => StoredInv' /\ [Intake!Next]_(Intake!intake)
  BY StoredStep
<1>. QED BY <1>1, <1>2, RunInvariant, PTL DEF Spec, Intakes, Intake!Spec

-----------------------------------------------------------------------------
(* The failure streak *)

LEMMA StreakStep ==
  TypeOK /\ RunInv /\ StreakSound /\ [Next]_vars => StreakSound'
<1> SUFFICES ASSUME TypeOK, RunInv, StreakSound, [Next]_vars PROVE StreakSound'
    OBVIOUS
<1>1. ASSUME NEW p \in Procs, WriteSummary(p) PROVE StreakSound'
  <2>1. /\ summary'.failed = (run[p].failed # {})
        /\ summary'.first = NewStreak(p).first /\ summary'.runs = NewStreak(p).runs
    BY <1>1 DEF WriteSummary
  <2>2. CASE run[p].mode = "watch"
    <3>1. run[p].failed = {} /\ streak' = streak
      BY <1>1, <2>2 DEF RunInv, WriteSummary
    <3>. QED BY <2>1, <2>2, <3>1 DEF NewStreak, StreakSound
  <2>3. CASE run[p].mode # "watch" /\ run[p].failed = {}
    <3>1. streak' = 0
      BY <1>1, <2>3 DEF WriteSummary
    <3>2. NewStreak(p) = [first |-> 0, runs |-> 0]
      BY <2>3 DEF NewStreak
    <3>3. summary'.first = 0 /\ summary'.runs = 0
      BY <2>1, <3>2
    <3>4. ~summary'.failed
      BY <2>1, <2>3, Zenon
    <3>. QED BY <3>1, <3>3, <3>4 DEF StreakSound
  <2>4. CASE run[p].mode # "watch" /\ run[p].failed # {}
    <3>1. streak' = Capped(streak + 1) /\ streak \in 0..StreakCap
      BY <1>1, <2>4 DEF WriteSummary, TypeOK
    <3>2. summary.runs \in 0..StreakCap /\ summary.first \in 0..StreakCap
      BY DEF TypeOK, Summaries
    <3>3. NewStreak(p) =
            IF summary.failed
            THEN [first |-> IF summary.first = 0 THEN Capped(streak + 1)
                                                 ELSE summary.first,
                  runs  |-> Capped(summary.runs + 1)]
            ELSE [first |-> Capped(streak + 1), runs |-> 1]
      BY <2>4 DEF NewStreak
    <3>. QED BY <2>1, <3>1, <3>2, <3>3, BoundsAssumption DEF Capped, StreakSound
  <2>. QED BY <2>2, <2>3, <2>4
<1>2. ASSUME NEW p \in Procs, Crash(p) PROVE StreakSound'
  <2>1. streak' = streak /\ (summary' = summary \/ summary' = NoSummary)
    BY <1>2 DEF Crash
  <2>2. streak \in Nat
    BY BoundsAssumption DEF TypeOK
  <2>. QED BY <2>1, <2>2 DEF StreakSound, NoSummary
<1>3. ASSUME NEW p \in Procs,
             \/ \E m \in Modes : Launch(p, m)
             \/ \E f \in Files : Scan(p, f)
             \/ \E c \in Configured : \/ PullOk(p, c) \/ PullFail(p, c)
                                     \/ PullMissing(p, c)
             \/ Scanned(p) \/ GuardCheck(p) \/ TryLock(p) \/ StaleCheck(p)
             \/ BreakRm(p) \/ BreakMk(p) \/ BadConfig(p) \/ Config(p)
             \/ Derive(p) \/ DeriveGaps(p) \/ Stamp(p) \/ NothingNew(p)
             \/ Untriaged(p) \/ NoPrompt(p) \/ Triage(p) \/ Exit(p)
      PROVE  summary' = summary /\ streak' = streak
  BY <1>3 DEF Launch, Scan, PullOk, PullFail, PullMissing, Fetched, Scanned,
              GuardCheck, TryLock, StaleCheck, BreakRm, BreakMk, BadConfig, Config,
              Derive, DeriveGaps, Stamp, NothingNew, Untriaged, NoPrompt, Triage,
              ToSummary, Exit, history
<1>4. ASSUME Environment \/ UNCHANGED vars
      PROVE  summary' = summary /\ streak' = streak
  BY <1>4 DEF Environment, Arrive, Land, Settle, Tick, history, vars
<1>. QED BY <1>1, <1>2, <1>3, <1>4 DEF Next, Step, StreakSound

\* The reported streak is never longer, nor older, than the real one.
THEOREM StreakNeverOverstated == Spec => []StreakSound
<1>1. Init => StreakSound
  BY DEF Init, StreakSound, NoSummary
<1>. QED BY <1>1, RunInvariant, StreakStep, PTL DEF Spec

-----------------------------------------------------------------------------
(* Catch-up once *)

PastGuard == {"lock", "stale", "breakrm", "breakmk", "config", "pull", "stamp"}

\* The guard is at least as young as the last success of a scheduled run, so a
\* scheduled run that got past the guard finds no recent one.
SpacingInv ==
  /\ sinceSched < MinInterval => guard # NoGuard /\ guard <= sinceSched
  /\ \A p \in Procs : run[p].mode = "scheduled" =>
       /\ "scheduled" \in ModesOf[p] /\ pc[p] # "scan"
       /\ pc[p] \in PastGuard => sinceSched = MinInterval

LEMMA SpacingKept ==
  ASSUME TypeOK, SpacingInv, sinceSched' = sinceSched, guard' = guard,
         NEW p \in Procs, NEW here \in Locations \ {"scan"},
         run'[p].mode = run[p].mode \/ run'[p] = IdleRun,
         \A q \in Procs \ {p} : run'[q] = run[q],
         pc' = pc \/ pc' = [pc EXCEPT ![p] = here],
         here \in PastGuard => pc[p] \in PastGuard
  PROVE  SpacingInv'
BY DEF SpacingInv, TypeOK, IdleRun

LEMMA SpacingStep ==
  ASSUME \A p, q \in Procs : "scheduled" \in ModesOf[p] \cap ModesOf[q] => p = q
  PROVE  TypeOK /\ SpacingInv /\ [Next]_vars => SpacingInv'
<1> SUFFICES ASSUME TypeOK, SpacingInv, [Next]_vars PROVE SpacingInv'
    OBVIOUS
<1>1. ASSUME NEW p \in Procs, NEW m \in Modes, Launch(p, m) PROVE SpacingInv'
  <2>1. /\ m \in ModesOf[p] /\ run'[p].mode = m
        /\ \A q \in Procs \ {p} : run'[q] = run[q] /\ pc'[q] = pc[q]
        /\ m = "scheduled" => pc'[p] \notin PastGuard /\ pc'[p] # "scan"
    BY <1>1 DEF Launch, GoTo, IdleRun, TypeOK, Modes, PastGuard
  <2>2. sinceSched' = sinceSched /\ guard' = guard
    BY <1>1 DEF Launch, history
  <2>. QED BY <2>1, <2>2 DEF SpacingInv
<1>2. ASSUME NEW p \in Procs, GuardCheck(p) PROVE SpacingInv'
  <2>1. sinceSched' = sinceSched /\ guard' = guard
    BY <1>2 DEF GuardCheck, history
  <2>2. CASE TooSoon
    <3>1. run' = [run EXCEPT ![p] = IdleRun] /\ pc' = [pc EXCEPT ![p] = "idle"]
      BY <1>2, <2>2 DEF GuardCheck, End, GoTo
    <3>. QED BY <2>1, <3>1, SpacingKept DEF TypeOK, Locations, PastGuard
  <2>3. CASE ~TooSoon
    <3>1. run' = run /\ pc' = [pc EXCEPT ![p] = "lock"]
      BY <1>2, <2>3 DEF GuardCheck, GoTo
    <3>2. sinceSched = MinInterval
      BY <2>3, BoundsAssumption DEF TooSoon, SpacingInv, TypeOK, NoGuard
    <3>. QED BY <2>1, <3>1, <3>2 DEF SpacingInv, TypeOK
  <2>. QED BY <2>2, <2>3
<1>3. ASSUME NEW p \in Procs, Stamp(p) PROVE SpacingInv'
  <2>1. pc' = [pc EXCEPT ![p] = "route"] /\ run' = run
    BY <1>3 DEF Stamp, GoTo
  <2>2. CASE ~CleanSync(p)
    BY <1>3, <2>1, <2>2, SpacingKept DEF Stamp, Locations, PastGuard
  <2>3. CASE CleanSync(p) /\ run[p].mode # "scheduled"
    <3>1. guard' = 0 /\ sinceSched' = sinceSched /\ sinceSched \in Nat
      BY <1>3, <2>3, BoundsAssumption DEF Stamp, TypeOK
    <3>. QED BY <2>1, <3>1 DEF SpacingInv, TypeOK, NoGuard, PastGuard
  <2>4. CASE CleanSync(p) /\ run[p].mode = "scheduled"
    <3>1. guard' = 0 /\ sinceSched' = 0
      BY <1>3, <2>4 DEF Stamp
    <3>2. \A q \in Procs : run[q].mode = "scheduled" => q = p
      BY <2>4 DEF SpacingInv
    <3>. QED BY <2>1, <3>1, <3>2 DEF SpacingInv, TypeOK, NoGuard, PastGuard
  <2>. QED BY <2>2, <2>3, <2>4
<1>4. ASSUME NEW p \in Procs,
             \/ Scanned(p) \/ TryLock(p) \/ StaleCheck(p) \/ BreakRm(p)
             \/ BreakMk(p) \/ BadConfig(p) \/ NothingNew(p) \/ Untriaged(p)
             \/ NoPrompt(p) \/ Triage(p) \/ WriteSummary(p) \/ Exit(p) \/ Crash(p)
             \/ Derive(p) \/ DeriveGaps(p)
      PROVE  SpacingInv'
  <2>1. sinceSched' = sinceSched /\ guard' = guard
    BY <1>4 DEF Scanned, TryLock, StaleCheck, BreakRm, BreakMk, BadConfig,
                NothingNew, Untriaged, NoPrompt, Triage, WriteSummary, Exit, Crash,
                ToSummary, Derive, DeriveGaps, history
  <2>2. run' = run \/ run' = [run EXCEPT ![p] = IdleRun]
    BY <1>4 DEF Scanned, TryLock, StaleCheck, BreakRm, BreakMk, Mkdir, BadConfig,
                NothingNew, Untriaged, NoPrompt, Triage, WriteSummary, Exit, Crash,
                ToSummary, Derive, DeriveGaps, End
  <2>3. CASE Scanned(p)
    <3>1. CASE pc' = [pc EXCEPT ![p] = "idle"]
      BY <2>1, <2>2, <3>1, SpacingKept DEF TypeOK, Locations, PastGuard
    <3>2. CASE pc' = [pc EXCEPT ![p] = "lock"] /\ run' = run
      <4>1. run[p].mode # "scheduled"
        BY <2>3 DEF Scanned, At, SpacingInv
      <4>. QED BY <2>1, <3>2, <4>1 DEF SpacingInv, TypeOK
    <3>. QED BY <2>3, <3>1, <3>2 DEF Scanned, End, GoTo
  <2>4. CASE ~Scanned(p)
    <3>1. \E here \in Locations \ {"scan"} :
            /\ pc' = [pc EXCEPT ![p] = here]
            /\ here \in PastGuard => pc[p] \in PastGuard
      BY <1>4, <2>4
         DEF TryLock, StaleCheck, BreakRm, BreakMk, Mkdir, BadConfig, NothingNew,
             Untriaged, NoPrompt, Triage, WriteSummary, Exit, Crash, ToSummary,
             Derive, DeriveGaps, End, GoTo, At, Locations, PastGuard
    <3>2. run'[p].mode = run[p].mode \/ run'[p] = IdleRun
      BY <2>2 DEF TypeOK
    <3>3. \A q \in Procs \ {p} : run'[q] = run[q]
      BY <2>2 DEF TypeOK
    <3>. QED BY <2>1, <3>1, <3>2, <3>3, SpacingKept
  <2>. QED BY <2>3, <2>4
<1>5. ASSUME NEW p \in Procs,
             \/ \E f \in Files : Scan(p, f)
             \/ \E c \in Configured : \/ PullOk(p, c) \/ PullFail(p, c)
                                     \/ PullMissing(p, c)
             \/ Config(p)
      PROVE  SpacingInv'
  <2>1. sinceSched' = sinceSched /\ guard' = guard
    BY <1>5 DEF Scan, PullOk, PullFail, PullMissing, Fetched, Config, history
  <2>2. /\ run'[p].mode = run[p].mode
        /\ \A q \in Procs \ {p} : run'[q] = run[q]
    <3>1. run \in [Procs -> Runs]
      BY DEF TypeOK
    <3>2. ASSUME NEW c \in Configured, PullOk(p, c)
          PROVE  /\ run'[p].mode = run[p].mode
                 /\ \A q \in Procs \ {p} : run'[q] = run[q]
      <4>1. PICK got : run' = [run EXCEPT ![p].todo = @ \ {c}, ![p].new = @ \cup got]
        BY <3>2 DEF PullOk
      <4>. QED BY <4>1, <3>1 DEF Runs
    <3>3. ASSUME NEW c \in Configured, PullFail(p, c)
          PROVE  /\ run'[p].mode = run[p].mode
                 /\ \A q \in Procs \ {p} : run'[q] = run[q]
      <4>1. PICK got : run' = [run EXCEPT ![p].todo = @ \ {c}, ![p].new = @ \cup got,
                                         ![p].failed = @ \cup {c}]
        BY <3>3 DEF PullFail
      <4>. QED BY <4>1, <3>1 DEF Runs
    <3>4. ASSUME NEW f \in Files, Scan(p, f)
          PROVE  /\ run'[p].mode = run[p].mode
                 /\ \A q \in Procs \ {p} : run'[q] = run[q]
      BY <3>1, <3>4 DEF Scan, Runs
    <3>5. ASSUME (\E c \in Configured : PullMissing(p, c)) \/ Config(p)
          PROVE  /\ run'[p].mode = run[p].mode
                 /\ \A q \in Procs \ {p} : run'[q] = run[q]
      BY <3>1, <3>5 DEF PullMissing, Config, Runs
    <3>. QED BY <1>5, <3>2, <3>3, <3>4, <3>5
  <2>3. \/ pc' = pc
        \/ pc' = [pc EXCEPT ![p] = "pull"] /\ pc[p] \in PastGuard
    BY <1>5 DEF Scan, PullOk, PullFail, PullMissing, Fetched, Config, GoTo, At,
                PastGuard
  <2>4. {"pull", "idle"} \subseteq Locations \ {"scan"} /\ "idle" \notin PastGuard
    BY DEF Locations, PastGuard
  <2>5. CASE pc' = pc
    BY <2>1, <2>2, <2>4, <2>5, SpacingKept
  <2>6. CASE pc' # pc
    BY <2>1, <2>2, <2>3, <2>4, <2>6, SpacingKept
  <2>. QED BY <2>5, <2>6
<1>6. ASSUME Environment PROVE SpacingInv'
  <2>1. run' = run /\ pc' = pc
    BY <1>6 DEF Environment, Arrive, Land, Settle, Tick
  <2>2. CASE ~Tick
    BY <1>6, <2>1, <2>2 DEF Environment, Arrive, Land, Settle, history, SpacingInv
  <2>3. CASE Tick
    <3>1. sinceSched' = Older(sinceSched, MinInterval)
          /\ guard' = IF guard = NoGuard THEN NoGuard ELSE Older(guard, MinInterval)
      BY <2>3 DEF Tick
    <3>2. sinceSched \in 0..MinInterval /\ guard \in NoGuard..MinInterval
      BY DEF TypeOK
    <3>3. sinceSched = MinInterval => sinceSched' = MinInterval
      BY <3>1, BoundsAssumption DEF Older
    <3>4. sinceSched' < MinInterval => guard' # NoGuard /\ guard' <= sinceSched'
      BY <3>1, <3>2, BoundsAssumption DEF Older, NoGuard, SpacingInv
    <3>. QED BY <2>1, <3>3, <3>4 DEF SpacingInv
  <2>. QED BY <2>2, <2>3
<1>7. CASE UNCHANGED vars
  BY <1>7 DEF vars, history, SpacingInv
<1>. QED BY <1>1, <1>2, <1>3, <1>4, <1>5, <1>6, <1>7 DEF Next, Step

\* Promise 2 of specs/sync.md: with a single scheduled job, two scheduled runs
\* that fully succeed are at least MinInterval apart.
THEOREM CatchUpOnce ==
  ASSUME \A p, q \in Procs : "scheduled" \in ModesOf[p] \cap ModesOf[q] => p = q
  PROVE  Spec => ScheduledSpacing
<1>1. Init => SpacingInv
  BY BoundsAssumption DEF Init, SpacingInv, IdleRun
<1>2. TypeOK /\ SpacingInv /\ [Next]_vars => SpacingInv'
  BY SpacingStep
<1>3. SpacingInv /\ [Next]_vars =>
        [\A p \in Procs : Stamp(p) /\ CleanSync(p) /\ run[p].mode = "scheduled"
            => sinceSched = MinInterval]_vars
  <2>1. ASSUME SpacingInv, NEW p \in Procs, Stamp(p), run[p].mode = "scheduled"
        PROVE  sinceSched = MinInterval
    BY <2>1 DEF SpacingInv, Stamp, At, PastGuard
  <2>. QED BY <2>1
<1>. QED BY <1>1, <1>2, <1>3, TypeCorrect, PTL DEF Spec, ScheduledSpacing
=============================================================================
