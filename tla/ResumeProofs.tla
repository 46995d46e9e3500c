---------------------------- MODULE ResumeProofs ----------------------------
(***************************************************************************)
(* Theorems about two programs that are stopped half way and take up their *)
(* work from what they wrote.                                              *)
(*                                                                         *)
(* FlowRun, for every flow load_flow accepts and any number of kills and   *)
(* resumes.  Type correctness comes first; the bound on the loops needs    *)
(* only that state.json is never behind the rounds; the rest rests on one  *)
(* invariant, WalkInv: in a flow whose loops go backwards the completed    *)
(* steps are exactly those before the runner's position.                   *)
(*                                                                         *)
(* PhoneStore, for any number of backups in any order, any margin, and     *)
(* however the date of relevance is moved.  What a coverage says of the    *)
(* store needs that a backup still to be examined has not been read whole. *)
(***************************************************************************)
EXTENDS FlowRun, PhoneStore, TLAPS

-----------------------------------------------------------------------------
(* FlowRun.                                                                *)

\* A living execution has not ended, and only a save leaves state.json torn.
Alive ==
  /\ pc # "end" => exit = "none"
  /\ pc \notin {"save", "end"} => disk # "torn"
  /\ pc = "wrote" => i \in Steps \ Gates
  /\ pc = "shut" => i \in Gates

\* "A stopped run resumes from its files rather than from memory": a state.json
\* that can be read says all the execution knows.
NothingToLose == disk # "torn" => state = saved

\* The rounds on record are never behind the loops taken.
RoundsInv ==
  /\ NothingToLose
  /\ \A j \in Steps : loops[j] <= state.rounds[j]
  /\ LoopsBounded

\* The completed steps are those before the runner's position.
Position ==
  /\ \A s \in state.done : 1 .. s - 1 \subseteq state.done
  /\ pc \in {"run", "shut", "wrote"} \/ (pc = "save" /\ next = "run")
       => 1 .. i - 1 \subseteq state.done
  /\ pc \in {"shut", "wrote"} => i \in Steps \ state.done
  /\ exit = "complete" => disk # "torn" /\ state.done = Steps

\* Outputs appear in the order of the steps, and rest on earlier ones.
Outputs ==
  /\ state.done \ Gates \subseteq made
  /\ pc = "wrote" => i \in made
  /\ \A s \in made : (1 .. s - 1) \ Gates \subseteq made
  /\ values \subseteq made
  /\ \A s \in made : flow.needs[s] \subseteq 1 .. s - 1

\* Nothing completed is stale.
Fresh ==
  /\ state.done \cap (stale \ Gates) = {}
  /\ pc = "wrote" => i \notin stale /\ (i \in Judges => verdict[i] # "none")
  /\ \A j \in Judges \cap state.done : verdict[j] = "pass"

\* What a person looks at, or has approved, is not done again, unless a loop
\* spans the gate.
Cleared ==
  /\ Gates \cap state.done \subseteq approved
  /\ \A g \in pending \cup approved : ~Spanned(g) => 1 .. g - 1 \subseteq state.done
  /\ \A g \in approved : ~Spanned(g) => g \notin stale

WalkInv == Backward => Position /\ Outputs /\ Fresh /\ Cleared

-----------------------------------------------------------------------------
\* What load_flow let through, as the steps below use it.
LEMMA FlowIsValid ==
  ASSUME TypeOK
  PROVE  /\ flow.n \in Nat /\ Steps = 1 .. flow.n
         /\ flow.onFail \in [Steps -> 0 .. flow.n]
         /\ flow.limit \in [Steps -> Int]
         /\ \A s \in Steps : Kind(s) \in Kinds /\ flow.needs[s] \subseteq Steps
BY FlowsAssumption DEF TypeOK, ValidFlow, Steps, Kind

\* The flow never changes.
LEMMA SameFlow ==
  ASSUME flow' = flow
  PROVE  Steps' = Steps /\ Gates' = Gates /\ Judges' = Judges
         /\ States' = States
BY DEF Steps, Gates, Judges, Kind, States

\* What one save puts into state.json is a list of steps and rounds.
LEMMA StateTypes ==
  ASSUME state \in States, i \in Steps
  PROVE  /\ [state EXCEPT !.done = @ \cup {i}] \in States
         /\ Rounds \in Nat
         /\ [state EXCEPT !.rounds[i] = Rounds] \in States
         /\ \A d : [done |-> state.done \ d,
                   rounds |-> [state.rounds EXCEPT ![i] = Rounds]] \in States
<1>1. state.done \subseteq Steps /\ state.rounds \in [Steps -> Nat]
  BY DEF States
<1>2. Rounds \in Nat
  BY <1>1 DEF Rounds
<1>3. [state.rounds EXCEPT ![i] = Rounds] \in [Steps -> Nat]
  BY <1>1, <1>2
<1>4. [state EXCEPT !.done = @ \cup {i}] \in States
  BY <1>1 DEF States
<1>5. [state EXCEPT !.rounds[i] = Rounds] \in States
  BY <1>1, <1>3 DEF States
<1>6. QED
  BY <1>1, <1>2, <1>3, <1>4, <1>5 DEF States

\* The runner's variables keep their types, and an execution that lives has
\* not ended.
THEOREM TypeCorrect == Spec => [](TypeOK /\ Alive)
<1>1. Init => TypeOK /\ Alive
  BY FlowsAssumption DEF Init, TypeOK, Alive, ValidFlow, Steps, NoRounds, States
<1>2. TypeOK /\ Alive /\ [Next]_vars => TypeOK' /\ Alive'
  <2> SUFFICES ASSUME TypeOK, Alive, [Next]_vars PROVE TypeOK' /\ Alive'
    OBVIOUS
  <2>0. /\ flow.n \in Nat /\ Steps = 1 .. flow.n
        /\ 1 \in 1 .. flow.n + 1
        /\ i \in Steps => i + 1 \in 1 .. flow.n + 1
        /\ i \in Steps /\ flow.onFail[i] # 0 => flow.onFail[i] \in 1 .. flow.n + 1
        /\ state.done \subseteq Steps
    BY FlowIsValid DEF TypeOK, States
  <2> USE <2>0, SameFlow DEF TypeOK, Alive
  <2>1. CASE Enter
    BY <2>1 DEF Enter, End, files, human, local, history
  <2>2. CASE Skip
    BY <2>2 DEF Skip, files, human, local, history
  <2>3. CASE GateOpen
    BY <2>3, StateTypes DEF GateOpen, Todo, Save, files, human, local, history
  <2>4. CASE GateShut
    BY <2>4 DEF GateShut, Todo, Gates, files, human, local, history
  <2>5. CASE AskHuman
    BY <2>5 DEF AskHuman, Save, files, human, local, history
  <2>6. CASE Unrendered
    BY <2>6 DEF Unrendered, End, files, human, local, history
  <2>7. CASE StepFails
    BY <2>7 DEF StepFails, End, files, human, local, history
  <2>8. CASE Produce
    BY <2>8 DEF Produce, Todo, Output, Gates, files, human, local, history
  <2>9. CASE Complete
    BY <2>9, StateTypes DEF Complete, Save, files, human, local, history
  <2>10. CASE GiveUp
    BY <2>10, StateTypes DEF GiveUp, Save, files, human, local, history
  <2>11. CASE LoopBack
    <3>1. loops' \in [Steps -> Nat]
      BY <2>11 DEF LoopBack
    <3>2. state' \in States
      BY <2>11, StateTypes DEF LoopBack, Save
    <3>3. i' \in 1 .. flow.n + 1
      BY <2>11 DEF LoopBack
    <3>4. QED
      BY <2>11, <3>1, <3>2, <3>3 DEF LoopBack, Save, files, human
  <2>12. CASE Written
    BY <2>12 DEF Written, End, files, human, local, history
  <2>13. CASE Finish
    BY <2>13 DEF Finish, End, files, human, local, history
  <2>14. CASE Resume
    BY <2>14 DEF Resume, End, files, human, local, history
  <2>15. CASE Crash
    BY <2>15 DEF Crash, End, files, human, local, history
  <2>16. ASSUME NEW score \in {"pass", "fail"}, Judge(score) PROVE TypeOK' /\ Alive'
    BY <2>16 DEF Judge, Todo, Output, Gates, human, local, history
  <2>17. ASSUME NEW g \in Steps, Approve(g) PROVE TypeOK' /\ Alive'
    BY <2>17 DEF Approve, local, history
  <2>18. CASE UNCHANGED vars
    BY <2>18 DEF vars, files, human, local, history
  <2>19. QED
    BY <2>1, <2>2, <2>3, <2>4, <2>5, <2>6, <2>7, <2>8, <2>9, <2>10, <2>11, <2>12, <2>13, <2>14, <2>15, <2>16, <2>17, <2>18 DEF Next, Execute
<1>3. QED
  BY <1>1, <1>2, PTL DEF Spec

-----------------------------------------------------------------------------
\* What state.json says is what the execution knows, and the rounds on record
\* bound the loops taken, so that no kill and no resume buys a further round.
THEOREM RoundsKept == Spec => []RoundsInv
<1>1. Init => RoundsInv
  BY DEF Init, RoundsInv, NothingToLose, LoopsBounded, NoRounds, Judges
<1>2. TypeOK /\ Alive /\ RoundsInv /\ [Next]_vars => RoundsInv'
  <2> SUFFICES ASSUME TypeOK, Alive, RoundsInv, [Next]_vars PROVE RoundsInv'
    OBVIOUS
  <2>1. state.rounds \in [Steps -> Nat] /\ loops \in [Steps -> Nat]
    BY DEF TypeOK, States
  <2>2. Judges \subseteq Steps
    BY DEF Judges
  <2> USE <2>1, <2>2, SameFlow DEF RoundsInv, NothingToLose, LoopsBounded
  <2>3. CASE GateOpen
    BY <2>3 DEF GateOpen, Save, history
  <2>4. CASE Complete
    BY <2>4 DEF Complete, Save, history
  <2>5. CASE AskHuman
    BY <2>5 DEF AskHuman, Save, history
  <2>6. CASE GiveUp
    <3>1. Rounds \in Nat /\ i \in Steps /\ state \in States
      BY <2>6, StateTypes DEF GiveUp, Alive, TypeOK
    <3>2. state'.rounds = [state.rounds EXCEPT ![i] = Rounds]
      BY <2>6, <3>1 DEF GiveUp, Save, States
    <3>3. \A j \in Steps : state.rounds[j] <= state'.rounds[j]
      BY <3>1, <3>2 DEF Rounds
    <3>4. \A j \in Steps : loops[j] <= state'.rounds[j]
      BY <3>1, <3>2, <3>3 DEF Rounds
    <3>5. QED
      BY <2>6, <3>4 DEF GiveUp, Save, history
  <2>7. CASE LoopBack
    <3>1. Rounds \in Nat /\ i \in Steps /\ flow.limit[i] \in Int
      BY <2>7, StateTypes, FlowIsValid DEF LoopBack, Alive, TypeOK
    <3>2. state'.rounds = [state.rounds EXCEPT ![i] = Rounds]
      BY <2>7 DEF LoopBack, Save
    <3>3. loops'[i] = loops[i] + 1 \/ loops'[i] = loops[i]
      BY <2>7, <3>1 DEF LoopBack
    <3>4. \A j \in Steps \ {i} : loops'[j] = loops[j]
      BY <2>7 DEF LoopBack
    <3>5. loops'[i] <= Rounds /\ Rounds < flow.limit[i]
      BY <2>7, <3>1, <3>3 DEF LoopBack, Rounds
    <3>6. \A j \in Steps : loops'[j] <= state'.rounds[j]
      BY <3>1, <3>2, <3>4, <3>5
    <3>7. loops'[i] < flow.limit[i]
      BY <3>1, <3>3, <3>5
    <3>8. QED
      BY <2>7, <3>4, <3>6, <3>7 DEF LoopBack, Save
  <2>8. CASE Written
    BY <2>8 DEF Written, local, history
  <2>9. CASE Resume
    BY <2>9 DEF Resume, history
  <2>10. CASE Enter \/ Skip \/ GateShut \/ Unrendered \/ StepFails \/ Produce
             \/ Finish \/ Crash \/ UNCHANGED vars
    BY <2>10 DEF Enter, Skip, GateShut, Unrendered, StepFails, Produce, Output,
      Finish, Crash, vars, local, history
  <2>11. ASSUME NEW score \in {"pass", "fail"}, Judge(score) PROVE RoundsInv'
    BY <2>11 DEF Judge, Output, local, history
  <2>12. ASSUME NEW g \in Steps, Approve(g) PROVE RoundsInv'
    BY <2>12 DEF Approve, local, history
  <2>13. QED
    BY <2>3, <2>4, <2>5, <2>6, <2>7, <2>8, <2>9, <2>10, <2>11, <2>12
      DEF Next, Execute
<1>3. QED
  BY <1>1, <1>2, TypeCorrect, PTL DEF Spec

\* specs/flows.md: a judge loops back at most max_rounds times.
THEOREM LoopBound == Spec => []LoopsBounded
BY RoundsKept, PTL DEF RoundsInv

-----------------------------------------------------------------------------
\* Where the runner works on a step, the completed steps are those before it.
LEMMA DoneIsBefore ==
  ASSUME TypeOK, Position, i \in Steps \ state.done, 1 .. i - 1 \subseteq state.done
  PROVE  state.done = 1 .. i - 1
<1>1. Steps = 1 .. flow.n /\ flow.n \in Nat /\ state.done \subseteq Steps
  BY FlowIsValid DEF TypeOK, States
<1>2. ASSUME NEW s \in state.done PROVE s \in 1 .. i - 1
  <2>1. 1 .. s - 1 \subseteq state.done
    BY DEF Position
  <2>2. i \notin 1 .. s - 1 /\ s # i
    BY <2>1
  <2>3. QED
    BY <1>1, <2>2
<1>3. QED
  BY <1>2

\* A set of the first k steps stays one when the next step joins it.
LEMMA PrefixGrows ==
  ASSUME NEW k \in Nat, NEW D, \A s \in D : s \in Nat /\ 1 .. s - 1 \subseteq D,
         1 .. k - 1 \subseteq D, k > 0
  PROVE  /\ 1 .. k \subseteq D \cup {k}
         /\ \A s \in D \cup {k} : 1 .. s - 1 \subseteq D \cup {k}
<1>1. \A s \in 1 .. k : s \in 1 .. k - 1 \/ s = k
  OBVIOUS
<1>2. QED
  BY <1>1

\* Position is kept by every step of a flow whose loops go backwards.
LEMMA PositionKept ==
  TypeOK /\ Alive /\ NothingToLose /\ Backward /\ Position /\ [Next]_vars => Position'
<1> SUFFICES ASSUME TypeOK, Alive, NothingToLose, Backward, Position, [Next]_vars
             PROVE  Position'
  OBVIOUS
<1>0. /\ Steps = 1 .. flow.n /\ flow.n \in Nat /\ state.done \subseteq Steps
      /\ i \in 1 .. flow.n + 1
  BY FlowIsValid DEF TypeOK, States
<1>1. ASSUME i \in Steps, 1 .. i - 1 \subseteq state.done,
             state'.done = state.done \cup {i}
      PROVE  /\ 1 .. i \subseteq state'.done
             /\ \A s \in state'.done : 1 .. s - 1 \subseteq state'.done
  <2>1. \A s \in state.done : s \in Nat /\ 1 .. s - 1 \subseteq state.done
    BY <1>0 DEF Position
  <2>2. QED
    BY <1>0, <1>1, <2>1, PrefixGrows
<1>2. CASE Enter
  BY <1>2, <1>0, SameFlow DEF Enter, End, Position
<1>3. CASE Skip
  <2>1. i \in state.done /\ 1 .. i - 1 \subseteq state.done
    BY <1>3 DEF Skip, Position
  <2>2. \A s \in 1 .. i : s \in 1 .. i - 1 \/ s = i
    BY <1>0
  <2>3. (1 .. i' - 1) \subseteq state.done
    BY <1>3, <1>0, <2>1, <2>2 DEF Skip
  <2>4. QED
    BY <1>3, <2>3, SameFlow DEF Skip, Position, Alive
<1>4. CASE GateOpen
  <2>1. /\ i \in Steps /\ 1 .. i - 1 \subseteq state.done /\ exit = "none"
        /\ state'.done = state.done \cup {i} /\ i' - 1 = i
    <3>1. i \in Steps /\ pc = "run" /\ i' = i + 1
      BY <1>4 DEF GateOpen, Todo
    <3>2. 1 .. i - 1 \subseteq state.done /\ exit = "none"
      BY <3>1 DEF Position, Alive
    <3>3. state'.done = state.done \cup {i}
      BY <1>4 DEF GateOpen, Save, TypeOK, States
    <3>4. QED
      BY <1>0, <3>1, <3>2, <3>3
  <2>2. QED
    BY <1>4, <1>1, <2>1 DEF GateOpen, Save, Position
<1>5. CASE Complete
  <2>1. /\ i \in Steps /\ 1 .. i - 1 \subseteq state.done /\ exit = "none"
        /\ state'.done = state.done \cup {i} /\ i' - 1 = i
    BY <1>5, <1>0 DEF Complete, Save, Position, Alive, TypeOK, States
  <2>2. QED
    BY <1>5, <1>1, <2>1 DEF Complete, Save, Position
<1>6. CASE GateShut
  BY <1>6, SameFlow DEF GateShut, Todo, Position, Alive, local
<1>7. CASE AskHuman
  BY <1>7, SameFlow DEF AskHuman, Save, Position, Alive
<1>8. CASE Unrendered
  BY <1>8, SameFlow DEF Unrendered, End, Position, Alive, local
<1>9. CASE StepFails
  BY <1>9, SameFlow DEF StepFails, End, Position, Alive, local
<1>10. CASE Produce
  BY <1>10, SameFlow DEF Produce, Todo, Output, Position, Alive, local
<1>11. CASE GiveUp
  <2>1. state'.done = state.done
    BY <1>11 DEF GiveUp, Save, TypeOK, States
  <2>2. QED
    BY <1>11, <2>1, SameFlow DEF GiveUp, Save, Position, Alive
<1>12. CASE LoopBack
  <2>1. /\ i \in Steps \ state.done /\ 1 .. i - 1 \subseteq state.done
        /\ flow.onFail[i] \in 1 .. i
    BY <1>12, <1>0, FlowIsValid DEF LoopBack, Rejected, Backward, Position, Alive
  <2>2. state.done = 1 .. i - 1
    BY <2>1, DoneIsBefore
  <2>3. state'.done = 1 .. i' - 1 /\ i' = flow.onFail[i]
    BY <1>12, <1>0, <2>1, <2>2 DEF LoopBack, Save, Redone
  <2>4. \A s \in state'.done : 1 .. s - 1 \subseteq state'.done
    BY <1>0, <2>1, <2>3
  <2>5. QED
    BY <1>12, <2>3, <2>4 DEF LoopBack, Save, Position, Alive
<1>13. CASE Written
  BY <1>13, SameFlow DEF Written, End, Position, Alive, TypeOK, local
<1>14. CASE Finish
  <2>1. 1 .. i - 1 \subseteq state.done /\ i > flow.n /\ disk # "torn"
    BY <1>14 DEF Finish, Position, Alive
  <2>2. state.done = Steps
    <3>1. i - 1 = flow.n
      BY <1>0, <2>1
    <3>2. 1 .. flow.n \subseteq state.done
      BY <2>1, <3>1
    <3>3. QED
      BY <1>0, <3>2
  <2>3. QED
    BY <1>14, <2>1, <2>2, SameFlow DEF Finish, End, Position, local
<1>15. CASE Resume
  BY <1>15, SameFlow DEF Resume, End, Position, Alive, NothingToLose
<1>16. CASE Crash
  BY <1>16, SameFlow DEF Crash, End, Position, Alive, local
<1>17. ASSUME NEW score \in {"pass", "fail"}, Judge(score) PROVE Position'
  BY <1>17, SameFlow DEF Judge, Todo, Output, Position, Alive, local
<1>18. ASSUME NEW g \in Steps, Approve(g) PROVE Position'
  BY <1>18, SameFlow DEF Approve, Position, local
<1>19. CASE UNCHANGED vars
  BY <1>19, SameFlow DEF vars, Position, local
<1>20. QED
  BY <1>2, <1>3, <1>4, <1>5, <1>6, <1>7, <1>8, <1>9, <1>10, <1>11, <1>12, <1>13,
    <1>14, <1>15, <1>16, <1>17, <1>18, <1>19 DEF Next, Execute

\* An output is written where the runner is: everything before is there, and
\* it rests on earlier outputs.
LEMMA OutputWritten ==
  ASSUME TypeOK, Backward, Position, Outputs, Work, Renders(i), made' = made \cup {i}
  PROVE  /\ i \in Steps \ Gates /\ state.done = 1 .. i - 1
         /\ flow.needs[i] \subseteq 1 .. i - 1
         /\ \A s \in made' : (1 .. s - 1) \ Gates \subseteq made'
<1>1. i \in (Steps \ Gates) \ state.done /\ pc = "run" /\ 1 .. i - 1 \subseteq state.done
  BY DEF Work, Todo, Gates, Kinds, Position
<1>2. state.done = 1 .. i - 1
  BY <1>1, DoneIsBefore
<1>3. (1 .. i - 1) \ Gates \subseteq made
  BY <1>2 DEF Outputs
<1>4. Steps = 1 .. flow.n /\ flow.n \in Nat /\ made \subseteq Steps
  BY FlowIsValid DEF TypeOK
<1>5. flow.needs[i] \subseteq 1 .. i - 1
  <2>1. CASE i \in made
    BY <2>1 DEF Outputs
  <2>2. CASE i \notin made
    <3>1. ASSUME NEW s \in made PROVE s \in 1 .. i - 1
      <4>1. (1 .. s - 1) \ Gates \subseteq made
        BY DEF Outputs
      <4>2. i \notin 1 .. s - 1 /\ s # i
        BY <1>1, <2>2, <4>1
      <4>3. QED
        BY <1>1, <1>4, <4>2
    <3>2. flow.needs[i] \subseteq made
      BY DEF Renders, Outputs
    <3>3. QED
      BY <3>1, <3>2
  <2>3. QED
    BY <2>1, <2>2
<1>6. \A s \in made' : (1 .. s - 1) \ Gates \subseteq made'
  BY <1>3 DEF Outputs
<1>7. QED
  BY <1>1, <1>2, <1>5, <1>6

\* Outputs is kept: the files appear in the order of the steps.
LEMMA OutputsKept ==
  TypeOK /\ Alive /\ NothingToLose /\ Backward /\ Position /\ Outputs /\ [Next]_vars
    => Outputs'
<1> SUFFICES ASSUME TypeOK, Alive, NothingToLose, Backward, Position, Outputs, [Next]_vars
             PROVE  Outputs'
  OBVIOUS
<1>1. CASE GateOpen
  <2>1. i \in Gates /\ state'.done = state.done \cup {i}
    BY <1>1 DEF GateOpen, Todo, Gates, Save, TypeOK, States
  <2>2. QED
    BY <1>1, <2>1, SameFlow DEF GateOpen, Save, Outputs, files
<1>2. CASE Complete
  <2>1. i \in made /\ state'.done = state.done \cup {i}
    BY <1>2 DEF Complete, Save, Outputs, TypeOK, States
  <2>2. QED
    BY <1>2, <2>1, SameFlow DEF Complete, Save, Outputs, files
<1>3. CASE LoopBack
  BY <1>3, SameFlow DEF LoopBack, Save, Outputs, files
<1>4. CASE GiveUp
  <2>1. state'.done = state.done
    BY <1>4 DEF GiveUp, Save, TypeOK, States
  <2>2. QED
    BY <1>4, <2>1, SameFlow DEF GiveUp, Save, Outputs, files
<1>5. CASE Produce
  <2>1. made' = made \cup {i} /\ Work /\ Renders(i)
    BY <1>5 DEF Produce, Output, Work, Kinds
  <2>2. QED
    BY <1>5, <2>1, OutputWritten, SameFlow DEF Produce, Output, Outputs, local
<1>6. ASSUME NEW score \in {"pass", "fail"}, Judge(score) PROVE Outputs'
  <2>1. made' = made \cup {i} /\ Work /\ Renders(i)
    BY <1>6 DEF Judge, Output, Work, Kinds
  <2>2. QED
    BY <1>6, <2>1, OutputWritten, SameFlow DEF Judge, Output, Outputs, local
<1>7. CASE Enter
  BY <1>7, SameFlow DEF Enter, End, Outputs, files
<1>8. CASE Skip \/ GateShut \/ Unrendered \/ StepFails \/ Finish \/ Crash \/ UNCHANGED vars
  BY <1>8, SameFlow DEF Skip, GateShut, Unrendered, StepFails, Finish, Crash, End, vars,
    Outputs, files, local
<1>9. CASE AskHuman
  BY <1>9, SameFlow DEF AskHuman, Save, Outputs, files
<1>10. CASE Written
  BY <1>10, SameFlow DEF Written, End, Outputs, files, local
<1>11. CASE Resume
  BY <1>11, SameFlow DEF Resume, End, Outputs, NothingToLose, files
<1>12. ASSUME NEW g \in Steps, Approve(g) PROVE Outputs'
  BY <1>12, SameFlow DEF Approve, Outputs, local
<1>13. QED
  BY <1>1, <1>2, <1>3, <1>4, <1>5, <1>6, <1>7, <1>8, <1>9, <1>10, <1>11, <1>12
    DEF Next, Execute

\* Fresh is kept: what a rewritten file makes stale lies after the runner's
\* position, where nothing is completed.
LEMMA FreshKept ==
  TypeOK /\ Alive /\ NothingToLose /\ Backward /\ Position /\ Outputs /\ Fresh
    /\ [Next]_vars => Fresh'
<1> SUFFICES ASSUME TypeOK, Alive, NothingToLose, Backward, Position, Outputs, Fresh,
                    [Next]_vars
             PROVE  Fresh'
  OBVIOUS
<1>0. ASSUME Work, Renders(i), Output
      PROVE  /\ i \in Steps \ Gates /\ i \notin state.done /\ i \notin stale'
             /\ state.done \cap (stale' \ Gates) = {}
  <2>1. made' = made \cup {i}
    BY <1>0 DEF Output
  <2>2. /\ i \in Steps \ Gates /\ state.done = 1 .. i - 1
    BY <1>0, <2>1, OutputWritten
  <2>3. i \in Nat /\ \A s \in made : s \in Nat
    <3>1. Steps \subseteq Nat
      BY FlowIsValid DEF Steps
    <3>2. made \subseteq Steps
      BY DEF TypeOK
    <3>3. i \in Steps
      BY <2>2
    <3>4. QED
      BY <3>1, <3>2, <3>3
  <2>4. i \notin state.done /\ i \notin stale'
    BY <1>0, <2>2, <2>3 DEF Output
  <2>5. ASSUME NEW t \in stale' \ Gates, t \in state.done PROVE FALSE
    <3>1. t \in made /\ i \in flow.needs[t]
      BY <1>0, <2>4, <2>5 DEF Output, Fresh, RestsOn, TypeOK
    <3>2. i < t
      BY <2>3, <3>1 DEF Outputs
    <3>3. QED
      BY <2>2, <2>3, <2>5, <3>2
  <2>6. QED
    BY <2>2, <2>4, <2>5
<1>1. CASE GateOpen
  <2>1. i \in Gates /\ i \notin Judges /\ state'.done = state.done \cup {i}
    BY <1>1 DEF GateOpen, Todo, Gates, Judges, Save, TypeOK, States
  <2>2. QED
    BY <1>1, <2>1, SameFlow DEF GateOpen, Save, Fresh, files
<1>2. CASE Complete
  <2>1. i \notin stale /\ state'.done = state.done \cup {i} /\ ~Rejected
    BY <1>2 DEF Complete, Save, Fresh, TypeOK, States
  <2>2. i \in Judges => verdict[i] = "pass"
    BY <1>2, <2>1 DEF Complete, Rejected, Fresh, TypeOK, Judges
  <2>3. QED
    BY <1>2, <2>1, <2>2, SameFlow DEF Complete, Save, Fresh, files
<1>3. CASE LoopBack
  BY <1>3, SameFlow DEF LoopBack, Save, Fresh, files
<1>4. CASE GiveUp
  <2>1. state'.done = state.done
    BY <1>4 DEF GiveUp, Save, TypeOK, States
  <2>2. QED
    BY <1>4, <2>1, SameFlow DEF GiveUp, Save, Fresh, files
<1>5. CASE Produce
  <2>1. Work /\ Renders(i) /\ Output
    BY <1>5 DEF Produce, Work, Kinds
  <2>2. i \notin Judges
    BY <1>5 DEF Produce, Todo, Judges
  <2>3. QED
    BY <1>0, <1>5, <2>1, <2>2, SameFlow DEF Produce, Output, Fresh, local
<1>6. ASSUME NEW score \in {"pass", "fail"}, Judge(score) PROVE Fresh'
  <2>1. Work /\ Renders(i) /\ Output
    BY <1>6 DEF Judge, Work, Kinds
  <2>2. \A j \in Judges \cap state.done : verdict'[j] = verdict[j]
    BY <1>0, <1>6, <2>1 DEF Judge, TypeOK, Judges
  <2>3. verdict'[i] # "none"
    BY <1>0, <1>6, <2>1 DEF Judge, TypeOK
  <2>4. QED
    BY <1>0, <1>6, <2>1, <2>2, <2>3, SameFlow DEF Judge, Fresh, local
<1>7. CASE Enter
  BY <1>7, SameFlow DEF Enter, End, Fresh, files
<1>8. CASE Skip \/ GateShut \/ Unrendered \/ StepFails \/ Finish \/ Crash \/ UNCHANGED vars
  BY <1>8, SameFlow DEF Skip, GateShut, Unrendered, StepFails, Finish, Crash, End, vars,
    Fresh, files, local
<1>9. CASE AskHuman
  BY <1>9, SameFlow DEF AskHuman, Save, Fresh, files
<1>10. CASE Written
  BY <1>10, SameFlow DEF Written, End, Fresh, files, local
<1>11. CASE Resume
  BY <1>11, SameFlow DEF Resume, End, Fresh, NothingToLose, files
<1>12. ASSUME NEW g \in Steps, Approve(g) PROVE Fresh'
  BY <1>12, SameFlow DEF Approve, Fresh, local
<1>13. QED
  BY <1>1, <1>2, <1>3, <1>4, <1>5, <1>6, <1>7, <1>8, <1>9, <1>10, <1>11, <1>12
    DEF Next, Execute

\* Cleared is kept: while a gate no loop spans waits or is approved, everything
\* before it stays completed.
LEMMA ClearedKept ==
  TypeOK /\ Alive /\ NothingToLose /\ Backward /\ Position /\ Outputs /\ Cleared
    /\ [Next]_vars => Cleared'
<1> SUFFICES ASSUME TypeOK, Alive, NothingToLose, Backward, Position, Outputs, Cleared,
                    [Next]_vars
             PROVE  Cleared'
  OBVIOUS
<1>s. flow' = flow => \A g : Spanned(g)' = Spanned(g)
  BY SameFlow DEF Spanned
<1>0. ASSUME Work, Renders(i), Output, UNCHANGED <<flow, human, local>>
      PROVE  Cleared'
  <2>1. made' = made \cup {i}
    BY <1>0 DEF Output
  <2>2. i \in Steps \ Gates /\ state.done = 1 .. i - 1
    BY <1>0, <2>1, OutputWritten
  <2>3. i \in Nat
    BY <2>2, FlowIsValid DEF TypeOK
  <2>4. ASSUME NEW g \in approved, ~Spanned(g) PROVE g \notin stale'
    <3>1. 1 .. g - 1 \subseteq state.done /\ g \notin stale /\ g \in Gates
      BY <2>4 DEF Cleared, TypeOK
    <3>2. i \notin RestsOn(g)
      BY <2>2, <2>3, <3>1 DEF RestsOn
    <3>3. QED
      BY <1>0, <3>1, <3>2 DEF Output
  <2>5. QED
    BY <1>0, <1>s, <2>4, SameFlow DEF Output, Cleared, human, local
<1>1. CASE GateOpen
  <2>1. i \in approved /\ state'.done = state.done \cup {i}
    BY <1>1 DEF GateOpen, Save, TypeOK, States
  <2>2. QED
    BY <1>1, <1>s, <2>1, SameFlow DEF GateOpen, Save, Cleared, files, human
<1>2. CASE Complete
  <2>1. i \notin Gates /\ state'.done = state.done \cup {i}
    BY <1>2 DEF Complete, Save, Alive, TypeOK, States
  <2>2. QED
    BY <1>2, <1>s, <2>1, SameFlow DEF Complete, Save, Cleared, files, human
<1>3. CASE LoopBack
  <2>1. /\ i \in Steps \ state.done /\ 1 .. i - 1 \subseteq state.done /\ i \in Judges
        /\ flow.onFail[i] \in 1 .. i /\ i \in Nat
    BY <1>3, FlowIsValid DEF LoopBack, Rejected, Backward, Position, Alive
  <2>2. state.done = 1 .. i - 1
    BY <2>1, DoneIsBefore
  <2>3. state'.done = 1 .. flow.onFail[i] - 1
    BY <1>3, <2>1, <2>2 DEF LoopBack, Save, Redone
  <2>4. ASSUME NEW g \in pending \cup approved, ~Spanned(g)
        PROVE  1 .. g - 1 \subseteq state'.done
    <3>1. 1 .. g - 1 \subseteq 1 .. i - 1 /\ g \in Gates /\ g \in Nat
      BY <2>2, <2>4, FlowIsValid DEF Cleared, TypeOK, Gates
    <3>2. g # i
      BY <2>1, <3>1 DEF Gates, Judges
    <3>3. g < i
      <4>1. g > i => i \in 1 .. g - 1
        BY <2>1, <3>1
      <4>2. QED
        BY <2>1, <3>1, <3>2, <4>1
    <3>4. flow.onFail[i] >= g
      BY <2>1, <2>4, <3>1, <3>3 DEF Spanned
    <3>5. QED
      BY <2>1, <2>3, <3>1, <3>4
  <2>5. state'.done \subseteq state.done
    BY <1>3 DEF LoopBack, Save
  <2>6. QED
    BY <1>3, <1>s, <2>4, <2>5, SameFlow DEF LoopBack, Save, Cleared, files, human
<1>4. CASE GiveUp
  <2>1. state'.done = state.done
    BY <1>4 DEF GiveUp, Save, TypeOK, States
  <2>2. QED
    BY <1>4, <1>s, <2>1, SameFlow DEF GiveUp, Save, Cleared, files, human
<1>5. CASE Produce
  BY <1>0, <1>5 DEF Produce, Work, Kinds
<1>6. ASSUME NEW score \in {"pass", "fail"}, Judge(score) PROVE Cleared'
  BY <1>0, <1>6 DEF Judge, Work, Kinds
<1>7. CASE Enter
  BY <1>7, <1>s, SameFlow DEF Enter, End, Cleared, files, human
<1>8. CASE Skip \/ GateShut \/ Unrendered \/ StepFails \/ Finish \/ Crash \/ UNCHANGED vars
  BY <1>8, <1>s, SameFlow DEF Skip, GateShut, Unrendered, StepFails, Finish, Crash, End,
    vars, Cleared, files, human, local
<1>9. CASE AskHuman
  <2>1. 1 .. i - 1 \subseteq state.done
    BY <1>9 DEF AskHuman, Position
  <2>2. QED
    BY <1>9, <1>s, <2>1, SameFlow DEF AskHuman, Save, Cleared, files
<1>10. CASE Written
  BY <1>10, <1>s, SameFlow DEF Written, End, Cleared, files, human, local
<1>11. CASE Resume
  BY <1>11, <1>s, SameFlow DEF Resume, End, Cleared, NothingToLose, files, human
<1>12. ASSUME NEW g \in Steps, Approve(g) PROVE Cleared'
  BY <1>12, <1>s, SameFlow DEF Approve, Cleared, local
<1>13. QED
  BY <1>1, <1>2, <1>3, <1>4, <1>5, <1>6, <1>7, <1>8, <1>9, <1>10, <1>11, <1>12
    DEF Next, Execute

\* The runner walks its flow as the documentation says.
THEOREM WalkKept == Spec => []WalkInv
<1>1. Init => WalkInv
  BY FlowsAssumption
    DEF Init, WalkInv, Position, Outputs, Fresh, Cleared, ValidFlow
<1>2. TypeOK /\ Alive /\ RoundsInv /\ WalkInv /\ [Next]_vars => WalkInv'
  <2>1. [Next]_vars => flow' = flow
    BY DEF Next, Execute, vars, Enter, Skip, GateOpen, GateShut, AskHuman, Unrendered,
      StepFails, Produce, Judge, Complete, GiveUp, LoopBack, Written, Finish, Resume,
      Crash, Approve
  <2>2. flow' = flow => Backward' = Backward
    BY SameFlow DEF Backward
  <2>3. QED
    BY <2>1, <2>2, PositionKept, OutputsKept, FreshKept, ClearedKept
      DEF WalkInv, RoundsInv
<1>3. QED
  BY <1>1, <1>2, TypeCorrect, RoundsKept, PTL DEF Spec

\* No completed output rests on a file rewritten since, in the execution's
\* memory or in state.json.
THEOREM CompletedIsCoherent == Spec => []Coherent
<1>1. RoundsInv /\ WalkInv => Coherent
  BY DEF RoundsInv, NothingToLose, WalkInv, Fresh, Coherent
<1>2. QED
  BY <1>1, RoundsKept, WalkKept, PTL

\* What lies behind a judge was passed by it.
THEOREM JudgesPass == Spec => []JudgePassed
<1>1. WalkInv => JudgePassed
  BY DEF WalkInv, Fresh, Outputs, JudgePassed, Judges, Gates
<1>2. QED
  BY <1>1, WalkKept, PTL

\* Nothing past a gate runs unapproved.
THEOREM GatesHold == Spec => []GateCleared
<1>1. TypeOK /\ WalkInv => GateCleared
  <2> SUFFICES ASSUME TypeOK, Backward, Position, Cleared, NEW g \in Gates,
                      NEW s \in state.done, s >= g
               PROVE  g \in approved /\ (~Spanned(g) => g \notin stale)
    BY DEF WalkInv, GateCleared
  <2>0. g \in Steps /\ s \in Steps
    BY DEF TypeOK, States, Gates
  <2>1. s \in Nat /\ g \in Nat /\ g >= 1
    BY <2>0, FlowIsValid
  <2>2. g \in state.done
    BY <2>1 DEF Position
  <2>3. QED
    BY <2>2 DEF Cleared
<1>2. QED
  BY <1>1, TypeCorrect, WalkKept, PTL

\* A flow that ends well has done and recorded all of its steps.
THEOREM CompleteMeansAll == Spec => []CompleteIsAll
<1>1. TypeOK /\ RoundsInv /\ WalkInv => CompleteIsAll
  BY DEF TypeOK, RoundsInv, NothingToLose, WalkInv, Position, Outputs, CompleteIsAll
<1>2. QED
  BY <1>1, TypeCorrect, RoundsKept, WalkKept, PTL

\* The three together: what a flow ends with was earned.
THEOREM EarnedEnd == Spec => []CompleteIsEarned
<1>1. JudgePassed /\ GateCleared /\ CompleteIsAll => CompleteIsEarned
  BY DEF CompleteIsEarned
<1>2. QED
  BY <1>1, JudgesPass, GatesHold, CompleteMeansAll, PTL

-----------------------------------------------------------------------------
\* The step the runner is at is not yet completed.
AtWork == pc \in {"shut", "wrote"} => i \notin state.done

\* ... in any flow, also one that points forward.
THEOREM StepIsOpen == Spec => []AtWork
<1>1. Init => AtWork
  BY DEF Init, AtWork
<1>2. AtWork /\ [Next]_vars => AtWork'
  BY DEF AtWork, Next, Execute, vars, local, Enter, End, Skip, GateOpen, GateShut, AskHuman,
    Unrendered, StepFails, Produce, Judge, Output, Complete, GiveUp, LoopBack, Written,
    Finish, Resume, Crash, Approve, Save, Todo
<1>3. QED
  BY <1>1, <1>2, PTL DEF Spec

\* The flow file is read once for all: steps and judges are the walk's own.
LEMMA SameWalk ==
  /\ Walk!Steps = Steps /\ Walk!Judges = Judges
  /\ Walk!InOrder <=> Backward
BY DEF Walk!Steps, Steps, Walk!Judges, Judges, Kind, Walk!InOrder, Backward

\* A step of the program is a step of the walk, or none.
LEMMA StepOfWalk ==
  ASSUME TypeOK, Alive, AtWork, NothingToLose, WalkInv, [Next]_vars
  PROVE  [Walk!Next]_(Walk!work)
<1> DEFINE stays == flow' = flow /\ state' = state
           holds == ~(pc = "end" /\ disk = "torn")
<1>0. /\ state \in States /\ i \in 1 .. flow.n + 1 /\ Steps = 1 .. flow.n
      /\ state.rounds \in [Steps -> Nat] /\ state.done \subseteq Steps
  BY DEF TypeOK, States, Steps
<1>s. ASSUME stays, holds' = holds PROVE [Walk!Next]_(Walk!work)
  BY <1>s DEF Walk!work
<1>c. ASSUME i \in Steps \ state.done, flow' = flow, holds, holds',
             Backward => 1 .. i - 1 \subseteq state.done,
             state' = [state EXCEPT !.done = @ \cup {i}]
      PROVE  [Walk!Next]_(Walk!work)
  <2>1. state'.done = state.done \cup {i} /\ state'.rounds = state.rounds
    BY <1>0, <1>c DEF States
  <2>2. Walk!Complete(i)
    BY <1>c, <2>1, SameWalk DEF Walk!Complete
  <2>3. QED
    BY <1>c, <2>2, SameWalk DEF Walk!Next
<1>1. CASE GateOpen
  BY <1>1, <1>c DEF GateOpen, Todo, Save, WalkInv, Position
<1>2. CASE Complete
  <2>1. i \in Steps \ state.done /\ pc = "wrote"
    BY <1>2 DEF Complete, Alive, AtWork
  <2>2. QED
    BY <1>2, <1>c, <2>1 DEF Complete, Save, WalkInv, Position
<1>3. CASE LoopBack
  <2>1. /\ i \in Judges /\ i \notin state.done /\ i \in Steps
        /\ Backward => 1 .. i - 1 \subseteq state.done
    BY <1>3 DEF LoopBack, Rejected, Alive, AtWork, WalkInv, Position
  <2>2. /\ state'.done = state.done \ (flow.onFail[i] .. i - 1)
        /\ state'.rounds = [state.rounds EXCEPT ![i] = @ + 1]
        /\ flow' = flow /\ holds /\ holds'
    BY <1>0, <1>3, <2>1 DEF LoopBack, Save, Redone, Rounds
  <2>3. flow.onFail[i] # 0 /\ state.rounds[i] + 1 < flow.limit[i]
    BY <1>3 DEF LoopBack, Rounds
  <2>4. Walk!LoopBack(i)
    BY <2>1, <2>2, <2>3, SameWalk DEF Walk!LoopBack
  <2>5. QED
    BY <2>1, <2>4, SameWalk DEF Walk!Next
<1>4. CASE GiveUp
  <2>1. i \in Judges /\ i \notin state.done /\ i \in Steps
    BY <1>4 DEF GiveUp, Rejected, Alive, AtWork
  <2>2. /\ state'.done = state.done
        /\ state'.rounds = [state.rounds EXCEPT ![i] = @ + 1]
        /\ flow' = flow /\ holds /\ holds'
    BY <1>0, <1>4, <2>1 DEF GiveUp, Save, Rounds, States
  <2>3. flow.onFail[i] = 0 \/ state.rounds[i] + 1 >= flow.limit[i]
    BY <1>4 DEF GiveUp, Rounds
  <2>4. Walk!GiveUp(i)
    BY <2>1, <2>2, <2>3, SameWalk DEF Walk!GiveUp
  <2>5. QED
    BY <2>1, <2>4, SameWalk DEF Walk!Next
<1>5. CASE Crash
  <2>1. stays /\ holds /\ disk' = disk /\ pc' = "end"
    BY <1>5 DEF Crash, End, local
  <2>2. CASE disk # "torn"
    BY <1>s, <2>1, <2>2
  <2>3. CASE disk = "torn"
    <3>1. holds = TRUE /\ holds' = FALSE
      BY <2>1, <2>3
    <3>2. Walk!Lose
      BY <2>1, <3>1 DEF Walk!Lose
    <3>3. QED
      BY <3>2 DEF Walk!Next
  <2>4. QED
    BY <2>2, <2>3
<1>6. CASE Resume
  <2>1. CASE disk = "whole"
    <3>1. stays /\ holds /\ holds'
      BY <1>6, <2>1 DEF Resume, NothingToLose
    <3>2. QED
      BY <1>s, <3>1
  <2>2. CASE disk # "whole"
    <3>1. stays /\ holds' = holds
      BY <1>6, <2>2 DEF Resume, End
    <3>2. QED
      BY <1>s, <3>1
  <2>3. QED
    BY <2>1, <2>2
<1>7. CASE Enter \/ Skip \/ GateShut \/ Unrendered \/ StepFails \/ Produce \/ Finish
  <2>1. stays /\ disk' = disk /\ pc \notin {"save", "end"}
    BY <1>7 DEF Enter, Skip, GateShut, Unrendered, StepFails, Produce, Finish, Todo, Output,
      End, Work, local
  <2>2. holds /\ holds'
    BY <2>1 DEF Alive
  <2>3. QED
    BY <1>s, <2>1, <2>2
<1>8. ASSUME NEW score \in {"pass", "fail"}, Judge(score)
      PROVE  [Walk!Next]_(Walk!work)
  <2>1. stays /\ holds /\ holds'
    BY <1>8 DEF Judge, Todo, Output, local
  <2>2. QED
    BY <1>s, <2>1
<1>9. CASE AskHuman
  <2>1. stays /\ holds /\ holds'
    BY <1>9 DEF AskHuman, Save
  <2>2. QED
    BY <1>s, <2>1
<1>10. CASE Written
  <2>1. stays /\ holds /\ holds'
    BY <1>10 DEF Written, local
  <2>2. QED
    BY <1>s, <2>1
<1>11. ASSUME NEW g \in Steps, Approve(g) PROVE [Walk!Next]_(Walk!work)
  <2>1. stays /\ holds' = holds
    BY <1>11 DEF Approve, local
  <2>2. QED
    BY <1>s, <2>1
<1>12. CASE UNCHANGED vars
  <2>1. stays /\ holds' = holds
    BY <1>12 DEF vars, local
  <2>2. QED
    BY <1>s, <2>1
<1>13. QED
  BY <1>1, <1>2, <1>3, <1>4, <1>5, <1>6, <1>7, <1>8, <1>9, <1>10, <1>11, <1>12
    DEF Next, Execute

\* Any number of killed and resumed executions are one walk through the flow.
THEOREM OneExecution == Spec => AsOne
<1>1. Init => Walk!Init
  BY DEF Init, Walk!Init, NoRounds, Steps, Walk!Steps
<1>2. RoundsInv => NothingToLose
  BY DEF RoundsInv
<1>3. QED
  BY <1>1, <1>2, StepOfWalk, TypeCorrect, StepIsOpen, RoundsKept, WalkKept, PTL
    DEF Spec, AsOne, Walk!Spec

-----------------------------------------------------------------------------
(* PhoneStore.                                                             *)

\* An ingest has a date of relevance, and before the first there is no record.
Started ==
  /\ ingest # "idle" => since \in Days
  /\ since = 0 => store = {}

\* The queue holds backups without a row; one read whole has its row.
Queued ==
  /\ \A b \in queue : source[b] = "none"
  /\ \A b \in whole : source[b] = "read"

IInv == StoreTypeOK /\ Started /\ Queued /\ OnlyRelevant /\ CoverageHonest /\ since <= peak

\* An action that examines a backup: what all of them do to the tables.
Examines(b) ==
  /\ ingest # "idle" /\ b \in queue
  /\ \E status \in {"read", "covered", "empty"}, days \in [Tags -> SUBSET Days],
        full \in BOOLEAN, new \in SUBSET Records :
       /\ \A t \in Tags : \A d \in days[t] : status = "read" /\ d <= Taken[b]
       /\ full => status = "read"
       /\ \A r \in new : Date(r) >= since
       /\ full \/ b \notin Shuffled =>
            \A r \in Contents(b) : Date(r) >= since /\ Date(r) \in days[phone[r].tag] => r \in new
       /\ store' = store \cup new
       /\ Examined(b, status, days, full)

LEMMA PlanDays ==
  ASSUME StoreTypeOK, NEW b \in Backups, NEW t \in Tags
  PROVE  /\ Plan(t, Taken[b]) \subseteq Days
         /\ \A d \in Plan(t, Taken[b]) : since <= d /\ d <= Taken[b]
<1>1. Taken[b] \in Int /\ since \in Int /\ Margin \in Int /\ Days \subseteq Int
  BY BackupsAssumption DEF StoreTypeOK, Days
<1> QED
  BY <1>1 DEF Plan, Gap

LEMMA ReadFullExamines ==
  ASSUME StoreTypeOK, NEW b \in Backups, ingest # "idle", b \in queue, ReadFull(b)
  PROVE  Examines(b)
<1>1. FullCoverage(b) \in [Tags -> SUBSET Days]
  BY DEF FullCoverage
<1>2. \A t \in Tags : \A d \in FullCoverage(b)[t] : d <= Taken[b]
  BY DEF FullCoverage
<1>3. From(since, Contents(b)) \in SUBSET Records
  BY DEF From, Contents
<1>4. /\ \A r \in From(since, Contents(b)) : Date(r) >= since
      /\ \A r \in Contents(b) : Date(r) >= since => r \in From(since, Contents(b))
  BY DEF From
<1>5. store' = store \cup From(since, Contents(b)) /\ Examined(b, "read", FullCoverage(b), TRUE)
  BY DEF ReadFull
<1> QED
  BY <1>1, <1>2, <1>3, <1>4, <1>5 DEF Examines

LEMMA SeekExamines ==
  ASSUME StoreTypeOK, NEW b \in Backups, Seek(b)
  PROVE  Examines(b)
<1>1. PICK first \in Firsts(b) :
        /\ \E some \in SUBSET {r \in Contents(b) : Date(r) \in SeekDays(b, first)[phone[r].tag]} :
             /\ b \notin Shuffled =>
                  some = {r \in Contents(b) : Date(r) \in SeekDays(b, first)[phone[r].tag]}
             /\ store' = store \cup some
        /\ Examined(b, IF SeekDays(b, first) = NoDays THEN "covered" ELSE "read",
                    SeekCoverage(b, first), FALSE)
  BY DEF Seek
<1> DEFINE days == SeekDays(b, first)
<1>2. PICK some \in SUBSET {r \in Contents(b) : Date(r) \in days[phone[r].tag]} :
        /\ b \notin Shuffled => some = {r \in Contents(b) : Date(r) \in days[phone[r].tag]}
        /\ store' = store \cup some
  BY <1>1
<1>3. /\ days \in [Tags -> SUBSET Days]
      /\ \A t \in Tags : \A d \in days[t] : since <= d /\ d <= Taken[b]
  BY PlanDays DEF SeekDays
<1>4. \A t \in Tags : \A d \in days[t] : days # NoDays
  BY <1>3 DEF NoDays
<1>5. some \in SUBSET Records /\ \A r \in some : phone[r].tag \in Tags
  BY <1>2 DEF Contents, StoreTypeOK, Phone
<1>6. \A r \in some : Date(r) >= since
  <2> TAKE r \in some
  <2>1. since <= Date(r)
    BY <1>2, <1>3, <1>5
  <2>2. since \in Int /\ Date(r) \in Int
    BY <1>5 DEF StoreTypeOK, Phone, Date, Days
  <2> QED
    BY <2>1, <2>2
<1>7. ingest # "idle" /\ b \in queue
  BY DEF Seek, Turn
<1>8. Examined(b, IF days = NoDays THEN "covered" ELSE "read", days, FALSE)
  BY <1>1 DEF SeekCoverage
<1>9. b \notin Shuffled =>
        \A r \in Contents(b) : Date(r) >= since /\ Date(r) \in days[phone[r].tag] => r \in some
  BY <1>2
<1> HIDE DEF days
<1>10. CASE days = NoDays
  <2>1. Examined(b, "covered", days, FALSE)
    BY <1>8, <1>10
  <2>2. \A t \in Tags : \A d \in days[t] : "covered" = "read" /\ d <= Taken[b]
    BY <1>4, <1>10
  <2> QED
    BY <1>2, <1>3, <1>5, <1>6, <1>7, <1>9, <2>1, <2>2 DEF Examines
<1>11. CASE days # NoDays
  <2>1. Examined(b, "read", days, FALSE)
    BY <1>8, <1>11
  <2> QED
    BY <1>2, <1>3, <1>5, <1>6, <1>7, <1>9, <2>1 DEF Examines
<1> QED
  BY <1>10, <1>11

\* JudgeByDate and ReadEmpty store nothing and cover nothing.
LEMMA NothingExamines ==
  ASSUME StoreTypeOK, NEW b \in Backups, ingest # "idle", b \in queue, store' = store,
         NEW status \in {"covered", "empty"}, Examined(b, status, NoDays, FALSE)
  PROVE  Examines(b)
<1>1. NoDays \in [Tags -> SUBSET Days] /\ \A t \in Tags : NoDays[t] = {}
  BY DEF NoDays
<1>2. \A r \in Contents(b) : phone[r].tag \in Tags
  BY DEF Contents, StoreTypeOK, Phone
<1>3. store' = store \cup {}
  OBVIOUS
<1> QED
  BY <1>1, <1>2, <1>3 DEF Examines

-----------------------------------------------------------------------------
LEMMA ExaminesKeeps ==
  ASSUME IInv, NEW b \in Backups, Examines(b)
  PROVE  IInv'
<1>1. PICK status \in {"read", "covered", "empty"}, days \in [Tags -> SUBSET Days],
           full \in BOOLEAN, new \in SUBSET Records :
        /\ \A t \in Tags : \A d \in days[t] : status = "read" /\ d <= Taken[b]
        /\ full => status = "read"
        /\ \A r \in new : Date(r) >= since
        /\ full \/ b \notin Shuffled =>
             \A r \in Contents(b) : Date(r) >= since /\ Date(r) \in days[phone[r].tag] => r \in new
        /\ store' = store \cup new
        /\ Examined(b, status, days, full)
  BY DEF Examines
<1>2. /\ ingest # "idle" /\ b \in queue
      /\ source' = [source EXCEPT ![b] = status]
      /\ coverage' = [coverage EXCEPT ![b] = days]
      /\ whole' = IF full THEN whole \cup {b} ELSE whole
      /\ queue' = queue \ {b} /\ ingest' = "rest"
      /\ UNCHANGED <<phone, visible, config, since, exhaustive, peak>>
  BY <1>1 DEF Examines, Examined
<1>3. b \notin whole
  BY <1>2 DEF IInv, Queued
<1>4. StoreTypeOK'
  BY <1>1, <1>2 DEF IInv, StoreTypeOK
<1>5. Started'
  <2>1. since \in Days /\ since # 0
    BY <1>2 DEF IInv, Started, StoreTypeOK, Days
  <2> QED
    BY <1>2, <2>1 DEF Started
<1>6. Queued'
  BY <1>1, <1>2 DEF IInv, Queued, StoreTypeOK
<1>7. OnlyRelevant'
  BY <1>1, <1>2 DEF IInv, OnlyRelevant, Date
<1>8. CoverageHonest'
  <2> SUFFICES ASSUME NEW c \in Backups, Trusted(c)',
                      NEW r \in From(peak, Contents(c))',
                      Date(r)' \in coverage'[c][phone'[r].tag]
               PROVE  r \in store'
    BY DEF CoverageHonest
  <2>1. /\ r \in From(peak, Contents(c)) /\ r \in Contents(c) /\ Date(r) >= peak
        /\ Date(r) \in coverage'[c][phone[r].tag]
    BY <1>2 DEF From, Contents, Date
  <2>2. CASE c = b
    <3>1. full \/ b \notin Shuffled
      BY <1>2, <1>3, <2>2 DEF Trusted
    <3>2. Date(r) \in days[phone[r].tag]
      BY <1>2, <2>1, <2>2 DEF IInv, StoreTypeOK
    <3>3. Date(r) >= since
      <4>1. r \in Records
        BY <2>1 DEF Contents
      <4>2. Date(r) \in Int /\ since \in Int /\ peak \in Int /\ since <= peak
        BY <4>1 DEF IInv, StoreTypeOK, Phone, Date, Days
      <4> QED
        BY <2>1, <4>2
    <3> QED
      BY <1>1, <2>1, <2>2, <3>1, <3>2, <3>3
  <2>3. CASE c # b
    <3>1. Trusted(c) /\ Date(r) \in coverage[c][phone[r].tag]
      BY <1>2, <2>1, <2>3 DEF Trusted, IInv, StoreTypeOK
    <3> QED
      BY <1>1, <2>1, <3>1 DEF IInv, CoverageHonest
  <2> QED
    BY <2>2, <2>3
<1>9. (since <= peak)'
  BY <1>2 DEF IInv
<1> QED
  BY <1>4, <1>5, <1>6, <1>7, <1>8, <1>9 DEF IInv

LEMMA OpenKeeps ==
  ASSUME IInv, NEW all \in BOOLEAN, Open(all)
  PROVE  IInv'
<1>1. /\ since' = config /\ peak' = MaxOf(peak, config)
      /\ Prune /\ Rejudge
      /\ queue' = {b \in visible : source'[b] = "none"}
      /\ exhaustive' = all /\ ingest' = "first"
      /\ UNCHANGED <<phone, visible, config, coverage, whole>>
  BY DEF Open
<1>2. StoreTypeOK /\ config \in Days /\ config \in Int /\ since \in Int /\ peak \in Int /\ config # 0
  BY DEF IInv, StoreTypeOK, Days
<1>3. peak' \in 0 .. MaxDay /\ peak <= peak' /\ since' <= peak'
  BY <1>1, <1>2, BackupsAssumption DEF MaxOf, StoreTypeOK, Days
<1>4. /\ source' \in [Backups -> {"none", "read", "covered", "empty"}]
      /\ \A b \in Backups : source[b] = "read" => source'[b] = "read"
  BY <1>1, <1>2 DEF Rejudge, StoreTypeOK
<1>5. /\ store' \subseteq store
      /\ \A r \in store' : since = 0 \/ Date(r) >= config
      /\ \A r \in store : Date(r) >= config => r \in store'
  BY <1>1 DEF Prune, From
<1>6. StoreTypeOK'
  <2>1. \A b \in Backups, t \in Tags : \A d \in coverage[b][t] : source'[b] = "read" /\ d <= Taken[b]
    BY <1>2, <1>4 DEF StoreTypeOK
  <2>2. queue' \subseteq visible' /\ since' \in 0 .. MaxDay /\ store' \subseteq Records
    BY <1>1, <1>2, <1>5 DEF StoreTypeOK, Days
  <2> QED
    BY <1>1, <1>2, <1>3, <1>4, <2>1, <2>2 DEF StoreTypeOK
<1>7. Started'
  BY <1>1, <1>2 DEF Started
<1>8. Queued'
  BY <1>1, <1>2, <1>4 DEF Queued, IInv, StoreTypeOK
<1>9. OnlyRelevant'
  <2> SUFFICES ASSUME NEW r \in store' PROVE (Date(r) >= since)'
    BY DEF OnlyRelevant
  <2>1. Date(r) >= config
    BY <1>5 DEF IInv, Started
  <2> QED
    BY <1>1, <2>1 DEF Date
<1>10. CoverageHonest'
  <2> SUFFICES ASSUME NEW c \in Backups, Trusted(c)',
                      NEW r \in From(peak, Contents(c))',
                      Date(r)' \in coverage'[c][phone'[r].tag]
               PROVE  r \in store'
    BY DEF CoverageHonest
  <2>1. /\ r \in Contents(c) /\ Date(r) >= peak' /\ Trusted(c)
        /\ Date(r) \in coverage[c][phone[r].tag]
    BY <1>1 DEF From, Contents, Date, Trusted
  <2>2. Date(r) \in Int
    BY <1>2, <2>1 DEF StoreTypeOK, Contents, Phone, Date, Days
  <2>3. Date(r) >= peak /\ Date(r) >= config
    BY <1>1, <1>2, <1>3, <2>1, <2>2, BackupsAssumption DEF StoreTypeOK
  <2>4. r \in store
    BY <2>1, <2>3 DEF IInv, CoverageHonest, From
  <2> QED
    BY <1>5, <2>3, <2>4
<1> QED
  BY <1>3, <1>6, <1>7, <1>8, <1>9, <1>10 DEF IInv

LEMMA InitHolds ==
  ASSUME StoreInit
  PROVE  IInv
<1>1. 0 \in 0 .. MaxDay
  BY BackupsAssumption
<1>2. StoreTypeOK
  BY <1>1, BackupsAssumption DEF StoreInit, StoreTypeOK, NoDays
<1>3. Started /\ Queued /\ OnlyRelevant /\ CoverageHonest /\ since <= peak
  BY DEF StoreInit, Started, Queued, OnlyRelevant, CoverageHonest, NoDays, From, Contents, StoreTypeOK, Phone
<1> QED
  BY <1>2, <1>3 DEF IInv

LEMMA StepKeeps ==
  ASSUME IInv, [StoreNext]_storeVars
  PROVE  IInv'
<1>0. StoreTypeOK
  BY DEF IInv
<1>1. ASSUME NEW b \in Backups, Appear(b) PROVE IInv'
  <2>1. visible' = visible \cup {b} /\ ingest = "idle"
        /\ UNCHANGED <<phone, config, since, store, coverage, source, whole, ingest, exhaustive,
                       queue, peak>>
    BY <1>1 DEF Appear
  <2> QED
    BY <1>0, <2>1 DEF IInv, StoreTypeOK, Started, Queued, OnlyRelevant, CoverageHonest, Trusted, From,
       Contents, Date
<1>2. ASSUME NEW d \in Sinces, Configure(d) PROVE IInv'
  <2>1. config' = d /\ d \in Days
        /\ UNCHANGED <<phone, visible, since, store, coverage, source, whole, ingest, exhaustive,
                       queue, peak>>
    BY <1>2, BackupsAssumption DEF Configure
  <2> QED
    BY <1>0, <2>1 DEF IInv, StoreTypeOK, Started, Queued, OnlyRelevant, CoverageHonest, Trusted, From,
       Contents, Date
<1>3. ASSUME NEW b \in Backups, Whole(b) PROVE IInv'
  BY <1>0, <1>3, ReadFullExamines, ExaminesKeeps DEF Whole, Turn
<1>4. ASSUME NEW b \in Backups, JudgeByDate(b) PROVE IInv'
  BY <1>0, <1>4, NothingExamines, ExaminesKeeps DEF JudgeByDate, Turn
<1>5. ASSUME NEW b \in Backups, Seek(b) PROVE IInv'
  BY <1>0, <1>5, SeekExamines, ExaminesKeeps
<1>6. ASSUME NEW b \in Backups, Reread(b) PROVE IInv'
  BY <1>0, <1>6, ReadFullExamines, ExaminesKeeps DEF Reread, Turn
<1>7. ASSUME NEW b \in Backups, ReadEmpty(b) PROVE IInv'
  BY <1>0, <1>7, NothingExamines, ExaminesKeeps DEF ReadEmpty, Turn
<1>8. ASSUME NEW all \in BOOLEAN, Open(all) PROVE IInv'
  BY <1>8, OpenKeeps
<1>9. CASE Close
  <2>1. ingest' = "idle" /\ queue' = {} /\ exhaustive' = FALSE
        /\ UNCHANGED <<phone, visible, config, since, store, coverage, source, whole, peak>>
    BY <1>9 DEF Close
  <2> QED
    BY <1>0, <2>1 DEF IInv, StoreTypeOK, Started, Queued, OnlyRelevant, CoverageHonest, Trusted, From,
       Contents, Date
<1>10. CASE UNCHANGED storeVars
  BY <1>0, <1>10 DEF IInv, StoreTypeOK, Started, Queued, OnlyRelevant, CoverageHonest, Trusted, From,
     Contents, Date, storeVars
<1> QED
  BY <1>1, <1>2, <1>3, <1>4, <1>5, <1>6, <1>7, <1>8, <1>9, <1>10 DEF StoreNext

LEMMA Invariant == StoreSpec => []IInv
<1>1. StoreInit => IInv
  BY InitHolds
<1>2. IInv /\ [StoreNext]_storeVars => IInv'
  BY StepKeeps
<1> QED
  BY <1>1, <1>2, PTL DEF StoreSpec

-----------------------------------------------------------------------------
\* The tables of the store are well formed after any sequence of ingests, and
\* only a backup that was read is said to cover anything.
THEOREM StoreTypes == StoreSpec => []StoreTypeOK
<1>1. IInv => StoreTypeOK
  BY DEF IInv
<1> QED
  BY <1>1, Invariant, PTL

\* Promise 2: nothing older than the date of relevance is ever in the store,
\* for any number of backups and any moves of the date.
THEOREM NothingOlder == StoreSpec => []OnlyRelevant
<1>1. IInv => OnlyRelevant
  BY DEF IInv
<1> QED
  BY <1>1, Invariant, PTL

\* Within what was relevant all along, what a backup is said to cover is in the
\* store: a report of no rows means what it says.
THEOREM SearchedIsStored == StoreSpec => []CoverageHonest
<1>1. IInv => CoverageHonest
  BY DEF IInv
<1> QED
  BY <1>1, Invariant, PTL

-----------------------------------------------------------------------------
\* A backup that covers a day reaches back to it, and was there to be read.
Known ==
  /\ \A b \in Backups : source[b] # "none" => b \in visible
  /\ \A b \in Backups, t \in Tags : \A d \in coverage[b][t] : Reaches(b, t, d)

\* Another backup goes back to the record's time.
Elsewhere(b, r) ==
  \E c \in visible \ {b} : Reaches(c, phone[r].tag, Date(r)) /\ Date(r) <= Taken[c]

\* A later backup no longer has the record, or one out of order misled the store.
Passed(r) ==
  \E c \in visible : phone[r].gone <= Taken[c] \/ (~Trusted(c) /\ coverage[c] # NoDays)

\* What a backup that was examined holds and the store does not.
Answered(b, r) ==
  /\ r \in store \/ Elsewhere(b, r)
  /\ Late(r) <= Margin => r \in store \/ Passed(r)

AllAnswered ==
  \A b \in Backups : source[b] # "none" /\ Trusted(b) =>
    \A r \in From(peak, Contents(b)) : Answered(b, r)

\* No record reaches the phone before its date.
Dated == \A r \in Records : Date(r) <= phone[r].arrives

JInv == IInv /\ Dated /\ Known /\ AllAnswered

\* The days a margin after a record, as far as the backup goes, are all covered.
Surrounded(b, r) ==
  \A d \in Days : Date(r) <= d /\ d <= Date(r) + Margin /\ d <= Taken[b] => d \in Covered(phone[r].tag)

LEMMA RecordDays ==
  ASSUME StoreTypeOK, NEW b \in Backups, NEW r \in Contents(b)
  PROVE  /\ r \in Records /\ phone[r].tag \in Tags /\ Date(r) \in Days /\ phone[r].arrives \in Days
         /\ phone[r].gone \in Int /\ Taken[b] \in Days
         /\ phone[r].arrives <= Taken[b] /\ Taken[b] < phone[r].gone
  BY BackupsAssumption DEF StoreTypeOK, Phone, Contents, Date, Days

\* A gap within the margin after a record is a reason to read the record's day.
LEMMA GapIsPlanned ==
  ASSUME StoreTypeOK, NEW b \in Backups, NEW r \in Contents(b), since <= Date(r), ~Surrounded(b, r)
  PROVE  Date(r) \in Plan(phone[r].tag, Taken[b])
<1>1. PICK d \in Days : /\ Date(r) <= d /\ d <= Date(r) + Margin /\ d <= Taken[b]
                        /\ d \notin Covered(phone[r].tag)
  BY DEF Surrounded
<1>2. since \in Int /\ Date(r) \in Int /\ Date(r) \in Days /\ d \in Int
  BY RecordDays DEF StoreTypeOK, Days
<1>3. since <= d
  BY <1>1, <1>2
<1>4. d \in Gap(phone[r].tag, Taken[b])
  BY <1>1, <1>3 DEF Gap
<1> QED
  BY <1>1, <1>2, <1>4 DEF Plan

\* An examination takes the record, unless the days around it are covered.
LEMMA Taking ==
  ASSUME IInv, NEW b \in Backups, NEW r \in Contents(b), since <= Date(r), Trusted(b)',
         Whole(b) \/ JudgeByDate(b) \/ Seek(b) \/ Reread(b) \/ ReadEmpty(b)
  PROVE  r \in store' \/ Surrounded(b, r)
<1>1. StoreTypeOK /\ source[b] = "none" /\ b \notin whole
  BY DEF IInv, Queued, Whole, JudgeByDate, Seek, Reread, ReadEmpty, Turn
<1>2. r \in Records /\ phone[r].tag \in Tags /\ Date(r) \in Days /\ since \in Int /\ Days \subseteq Int
  BY <1>1, RecordDays DEF StoreTypeOK, Days
<1>3. CASE Whole(b) \/ Reread(b)
  BY <1>2, <1>3 DEF Whole, Reread, ReadFull, From
<1>4. CASE JudgeByDate(b)
  <2>1. Date(r) \notin Plan(phone[r].tag, Taken[b])
    BY <1>2, <1>4 DEF JudgeByDate, Unneeded
  <2> QED
    BY <1>1, <2>1, GapIsPlanned
<1>5. CASE Seek(b)
  <2>1. b \notin Shuffled
    BY <1>1, <1>5 DEF Seek, Examined, Trusted
  <2>2. PICK first \in Firsts(b) :
          store' = store \cup {k \in Contents(b) : Date(k) \in SeekDays(b, first)[phone[k].tag]}
    BY <1>5, <2>1 DEF Seek
  <2>3. r \in Block(b, phone[r].tag)
    BY DEF Block
  <2>4. first[phone[r].tag] <= Date(r)
    BY <1>2, <2>1, <2>3 DEF Firsts
  <2>5. ~Surrounded(b, r) => Date(r) \in SeekDays(b, first)[phone[r].tag]
    BY <1>1, <1>2, <2>4, GapIsPlanned DEF SeekDays
  <2> QED
    BY <2>2, <2>5
<1>6. CASE ReadEmpty(b)
  BY <1>6 DEF ReadEmpty
<1> QED
  BY <1>3, <1>4, <1>5, <1>6

\* A day a backup will be said to cover is one that it reaches back to.
LEMMA ExamineKnown ==
  ASSUME IInv, Known, NEW b \in Backups,
         Whole(b) \/ JudgeByDate(b) \/ Seek(b) \/ Reread(b) \/ ReadEmpty(b)
  PROVE  /\ Known' /\ b \in visible /\ source[b] = "none"
         /\ UNCHANGED <<phone, visible, since, peak>>
         /\ store \subseteq store'
         /\ \A c \in Backups : c # b => /\ source'[c] = source[c] /\ coverage'[c] = coverage[c]
                                        /\ c \in whole <=> c \in whole'
<1>1. StoreTypeOK /\ b \in queue /\ b \in visible /\ source[b] = "none"
  BY DEF IInv, StoreTypeOK, Queued, Whole, JudgeByDate, Seek, Reread, ReadEmpty, Turn
<1>2. store \subseteq store'
  BY DEF Whole, JudgeByDate, Seek, Reread, ReadEmpty, ReadFull
<1>3. \E status \in {"read", "covered", "empty"}, full \in BOOLEAN, days \in [Tags -> SUBSET Days] :
        /\ Examined(b, status, days, full)
        /\ \A t \in Tags : \A d \in days[t] : Reaches(b, t, d)
  <2>1. CASE Whole(b) \/ Reread(b)
    <3>1. Examined(b, "read", FullCoverage(b), TRUE)
      BY <2>1 DEF Whole, Reread, ReadFull
    <3>2. FullCoverage(b) \in [Tags -> SUBSET Days]
      BY DEF FullCoverage
    <3>3. \A t \in Tags : \A d \in FullCoverage(b)[t] : Reaches(b, t, d)
      BY DEF FullCoverage
    <3> QED
      BY <3>1, <3>2, <3>3
  <2>2. CASE JudgeByDate(b) \/ ReadEmpty(b)
    <3>1. NoDays \in [Tags -> SUBSET Days] /\ \A t \in Tags : NoDays[t] = {}
      BY DEF NoDays
    <3>2. Examined(b, "covered", NoDays, FALSE) \/ Examined(b, "empty", NoDays, FALSE)
      BY <2>2 DEF JudgeByDate, ReadEmpty
    <3> QED
      BY <3>1, <3>2
  <2>3. CASE Seek(b)
    <3>1. PICK first \in Firsts(b), status \in {"read", "covered"} :
            Examined(b, status, SeekDays(b, first), FALSE)
      BY <2>3 DEF Seek, SeekCoverage
    <3>2. SeekDays(b, first) \in [Tags -> SUBSET Days]
      BY <1>1, PlanDays DEF SeekDays
    <3>3. \A t \in Tags : \A d \in SeekDays(b, first)[t] : Reaches(b, t, d)
      <4> SUFFICES ASSUME NEW t \in Tags, NEW d \in SeekDays(b, first)[t] PROVE Reaches(b, t, d)
        OBVIOUS
      <4>1. first[t] <= d /\ d \in Days
        BY <1>1, PlanDays DEF SeekDays
      <4>2. PICK r \in Block(b, t) : first[t] = Date(r)
        <5> DEFINE dates == {Date(r) : r \in Block(b, t)}
        <5>1. first[t] \in dates \cup (IF dates = {} THEN {MaxDay + 1} ELSE {})
          BY DEF Firsts
        <5>2. first[t] # MaxDay + 1
          BY <4>1, BackupsAssumption DEF Days, Firsts
        <5> QED
          BY <5>1, <5>2
      <4> QED
        BY <4>1, <4>2 DEF Reaches
    <3> QED
      BY <3>1, <3>2, <3>3
  <2> QED
    BY <2>1, <2>2, <2>3
<1>4. PICK status \in {"read", "covered", "empty"}, full \in BOOLEAN,
           days \in [Tags -> SUBSET Days] :
        /\ Examined(b, status, days, full)
        /\ \A t \in Tags : \A d \in days[t] : Reaches(b, t, d)
  BY <1>3
<1>5. /\ source' = [source EXCEPT ![b] = status]
      /\ coverage' = [coverage EXCEPT ![b] = days]
      /\ whole' = IF full THEN whole \cup {b} ELSE whole
      /\ UNCHANGED <<phone, visible, since, peak>>
  BY <1>4 DEF Examined
<1>6. Known'
  <2>1. ASSUME NEW c \in Backups, source'[c] # "none" PROVE c \in visible'
    BY <1>1, <1>5, <2>1 DEF Known, StoreTypeOK
  <2>2. ASSUME NEW c \in Backups, NEW t \in Tags, NEW d \in coverage'[c][t] PROVE Reaches(c, t, d)'
    <3>1. Reaches(c, t, d)
      BY <1>1, <1>4, <1>5 DEF Known, StoreTypeOK
    <3> QED
      BY <1>5, <3>1 DEF Reaches, Block, Contents, Date
  <2> QED
    BY <2>1, <2>2 DEF Known
<1> QED
  BY <1>1, <1>2, <1>5, <1>6 DEF StoreTypeOK

LEMMA ExamineAnswers ==
  ASSUME JInv, NEW b \in Backups,
         Whole(b) \/ JudgeByDate(b) \/ Seek(b) \/ Reread(b) \/ ReadEmpty(b)
  PROVE  AllAnswered'
<1>1. /\ b \in visible /\ source[b] = "none"
      /\ UNCHANGED <<phone, visible, since, peak>>
      /\ store \subseteq store'
      /\ \A c \in Backups : c # b => /\ source'[c] = source[c] /\ coverage'[c] = coverage[c]
                                     /\ c \in whole <=> c \in whole'
  BY ExamineKnown DEF JInv
<1>2. StoreTypeOK /\ visible \subseteq Backups /\ since <= peak /\ since \in Int /\ peak \in Int
  BY DEF JInv, IInv, StoreTypeOK
<1>3. \A c \in Backups : coverage[c] # NoDays => c # b
  BY <1>1, <1>2 DEF StoreTypeOK, NoDays
<1>4. \A r \in Records : Passed(r) => Passed(r)'
  BY <1>1, <1>2, <1>3 DEF Passed, Trusted
<1>5. \A c \in Backups, r \in Records : Elsewhere(c, r) => Elsewhere(c, r)'
  BY <1>1 DEF Elsewhere, Reaches, Block, Contents, Date
<1> SUFFICES ASSUME NEW c \in Backups, source'[c] # "none", Trusted(c)',
                    NEW r \in From(peak, Contents(c))'
             PROVE  Answered(c, r)'
  BY DEF AllAnswered
<1>6. r \in From(peak, Contents(c)) /\ r \in Contents(c) /\ Date(r) >= peak
  BY <1>1 DEF From, Contents, Date
<1>7. /\ r \in Records /\ phone[r].tag \in Tags /\ Date(r) \in Days /\ phone[r].arrives \in Days
      /\ Date(r) \in Int /\ phone[r].arrives \in Int
      /\ phone[r].gone \in Int /\ Taken[c] \in Days /\ Taken[c] \in Int
      /\ phone[r].arrives <= Taken[c] /\ Taken[c] < phone[r].gone
  BY <1>2, <1>6, RecordDays DEF Days
<1>8. CASE c # b
  <2>1. Answered(c, r)
    BY <1>1, <1>6, <1>8 DEF JInv, AllAnswered, Trusted
  <2> QED
    BY <1>1, <1>4, <1>5, <1>7, <2>1 DEF Answered, Late, Date
<1>9. CASE c = b
  <2>1. since <= Date(r)
    BY <1>2, <1>6, <1>7
  <2>2. r \in store' \/ Surrounded(b, r)
    BY <1>6, <1>9, <2>1, Taking DEF JInv
  <2>3. CASE r \in store'
    BY <2>3 DEF Answered
  <2>4. CASE Surrounded(b, r) /\ r \notin store'
    <3>1. ASSUME NEW d \in Days, Date(r) <= d, d <= Date(r) + Margin, d <= Taken[b]
          PROVE  \E e \in visible \ {b} :
                   d \in coverage[e][phone[r].tag] /\ d <= Taken[e] /\ source[e] = "read"
      <4>1. PICK e \in Backups : d \in coverage[e][phone[r].tag]
        BY <2>4, <3>1 DEF Surrounded, Covered
      <4>2. source[e] = "read" /\ d <= Taken[e]
        BY <1>2, <1>7, <4>1 DEF StoreTypeOK
      <4> QED
        BY <1>1, <4>1, <4>2 DEF JInv, Known
    <3>2. Elsewhere(b, r)
      <4>1. Date(r) <= Taken[b]
        <5>1. Date(r) <= phone[r].arrives
          BY <1>7 DEF JInv, Dated
        <5> QED
          BY <1>7, <1>9, <5>1
      <4>2. PICK e \in visible \ {b} : Date(r) \in coverage[e][phone[r].tag] /\ Date(r) <= Taken[e]
        <5>1. Date(r) <= Date(r) + Margin
          BY <1>7, BackupsAssumption
        <5> QED
          BY <1>7, <3>1, <4>1, <5>1
      <4> QED
        BY <1>2, <1>7, <4>2 DEF Elsewhere, JInv, Known
    <3>3. ASSUME Late(r) <= Margin PROVE Passed(r)
      <4>1. PICK e \in visible \ {b} :
              /\ phone[r].arrives \in coverage[e][phone[r].tag]
              /\ phone[r].arrives <= Taken[e] /\ source[e] = "read"
        <5>1. Date(r) <= phone[r].arrives
          BY <1>7 DEF JInv, Dated
        <5>2. phone[r].arrives <= Date(r) + Margin
          <6> DEFINE a == phone[r].arrives
          <6>1. a - Date(r) <= Margin /\ a \in Int /\ Date(r) \in Int /\ Margin \in Int
            BY <1>7, <3>3, BackupsAssumption DEF Late, Date
          <6> HIDE DEF a
          <6>2. a <= Date(r) + Margin
            BY <6>1
          <6> QED
            BY <6>2 DEF a
        <5> QED
          BY <1>7, <1>9, <3>1, <5>1, <5>2
      <4>2. e \in Backups /\ Taken[e] \in Int
        BY <1>2, <4>1, BackupsAssumption DEF Days
      <4>3. CASE phone[r].gone <= Taken[e]
        BY <4>1, <4>3 DEF Passed
      <4>4. CASE ~(phone[r].gone <= Taken[e])
        <5>1. r \in From(peak, Contents(e))
          BY <1>6, <1>7, <4>1, <4>2, <4>4 DEF From, Contents
        <5>2. CASE Trusted(e)
          <6>1. Answered(e, r)
            BY <4>1, <4>2, <5>1, <5>2 DEF JInv, AllAnswered
          <6> QED
            BY <1>1, <2>4, <3>3, <6>1 DEF Answered
        <5>3. CASE ~Trusted(e)
          BY <1>7, <4>1, <5>3 DEF Passed, NoDays
        <5> QED
          BY <5>2, <5>3
      <4> QED
        BY <4>3, <4>4
    <3> QED
      BY <1>1, <1>4, <1>5, <1>7, <1>9, <3>2, <3>3 DEF Answered, Late, Date
  <2> QED
    BY <2>2, <2>3, <2>4
<1> QED
  BY <1>8, <1>9

LEMMA OpenAnswers ==
  ASSUME JInv, NEW all \in BOOLEAN, Open(all)
  PROVE  Known' /\ AllAnswered'
<1>1. /\ peak' = MaxOf(peak, config) /\ Prune /\ Rejudge
      /\ UNCHANGED <<phone, visible, coverage, whole>>
  BY DEF Open
<1>2. StoreTypeOK /\ config \in Int /\ peak \in Int /\ Days \subseteq Int
  BY DEF JInv, IInv, StoreTypeOK, Days
<1>3. \A b \in Backups : source'[b] # "none" => source[b] # "none"
  BY <1>1, <1>2 DEF Rejudge, StoreTypeOK
<1>4. Known'
  BY <1>1, <1>3 DEF JInv, Known, Reaches, Block, Contents, Date
<1>5. AllAnswered'
  <2> SUFFICES ASSUME NEW b \in Backups, source'[b] # "none", Trusted(b)',
                      NEW r \in From(peak, Contents(b))'
               PROVE  Answered(b, r)'
    BY DEF AllAnswered
  <2>1. r \in Contents(b) /\ Date(r) >= peak' /\ Trusted(b) /\ source[b] # "none"
    BY <1>1, <1>3 DEF From, Contents, Date, Trusted
  <2>2. Date(r) \in Int
    BY <1>2, <2>1, RecordDays
  <2>3. Date(r) >= peak /\ Date(r) >= config
    BY <1>1, <1>2, <2>1, <2>2 DEF MaxOf
  <2>4. Answered(b, r)
    BY <2>1, <2>3 DEF JInv, AllAnswered, From
  <2>5. r \in store => r \in store'
    BY <1>1, <2>3 DEF Prune, From
  <2> QED
    BY <1>1, <2>4, <2>5 DEF Answered, Elsewhere, Passed, Trusted, Late, Reaches, Block, Contents, Date
<1> QED
  BY <1>4, <1>5

LEMMA AnswersKept ==
  ASSUME JInv, [StoreNext]_storeVars
  PROVE  JInv'
<1>1. IInv'
  BY StepKeeps DEF JInv
<1>2. Dated'
  <2>1. phone' = phone
    BY DEF StoreNext, Appear, Configure, Open, Close, Whole, JudgeByDate, Seek, Reread, ReadEmpty, ReadFull,
       Examined, storeVars
  <2> QED
    BY <2>1 DEF JInv, Dated, Date
<1>3. ASSUME NEW b \in Backups, Whole(b) \/ JudgeByDate(b) \/ Seek(b) \/ Reread(b) \/ ReadEmpty(b)
      PROVE  Known' /\ AllAnswered'
  BY <1>3, ExamineKnown, ExamineAnswers DEF JInv
<1>4. ASSUME NEW all \in BOOLEAN, Open(all)
      PROVE  Known' /\ AllAnswered'
  BY <1>4, OpenAnswers
<1>5. ASSUME /\ UNCHANGED <<phone, store, coverage, source, whole, peak>>
             /\ \E B \in SUBSET Backups : visible' = visible \cup B
      PROVE  Known' /\ AllAnswered'
  <2>1. Known'
    BY <1>5 DEF JInv, Known, Reaches, Block, Contents, Date
  <2>2. AllAnswered'
    <3> SUFFICES ASSUME NEW b \in Backups, source'[b] # "none", Trusted(b)',
                        NEW r \in From(peak, Contents(b))'
                 PROVE  Answered(b, r)'
      BY DEF AllAnswered
    <3>1. Answered(b, r)
      BY <1>5 DEF JInv, AllAnswered, Trusted, From, Contents, Date
    <3> QED
      BY <1>5, <3>1 DEF Answered, Elsewhere, Passed, Trusted, Late, Reaches, Block, Contents, Date
  <2> QED
    BY <2>1, <2>2
<1>6. ASSUME NEW b \in Backups, Appear(b) PROVE Known' /\ AllAnswered'
  BY <1>5, <1>6 DEF Appear
<1>7. ASSUME NEW d \in Sinces, Configure(d) PROVE Known' /\ AllAnswered'
  <2>1. visible' = visible \cup {} /\ UNCHANGED <<phone, store, coverage, source, whole, peak>>
    BY <1>7 DEF Configure
  <2> QED
    BY <1>5, <2>1
<1>8. ASSUME Close \/ UNCHANGED storeVars PROVE Known' /\ AllAnswered'
  <2>1. visible' = visible \cup {} /\ UNCHANGED <<phone, store, coverage, source, whole, peak>>
    BY <1>8 DEF Close, storeVars
  <2> QED
    BY <1>5, <2>1
<1>9. Known' /\ AllAnswered'
  <2>1. CASE StoreNext
    <3>1. \/ \E b \in Backups : \/ Appear(b)
                              \/ Whole(b) \/ JudgeByDate(b) \/ Seek(b) \/ Reread(b) \/ ReadEmpty(b)
          \/ \E d \in Sinces : Configure(d)
          \/ \E all \in BOOLEAN : Open(all)
          \/ Close
      BY <2>1 DEF StoreNext
    <3> QED
      BY <1>3, <1>4, <1>6, <1>7, <1>8, <3>1
  <2> QED
    BY <1>8, <2>1
<1> QED
  BY <1>1, <1>2, <1>9 DEF JInv

LEMMA Answers == StoreSpec => []JInv
<1>1. StoreInit => JInv
  <2>1. StoreInit => IInv
    BY InitHolds
  <2>2. StoreInit => Known /\ AllAnswered
    BY DEF StoreInit, Known, AllAnswered, NoDays
  <2>3. StoreInit => Dated
    BY DEF StoreInit, Dated, Date
  <2> QED
    BY <2>1, <2>2, <2>3 DEF JInv
<1>2. JInv /\ [StoreNext]_storeVars => JInv'
  BY AnswersKept
<1> QED
  BY <1>1, <1>2, PTL DEF StoreSpec

\* After an ingest, the store has what the newest backup holds of the relevant
\* time and reached the phone within the margin, in whatever order the backups
\* came in and although each is read only where no other was (choose_order,
\* plan_reads).
THEOREM NewestIsComplete == StoreSpec => []NewestComplete
<1>1. JInv => NewestComplete
  <2> SUFFICES ASSUME JInv, Settled, NEW b \in Newest(visible), Trusted(b),
                      NEW r \in From(peak, Contents(b)), Late(r) <= Margin
               PROVE  r \in store
    BY DEF NewestComplete
  <2>1. b \in Backups /\ b \in visible /\ source[b] # "none" /\ r \in Contents(b)
    BY DEF JInv, IInv, StoreTypeOK, Newest, Settled, From
  <2>2. r \in store \/ Passed(r)
    BY <2>1 DEF JInv, AllAnswered, Answered
  <2>3. ~Passed(r)
    <3> SUFFICES ASSUME NEW c \in visible, phone[r].gone <= Taken[c]
                 PROVE  FALSE
      BY DEF Passed, Settled
    <3>1. c \in Backups /\ Taken[c] \in Int /\ Taken[c] <= Taken[b]
      BY BackupsAssumption DEF JInv, IInv, StoreTypeOK, Newest, Days
    <3>2. Taken[b] < phone[r].gone /\ phone[r].gone \in Int /\ Taken[b] \in Int
      BY <2>1, RecordDays DEF JInv, IInv, Days
    <3> QED
      BY <3>1, <3>2
  <2> QED
    BY <2>2, <2>3
<1> QED
  BY <1>1, Answers, PTL

\* A record of a time that no other backup goes back to is in the store once
\* the backup that has it was examined.
THEOREM WitnessIsHeard == StoreSpec => []SoleWitness
<1>1. JInv => SoleWitness
  <2> SUFFICES ASSUME JInv, Settled, NEW b \in visible, Trusted(b),
                      NEW r \in From(peak, Contents(b)), ~Elsewhere(b, r)
               PROVE  r \in store
    BY DEF SoleWitness, Elsewhere
  <2>1. b \in Backups /\ source[b] # "none"
    BY DEF JInv, IInv, StoreTypeOK, Settled
  <2> QED
    BY <2>1 DEF JInv, AllAnswered, Answered
<1> QED
  BY <1>1, Answers, PTL
=============================================================================
