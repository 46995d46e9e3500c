------------------------------ MODULE FlowRun ------------------------------
(***************************************************************************)
(* flows/run.py: the run directory of one files-first flow, from its first *)
(* execution through any number of resumes.  A flow is a sequence of steps *)
(* (agent, command, judge, gate).  The runner walks them in order, skips   *)
(* the completed ones, loops back when a judge rejects, stops at a gate    *)
(* until a person has renamed its file, and keeps what it has completed    *)
(* and how often each judge rejected in state.json.  It can be killed at   *)
(* any moment, also while state.json is being overwritten.                 *)
(*                                                                         *)
(* A score is only passing or failing.  Of an output file the model keeps  *)
(* whether it exists and whether it is stale: something it was made from   *)
(* has been rewritten since.  An approval is made from every file before   *)
(* its gate: it is what the person had to look at.                         *)
(***************************************************************************)
EXTENDS Integers, FiniteSets

CONSTANTS
  Flows,        \* flows the runner is given
  Names,        \* what a prompt can name beside step ids
  MaxCrashes,   \* bound: executions killed
  MaxResumes    \* bound: executions with --resume

Kinds == {"agent", "command", "judge", "gate"}

\* What load_flow lets through.  on_fail is 0 when absent; no order between a
\* judge and its on_fail is asked for.
ValidFlow(f) ==
  /\ f.n \in Nat
  /\ f.kind \in [1 .. f.n -> Kinds]
  /\ f.needs \in [1 .. f.n -> SUBSET (1 .. f.n)]   \* {id} of a step
  /\ f.names \in [1 .. f.n -> SUBSET Names]        \* any other {name}
  /\ f.inputs \in SUBSET Names
  /\ f.onFail \in [1 .. f.n -> 0 .. f.n]
  /\ f.limit \in [1 .. f.n -> Int]

ASSUME FlowsAssumption  == \A f \in Flows : ValidFlow(f)
ASSUME BoundsAssumption == MaxCrashes \in Nat /\ MaxResumes \in Nat

VARIABLES
  flow,        \* the flow file
  given,       \* inputs.json: the inputs of the first execution
  disk,        \* state.json: "absent", "torn" by a kill, or "whole"
  saved,       \* what a whole state.json holds: completed steps, rounds
  made,        \* steps whose output file exists
  verdict,     \* what the output file of a judge says
  stale,       \* outputs and approvals older than something they rest on
  pending,     \* gates with an APPROVAL-<id>.pending file
  approved,    \* gates with an APPROVAL-<id>.approved file
  pc,          \* where the execution is
  i,           \* its loop variable
  state,       \* its copy of state.json
  values,      \* step ids it can render
  known,       \* inputs it can render
  next,        \* what it does once state.json is written
  exit,        \* how the last execution ended
  loops,       \* history: times each judge looped back
  crashes, resumes

human   == <<pending, approved>>
files   == <<made, verdict, stale>>
local   == <<i, state, values, known, next>>
history == <<loops, crashes, resumes>>
vars    == <<flow, given, disk, saved, files, human, pc, local, exit, history>>

Steps   == 1 .. flow.n
Kind(s) == flow.kind[s]
Gates   == {s \in Steps : Kind(s) = "gate"}
Judges  == {s \in Steps : Kind(s) = "judge"}
NoRounds == [s \in Steps |-> 0]
States   == [done : SUBSET Steps, rounds : [Steps -> Nat]]

\* What an output, or an approval, is made from.
RestsOn(s) == IF s \in Gates THEN 1 .. s - 1 ELSE flow.needs[s]

Init ==
  /\ flow \in Flows /\ given \in SUBSET Names
  /\ disk = "absent" /\ saved = [done |-> {}, rounds |-> NoRounds]
  /\ made = {} /\ stale = {} /\ pending = {} /\ approved = {}
  /\ verdict = [s \in Steps |-> "none"]
  /\ pc = "enter" /\ i = 1 /\ state = saved /\ values = {} /\ known = given
  /\ next = "run" /\ exit = "none"
  /\ loops = NoRounds /\ crashes = 0 /\ resumes = 0

End(how) == pc' = "end" /\ exit' = how

-----------------------------------------------------------------------------
\* A new state.json takes the place of the old one: opening it truncates it.
Save(new, then) ==
  /\ state' = new /\ next' = then
  /\ disk' = "torn" /\ pc' = "save"

\* ... and then its text is there.
Written ==
  /\ pc = "save"
  /\ disk' = "whole" /\ saved' = state
  /\ IF next = "run" THEN pc' = "run" /\ UNCHANGED exit ELSE End(next)
  /\ UNCHANGED <<flow, given, files, human, local, history>>

\* Every declared input must have been given, and the outputs of completed
\* steps can be named.
Enter ==
  /\ pc = "enter"
  /\ IF flow.inputs \subseteq known
       THEN pc' = "run" /\ values' = state.done \ Gates /\ UNCHANGED exit
       ELSE End("inputs") /\ UNCHANGED values
  /\ i' = 1
  /\ UNCHANGED <<flow, given, disk, saved, files, human, state, known, next, history>>

\* A completed step is not done again.
Skip ==
  /\ pc = "run" /\ i \in Steps /\ i \in state.done
  /\ i' = i + 1
  /\ UNCHANGED <<flow, given, disk, saved, files, human, pc, state, values, known,
                 next, exit, history>>

Todo(kind) == pc = "run" /\ i \in Steps \ state.done /\ Kind(i) = kind

\* A gate lets the run past once its approval exists.
GateOpen ==
  /\ Todo("gate") /\ i \in approved
  /\ Save([state EXCEPT !.done = @ \cup {i}], "run")
  /\ i' = i + 1
  /\ UNCHANGED <<flow, given, saved, files, human, values, known, exit, history>>

GateShut ==
  /\ Todo("gate") /\ i \notin approved
  /\ pc' = "shut"
  /\ UNCHANGED <<flow, given, disk, saved, files, human, local, exit, history>>

\* Otherwise it says what to look at, and the run stops with exit code 3.
AskHuman ==
  /\ pc = "shut"
  /\ pending' = pending \cup {i}
  /\ Save(state, "gate")
  /\ UNCHANGED <<flow, given, saved, files, approved, i, values, known, exit, history>>

\* A prompt or a command is rendered from the inputs and the prior steps.
Renders(s) == flow.needs[s] \subseteq values /\ flow.names[s] \subseteq known

Work == \E k \in Kinds \ {"gate"} : Todo(k)

Unrendered ==
  /\ Work /\ ~Renders(i)
  /\ End("unrendered")
  /\ UNCHANGED <<flow, given, disk, saved, files, human, local, history>>

\* A command exits nonzero, an agent fails, a judge's reply is no verdict.
StepFails ==
  /\ Work /\ Renders(i)
  /\ End("failed")
  /\ UNCHANGED <<flow, given, disk, saved, files, human, local, history>>

\* The output file of step i is written: whatever was made from an earlier one
\* is now stale.
Output ==
  /\ made' = made \cup {i}
  /\ stale' = (stale \ {i})
                \cup {t \in (made \cup approved) \ {i} : i \in RestsOn(t)}
  /\ pc' = "wrote"

Produce ==
  /\ Todo("agent") \/ Todo("command")
  /\ Renders(i) /\ Output
  /\ UNCHANGED <<flow, given, disk, saved, verdict, human, local, exit, history>>

Judge(score) ==
  /\ Todo("judge") /\ Renders(i) /\ Output
  /\ verdict' = [verdict EXCEPT ![i] = score]
  /\ UNCHANGED <<flow, given, disk, saved, human, local, exit, history>>

RejectedSlip ==   \* out of rounds, the run goes on
  i \in Judges /\ verdict[i] = "fail" /\ state.rounds[i] + 1 < flow.limit[i]

Rejected == i \in Judges /\ verdict[i] = "fail"

CompleteSlip ==   \* the state is left for the next save to write
  /\ pc = "wrote" /\ ~Rejected
  /\ state' = [state EXCEPT !.done = @ \cup {i}] /\ pc' = "run"
  /\ values' = values \cup {i} /\ i' = i + 1
  /\ UNCHANGED <<flow, given, disk, saved, files, human, known, next, exit, history>>

Complete ==
  /\ pc = "wrote" /\ ~Rejected
  /\ values' = values \cup {i}
  /\ Save([state EXCEPT !.done = @ \cup {i}], "run")
  /\ i' = i + 1
  /\ UNCHANGED <<flow, given, saved, files, human, known, exit, history>>

Rounds == state.rounds[i] + 1

\* A rejection without a way back, or one too many, ends the run.
GiveUp ==
  /\ pc = "wrote" /\ Rejected
  /\ flow.onFail[i] = 0 \/ Rounds >= flow.limit[i]
  /\ Save([state EXCEPT !.rounds[i] = Rounds], "gaveup")
  /\ UNCHANGED <<flow, given, saved, files, human, i, values, known, exit, history>>

RedoneSlip(from, to) == {from}   \* only the step named in on_fail

\* steps[index[target]:i]
Redone(from, to) == from .. to - 1

\* Any other rejection: everything from on_fail to the judge is to be done
\* again.  The history counts a loop up to the judge's limit.
LoopBackSlip ==   \* the round is not counted
  /\ pc = "wrote" /\ Rejected
  /\ flow.onFail[i] # 0 /\ Rounds < flow.limit[i]
  /\ Save([state EXCEPT !.done = @ \ Redone(flow.onFail[i], i)], "run")
  /\ i' = flow.onFail[i]
  /\ loops' = [loops EXCEPT ![i] = IF @ < flow.limit[i] THEN @ + 1 ELSE @]
  /\ UNCHANGED <<flow, given, saved, files, human, values, known, exit, crashes, resumes>>

LoopBack ==
  /\ pc = "wrote" /\ Rejected
  /\ flow.onFail[i] # 0 /\ Rounds < flow.limit[i]
  /\ Save([done   |-> state.done \ Redone(flow.onFail[i], i),
           rounds |-> [state.rounds EXCEPT ![i] = Rounds]], "run")
  /\ i' = flow.onFail[i]
  /\ loops' = [loops EXCEPT ![i] = IF @ < flow.limit[i] THEN @ + 1 ELSE @]
  /\ UNCHANGED <<flow, given, saved, files, human, values, known, exit, crashes, resumes>>

Finish ==
  /\ pc = "run" /\ i > flow.n
  /\ End("complete")
  /\ UNCHANGED <<flow, given, disk, saved, files, human, local, history>>

-----------------------------------------------------------------------------
\* --resume <rundir>, perhaps with further inputs.  A run directory without a
\* state.json is refused and nothing is changed.
Resume ==
  /\ pc = "end" /\ disk # "absent" /\ resumes < MaxResumes
  /\ resumes' = resumes + 1
  /\ \E more \in SUBSET Names : known' = given \cup more
  /\ IF disk = "whole"
       THEN state' = saved /\ pc' = "enter" /\ exit' = "none"
       ELSE End("unreadable") /\ UNCHANGED state
  /\ UNCHANGED <<flow, given, disk, saved, files, human, i, values, next,
                 loops, crashes>>

\* A person renames the pending file, having looked at what lies before it.
Approve(g) ==
  /\ g \in pending
  /\ pending' = pending \ {g} /\ approved' = approved \cup {g}
  /\ stale' = stale \ {g}
  /\ UNCHANGED <<flow, given, disk, saved, made, verdict, pc, local, exit, history>>

\* The execution is killed.
Crash ==
  /\ pc # "end" /\ crashes < MaxCrashes
  /\ crashes' = crashes + 1
  /\ End("killed")
  /\ UNCHANGED <<flow, given, disk, saved, files, human, local, loops, resumes>>

Execute ==
  \/ Enter \/ Skip \/ GateOpen \/ GateShut \/ AskHuman
  \/ Unrendered \/ StepFails \/ Produce \/ Judge("pass") \/ Judge("fail")
  \/ Complete \/ GiveUp \/ LoopBack \/ Written \/ Finish

Next == Execute \/ Resume \/ Crash \/ \E g \in Steps : Approve(g)

Spec == Init /\ [][Next]_vars

\* The runner is one sequential process: it goes on while it lives.
FairSpec == Spec /\ WF_vars(Execute)

-----------------------------------------------------------------------------
\* The flow's loops go backwards, as the documentation has it: no judge's
\* on_fail names a later step.
Backward == \A j \in Judges : flow.onFail[j] <= j

\* A loop re-runs steps that lie before gate g.
Spanned(g) == \E j \in Judges : g < j /\ flow.onFail[j] \in 1 .. g - 1

TypeOK ==
  /\ flow \in Flows /\ given \subseteq Names /\ known \subseteq Names
  /\ disk \in {"absent", "torn", "whole"}
  /\ saved \in States /\ state \in States
  /\ made \subseteq Steps \ Gates /\ values \subseteq Steps \ Gates
  /\ verdict \in [Steps -> {"none", "pass", "fail"}]
  /\ stale \subseteq Steps /\ pending \subseteq Gates /\ approved \subseteq Gates
  /\ pc \in {"enter", "run", "shut", "wrote", "save", "end"}
  /\ i \in 1 .. flow.n + 1
  /\ next \in {"run", "gate", "gaveup"}
  /\ exit \in {"none", "inputs", "gate", "unrendered", "failed", "gaveup",
               "complete", "unreadable", "killed"}
  /\ loops \in [Steps -> Nat] /\ crashes \in Nat /\ resumes \in Nat

\* specs/flows.md: a judge loops back at most max_rounds times (one less, as
\* the last rejection fails the run), over all executions of the run
\* directory: kills and resumes never give it further rounds.
LoopsBounded == \A j \in Judges : loops[j] > 0 => loops[j] < flow.limit[j]

\* What the run counts as completed is consistent: no output was made from a
\* file that has been rewritten since, on disk or in memory.
Coherent ==
  Backward => (state.done \cup (IF disk = "whole" THEN saved.done ELSE {}))
                \cap (stale \ Gates) = {}

\* A judge that is behind the run has a passing verdict on file.
JudgePassed ==
  Backward => \A j \in Judges \cap state.done : j \in made /\ verdict[j] = "pass"

\* Nothing past a gate runs before a person approved it, having seen the files
\* that lie before it as they are now.  A gate inside a loop only asks once.
GateCleared ==
  Backward => \A g \in Gates : (\E s \in state.done : s >= g)
                => g \in approved /\ (~Spanned(g) => g \notin stale)

\* A flow that ends well has all its outputs, and state.json says so.
CompleteIsAll ==
  Backward /\ exit = "complete"
    => disk # "torn" /\ saved.done = Steps /\ made = Steps \ Gates

\* What a flow ends with was earned: a run that ends well has all outputs, none
\* of them past a judge that did not pass it or a gate that nobody approved,
\* over any loops, kills and resumes (main, execute).
CompleteIsEarned == JudgePassed /\ GateCleared /\ CompleteIsAll

\* specs/flows.md: a killed execution is resumed where it stopped.  All the
\* executions of a run directory are together one walk through the flow, in
\* which a step completed stays completed unless a judge loops back and a round
\* used stays used (save, execute, main's --resume).  A kill inside a save ends
\* the walk for good: the run is lost.
Walk == INSTANCE FlowWork WITH
          done <- state.done, rounds <- state.rounds,
          kept <- ~(pc = "end" /\ disk = "torn")

AsOne == Walk!Spec

\* The promise as flows.md makes it, "any interrupted run": it is false, as a
\* kill inside a save leaves a state.json that no --resume can read.
RunSurvives == exit # "unreadable"

\* Every execution ends: the judges run out of rounds.
EveryRunEnds == (pc # "end") ~> (pc = "end")
=============================================================================
