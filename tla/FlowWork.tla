------------------------------ MODULE FlowWork ------------------------------
(***************************************************************************)
(* What specs/flows.md promises of one run directory, however often the    *)
(* runner is killed and resumed: its executions are together one walk      *)
(* through the flow.  Steps are completed in the order of the flow, only a *)
(* judge's loop takes any of them back, and each loop uses up one of that  *)
(* judge's rounds.  An execution that ends in any other way takes nothing  *)
(* back -- except the one that is killed while it writes state.json: then  *)
(* the run is lost, and nothing more is done in it.                        *)
(***************************************************************************)
EXTENDS Integers

CONSTANT Flows

VARIABLES flow, done, rounds, kept

work == <<flow, done, rounds, kept>>

Steps  == 1 .. flow.n
Judges == {s \in Steps : flow.kind[s] = "judge"}

\* A judge that points forward may skip the steps it points over.
InOrder == \A j \in Judges : flow.onFail[j] <= j

Init ==
  /\ flow \in Flows
  /\ done = {} /\ rounds = [s \in Steps |-> 0] /\ kept = TRUE

\* A step is completed once those before it are.
Complete(s) ==
  /\ kept /\ s \notin done
  /\ InOrder => 1 .. s - 1 \subseteq done
  /\ done' = done \cup {s}
  /\ UNCHANGED <<flow, rounds, kept>>

\* A judge rejects what lies before it, and it is not its last round: the
\* steps from on_fail on are to be done again.
LoopBack(j) ==
  /\ kept /\ j \notin done
  /\ InOrder => 1 .. j - 1 \subseteq done
  /\ flow.onFail[j] # 0 /\ rounds[j] + 1 < flow.limit[j]
  /\ done' = done \ (flow.onFail[j] .. j - 1)
  /\ rounds' = [rounds EXCEPT ![j] = @ + 1]
  /\ UNCHANGED <<flow, kept>>

\* It has no way back, or no further round.
GiveUp(j) ==
  /\ kept /\ j \notin done
  /\ flow.onFail[j] = 0 \/ rounds[j] + 1 >= flow.limit[j]
  /\ rounds' = [rounds EXCEPT ![j] = @ + 1]
  /\ UNCHANGED <<flow, done, kept>>

Lose == kept /\ kept' = FALSE /\ UNCHANGED <<flow, done, rounds>>

Next ==
  \/ \E s \in Steps : Complete(s)
  \/ \E j \in Judges : LoopBack(j) \/ GiveUp(j)
  \/ Lose

Spec == Init /\ [][Next]_work
=============================================================================
