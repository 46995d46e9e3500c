----------------------------- MODULE MCFlowRun -----------------------------
(***************************************************************************)
(* Flows for TLC: the flow the runner's tests use (a loop, then a gate), a *)
(* flow with a gate inside two overlapping loops, one whose judge points   *)
(* forward, and the flow the repository ships.                             *)
(***************************************************************************)
EXTENDS FlowRun

MCNames == {"source", "revised"}

\* draft, shout, check, approve, after
Tested ==
  [n |-> 5, kind |-> <<"agent", "command", "judge", "gate", "command">>,
   needs  |-> <<{}, {1}, {2}, {}, {}>>,
   names  |-> <<{"source"}, {}, {}, {}, {}>>, inputs |-> {"source"},
   onFail |-> <<0, 0, 1, 0, 0>>, limit |-> <<3, 3, 3, 3, 3>>]

\* agent, gate, command, judge, judge: the second judge loops into the first
\* one's loop.
GateInLoop ==
  [n |-> 5, kind |-> <<"agent", "gate", "command", "judge", "judge">>,
   needs  |-> <<{}, {}, {1}, {1, 3}, {3, 4}>>,
   names  |-> <<{}, {}, {}, {}, {}>>, inputs |-> {},
   onFail |-> <<0, 0, 0, 1, 3>>, limit |-> <<3, 3, 3, 2, 3>>]

\* A judge that, failing, skips the gate behind it.
Forward ==
  [n |-> 3, kind |-> <<"judge", "gate", "command">>,
   needs  |-> <<{}, {}, {1}>>, names |-> <<{}, {}, {}>>, inputs |-> {},
   onFail |-> <<3, 0, 0>>, limit |-> <<2, 3, 3>>]

\* flows/draft-review.yaml: review, revise, quality, human
DraftReview ==
  [n |-> 4, kind |-> <<"agent", "agent", "judge", "gate">>,
   needs  |-> <<{}, {1}, {1}, {}>>,
   names  |-> <<{"source"}, {"source"}, {"source", "revised"}, {}>>,
   inputs |-> {"source"},
   onFail |-> <<0, 0, 2, 0>>, limit |-> <<3, 3, 3, 3>>]

MCFlows == {Tested, GateInLoop, Forward, DraftReview}
=============================================================================
