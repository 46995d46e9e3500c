---------------------------- MODULE MCLocalSign ----------------------------
(***************************************************************************)
(* An instance of LocalSign for TLC: every document of two signature       *)
(* blocks or of one, of two parties or of one and a judge, on one page or  *)
(* on two, in each of the ways it can be built.                            *)
(***************************************************************************)
EXTENDS LocalSign

CONSTANTS roe, doe, judge, paper

Block(style, name, cut) == [style |-> style, name |-> name, cut |-> cut]

Blocks ==
  {Block(style, name, 0) : style \in {"dated", "decl", "letter"}, name \in Names}
    \cup {Block("whereof", name, cut) : name \in {roe}, cut \in {1, 2, 4}}
    \cup {Block("judge", judge, 0)}

Page(blocks, built) == FlattenSeq([i \in DOMAIN blocks |-> Emit(blocks[i], built)])

MCDocuments ==
  {<< Page(<<b>>, built) >> : b \in Blocks, built \in Builds}
    \cup {<< Page(<<b, c>>, built) >> : b \in Blocks, c \in Blocks, built \in Builds}
    \cup {<< Page(<<b>>, built), Page(<<Block("judge", judge, 0)>>, built) >> :
             b \in Blocks, built \in Builds}

\* The recital of an agreement, and the block of a party below it.
MCRecital ==
  {<< Page(<<Block("recital", Nobody, 0), b>>, "plain") >> : b \in Blocks}
=============================================================================
