---------------------------- MODULE AppendOnlyLog ----------------------------
(***************************************************************************)
(* What the block store promises to the rest of the node: a log of blocks  *)
(* that only ever grows, by one block at a time, each labelled with its    *)
(* position.  ChainStore is shown to implement this specification.         *)
(***************************************************************************)
EXTENDS Naturals, Sequences

CONSTANT Body      \* the blocks that can be appended

VARIABLE log       \* the durable chain, genesis block first

Labelled(b) == b.height = Len(log)

\* The new log is the old one and one more block, its last.
Extend ==
  /\ log' # << >>
  /\ LET b == log'[Len(log')]
     IN  b \in Body /\ Labelled(b) /\ log' = Append(log, b)

Init == log = << >>

Next == Extend

Spec == Init /\ [][Next]_log
==============================================================================
