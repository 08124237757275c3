---------------------------- MODULE MCExpandedSize ----------------------------
(***************************************************************************)
(* Every program of at most MaxNodes nodes, each pair's children numbered   *)
(* below it, with the root the last node: all the sharing there can be.     *)
(***************************************************************************)
EXTENDS ExpandedSize

CONSTANTS
  MaxNodes,   \* bound on the number of nodes of a program
  AtomLens    \* the lengths atoms may have

Atoms == [kind : {"atom"}, len : AtomLens]
PairsBelow(n) == [kind : {"pair"}, left : 1..(n - 1), right : 1..(n - 1)]

Shapes(size) ==
  {shape \in [1..size -> Atoms \cup PairsBelow(size)] :
     \A n \in 1..size : shape[n] \in Atoms \cup PairsBelow(n)}

Sized(shape) ==
  LET full[n \in DOMAIN shape] ==
        IF shape[n].kind = "atom"
        THEN AtomPrefix + shape[n].len
        ELSE PairCost + full[shape[n].left] + full[shape[n].right]
  IN  [node |-> shape, root |-> Len(shape), size |-> full]

AllPrograms == {Sized(shape) : shape \in UNION {Shapes(k) : k \in 1..MaxNodes}}
=============================================================================
