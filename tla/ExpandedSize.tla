----------------------------- MODULE ExpandedSize -----------------------------
(***************************************************************************)
(* expanded_hash_input_bytes and the guard require_expandable_reveal built  *)
(* on it (src/walk.rs): how many bytes the tree hash of a program would     *)
(* consume if the DAG its back-references describe were unfolded, computed  *)
(* on the DAG, by an explicit stack, one loop iteration at a time.          *)
(***************************************************************************)
EXTENDS Integers, Sequences, FiniteSets

CONSTANTS
  Limit,      \* MAX_REVEAL_EXPANDED_BYTES
  UsizeMax,   \* usize::MAX
  Programs    \* the deserialized programs the guard may be given

AtomPrefix == 1
PairCost == 1 + 32 + 32

(* A program: its root, each node an atom of some length or a pair of nodes  *)
(* (which other pairs may share), and `size`, the number of bytes the tree   *)
(* below the node feeds to SHA-256 when it is unfolded.                      *)
IsPair(p, n) == p.node[n].kind = "pair"

FullSizeAt(p, n) ==
  IF IsPair(p, n)
  THEN PairCost + p.size[p.node[n].left] + p.size[p.node[n].right]
  ELSE AtomPrefix + p.node[n].len

Pairs(p) == {n \in DOMAIN p.node : IsPair(p, n)}

IsProgram(p) ==
  /\ IsFiniteSet(DOMAIN p.node)
  /\ p.root \in DOMAIN p.node
  /\ \A n \in Pairs(p) : {p.node[n].left, p.node[n].right} \subseteq DOMAIN p.node
  /\ \A n \in DOMAIN p.node \ Pairs(p) : p.node[n].len \in Nat
  /\ p.size \in [DOMAIN p.node -> Nat]
  /\ \A n \in DOMAIN p.node : p.size[n] = FullSizeAt(p, n)

ASSUME ExpandedSizeAssumption ==
  /\ Limit \in Nat
  /\ UsizeMax \in Nat
  /\ Limit <= UsizeMax
  /\ \A p \in Programs : IsProgram(p)

VARIABLES
  program,   \* the allocator's nodes, and the root
  steps,     \* the work stack, its top last
  costed,    \* the stack of finished sizes, its top last
  sizes,     \* the memo of finished sizes
  popped,    \* how many steps have been taken from the stack
  verdict    \* what require_expandable_reveal answered

vars == <<program, steps, costed, sizes, popped, verdict>>

-----------------------------------------------------------------------------

Least(a, b) == IF a < b THEN a ELSE b

SaturatingAdd(a, b) == Least(a + b, UsizeMax)

(* One byte past the limit is enough to refuse. *)
Ceiling == SaturatingAdd(Limit, 1)

Cost(n) == [op |-> "cost", node |-> n]
Combine(n) == [op |-> "combine", node |-> n]

Top(s) == s[Len(s)]
Below(s, k) == SubSeq(s, 1, Len(s) - k)
Memo(n, size) == [m \in DOMAIN sizes \cup {n} |-> IF m = n THEN size ELSE sizes[m]]

-----------------------------------------------------------------------------

Init ==
  /\ program \in Programs
  /\ steps = <<Cost(program.root)>>
  /\ costed = <<>>
  /\ sizes = <<>>
  /\ popped = 0
  /\ verdict = "none"

Pops(op) ==
  /\ steps # <<>>
  /\ Top(steps).op = op
  /\ popped' = popped + 1
  /\ UNCHANGED <<program, verdict>>

(* A mistake: the memoized size is not pushed. *)
RecallSilently ==
  /\ Pops("cost")
  /\ Top(steps).node \in DOMAIN sizes
  /\ steps' = Below(steps, 1)
  /\ UNCHANGED <<costed, sizes>>

(* A shared node already costed. *)
Recall ==
  /\ Pops("cost")
  /\ Top(steps).node \in DOMAIN sizes
  /\ steps' = Below(steps, 1)
  /\ costed' = Append(costed, sizes[Top(steps).node])
  /\ UNCHANGED sizes

CostAtom ==
  /\ Pops("cost")
  /\ LET n == Top(steps).node IN
       /\ n \notin DOMAIN sizes
       /\ ~IsPair(program, n)
       /\ LET size == Least(SaturatingAdd(AtomPrefix, program.node[n].len), Ceiling) IN
            /\ costed' = Append(costed, size)
            /\ sizes' = Memo(n, size)
  /\ steps' = Below(steps, 1)

(* The left child is pushed last and so costed first. *)
Descend ==
  /\ Pops("cost")
  /\ LET n == Top(steps).node IN
       /\ n \notin DOMAIN sizes
       /\ IsPair(program, n)
       /\ steps' = Below(steps, 1) \o
            <<Combine(n), Cost(program.node[n].right), Cost(program.node[n].left)>>
  /\ UNCHANGED <<costed, sizes>>

(* A mistake: the sum of a pair is not clamped. *)
CombinePairUnclamped ==
  /\ Pops("combine")
  /\ Len(costed) >= 2
  /\ LET n == Top(steps).node
         size == PairCost + costed[Len(costed) - 1] + costed[Len(costed)]
     IN  /\ costed' = Append(Below(costed, 2), size)
         /\ sizes' = Memo(n, size)
  /\ steps' = Below(steps, 1)

(* A mistake: the size of a pair is not memoized. *)
CombinePairForgetting ==
  /\ Pops("combine")
  /\ Len(costed) >= 2
  /\ LET size == Least(SaturatingAdd(SaturatingAdd(PairCost, costed[Len(costed) - 1]),
                                     costed[Len(costed)]), Ceiling)
     IN  costed' = Append(Below(costed, 2), size)
  /\ steps' = Below(steps, 1)
  /\ UNCHANGED sizes

CombinePair ==
  /\ Pops("combine")
  /\ Len(costed) >= 2
  /\ LET n == Top(steps).node
         right == costed[Len(costed)]
         left == costed[Len(costed) - 1]
         size == Least(SaturatingAdd(SaturatingAdd(PairCost, left), right), Ceiling)
     IN  /\ costed' = Append(Below(costed, 2), size)
         /\ sizes' = Memo(n, size)
  /\ steps' = Below(steps, 1)

(* A mistake: a reveal of exactly the limit is refused. *)
JudgeAtLimit ==
  /\ steps = <<>>
  /\ costed # <<>>
  /\ verdict = "none"
  /\ verdict' = IF Top(costed) >= Limit THEN "RevealTooLarge" ELSE "expandable"
  /\ costed' = Below(costed, 1)
  /\ UNCHANGED <<program, steps, sizes, popped>>

(* The root's size is left on the stack; the guard compares it. *)
Judge ==
  /\ steps = <<>>
  /\ costed # <<>>
  /\ verdict = "none"
  /\ verdict' = IF Top(costed) > Limit THEN "RevealTooLarge" ELSE "expandable"
  /\ costed' = Below(costed, 1)
  /\ UNCHANGED <<program, steps, sizes, popped>>

Next == Recall \/ CostAtom \/ Descend \/ CombinePair \/ Judge

Spec == Init /\ [][Next]_vars

-----------------------------------------------------------------------------
(* Properties.                                                             *)

(* The stacks and the memo hold nodes of the program and sizes that never    *)
(* pass the ceiling, so no sum of them overflows.                            *)
TypeOK ==
  /\ IsProgram(program)
  /\ steps \in Seq([op : {"cost", "combine"}, node : DOMAIN program.node])
  /\ costed \in Seq(0..Ceiling)
  /\ DOMAIN sizes \subseteq DOMAIN program.node
  /\ \A n \in DOMAIN sizes : sizes[n] \in 0..Ceiling
  /\ popped \in Nat
  /\ verdict \in {"none", "RevealTooLarge", "expandable"}

(* The guard refuses exactly the programs whose unfolded size passes the     *)
(* limit, though it computes on the shared DAG with clamped sums: none that  *)
(* fits is refused, however heavily it shares, and none that does not is     *)
(* let through (SPEC 4a, 5a).                                                *)
RefusesExactlyTheTooLarge ==
  verdict # "none" =>
    (verdict = "RevealTooLarge" <=> Least(program.size[program.root], UsizeMax) > Limit)

(* The `expect`s of the code hold: a pair is combined only when both its     *)
(* children's sizes are on the stack, and the end finds one size there.      *)
NeverPopsAnEmptyStack ==
  /\ steps # <<>> /\ Top(steps).op = "combine" => Len(costed) >= 2
  /\ steps = <<>> /\ verdict = "none" => Len(costed) = 1

(* "Runs in time linear in the DAG": a pair is expanded once however many    *)
(* parents share it, so at most three steps per pair, and the root's, are    *)
(* ever taken.                                                               *)
WorkIsLinear == popped <= 3 * Cardinality(Pairs(program)) + 1
=============================================================================
