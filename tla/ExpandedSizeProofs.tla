-------------------------- MODULE ExpandedSizeProofs --------------------------
(***************************************************************************)
(* The size guard, for every program however large and however heavily it   *)
(* shares, every limit and every width of usize.  No induction over the     *)
(* program is needed: the unfolded sizes fall along every edge, and the     *)
(* stack of steps, read from the bottom, says how many finished sizes lie   *)
(* below each step and whose they are.                                      *)
(***************************************************************************)
EXTENDS ExpandedSize, FiniteSetTheorems, SequenceTheorems, TLAPS

-----------------------------------------------------------------------------
(* The traversal invariant.                                                *)

Nodes == DOMAIN program.node
StepSet == [op : {"cost", "combine"}, node : Nodes]

IsCombine(s, i) == s[i].op = "combine"

(* What the traversal computes of n: its unfolded size, as far as it counts. *)
Clamped(n) == Least(program.size[n], Ceiling)

(* How many finished sizes there are when step i of s is taken: each cost    *)
(* step adds one and each combine step takes one away, and the last step     *)
(* leaves one.                                                               *)
Combines(s, i) == {j \in 1..i : IsCombine(s, j)}
Height(s, i) == 1 + 2 * Cardinality(Combines(s, i)) - i

(* How many of them step i leaves alone. *)
Floor(s, i) == IF IsCombine(s, i) THEN Height(s, i) - 2 ELSE Height(s, i)

(* Two steps above i its left child is still being costed. *)
LeftPending(s, i) == i + 2 <= Len(s) /\ ~IsCombine(s, i + 1)

Left(s, i) == program.node[s[i].node].left
Right(s, i) == program.node[s[i].node].right

(* What lies above step i, the combination of a pair, is what is left to do  *)
(* of its two children; the sizes of those done are where it will pop them.  *)
ChildrenAbove(i) ==
  /\ LeftPending(steps, i) =>
       steps[i + 1].node = Right(steps, i) /\ steps[i + 2].node = Left(steps, i)
  /\ ~LeftPending(steps, i) => costed[Height(steps, i) - 1] = Clamped(Left(steps, i))
  /\ ~LeftPending(steps, i) /\ i < Len(steps) => steps[i + 1].node = Right(steps, i)
  /\ i = Len(steps) => costed[Height(steps, i)] = Clamped(Right(steps, i))

(* Each pair to combine is one still uncosted, and larger than what is above *)
(* it; its children's sizes, once done, are out of reach of what is above.   *)
CombineInv ==
  \A i \in 1..Len(steps) : IsCombine(steps, i) =>
    /\ steps[i].node \in Pairs(program) \ DOMAIN sizes
    /\ Height(steps, i) >= 2
    /\ ChildrenAbove(i)
    /\ \A j \in (i + 1)..Len(steps) :
         /\ program.size[steps[j].node] < program.size[steps[i].node]
         /\ ~LeftPending(steps, i) => Floor(steps, j) >= Height(steps, i) - 1

MemoInv == \A n \in DOMAIN sizes : sizes[n] = Clamped(n)

(* The bottom step is the root's, and the top step finds all sizes finished  *)
(* so far; when no step is left, the root's size is.                         *)
StackInv ==
  /\ steps # <<>> =>
       /\ steps[1].node = program.root
       /\ Len(costed) = Height(steps, Len(steps))
       /\ verdict = "none"
  /\ steps = <<>> /\ verdict = "none" =>
       Len(costed) = 1 /\ costed[1] = Clamped(program.root)

(* The pairs descended into, each once: three steps were pushed for each.    *)
Opened ==
  {n \in Pairs(program) :
     n \in DOMAIN sizes \/ \E i \in 1..Len(steps) : steps[i] = Combine(n)}

WorkInv == popped + Len(steps) = 3 * Cardinality(Opened) + 1

TraversalInv ==
  /\ TypeOK
  /\ CombineInv
  /\ MemoInv
  /\ StackInv
  /\ WorkInv
  /\ RefusesExactlyTheTooLarge

-----------------------------------------------------------------------------
(* Sizes.                                                                  *)

LEMMA CeilingType == Ceiling \in Nat /\ Ceiling <= UsizeMax /\ Ceiling <= Limit + 1
  BY ExpandedSizeAssumption DEF Ceiling, SaturatingAdd, Least

(* The children of a pair unfold to less than the pair: no program is cyclic.*)
LEMMA ChildrenSmaller ==
  ASSUME IsProgram(program), NEW n \in Pairs(program)
  PROVE  /\ n \in Nodes
         /\ program.node[n].left \in Nodes /\ program.node[n].right \in Nodes
         /\ program.size[n] \in Nat
         /\ program.size[program.node[n].left] \in Nat
         /\ program.size[program.node[n].right] \in Nat
         /\ program.size[n] = 65 + program.size[program.node[n].left]
                                 + program.size[program.node[n].right]
<1>1. n \in Nodes /\ IsPair(program, n)
  BY DEF Pairs, Nodes
<1>2. program.node[n].left \in Nodes /\ program.node[n].right \in Nodes
  BY DEF IsProgram, Nodes
<1>3. \A m \in Nodes : program.size[m] \in Nat /\ program.size[m] = FullSizeAt(program, m)
  BY DEF IsProgram, Nodes
<1>4. program.size[n] = PairCost + program.size[program.node[n].left]
                                 + program.size[program.node[n].right]
  BY <1>1, <1>3 DEF FullSizeAt
<1>5. QED
  BY <1>1, <1>2, <1>3, <1>4 DEF PairCost

LEMMA ClampedType ==
  ASSUME IsProgram(program), NEW n \in Nodes
  PROVE  Clamped(n) \in 0..Ceiling
<1>1. program.size[n] \in Nat
  BY DEF IsProgram, Nodes
<1>2. QED
  BY <1>1, CeilingType DEF Clamped, Least

(* Clamping each sum to the ceiling is clamping the sum of all.              *)
LEMMA ClampedAtom ==
  ASSUME IsProgram(program), NEW n \in Nodes \ Pairs(program)
  PROVE  Least(SaturatingAdd(AtomPrefix, program.node[n].len), Ceiling) = Clamped(n)
<1>1. program.node[n].len \in Nat /\ program.size[n] = 1 + program.node[n].len
  BY DEF IsProgram, Nodes, FullSizeAt, Pairs, AtomPrefix
<1>2. QED
  BY <1>1, CeilingType, ExpandedSizeAssumption
     DEF Clamped, Least, SaturatingAdd, AtomPrefix

LEMMA ClampedPair ==
  ASSUME IsProgram(program), NEW n \in Pairs(program)
  PROVE  Least(SaturatingAdd(SaturatingAdd(PairCost, Clamped(program.node[n].left)),
                             Clamped(program.node[n].right)), Ceiling) = Clamped(n)
<1> DEFINE l == program.size[program.node[n].left]
           r == program.size[program.node[n].right]
<1>1. l \in Nat /\ r \in Nat /\ program.size[n] = 65 + l + r
  BY ChildrenSmaller
<1>2. Least(SaturatingAdd(SaturatingAdd(65, Least(l, Ceiling)), Least(r, Ceiling)), Ceiling)
        = Least(65 + l + r, Ceiling)
  <2> HIDE DEF l, r
  <2>1. QED
    BY <1>1, CeilingType, ExpandedSizeAssumption DEF Least, SaturatingAdd
<1>3. QED
  BY <1>1, <1>2 DEF Clamped, PairCost

-----------------------------------------------------------------------------
(* Heights.                                                                *)

LEMMA CombinesFinite ==
  ASSUME NEW s, NEW i \in Nat
  PROVE  IsFiniteSet(Combines(s, i)) /\ Cardinality(Combines(s, i)) \in Nat
<1>1. IsFiniteSet(1..i)
  BY FS_Interval
<1>2. IsFiniteSet(Combines(s, i))
  BY <1>1, FS_Subset DEF Combines
<1>3. QED
  BY <1>2, FS_CardinalityType

LEMMA HeightType ==
  ASSUME NEW s, NEW i \in Nat
  PROVE  Height(s, i) \in Int /\ Floor(s, i) \in Int
  BY CombinesFinite DEF Height, Floor

LEMMA HeightOfNext ==
  ASSUME NEW s, NEW i \in Nat
  PROVE  /\ IsCombine(s, i + 1) => Height(s, i + 1) = Height(s, i) + 1
         /\ ~IsCombine(s, i + 1) => Height(s, i + 1) = Height(s, i) - 1
<1>1. 1..(i + 1) = (1..i) \cup {i + 1} /\ i + 1 \notin 1..i
  OBVIOUS
<1>2. CASE IsCombine(s, i + 1)
  <2>1. Combines(s, i + 1) = Combines(s, i) \cup {i + 1} /\ i + 1 \notin Combines(s, i)
    BY <1>1, <1>2 DEF Combines
  <2>2. Cardinality(Combines(s, i + 1)) = Cardinality(Combines(s, i)) + 1
    BY <2>1, CombinesFinite, FS_AddElement
  <2>3. QED
    BY <1>2, <2>2, CombinesFinite DEF Height
<1>3. CASE ~IsCombine(s, i + 1)
  <2>1. Combines(s, i + 1) = Combines(s, i)
    BY <1>1, <1>3 DEF Combines
  <2>2. QED
    BY <1>3, <2>1, CombinesFinite DEF Height
<1>4. QED
  BY <1>2, <1>3

LEMMA HeightOfFirst ==
  ASSUME NEW s
  PROVE  /\ IsCombine(s, 1) => Height(s, 1) = 2
         /\ ~IsCombine(s, 1) => Height(s, 1) = 0
<1>1. Combines(s, 0) = {}
  BY DEF Combines
<1>2. Height(s, 0) = 1
  BY <1>1, FS_EmptySet DEF Height
<1>3. QED
  BY <1>2, HeightOfNext

(* Heights are read from the bottom: what is above a step does not matter.   *)
LEMMA HeightOfPrefix ==
  ASSUME NEW s, NEW t, NEW i \in Nat, \A j \in 1..i : s[j] = t[j], i > 0
  PROVE  /\ Height(s, i) = Height(t, i)
         /\ Floor(s, i) = Floor(t, i)
         /\ IsCombine(s, i) = IsCombine(t, i)
<1>1. Combines(s, i) = Combines(t, i)
  BY DEF Combines, IsCombine
<1>2. QED
  BY <1>1 DEF Height, Floor, IsCombine

-----------------------------------------------------------------------------
(* The two stacks.                                                         *)

LEMMA BelowProperties ==
  ASSUME NEW S, NEW s \in Seq(S), NEW k \in 0..Len(s)
  PROVE  /\ Below(s, k) \in Seq(S)
         /\ Len(Below(s, k)) = Len(s) - k
         /\ \A i \in 1..(Len(s) - k) : Below(s, k)[i] = s[i]
<1>1. Len(s) \in Nat
  BY LenProperties
<1>2. \A i \in 1..(Len(s) - k) : s[i] \in S
  BY <1>1, ElementOfSeq
<1>3. QED
  BY <1>1, <1>2, SubSeqProperties DEF Below

LEMMA TopProperties ==
  ASSUME NEW S, NEW s \in Seq(S), s # <<>>
  PROVE  Len(s) \in Nat \ {0} /\ Top(s) = s[Len(s)] /\ Top(s) \in S
<1>1. Len(s) \in Nat \ {0}
  BY EmptySeq
<1>2. QED
  BY <1>1, ElementOfSeq DEF Top

(* The parts of the invariant that TypeOK gives the proofs below.            *)
LEMMA StackTypes ==
  ASSUME TypeOK
  PROVE  /\ IsProgram(program)
         /\ steps \in Seq(StepSet)
         /\ costed \in Seq(0..Ceiling)
         /\ DOMAIN sizes \subseteq Nodes
         /\ \A i \in 1..Len(steps) :
              /\ steps[i].node \in Nodes
              /\ program.size[steps[i].node] \in Nat
              /\ steps[i].op \in {"cost", "combine"}
              /\ steps[i] = [op |-> steps[i].op, node |-> steps[i].node]
<1>1. steps \in Seq(StepSet) /\ costed \in Seq(0..Ceiling) /\ IsProgram(program)
      /\ DOMAIN sizes \subseteq Nodes
  BY DEF TypeOK, StepSet, Nodes
<1>2. \A i \in 1..Len(steps) : steps[i] \in StepSet
  BY <1>1, ElementOfSeq
<1>3. \A n \in Nodes : program.size[n] \in Nat
  BY <1>1 DEF IsProgram, Nodes
<1>4. QED
  BY <1>1, <1>2, <1>3 DEF StepSet

(* What taking the top step leaves: every step below it as it was, with the  *)
(* left child of the pair two below, if it is one, no longer pending.        *)
LEMMA TopTaken ==
  ASSUME TypeOK, steps # <<>>, steps' = Below(steps, 1)
  PROVE  /\ Len(steps) \in Nat \ {0}
         /\ steps' \in Seq(StepSet)
         /\ Len(steps') = Len(steps) - 1
         /\ steps' # <<>> <=> Len(steps) > 1
         /\ \A i \in 1..Len(steps') :
              /\ steps'[i] = steps[i]
              /\ Height(steps', i) = Height(steps, i)
              /\ Floor(steps', i) = Floor(steps, i)
              /\ IsCombine(steps', i) = IsCombine(steps, i)
              /\ LeftPending(steps', i) <=> LeftPending(steps, i) /\ i + 2 < Len(steps)
<1>1. Len(steps) \in Nat \ {0} /\ steps \in Seq(StepSet)
  BY StackTypes, TopProperties
<1>2. /\ steps' \in Seq(StepSet) /\ Len(steps') = Len(steps) - 1
      /\ \A i \in 1..Len(steps') : steps'[i] = steps[i]
  <2>1. 1 \in 0..Len(steps)
    BY <1>1
  <2>2. /\ Below(steps, 1) \in Seq(StepSet)
        /\ Len(Below(steps, 1)) = Len(steps) - 1
        /\ \A i \in 1..(Len(steps) - 1) : Below(steps, 1)[i] = steps[i]
    BY <1>1, <2>1, BelowProperties
  <2>3. QED
    BY <2>2
<1>3. steps' # <<>> <=> Len(steps) > 1
  BY <1>1, <1>2, EmptySeq
<1>4. ASSUME NEW i \in 1..Len(steps')
      PROVE  /\ Height(steps', i) = Height(steps, i)
             /\ Floor(steps', i) = Floor(steps, i)
             /\ IsCombine(steps', i) = IsCombine(steps, i)
  BY <1>1, <1>2, HeightOfPrefix
<1>5. ASSUME NEW i \in 1..Len(steps')
      PROVE  LeftPending(steps', i) <=> LeftPending(steps, i) /\ i + 2 < Len(steps)
  BY <1>1, <1>2 DEF LeftPending, IsCombine
<1>6. QED
  BY <1>1, <1>2, <1>3, <1>4, <1>5

LEMMA FloorOfNext ==
  ASSUME NEW s, NEW i \in Nat
  PROVE  Floor(s, i + 1) = Height(s, i) - 1
  BY HeightOfNext, HeightType DEF Floor

LEMMA FloorOfFirst ==
  ASSUME NEW s
  PROVE  Floor(s, 1) = 0
  BY HeightOfFirst DEF Floor

(* A step that is done leaves one more finished size than it left alone, the *)
(* one of its node.                                                          *)
LEMMA StepDone ==
  ASSUME TypeOK, CombineInv, StackInv, steps # <<>>,
         steps' = Below(steps, 1),
         Len(costed') = Floor(steps, Len(steps)) + 1,
         \A h \in 1..Floor(steps, Len(steps)) : costed'[h] = costed[h],
         costed'[Floor(steps, Len(steps)) + 1] = Clamped(Top(steps).node),
         UNCHANGED <<program, verdict>>,
         \A i \in 1..(Len(steps) - 1) :
           IsCombine(steps, i) => steps[i].node \notin DOMAIN sizes'
  PROVE  CombineInv' /\ StackInv'
<1> DEFINE k == Len(steps)
           low == Floor(steps, k)
<1>1. /\ k \in Nat \ {0}
      /\ Len(steps') = k - 1
      /\ steps' # <<>> <=> k > 1
      /\ \A i \in 1..(k - 1) :
           /\ steps'[i] = steps[i]
           /\ Height(steps', i) = Height(steps, i)
           /\ Floor(steps', i) = Floor(steps, i)
           /\ IsCombine(steps', i) = IsCombine(steps, i)
           /\ LeftPending(steps', i) <=> LeftPending(steps, i) /\ i + 2 < k
  BY TopTaken
<1>2. low \in Int /\ \A i \in 1..k : Height(steps, i) \in Int /\ Floor(steps, i) \in Int
  BY <1>1, HeightType
<1>3. \A i \in 1..(k - 1) : Floor(steps, i + 1) = Height(steps, i) - 1
  BY <1>1, FloorOfNext
<1>4. costed'[low + 1] = Clamped(steps[k].node)
  BY DEF Top
<1>5. ASSUME NEW i \in 1..Len(steps'), IsCombine(steps', i)
      PROVE  /\ steps'[i].node \in Pairs(program') \ DOMAIN sizes'
             /\ Height(steps', i) >= 2
             /\ ChildrenAbove(i)'
             /\ \A j \in (i + 1)..Len(steps') :
                  /\ program'.size[steps'[j].node] < program'.size[steps'[i].node]
                  /\ ~LeftPending(steps', i) => Floor(steps', j) >= Height(steps', i) - 1
  <2>1. /\ i \in 1..(k - 1) /\ i \in 1..k /\ k \in (i + 1)..k
        /\ IsCombine(steps, i)
        /\ steps'[i] = steps[i]
        /\ Height(steps', i) = Height(steps, i)
    BY <1>1, <1>5
  <2>2. /\ steps[i].node \in Pairs(program) \ DOMAIN sizes
        /\ Height(steps, i) >= 2
        /\ ChildrenAbove(i)
        /\ \A j \in (i + 1)..k :
             /\ program.size[steps[j].node] < program.size[steps[i].node]
             /\ ~LeftPending(steps, i) => Floor(steps, j) >= Height(steps, i) - 1
    BY <2>1 DEF CombineInv
  <2>3. /\ steps'[i].node \in Pairs(program') \ DOMAIN sizes'
        /\ Height(steps', i) >= 2
        /\ \A j \in (i + 1)..Len(steps') :
             program'.size[steps'[j].node] < program'.size[steps'[i].node]
    <3>1. steps[i].node \notin DOMAIN sizes'
      BY <2>1
    <3>2. ASSUME NEW j \in (i + 1)..Len(steps')
          PROVE  program.size[steps'[j].node] < program.size[steps'[i].node]
      <4>1. j \in 1..(k - 1) /\ j \in (i + 1)..k
        BY <1>1, <2>1
      <4>2. QED
        BY <1>1, <2>1, <2>2, <4>1
    <3>3. QED
      BY <2>1, <2>2, <3>1, <3>2
  <2>4. CASE i + 1 = k
    <3>1. ~LeftPending(steps, i) /\ ~LeftPending(steps', i)
      BY <1>1, <2>1, <2>4 DEF LeftPending
    <3>2. low = Height(steps, i) - 1 /\ low \in Nat
      BY <1>2, <1>3, <2>1, <2>2, <2>4
    <3>3. /\ costed[Height(steps, i) - 1] = Clamped(Left(steps, i))
          /\ steps[k].node = Right(steps, i)
      BY <1>1, <2>1, <2>2, <2>4, <3>1 DEF ChildrenAbove
    <3>4. costed'[Height(steps, i) - 1] = Clamped(Left(steps, i))
      <4>1. low \in 1..low
        BY <1>2, <2>1, <2>2, <3>2
      <4>2. QED
        BY <3>2, <3>3, <4>1
    <3>5. costed'[Height(steps, i)] = Clamped(Right(steps, i))
      <4>1. Height(steps, i) = low + 1
        BY <1>2, <2>1, <3>2
      <4>2. QED
        BY <1>4, <3>3, <4>1
    <3>6. ChildrenAbove(i)'
      BY <1>1, <2>1, <2>4, <3>1, <3>4, <3>5 DEF ChildrenAbove, Left, Right, Clamped
    <3>7. (i + 1)..Len(steps') = {}
      BY <1>1, <2>1, <2>4
    <3>8. QED
      BY <2>3, <3>6, <3>7
  <2>5. CASE LeftPending(steps, i) /\ i + 2 = k
    <3>1. /\ ~LeftPending(steps', i)
          /\ ~IsCombine(steps, i + 1)
          /\ i + 1 \in 1..(k - 1)
          /\ (i + 1) + 1 = k
      BY <1>1, <2>1, <2>5 DEF LeftPending
    <3>2. low = Height(steps, i + 1) - 1
      BY <1>3, <3>1
    <3>3. Floor(steps, i + 1) = Height(steps, i) - 1 /\ Height(steps, i + 1) = Height(steps, i) - 1
      BY <1>3, <2>1, <3>1 DEF Floor
    <3>4. steps[i + 1].node = Right(steps, i) /\ steps[k].node = Left(steps, i)
      BY <2>2, <2>5 DEF ChildrenAbove
    <3>5. costed'[Height(steps, i) - 1] = Clamped(Left(steps, i))
      BY <1>2, <1>4, <2>1, <3>2, <3>3, <3>4
    <3>6. ChildrenAbove(i)'
      BY <1>1, <2>1, <2>5, <3>1, <3>4, <3>5 DEF ChildrenAbove, Left, Right, Clamped
    <3>7. \A j \in (i + 1)..Len(steps') : Floor(steps', j) >= Height(steps', i) - 1
      BY <1>1, <1>2, <2>1, <2>5, <3>1, <3>3
    <3>8. QED
      BY <2>3, <3>6, <3>7
  <2>6. CASE i + 1 < k /\ ~(LeftPending(steps, i) /\ i + 2 = k)
    <3>1. /\ LeftPending(steps', i) <=> LeftPending(steps, i)
          /\ LeftPending(steps, i) => i + 2 \in 1..(k - 1)
          /\ i + 1 \in 1..(k - 1)
      BY <1>1, <2>1, <2>6 DEF LeftPending
    <3>2. ~LeftPending(steps, i) =>
            Height(steps, i) - 1 \in 1..low
      BY <1>1, <1>2, <2>1, <2>2
    <3>3. ChildrenAbove(i)'
      BY <1>1, <2>1, <2>2, <2>6, <3>1, <3>2 DEF ChildrenAbove, Left, Right, Clamped
    <3>4. ASSUME NEW j \in (i + 1)..Len(steps'), ~LeftPending(steps', i)
          PROVE  Floor(steps', j) >= Height(steps', i) - 1
      <4>1. j \in 1..(k - 1) /\ j \in (i + 1)..k
        BY <1>1, <2>1
      <4>2. QED
        BY <1>1, <2>1, <2>2, <3>1, <3>4, <4>1
    <3>5. QED
      BY <2>3, <3>3, <3>4
  <2>7. QED
    BY <1>1, <2>1, <2>4, <2>5, <2>6
<1>6. CombineInv'
  BY <1>5 DEF CombineInv
<1>7. StackInv'
  <2>1. steps[1].node = program.root /\ verdict = "none"
    BY DEF StackInv
  <2>2. CASE k = 1
    <3>1. low = 0
      BY <2>2, FloorOfFirst
    <3>2. Len(costed') = 1 /\ costed'[1] = Clamped(program.root)
      BY <1>4, <2>1, <2>2, <3>1
    <3>3. steps' = <<>> /\ Clamped(program.root)' = Clamped(program.root)
      BY <1>1, <2>2 DEF Clamped
    <3>4. QED
      BY <3>2, <3>3 DEF StackInv
  <2>3. CASE k > 1
    <3>1. k - 1 \in 1..(k - 1) /\ (k - 1) + 1 = k /\ 1 \in 1..(k - 1)
      BY <1>1, <2>3
    <3>2. low + 1 = Height(steps, k - 1)
      BY <1>2, <1>3, <3>1
    <3>3. /\ Len(costed') = Height(steps', Len(steps'))
          /\ steps'[1].node = program'.root
      BY <1>1, <2>1, <3>1, <3>2
    <3>4. QED
      BY <1>1, <2>1, <2>3, <3>3 DEF StackInv
  <2>4. QED
    BY <1>1, <2>2, <2>3
<1>8. QED
  BY <1>6, <1>7

(* A size pushed, and one that replaces the two on top.                      *)
LEMMA SizePushed ==
  ASSUME TypeOK, NEW m \in 0..Len(costed), NEW x \in 0..Ceiling,
         costed' = Append(Below(costed, m), x)
  PROVE  /\ costed' \in Seq(0..Ceiling)
         /\ Len(costed') = Len(costed) - m + 1
         /\ \A h \in 1..(Len(costed) - m) : costed'[h] = costed[h]
         /\ costed'[Len(costed) - m + 1] = x
<1>1. costed \in Seq(0..Ceiling) /\ Len(costed) \in Nat
  BY StackTypes, LenProperties
<1>2. /\ Below(costed, m) \in Seq(0..Ceiling)
      /\ Len(Below(costed, m)) = Len(costed) - m
      /\ \A h \in 1..(Len(costed) - m) : Below(costed, m)[h] = costed[h]
  BY <1>1, BelowProperties
<1>3. /\ Append(Below(costed, m), x) \in Seq(0..Ceiling)
      /\ Len(Append(Below(costed, m), x)) = Len(costed) - m + 1
      /\ \A h \in 1..(Len(costed) - m) : Append(Below(costed, m), x)[h] = Below(costed, m)[h]
      /\ Append(Below(costed, m), x)[Len(costed) - m + 1] = x
  BY <1>1, <1>2, AppendProperties
<1>4. QED
  BY <1>2, <1>3

LEMMA BelowNone ==
  ASSUME TypeOK
  PROVE  Below(costed, 0) = costed /\ 0 \in 0..Len(costed)
<1>1. costed \in Seq(0..Ceiling) /\ Len(costed) \in Nat
  BY StackTypes, LenProperties
<1>2. 0 \in 0..Len(costed)
  BY <1>1
<1>3. /\ Below(costed, 0) \in Seq(0..Ceiling)
      /\ Len(Below(costed, 0)) = Len(costed)
      /\ \A h \in 1..Len(costed) : Below(costed, 0)[h] = costed[h]
  BY <1>1, <1>2, BelowProperties
<1>4. QED
  BY <1>1, <1>2, <1>3, SeqEqual

(* The top step, as TypeOK and the heights describe it.                      *)
LEMMA TopStep ==
  ASSUME TypeOK, CombineInv, StackInv, steps # <<>>
  PROVE  /\ Len(steps) \in Nat \ {0}
         /\ Len(costed) \in Nat
         /\ Top(steps) = steps[Len(steps)]
         /\ Top(steps).node \in Nodes
         /\ Top(steps).op = "cost" => Floor(steps, Len(steps)) = Len(costed)
         /\ Top(steps).op = "combine" =>
              /\ Floor(steps, Len(steps)) = Len(costed) - 2
              /\ Len(costed) >= 2
              /\ Top(steps).node \in Pairs(program) \ DOMAIN sizes
              /\ costed[Len(costed) - 1] = Clamped(program.node[Top(steps).node].left)
              /\ costed[Len(costed)] = Clamped(program.node[Top(steps).node].right)
<1> DEFINE k == Len(steps)
<1>1. k \in Nat \ {0} /\ k \in 1..k /\ Top(steps) = steps[k] /\ Len(costed) \in Nat
  <2>1. k \in Nat \ {0} /\ Top(steps) = steps[k]
    BY StackTypes, TopProperties
  <2>2. Len(costed) \in Nat
    BY StackTypes, LenProperties
  <2>3. QED
    BY <2>1, <2>2
<1>2. Top(steps).node \in Nodes
  BY <1>1, StackTypes
<1>3. Height(steps, k) = Len(costed)
  BY DEF StackInv
<1>4. Top(steps).op = "cost" => Floor(steps, k) = Len(costed)
  BY <1>1, <1>3 DEF Floor, IsCombine
<1>5. ASSUME Top(steps).op = "combine"
      PROVE  /\ Floor(steps, k) = Len(costed) - 2
             /\ Len(costed) >= 2
             /\ Top(steps).node \in Pairs(program) \ DOMAIN sizes
             /\ costed[Len(costed) - 1] = Clamped(program.node[Top(steps).node].left)
             /\ costed[Len(costed)] = Clamped(program.node[Top(steps).node].right)
  <2>1. IsCombine(steps, k) /\ ~LeftPending(steps, k)
    BY <1>1, <1>5 DEF IsCombine, LeftPending
  <2>2. /\ steps[k].node \in Pairs(program) \ DOMAIN sizes
        /\ Height(steps, k) >= 2
        /\ ChildrenAbove(k)
    BY <1>1, <2>1 DEF CombineInv
  <2>3. /\ costed[Len(costed) - 1] = Clamped(Left(steps, k))
        /\ costed[Len(costed)] = Clamped(Right(steps, k))
    BY <1>3, <2>1, <2>2 DEF ChildrenAbove
  <2>4. QED
    BY <1>1, <1>3, <2>1, <2>2, <2>3 DEF Floor, Left, Right
<1>6. QED
  BY <1>1, <1>2, <1>4, <1>5

-----------------------------------------------------------------------------
(* The steps of the traversal.                                             *)

LEMMA MemoGrows ==
  ASSUME TypeOK, MemoInv, NEW n \in Nodes, UNCHANGED program,
         sizes' = Memo(n, Clamped(n))
  PROVE  /\ MemoInv'
         /\ DOMAIN sizes' = DOMAIN sizes \cup {n}
         /\ DOMAIN sizes' \subseteq DOMAIN program'.node
         /\ \A m \in DOMAIN sizes' : sizes'[m] \in 0..Ceiling
<1>1. /\ DOMAIN sizes' = DOMAIN sizes \cup {n}
      /\ \A m \in DOMAIN sizes' : sizes'[m] = IF m = n THEN Clamped(n) ELSE sizes[m]
  BY DEF Memo
<1>2. Clamped(n) \in 0..Ceiling
  BY ClampedType, StackTypes
<1>3. \A m \in DOMAIN sizes : sizes[m] \in 0..Ceiling
  BY DEF TypeOK
<1>4. MemoInv'
  BY <1>1 DEF MemoInv, Clamped
<1>5. DOMAIN sizes' \subseteq DOMAIN program'.node
  BY <1>1, StackTypes DEF Nodes
<1>6. QED
  BY <1>1, <1>2, <1>3, <1>4, <1>5

LEMMA RecallStep ==
  ASSUME TypeOK, CombineInv, MemoInv, StackInv, Recall
  PROVE  TypeOK' /\ CombineInv' /\ MemoInv' /\ StackInv'
<1> DEFINE n == Top(steps).node
<1>1. /\ steps # <<>> /\ Top(steps).op = "cost" /\ n \in DOMAIN sizes
      /\ steps' = Below(steps, 1)
      /\ costed' = Append(costed, sizes[n])
      /\ popped' = popped + 1
      /\ UNCHANGED <<program, verdict>> /\ UNCHANGED sizes
  BY DEF Recall, Pops
<1>2. Len(costed) \in Nat /\ Floor(steps, Len(steps)) = Len(costed)
  BY <1>1, TopStep
<1>3. sizes[n] = Clamped(n) /\ sizes[n] \in 0..Ceiling
  BY <1>1 DEF MemoInv, TypeOK
<1>4. /\ costed' \in Seq(0..Ceiling)
      /\ Len(costed') = Len(costed) + 1
      /\ \A h \in 1..Len(costed) : costed'[h] = costed[h]
      /\ costed'[Len(costed) + 1] = Clamped(n)
  <2>1. costed' = Append(Below(costed, 0), sizes[n]) /\ 0 \in 0..Len(costed)
    BY <1>1, BelowNone
  <2>2. /\ costed' \in Seq(0..Ceiling)
        /\ Len(costed') = Len(costed) - 0 + 1
        /\ \A h \in 1..(Len(costed) - 0) : costed'[h] = costed[h]
        /\ costed'[Len(costed) - 0 + 1] = sizes[n]
    BY <1>3, <2>1, SizePushed
  <2>3. QED
    BY <1>2, <1>3, <2>2
<1>5. TypeOK'
  <2>1. steps' \in Seq(StepSet)
    BY <1>1, TopTaken
  <2>2. QED
    BY <1>1, <1>4, <2>1 DEF TypeOK, StepSet, Nodes
<1>6. MemoInv'
  BY <1>1 DEF MemoInv, Clamped
<1>7. CombineInv' /\ StackInv'
  <2>1. \A i \in 1..(Len(steps) - 1) :
           IsCombine(steps, i) => steps[i].node \notin DOMAIN sizes'
    BY <1>1, TopStep DEF CombineInv
  <2>2. QED
    BY <1>1, <1>2, <1>4, <2>1, StepDone
<1>8. QED
  BY <1>5, <1>6, <1>7

LEMMA CostAtomStep ==
  ASSUME TypeOK, CombineInv, MemoInv, StackInv, CostAtom
  PROVE  TypeOK' /\ CombineInv' /\ MemoInv' /\ StackInv'
<1> DEFINE n == Top(steps).node
           size == Least(SaturatingAdd(AtomPrefix, program.node[n].len), Ceiling)
<1>1. /\ steps # <<>> /\ Top(steps).op = "cost" /\ ~IsPair(program, n)
      /\ steps' = Below(steps, 1)
      /\ costed' = Append(costed, size)
      /\ sizes' = Memo(n, size)
      /\ popped' = popped + 1
      /\ UNCHANGED <<program, verdict>>
  BY DEF CostAtom, Pops
<1>2. Len(costed) \in Nat /\ Floor(steps, Len(steps)) = Len(costed) /\ n \in Nodes
  BY <1>1, TopStep
<1>3. size = Clamped(n) /\ size \in 0..Ceiling
  <2>1. n \in Nodes \ Pairs(program) /\ IsProgram(program)
    BY <1>1, <1>2, StackTypes DEF Pairs
  <2>2. QED
    BY <2>1, ClampedAtom, ClampedType
<1> HIDE DEF size
<1>4. /\ costed' \in Seq(0..Ceiling)
      /\ Len(costed') = Len(costed) + 1
      /\ \A h \in 1..Len(costed) : costed'[h] = costed[h]
      /\ costed'[Len(costed) + 1] = Clamped(n)
  <2>1. costed' = Append(Below(costed, 0), size) /\ 0 \in 0..Len(costed)
    BY <1>1, BelowNone
  <2>2. /\ costed' \in Seq(0..Ceiling)
        /\ Len(costed') = Len(costed) - 0 + 1
        /\ \A h \in 1..(Len(costed) - 0) : costed'[h] = costed[h]
        /\ costed'[Len(costed) - 0 + 1] = size
    BY <1>3, <2>1, SizePushed
  <2>3. QED
    BY <1>2, <1>3, <2>2
<1>5. /\ MemoInv'
      /\ DOMAIN sizes' = DOMAIN sizes \cup {n}
      /\ DOMAIN sizes' \subseteq DOMAIN program'.node
      /\ \A m \in DOMAIN sizes' : sizes'[m] \in 0..Ceiling
  BY <1>1, <1>2, <1>3, MemoGrows
<1>6. TypeOK'
  <2>1. steps' \in Seq(StepSet)
    BY <1>1, TopTaken
  <2>2. QED
    BY <1>1, <1>4, <1>5, <2>1 DEF TypeOK, StepSet, Nodes
<1>7. CombineInv' /\ StackInv'
  <2>1. \A i \in 1..(Len(steps) - 1) :
           IsCombine(steps, i) => steps[i].node \notin DOMAIN sizes'
    BY <1>1, <1>5, TopStep DEF CombineInv, Pairs
  <2>2. QED
    BY <1>1, <1>2, <1>4, <2>1, StepDone
<1>8. QED
  BY <1>5, <1>6, <1>7

LEMMA CombinePairStep ==
  ASSUME TypeOK, CombineInv, MemoInv, StackInv, CombinePair
  PROVE  TypeOK' /\ CombineInv' /\ MemoInv' /\ StackInv'
<1> DEFINE n == Top(steps).node
           size == Least(SaturatingAdd(SaturatingAdd(PairCost, costed[Len(costed) - 1]),
                                       costed[Len(costed)]), Ceiling)
<1>1. /\ steps # <<>> /\ Top(steps).op = "combine"
      /\ steps' = Below(steps, 1)
      /\ costed' = Append(Below(costed, 2), size)
      /\ sizes' = Memo(n, size)
      /\ popped' = popped + 1
      /\ UNCHANGED <<program, verdict>>
  BY DEF CombinePair, Pops
<1>2. /\ Len(costed) \in Nat /\ Len(costed) >= 2
      /\ Floor(steps, Len(steps)) = Len(costed) - 2
      /\ n \in Nodes /\ n \in Pairs(program)
      /\ costed[Len(costed) - 1] = Clamped(program.node[n].left)
      /\ costed[Len(costed)] = Clamped(program.node[n].right)
  BY <1>1, TopStep
<1>3. size = Clamped(n) /\ size \in 0..Ceiling
  <2>1. IsProgram(program)
    BY StackTypes
  <2>2. QED
    BY <1>2, <2>1, ClampedPair, ClampedType
<1> HIDE DEF size
<1>4. /\ costed' \in Seq(0..Ceiling)
      /\ Len(costed') = (Len(costed) - 2) + 1
      /\ \A h \in 1..(Len(costed) - 2) : costed'[h] = costed[h]
      /\ costed'[(Len(costed) - 2) + 1] = Clamped(n)
  <2>1. 2 \in 0..Len(costed)
    BY <1>2
  <2>2. QED
    BY <1>1, <1>3, <2>1, SizePushed
<1>5. /\ MemoInv'
      /\ DOMAIN sizes' = DOMAIN sizes \cup {n}
      /\ DOMAIN sizes' \subseteq DOMAIN program'.node
      /\ \A m \in DOMAIN sizes' : sizes'[m] \in 0..Ceiling
  BY <1>1, <1>2, <1>3, MemoGrows
<1>6. TypeOK'
  <2>1. steps' \in Seq(StepSet)
    BY <1>1, TopTaken
  <2>2. QED
    BY <1>1, <1>4, <1>5, <2>1 DEF TypeOK, StepSet, Nodes
<1>7. CombineInv' /\ StackInv'
  <2>1. ASSUME NEW i \in 1..(Len(steps) - 1), IsCombine(steps, i)
        PROVE  steps[i].node \notin DOMAIN sizes'
    <3>1. /\ i \in 1..Len(steps) /\ Len(steps) \in (i + 1)..Len(steps)
          /\ n = steps[Len(steps)].node /\ Len(steps) \in 1..Len(steps)
      BY <1>1, TopStep
    <3>2. /\ steps[i].node \notin DOMAIN sizes
          /\ program.size[n] < program.size[steps[i].node]
      BY <2>1, <3>1 DEF CombineInv
    <3>3. program.size[n] \in Nat
      BY <3>1, StackTypes
    <3>4. steps[i].node # n
      BY <3>2, <3>3
    <3>5. QED
      BY <1>5, <3>2, <3>4
  <2>2. QED
    BY <1>1, <1>2, <1>4, <2>1, StepDone
<1>8. QED
  BY <1>5, <1>6, <1>7

(* What descending into a pair leaves: the steps below as they were, and the *)
(* combination and the costs of the two children above them.                 *)
LEMMA Descended ==
  ASSUME TypeOK, CombineInv, StackInv, Descend
  PROVE  LET k == Len(steps)
             n == Top(steps).node
         IN  /\ k \in Nat \ {0}
             /\ Len(costed) \in Nat
             /\ n \in Pairs(program) /\ n \notin DOMAIN sizes /\ n = steps[k].node
             /\ ~IsCombine(steps, k)
             /\ Floor(steps, k) = Len(costed)
             /\ steps' \in Seq(StepSet)
             /\ Len(steps') = k + 2
             /\ \A i \in 1..(k - 1) : steps'[i] = steps[i]
             /\ steps'[k] = Combine(n)
             /\ steps'[k + 1] = Cost(program.node[n].right)
             /\ steps'[k + 2] = Cost(program.node[n].left)
             /\ popped' = popped + 1
             /\ UNCHANGED <<program, costed, sizes, verdict>>
<1> DEFINE k == Len(steps)
           n == Top(steps).node
           above == <<Combine(n), Cost(program.node[n].right), Cost(program.node[n].left)>>
<1>1. /\ steps # <<>> /\ Top(steps).op = "cost" /\ n \notin DOMAIN sizes
      /\ IsPair(program, n)
      /\ steps' = Below(steps, 1) \o above
      /\ popped' = popped + 1
      /\ UNCHANGED <<program, costed, sizes, verdict>>
  BY DEF Descend, Pops
<1>2. /\ k \in Nat \ {0} /\ Len(costed) \in Nat /\ Top(steps) = steps[k] /\ n \in Nodes
      /\ Floor(steps, k) = Len(costed)
  BY <1>1, TopStep
<1>3. n \in Pairs(program) /\ ~IsCombine(steps, k)
  BY <1>1, <1>2 DEF Pairs, Nodes, IsCombine
<1>4. program.node[n].left \in Nodes /\ program.node[n].right \in Nodes
  BY <1>3, StackTypes, ChildrenSmaller
<1>5. above \in Seq(StepSet) /\ Len(above) = 3
  BY <1>2, <1>4 DEF StepSet, Combine, Cost
<1>6. /\ Below(steps, 1) \in Seq(StepSet)
      /\ Len(Below(steps, 1)) = k - 1
      /\ \A i \in 1..(k - 1) : Below(steps, 1)[i] = steps[i]
  <2>1. steps \in Seq(StepSet) /\ 1 \in 0..k
    BY <1>2, StackTypes
  <2>2. QED
    BY <2>1, BelowProperties
<1>7. /\ steps' \in Seq(StepSet)
      /\ Len(steps') = (k - 1) + 3
      /\ \A i \in 1..((k - 1) + 3) :
           steps'[i] = IF i <= k - 1 THEN Below(steps, 1)[i] ELSE above[i - (k - 1)]
  BY <1>1, <1>5, <1>6, ConcatProperties
<1>8. /\ Len(steps') = k + 2
      /\ \A i \in 1..(k - 1) : steps'[i] = steps[i]
      /\ steps'[k] = above[1]
      /\ steps'[k + 1] = above[2]
      /\ steps'[k + 2] = above[3]
  <2> HIDE DEF above
  <2>1. /\ Len(steps') = k + 2
        /\ \A i \in 1..(k - 1) : steps'[i] = steps[i]
    BY <1>2, <1>6, <1>7
  <2>2. /\ steps'[k] = above[k - (k - 1)]
        /\ steps'[k + 1] = above[(k + 1) - (k - 1)]
        /\ steps'[k + 2] = above[(k + 2) - (k - 1)]
    BY <1>2, <1>7
  <2>3. k - (k - 1) = 1 /\ (k + 1) - (k - 1) = 2 /\ (k + 2) - (k - 1) = 3
    BY <1>2
  <2>4. QED
    BY <2>1, <2>2, <2>3
<1>9. above[1] = Combine(n) /\ above[2] = Cost(program.node[n].right)
      /\ above[3] = Cost(program.node[n].left)
  OBVIOUS
<1>10. QED
  BY <1>1, <1>2, <1>3, <1>7, <1>8, <1>9

LEMMA HeightsDescended ==
  ASSUME TypeOK, CombineInv, StackInv, Descend
  PROVE  LET k == Len(steps) IN
         /\ \A i \in 1..(k - 1) : /\ Height(steps', i) = Height(steps, i)
                                  /\ Floor(steps', i) = Floor(steps, i)
                                  /\ IsCombine(steps', i) = IsCombine(steps, i)
                                  /\ LeftPending(steps', i) <=> LeftPending(steps, i)
         /\ IsCombine(steps', k) /\ ~IsCombine(steps', k + 1) /\ ~IsCombine(steps', k + 2)
         /\ Height(steps', k) = Len(costed) + 2 /\ Floor(steps', k) = Len(costed)
         /\ Floor(steps', k + 1) = Len(costed) + 1
         /\ Height(steps', k + 2) = Len(costed) /\ Floor(steps', k + 2) = Len(costed)
         /\ LeftPending(steps', k)
<1> DEFINE k == Len(steps)
<1>1. /\ k \in Nat \ {0}
      /\ Len(costed) \in Nat
      /\ ~IsCombine(steps, k)
      /\ Floor(steps, k) = Len(costed)
      /\ Len(steps') = k + 2
      /\ \A i \in 1..(k - 1) : steps'[i] = steps[i]
      /\ steps'[k].op = "combine" /\ steps'[k + 1].op = "cost" /\ steps'[k + 2].op = "cost"
  BY Descended DEF Combine, Cost
<1>2. IsCombine(steps', k) /\ ~IsCombine(steps', k + 1) /\ ~IsCombine(steps', k + 2)
  BY <1>1 DEF IsCombine
<1>3. Height(steps', k - 1) = Height(steps, k - 1)
  <2>1. Combines(steps', k - 1) = Combines(steps, k - 1)
    BY <1>1 DEF Combines, IsCombine
  <2>2. QED
    BY <2>1 DEF Height
<1>4. Height(steps, k - 1) = Len(costed) + 1
  <2>1. (k - 1) + 1 = k /\ k - 1 \in Nat
    BY <1>1
  <2>2. Floor(steps, k) = Height(steps, k - 1) - 1 /\ Height(steps, k - 1) \in Int
    BY <2>1, FloorOfNext, HeightType
  <2>3. QED
    BY <1>1, <2>2
<1>5. Height(steps', k) = Len(costed) + 2
  <2>1. (k - 1) + 1 = k /\ k - 1 \in Nat
    BY <1>1
  <2>2. Height(steps', k) = Height(steps', k - 1) + 1
    BY <1>2, <2>1, HeightOfNext
  <2>3. QED
    BY <1>1, <1>3, <1>4, <2>2
<1>6. Height(steps', k + 1) = Len(costed) + 1
  <2>1. Height(steps', k + 1) = Height(steps', k) - 1
    BY <1>1, <1>2, HeightOfNext
  <2>2. QED
    BY <1>1, <1>5, <2>1
<1>7. Height(steps', k + 2) = Len(costed)
  <2>1. k + 1 \in Nat /\ (k + 1) + 1 = k + 2
    BY <1>1
  <2>2. Height(steps', k + 2) = Height(steps', k + 1) - 1
    BY <1>2, <2>1, HeightOfNext
  <2>3. QED
    BY <1>1, <1>6, <2>2
<1>8. /\ Floor(steps', k) = Len(costed)
      /\ Floor(steps', k + 1) = Len(costed) + 1
      /\ Floor(steps', k + 2) = Len(costed)
  BY <1>1, <1>2, <1>5, <1>6, <1>7 DEF Floor
<1>9. ASSUME NEW i \in 1..(k - 1)
      PROVE  /\ Height(steps', i) = Height(steps, i)
             /\ Floor(steps', i) = Floor(steps, i)
             /\ IsCombine(steps', i) = IsCombine(steps, i)
  <2>1. i \in Nat /\ i > 0 /\ \A j \in 1..i : steps'[j] = steps[j]
    BY <1>1
  <2>2. QED
    BY <2>1, HeightOfPrefix
<1>10. ASSUME NEW i \in 1..(k - 1)
       PROVE  LeftPending(steps', i) <=> LeftPending(steps, i)
  <2>1. CASE i + 1 = k
    BY <1>1, <1>2, <2>1 DEF LeftPending
  <2>2. CASE i + 1 < k
    <3>1. i + 1 \in 1..(k - 1)
      BY <1>1, <2>2
    <3>2. IsCombine(steps', i + 1) = IsCombine(steps, i + 1)
      BY <1>9, <3>1
    <3>3. QED
      BY <1>1, <2>2, <3>2 DEF LeftPending
  <2>3. QED
    BY <1>1, <2>1, <2>2
<1>11. LeftPending(steps', k)
  BY <1>1, <1>2 DEF LeftPending
<1>12. QED
  BY <1>2, <1>5, <1>7, <1>8, <1>9, <1>10, <1>11

LEMMA DescendStep ==
  ASSUME TypeOK, CombineInv, MemoInv, StackInv, Descend
  PROVE  TypeOK' /\ CombineInv' /\ MemoInv' /\ StackInv'
<1> DEFINE k == Len(steps)
           n == Top(steps).node
<1>1. /\ k \in Nat \ {0}
      /\ Len(costed) \in Nat
      /\ n \in Pairs(program) /\ n \notin DOMAIN sizes /\ n = steps[k].node
      /\ Floor(steps, k) = Len(costed)
      /\ steps' \in Seq(StepSet)
      /\ Len(steps') = k + 2
      /\ \A i \in 1..(k - 1) : steps'[i] = steps[i]
      /\ steps'[k].node = n
      /\ steps'[k + 1].node = program.node[n].right
      /\ steps'[k + 2].node = program.node[n].left
      /\ popped' = popped + 1
      /\ UNCHANGED <<program, costed, sizes, verdict>>
  BY Descended DEF Combine, Cost
<1>2. /\ \A i \in 1..(k - 1) : /\ Height(steps', i) = Height(steps, i)
                               /\ Floor(steps', i) = Floor(steps, i)
                               /\ IsCombine(steps', i) = IsCombine(steps, i)
                               /\ LeftPending(steps', i) <=> LeftPending(steps, i)
      /\ IsCombine(steps', k) /\ ~IsCombine(steps', k + 1) /\ ~IsCombine(steps', k + 2)
      /\ Height(steps', k) = Len(costed) + 2 /\ Floor(steps', k) = Len(costed)
      /\ Floor(steps', k + 1) = Len(costed) + 1
      /\ Height(steps', k + 2) = Len(costed) /\ Floor(steps', k + 2) = Len(costed)
      /\ LeftPending(steps', k)
  BY HeightsDescended
<1>3. /\ program.size[n] \in Nat
      /\ program.size[program.node[n].left] \in Nat
      /\ program.size[program.node[n].right] \in Nat
      /\ program.size[program.node[n].left] < program.size[n]
      /\ program.size[program.node[n].right] < program.size[n]
  <2> DEFINE a == program.size[n]
             l == program.size[program.node[n].left]
             r == program.size[program.node[n].right]
  <2>1. IsProgram(program) /\ n \in Pairs(program)
    BY <1>1, StackTypes
  <2>2. a \in Nat /\ l \in Nat /\ r \in Nat /\ a = 65 + l + r
    BY <2>1, ChildrenSmaller
  <2> HIDE DEF a, l, r
  <2>3. l < a /\ r < a
    BY <2>2
  <2>4. QED
    BY <2>2, <2>3 DEF a, l, r
<1>4. \A i \in 1..k : steps'[i].node = steps[i].node
  BY <1>1
<1>5. /\ \A i \in 1..k : program.size[steps[i].node] \in Nat
      /\ \A i \in 1..k : Height(steps, i) \in Int /\ Floor(steps, i) \in Int
  <2>1. \A i \in 1..k : program.size[steps[i].node] \in Nat
    BY StackTypes
  <2>2. \A i \in 1..k : i \in Nat
    BY <1>1
  <2>3. QED
    BY <2>1, <2>2, HeightType
<1>6. ASSUME NEW i \in 1..(k - 1), IsCombine(steps', i)
      PROVE  /\ steps'[i].node \in Pairs(program') \ DOMAIN sizes'
             /\ Height(steps', i) >= 2
             /\ ChildrenAbove(i)'
             /\ \A j \in (i + 1)..Len(steps') :
                  /\ program'.size[steps'[j].node] < program'.size[steps'[i].node]
                  /\ ~LeftPending(steps', i) => Floor(steps', j) >= Height(steps', i) - 1
  <2>1. /\ i \in 1..k /\ k \in (i + 1)..k /\ k \in 1..k /\ i + 1 \in 1..k /\ i # Len(steps')
        /\ IsCombine(steps, i)
        /\ steps'[i] = steps[i]
    BY <1>1, <1>2, <1>6
  <2>2. /\ steps[i].node \in Pairs(program) \ DOMAIN sizes
        /\ Height(steps, i) >= 2
        /\ ChildrenAbove(i)
        /\ \A j \in (i + 1)..k :
             /\ program.size[steps[j].node] < program.size[steps[i].node]
             /\ ~LeftPending(steps, i) => Floor(steps, j) >= Height(steps, i) - 1
    BY <2>1 DEF CombineInv
  <2>3. LeftPending(steps, i) => i + 2 \in 1..k
    BY <1>1, <2>1 DEF LeftPending
  <2>4. /\ LeftPending(steps, i) =>
             steps'[i + 1].node = Right(steps, i) /\ steps'[i + 2].node = Left(steps, i)
        /\ ~LeftPending(steps, i) => costed[Height(steps, i) - 1] = Clamped(Left(steps, i))
        /\ ~LeftPending(steps, i) => steps'[i + 1].node = Right(steps, i)
    <3>1. i < k
      BY <1>1
    <3>2. QED
      BY <1>4, <2>1, <2>2, <2>3, <3>1 DEF ChildrenAbove
  <2>5. ChildrenAbove(i)'
    BY <1>1, <1>2, <2>1, <2>4 DEF ChildrenAbove, Left, Right, Clamped
  <2>6. ASSUME NEW j \in (i + 1)..Len(steps')
        PROVE  /\ program.size[steps'[j].node] < program.size[steps[i].node]
               /\ ~LeftPending(steps, i) => Floor(steps', j) >= Height(steps, i) - 1
    <3>1. CASE j < k
      <4>1. j \in 1..(k - 1) /\ j \in (i + 1)..k /\ j \in 1..k
        BY <1>1, <2>1, <3>1
      <4>2. QED
        BY <1>2, <1>4, <2>2, <4>1
    <3>2. CASE j >= k
      <4>1. j = k \/ j = k + 1 \/ j = k + 2
        <5>1. j \in Int /\ k \in Int /\ k <= j /\ j <= k + 2
          BY <1>1, <3>2
        <5>2. QED
          BY <5>1
      <4>2. program.size[n] < program.size[steps[i].node]
        BY <1>1, <2>1, <2>2
      <4>3. program.size[steps'[j].node] < program.size[steps[i].node]
        <5>1. program.size[steps'[j].node] <= program.size[n]
          BY <1>1, <1>3, <4>1
        <5>2. /\ program.size[steps'[j].node] \in Nat
              /\ program.size[steps[i].node] \in Nat
          BY <1>1, <1>3, <1>5, <2>1, <4>1
        <5>3. QED
          BY <1>3, <4>2, <5>1, <5>2
      <4>4. ~LeftPending(steps, i) => Len(costed) >= Height(steps, i) - 1
        BY <1>1, <2>1, <2>2
      <4>5. Floor(steps', j) = Len(costed) \/ Floor(steps', j) = Len(costed) + 1
        BY <1>2, <4>1
      <4>6. ~LeftPending(steps, i) => Floor(steps', j) >= Height(steps, i) - 1
        BY <1>1, <1>5, <2>1, <4>4, <4>5
      <4>7. QED
        BY <4>3, <4>6
    <3>3. QED
      BY <1>1, <2>1, <3>1, <3>2
  <2>7. QED
    BY <1>1, <1>2, <2>1, <2>2, <2>5, <2>6
<1>7. ASSUME NEW i \in 1..Len(steps'), i = k
      PROVE  /\ steps'[i].node \in Pairs(program') \ DOMAIN sizes'
             /\ Height(steps', i) >= 2
             /\ ChildrenAbove(i)'
             /\ \A j \in (i + 1)..Len(steps') :
                  /\ program'.size[steps'[j].node] < program'.size[steps'[i].node]
                  /\ ~LeftPending(steps', i) => Floor(steps', j) >= Height(steps', i) - 1
  <2>1. Left(steps', i) = program.node[n].left /\ Right(steps', i) = program.node[n].right
    BY <1>1, <1>7 DEF Left, Right
  <2>2. ChildrenAbove(i)'
    <3>1. i # Len(steps')
      BY <1>1, <1>7
    <3>2. LeftPending(steps', i)
      BY <1>2, <1>7
    <3>3. steps'[i + 1].node = Right(steps', i) /\ steps'[i + 2].node = Left(steps', i)
      BY <1>1, <1>7, <2>1
    <3>4. QED
      BY <1>1, <3>1, <3>2, <3>3 DEF ChildrenAbove, Left, Right
  <2>3. ASSUME NEW j \in (i + 1)..Len(steps')
        PROVE  program.size[steps'[j].node] < program.size[n]
    <3>1. j = k + 1 \/ j = k + 2
      <4>1. j \in Int /\ k \in Int /\ k + 1 <= j /\ j <= k + 2
        BY <1>1, <1>7
      <4>2. QED
        BY <4>1
    <3>2. QED
      BY <1>1, <1>3, <3>1
  <2>4. QED
    BY <1>1, <1>2, <1>7, <2>2, <2>3
<1>8. CombineInv'
  <2>1. ASSUME NEW i \in 1..Len(steps'), IsCombine(steps', i)
        PROVE  i \in 1..(k - 1) \/ i = k
    <3>1. i # k + 1 /\ i # k + 2
      BY <1>2, <2>1
    <3>2. QED
      BY <1>1, <3>1
  <2>2. ASSUME NEW i \in 1..Len(steps'), IsCombine(steps', i)
        PROVE  /\ steps'[i].node \in Pairs(program') \ DOMAIN sizes'
               /\ Height(steps', i) >= 2
               /\ ChildrenAbove(i)'
               /\ \A j \in (i + 1)..Len(steps') :
                    /\ program'.size[steps'[j].node] < program'.size[steps'[i].node]
                    /\ ~LeftPending(steps', i) => Floor(steps', j) >= Height(steps', i) - 1
    BY <1>6, <1>7, <2>1, <2>2
  <2>3. QED
    BY <2>2 DEF CombineInv
<1>9. StackInv'
  <2>1. steps # <<>> /\ steps' # <<>>
    <3>1. k \in Nat /\ Len(steps') = k + 2
      BY <1>1
    <3>2. Len(steps') # 0
      BY <3>1
    <3>3. steps # <<>>
      BY DEF Descend, Pops
    <3>4. QED
      BY <3>2, <3>3
  <2>2. steps[1].node = program.root /\ verdict = "none" /\ 1 \in 1..k
    BY <1>1, <2>1 DEF StackInv
  <2>3. QED
    BY <1>1, <1>2, <1>4, <2>1, <2>2 DEF StackInv
<1>10. MemoInv'
  BY <1>1 DEF MemoInv, Clamped
<1>11. TypeOK'
  BY <1>1 DEF TypeOK, StepSet, Nodes
<1>12. QED
  BY <1>8, <1>9, <1>10, <1>11

LEMMA JudgeStep ==
  ASSUME TypeOK, CombineInv, MemoInv, StackInv, Judge
  PROVE  /\ TypeOK' /\ CombineInv' /\ MemoInv' /\ StackInv'
         /\ RefusesExactlyTheTooLarge'
<1>1. /\ steps = <<>> /\ verdict = "none"
      /\ verdict' = IF Top(costed) > Limit THEN "RevealTooLarge" ELSE "expandable"
      /\ costed' = Below(costed, 1)
      /\ UNCHANGED <<program, steps, sizes, popped>>
  BY DEF Judge
<1>2. costed \in Seq(0..Ceiling) /\ Len(costed) = 1 /\ costed[1] = Clamped(program.root)
  BY <1>1, StackTypes DEF StackInv
<1>3. Top(costed) = Clamped(program.root)
  BY <1>2 DEF Top
<1>4. costed' \in Seq(0..Ceiling)
  <2>1. 1 \in 0..Len(costed)
    BY <1>2
  <2>2. QED
    BY <1>1, <1>2, <2>1, BelowProperties
<1>5. verdict' \in {"RevealTooLarge", "expandable"}
  BY <1>1
<1>6. program.size[program.root] \in Nat
  BY StackTypes DEF IsProgram
<1>7. Clamped(program.root) > Limit <=> Least(program.size[program.root], UsizeMax) > Limit
  BY <1>6, ExpandedSizeAssumption DEF Clamped, Ceiling, SaturatingAdd, Least
<1>8. RefusesExactlyTheTooLarge'
  BY <1>1, <1>3, <1>7 DEF RefusesExactlyTheTooLarge
<1>9. TypeOK'
  BY <1>1, <1>4, <1>5 DEF TypeOK
<1>10. CombineInv'
  BY <1>1, EmptySeq DEF CombineInv
<1>11. MemoInv' /\ StackInv'
  BY <1>1, <1>5 DEF MemoInv, StackInv, Clamped
<1>12. QED
  BY <1>8, <1>9, <1>10, <1>11

-----------------------------------------------------------------------------
(* The work.                                                               *)

LEMMA OpenedFinite ==
  ASSUME TypeOK
  PROVE  /\ IsFiniteSet(Opened) /\ Cardinality(Opened) \in Nat
         /\ IsFiniteSet(Pairs(program)) /\ Cardinality(Pairs(program)) \in Nat
         /\ Cardinality(Opened) <= Cardinality(Pairs(program))
<1>1. IsFiniteSet(Nodes)
  BY StackTypes DEF IsProgram, Nodes
<1>2. IsFiniteSet(Pairs(program))
  BY <1>1, FS_Subset DEF Pairs, Nodes
<1>3. Opened \subseteq Pairs(program)
  BY DEF Opened
<1>4. IsFiniteSet(Opened) /\ Cardinality(Opened) <= Cardinality(Pairs(program))
  BY <1>2, <1>3, FS_Subset
<1>5. QED
  BY <1>2, <1>4, FS_CardinalityType

(* A cost step opens no pair, and the combine step that leaves the stack     *)
(* leaves its pair's size.                                                   *)
LEMMA OpenedWhenTaken ==
  ASSUME TypeOK, steps # <<>>, steps' = Below(steps, 1), UNCHANGED program,
         NEW n \in Nodes, Top(steps).node = n,
         DOMAIN sizes' = DOMAIN sizes \cup {n},
         n \in Opened <=> n \in Pairs(program)
  PROVE  Opened' = Opened
<1> DEFINE k == Len(steps)
<1>1. /\ k \in Nat \ {0} /\ Len(steps') = k - 1
      /\ \A i \in 1..(k - 1) : steps'[i] = steps[i]
  BY TopTaken
<1>2. steps[k].node = n
  BY DEF Top
<1>3. ASSUME NEW m \in Pairs(program)
      PROVE  m \in Opened' <=> m \in Opened
  <2>1. CASE m = n
    BY <1>3, <2>1 DEF Opened
  <2>2. CASE m # n
    <3>1. steps[k] # Combine(m)
      BY <1>2, <2>2 DEF Combine
    <3>2. (\E i \in 1..Len(steps') : steps'[i] = Combine(m))
            <=> \E i \in 1..k : steps[i] = Combine(m)
      <4>1. \A i \in 1..(k - 1) : i \in 1..k
        BY <1>1
      <4>2. \A i \in 1..k : i # k => i \in 1..(k - 1)
        BY <1>1
      <4>3. QED
        BY <1>1, <3>1, <4>1, <4>2
    <3>3. m \in DOMAIN sizes' <=> m \in DOMAIN sizes
      BY <2>2
    <3>4. QED
      BY <1>3, <3>2, <3>3 DEF Opened
  <2>3. QED
    BY <2>1, <2>2
<1>4. Opened \subseteq Pairs(program) /\ Opened' \subseteq Pairs(program)
  BY DEF Opened
<1>5. QED
  BY <1>3, <1>4

LEMMA OpenedTop ==
  ASSUME TypeOK, CombineInv, StackInv, steps # <<>>
  PROVE  /\ Top(steps).op = "combine" => Top(steps).node \in Opened
         /\ Top(steps).op = "cost" /\ Top(steps).node \in DOMAIN sizes =>
              (Top(steps).node \in Opened <=> Top(steps).node \in Pairs(program))
<1> DEFINE k == Len(steps)
<1>1. k \in 1..k /\ Top(steps) = steps[k]
  BY TopStep
<1>2. steps[k] = [op |-> steps[k].op, node |-> steps[k].node]
  BY <1>1, StackTypes
<1>3. QED
  BY <1>1, <1>2, TopStep DEF Opened, Combine

LEMMA WorkKept ==
  ASSUME TypeOK, WorkInv, steps # <<>>, steps' = Below(steps, 1), popped' = popped + 1,
         Opened' = Opened
  PROVE  WorkInv'
<1>1. Len(steps) \in Nat /\ Len(steps') = Len(steps) - 1 /\ popped \in Nat
  BY TopTaken DEF TypeOK
<1>2. QED
  BY <1>1, OpenedFinite DEF WorkInv

(* A pair being descended into was not open: every open one is either        *)
(* costed or strictly larger.                                                *)
LEMMA OpenedByDescend ==
  ASSUME TypeOK, CombineInv, StackInv, Descend
  PROVE  /\ Top(steps).node \notin Opened
         /\ Opened' = Opened \cup {Top(steps).node}
<1> DEFINE k == Len(steps)
           n == Top(steps).node
<1>1. /\ k \in Nat \ {0}
      /\ n \in Pairs(program) /\ n \notin DOMAIN sizes /\ n = steps[k].node
      /\ ~IsCombine(steps, k)
      /\ Len(steps') = k + 2
      /\ \A i \in 1..(k - 1) : steps'[i] = steps[i]
      /\ steps'[k] = Combine(n)
      /\ steps'[k + 1] = Cost(program.node[n].right)
      /\ steps'[k + 2] = Cost(program.node[n].left)
      /\ UNCHANGED <<program, sizes>>
  BY Descended
<1>2. \A m : steps[k] # Combine(m)
  BY <1>1 DEF IsCombine, Combine
<1>3. \A m : steps'[k + 1] # Combine(m) /\ steps'[k + 2] # Combine(m)
  BY <1>1 DEF Combine, Cost
<1>4. n \notin Opened
  <2>1. ASSUME NEW i \in 1..k, steps[i] = Combine(n)
        PROVE  FALSE
    <3>1. k \in (i + 1)..k /\ IsCombine(steps, i) /\ steps[i].node = n
      BY <1>1, <1>2, <2>1 DEF IsCombine, Combine
    <3>2. program.size[n] < program.size[n]
      BY <1>1, <3>1 DEF CombineInv
    <3>3. program.size[n] \in Nat
      BY <1>1, StackTypes, ChildrenSmaller
    <3>4. QED
      BY <3>2, <3>3
  <2>2. QED
    BY <1>1, <2>1 DEF Opened
<1>5. ASSUME NEW m \in Pairs(program)
      PROVE  (\E i \in 1..Len(steps') : steps'[i] = Combine(m))
                <=> m = n \/ \E i \in 1..k : steps[i] = Combine(m)
  <2>1. ASSUME NEW i \in 1..Len(steps'), steps'[i] = Combine(m)
        PROVE  m = n \/ \E j \in 1..k : steps[j] = Combine(m)
    <3>1. i # k + 1 /\ i # k + 2
      BY <1>3, <2>1
    <3>2. i = k \/ (i \in 1..(k - 1) /\ i \in 1..k)
      BY <1>1, <3>1
    <3>3. i = k => m = n
      BY <1>1, <2>1 DEF Combine
    <3>4. QED
      BY <1>1, <2>1, <3>2, <3>3
  <2>2. ASSUME NEW j \in 1..k, steps[j] = Combine(m)
        PROVE  \E i \in 1..Len(steps') : steps'[i] = Combine(m)
    <3>1. j \in 1..(k - 1) /\ j \in 1..Len(steps')
      BY <1>1, <1>2, <2>2
    <3>2. QED
      BY <1>1, <2>2, <3>1
  <2>3. k \in 1..Len(steps')
    BY <1>1
  <2>4. QED
    BY <1>1, <2>1, <2>2, <2>3
<1>6. Opened' = Opened \cup {n}
  BY <1>1, <1>5 DEF Opened
<1>7. QED
  BY <1>4, <1>6

LEMMA WorkStep ==
  ASSUME TypeOK, CombineInv, MemoInv, StackInv, WorkInv, Next
  PROVE  WorkInv'
<1> DEFINE n == Top(steps).node
<1>1. CASE Recall
  <2>1. /\ steps # <<>> /\ Top(steps).op = "cost" /\ n \in DOMAIN sizes
        /\ steps' = Below(steps, 1) /\ popped' = popped + 1
        /\ UNCHANGED program /\ UNCHANGED sizes
    BY <1>1 DEF Recall, Pops
  <2>2. n \in Nodes /\ (n \in Opened <=> n \in Pairs(program))
    BY <2>1, TopStep, OpenedTop
  <2>3. DOMAIN sizes' = DOMAIN sizes \cup {n}
    BY <2>1
  <2>4. Opened' = Opened
    BY <2>1, <2>2, <2>3, OpenedWhenTaken
  <2>5. QED
    BY <2>1, <2>4, WorkKept
<1>2. CASE CostAtom
  <2>1. /\ steps # <<>> /\ ~IsPair(program, n)
        /\ steps' = Below(steps, 1) /\ popped' = popped + 1
        /\ DOMAIN sizes' = DOMAIN sizes \cup {n}
        /\ UNCHANGED program
    BY <1>2 DEF CostAtom, Pops, Memo
  <2>2. n \in Nodes /\ (n \in Opened <=> n \in Pairs(program))
    BY <2>1, TopStep DEF Opened, Pairs
  <2>3. Opened' = Opened
    BY <2>1, <2>2, OpenedWhenTaken
  <2>4. QED
    BY <2>1, <2>3, WorkKept
<1>3. CASE CombinePair
  <2>1. /\ steps # <<>> /\ Top(steps).op = "combine"
        /\ steps' = Below(steps, 1) /\ popped' = popped + 1
        /\ DOMAIN sizes' = DOMAIN sizes \cup {n}
        /\ UNCHANGED program
    BY <1>3 DEF CombinePair, Pops, Memo
  <2>2. n \in Nodes /\ (n \in Opened <=> n \in Pairs(program))
    BY <2>1, TopStep, OpenedTop
  <2>3. Opened' = Opened
    BY <2>1, <2>2, OpenedWhenTaken
  <2>4. QED
    BY <2>1, <2>3, WorkKept
<1>4. CASE Descend
  <2>1. /\ Len(steps) \in Nat /\ popped \in Nat
        /\ Len(steps') = Len(steps) + 2 /\ popped' = popped + 1
    BY <1>4, Descended DEF TypeOK
  <2>2. Cardinality(Opened') = Cardinality(Opened) + 1
    BY <1>4, OpenedByDescend, OpenedFinite, FS_AddElement
  <2>3. QED
    BY <2>1, <2>2, OpenedFinite DEF WorkInv
<1>5. CASE Judge
  BY <1>5 DEF Judge, WorkInv, Opened
<1>6. QED
  BY <1>1, <1>2, <1>3, <1>4, <1>5 DEF Next

-----------------------------------------------------------------------------
(* The theorems.                                                           *)

LEMMA TraversalInit == Init => TraversalInv
<1> SUFFICES ASSUME Init PROVE TraversalInv
  OBVIOUS
<1>1. /\ IsProgram(program) /\ program.root \in Nodes
      /\ steps = <<Cost(program.root)>> /\ costed = <<>> /\ sizes = <<>>
      /\ popped = 0 /\ verdict = "none"
  BY ExpandedSizeAssumption DEF Init, IsProgram, Nodes
<1>2. Len(steps) = 1 /\ steps[1] = Cost(program.root) /\ steps # <<>>
  BY <1>1
<1>3. ~IsCombine(steps, 1)
  BY <1>2 DEF IsCombine, Cost
<1>4. DOMAIN sizes = {}
  BY <1>1
<1>5. TypeOK
  BY <1>1, <1>4 DEF TypeOK, Cost, Nodes
<1>6. CombineInv
  BY <1>2, <1>3 DEF CombineInv
<1>7. StackInv
  BY <1>1, <1>2, <1>3, HeightOfFirst DEF StackInv, Cost
<1>8. WorkInv
  <2>1. ASSUME NEW m, NEW i \in 1..Len(steps)
        PROVE  steps[i] # Combine(m)
    BY <1>2 DEF Cost, Combine
  <2>2. Opened = {}
    BY <1>4, <2>1 DEF Opened
  <2>3. QED
    BY <1>1, <1>2, <2>2, FS_EmptySet DEF WorkInv
<1>9. MemoInv /\ RefusesExactlyTheTooLarge
  BY <1>1, <1>4 DEF MemoInv, RefusesExactlyTheTooLarge
<1>10. QED
  BY <1>5, <1>6, <1>7, <1>8, <1>9 DEF TraversalInv

LEMMA TraversalStep == TraversalInv /\ [Next]_vars => TraversalInv'
<1> SUFFICES ASSUME TraversalInv, [Next]_vars PROVE TraversalInv'
  OBVIOUS
<1>0. TypeOK /\ CombineInv /\ MemoInv /\ StackInv /\ WorkInv /\ RefusesExactlyTheTooLarge
  BY DEF TraversalInv
<1>1. CASE Next
  <2>1. TypeOK' /\ CombineInv' /\ MemoInv' /\ StackInv'
    BY <1>0, <1>1, RecallStep, CostAtomStep, CombinePairStep, DescendStep, JudgeStep DEF Next
  <2>2. WorkInv'
    BY <1>0, <1>1, WorkStep
  <2>3. RefusesExactlyTheTooLarge'
    <3>1. CASE Judge
      BY <1>0, <3>1, JudgeStep
    <3>2. CASE ~Judge
      <4>1. UNCHANGED <<program, verdict>>
        BY <1>1, <3>2 DEF Next, Recall, CostAtom, Descend, CombinePair, Pops
      <4>2. QED
        BY <1>0, <4>1 DEF RefusesExactlyTheTooLarge
    <3>3. QED
      BY <3>1, <3>2
  <2>4. QED
    BY <2>1, <2>2, <2>3 DEF TraversalInv
<1>2. CASE UNCHANGED vars
  <2>1. UNCHANGED <<program, steps, costed, sizes, popped, verdict>>
    BY <1>2 DEF vars
  <2>2. TypeOK' /\ MemoInv' /\ RefusesExactlyTheTooLarge'
    BY <1>0, <2>1 DEF TypeOK, MemoInv, RefusesExactlyTheTooLarge, Clamped
  <2>3. CombineInv'
    BY <1>0, <2>1 DEF CombineInv, ChildrenAbove, Left, Right, Clamped
  <2>4. StackInv'
    BY <1>0, <2>1 DEF StackInv, Clamped
  <2>5. WorkInv'
    BY <1>0, <2>1 DEF WorkInv, Opened
  <2>6. QED
    BY <2>2, <2>3, <2>4, <2>5 DEF TraversalInv
<1>3. QED
  BY <1>1, <1>2

LEMMA TraversalCorrect == Spec => []TraversalInv
<1>1. Init => TraversalInv
  BY TraversalInit
<1>2. TraversalInv /\ [Next]_vars => TraversalInv'
  BY TraversalStep
<1>3. QED
  BY <1>1, <1>2, PTL DEF Spec

(* TypeOK, for every program, limit and width of usize: no size on the stack *)
(* or in the memo passes the ceiling, so no clamped sum wraps.               *)
THEOREM TraversalTypeCorrect == Spec => []TypeOK
<1>1. TraversalInv => TypeOK
  BY DEF TraversalInv
<1>2. QED
  BY <1>1, TraversalCorrect, PTL

(* RefusesExactlyTheTooLarge: the verdict computed on the shared DAG with    *)
(* clamped sums is the verdict on the unfolded tree.                         *)
THEOREM GuardCorrect == Spec => []RefusesExactlyTheTooLarge
<1>1. TraversalInv => RefusesExactlyTheTooLarge
  BY DEF TraversalInv
<1>2. QED
  BY <1>1, TraversalCorrect, PTL

(* NeverPopsAnEmptyStack: neither `expect` of the function can fail.         *)
THEOREM StackNeverEmpty == Spec => []NeverPopsAnEmptyStack
<1>1. TraversalInv => NeverPopsAnEmptyStack
  <2> SUFFICES ASSUME TraversalInv PROVE NeverPopsAnEmptyStack
    OBVIOUS
  <2>1. TypeOK /\ CombineInv /\ StackInv
    BY DEF TraversalInv
  <2>2. steps # <<>> /\ Top(steps).op = "combine" => Len(costed) >= 2
    BY <2>1, TopStep
  <2>3. steps = <<>> /\ verdict = "none" => Len(costed) = 1
    BY <2>1 DEF StackInv
  <2>4. QED
    BY <2>2, <2>3 DEF NeverPopsAnEmptyStack
<1>2. QED
  BY <1>1, TraversalCorrect, PTL

(* WorkIsLinear: at most three steps per pair of the DAG, however large the  *)
(* tree it unfolds to.                                                       *)
THEOREM WorkCorrect == Spec => []WorkIsLinear
<1>1. TraversalInv => WorkIsLinear
  <2> SUFFICES ASSUME TraversalInv PROVE WorkIsLinear
    OBVIOUS
  <2>1. TypeOK /\ WorkInv
    BY DEF TraversalInv
  <2>2. popped \in Nat /\ Len(steps) \in Nat
    BY <2>1, StackTypes, LenProperties DEF TypeOK
  <2>3. QED
    BY <2>1, <2>2, OpenedFinite DEF WorkInv, WorkIsLinear
<1>2. QED
  BY <1>1, TraversalCorrect, PTL
=============================================================================
