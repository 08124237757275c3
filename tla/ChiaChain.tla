------------------------------ MODULE ChiaChain ------------------------------
(***************************************************************************)
(* The chain a ChainSource reads, as far as the lineage walk can tell coins *)
(* apart.  It is external to the crate: it is modelled from what           *)
(* src/walk.rs derives from a spend and requires of a coin record.         *)
(*                                                                         *)
(* A coin id hashes the coin's parent id, puzzle hash and amount, so each  *)
(* of these is a constant of the coin, and a coin is never its own         *)
(* ancestor.  Only which coins exist and which are spent changes.          *)
(***************************************************************************)
CONSTANTS
  Coins,      \* every coin a spend could ever create
  NoCoin,     \* the parent of a coin no modelled spend creates; "not curried"
  Parent,     \* the coin whose spend creates the coin
  Ancestry,   \* the coin, its parent, its parent's parent, ...
  Launchers,  \* the coins that wear the singleton launcher puzzle
  CurriedTo,  \* the launcher id curried into the coin's singleton layer
  Odd         \* the coins of odd amount

ASSUME CoinsAssumption ==
  /\ NoCoin \notin Coins
  /\ Parent \in [Coins -> Coins \cup {NoCoin}]
  /\ CurriedTo \in [Coins -> Coins \cup {NoCoin}]
  /\ Launchers \subseteq Coins
  /\ Odd \subseteq Coins
  /\ \A c \in Launchers : CurriedTo[c] = NoCoin

(* Ancestry is the reflexive, transitive closure of Parent, and well founded *)
(* because a coin id commits to the parent's id.                             *)
ASSUME AncestryAssumption ==
  /\ Ancestry \in [Coins -> SUBSET Coins]
  /\ \A c \in Coins : Ancestry[c] = {c} \cup
       (IF Parent[c] = NoCoin THEN {} ELSE Ancestry[Parent[c]])
  /\ \A c \in Coins : \A d \in Ancestry[c] : Ancestry[d] \subseteq Ancestry[c]
  /\ \A c \in Coins : Parent[c] # NoCoin => c \notin Ancestry[Parent[c]]
  /\ \A c \in Coins : \A d \in Ancestry[c] \ {c} :
       \E k \in Ancestry[c] : Parent[k] = d

VARIABLES
  created,    \* the coins on the chain
  spent       \* those of them that a block has spent

chainVars == <<created, spent>>

-----------------------------------------------------------------------------

Roots == {c \in Coins : Parent[c] = NoCoin}

Children(c) == {k \in Coins : Parent[k] = c}

IsSingleton(c) == CurriedTo[c] # NoCoin

(* What the spend of c put on the chain. *)
Kids(c) == Children(c) \cap created

(* The coins from l to c along the parent links. *)
Path(l, c) == {m \in Ancestry[c] : l \in Ancestry[m]}

(* The sets of coins c's own puzzle can emit, whatever its solution: a       *)
(* singleton's top layer wraps every odd output in the singleton's puzzle.   *)
Emittable(c) ==
  {K \in SUBSET Children(c) :
     IsSingleton(c) => \A k \in K \cap Odd : CurriedTo[k] = CurriedTo[c]}

(* A spend consensus accepts: a launcher creates exactly one coin, and a     *)
(* singleton at most one odd one (none when it melts).                       *)
ValidSpend(c, K) ==
  /\ K \in Emittable(c)
  /\ c \in Launchers => \E k \in Coins : K = {k}
  /\ IsSingleton(c) => \A j, k \in K \cap Odd : j = k

-----------------------------------------------------------------------------

ChainInit ==
  /\ created = Roots
  /\ spent = {}

(* A block spends c and creates the coins K. *)
Spend(c, K) ==
  /\ c \in created \ spent
  /\ ValidSpend(c, K)
  /\ created' = created \cup K
  /\ spent' = spent \cup {c}

(* A reorganisation undoes the spend of c: every coin it led to disappears. *)
Undo(c) ==
  LET undone == {d \in Coins : c \in Ancestry[d]} \ {c} IN
  /\ c \in spent
  /\ created' = created \ undone
  /\ spent' = spent \ (undone \cup {c})

-----------------------------------------------------------------------------
(* What it means that a singleton answer is true of the chain right now.    *)

(* c descends from the launcher l by recreations alone: every coin between   *)
(* them is odd and curried to l.  A launcher can mint any coin, so the eve   *)
(* is taken on trust while it is c itself.                                   *)
IsRecreation(l, c) ==
  /\ l \in Launchers
  /\ l \in Ancestry[c]
  /\ \A m \in Path(l, c) \ {l} :
       /\ m \in Odd
       /\ CurriedTo[m] = l \/ (m = c /\ Parent[c] = l)

(* t is the current tip of the singleton launched at l. *)
IsTip(l, t) ==
  /\ IsRecreation(l, t)
  /\ t \in created \ spent
  /\ t # l

Absent == [kind |-> "absent"]
Lineage(t, M) == [kind |-> "lineage", tip |-> t, members |-> M]

(* The answers to resolve_singleton_lineage that are true of the chain now. *)
Truths(l) ==
  LET tips == {t \in Coins : IsTip(l, t)} IN
  IF tips = {} THEN {Absent} ELSE {Lineage(t, Path(l, t)) : t \in tips}

-----------------------------------------------------------------------------

(* The shape every reachable chain has: only created coins are spent, a coin *)
(* that is no root was created by a spend on the chain, and every spend on    *)
(* the chain is one consensus accepts.                                        *)
ChainOK ==
  /\ created \subseteq Coins
  /\ spent \subseteq created
  /\ \A c \in created : Parent[c] # NoCoin => Parent[c] \in spent
  /\ \A c \in spent : ValidSpend(c, Kids(c))

(* Every coin on the chain has all its ancestors there, and spent; and the   *)
(* recreations of one launcher are in one line: no chain ever shows two      *)
(* branches of a singleton.                                                  *)
OneLine ==
  /\ \A c \in created : Ancestry[c] \subseteq created /\ Ancestry[c] \ {c} \subseteq spent
  /\ \A l \in Launchers : \A m, n \in created :
       IsRecreation(l, m) /\ IsRecreation(l, n) => m \in Ancestry[n] \/ n \in Ancestry[m]
=============================================================================
