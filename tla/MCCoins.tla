------------------------------- MODULE MCCoins -------------------------------
(***************************************************************************)
(* A small coin universe, for TLC.                                         *)
(*                                                                         *)
(*   root -+- launcher -+- eve -+- s1 -+- s2 --- s3                        *)
(*         |            |       |      +- change2                          *)
(*         |            |       +- fork                                    *)
(*         |            |       +- change1                                 *)
(*         |            +- plain --- copy                                  *)
(*         |            +- even                                            *)
(*         |            +- rich                                            *)
(*         |            +- torn                                            *)
(*         +- lookalike                                                    *)
(*                                                                         *)
(* s1 and fork are the two recreations eve's spend may choose between, the  *)
(* change coins are payments of even amount, plain is an ordinary coin the  *)
(* launcher may mint instead of an eve and copy an ordinary payment of plain *)
(* to the singleton's puzzle, and lookalike wears the singleton's puzzle    *)
(* without descending from its launcher.  rich and torn are two eves more,  *)
(* for the runs that have coins beyond the walk.                            *)
(***************************************************************************)
EXTENDS Integers

MCParent ==
  [root |-> "none", launcher |-> "root", lookalike |-> "root",
   eve |-> "launcher", plain |-> "launcher", even |-> "launcher",
   copy |-> "plain", s1 |-> "eve", fork |-> "eve", change1 |-> "eve",
   s2 |-> "s1", change2 |-> "s1", s3 |-> "s2",
   rich |-> "launcher", torn |-> "launcher"]

EveryCoin == DOMAIN MCParent

AllCoins == EveryCoin \ {"rich", "torn"}

(* The universe without the coins past s2, for the runs with more actors. *)
ShortCoins == AllCoins \ {"s3", "change2", "even"}

ParentIn(coins) == [c \in coins |-> MCParent[c]]

AncestryIn(coins) ==
  LET anc[c \in coins] ==
        {c} \cup (IF MCParent[c] = "none" THEN {} ELSE anc[MCParent[c]])
  IN  anc

CurriedIn(coins) ==
  [c \in coins |->
     IF c \in {"lookalike", "eve", "rich", "copy", "s1", "fork", "s2", "s3"}
     THEN "launcher" ELSE "none"]

OddIn(coins) == coins \ {"change1", "change2", "even"}

(* Two spends fit one allocator of four nodes, three do not; s2's is bigger. *)
NodesIn(coins) == [c \in coins |-> IF c = "s2" THEN 3 ELSE 2]

EveryParent == ParentIn(EveryCoin)
EveryAncestry == AncestryIn(EveryCoin)
EveryCurried == CurriedIn(EveryCoin)
EveryOdd == OddIn(EveryCoin)
EveryNodes == NodesIn(EveryCoin)

AllParent == ParentIn(AllCoins)
AllAncestry == AncestryIn(AllCoins)
AllCurried == CurriedIn(AllCoins)
AllOdd == OddIn(AllCoins)
AllNodes == NodesIn(AllCoins)

ShortParent == ParentIn(ShortCoins)
ShortAncestry == AncestryIn(ShortCoins)
ShortCurried == CurriedIn(ShortCoins)
ShortOdd == OddIn(ShortCoins)
ShortNodes == NodesIn(ShortCoins)

=============================================================================
