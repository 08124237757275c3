# A TLA+ specification of dig-chainsource-interface

`dig-chainsource-interface` is the crate that defines `ChainSource`, the one
read-only interface DIG programs consult Chia through, and, under the feature
`lineage-walk`, the one walk that resolves a launcher id to its singleton's
current tip and members. The crate keeps no state between calls and starts no
threads, but the walk is a sequence of separate reads of a chain that moves
while it runs, answered by a source the crate does not trust, and its answer
decides who may spend. That walk, the backward walk a consumer makes with
`parent_spend` before it, and the two composed are what this project specifies,
checks and proves about. Paths are relative to the repository root.

## The system's parts

| Part | State | Operations | What makes it correct |
|---|---|---|---|
| Lineage walk, `src/walk.rs:359-627` | locals of one call: launcher id, `current`, `current_spent_height`, `members`, `rule`, the loop index, `started`, the bounds | `walk_singleton_lineage`, `_bounded`, `_within`, `resolve_singleton_lineage_via_walk` | only recreations are members; an answer was true at one instant of the call; ignorance is never an absence; it always returns, within its bounds; an honest source is blamed for what the walk cannot take, and for nothing else |
| Continuation decoder, `src/walk.rs:662-772` | the loop's position, the recreation found so far | `run_for_continuation` | the same verdict as the chain's on every spend the chain accepts; no invented successor, no ending by omission, no refusal but of amounts past `i64` |
| Reveal size guard, `src/walk.rs:797-951` | two stacks and a memo | `expanded_hash_input_bytes`, `require_expandable_reveal` | refuses exactly the reveals that unfold past the limit; linear work; its `expect`s hold |
| `WalkBounds`, `src/walk.rs:122-180` | hop cap and budget | `hops` (clamps), `within` | no caller widens the hop bound |
| `ChainSource`, `src/source.rs` | none | eight reads; `parent_spend` alone has a body | `Ok(None)` is a reliable absence, `Err` is ignorance; a gap is never made by a block that arrives between its two reads |
| A consumer of the crate (`SPEC.md` 4, `tests/parent_walk_capability.rs`) | the coin, the launcher found, the lineages it keeps | walk `parent_spend` up to a launcher, resolve its lineage, `contains` | authorizes genuine recreations only, never denies one it should not, decides every claim |
| `CoinRecord`, `SingletonLineage` | immutable values | conversions, `contains` | the tip is a member |
| `ChainSourceError`, `src/error.rs`, and the projection `src/walk.rs:268-294` | immutable values | `From` | the source's own error survives; every other error says what is the case |
| `MockChainSource`, `src/testing.rs` | six tables built by the caller | the builder, the reads, a forced error | a forced error reaches every read; the reads show the same records; a record under a wrong key shows |
| `ProviderInfo`, `src/provider.rs` | immutable values | none | - |

The walk calls the source (`coin_record`, `coin_spend`), once per read and
synchronously; between two calls blocks and reorganisations change what the
source sees. It hands each spend to the size guard, then to the puzzle drivers
and the CLVM evaluator, and the evaluator's conditions to the continuation
decoder, which says whether there is a successor. A consumer makes both walks
over one source: backward from a coin to a launcher, two reads a hop, then
forward from that launcher to the members.

What is hard here is not concurrency inside the crate, which has none, but the
following: a fact read in one call and used in the next (spent height, then
spend; spend, then record of the successor); two answers of a source, `None` of
`coin_spend` above all, that mean two things each; a solution no hash commits
to; rules that change after the first hop; bounds checked at one point of the
loop only; the order in which conditions are decoded; and two walks of a chain
that moves between them, or an answer kept while it moves. `PROJECT.json` lists
these hazards line by line.

## Modules

```
ChiaChain              the chain: coins, spends, recreations, reorganisations (external)
  LineageService       what resolve_singleton_lineage promises, with no walk in it
  ChainSource          coin_record and coin_spend, of a source with chosen faults
    LineageWalk        the forward walk, one read a step
      LineageRefinement     LineageWalk implements LineageService
      ViaWalk               the walk with its errors projected onto ChainSourceError
        RepeatedWalks       one caller that asks again and again
    ParentWalk         parent_spend's default body, and the backward walk over it
      Authority        the consumer: ParentWalk, then LineageWalk, on one chain
Continuation           the decoder of conditions
ExpandedSize           the reveal size guard
MockSource             the test source: its builder and its reads

MCCoins                a universe of fifteen coins, for TLC
MCLineageWalk, MCRepeatedWalks, MCParentWalk, MCAuthority    the walks over MCCoins
MCContinuation         lists of conditions
MCExpandedSize         all small programs
MCMockSource           two coins of two puzzle hashes and their tables

ChainSourceProofs <- LineageWalkProofs <- RepeatedWalksProofs
                                       <- AuthorityProofs
                  <- ParentWalkProofs  <- AuthorityProofs
ContinuationProofs, ExpandedSizeProofs, MockSourceProofs
```

`RepeatedWalksProofs` also extends `RepeatedWalks`, `AuthorityProofs` extends
`Authority`; `ChainSourceProofs` has the lemmas about the chain and the reads
that both walks' proofs cite.

**ChiaChain.** A coin id hashes the coin's parent, puzzle hash and amount, so
parent, parity (`Odd`), launcher puzzle (`Launchers`) and the launcher id
curried into the coin's singleton layer (`CurriedTo`) are constants of a coin,
and only which coins exist (`created`) and are spent (`spent`) changes. `Spend`
follows what consensus enforces through the puzzles: a singleton wraps each odd
output in its own puzzle and creates at most one, a launcher creates one coin.
`Undo` takes a spend and everything that followed from it back. Everything in
this module is external; it is as much of the chain as the walk can tell apart.

**ChainSource.** The source answers from the chain as it is at the read, or
misbehaves as `Faults` allows: `err`; `lost_spend` (`None` for a spent coin,
which the interface permits); `unknown_height` (a spent coin's record without
`spent_height`, also permitted); `forged_spend` (a genuine reveal with any
solution, or a foreign or undecodable spend); `forged_record`. `Heavy` and
`Costly` are the coins whose reveal unfolds too far and whose run the code
refuses: one that costs too much, fails, or pays an amount above `i64::MAX`. Reveals and hashes do not appear: `reveal` is "genuine" when it hashes
to the coin's puzzle hash, and then it is the coin's own puzzle.

**LineageWalk.** The variables are the locals of
`walk_singleton_lineage_within`, plus `pc` (the read made next), `elapsed` (what
`started.elapsed()` would say) and `result`. Each action is one read and the
code up to the next one:

| Action | Code |
|---|---|
| `Call` | entry points, `WalkBounds::hops` with its clamp (`ClampedHops`), `within` |
| `ReadLauncher` | `read_launcher_coin` and the locals the loop starts from |
| `RefuseTooDeep`, `RefuseLate` | the end of the loop; the deadline at its head |
| `ReadNoSpend` | `coin_spend` fails or answers `None`: error, tip, or never launched |
| `ReadSpend` | `coin_spend` answers a spend: `Refusal` gives the first check that refuses it, in the order of `read_spend_of` (`ReadRefusal`) and of the hop rule (`RuleRefusal`); otherwise the melt, or `Derive` |
| `BindSuccessor` | `require_coin_exists` (`Confirms`), `admit_member` (`Admits`), the end of the iteration (`Advance`) |
| `ChainStep` | a block or a reorganisation, between any two reads if `Churn` says so |

`Garbled` are the coins whose singleton layer does not parse. `HopNodes` and
`ArenaLimit` are the nodes one hop allocates and the most one
`clvmr::Allocator` holds: the code makes an allocator for each hop, so a walk of
any length needs room for its largest spend only. `BeyondTheWalk` names the
spends a block may hold and the code refuses as malformed all the same: costly,
garbled, or too big for an allocator of their own.

**ViaWalk.** `resolve_singleton_lineage_via_walk`: a call at the default bounds
(`CallVia`), or one at a caller's own (`CallBounded`), whose errors go through
`From` (`Projection`); the error of the read that failed (`carried`) is answered
unchanged.

**RepeatedWalks.** ViaWalk with what was answered before (`answered`, forgotten
when a block is lost; `steady` says none was lost during the call), to state
what two answers owe each other, and what a call owes a source that a
reorganisation made look inconsistent.

**ParentWalk.** `ReadChildRecord` and `ReadParentSpend` are the two reads of
`parent_spend`'s default body, and `Authenticate`, `Climb` and `GiveUp` the loop
of `authenticate` in `tests/parent_walk_capability.rs`, its only caller in the
repository. The chain moves between any two of them. `parent_spend` checks
neither the record nor the spend it is served, and neither does the model.

**Authority.** One consumer, one coin: `Ask`, then `Trace` (a step of
ParentWalk), then `Resolve` of the launcher found and `Walk` (a step of
LineageWalk), then `Contains`. Both walks run over the same `created` and
`spent`, and `ChainMoved` interleaves with everything. `deniable` and
`grantable` remember whether the coin was at some instant since `Ask` no member,
and whether it was one; they take part in no guard.

**MockSource.** The builder's operations as actions in any order and number,
the reads as operators on the tables they fill. A key need not be the id of the
coin loaded under it, as in the code; `ReadsAgree` holds all the same, and
`ScansMatchLookupsIffWellKeyed` says how such a fixture shows it: the queries
that filter values and those that look keys up then tell of different coins.

**LineageService, LineageRefinement.** The abstract specification has a
request, and a reply that is an error, a fact true of the chain now, or a fact
that was true at some instant since the request (`noted`). `Truths` defines what
is true: the tip and exact members of the one live line of recreations, or
absence. The refinement mapping says which fact the walk has already seen:
after it has read an unspent record of `current`, that `current` is the tip and
`members` the lineage. The property `AnswersWereTrue` is `LineageService`'s
specification under the mapping.

**Continuation.** `run_for_continuation`'s loop, one iteration a step. A
condition is what the two decodings of the code can tell apart. The chain's own
view of the same list (`OnChain`) is external.

**ExpandedSize.** The explicit-stack traversal, one popped step a step, and the
guard's comparison. `Programs` gives each node its size when unfolded, so the
property compares the clamped sums on the DAG with the true size of the tree.

## Runs

| Run | Shows | Bounds |
|---|---|---|
| `walk_blocks` | types; an honest source blamed only over a spend beyond the walk; only an eve rejected; too deep only beyond the bound; budget plus one hop; every error says what is the case; tip unspent when named; later answers agree with earlier ones | 15 coins, hop caps 1, 5 and the default, clamped at 3, a chain of five spends; reads and evaluations of 0 or 1 tick, budget 1; one heavy coin, one spend too dear or too rich, one layer that does not parse; two spends overfill an allocator; source may fail; blocks between reads; any number of calls |
| `walk_reorg` | refinement of `LineageService`; answers between two reorganisations agree; only losses are blamed on a source | 13 coins, depth 4; lost spends; blocks and reorganisations between reads |
| `authority` | the launcher found is the nearest and within the bound; too deep is too far; a gap is real; a coin denied was no member at some instant | 13 coins, two launchers, 3 hops up, caps 1 and 4 down; unknown heights, failing reads; blocks and reorganisations during and between the walks |
| `authority_lying` | members are recreations, only genuine members are authorized, every step of either walk brings it nearer its end, every call is answered and every claim decided | 10 coins, two launchers, 2 hops up, 4 down; all faults, one heavy and costly coin, one garbled; blocks and reorganisations |
| `authority_forged` | a coin authorized was a member at some instant; the forward walk still refines `LineageService`, absences excepted | the coins and bounds of `authority_lying`; failing reads, lost and forged spends; blocks and reorganisations |
| `mock_reads` | a forced error reaches every read; the reads show the same records; scans match lookups exactly if the keys are the coins' ids | a coin and its child, of two puzzle hashes; each table, any key |
| `conditions` | decoder against chain; no phantoms; refuses exactly the too rich | every list of up to three of 24 conditions |
| `reveal_size` | exact verdicts, linear work, no empty pop | every program of up to four nodes, atoms of 0 and 67 bytes, limit 199, `usize` up to 400 |
| `light_source`, `hop_bound`, `phantom_melt`, `parent_race` | the findings below | as above |

`LaterAnswersAgree` is checked under two sources, one that fails and one that
also loses spends; the theorem adds forged solutions. `MembersAreRecreations`
and `EveryCallIsAnswered` are checked within Authority, where the launcher walked is
whichever the lying backward walk made of the coin.

Why these bounds are enough to see the interesting cases: the universe has a
fork (`s1`, `fork`: two recreations one spend may choose between, before and
after a reorganisation), even payments beside recreations, an eve that is an
ordinary coin whose child wears the singleton's puzzle (`plain`, `copy`), an eve
of even amount, a coin that wears the puzzle with no launcher above it
(`lookalike`), and a lineage longer than the smallest hop caps and than the
clamp. A fork needs two spends of one coin, an answer mixing forks four reads. `plain` is
a launcher too in the runs of the backward walk: a launcher above another's
descendants, with coins nearer and further than the hop bound on both sides. A
coin three hops down and a cap of one spend is the lineage a partial answer
would deny.
`rich` and `torn` are eves whose spends are beyond the walk, so that an honest
source is accused in the run, of these two and of no other coin. `I64Max` is 199 and `U64Max` 401: beyond the marker 113 only the
order of the widths matters, and 199, 200 and 201 are the widest amount, an even
and an odd one past it, so that a payment as well as a recreation is too rich.
Four nodes reach sharing of a shared pair and sums past the ceiling at two
levels; with atoms of 0 and 67 bytes there are programs of exactly the limit
(199), of one byte more, and of more than a `usize` holds. Lengths, depths, widths and the number of coins
are constants, and the proofs hold for all of them.

Deadlock is checked in the runs of either walk and of the mock (a call can
always be made). `Continuation` and `ExpandedSize` are functions and Authority's
consumer decides one claim: they stop, so their runs do not check it.

**Fairness.** `Spec` assumes `WF_vars(WalkStep)`: the walk is one synchronous
loop on the caller's thread, and every read returns. The chain and the callers
owe nothing. A source whose read never returns is outside the property, as it
is outside the code: the deadline is checked between reads only. `ParentSpec`
assumes the same of `ClimbStep`, and `AuthoritySpec` of `ConsumerStep`, one
condition for the three parts: a consumer goes from one walk to the other in
one thread, and never waits for the chain.

## Proofs

Every theorem holds for every universe of coins, all bounds and the faults
named, from the assumptions on the constants in `ChiaChain` (a coin id commits
to its parent, so ancestry is well founded), `ChainSource`, `LineageWalk`,
`ViaWalk`, `Continuation`, `ExpandedSize` (`IsProgram`: the allocator's nodes
are finitely many, and each unfolds to some number of bytes, so no program is
cyclic) and `ParentWalk` (`FiniteAncestry`: no coin has infinitely many
ancestors, needed to count the coins of a path).

| Theorem | States |
|---|---|
| `TypeCorrect` | `TypeOK`, and `ChainOK` of the chain below it |
| `MembersCorrect` | `MembersAreRecreations`, against any source at all |
| `BudgetCorrect` | `BudgetPlusOneHop` |
| `OnlyTheEveCorrect` | `OnlyTheEveIsRejected` |
| `HonestCorrect` | `HonestNeverBlamed`: accused only over a spend beyond the walk |
| `RepeatIsWalk` | repeated calls, through either entry point, are behaviours of the walk, so the safety theorems of the walk hold of `RepeatSpec`, which the runs check |
| `ErrorsCorrect` | `ErrorsSayWhatHappened`, of repeated calls |
| `TooDeepCorrect` | `TooDeepIsBeyondTheBound` |
| `TipUnspentIfSpendsAreServed` | `TipIsUnspent` for `Faults` within {err, unknown_height}, reorganisations included |
| `AnswersCorrect` | `AnswersWereTrue` for sources of genuine records |
| `LossesCorrect` | `OnlyLossesAreBlamed`, of repeated calls, reorganisations included |
| `LaterAnswersCorrect` | `LaterAnswersAgree`, of repeated calls |
| `StepsCorrect`, `ClimbsCorrect` | `EveryStepNearsTheAnswer`, `EveryClimbNearsTheVerdict`: how many steps either walk can take, whatever is served |
| `ParentTypeCorrect` | `ParentTypeOK`, whatever is served |
| `LauncherCorrect`, `TooFarCorrect` | `LauncherIsTheNearest` and `TooDeepIsTooFar` over genuine data |
| `GapCorrect` | `GapIsReal` of a source that serves what there is |
| `AuthorityCorrect` | `AuthorityIsGenuine`, against any source at all |
| `ClaimIsBothWalks`, `ClaimLauncherCorrect` | the consumer's behaviours are behaviours of both walks, so the safety theorems above hold of it |
| `DenialCorrect` | `DenialWasTrue`, of a source that serves what there is |
| `AuthorizationCorrect` | `AuthorizationWasTrue`, of a source of genuine records, whatever it does with spends |
| `LoopTypeCorrect`, `AgreementCorrect`, `NoPhantoms`, `RefusalsCorrect` | the decoder, on condition lists of any length |
| `TraversalTypeCorrect`, `GuardCorrect`, `StackNeverEmpty`, `WorkCorrect` | the size guard, on programs of any size and sharing: no size it keeps passes the ceiling, its verdict is the one on the unfolded tree, neither `expect` fails, at most three steps a pair |
| `ForcedErrorCorrect`, `ReadsAgreeCorrect`, `KeysCorrect` | the mock, on fixtures of any size |

The arguments:

- *Members.* `MembersAreRecreations` speaks of an answer only; it is inductive
  together with `WalkOnPath`: while the walk runs, `members` is the path from
  the launcher to `current`, every coin of it a recreation, and a pending
  successor is an odd child of `current` curried as the rule demands. The step
  that matters is `BindSuccessor`, where the path grows by one
  (`PathToChild`); that the layer of `current` is checked when it is spent is
  what turns an eve taken on trust into a proved recreation.
- *Answers.* `AnswersCorrect` adds `OneLine` about the chain: each coin's
  ancestors are there and spent, and the recreations of one launcher are on one
  line. It is inductive because a singleton's spend has at most one odd child
  and a reorganisation removes whole branches. From it, an unspent record of
  `current` makes `Lineage(current, members)` the one truth of that instant; a
  step of the walk is then a `Reply`, a `Note` or a stutter.
- *Honest sources.* `HoldsChainData`: what the walk remembers of `current` is
  still on chain, and a pending successor is created. Blocks only add, which is
  where the exclusion of reorganisations is used. What is left to accuse an
  honest source of is a spend the chain holds and the code does not take
  (`BeyondTheWalk`); that it is refused is the code's choice, that nothing else
  is refused is the theorem.
- *Losses.* `LossInv`: while the call has lost no block, what it holds is still
  the chain's, whatever was reorganised before it and whatever spends the source
  does not know. A missing successor then means a block was lost in this call,
  and that the successor is not there now; a missing spend means that, or a
  spend the source lost.
- *Depth.* `CountsHops`: one member more than hops, all but `current` spent;
  `AnswerInBound` follows from it at the one step that answers a lineage.
- *Clock.* `ClockInv`: at `bind` one read and one evaluation after the check.
- *Errors.* `ErrorsMean` takes the kinds of error one by one: the theorems above
  give each its meaning, and `TooLargeIsHeavy` says what a reveal refused for its
  size was. Over an honest source no kind is left that could say more; the one
  that covers several cases is `Malformed`, which is an ordinary eve or a spend
  beyond the walk.
- *Later answers.* `AgreementInv`: while no block is lost, what was answered is
  the path to a coin still on the chain, and an absence after it is a melt still
  on the chain (`StillOnChain`); a walk that lost no block stands on the chain
  (`StandsOnChain`), and the lineage it would answer contains what was answered
  (`CandidateAgrees`). The last is settled when a record is read unspent: by
  `OneLine` a recreation on the chain is above every unspent one, so the path to
  it contains the earlier path (`AnsweredIsBelow`), and a melted singleton has
  no unspent one. It stays settled while blocks overtake the read of the spend,
  because the chain only grows (`NoBlockLost`) and `members` does not change.
- *Ends.* `StepsLeft` is a number of at most 2 * `MaxLineageDepth` + 4 that
  every step of a running call lowers and no block or reorganisation changes;
  `CountsDown` bounds `hop` where it is read. Of `EveryCallIsAnswered` this is
  the part that needs no fairness; `ClimbsLeft` is the backward walk's.
- *Backward walk.* The verdict's properties are inductive together with
  `Climbed`: while the walk runs over genuine data, the path from `child` to the
  coin has one coin more than hops climbed, none of them above the coin is a
  launcher, and the rest of the coin's ancestry is `child`'s own. Reading the
  parent's spend moves one coin of that rest into the path, or finds the
  launcher. A gap is real because a coin is on chain only while its parent is
  spent, and `OneLine` carries that up to the coin asked about.
- *Consumer.* `Handover`: the forward walk runs only once the backward walk has
  answered, for the launcher it answered. With it each step of the consumer is
  a step of LineageWalk or a stutter, and a step of ParentWalk or a stutter, and
  their invariants hold; a member of an answered lineage is then a recreation,
  because every coin on the path to a recreation is one (`MembersAreMembers`).
- *Denials.* `Watched`: every instant at which the coin is no member is noted
  in `deniable`. A coin that is a member, and no launcher, is a recreation of the
  very launcher the backward walk answered (`MemberOfTheNearest`): above that one
  lies only its own ancestry (`LauncherSplits`), and no other singleton passes
  through a launcher. So when the forward walk binds a successor, either the coin
  is noted as no member or the two are recreations of one launcher on one chain,
  and by `OneLine` on one line (`OnTheCoinsLine`); a reorganisation may take
  either off the chain, but not off the line. A tip that is unspent when answered
  is then below the coin, which is among the members, and an absence is
  impossible while the coin is a member (`AnswerNamesMember`).
- *Authorizations.* `Attended` notes in `grantable` every instant at which the
  coin is a member. `TipWasSeen`: when the walk binds a successor to a genuine
  record that is unspent, the successor is the singleton's tip at that instant,
  so by `OneLine` all the walk has gathered is on the chain and a member
  (`OnTheTipsPath`), the coin included if it is there. That it was is what
  remains when the chain moves before the spend of the tip is read, whatever is
  then served for it. Neither kind of record left out could be allowed: a forged
  one confirms a coin no block created, and one without its spent height lets a
  lost spend make a melted singleton answer.
- *Decoder.* `LoopInv` says what the conditions behind `next` held: no melt,
  nothing unreadable, and the odd coin `recreation` names, if any. Of a list a
  block accepts only an amount past `i64` is unreadable, and the loop stops at
  the first condition that is one or a melt, which is `RefusalsCorrect`.
- *Size guard.* Reading the stack of steps from the bottom, each cost step adds
  one finished size and each combine step takes one away, so every step has a
  height: how many sizes there are when its turn comes. `StackInv` says that the
  stack of sizes has the height of the top step; `CombineInv` that above a
  pair's combine step is exactly what is left to do of its two children, the
  sizes of those done lying where they will be popped, out of reach of
  everything above. `MemoInv` and the two together make each popped pair the
  clamped sizes of the right children, and clamping each sum is clamping the
  sum. No induction over the program is needed: a child unfolds to less than
  its pair, which is what keeps a pair from being opened under itself.
  `WorkInv`: three steps were pushed for each pair opened, and none is opened
  twice, as an open pair is in the memo or strictly larger than what is above
  it. `GuardCorrect` holds for any limit that fits `usize`; for one below
  `usize::MAX`, as in the code, the cut-off at `usize::MAX` in
  `RefusesExactlyTheTooLarge` makes no difference.
- *Mock.* The theorems are about the reads of any tables of well-typed records
  (`CoinsStayTyped`): no read has a way around `Guarded`; scans and lookups show
  the rows of one table (`BothShowTheTable`); and a row under another key is a
  coin whose lookup shows nothing, or something else, or one of two.

Each theorem's invariant was first checked by TLC on the instances above.

Only model-checked: `EveryCallIsAnswered` and `EveryClaimIsDecided`, because
liveness under fairness is out of the prover's reach (`StepsCorrect` and
`ClimbsCorrect` prove that no call and no backward walk goes on for ever; that a
step is always possible and is taken is left to TLC), and the four violations
under Findings. Every other property of the passing runs is a theorem,
`TipIsUnspent` under the hypothesis that makes it true of a source that serves
what there is. What a recursion over data computes is nowhere needed: the size a
DAG unfolds to is given by the programs' assumption (`FullSizeAt`).

## Findings

All four are disagreements between the code and a line of its documentation;
the runs named show each.

1. `light_source`. `read_spend_of`'s doc (`src/walk.rs:535`) says `Ok(None)`
   "means the coin is genuinely UNSPENT", where in `src/record.rs:8-10` and
   `SPEC.md:226` a height of `None` means "not known by this source". For a
   source that knows neither the height nor the spend the walk may name a coin
   spent long before the call. The same line fails without `unknown_height` if a
   block spends the coin between the two reads and the source does not know the
   spend yet: the record is one call old. `TipUnspentIfSpendsAreServed` proves
   the repair, that it is enough that the source serves every spend, and
   `AnswersWereTrue` shows what is left otherwise: the coin was the tip when its
   record was read.
2. `hop_bound`. `src/walk.rs:137` and the comment at line 400 say `max_hops`
   counts the spends followed and that the extra iteration follows none. The
   loop follows a spend in each of its `max_hops + 1` iterations before it
   answers `TooDeep`; no lineage with more than `max_hops` spends is ever
   answered (`TooDeepIsBeyondTheBound`).
3. `phantom_melt`. `SPEC.md:204` demands that an unreadable `CREATE_COIN` be
   refused; after a melt marker it is never read, and the spend is answered as
   an ending. No list a block accepts is concerned, amounts past
   `i64` apart (`AgreesWithTheChain`): of those, one after a melt marker is not
   refused either (`RefusesExactlyTheTooRich`).
4. `parent_race`. `src/source.rs:64` says `parent_spend` "Reads the spend that
   CREATED `coin_id`". A reorganisation between its two reads, after which the
   parent is spent anew, makes it answer a spend that created other coins. The
   coin asked for is then off the chain; `LauncherIsTheNearest` and
   `DenialWasTrue` hold all the same, because the walk uses the spend's coin
   only.

Two observations that no run records. The projection answers an honest launcher
that minted an ordinary coin as `ChainSourceError::Malformed`, whose doc
(`src/error.rs:27`) speaks of payloads that could not be parsed;
`ErrorsSayWhatHappened` allows it for that case and for a spend beyond the walk
alone, and a test of the repository expects it. And the doc of
`MAX_LINEAGE_DEPTH` (`src/walk.rs:65`) says the member set "is capped at this
many": a walk about to be refused has gathered up to two more, the launcher and
the coin the extra iteration derives, which `TooDeepIsBeyondTheBound` states
exactly. A hostile source gains two ids by it.

## Not modelled

- The CLVM evaluator, serialization and puzzle drivers: external functions,
  present as the coins a spend emits or a refusal, and as a count of allocated
  nodes.
- `SingletonLineage`'s accessors other than `contains`, `CoinRecord`'s
  conversion from a wallet's `CoinState` (a field-by-field copy),
  `confirmed_height`, `coinbase`, `ProviderInfo` and `ChainSourceProvider`,
  `Display`: data no operation of the crate decides by.
- The payloads of errors (limits, ids, messages) and their wording.
- Amounts as numbers in the walk: there they are parities, and a coin whose
  spend pays more than `i64::MAX` is in `Costly`; `Continuation` has the numbers.
- Implementations of `ChainSource`: they are in other crates. The reads without
  a body here are modelled as the mock implements them.

## Plan

Done, in this order: the chain and the walk, the abstract service and the
refinement, the decoder, the size guard; then the backward walk, the
projection, repeated calls, the consumer that composes both walks, the mock,
and the theorems above. Next:

1. The consumer against an abstract specification of a claim: what
   `AuthorizationWasTrue` and `DenialWasTrue` say separately as one refinement.
2. `TipIsUnspent` when the source may lose spends and the chain loses no block:
   the exact condition under which the coin named was spent meanwhile.
