# IPC Solidity actors: TLA+ models

TLA+ specifications, TLC configurations and TLAPS proofs kept beside the IPC
(Inter-Planetary Consensus) Solidity actors. Paths below are relative to the
repository root; the contracts are under `src/`.

## 1. Inventory

The system is a tree of chains. Every chain runs a **gateway**; every subnet is
represented on its parent by a **subnet actor**; a **registry** deploys subnet
actors. All contracts are single-threaded and every external call is an atomic
transaction: either all its writes happen or it reverts. What is concurrent is
the *order* of transactions by many parties (validators, relayers, owners,
users, nodes of the subnet) and the *delay* between a parent and its child
chain, which exchange a log of staking changes (parent to child), checkpoints
(child to parent) and cross-net messages (both ways).

| Component | State | Operations | Talks to |
| --- | --- | --- | --- |
| Subnet actor: genesis phase (`SubnetActorManagerFacet`, `LibSubnetActor`) | `genesisBalance`, `genesisBalanceKeys`, `genesisCircSupply`, `genesisValidators`, `bootstrapped` | `preFund`, `preRelease`, `join`, `stake`, `unstake`, `leave`, `setFederatedPower` before bootstrap | gateway `register` |
| Subnet actor: staking (`LibStaking`, `LibStakingChangeLog`) | `validatorSet` (confirmed / total collateral, power), `changeSet` with its two configuration numbers, `releaseQueue` | the same calls after bootstrap, `confirmChange`, `claim` | gateway `addStake`, `releaseStake` |
| Validator set (`LibValidatorSet`) | active set bounded by `activeLimit`, unbounded waiting set | `increaseReshuffle`, `reduceReshuffle` | priority queues |
| Priority queues (`LibPQ`, `LibMinPQ`, `LibMaxPQ`) | two index heaps | `insert`, `pop`, `deleteReheapify`, `increaseReheapify`, `decreaseReheapify`, `min`, `max` | powers in the validator set |
| Release queue (`LibStakingReleaseQueue`, `LibAddressStakingReleases`) | one array-like queue per validator | `push`, `compact`, `claim` | block number |
| Subnet actor: checkpoints (`SubnetActorCheckpointingFacet`, `LibMultisignatureChecker`) | `lastBottomUpCheckpointHeight`, `committedCheckpoints`, `lastBottomUpBatch`, rewarded relayers | `submitCheckpoint`, `submitBottomUpMsgBatch`, `validateActiveQuorumSignatures` | gateway `commitCheckpoint`, `execBottomUpMsgBatch`; `confirmChange` |
| Subnet actor: rewards and pause (`SubnetActorRewardFacet`, `SubnetActorPauseFacet`, `LibPausable`) | `relayerRewards`, `paused` | `claim`, `claimRewardForRelayer`, `distributeRewardToRelayers`, `pause`, `unpause` | gateway `releaseRewardForRelayer` |
| Gateway: subnet accounts (`GatewayManagerFacet`) | `subnets[id]` (`stake`, `circSupply`, nonces), `totalSubnets`, `subnetKeys` | `register`, `addStake`, `releaseStake`, `kill`, `fund`, `fundWithToken`, `release` | called by subnet actors and users |
| Gateway: cross-net messages (`LibGateway`, `GatewayMessengerFacet`, `XnetMessagingFacet`, `BottomUpRouterFacet`, `CrossMsgHelper`, `SubnetIDHelper`, `SupplySourceHelper`) | nonces, `postbox`, `bottomUpMsgBatches`, `circSupply` | `commitTopDownMsg`, `commitBottomUpMsg`, `applyMsg`, `propagate`, `sendUserXnetMessage`, `execBottomUpMsgBatch`, `createBottomUpMsgBatch` | child and parent gateways |
| Gateway: quorums (`LibQuorum`, `CheckpointingFacet`, `BottomUpRouterFacet`) | `quorumInfo`, `incompleteQuorums`, `quorumSignatureSenders`, `quorumSignatures`, `retentionHeight` | `createQuorumInfo`, `addQuorumSignature`, `pruneQuorums` | membership of the child |
| Gateway: top-down finality (`TopDownFinalityFacet`, `LibValidatorTracking`, `LibGateway.updateMembership`) | `finalitiesMap`, `latestParentHeight`, `validatorsTracker`, `currentMembership`, `lastMembership` | `commitParentFinality`, `storeValidatorChanges`, `applyFinalityChanges` | change log of the parent's subnet actor |
| Registry (`SubnetRegistryDiamond`, `RegisterSubnetFacet`, `SubnetGetterFacet`) | deployed actors per owner, nonces | `newSubnetActor`, getters | deploys subnet actors |
| Diamond plumbing (`LibDiamond`, cut and loupe facets) | selector table, owner | `diamondCut`, ownership | every facet |

What makes each correct, and where it is hard, is listed line by line under
`hazards` in `PROJECT.json`.

### Hard behaviours

- **Order of transactions.** `join`, `stake`, `unstake`, `leave`, `preFund`,
  `preRelease` and the owner's `setFederatedPower` come in any order, and the
  subnet bootstraps inside whichever call crosses both thresholds.
- **Two books of collateral.** After bootstrap a call changes the *total*
  collateral at once and only *records* the change; a checkpoint confirms any
  prefix of the log much later. Every call decides on the total while the
  validator sets, the gateway's stake and the money follow the confirmed part.
- **Partial failure.** `confirmChange` runs a loop of recorded changes that were
  checked when they were recorded, not when they run. One that reverts reverts
  its checkpoint and every later one.
- **Parent and child.** The child keeps a copy of the log and of the validator
  set, delayed by top-down finality; membership, quorums and cross-net nonces
  depend on both sides agreeing on what has been adopted.
- **Limits.** The active set is bounded, a release queue has a `uint16` length,
  messages of an epoch are cut into batches, quorum thresholds are rounded.

### What makes each component correct

| Component | Properties |
| --- | --- |
| Validator set | the sets are disjoint, the active set is full before anyone waits, nobody waits who is stronger than an active validator, exactly those with collateral are members |
| Genesis phase | account = collateral + genesis supply; balances and keys agree; genesis validators are the members |
| Staking after bootstrap | total and confirmed collateral differ by the log; no recorded change can fail but for a full release queue; an active validator has its key; nothing is lost between wallet, actor, gateway and releases; what is recorded arrives |
| Release queue | `claim` pays everything that is due and nothing else; `compact` never drops or pays twice; the length stays within its type |
| Priority queues | heap order and index maps agree; they implement "a weakest / strongest member" |
| Quorums | at most one quorum per height, weight counted once per validator, only complete quorums are pruned |
| Top-down finality | the child's log is a contiguous part of the parent's; after confirming *n* the child's validator set is the parent's after *n* |
| Cross-net messages | nonces are consecutive and each message is applied once; circulating supply is what was funded minus what was released |
| Registry | an actor that was created can be found by its owner and nonce |

## 2. Plan

The collateral decides who produces blocks and signs checkpoints, so it came
first; then what parent and child tell each other about it; then funds.

| Order | Module | Composes | Models |
| --- | --- | --- | --- |
| 1 *done* | `ValidatorSet` | | `LibValidatorSet`: reshuffling and confirmations |
| 2 *done* | `SubnetActor` | `ValidatorSet` | genesis, staking, federated power, log, confirmation, claim, kill, the gateway's account of the subnet |
| 3 *done* | `CollateralLedger` | | abstract: two books of collateral and the log between them; `SubnetActor` implements it |
| 4 *done* | `TopDownFinality` | `ValidatorSet` (the child's copy) | finality commits, `storeChange`, `confirmChange` of the tracker, `updateMembership` |
| 5 *done* | `ParentAndChild` | `SubnetActor`, `TopDownFinality` | the two ends of the log, checkpoints with heights, repeated submissions and their relayers |
| 6 *done* | `LibQuorum` | | `createQuorumInfo`, `addQuorumSignature`, `pruneQuorums` |
| 7 *done* | `CrossNet`, `OrderedChannel` | two gateways | nonces, batches, `fund` / `release`, circulating supply, custody; the abstract channel that each direction implements |
| 8 *done* | `ValidatorQueues` | `ValidatorSet` as its abstraction | both index heaps, which implement the sets of `ValidatorSet` |
| 9 *left* | `ReleaseQueue` | | the array under a release queue, `startIdx` and `compact` with partial claims. Only a locking duration makes a release wait, and nothing sets one (`LibStaking.sol:69` has no caller), so that a claim always empties the queue; amount and `uint16` length, with the overflow that reverts a checkpoint, are in `SubnetActor` |
| 10 *left* | relayer rewards, `postbox`, general calls | `CrossNet` | to be modelled when their feature flags (`GatewayDiamond.sol:19-23`) are switched on |

Theorems left: none of a property that is checked. What is only model-checked is
liveness, which the prover does not do.

## 3. Modules

### `ValidatorSet`

The state of `LibValidatorSet`: per validator the total and the confirmed
collateral, the federated power and whether its public key is set (the record
`ValidatorInfo`), the running total, and the two sets. `IncreaseReshuffle` and
`ReduceReshuffle` have one disjunct per branch of the Solidity functions; both
read the power that was just written, as the code does. `ConfirmDeposit`,
`ConfirmWithdraw` and `ConfirmFederatedPower` are the three ways power changes.

Abstracted: the heaps are sets, and which of several equally weak (strong)
validators a heap has on top is left open; the metadata is whether there is one.

### `SubnetActor`

One action per external call of `SubnetActorManagerFacet`, split where the call
does different things before and after bootstrap (`JoinBeforeBootstrap`,
`JoinAfterBootstrap`, ...), plus `Claim` (`SubnetActorRewardFacet`),
`SubmitCheckpoint` (`SubnetActorCheckpointingFacet`) and `SetPaused`. A call is
a transaction, so an action contains everything the call does, including the
calls into the gateway (`Register`, `AddStake`, `ReleaseStake`), and a `revert`
is an action that is not enabled. `Init` is the actor after its constructor.

Two transactions loop over data: `confirmChange` over the log and
`setFederatedPower` before bootstrap over its list. They are taken one iteration
per step (`ConfirmNext`, `FederateNext`); `confirmUpTo` and `federating` hold
what is left, and `Idle` keeps every other action out meanwhile. For the second
loop this needs that its checks are all made at its start (`StartFederation`),
which is equivalent: no iteration changes what the checks of a later one look
at, except for a repeated address, which the guard describes. For the first,
that no iteration can revert half way is the property
`ConfirmationNeverReverts`. `setFederatedPower` after bootstrap only records
changes; a list is as good as calls one by one.

Money is tracked where it can be lost: the accounts (`wallet`), the actor's
account (`balance`), claimable collateral (`releases`) and the stake and
circulating supply kept by the gateway.

Abstracted:

- A quorum exists exactly if there is an active validator: all of them together
  always reach the majority, and who signs changes nothing else here.
- Checkpoint heights, batches and relayers: a checkpoint is a submission at the
  next height. The configuration number it carries is any number up to the last
  recorded one, since the child learns numbers from this log.
- The release queue of a validator is an amount (`releases`) and a length
  (`releaseCount`), without the array: `lockingDuration` is set by no code
  (`LibStaking.sol:69` has no caller), so each release is due at once, `claim`
  takes all of them and starts the queue anew. `push` computes the length in
  checked `uint16` (`LibStaking.sol:17-21`) inside `confirmChange`: where the
  type ends, `MaxReleases`, the whole checkpoint reverts. `ReleasesFit` is that
  revert, taken before the loop begins.
- `gwCircSupply` keeps its value after `register`, because `fund` and `release`
  are not part of this module: a subnet that was pre-funded cannot be killed here.
- Subnets with an ERC-20 supply and re-entrant calls (`nonReentrant`) are left
  out, as are the order of `genesisValidators` and equal entries in it.

### `CollateralLedger`

What the subnet actor promises about collateral, without validators' sets, money
or checkpoints: two functions from validators to amounts, `supplied` (the total)
and `confirmed`, and a log of signed entries between them. `Direct` moves both
(before bootstrap), `Record` moves `supplied` and appends, `Confirm` takes the
head of the log to `confirmed`. `SubnetActor` maps to it with `Ledger` and
`ImplementsLedger`: a deposit is a positive entry, a withdrawal a negative one, and
the other changes are entries of zero.

### `TopDownFinality`

The child's gateway as far as it follows its parent: `commitParentFinality`,
`storeValidatorChanges`, `applyFinalityChanges` with the tracker's validator set,
and `updateMembership`. The loop of `applyFinalityChanges` is taken one change
per step. It is entered only if no change of it reverts (`ChangesApply`, what
the subtraction in `confirmWithdraw` needs); that this is so whenever
it is called is a property, `StoredChangesApply`, and finding 5.

Abstracted: block hashes of a finality, and metadata other than its presence.

### `ParentAndChild`

A `SubnetActor` and the `TopDownFinality` of its child. They share nothing but
two logs: `requests`, the events of every change the parent records, and
`checkpoints`, what the child has cut. The client of the child and the
relayers are outside the repository and modelled as external parties: the client
delivers any one or two neighbouring events, again, too early or too late, and
cuts a checkpoint whenever it likes, with the number that
`applyFinalityChanges` returned and the membership of that moment; a relayer
submits any checkpoint, again or out of order, with any list of signatures that
exist. A member of the child signs what its child has cut and nothing else: this is
what the properties of the pair rest on. A submission of the next height needs
signatories that are active at the parent and whose powers add up to the threshold
there (`ValidQuorum`). The code takes lists and adds the power of a repeated
signatory again (`LibStaking.sol:179-196`, `LibMultisignatureChecker.sol:49-61`), and
so does the model: `SignatureLists` are all lists of up to `MaxSignatories`.

A repetition of the last height needs no signatures. Before the first checkpoint
that height is 0, and a checkpoint of zeroes has the hash of the empty record stored
there, so that `RepeatCheckpoint` notes a relayer for height 0 too.

`ParentStep` has every call of the subnet actor of a Collateral subnet, before and after
bootstrap, `Claim`, `Kill`, `AddBootstrapNode` and `SetPaused` included. Left out are
only the calls of a Federated subnet (see the second observation of section 5), and
`SubmitCheckpoint`, which is part of `SubmitNewCheckpoint`.

Abstracted: signatures are those of their signatories; heights are counted in
periods; block hashes.

### `LibQuorum`

`LibQuorum.sol` under `CheckpointingFacet`: a checkpoint is created at the end of
a period with a membership, members sign it, and heights are pruned. What
pruning leaves behind is left behind in the model too: `incompleteQuorums` and
the places of the senders (`LibQuorum.sol:143-145` deletes the set before it
walks it). The library is used for message batches in the same way.

### `CrossNet`, `OrderedChannel`

Funds between a parent and its child. `topDown` and `bottomUp` are all messages
ever sent, `paidDown` and `paidUp` all that were executed. The client applies
any piece of `topDown`; a relayer submits the batch of any height below the
child's block, or the last one again; the parent's subnet can be killed in between.
`CommitBottomUpMsg` cuts a full batch at the current block as the code does,
including the case that this height has messages already.

`OrderedChannel` is the abstraction of either direction: `Send` appends, `Receive`
extends what was received to a longer beginning of what was sent.

The supply of the subnet is coins or tokens (`supplyKind`); either is `custody`. `fund`
refuses an amount of zero, `fundWithToken` does not (`GatewayManagerFacet.sol:178-199`),
so `Fund` takes it for tokens. The receiver of a message may refuse the transfer
(`refused`), each time it is tried: `execute` then reverts (`CrossMsgHelper.sol:86-89`), and with it the
transaction with all its messages and nonces, in either direction (`NoneRefused`).

Abstracted: accounts are two sums, one per chain. Left out: a token subnet that was
pre-funded (section 5), `propagate`, the postbox and general calls, which the flags
`FEATURE_MULTILEVEL_CROSSMSG` and `FEATURE_GENERAL_PUPRPOSE_CROSSMSG` refuse;
pruning of message batches; quorums over batches (`LibQuorum`);
`createBottomUpMsgBatch`, which never changes anything here: it
reverts with `BatchAlreadyExists` (`BottomUpRouterFacet.sol:103`) for each epoch in
which `commitBottomUpMsg` has stored a message, and a batch for any other epoch
would have no message, which is refused too (`BatchWithNoMessages`).

### `ValidatorQueues`

`LibPQ`, `LibMinPQ` and `LibMaxPQ` as arrays with their index maps, and
`LibValidatorSet` over them. Powers live outside the heaps and change before the
heap is repaired, as in the code. One set of operators serves both heaps, with
negated powers for the second. The loops of `swim` and `sink` are functions of the
number of rounds (`SwimRound`, `SinkRound`), taken for as many rounds as there are
positions: a loop that has ended changes nothing any more.

Positions are `uint16` in the code, and `sink` doubles them: `LibMaxPQ.sol:133` by a
shift, which wraps around silently, and both heaps by a product in the loop, which
reverts. From the 32768th member of a queue on, a late member whose power changes would be
compared with the top instead of a child, or its change could not be confirmed.
The model leaves that out and says so: `DoubledPositionsFit` assumes fewer validators.

### `MC` modules

The instances: `MCSubnetActor` (with the symmetry set of the validators),
`MCParentAndChild`, `MCQuorum`, `MCCrossNet`, `MCValidatorQueues`. A run uses the
symmetry only if it has no liveness property and no validator is singled out by
`Funder` or `Announcer`. `MCValidatorQueues` has a view instead, the powers in the
order of the heap positions: validators are not told apart by anything but power and
place, and one in no queue has no power, so states with the same view
differ by a permutation of names, and the properties do not depend on names.

## 4. Runs

| Run | Configuration | Question |
| --- | --- | --- |
| `collateral` | `SubnetActorCollateral.cfg` | Three validators with two active places join, stake, unstake, leave, come back and claim, while checkpoints confirm any part of the log. Do the books of collateral, sets, stake and money agree in every state, and can every recorded change be confirmed unless a release queue is full? |
| `genesis` | `SubnetActorGenesis.cfg` | Two of three accounts pre-fund, all join and leave, one announces a bootstrap node, the owner pauses. Do the genesis lists and the actor's account agree with the members? |
| `federated` | `SubnetActorFederated.cfg` | Validators may join first; the owner gives powers before and after bootstrap. Are the sets ordered by power, and can every power change be confirmed? |
| `parent_and_child` | `ParentAndChild.cfg` | Two validators at the parent, their child, a client and a relayer that repeat, delay and reorder, signatures included. Is the child's log a piece of the parent's, does the parent confirm only what the child has applied, is the next checkpoint signed by the membership the parent has confirmed, is the adopted membership the tracker's active set, and does collateral arrive? |
| `quorum` | `Quorum.cfg` | Two checkpoints with any two memberships of three validators, some of weight zero, signatures in any order, pruning at any time. Is a quorum reached exactly when its own members' weight says so, do decisions stand, does the list of incomplete quorums never stand in the way, and does each quorum arrive? |
| `cross_net` | `CrossNet.cfg` | Three messages down and five up, of coins or tokens, in pieces and batches delivered again and out of order, one of each direction refused by its receiver, with a kill. Is each direction an ordered channel, are supply and custody conserved, do batches hold every message, and do funds arrive that nobody refuses? |
| `validator_queues` | `ValidatorQueues.cfg` | An active heap of three levels and a waiting heap of two with powers changing in place. Are both heaps ordered and their maps inverse, and are they the sets of `ValidatorSet`? |
| `genesis_balances` | `GenesisBalances.cfg` | finding 1 |
| `genesis_validators` | `GenesisValidators.cfg` | finding 2 |
| `killed_subnet` | `KilledSubnet.cfg` | finding 3 |
| `federated_stake` | `FederatedStake.cfg` | finding 4 |
| `genesis_tracker` | `GenesisTracker.cfg` | finding 5 |

### Properties

`CollateralAgreesWithLog`, `ConfirmationNeverReverts` and `FundsAccounted` are
the core: the first says that the two books differ exactly by the log, the
second that deciding on the total is safe for a loop that works on the confirmed
part (a full release queue is all that can keep a checkpoint out, and a loop that
began finds room), the third that no account's money is lost or paid to another (SA-03 of
`specs/PROPERTIES.md`, for each account). `GatewayStakeMatches` is SA-02, `TotalIsSum` SA-05,
`CollateralArrives` with `FundsAccounted` covers SA-04. `ActiveHaveMetadata`
guards the deletion of a validator's record when a leave and a new join are cut
by a checkpoint. `ValidatorSetWellFormed` and `MembersHaveCollateral` are what
the two sets promise. The genesis properties relate the lists that `join`,
`leave`, `preFund` and `preRelease` maintain by separate tests; `GenesisKeysFunded`
is both halves of that, with the exception that line 232 makes (finding 1). `ImplementsLedger`
says that all of it is the `CollateralLedger`.

`ParentConfirmsWhatChildApplied` is what makes a release safe: collateral leaves
the parent only when the child no longer counts on it. `RelayedInOrder` relates
a checkpoint to what the parent has confirmed since it was cut. `OnlyGenesisDiffers`
says what the two books of the two chains have in common, and is the reason
for finding 5. What a validator put in before bootstrap is what is left when every
recorded change is taken back; the weight in `genesisValidators` would not do, it is
only that of the first deposit (`LibStaking.sol:477-494`; a later one finds the entry and leaves it).

`IncompleteIsUnreached` is about `pruneQuorums`, which cleans
neither the list nor the senders: the retention height alone must keep a
stale entry from being met. `SupplyConserved` counts what is on its way in
both directions, `KilledIsEmpty` says that `circSupply = 0` is enough to
delete a subnet. `ReshuffleAsSets` is the refinement of the heaps.

The instances are explored completely: `collateral` has 0.84 million distinct
states, `genesis` 2.75 million, `federated` 0.09 million (up to symmetry),
`parent_and_child` 0.59 million, `quorum` 0.2 million, `cross_net` 0.36 million,
`validator_queues` 3790 up to its view. The five violations are found within 3 to
6 steps of the initial state.

Each property of a passing run has a mutant: a variant of one definition, with a
comment `Variant` in the module, under which the run fails.

### Bounds

- Three validators, `ActiveLimit = 2`: the least for which someone waits, is
  promoted, and competes with an equal. `killed_subnet` needs two.
- `Wealth` 2 or 3 and `Amounts` {1, 2}: a validator can be weaker than, equal
  to and stronger than another, withdraw a part or all, and come back.
- `MaxConfigurationNumber = 6` in `collateral`: a join takes two changes, so
  three joins, or a join, a leave and a second join of one validator next to
  other changes, are in the log together, with confirmation anywhere between.
  The other runs are about the time before the log and need only its start.
- `MaxGenesisBalance = 1` and `MaxFederation = 3`: a balance is there or not
  (finding 1 shows in one step); a federation is all validators, with room for
  a repeated one.
- `MaxConfigurationNumber` and `MaxGenesisBalance` stand for the limits of the
  Solidity types, `MaxReleases` for that of a release queue's length; reaching them reverts the call in the model as in the code.
- `MaxReleases = 2` in `collateral`: two withdrawals of a validator fill its queue, and a
  third, or its leave, reverts the checkpoint until it claims. In `parent_and_child` it
  is 1, so that a claim and a checkpoint wait for each other.
- `parent_and_child`: two validators, a log of four changes and three
  checkpoints: a join after the bootstrap takes two changes, so a join and a
  withdrawal, or changes delivered before and after a checkpoint is cut, are in
  the log together, and a third checkpoint is signed by a membership that changed
  twice. `Wealth = 2` and `MinActivationCollateral = 2` let one validator reach the
  activation, with one deposit or two, and stake or join later, or two with one each.
  `MajorityPercentage = 67` is a majority that one of two equal validators
  misses when it signs once and reaches when it is listed twice (`MaxSignatories = 2`).
  `MaxParentHeight = 0`: no property of the pair depends on the heights of finalities.
- `quorum`: three members with weights 0 to 2: a threshold that rounds down to 0,
  a member without weight, and a quorum reached by one, two or three. Heights 2
  and 4 of four blocks: one checkpoint is pruned while the other is collected.
- `cross_net`: five messages up with batches of two and a period of two: a batch
  is cut, two cuts fall on one height, and a cut falls on the end of an epoch. Six
  blocks are three epochs. Amounts of 0, 1 and 2, a genesis supply of 3 or none, and
  `MaxRefused = 1`: one refused message in each direction, before or behind others.
- `validator_queues`: six active and three waiting validators with powers up to 3: heaps
  in which an element sinks or swims two levels and the sibling is chosen.

`CHECK_DEADLOCK FALSE` everywhere but in `validator_queues`: the system may
really stop, in a subnet whose validators have left and which was killed, when
everything is signed and pruned, and the models also stop at their bounds.

### Fairness

Three properties are about liveness. `FairPairSpec` is used for `CollateralArrives`,
because collateral arrives only by way of the child. Everything in it is weak fairness:

- `LoopGoesOn`: the loop of a transaction ends.
- `StartChild`, `ReadNextChange`, `CutCheckpointWithChanges`: a node of the child reads the
  events of its parent in every block and has stored changes applied with a checkpoint, once every
  `bottomUpCheckPeriod` blocks. A checkpoint without changes need never be cut.
- `RelayNext`: a relayer submits the next checkpoint as long as the parent would take it
  (`Acceptable`), that is, when the members that signed it have a quorum there, each counted
  once. Relayers are noted to be rewarded for this. No repeated signatory is relied upon.
- `Claim(v)`: a validator that can claim does.

Nothing forces a validator to join, stake or leave. `CollateralArrives` asks that
again and again nothing of an account is in transit, and excepts the states from which no checkpoint
comes or is taken any more, each by name: `GenesisWithdrawn`, in which a withdrawal is recorded that the
child can never apply (finding 5), with every checkpoint that would carry it or a later number;
`NobodySigns`, in which the child's membership has no weight left; `NextRefused`, in which the child's members
have no quorum at the parent (section 5), or a release queue is too full for the checkpoint; a killed subnet
with a join in its log (finding 3); and the bound on checkpoints. The exceptions are states and not
behaviours: a subnet that passes through one and comes out of it for good is asked again.

`FairQuorumSpec`, for `QuorumArrives`: weak fairness of each member's signature
of each height. A node signs each checkpoint that its gateway announces until it is
in; members are not assumed to sign in any order, and pruning may come before, which
the property excepts.

`FairCrossNetSpec`, for `FundsArrive`: weak fairness of the client applying the
next message. A node applies what it reads of its parent in every block; nothing is
assumed of relayers, users or of the pieces that are delivered again. `FundsArrive` excepts a message that
its receiver refuses, and every message behind it: the nonce is never passed.

## 5. Findings

1. `leave` before bootstrap pays a genesis balance back and leaves it on the
   books: `SubnetActorManagerFacet.sol:232` is a comparison. The key is
   removed, so that the account has a balance and is not listed, which
   `GenesisKeysFunded` excepts, and the balances add up to more than
   `genesisCircSupply` (`GenesisBalancesBacked`).
2. `genesisValidators` keeps a validator that left before bootstrap
   (`GenesisValidatorsJoined`), and the weight of its first deposit.
3. `kill` is possible while a join waits for its confirmation; the deposit then
   stays in the killed actor (`KilledMeansAllLeft`).
4. In the Federated mode collateral joined before bootstrap is in the actor's
   total and never reaches the gateway (`GatewayStakeMatches`, SA-02).
5. The child's tracker starts without the genesis validators
   (`GatewayDiamond.sol:77` gives it a limit and numbers only). When one of
   them withdraws what it joined with, the child can store the change and
   never apply it: `confirmWithdraw` subtracts it from zero, and the changes
   behind it wait for ever (`StoredChangesApply`).

Observed while modelling, without a run of its own:

- A cut batch is pushed onto what its height holds already (`LibGateway.sol:288`),
  so a stored batch may exceed `maxMsgsPerBottomUpBatch`, the "Maximum number
  of messages per batch" (`LibGatewayActorStorage.sol:57`), and is then refused by
  the parent, with all messages behind it. With two messages per batch,
  five releases in one block are enough: the third and the fifth both cut at
  that block. `StoredBatchFits` in `CrossNet` states it; added to
  the invariants of `CrossNet.cfg` it is violated in this way.
- `applyFinalityChanges` weighs members by `confirmedCollateral`
  (`TopDownFinalityFacet.sol:61`) in every mode, and the tracker's permission
  mode is never set. After the first change a federated child has a membership
  without weight, for which `createQuorumInfo` reverts. The pair is
  therefore checked in the Collateral mode.
- A message whose receiver refuses the transfer blocks its direction: `applyCrossMessages`, or the
  batch, reverts with it, and nothing passes its nonce (`LibGateway.sol:362-391`). Nothing in
  the repository takes such a message out or pays it back. Top-down, the receivers are whatever
  address a user names in `fund`.
- `getTotalPowerOfValidators` and `isValidWeightedMultiSignature` add the power of a
  signatory that is listed twice a second time. The threshold therefore bounds a sum over
  a list, not a majority: one active validator listed often enough reaches it. What the pair promises
  then rests on what a member signs (`ParentConfirmsWhatChildApplied`, `RelayedInOrder`), not on
  how many members signed.
- The child's members may lack a quorum at the parent. The tracker never hears of what was
  put in before bootstrap, so after the first applied change only those are members that
  joined or staked since; the parent weighs them against all its active validators, and takes no
  checkpoint of theirs if that is not enough. `CollateralArrives` excepts this (`NextRefused`).
- At height 0 anybody is noted as a relayer before there is a checkpoint
  (`SubnetActorCheckpointingFacet.sol:59-71`), in `checkpointRewarded[0]`.
  `RelayedInOrder` is about the heights of checkpoints.
- A release queue that is full (65535 unclaimed withdrawals of one validator) reverts the
  checkpoint that confirms one more, and all later ones, until that validator claims;
  nobody else can. `ConfirmationNeverReverts` says that nothing else can do this.
- `preFund` does not look at the supply kind. The genesis funds of a token subnet are coins in the
  gateway, and its releases are paid in tokens: what was pre-funded would be paid from what others locked.
  `CrossNet` leaves out token subnets that were pre-funded.
- `kill` looks at `circSupply` only. A token message without an amount does not stop it, and is
  still delivered to the child afterwards. `KilledIsEmpty` is therefore about amounts.
- Thresholds are rounded down; with a total weight of 1 the threshold is 0, and the
  first signature, also of a member without weight, reaches it.
  `QuorumIsSigned` is stated so that this is allowed, and no quorum is reached unsigned.

## 6. Proofs

TLAPS checks the theorems for every value of the constants: any finite set of
validators, any limits, amounts, powers and modes that satisfy
`ValidatorSetAssumption` and `SubnetActorAssumption` (amounts are positive, the
limit of the active set is positive, and a subnet has a minimum collateral
exactly if it is not Federated, the constructor's check, `SubnetActorDiamond.sol`);
any majority between 51 and 100 (`QuorumAssumption`, `ParentAndChildAssumption`); any
period, batch size, amounts (zero included) and bounds (`CrossNetAssumption`); fewer validators than make a
queue's positions overflow (`DoubledPositionsFit`).

| Theorem | Module | Says |
| --- | --- | --- |
| `TypeCorrect` | `SubnetActor_proofs` | `TypeOK`: no account goes below zero, the log is exactly the changes between its two numbers |
| `WellFormed` | `SubnetActor_proofs` | `ValidatorSetWellFormed`, in every mode |
| `MembersCollateral` | `SubnetActor_proofs` | `MembersHaveCollateral`, where power is collateral |
| `KeysFunded` | `SubnetActor_proofs` | `GenesisKeysFunded`, both halves, in every mode |
| `BootstrapOwners` | `SubnetActor_proofs` | `BootstrapOwnersAreMembers`, where power is collateral |
| `GenesisLists` | `SubnetActor_proofs` | `GenesisListsMembers`, where power is collateral |
| `GatewayStake` | `SubnetActor_proofs` | `GatewayStakeMatches`, where power is collateral: finding 4 is only about the Federated mode |
| `LedgerImplemented` | `SubnetActor_proofs` | `ImplementsLedger`: the subnet actor implements `CollateralLedger`, in every mode |
| `LedgerNeverOverdraws` | `CollateralLedger_proofs` | in the ledger, both books stay in `Nat` and the head of the log never overdraws `confirmed` |
| `WithdrawalsCovered` | `SubnetActor_proofs` | the same for the subnet actor: no withdrawal in the log takes collateral that is not confirmed when its turn comes |
| `TotalCollateral` | `SubnetActor_proofs` | `TotalIsSum`: the running total is the sum of the records |
| `BooksAgree` | `SubnetActor_proofs` | `CollateralAgreesWithLog`: for each validator the two books differ by exactly what waits in the log |
| `Solvent`, `FundsSafe` | `SubnetActor_proofs` | `ActorSolvent`, `FundsAccounted` |
| `NeverReverts` | `SubnetActor_proofs` | `ConfirmationNeverReverts`, in every mode: only a full release queue keeps a checkpoint out, and a loop that began finds room |
| `ActiveMetadata` | `SubnetActor_proofs` | `ActiveHaveMetadata`, in every mode |
| `IncompleteListed`, `Decided` | `LibQuorum_proofs` | `IncompleteIsUnreached`, `DecisionsStand` |
| `QuorumTyped`, `QuorumSigned` | `LibQuorum_proofs` | `QuorumTypeOK`, `QuorumIsSigned` |
| `ParentIsSubnetActor` | `ParentAndChild_proofs` | `PairSpec => Spec`: the parent of the pair is a `SubnetActor`, and all theorems above hold there |
| `PairTyped` | `ParentAndChild_proofs` | `PairTypeOK` |
| `ChildLogDelivered` | `ParentAndChild_proofs` | `ChildLogIsParents`, for any deliveries |
| `CheckpointsConfirmable`, `ConfirmedAfterApplied` | `ParentAndChild_proofs` | every checkpoint carries a number the parent has recorded, and the whole of `ParentConfirmsWhatChildApplied`, with however often a signature is repeated, as members sign only what their child cut |
| `MembershipAdopted` | `ParentAndChild_proofs` | `ChildMembershipIsAdopted` |
| `CheckpointsInOrder` | `ParentAndChild_proofs` | `RelayedInOrder`, for any lists of signatures |
| `GenesisDifference`, `GenesisIsFixed` | `ParentAndChild_proofs` | `OnlyGenesisDiffers`, and that no step after bootstrap changes that difference |
| `CrossNetTyped` | `CrossNet_proofs` | `CrossNetTypeOK` |
| `ChannelsImplemented` | `CrossNet_proofs` | `ImplementsChannels`: both directions implement `OrderedChannel` |
| `SupplyBacked`, `KilledEmpty` | `CrossNet_proofs` | `SupplyConserved`; `KilledIsEmpty`, in amounts, as a message without one may be on its way |
| `BatchesComplete`, `RewardedAndPaid` | `CrossNet_proofs` | `BatchesHoldAll`, `RewardedBatchIsPaid` |
| `QueuesTyped`, `QueuesAreHeaps` | `ValidatorQueues_proofs` | `QueuesTypeOK`, `HeapsOrdered`, for heaps of any height |
| `QueuesReshuffleAsSets` | `ValidatorQueues_proofs` | `ReshuffleAsSets`: the heaps may be replaced by the sets of `ValidatorSet`, as all other modules do |

How the theorem modules are split: `ValidatorSet_proofs` has what one confirmation
does to the sets, for any validator set, and is used twice: by `SubnetActor_proofs`
(types, sets, members, genesis, then everything about amounts), and as an instance for the
child's tracker in `ParentAndChild_proofs`. `Sums_proofs` is about no contract: it makes the
sums of the community modules, and induction, usable in proofs.

The arguments:

- **Sums.** `MapThenSumSet` and `FoldSeq` unfold to a recursive function chosen by
  `CHOOSE`. `Sums_proofs` shows that this function exists for every finite set of
  integers, that it is the only one, and that the order in which it takes the terms does
  not matter (`SumRemove`). The induction theorems of the library take an operator as
  a parameter, which the provers cannot instantiate; `NumbersByInduction` and
  `SubsetsByInduction` say the same of a *set* of numbers or subsets, from the library's
  `WFMin`, and are what every induction of the project uses.
- **Well-formed sets.** `ValidatorSet_proofs` shows that one confirmation keeps
  the sets well formed: an increase exchanges at most one validator, a reduction
  promotes the strongest waiting one, and only the power of one validator
  changed. `ValidatorSetWellFormed` alone is not inductive: a deposit reshuffles
  by *collateral* in the Federated mode too, where the order is by *power*. It
  is harmless because nobody has power before `setFederatedPower` and nobody
  deposits after it. `WellFormedInv` says so (`PowerComesWithFederation`,
  `LogStartsAtBootstrap`), together with what the log may contain in each mode.
- **Members.** A deposit of zero would make a member without collateral, so the
  log must hold no empty change (`LogPositive`); withdrawals need the sets to be
  disjoint, which is `WellFormed`.
- **Genesis.** Until bootstrap nothing waits for confirmation
  (`ConfirmedAtOnce`), so what `unstake` leaves of the total is left of the
  confirmed collateral, and the validator stays a member. `KeysInv` adds to
  `GenesisKeysFunded` that a depositor is a genesis validator (`DepositorsListed`), so that
  whoever leaves, and keeps a balance unlisted, is one.
- **The two books.** `TotalIsSum` and `CollateralAgreesWithLog` are inductive with
  `TypeOK`. The log is a function on an interval of configuration numbers that grows at one end and
  shrinks at the other; `PendingRecord`, `PendingJoin` and `PendingConfirm` say what
  one change more or less does to the sum of what is pending.
- **Solvency.** `SolventInv` adds to `ActorSolvent` that nothing is owed before bootstrap:
  no release, an empty log. The case that needs more is `kill`: the actor takes back
  the gateway's stake, which is the total by `StakeInv`; nobody is a member, so each term of
  the total is 0, and so is the sum. `FundsInv` adds to `FundsAccounted` that
  only those who may pre-fund have a genesis balance, since `leave` refunds it together with the
  collateral.
- **Confirmation never reverts.** `BooksInv` is all of the above at once: the ledger's
  chronicle covers the collateral, `TotalIsSum` the running total, `StakeInv` what the
  gateway gives back, `SolventInv` what is paid to it. In the
  Federated mode, `PowerfulAreMembers` says that power is only on the record of a member.
  The release queues need `RoomInv`: while a loop runs, each queue has room for all
  withdrawals that the loop has still to confirm. `SubmitCheckpoint` establishes it, each confirmed
  withdrawal takes one from both sides, and nothing else moves while the loop runs.
- **Public keys.** The key goes with a validator's last collateral, total and
  confirmed, while the deposits of its next join may wait in the log.
  `MetadataInv` speaks about the chronicle: a deposit that finds its validator without
  collateral in the book of its turn comes right behind a change that sets the key.
- **Stake.** Before bootstrap deposits move the running total alone; the
  invariant `StakeInv` adds that no subnet is registered before its bootstrap.

- **Ledger.** A withdrawal is checked against the total and subtracted from the
  confirmed collateral later. The invariant is a *chronicle*: there is a function
  from the unconfirmed configuration numbers to books, starting at
  `confirmed`, ending at `supplied`, each book the one before with one
  entry applied, and none negative. Recording extends it, confirming drops its
  first book, and the second book is what the head of the log needs. No sum
  and no induction is involved. `LedgerImplemented` then maps each action of
  `SubnetActor` to a step of the ledger or a stutter; it rests on `TypeCorrect`
  and on `WellFormedInv`, by which the log is empty before bootstrap.
- **Quorums.** `ListAgrees` says for all heights what `IncompleteIsUnreached` says,
  and that a height below the retention height has no quorum: what pruning leaves in
  the list is never met again because heights below it are refused. `SignedInv` adds
  that a height has no senders before its quorum is created, so that a new quorum starts with
  none; the weight of one more signer is one more term of a sum.
- **Parent and child.** `PairLogInv` says that the events number every change ever
  recorded from 1 without a gap, and that the child's log lies within them.
  `NumbersMatch` then leaves one piece that can be stored, the one that
  starts with the child's next number. A checkpoint carries 0 or one less than the
  child's next number, which is at most the parent's. The proof uses
  `TypeNext` of the subnet actor for everything else it does.
- **The pair as an actor.** A relayed checkpoint confirms a number that the parent has
  recorded (`PairLogInv`), so every step of the pair is a step of `SubnetActor` or leaves it
  alone, and its theorems need not be proved again.
- **Checkpoints.** `ChildInv` says that the membership is the tracker's active set under the last
  applied number. `CutInv` follows the number through the checkpoints: each is signed by
  the membership whose number the one before *carried*, where a checkpoint that confirms
  nothing carries the number of its own membership; `RelayInv` says that `confirmUpTo`
  is what the last taken checkpoint carried. Together they give `RelayedInOrder`, and, as
  carried numbers grow and the last one is at most what the child has applied,
  `ParentConfirmsWhatChildApplied`.
- **Genesis difference.** `TrackedInv` says that the child's collateral is what the requests
  it applied add up to, and the parent's log is a piece of the same requests; with
  `CollateralAgreesWithLog` the rest is a sum split in two pieces (`PieceSplit`).
- **Channels.** Messages carry the number of their sending, what was received is a
  beginning of what was sent, up to the receiver's nonce, and every stored batch
  holds sent messages only, in whatever order (`CrossNetInv`). Hence any batch whose
  nonces fit is the continuation (`FittingContinues`), which does not need that
  batches are in order of height. The nonces at the parent say something only
  while the subnet is registered: `kill` resets them, and no message is sent down or
  paid after it.

- **Supply.** The balances follow the messages: custody and wallets change with what is sent and
  executed, `Total` of a sequence is a sum over its positions (`TotalAppend`,
  `TotalConcat`), and what is on its way is the rest of the sequence. `FundsInv` adds that whoever
  is not registered has no supply, so that `register` and `kill` find nothing to lose.
- **Batches.** `Joined` puts the batches of all heights together, defined by recursion over
  heights and shown to be `FlattenSeq`. No height after the current block holds a message,
  except the end of the current epoch; so a message is added at the end, and a batch
  that is cut moves over empty heights only (`JoinedCut`). The same
  fact keeps an executed batch as it was executed, because its height has passed (`RewardsInv`).

- **Heaps.** A heap under repair is in order but around one position (`AroundOrdered`:
  everything else is in order, and what is below the position is not smaller than what is above
  it). The key at the position may be anything: of an appended validator, of one that took
  a deleted one's place, or one that changed in place (`KeyChange`). A round of `swim` (`RoundUp`)
  or of `sink` (`RoundDown`, which needs the *smaller* child) moves the position by a level, so
  the loops end within as many rounds as there are positions, by induction over rounds
  (`SwimHeap`, `SinkHeap`). `deleteReheapify` needs both: if the key that took the place
  is too small, it is not too large, and after `swim` everything is a heap already (`DeleteHeap`).
- **Queues.** `QueuesTypeOK` and `HeapsOrdered` are not inductive together: `insert` into the
  active queue does not look whether the validator waits. `Settled` adds that
  nobody is in both queues, and that nobody waits while there is room in the active set. Then the top
  of each heap is a weakest (strongest) member (`TopOfHeap`), the members are as many as
  the positions (`SizeIsCardinality`), and each branch of the two procedures is one of `ValidatorSet`.

Only model-checked: the liveness properties `CollateralArrives`, `QuorumArrives`
and `FundsArrive`, which are beyond the provers.

## 7. Not modelled

- Getters, address and message formats: no state change.
- The diamond's selector tables and ownership (adapted reference code; the owner
  is one fixed party), the registry (one transaction that writes two entries and has
  nothing to interleave with), vendored libraries.
- The array under the release queue, and partial claims: unreachable while nothing
  sets a locking duration (see the plan). Amount and length are modelled.
- The genesis supply of a token subnet, and general calls to contracts.
- Relayer rewards beyond who is noted for which checkpoint, the postbox,
  `propagate` and general calls: switched off by `GatewayDiamond.sol:19-23`.
- The generated Rust bindings under `src/binding`. They are produced from the
  contracts' ABIs and hold no logic. They are also the bulk of the repository's
  lines, so a count of lines over them says little about these models:
  what is modelled is Solidity, about 6400 lines under `src/src`, of which the
  entries of `map` name what each definition stands for.
