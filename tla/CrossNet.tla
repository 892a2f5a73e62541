------------------------------ MODULE CrossNet ------------------------------
(***************************************************************************)
(* Funds between a parent and its child: the gateway of the parent keeps   *)
(* what was sent down in custody, the gateway of the child burns what is   *)
(* sent back, and messages carry the difference, numbered by nonces. The   *)
(* supply of the child is coins or tokens of the parent.                   *)
(*                                                                         *)
(* Top-down messages are events of the parent which the child's client     *)
(* applies; bottom-up messages are collected in batches per epoch, which a *)
(* relayer submits to the parent's subnet actor. The client and the        *)
(* relayers are not part of the repository: they deliver any piece of what *)
(* they can read, again, too early or too late. A batch of the child is    *)
(* signed when its height has passed. The receiver of a message may refuse *)
(* the transfer, which reverts the transaction that executes it.           *)
(***************************************************************************)
EXTENDS Integers, Sequences, FiniteSetsExt, SequencesExt

CONSTANTS
    Values,             \* amounts of a fund or a release
    GenesisSupply,      \* amounts that a subnet may be registered with
    Wealth,             \* what the users of the parent own at first
    Relayer,            \* accounts that submit batches
    BatchPeriod,        \* bottomUpMsgBatchPeriod
    MaxMsgsPerBatch,    \* maxMsgsPerBottomUpBatch
    MaxBlock,           \* last block of the child
    MaxTopDown,         \* bounds on the messages sent in either direction
    MaxBottomUp,
    MaxRefused          \* and on those of a direction whose receivers refuse them

ASSUME CrossNetAssumption ==
    /\ Values \subseteq Nat
    /\ GenesisSupply \subseteq Nat
    /\ Wealth \in Nat
    /\ BatchPeriod \in Nat \ {0}
    /\ MaxMsgsPerBatch \in Nat \ {0}
    /\ MaxBlock \in Nat \ {0}
    /\ {MaxTopDown, MaxBottomUp, MaxRefused} \subseteq Nat

VARIABLES
    \* the gateway and the subnet actor of the parent
    supplyKind,            \* supplySource.kind, which the actor is deployed with
    registered,            \* whether the gateway knows the subnet
    circSupply,            \* Subnet.circSupply
    topDownNonce,          \* Subnet.topDownNonce
    appliedBottomUpNonce,  \* Subnet.appliedBottomUpNonce
    custody,               \* what the gateway holds for the subnet (coins or tokens)
    parentWallets,         \* what users of the parent own
    topDown,               \* events NewTopDownMessage: every message ever sent down
    lastBottomUpBatch,     \* [height, msgs] of the last batch executed
    batchRewarded,         \* height -> relayers to be rewarded
    \* the gateway of the child
    block,                 \* its block number; 0 before genesis
    bottomUpNonce,
    bottomUpMsgBatches,    \* height -> messages; empty where there is no batch
    appliedTopDownNonce,
    childWallets,          \* what users of the child own
    \* history
    bottomUp,              \* every message ever sent up
    paidDown, paidUp       \* every message executed in the child, in the parent

parentVars == <<supplyKind, registered, circSupply, topDownNonce, appliedBottomUpNonce, custody,
                parentWallets, topDown, lastBottomUpBatch, batchRewarded, paidUp>>
childVars == <<block, bottomUpNonce, bottomUpMsgBatches, appliedTopDownNonce, childWallets,
               bottomUp, paidDown>>
crossVars == <<parentVars, childVars>>

\* refused: whether the receiver refuses the transfer, each time it is tried.
Message == [nonce : Nat, value : Values, refused : BOOLEAN]
LastEpoch == (MaxBlock \div BatchPeriod + 1) * BatchPeriod
Height == 1..LastEpoch

Total(msgs) == FoldSeq(LAMBDA m, sum : m.value + sum, 0, msgs)

\* Accounts, counters and messages are what their names say.
CrossNetTypeOK ==
    /\ supplyKind \in {"Native", "ERC20"}
    /\ registered \in BOOLEAN
    /\ {circSupply, topDownNonce, appliedBottomUpNonce, custody, parentWallets} \subseteq Nat
    /\ {bottomUpNonce, appliedTopDownNonce, childWallets} \subseteq Nat
    /\ topDown \in Seq(Message) /\ bottomUp \in Seq(Message)
    /\ paidDown \in Seq(Message) /\ paidUp \in Seq(Message)
    /\ lastBottomUpBatch \in [height : Nat, msgs : Seq(Message)]
    /\ batchRewarded \in [Height -> SUBSET Relayer]
    /\ block \in 0..MaxBlock
    /\ bottomUpMsgBatches \in [Height -> Seq(Message)]

CrossNetInit ==
    /\ supplyKind \in {"Native", "ERC20"}
    /\ registered = FALSE
    /\ circSupply = 0 /\ custody = 0
    /\ topDownNonce = 0 /\ appliedBottomUpNonce = 0
    /\ parentWallets = Wealth
    /\ topDown = <<>>
    /\ lastBottomUpBatch = [height |-> 0, msgs |-> <<>>]
    /\ batchRewarded = [h \in Height |-> {}]
    /\ block = 0
    /\ bottomUpNonce = 0 /\ appliedTopDownNonce = 0
    /\ bottomUpMsgBatches = [h \in Height |-> <<>>]
    /\ childWallets = 0
    /\ bottomUp = <<>>
    /\ paidDown = <<>> /\ paidUp = <<>>

-----------------------------------------------------------------------------
\* The subnet actor registers once. What it brings as genesis supply belongs to
\* users of the child from its first block on. It is coins: that of a subnet with
\* tokens, which would be released as tokens, is left out.
Register(genesisCircSupply) ==
    /\ block = 0
    /\ genesisCircSupply = 0 \/ supplyKind = "Native"
    /\ genesisCircSupply <= parentWallets
    /\ registered' = TRUE
    /\ circSupply' = genesisCircSupply
    /\ custody' = custody + genesisCircSupply
    /\ parentWallets' = parentWallets - genesisCircSupply
    /\ block' = 1
    /\ childWallets' = genesisCircSupply
    /\ UNCHANGED <<supplyKind, topDownNonce, appliedBottomUpNonce, topDown, lastBottomUpBatch,
                   batchRewarded, paidUp, bottomUpNonce, bottomUpMsgBatches,
                   appliedTopDownNonce, bottomUp, paidDown>>

\* How many receivers refuse is bounded.
RefusalsFit(sent, refused) ==
    refused => Cardinality({n \in DOMAIN sent : sent[n].refused}) < MaxRefused

\* Variant: the nonce of the message before.
PreviousMsg(value, refused) ==
    [nonce |-> topDownNonce - 1, value |-> value, refused |-> refused]

\* Variant: the nonce is raised first.
SuccessorMsg(value, refused) ==
    [nonce |-> topDownNonce + 1, value |-> value, refused |-> refused]

TopDownMsg(value, refused) ==
    [nonce |-> topDownNonce, value |-> value, refused |-> refused]

\* fund, and fundWithToken where the supply is a token: the value, which may be 0
\* for tokens only, is taken into custody and a message is committed (commitTopDownMsg).
Fund(value, refused) ==
    /\ registered
    /\ value > 0 \/ supplyKind = "ERC20"
    /\ value <= parentWallets
    /\ Len(topDown) < MaxTopDown
    /\ RefusalsFit(topDown, refused)
    /\ parentWallets' = parentWallets - value
    /\ custody' = custody + value
    /\ circSupply' = circSupply + value
    /\ topDown' = Append(topDown, TopDownMsg(value, refused))
    /\ topDownNonce' = topDownNonce + 1
    /\ UNCHANGED <<supplyKind, registered, appliedBottomUpNonce, lastBottomUpBatch,
                   batchRewarded, paidUp, childVars>>

\* Variant: the nonces are not looked at.
AnyNonceFits(msgs, nonce) == msgs # <<>>

\* applyMsg: each message must carry the next nonce, or the whole batch reverts.
NoncesFit(msgs, nonce) == \A i \in DOMAIN msgs : msgs[i].nonce = nonce + i - 1

NonceAfter(nonce, msgs) == nonce + Len(msgs)

\* execute: a transfer that its receiver refuses reverts, and with it all messages
\* of the transaction and the nonces they raised.
NoneRefused(msgs) == \A i \in DOMAIN msgs : ~msgs[i].refused

\* applyCrossMessages: the system actor mints the value that it delivers.
ApplyCrossMessages(msgs) ==
    /\ block > 0
    /\ NoncesFit(msgs, appliedTopDownNonce)
    /\ NoneRefused(msgs)
    /\ appliedTopDownNonce' = NonceAfter(appliedTopDownNonce, msgs)
    /\ childWallets' = childWallets + Total(msgs)
    /\ paidDown' = paidDown \o msgs
    /\ UNCHANGED <<parentVars, block, bottomUpNonce, bottomUpMsgBatches, bottomUp>>

-----------------------------------------------------------------------------
NextEpoch == (block \div BatchPeriod + 1) * BatchPeriod

\* Variant: what is cut replaces what the height had before.
CutReplaces(batches, height, msgs) == [batches EXCEPT ![height] = msgs]

\* storeBottomUpMsgBatch pushes the messages onto those the height has already.
CutBatch(batches, height, msgs) == [batches EXCEPT ![height] = @ \o msgs]

\* Variant: the block before.
PreviousBlock == block - 1

CutHeight == block

\* commitBottomUpMsg. A message that finds the batch of its epoch full has that
\* batch cut at the current block, and starts it anew.
CommitBottomUpMsg(m) ==
    LET batch == bottomUpMsgBatches[NextEpoch]
        cut == CutBatch(bottomUpMsgBatches, CutHeight, batch)
    IN  bottomUpMsgBatches' =
            IF Len(batch) = MaxMsgsPerBatch
            THEN [cut EXCEPT ![NextEpoch] = <<m>>]
            ELSE [bottomUpMsgBatches EXCEPT ![NextEpoch] = Append(@, m)]

\* release: the value is burned and a message is committed.
Release(value, refused) ==
    /\ block > 0
    /\ value > 0
    /\ value <= childWallets
    /\ Len(bottomUp) < MaxBottomUp
    /\ RefusalsFit(bottomUp, refused)
    /\ LET m == [nonce |-> bottomUpNonce, value |-> value, refused |-> refused]
       IN  CommitBottomUpMsg(m) /\ bottomUp' = Append(bottomUp, m)
    /\ bottomUpNonce' = bottomUpNonce + 1
    /\ childWallets' = childWallets - value
    /\ UNCHANGED <<parentVars, block, appliedTopDownNonce, paidDown>>

NextBlock ==
    /\ block \in 1..(MaxBlock - 1)
    /\ block' = block + 1
    /\ UNCHANGED <<parentVars, bottomUpNonce, bottomUpMsgBatches, appliedTopDownNonce,
                   childWallets, bottomUp, paidDown>>

-----------------------------------------------------------------------------
\* The checks of submitBottomUpMsgBatch on a batch by itself.
AcceptedBatch(height, msgs) ==
    /\ Len(msgs) \in 1..MaxMsgsPerBatch
    /\ Len(msgs) = MaxMsgsPerBatch \/ height % BatchPeriod = 0

\* Variant: the supply is not reduced.
SupplyKept(msgs) == circSupply

SupplyAfter(msgs) == circSupply - Total(msgs)

\* execBottomUpMsgBatch, with applyMessages and the transfers.
ExecBottomUpMsgBatch(msgs) ==
    /\ registered
    /\ circSupply >= Total(msgs)
    /\ circSupply' = SupplyAfter(msgs)
    /\ NoncesFit(msgs, appliedBottomUpNonce)
    /\ NoneRefused(msgs)
    /\ appliedBottomUpNonce' = NonceAfter(appliedBottomUpNonce, msgs)
    /\ custody' = custody - Total(msgs)
    /\ parentWallets' = parentWallets + Total(msgs)
    /\ paidUp' = paidUp \o msgs

SubmitBottomUpMsgBatch(height, relayer) ==
    LET msgs == bottomUpMsgBatches[height]
    IN  /\ height < block
        /\ height > lastBottomUpBatch.height
        /\ AcceptedBatch(height, msgs)
        /\ lastBottomUpBatch' = [height |-> height, msgs |-> msgs]
        /\ batchRewarded' = [batchRewarded EXCEPT ![height] = @ \cup {relayer}]
        /\ ExecBottomUpMsgBatch(msgs)
        /\ UNCHANGED <<supplyKind, registered, topDownNonce, topDown, childVars>>

\* The last batch again: only the relayer is noted.
RepeatBottomUpMsgBatch(relayer) ==
    /\ lastBottomUpBatch.height > 0
    /\ batchRewarded' = [batchRewarded EXCEPT ![lastBottomUpBatch.height] = @ \cup {relayer}]
    /\ UNCHANGED <<supplyKind, registered, circSupply, topDownNonce, appliedBottomUpNonce,
                   custody, parentWallets, topDown, lastBottomUpBatch, paidUp, childVars>>

\* Variant: the supply is not looked at.
KillableWithSupply == registered

Killable == registered /\ circSupply = 0

\* kill, called by the subnet actor when its validators have left. The record of
\* the subnet is deleted, nonces included.
Kill ==
    /\ Killable
    /\ registered' = FALSE
    /\ circSupply' = 0
    /\ topDownNonce' = 0
    /\ appliedBottomUpNonce' = 0
    /\ UNCHANGED <<supplyKind, custody, parentWallets, topDown, lastBottomUpBatch,
                   batchRewarded, paidUp, childVars>>

CrossNetNext ==
    \/ \E genesisCircSupply \in GenesisSupply : Register(genesisCircSupply)
    \/ \E value \in Values, refused \in BOOLEAN : Fund(value, refused)
    \/ \E i, j \in DOMAIN topDown : i <= j /\ ApplyCrossMessages(SubSeq(topDown, i, j))
    \/ \E value \in Values, refused \in BOOLEAN : Release(value, refused)
    \/ NextBlock
    \/ \E height \in Height, relayer \in Relayer : SubmitBottomUpMsgBatch(height, relayer)
    \/ \E relayer \in Relayer : RepeatBottomUpMsgBatch(relayer)
    \/ Kill

CrossNetSpec == CrossNetInit /\ [][CrossNetNext]_crossVars

\* The client keeps applying the next message that it can read.
ApplyNextMessage ==
    /\ appliedTopDownNonce < Len(topDown)
    /\ ApplyCrossMessages(<<topDown[appliedTopDownNonce + 1]>>)

FairCrossNetSpec == CrossNetSpec /\ WF_crossVars(ApplyNextMessage)

-----------------------------------------------------------------------------
(***************************************************************************)
(* Properties.                                                             *)
(***************************************************************************)

\* Each direction is an ordered channel that loses and repeats nothing.
Down == INSTANCE OrderedChannel WITH sent <- topDown, received <- paidDown
Up == INSTANCE OrderedChannel WITH sent <- bottomUp, received <- paidUp

\* Every message is executed once, in the order of sending, although pieces are
\* delivered again and out of order: each direction is an ordered channel
\* (applyMsg).
ImplementsChannels == Down!ChannelSpec /\ Up!ChannelSpec

OnItsWay(sent, received) == Total(SubSeq(sent, Len(received) + 1, Len(sent)))

\* The child's supply at the parent is what its users own and what is on its way
\* in both directions, and all of it is in the gateway's custody: a release is
\* never refused for lack of supply, and nothing is minted that is not backed.
SupplyConserved ==
    /\ circSupply = childWallets + OnItsWay(topDown, paidDown) + OnItsWay(bottomUp, paidUp)
    /\ custody = circSupply

\* The batches, by height, hold every message sent up, each once and in order of
\* the nonces: cutting a full batch neither loses one nor lets a later batch
\* come before an earlier one (commitBottomUpMsg).
BatchesHoldAll ==
    FlattenSeq([h \in Height |-> bottomUpMsgBatches[h]]) = bottomUp

\* A relayer is noted for a batch only if all its messages were executed, and as
\* they are stored in the child (submitBottomUpMsgBatch).
RewardedBatchIsPaid ==
    /\ \A h \in Height :
          batchRewarded[h] # {} => ToSet(bottomUpMsgBatches[h]) \subseteq ToSet(paidUp)
    /\ \A h \in Height :
          h = lastBottomUpBatch.height => lastBottomUpBatch.msgs = bottomUpMsgBatches[h]

\* No subnet is killed while the child, or a message, holds funds of it. Messages
\* without an amount, which fundWithToken takes, may still be on their way (kill).
KilledIsEmpty ==
    block > 0 /\ ~registered =>
        /\ childWallets = 0
        /\ OnItsWay(topDown, paidDown) = 0
        /\ OnItsWay(bottomUp, paidUp) = 0

\* Funds that were sent down arrive, in whatever pieces they are applied and also when
\* the subnet is killed -- unless their receiver, or one before it, refuses them: the
\* nonce of that message is then never passed (applyMsg, execute).
FundsArrive ==
    \A n \in 1..MaxTopDown :
        Len(topDown) >= n /\ NoneRefused(SubSeq(topDown, 1, n)) ~> Len(paidDown) >= n

\* "Maximum number of messages per batch" (LibGatewayActorStorage 57).
StoredBatchFits == \A h \in Height : Len(bottomUpMsgBatches[h]) <= MaxMsgsPerBatch
=============================================================================
