--------------------------- MODULE CrossNet_proofs ---------------------------
(***************************************************************************)
(* Proofs about CrossNet, for any amounts, epochs and batch sizes, and     *)
(* however long either direction is. Each direction implements the ordered *)
(* channel of OrderedChannel, whatever the client and the relayers         *)
(* deliver, again or out of order, and also when the subnet is killed; the *)
(* supply is backed by what is kept for it; the batches joined by height   *)
(* are all that was sent; relayers are noted for what was executed.        *)
(*                                                                         *)
(* The inductive invariant of the channels says that messages carry the    *)
(* numbers of their sending, that what was received is the beginning of    *)
(* what was sent up to the receiver's nonce, and that a batch holds sent   *)
(* messages only. The nonces at the parent count only while the subnet is  *)
(* registered. The other three rest on it, each with an invariant of its   *)
(* own in a section of its own.                                            *)
(***************************************************************************)
EXTENDS CrossNet, SequenceTheorems, Sums_proofs

\* What was received is a beginning of what was sent, which is numbered from 0.
Ordered(sent, received) ==
    /\ sent \in Seq(Message)
    /\ \A n \in 1..Len(sent) : sent[n].nonce = n - 1
    /\ received \in Seq(Message)
    /\ Len(received) <= Len(sent)
    /\ received = SubSeq(sent, 1, Len(received))

\* Messages that were sent, in any order.
SentOnly(msgs, sent) ==
    /\ msgs \in Seq(Message)
    /\ \A k \in 1..Len(msgs) : \E n \in 1..Len(sent) : msgs[k] = sent[n]

DownInv ==
    /\ Ordered(topDown, paidDown)
    /\ appliedTopDownNonce = Len(paidDown)
    /\ registered => topDownNonce = Len(topDown)

UpInv ==
    /\ Ordered(bottomUp, paidUp)
    /\ bottomUpNonce = Len(bottomUp)
    /\ registered => appliedBottomUpNonce = Len(paidUp)
    /\ bottomUpMsgBatches = [h \in Height |-> bottomUpMsgBatches[h]]
    /\ \A h \in Height : SentOnly(bottomUpMsgBatches[h], bottomUp)

\* Nothing happens before the subnet is registered.
BeforeGenesis ==
    /\ block \in 0..MaxBlock
    /\ block = 0 => /\ ~registered
                    /\ topDown = <<>> /\ topDownNonce = 0
                    /\ paidUp = <<>> /\ appliedBottomUpNonce = 0

CrossNetInv == DownInv /\ UpInv /\ BeforeGenesis

-----------------------------------------------------------------------------
(***************************************************************************)
(* Sequences of messages.                                                  *)
(***************************************************************************)

\* A beginning of a sequence, as a function.
LEMMA Beginning ==
    ASSUME NEW S, NEW s \in Seq(S), NEW n \in 0..Len(s)
    PROVE  /\ SubSeq(s, 1, n) \in Seq(S)
           /\ Len(SubSeq(s, 1, n)) = n
           /\ \A i \in 1..n : SubSeq(s, 1, n)[i] = s[i]
<1>1. Len(s) \in Nat /\ n \in Int
    BY LenProperties
<1>2. \A i \in 1..n : s[i] \in S
    <2> TAKE i \in 1..n
    <2>1. i \in 1..Len(s)
        BY <1>1
    <2> QED
        BY <2>1, ElementOfSeq
<1>3. /\ SubSeq(s, 1, n) \in Seq(S)
      /\ Len(SubSeq(s, 1, n)) = IF 1 <= n THEN n - 1 + 1 ELSE 0
      /\ \A i \in 1..(n - 1 + 1) : SubSeq(s, 1, n)[i] = s[1 + i - 1]
    BY <1>1, <1>2, SubSeqProperties
<1>4. \A i \in 1..n : SubSeq(s, 1, n)[i] = s[i]
    <2> TAKE i \in 1..n
    <2>1. 1 + i - 1 = i /\ i \in 1..(n - 1 + 1)
        BY <1>1
    <2> QED
        BY <1>3, <2>1
<1>5. Len(SubSeq(s, 1, n)) = n
    BY <1>1, <1>3
<1> QED
    BY <1>3, <1>4, <1>5

\* Sending one more message changes nothing of what was sent.
LEMMA OneMore ==
    ASSUME NEW S, NEW s \in Seq(S), NEW m \in S, NEW n \in 0..Len(s)
    PROVE  SubSeq(Append(s, m), 1, n) = SubSeq(s, 1, n)
<1>1. /\ Append(s, m) \in Seq(S)
      /\ Len(Append(s, m)) = Len(s) + 1
      /\ \A i \in 1..Len(s) : Append(s, m)[i] = s[i]
    BY AppendProperties
<1>2. Len(s) \in Nat /\ n \in 0..Len(Append(s, m))
    BY <1>1, LenProperties
<1>3. /\ SubSeq(Append(s, m), 1, n) \in Seq(S)
      /\ Len(SubSeq(Append(s, m), 1, n)) = n
      /\ \A i \in 1..n : SubSeq(Append(s, m), 1, n)[i] = Append(s, m)[i]
    BY <1>1, <1>2, Beginning
<1>4. /\ SubSeq(s, 1, n) \in Seq(S)
      /\ Len(SubSeq(s, 1, n)) = n
      /\ \A i \in 1..n : SubSeq(s, 1, n)[i] = s[i]
    BY Beginning
<1>5. \A i \in 1..n : i \in 1..Len(s)
    BY <1>2
<1>6. \A i \in 1..n : SubSeq(Append(s, m), 1, n)[i] = SubSeq(s, 1, n)[i]
    BY <1>1, <1>3, <1>4, <1>5
<1> QED
    BY <1>3, <1>4, <1>6, SeqEqual

\* A sent message that carries the next nonce is the next one: a batch whose
\* nonces fit continues what was received.
LEMMA FittingContinues ==
    ASSUME NEW sent, NEW received, NEW msgs,
           Ordered(sent, received), SentOnly(msgs, sent), NoncesFit(msgs, Len(received))
    PROVE  /\ Ordered(sent, received \o msgs)
           /\ Len(received \o msgs) = Len(received) + Len(msgs)
           /\ Len(received) + Len(msgs) \in Len(received)..Len(sent)
<1>1. /\ sent \in Seq(Message) /\ received \in Seq(Message) /\ msgs \in Seq(Message)
      /\ \A n \in 1..Len(sent) : sent[n].nonce = n - 1
      /\ Len(received) <= Len(sent)
      /\ received = SubSeq(sent, 1, Len(received))
    BY DEF Ordered, SentOnly
<1>2. Len(sent) \in Nat /\ Len(received) \in Nat /\ Len(msgs) \in Nat /\ DOMAIN msgs = 1..Len(msgs)
    BY <1>1, LenProperties
<1>3. ASSUME NEW k \in 1..Len(msgs)
      PROVE  Len(received) + k \in 1..Len(sent) /\ msgs[k] = sent[Len(received) + k]
    <2>1. PICK n \in 1..Len(sent) : msgs[k] = sent[n]
        BY <1>3 DEF SentOnly
    <2>2. msgs[k].nonce = Len(received) + k - 1
        BY <1>2, <1>3 DEF NoncesFit
    <2>3. sent[n].nonce = n - 1
        BY <1>1, <2>1
    <2>4. n = Len(received) + k
        BY <1>2, <1>3, <2>1, <2>2, <2>3
    <2> QED
        BY <2>1, <2>4
<1>4. Len(received) + Len(msgs) \in Len(received)..Len(sent)
    <2>1. CASE Len(msgs) = 0
        BY <1>1, <1>2, <2>1
    <2>2. CASE Len(msgs) # 0
        <3>1. Len(msgs) \in 1..Len(msgs)
            BY <1>2, <2>2
        <3>2. Len(received) + Len(msgs) \in 1..Len(sent)
            BY <1>3, <3>1
        <3> QED
            BY <1>2, <3>2
    <2> QED
        BY <2>1, <2>2
<1> DEFINE both == received \o msgs
           last == Len(received) + Len(msgs)
<1>5. /\ both \in Seq(Message)
      /\ Len(both) = last
      /\ \A i \in 1..last : both[i] = IF i <= Len(received) THEN received[i]
                                                            ELSE msgs[i - Len(received)]
    BY <1>1, ConcatProperties
<1>6. /\ SubSeq(sent, 1, last) \in Seq(Message)
      /\ Len(SubSeq(sent, 1, last)) = last
      /\ \A i \in 1..last : SubSeq(sent, 1, last)[i] = sent[i]
    <2>1. last \in 0..Len(sent)
        BY <1>2, <1>4
    <2> HIDE DEF last
    <2> QED
        BY <1>1, <2>1, Beginning
<1>7. \A i \in 1..Len(received) : received[i] = sent[i]
    <2>1. Len(received) \in 0..Len(sent)
        BY <1>1, <1>2
    <2>2. \A i \in 1..Len(received) : SubSeq(sent, 1, Len(received))[i] = sent[i]
        BY <1>1, <2>1, Beginning
    <2> QED
        BY <1>1, <2>2
<1>8. ASSUME NEW i \in 1..last
      PROVE  both[i] = sent[i]
    <2>1. CASE i <= Len(received)
        <3>1. i \in 1..Len(received)
            BY <1>2, <1>8, <2>1
        <3> QED
            BY <1>5, <1>7, <1>8, <2>1, <3>1
    <2>2. CASE ~(i <= Len(received))
        <3>1. i - Len(received) \in 1..Len(msgs) /\ Len(received) + (i - Len(received)) = i
            BY <1>2, <1>8, <2>2
        <3>2. both[i] = msgs[i - Len(received)]
            BY <1>5, <1>8, <2>2
        <3> QED
            BY <1>3, <3>1, <3>2
    <2> QED
        BY <2>1, <2>2
<1>9. both = SubSeq(sent, 1, last)
    <2> HIDE DEF both, last
    <2> QED
        BY <1>5, <1>6, <1>8, SeqEqual
<1>10. last <= Len(sent)
    BY <1>2, <1>4
<1> HIDE DEF both
<1> QED
    BY <1>1, <1>4, <1>5, <1>9, <1>10 DEF Ordered, both

\* Sending keeps what was received.
LEMMA SendingKeeps ==
    ASSUME NEW sent, NEW received, NEW value \in Values, NEW refused \in BOOLEAN,
           Ordered(sent, received), NEW more,
           more = Append(sent, [nonce |-> Len(sent), value |-> value, refused |-> refused])
    PROVE  /\ Ordered(more, received)
           /\ Len(more) = Len(sent) + 1
           /\ SubSeq(more, 1, Len(sent)) = sent
<1> DEFINE m == [nonce |-> Len(sent), value |-> value, refused |-> refused]
<1>1. /\ sent \in Seq(Message) /\ received \in Seq(Message)
      /\ \A n \in 1..Len(sent) : sent[n].nonce = n - 1
      /\ Len(received) <= Len(sent)
      /\ received = SubSeq(sent, 1, Len(received))
    BY DEF Ordered
<1>2. Len(sent) \in Nat /\ Len(received) \in Nat
    BY <1>1, LenProperties
<1>3. m \in Message /\ m.nonce = Len(sent) + 1 - 1
    BY <1>2 DEF Message
<1> HIDE DEF m
<1>4. /\ more \in Seq(Message)
      /\ Len(more) = Len(sent) + 1
      /\ \A i \in 1..Len(sent) : more[i] = sent[i]
      /\ more[Len(sent) + 1] = m
    BY <1>1, <1>3, AppendProperties DEF m
<1>5. \A n \in 1..Len(more) : more[n].nonce = n - 1
    <2> TAKE n \in 1..Len(more)
    <2>1. n \in 1..Len(sent) \/ n = Len(sent) + 1
        BY <1>2, <1>4
    <2> QED
        BY <1>1, <1>3, <1>4, <2>1
<1>6. /\ SubSeq(more, 1, Len(received)) = SubSeq(sent, 1, Len(received))
      /\ SubSeq(more, 1, Len(sent)) = SubSeq(sent, 1, Len(sent))
    <2>1. Len(received) \in 0..Len(sent) /\ Len(sent) \in 0..Len(sent)
        BY <1>1, <1>2
    <2>2. more = Append(sent, m)
        BY DEF m
    <2> QED
        BY <1>1, <1>3, <2>1, <2>2, OneMore
<1>7. SubSeq(sent, 1, Len(sent)) = sent
    BY <1>1, SubSeqFull
<1>8. Len(received) <= Len(more)
    BY <1>1, <1>2, <1>4
<1> QED
    BY <1>1, <1>4, <1>5, <1>6, <1>7, <1>8 DEF Ordered

\* What was sent stays sent when more is.
LEMMA SentStaysSent ==
    ASSUME NEW msgs, NEW sent \in Seq(Message), NEW m \in Message, SentOnly(msgs, sent)
    PROVE  SentOnly(msgs, Append(sent, m))
<1>1. /\ Len(sent) \in Nat
      /\ Len(Append(sent, m)) = Len(sent) + 1
      /\ \A i \in 1..Len(sent) : Append(sent, m)[i] = sent[i]
    BY AppendProperties, LenProperties
<1>2. ASSUME NEW k \in 1..Len(msgs)
      PROVE  \E n \in 1..Len(Append(sent, m)) : msgs[k] = Append(sent, m)[n]
    <2>1. PICK n \in 1..Len(sent) : msgs[k] = sent[n]
        BY <1>2 DEF SentOnly
    <2>2. n \in 1..Len(Append(sent, m)) /\ msgs[k] = Append(sent, m)[n]
        BY <1>1, <2>1
    <2> QED
        BY <2>2
<1> QED
    BY <1>2 DEF SentOnly

\* Sent messages can be joined.
LEMMA JoinSent ==
    ASSUME NEW sent, NEW msgs, NEW more, SentOnly(msgs, sent), SentOnly(more, sent)
    PROVE  SentOnly(msgs \o more, sent)
<1>1. msgs \in Seq(Message) /\ more \in Seq(Message)
    BY DEF SentOnly
<1>2. /\ msgs \o more \in Seq(Message)
      /\ Len(msgs \o more) = Len(msgs) + Len(more)
      /\ \A k \in 1..(Len(msgs) + Len(more)) :
            (msgs \o more)[k] = IF k <= Len(msgs) THEN msgs[k] ELSE more[k - Len(msgs)]
    BY <1>1, ConcatProperties
<1>3. Len(msgs) \in Nat /\ Len(more) \in Nat
    BY <1>1, LenProperties
<1>4. ASSUME NEW k \in 1..(Len(msgs) + Len(more))
      PROVE  \E n \in 1..Len(sent) : (msgs \o more)[k] = sent[n]
    <2>1. CASE k <= Len(msgs)
        BY <1>2, <1>3, <1>4, <2>1 DEF SentOnly
    <2>2. CASE ~(k <= Len(msgs))
        <3>1. k - Len(msgs) \in 1..Len(more)
            BY <1>3, <1>4, <2>2
        <3>2. (msgs \o more)[k] = more[k - Len(msgs)]
            BY <1>2, <1>4, <2>2
        <3> QED
            BY <3>1, <3>2 DEF SentOnly
    <2> QED
        BY <2>1, <2>2
<1> QED
    BY <1>2, <1>4 DEF SentOnly

-----------------------------------------------------------------------------
(***************************************************************************)
(* Epochs.                                                                 *)
(***************************************************************************)

\* A block comes before the end of its epoch.
LEMMA EpochEnds ==
    ASSUME NEW b \in Nat
    PROVE  /\ b \div BatchPeriod \in Nat
           /\ b < (b \div BatchPeriod + 1) * BatchPeriod
    BY CrossNetAssumption

\* Epochs end in order.
LEMMA EpochsInOrder ==
    ASSUME NEW b \in Nat, NEW c \in Nat, b <= c
    PROVE  (b \div BatchPeriod + 1) * BatchPeriod <= (c \div BatchPeriod + 1) * BatchPeriod
<1>1. b \div BatchPeriod <= c \div BatchPeriod
    BY CrossNetAssumption
<1>2. \A p \in Nat, q \in Nat, r \in Nat : q <= r => (q + 1) * p <= (r + 1) * p
    OBVIOUS
<1> QED
    BY <1>1, <1>2, EpochEnds, CrossNetAssumption

\* The current block and the end of its epoch have a place for a batch.
LEMMA HeightsAreKept ==
    ASSUME block \in 0..MaxBlock, block > 0
    PROVE  block \in Height /\ NextEpoch \in Height
<1>1. block \in Nat /\ MaxBlock \in Nat /\ block <= MaxBlock
    BY CrossNetAssumption
<1> QED
    BY <1>1, EpochEnds, EpochsInOrder, CrossNetAssumption DEF Height, LastEpoch, NextEpoch

-----------------------------------------------------------------------------
(***************************************************************************)
(* The invariant and the channels, step by step.                           *)
(***************************************************************************)
downVars == <<topDown, paidDown>>
upVars == <<bottomUp, paidUp>>

LEMMA CrossInvInit == CrossNetInit => CrossNetInv /\ Down!ChannelInit /\ Up!ChannelInit
<1> SUFFICES ASSUME CrossNetInit PROVE CrossNetInv /\ Down!ChannelInit /\ Up!ChannelInit
    OBVIOUS
<1>1. Ordered(<<>>, <<>>)
    <2>1. <<>> \in Seq(Message) /\ Len(<<>>) = 0 /\ 0 \in 0..0
        OBVIOUS
    <2>2. SubSeq(<<>>, 1, 0) = <<>>
        BY SubSeqEmpty
    <2> QED
        BY <2>1, <2>2 DEF Ordered
<1>2. /\ topDown = <<>> /\ paidDown = <<>> /\ bottomUp = <<>> /\ paidUp = <<>>
      /\ registered = FALSE /\ appliedTopDownNonce = 0 /\ bottomUpNonce = 0
      /\ topDownNonce = 0 /\ appliedBottomUpNonce = 0 /\ block = 0
      /\ bottomUpMsgBatches = [h \in Height |-> <<>>]
    BY DEF CrossNetInit
<1>3. DownInv
    BY <1>1, <1>2 DEF DownInv
<1>4. UpInv
    <2>1. SentOnly(<<>>, <<>>)
        BY DEF SentOnly
    <2> QED
        BY <1>1, <1>2, <2>1 DEF UpInv
<1>5. BeforeGenesis
    BY <1>2, CrossNetAssumption DEF BeforeGenesis
<1>6. Down!ChannelInit /\ Up!ChannelInit
    BY <1>2 DEF Down!ChannelInit, Up!ChannelInit
<1> QED
    BY <1>3, <1>4, <1>5, <1>6 DEF CrossNetInv

\* Steps that move no message.
LEMMA CrossStutter ==
    ASSUME CrossNetInv, UNCHANGED crossVars
    PROVE  CrossNetInv' /\ UNCHANGED downVars /\ UNCHANGED upVars
    BY DEF CrossNetInv, DownInv, UpInv, BeforeGenesis, crossVars, parentVars, childVars,
           downVars, upVars

LEMMA CrossRegister ==
    ASSUME CrossNetInv, NEW supply, Register(supply)
    PROVE  CrossNetInv' /\ UNCHANGED downVars /\ UNCHANGED upVars
<1>1. /\ block = 0 /\ block' = 1 /\ registered' = TRUE
      /\ UNCHANGED <<topDown, paidDown, bottomUp, paidUp, topDownNonce, appliedTopDownNonce,
                     bottomUpNonce, appliedBottomUpNonce, bottomUpMsgBatches>>
    BY DEF Register
<1>2. topDown = <<>> /\ topDownNonce = 0 /\ paidUp = <<>> /\ appliedBottomUpNonce = 0
    BY <1>1 DEF CrossNetInv, BeforeGenesis
<1>3. DownInv' /\ UpInv'
    BY <1>1, <1>2 DEF CrossNetInv, DownInv, UpInv
<1>4. BeforeGenesis'
    BY <1>1, CrossNetAssumption DEF BeforeGenesis
<1> QED
    BY <1>1, <1>3, <1>4 DEF CrossNetInv, downVars, upVars

LEMMA CrossFund ==
    ASSUME CrossNetInv, NEW value \in Values, NEW refused \in BOOLEAN, Fund(value, refused)
    PROVE  CrossNetInv' /\ Down!Send /\ UNCHANGED upVars
<1>1. /\ registered /\ registered' = registered
      /\ topDown' = Append(topDown, [nonce |-> topDownNonce, value |-> value, refused |-> refused])
      /\ topDownNonce' = topDownNonce + 1
      /\ UNCHANGED <<paidDown, bottomUp, paidUp, appliedTopDownNonce, bottomUpNonce,
                     appliedBottomUpNonce, bottomUpMsgBatches, block>>
    BY DEF Fund, TopDownMsg, childVars
<1>2. Ordered(topDown, paidDown) /\ topDownNonce = Len(topDown) /\ block # 0
    BY <1>1 DEF CrossNetInv, DownInv, BeforeGenesis
<1>3. PICK more : more = topDown'
    OBVIOUS
<1>4. /\ Ordered(more, paidDown)
      /\ Len(more) = Len(topDown) + 1
      /\ SubSeq(more, 1, Len(topDown)) = topDown
    <2>1. PICK m : m = [nonce |-> Len(topDown), value |-> value, refused |-> refused]
        OBVIOUS
    <2>2. more = Append(topDown, m)
        BY <1>1, <1>2, <1>3, <2>1
    <2> QED
        BY <1>2, <2>1, <2>2, SendingKeeps
<1>5. DownInv'
    BY <1>1, <1>2, <1>3, <1>4 DEF CrossNetInv, DownInv
<1>6. UpInv' /\ BeforeGenesis'
    BY <1>1, <1>2 DEF CrossNetInv, UpInv, BeforeGenesis
<1>7. Down!Send /\ UNCHANGED upVars
    BY <1>1, <1>3, <1>4 DEF Down!Send, upVars
<1> QED
    BY <1>5, <1>6, <1>7 DEF CrossNetInv

\* Whichever piece is delivered, it continues what was applied or is refused.
LEMMA CrossApply ==
    ASSUME CrossNetInv, NEW i \in DOMAIN topDown, NEW j \in DOMAIN topDown, i <= j,
           ApplyCrossMessages(SubSeq(topDown, i, j))
    PROVE  CrossNetInv' /\ Down!Receive /\ UNCHANGED upVars
<1>1. PICK msgs : msgs = SubSeq(topDown, i, j)
    OBVIOUS
<1>2. /\ block > 0
      /\ NoncesFit(msgs, appliedTopDownNonce)
      /\ appliedTopDownNonce' = appliedTopDownNonce + Len(msgs)
      /\ paidDown' = paidDown \o msgs
      /\ UNCHANGED <<topDown, registered, topDownNonce, bottomUp, paidUp, bottomUpNonce,
                     appliedBottomUpNonce, bottomUpMsgBatches, block>>
    BY <1>1 DEF ApplyCrossMessages, NonceAfter, parentVars
<1>3. /\ Ordered(topDown, paidDown)
      /\ appliedTopDownNonce = Len(paidDown)
      /\ topDown \in Seq(Message)
    BY DEF CrossNetInv, DownInv, Ordered
<1>4. SentOnly(msgs, topDown)
    <2>1. /\ Len(topDown) \in Nat
          /\ i \in 1..Len(topDown) /\ j \in 1..Len(topDown)
        BY <1>3, LenProperties
    <2>2. \A k \in i..j : k \in 1..Len(topDown) /\ topDown[k] \in Message
        <3> TAKE k \in i..j
        <3>1. k \in 1..Len(topDown)
            BY <2>1
        <3> QED
            BY <1>3, <3>1, ElementOfSeq
    <2>3. /\ msgs \in Seq(Message)
          /\ Len(msgs) = j - i + 1
          /\ \A k \in 1..(j - i + 1) : msgs[k] = topDown[i + k - 1]
        BY <1>1, <2>1, <2>2, SubSeqProperties
    <2>4. \A k \in 1..Len(msgs) : \E n \in 1..Len(topDown) : msgs[k] = topDown[n]
        <3> TAKE k \in 1..Len(msgs)
        <3>1. i + k - 1 \in 1..Len(topDown) /\ msgs[k] = topDown[i + k - 1]
            BY <2>1, <2>3
        <3> QED
            BY <3>1
    <2> QED
        BY <2>3, <2>4 DEF SentOnly
<1>5. PICK both : both = paidDown \o msgs
    OBVIOUS
<1>6. /\ Ordered(topDown, both)
      /\ Len(both) = Len(paidDown) + Len(msgs)
      /\ Len(both) \in Len(paidDown)..Len(topDown)
    BY <1>2, <1>3, <1>4, <1>5, FittingContinues
<1>7. DownInv'
    BY <1>2, <1>3, <1>5, <1>6 DEF CrossNetInv, DownInv
<1>8. UpInv' /\ BeforeGenesis'
    BY <1>2 DEF CrossNetInv, UpInv, BeforeGenesis
<1>9. Down!Receive
    <2>1. both = SubSeq(topDown, 1, Len(both))
        BY <1>6 DEF Ordered
    <2>2. paidDown' = both /\ topDown' = topDown
        BY <1>2, <1>5
    <2>3. \E n \in Len(paidDown)..Len(topDown) : paidDown' = SubSeq(topDown, 1, n)
        BY <1>6, <2>1, <2>2
    <2> QED
        BY <2>2, <2>3 DEF Down!Receive
<1> QED
    BY <1>2, <1>7, <1>8, <1>9 DEF CrossNetInv, upVars

\* Cutting a full batch moves sent messages to another height.
LEMMA CrossRelease ==
    ASSUME CrossNetInv, NEW value \in Values, NEW refused \in BOOLEAN,
           Release(value, refused)
    PROVE  CrossNetInv' /\ Up!Send /\ UNCHANGED downVars
<1>1. PICK m : m = [nonce |-> bottomUpNonce, value |-> value, refused |-> refused]
    OBVIOUS
<1>2. /\ block > 0
      /\ CommitBottomUpMsg(m)
      /\ bottomUp' = Append(bottomUp, m)
      /\ bottomUpNonce' = bottomUpNonce + 1
      /\ UNCHANGED <<topDown, paidDown, registered, topDownNonce, appliedTopDownNonce, paidUp,
                     appliedBottomUpNonce, block>>
    BY <1>1 DEF Release, parentVars
<1>3. /\ Ordered(bottomUp, paidUp)
      /\ bottomUp \in Seq(Message)
      /\ bottomUpNonce = Len(bottomUp)
      /\ bottomUpMsgBatches = [h \in Height |-> bottomUpMsgBatches[h]]
      /\ \A h \in Height : SentOnly(bottomUpMsgBatches[h], bottomUp)
    BY DEF CrossNetInv, UpInv, Ordered
<1>4. m \in Message
    <2>1. Len(bottomUp) \in Nat
        BY <1>3, LenProperties
    <2> QED
        BY <1>1, <1>3, <2>1 DEF Message
<1>5. PICK more : more = bottomUp'
    OBVIOUS
<1>6. /\ Ordered(more, paidUp)
      /\ Len(more) = Len(bottomUp) + 1
      /\ SubSeq(more, 1, Len(bottomUp)) = bottomUp
    BY <1>1, <1>2, <1>3, <1>5, SendingKeeps
<1>7. block \in Height /\ NextEpoch \in Height
    BY <1>2, HeightsAreKept DEF CrossNetInv, BeforeGenesis
<1>8. \A h \in Height : SentOnly(bottomUpMsgBatches[h], more)
    BY <1>2, <1>3, <1>4, <1>5, SentStaysSent
<1>9. SentOnly(<<m>>, more)
    <2>1. more[Len(bottomUp) + 1] = m
        BY <1>2, <1>3, <1>4, <1>5, AppendProperties
    <2>2. Len(bottomUp) + 1 \in 1..Len(more)
        BY <1>3, <1>6, LenProperties
    <2>3. \A k \in 1..1 : \E n \in 1..Len(more) : <<m>>[k] = more[n]
        BY <2>1, <2>2
    <2>4. <<m>> \in Seq(Message) /\ Len(<<m>>) = 1
        BY <1>4
    <2> QED
        BY <2>3, <2>4 DEF SentOnly
<1>10. PICK batches : batches = bottomUpMsgBatches'
    OBVIOUS
<1>11. /\ batches = [h \in Height |-> batches[h]]
       /\ \A h \in Height : SentOnly(batches[h], more)
    <2> DEFINE batch == bottomUpMsgBatches[NextEpoch]
               both == bottomUpMsgBatches[block] \o batch
               longer == batch \o <<m>>
    <2>1. SentOnly(both, more) /\ SentOnly(longer, more)
        BY <1>7, <1>8, <1>9, JoinSent
    <2>2. SentOnly(Append(batch, m), more)
        <3>1. batch \in Seq(Message)
            BY <1>7, <1>8 DEF SentOnly
        <3>2. Append(batch, m) = longer
            BY <1>4, <3>1, AppendIsConcat
        <3> QED
            BY <2>1, <3>2
    <2>3. CASE Len(batch) = MaxMsgsPerBatch
        <3>1. batches = [[bottomUpMsgBatches EXCEPT ![block] = both] EXCEPT ![NextEpoch] = <<m>>]
            BY <1>2, <1>10, <2>3 DEF CommitBottomUpMsg, CutBatch, CutHeight
        <3> HIDE DEF both
        <3> QED
            BY <1>3, <1>7, <1>8, <1>9, <2>1, <3>1
    <2>4. CASE Len(batch) # MaxMsgsPerBatch
        <3>1. batches = [bottomUpMsgBatches EXCEPT ![NextEpoch] = Append(batch, m)]
            BY <1>2, <1>10, <2>4 DEF CommitBottomUpMsg
        <3>2. PICK extended : extended = Append(batch, m)
            OBVIOUS
        <3> QED
            BY <1>3, <1>7, <1>8, <2>2, <3>1, <3>2
    <2> QED
        BY <2>3, <2>4
<1>12. UpInv'
    BY <1>2, <1>3, <1>5, <1>6, <1>10, <1>11 DEF CrossNetInv, UpInv
<1>13. DownInv' /\ BeforeGenesis'
    BY <1>2 DEF CrossNetInv, DownInv, BeforeGenesis
<1>14. Up!Send
    BY <1>2, <1>5, <1>6 DEF Up!Send
<1> QED
    BY <1>2, <1>12, <1>13, <1>14 DEF CrossNetInv, downVars

LEMMA CrossNextBlock ==
    ASSUME CrossNetInv, NextBlock
    PROVE  CrossNetInv' /\ UNCHANGED downVars /\ UNCHANGED upVars
<1>1. /\ block \in 1..(MaxBlock - 1) /\ block' = block + 1
      /\ UNCHANGED <<topDown, paidDown, registered, topDownNonce, appliedTopDownNonce, bottomUp,
                     paidUp, bottomUpNonce, appliedBottomUpNonce, bottomUpMsgBatches>>
    BY DEF NextBlock, parentVars
<1>2. BeforeGenesis'
    BY <1>1, CrossNetAssumption DEF BeforeGenesis
<1> QED
    BY <1>1, <1>2 DEF CrossNetInv, DownInv, UpInv, downVars, upVars

\* The batch of any height continues what was paid or is refused.
LEMMA CrossSubmit ==
    ASSUME CrossNetInv, NEW height \in Height, NEW relayer \in Relayer,
           SubmitBottomUpMsgBatch(height, relayer)
    PROVE  CrossNetInv' /\ Up!Receive /\ UNCHANGED downVars
<1>1. PICK msgs : msgs = bottomUpMsgBatches[height]
    OBVIOUS
<1>2. /\ registered /\ registered' = registered
      /\ NoncesFit(msgs, appliedBottomUpNonce)
      /\ appliedBottomUpNonce' = appliedBottomUpNonce + Len(msgs)
      /\ paidUp' = paidUp \o msgs
      /\ UNCHANGED <<topDown, paidDown, topDownNonce, appliedTopDownNonce, bottomUp,
                     bottomUpNonce, bottomUpMsgBatches, block>>
    BY <1>1 DEF SubmitBottomUpMsgBatch, ExecBottomUpMsgBatch, NonceAfter, childVars
<1>3. /\ Ordered(bottomUp, paidUp)
      /\ appliedBottomUpNonce = Len(paidUp)
      /\ SentOnly(msgs, bottomUp)
      /\ block # 0
    BY <1>1, <1>2 DEF CrossNetInv, UpInv, BeforeGenesis
<1>4. PICK both : both = paidUp \o msgs
    OBVIOUS
<1>5. /\ Ordered(bottomUp, both)
      /\ Len(both) = Len(paidUp) + Len(msgs)
      /\ Len(both) \in Len(paidUp)..Len(bottomUp)
    BY <1>2, <1>3, <1>4, FittingContinues
<1>6. UpInv'
    BY <1>2, <1>3, <1>4, <1>5 DEF CrossNetInv, UpInv
<1>7. DownInv' /\ BeforeGenesis'
    BY <1>2, <1>3 DEF CrossNetInv, DownInv, BeforeGenesis
<1>8. Up!Receive
    <2>1. both = SubSeq(bottomUp, 1, Len(both))
        BY <1>5 DEF Ordered
    <2>2. paidUp' = both /\ bottomUp' = bottomUp
        BY <1>2, <1>4
    <2>3. \E n \in Len(paidUp)..Len(bottomUp) : paidUp' = SubSeq(bottomUp, 1, n)
        BY <1>5, <2>1, <2>2
    <2> QED
        BY <2>2, <2>3 DEF Up!Receive
<1> QED
    BY <1>2, <1>6, <1>7, <1>8 DEF CrossNetInv, downVars

LEMMA CrossRepeat ==
    ASSUME CrossNetInv, NEW relayer \in Relayer, RepeatBottomUpMsgBatch(relayer)
    PROVE  CrossNetInv' /\ UNCHANGED downVars /\ UNCHANGED upVars
    BY DEF RepeatBottomUpMsgBatch, CrossNetInv, DownInv, UpInv, BeforeGenesis, childVars,
           downVars, upVars

\* The nonces at the parent go with the subnet, and so do all sending and payment.
LEMMA CrossKill ==
    ASSUME CrossNetInv, Kill
    PROVE  CrossNetInv' /\ UNCHANGED downVars /\ UNCHANGED upVars
<1>1. /\ registered /\ registered' = FALSE
      /\ UNCHANGED <<topDown, paidDown, appliedTopDownNonce, bottomUp, paidUp, bottomUpNonce,
                     bottomUpMsgBatches, block>>
    BY DEF Kill, Killable, childVars
<1>2. block # 0
    BY <1>1 DEF CrossNetInv, BeforeGenesis
<1>3. BeforeGenesis'
    BY <1>1, <1>2 DEF CrossNetInv, BeforeGenesis
<1> QED
    BY <1>1, <1>3 DEF CrossNetInv, DownInv, UpInv, downVars, upVars

\* The invariant of the channels, and what each step is for either of them.
LEMMA CrossStep ==
    CrossNetInv /\ [CrossNetNext]_crossVars =>
        /\ CrossNetInv'
        /\ [Down!Send \/ Down!Receive]_<<topDown, paidDown>>
        /\ [Up!Send \/ Up!Receive]_<<bottomUp, paidUp>>
<1> SUFFICES ASSUME CrossNetInv, [CrossNetNext]_crossVars
             PROVE  /\ CrossNetInv'
                    /\ Down!Send \/ Down!Receive \/ UNCHANGED downVars
                    /\ Up!Send \/ Up!Receive \/ UNCHANGED upVars
    BY DEF downVars, upVars
<1> QED
    BY CrossStutter, CrossRegister, CrossFund, CrossApply, CrossRelease, CrossNextBlock,
       CrossSubmit, CrossRepeat, CrossKill DEF CrossNetNext

\* Pieces and batches may be delivered again, too early, too late or never, full
\* batches cut at any block, and the subnet killed: each direction receives what
\* was sent, once and in order (applyMsg, commitBottomUpMsg).
THEOREM ChannelsImplemented == CrossNetSpec => ImplementsChannels
<1>1. CrossNetInit => Down!ChannelInit /\ Up!ChannelInit /\ CrossNetInv
    BY CrossInvInit
<1> QED
    BY <1>1, CrossStep, PTL
    DEF CrossNetSpec, ImplementsChannels, Down!ChannelSpec, Up!ChannelSpec

-----------------------------------------------------------------------------
(***************************************************************************)
(* What messages are worth together.                                       *)
(***************************************************************************)
ValuesOf(msgs) == [i \in DOMAIN msgs |-> msgs[i].value]

TotalUpTo(it, msgs) ==
    it = [s \in SUBSET DOMAIN msgs |->
             IF s = {} THEN 0 ELSE msgs[Pick(s)].value + it[s \ {Pick(s)}]]

\* The values of messages can be summed.
LEMMA MessageValues ==
    ASSUME NEW msgs \in Seq(Message)
    PROVE  /\ DOMAIN msgs = 1..Len(msgs)
           /\ \A i \in DOMAIN msgs : msgs[i].value \in Nat /\ ValuesOf(msgs)[i] = msgs[i].value
           /\ Summable(ValuesOf(msgs), DOMAIN msgs)
<1>1. DOMAIN msgs = 1..Len(msgs) /\ Len(msgs) \in Nat
    BY LenProperties
<1>2. \A i \in DOMAIN msgs : msgs[i] \in Message
    BY <1>1, ElementOfSeq
<1>3. \A i \in DOMAIN msgs : msgs[i].value \in Nat
    BY <1>2, CrossNetAssumption DEF Message
<1>4. IsFiniteSet(DOMAIN msgs)
    BY <1>1, FS_Interval
<1> QED
    BY <1>1, <1>3, <1>4 DEF ValuesOf, Summable

\* Total folds over the positions of the messages.
LEMMA TotalIsSumOfValues ==
    ASSUME NEW msgs \in Seq(Message)
    PROVE  Total(msgs) = Sum(ValuesOf(msgs), DOMAIN msgs)
<1>1. PICK it : it = CHOOSE i : TotalUpTo(i, msgs)
    OBVIOUS
<1>2. Total(msgs) = it[DOMAIN msgs]
    BY <1>1, Zenon DEF Total, FoldSeq, FoldFunction, FoldFunctionOnSet, MapThenFoldSet, TotalUpTo, Pick
<1>3. ASSUME NEW i PROVE SumUpTo(i, ValuesOf(msgs), DOMAIN msgs) <=> TotalUpTo(i, msgs)
    <2>1. \A s \in SUBSET DOMAIN msgs :
              s # {} => ValuesOf(msgs)[Pick(s)] = msgs[Pick(s)].value
        BY PickIsIn DEF ValuesOf
    <2> QED
        BY <2>1 DEF SumUpTo, TotalUpTo
<1>4. \E i : SumUpTo(i, ValuesOf(msgs), DOMAIN msgs)
    BY MessageValues, SumIsFold
<1>5. TotalUpTo(it, msgs)
    BY <1>1, <1>3, <1>4, Zenon
<1>6. SumUpTo(it, ValuesOf(msgs), DOMAIN msgs)
    BY <1>3, <1>5
<1>7. it[DOMAIN msgs] = Sum(ValuesOf(msgs), DOMAIN msgs)
    BY <1>6, MessageValues, FoldIsSum
<1> QED
    BY <1>2, <1>7

\* Nothing is worth nothing.
LEMMA TotalEmpty == Total(<<>>) = 0
<1>1. <<>> \in Seq(Message) /\ DOMAIN <<>> = {}
    OBVIOUS
<1> QED
    BY <1>1, TotalIsSumOfValues, SumEmpty

\* No sequence of messages is worth less than nothing.
LEMMA TotalNat ==
    ASSUME NEW msgs \in Seq(Message)
    PROVE  Total(msgs) \in Nat
<1> DEFINE f == ValuesOf(msgs)
           S == DOMAIN msgs
<1>1. IsFiniteSet(S) /\ \A x \in S : f[x] \in Nat
    BY MessageValues DEF Summable
<1>2. Sum(f, S) \in Nat
    <2> HIDE DEF f, S
    <2> QED
        BY <1>1, SumNat
<1> QED
    BY <1>2, TotalIsSumOfValues

\* One more message adds its value.
LEMMA TotalAppend ==
    ASSUME NEW msgs \in Seq(Message), NEW m \in Message
    PROVE  Total(Append(msgs, m)) = Total(msgs) + m.value
<1>1. PICK more : more = Append(msgs, m)
    OBVIOUS
<1>2. PICK n : n = Len(msgs) + 1
    OBVIOUS
<1>3. /\ more \in Seq(Message)
      /\ Len(more) = n
      /\ \A i \in 1..Len(msgs) : more[i] = msgs[i]
      /\ more[n] = m
      /\ Len(msgs) \in Nat
    BY <1>1, <1>2, AppendProperties, LenProperties
<1>4. /\ DOMAIN msgs = 1..Len(msgs)
      /\ DOMAIN more = DOMAIN msgs \cup {n}
      /\ n \notin DOMAIN msgs
    BY <1>2, <1>3, MessageValues
<1>5. \A i \in DOMAIN msgs : ValuesOf(more)[i] = ValuesOf(msgs)[i]
    BY <1>3, <1>4 DEF ValuesOf
<1>6. ValuesOf(more)[n] = m.value
    BY <1>3, <1>4 DEF ValuesOf
<1>7. m.value \in Nat
    BY CrossNetAssumption DEF Message
<1>8. Summable(ValuesOf(msgs), DOMAIN msgs)
    BY MessageValues
<1>9. Summable(ValuesOf(more), DOMAIN msgs)
    BY <1>5, <1>8 DEF Summable
<1>10. Sum(ValuesOf(more), DOMAIN msgs) = Sum(ValuesOf(msgs), DOMAIN msgs)
    BY <1>5, <1>8, SumEqual
<1>11. Sum(ValuesOf(more), DOMAIN more) = m.value + Sum(ValuesOf(more), DOMAIN msgs)
    <2>1. ValuesOf(more)[n] \in Int
        BY <1>6, <1>7
    <2>2. Sum(ValuesOf(more), DOMAIN msgs \cup {n}) = ValuesOf(more)[n] + Sum(ValuesOf(more), DOMAIN msgs)
        BY <1>4, <1>9, <2>1, SumAdd
    <2> QED
        BY <1>4, <1>6, <2>2
<1>12. Total(msgs) \in Nat
    BY TotalNat
<1>13. Total(more) = m.value + Total(msgs)
    BY <1>3, <1>10, <1>11, TotalIsSumOfValues
<1> QED
    BY <1>1, <1>7, <1>12, <1>13

\* Messages joined are worth both parts: by induction over the length of the
\* second.
LEMMA TotalConcat ==
    ASSUME NEW msgs \in Seq(Message), NEW more \in Seq(Message)
    PROVE  Total(msgs \o more) = Total(msgs) + Total(more)
<1> DEFINE K == {n \in Nat : \A s \in Seq(Message) :
                    Len(s) = n => Total(msgs \o s) = Total(msgs) + Total(s)}
<1>1. 0 \in K
    <2> SUFFICES ASSUME NEW s \in Seq(Message), Len(s) = 0
                 PROVE  Total(msgs \o s) = Total(msgs) + Total(s)
        OBVIOUS
    <2>1. s = <<>>
        BY EmptySeq
    <2>2. msgs \o s = msgs
        BY <2>1, ConcatEmptySeq
    <2> QED
        BY <2>1, <2>2, TotalEmpty, TotalNat
<1>2. ASSUME NEW n \in Nat, n \in K PROVE n + 1 \in K
    <2> SUFFICES ASSUME NEW s \in Seq(Message), Len(s) = n + 1
                 PROVE  Total(msgs \o s) = Total(msgs) + Total(s)
        OBVIOUS
    <2>1. s # <<>>
        BY EmptySeq
    <2>2. PICK front \in Seq(Message), m \in Message : s = Append(front, m)
        BY <2>1, SequenceEmptyOrAppend
    <2>3. Len(front) = n
        BY <2>2, AppendProperties, LenProperties
    <2>4. msgs \o s = Append(msgs \o front, m)
        <3>1. /\ <<m>> \in Seq(Message)
              /\ s = front \o <<m>>
              /\ Append(msgs \o front, m) = (msgs \o front) \o <<m>>
            BY <2>2, AppendIsConcat, ConcatProperties
        <3> QED
            BY <3>1, ConcatAssociative
    <2>5. Total(msgs \o front) = Total(msgs) + Total(front)
        BY <1>2, <2>3
    <2>6. Total(msgs \o s) = Total(msgs \o front) + m.value /\ Total(s) = Total(front) + m.value
        BY <2>2, <2>4, TotalAppend, ConcatProperties
    <2>7. Total(msgs) \in Nat /\ Total(front) \in Nat /\ m.value \in Nat
        BY TotalNat, CrossNetAssumption DEF Message
    <2> QED
        BY <2>5, <2>6, <2>7
<1>3. Len(more) \in K
    <2> HIDE DEF K
    <2>1. Nat \subseteq K
        BY <1>1, <1>2, NumbersByInduction
    <2> QED
        BY <2>1, LenProperties
<1> QED
    BY <1>3

\* What is on its way is the difference of what was sent and received.
LEMMA OnItsWayIsDifference ==
    ASSUME NEW sent, NEW received, Ordered(sent, received)
    PROVE  /\ OnItsWay(sent, received) = Total(sent) - Total(received)
           /\ OnItsWay(sent, received) \in Nat
<1>1. /\ sent \in Seq(Message) /\ received \in Seq(Message)
      /\ Len(received) <= Len(sent)
      /\ received = SubSeq(sent, 1, Len(received))
    BY DEF Ordered
<1>2. PICK n : n = Len(received)
    OBVIOUS
<1>3. PICK last : last = Len(sent)
    OBVIOUS
<1>4. n \in Nat /\ last \in Nat /\ n <= last
    BY <1>1, <1>2, <1>3, LenProperties
<1>5. PICK rest : rest = SubSeq(sent, n + 1, last)
    OBVIOUS
<1>6. received \o rest = sent
    <2>1. 1 \in 1..(last + 1) /\ n \in (1 - 1)..last /\ last \in n..last
        BY <1>4
    <2>2. SubSeq(sent, 1, n) \o SubSeq(sent, n + 1, last) = SubSeq(sent, 1, last)
        BY <1>1, <1>3, <2>1, ConcatAdjacentSubSeq
    <2> QED
        BY <1>1, <1>2, <1>3, <1>5, <2>2, SubSeqFull
<1>7. rest \in Seq(Message) /\ Len(rest) = last - n
    <2>1. \A i \in (n + 1)..last : sent[i] \in Message
        <3> TAKE i \in (n + 1)..last
        <3>1. i \in 1..Len(sent)
            BY <1>3, <1>4
        <3> QED
            BY <1>1, <3>1, ElementOfSeq
    <2>2. /\ rest \in Seq(Message)
          /\ Len(rest) = IF n + 1 <= last THEN last - (n + 1) + 1 ELSE 0
        <3>1. n + 1 \in Int /\ last \in Int
            BY <1>4
        <3> QED
            BY <1>5, <2>1, <3>1, SubSeqProperties
    <2> QED
        BY <1>4, <2>2
<1>8. Total(sent) = Total(received) + Total(rest)
    BY <1>1, <1>6, <1>7, TotalConcat
<1>9. OnItsWay(sent, received) = Total(rest)
    BY <1>2, <1>3, <1>5 DEF OnItsWay
<1>10. Total(rest) \in Nat /\ Total(received) \in Nat
    BY <1>1, <1>7, TotalNat
<1> QED
    BY <1>8, <1>9, <1>10

-----------------------------------------------------------------------------
(***************************************************************************)
(* The supply. Registration is the only step that may take something from  *)
(* nothing, and it finds nothing: whoever is not registered has no supply, *)
(* so that no amount is owned or on its way, before genesis and after kill. *)
(***************************************************************************)

AccountsTypeOK ==
    /\ supplyKind \in {"Native", "ERC20"}
    /\ registered \in BOOLEAN
    /\ circSupply \in Nat /\ topDownNonce \in Nat /\ appliedBottomUpNonce \in Nat
    /\ custody \in Nat /\ parentWallets \in Nat /\ childWallets \in Nat

\* The supply of the child, in terms of all that was ever sent and received.
FundsBalance ==
    circSupply + Total(paidDown) + Total(paidUp) =
        childWallets + Total(topDown) + Total(bottomUp)

FundsInv ==
    /\ AccountsTypeOK
    /\ FundsBalance
    /\ custody = circSupply
    /\ ~registered => circSupply = 0

\* What was sent and received either way has a natural total.
LEMMA MessagesAreSequences ==
    ASSUME CrossNetInv
    PROVE  /\ topDown \in Seq(Message) /\ paidDown \in Seq(Message)
           /\ bottomUp \in Seq(Message) /\ paidUp \in Seq(Message)
           /\ Total(topDown) \in Nat /\ Total(paidDown) \in Nat
           /\ Total(bottomUp) \in Nat /\ Total(paidUp) \in Nat
<1>1. /\ topDown \in Seq(Message) /\ paidDown \in Seq(Message)
      /\ bottomUp \in Seq(Message) /\ paidUp \in Seq(Message)
    BY DEF CrossNetInv, DownInv, UpInv, Ordered
<1> QED
    BY <1>1, TotalNat

\* Custody and supply agree if each of them does with what was sent and paid.
LEMMA BalanceIsSupply == CrossNetInv /\ FundsInv => SupplyConserved
<1> SUFFICES ASSUME CrossNetInv, FundsInv PROVE SupplyConserved
    OBVIOUS
<1>1. Ordered(topDown, paidDown) /\ Ordered(bottomUp, paidUp)
    BY DEF CrossNetInv, DownInv, UpInv
<1>2. /\ OnItsWay(topDown, paidDown) = Total(topDown) - Total(paidDown)
      /\ OnItsWay(bottomUp, paidUp) = Total(bottomUp) - Total(paidUp)
    BY <1>1, OnItsWayIsDifference
<1> QED
    BY <1>2, MessagesAreSequences DEF SupplyConserved, FundsInv, FundsBalance, AccountsTypeOK

\* Without a supply every amount has arrived and been spent.
LEMMA NoSupplyNothingLeft ==
    CrossNetInv /\ FundsInv /\ circSupply = 0 =>
        /\ childWallets = 0
        /\ OnItsWay(topDown, paidDown) = 0 /\ Total(topDown) = Total(paidDown)
        /\ OnItsWay(bottomUp, paidUp) = 0 /\ Total(bottomUp) = Total(paidUp)
<1> SUFFICES ASSUME CrossNetInv, FundsInv, circSupply = 0
             PROVE  /\ childWallets = 0
                    /\ OnItsWay(topDown, paidDown) = 0 /\ Total(topDown) = Total(paidDown)
                    /\ OnItsWay(bottomUp, paidUp) = 0 /\ Total(bottomUp) = Total(paidUp)
    OBVIOUS
<1>1. Ordered(topDown, paidDown) /\ Ordered(bottomUp, paidUp)
    BY DEF CrossNetInv, DownInv, UpInv
<1>2. /\ OnItsWay(topDown, paidDown) \in Nat /\ OnItsWay(bottomUp, paidUp) \in Nat
      /\ OnItsWay(topDown, paidDown) = Total(topDown) - Total(paidDown)
      /\ OnItsWay(bottomUp, paidUp) = Total(bottomUp) - Total(paidUp)
    BY <1>1, OnItsWayIsDifference
<1>3. OnItsWay(topDown, paidDown) = 0 /\ OnItsWay(bottomUp, paidUp) = 0 /\ childWallets = 0
    BY <1>2, BalanceIsSupply DEF FundsInv, SupplyConserved, AccountsTypeOK
<1> QED
    BY <1>2, <1>3, MessagesAreSequences

LEMMA FundsInit == CrossNetInit => FundsInv
<1> SUFFICES ASSUME CrossNetInit PROVE FundsInv
    OBVIOUS
<1>1. /\ topDown = <<>> /\ paidDown = <<>> /\ bottomUp = <<>> /\ paidUp = <<>>
      /\ circSupply = 0 /\ childWallets = 0 /\ custody = 0
    BY DEF CrossNetInit
<1>2. FundsBalance
    BY <1>1, TotalEmpty DEF FundsBalance
<1>3. AccountsTypeOK
    BY CrossNetAssumption DEF CrossNetInit, AccountsTypeOK
<1> QED
    BY <1>1, <1>2, <1>3 DEF FundsInv

\* Steps that move no funds.
LEMMA FundsUnchanged ==
    ASSUME FundsInv,
           UNCHANGED <<supplyKind, registered, circSupply, topDownNonce, appliedBottomUpNonce,
                       custody, parentWallets, childWallets, topDown, paidDown, bottomUp, paidUp>>
    PROVE  FundsInv'
    BY DEF FundsInv, AccountsTypeOK, FundsBalance

\* The genesis supply goes to users of the child at once.
LEMMA FundsRegister ==
    ASSUME CrossNetInv, FundsInv, NEW supply \in GenesisSupply, Register(supply)
    PROVE  FundsInv'
<1>1. /\ block = 0 /\ supply <= parentWallets
      /\ registered' = TRUE /\ circSupply' = supply /\ childWallets' = supply
      /\ custody' = custody + supply /\ parentWallets' = parentWallets - supply
      /\ UNCHANGED <<supplyKind, topDownNonce, appliedBottomUpNonce, topDown, paidDown,
                     bottomUp, paidUp>>
    BY DEF Register
<1>2. circSupply = 0
    BY <1>1 DEF CrossNetInv, BeforeGenesis, FundsInv
<1>3. Total(topDown) = Total(paidDown) /\ Total(bottomUp) = Total(paidUp)
    BY <1>2, NoSupplyNothingLeft
<1>4. supply \in Nat
    BY CrossNetAssumption
<1>5. AccountsTypeOK'
    BY <1>1, <1>4 DEF FundsInv, AccountsTypeOK
<1>6. FundsBalance'
    BY <1>1, <1>3, <1>4, MessagesAreSequences DEF FundsBalance
<1> QED
    BY <1>1, <1>2, <1>4, <1>5, <1>6 DEF FundsInv

LEMMA FundsFund ==
    ASSUME CrossNetInv, FundsInv, NEW value \in Values, NEW refused \in BOOLEAN, Fund(value, refused)
    PROVE  FundsInv'
<1>1. PICK m : m = TopDownMsg(value, refused)
    OBVIOUS
<1>2. /\ registered /\ registered' = registered
      /\ value <= parentWallets
      /\ parentWallets' = parentWallets - value
      /\ custody' = custody + value
      /\ circSupply' = circSupply + value
      /\ topDown' = Append(topDown, m)
      /\ topDownNonce' = topDownNonce + 1
      /\ UNCHANGED <<supplyKind, appliedBottomUpNonce, childWallets, paidDown, bottomUp, paidUp>>
    BY <1>1 DEF Fund, childVars
<1>3. value \in Nat
    BY CrossNetAssumption
<1>4. m \in Message /\ m.value = value
    BY <1>1 DEF TopDownMsg, Message, FundsInv, AccountsTypeOK
<1>5. Total(topDown') = Total(topDown) + value
    BY <1>2, <1>4, MessagesAreSequences, TotalAppend
<1>6. AccountsTypeOK'
    BY <1>2, <1>3 DEF FundsInv, AccountsTypeOK
<1>7. FundsBalance'
    <2>1. PICK td \in Nat, pd \in Nat, bu \in Nat, pu \in Nat :
              /\ td = Total(topDown) /\ pd = Total(paidDown)
              /\ bu = Total(bottomUp) /\ pu = Total(paidUp)
        BY MessagesAreSequences
    <2>2. /\ Total(topDown') = td + value /\ Total(paidDown') = pd
          /\ Total(bottomUp') = bu /\ Total(paidUp') = pu
        BY <1>2, <1>3, <1>5, <2>1
    <2>3. circSupply + pd + pu = childWallets + td + bu
        BY <2>1 DEF FundsInv, FundsBalance
    <2>4. circSupply \in Nat /\ childWallets \in Nat
        BY DEF FundsInv, AccountsTypeOK
    <2>5. circSupply' = circSupply + value /\ childWallets' = childWallets /\ value \in Nat
        BY <1>2, <1>3
    <2>6. circSupply' + pd + pu = childWallets' + (td + value) + bu
        BY <2>1, <2>3, <2>4, <2>5
    <2> QED
        BY <2>2, <2>6 DEF FundsBalance
<1> QED
    BY <1>2, <1>6, <1>7 DEF FundsInv

\* What is delivered leaves the way and reaches the users of the child.
LEMMA FundsApply ==
    ASSUME CrossNetInv, CrossNetInv', FundsInv, NEW msgs \in Seq(Message),
           ApplyCrossMessages(msgs)
    PROVE  FundsInv'
<1>1. PICK worth \in Nat : worth = Total(msgs)
    BY TotalNat
<1>2. /\ childWallets' = childWallets + worth
      /\ paidDown' = paidDown \o msgs
      /\ UNCHANGED <<supplyKind, registered, circSupply, topDownNonce, appliedBottomUpNonce,
                     custody, parentWallets, topDown, bottomUp, paidUp>>
    BY <1>1 DEF ApplyCrossMessages, parentVars
<1>3. Total(paidDown') = Total(paidDown) + worth
    BY <1>1, <1>2, MessagesAreSequences, TotalConcat
<1>4. AccountsTypeOK'
    BY <1>1, <1>2 DEF FundsInv, AccountsTypeOK
<1>5. FundsBalance'
    <2>1. PICK td \in Nat, pd \in Nat, bu \in Nat, pu \in Nat :
              /\ td = Total(topDown) /\ pd = Total(paidDown)
              /\ bu = Total(bottomUp) /\ pu = Total(paidUp)
        BY MessagesAreSequences
    <2>2. /\ Total(topDown') = td /\ Total(paidDown') = pd + worth
          /\ Total(bottomUp') = bu /\ Total(paidUp') = pu
        BY <1>2, <1>3, <2>1
    <2>3. circSupply + pd + pu = childWallets + td + bu
        BY <2>1 DEF FundsInv, FundsBalance
    <2>4. circSupply \in Nat /\ childWallets \in Nat
        BY DEF FundsInv, AccountsTypeOK
    <2>5. circSupply' = circSupply /\ childWallets' = childWallets + worth
        BY <1>2
    <2>6. \A supply \in Nat, wallets \in Nat :
              supply + pd + pu = wallets + td + bu =>
                  supply + (pd + worth) + pu = (wallets + worth) + td + bu
        OBVIOUS
    <2>7. circSupply' + (pd + worth) + pu = childWallets' + td + bu
        BY <2>3, <2>4, <2>5, <2>6
    <2> QED
        BY <2>2, <2>7 DEF FundsBalance
<1> QED
    BY <1>2, <1>4, <1>5 DEF FundsInv

\* A release burns what its message is worth.
LEMMA FundsRelease ==
    ASSUME CrossNetInv, FundsInv, NEW value \in Values, NEW refused \in BOOLEAN,
           Release(value, refused)
    PROVE  FundsInv'
<1>1. PICK m : m = [nonce |-> bottomUpNonce, value |-> value, refused |-> refused]
    OBVIOUS
<1>2. /\ value <= childWallets
      /\ childWallets' = childWallets - value
      /\ bottomUp' = Append(bottomUp, m)
      /\ UNCHANGED <<supplyKind, registered, circSupply, topDownNonce, appliedBottomUpNonce,
                     custody, parentWallets, topDown, paidDown, paidUp>>
    BY <1>1 DEF Release, parentVars
<1>3. value \in Nat
    BY CrossNetAssumption
<1>4. bottomUpNonce \in Nat
    BY MessagesAreSequences, LenProperties DEF CrossNetInv, UpInv
<1>5. m \in Message /\ m.value = value
    BY <1>1, <1>4 DEF Message
<1>6. Total(bottomUp') = Total(bottomUp) + value
    BY <1>2, <1>5, MessagesAreSequences, TotalAppend
<1>7. AccountsTypeOK'
    BY <1>2, <1>3 DEF FundsInv, AccountsTypeOK
<1>8. FundsBalance'
    BY <1>2, <1>3, <1>6, MessagesAreSequences DEF FundsInv, FundsBalance, AccountsTypeOK
<1> QED
    BY <1>2, <1>7, <1>8 DEF FundsInv

\* What a batch is worth is paid from the custody; it is never refused for lack
\* of supply, as that is the guard.
LEMMA FundsSubmit ==
    ASSUME CrossNetInv, FundsInv, NEW height \in Height, NEW relayer \in Relayer,
           SubmitBottomUpMsgBatch(height, relayer)
    PROVE  FundsInv'
<1>1. PICK msgs : msgs = bottomUpMsgBatches[height]
    OBVIOUS
<1>2. /\ registered /\ registered' = registered
      /\ circSupply >= Total(msgs)
      /\ circSupply' = circSupply - Total(msgs)
      /\ custody' = custody - Total(msgs)
      /\ parentWallets' = parentWallets + Total(msgs)
      /\ paidUp' = paidUp \o msgs
      /\ appliedBottomUpNonce' = appliedBottomUpNonce + Len(msgs)
      /\ UNCHANGED <<supplyKind, topDownNonce, topDown, childWallets, paidDown, bottomUp>>
    BY <1>1 DEF SubmitBottomUpMsgBatch, ExecBottomUpMsgBatch, SupplyAfter, NonceAfter, childVars
<1>3. msgs \in Seq(Message) /\ Len(msgs) \in Nat
    <2>1. msgs \in Seq(Message)
        BY <1>1 DEF CrossNetInv, UpInv, SentOnly
    <2> QED
        BY <2>1, LenProperties
<1>4. Total(msgs) \in Nat
    BY <1>3, TotalNat
<1>5. Total(paidUp') = Total(paidUp) + Total(msgs)
    BY <1>2, <1>3, MessagesAreSequences, TotalConcat
<1>6. AccountsTypeOK'
    BY <1>2, <1>3, <1>4 DEF FundsInv, AccountsTypeOK
<1>7. FundsBalance'
    <2>1. PICK td \in Nat, pd \in Nat, bu \in Nat, pu \in Nat :
              /\ td = Total(topDown) /\ pd = Total(paidDown)
              /\ bu = Total(bottomUp) /\ pu = Total(paidUp)
        BY MessagesAreSequences
    <2>2. /\ Total(topDown') = td /\ Total(paidDown') = pd
          /\ Total(bottomUp') = bu /\ Total(paidUp') = pu + Total(msgs)
        BY <1>2, <1>4, <1>5, <2>1
    <2>3. circSupply + pd + pu = childWallets + td + bu
        BY <2>1 DEF FundsInv, FundsBalance
    <2>4. circSupply \in Nat /\ childWallets \in Nat
        BY DEF FundsInv, AccountsTypeOK
    <2>5. circSupply' = circSupply - Total(msgs) /\ childWallets' = childWallets /\ Total(msgs) \in Nat
        BY <1>2, <1>4
    <2>6. circSupply' + pd + (pu + Total(msgs)) = childWallets' + td + bu
        BY <2>1, <2>3, <2>4, <2>5
    <2> QED
        BY <2>2, <2>6 DEF FundsBalance
<1> QED
    BY <1>2, <1>6, <1>7 DEF FundsInv

LEMMA FundsKill ==
    ASSUME FundsInv, Kill
    PROVE  FundsInv'
<1>1. /\ circSupply = 0 /\ circSupply' = 0 /\ registered' = FALSE
      /\ topDownNonce' = 0 /\ appliedBottomUpNonce' = 0
      /\ UNCHANGED <<supplyKind, custody, parentWallets, childWallets, topDown, paidDown, bottomUp,
                     paidUp>>
    BY DEF Kill, Killable, childVars
<1> QED
    BY <1>1 DEF FundsInv, AccountsTypeOK, FundsBalance

\* Any piece of what was sent is a sequence of messages.
LEMMA PieceIsMessages ==
    ASSUME CrossNetInv, NEW i \in DOMAIN topDown, NEW j \in DOMAIN topDown
    PROVE  SubSeq(topDown, i, j) \in Seq(Message)
<1>1. topDown \in Seq(Message) /\ DOMAIN topDown = 1..Len(topDown) /\ Len(topDown) \in Nat
    BY MessagesAreSequences, LenProperties
<1>2. \A k \in i..j : topDown[k] \in Message
    <2> TAKE k \in i..j
    <2>1. k \in 1..Len(topDown)
        BY <1>1
    <2> QED
        BY <1>1, <2>1, ElementOfSeq
<1>3. i \in Int /\ j \in Int
    BY <1>1
<1> QED
    BY <1>2, <1>3, SubSeqProperties

\* Every step keeps the balances.
LEMMA FundsStep ==
    CrossNetInv /\ CrossNetInv' /\ FundsInv /\ [CrossNetNext]_crossVars => FundsInv'
<1> SUFFICES ASSUME CrossNetInv, CrossNetInv', FundsInv, [CrossNetNext]_crossVars
             PROVE  FundsInv'
    OBVIOUS
<1>1. ASSUME NEW i \in DOMAIN topDown, NEW j \in DOMAIN topDown,
             ApplyCrossMessages(SubSeq(topDown, i, j))
      PROVE  FundsInv'
    <2>1. PICK msgs : msgs = SubSeq(topDown, i, j)
        OBVIOUS
    <2>2. msgs \in Seq(Message) /\ ApplyCrossMessages(msgs)
        BY <1>1, <2>1, PieceIsMessages
    <2> QED
        BY <2>2, FundsApply
<1>2. CASE NextBlock
    BY <1>2, FundsUnchanged DEF NextBlock, parentVars
<1>3. ASSUME NEW relayer \in Relayer, RepeatBottomUpMsgBatch(relayer)
      PROVE  FundsInv'
    BY <1>3, FundsUnchanged DEF RepeatBottomUpMsgBatch, childVars
<1>4. CASE UNCHANGED crossVars
    BY <1>4, FundsUnchanged DEF crossVars, parentVars, childVars
<1> QED
    BY <1>1, <1>2, <1>3, <1>4, FundsRegister, FundsFund, FundsRelease, FundsSubmit, FundsKill
    DEF CrossNetNext

LEMMA FundsAlways == CrossNetSpec => [](CrossNetInv /\ FundsInv)
<1>1. CrossNetInit => CrossNetInv /\ FundsInv
    BY CrossInvInit, FundsInit
<1>2. CrossNetInv /\ FundsInv /\ [CrossNetNext]_crossVars => (CrossNetInv /\ FundsInv)'
    BY CrossStep, FundsStep
<1> QED
    BY <1>1, <1>2, PTL DEF CrossNetSpec

\* However pieces and batches are delivered, and through registration and kill,
\* the supply the parent keeps is what the child's users own and what is on its
\* way in both directions, and it is all in custody (fund, release, applyMsg,
\* execBottomUpMsgBatch, register, kill).
THEOREM SupplyBacked == CrossNetSpec => []SupplyConserved
    BY FundsAlways, BalanceIsSupply, PTL

\* A subnet that is not registered any more owes nothing and is owed nothing: kill
\* never strands an amount in the child or in a message, although messages without
\* an amount may be on their way.
THEOREM KilledEmpty == CrossNetSpec => []KilledIsEmpty
<1>1. CrossNetInv /\ FundsInv => KilledIsEmpty
    BY NoSupplyNothingLeft DEF KilledIsEmpty, FundsInv
<1> QED
    BY <1>1, FundsAlways, PTL

-----------------------------------------------------------------------------
(***************************************************************************)
(* Rewards. A batch that was executed has a height that has passed, and    *)
(* what is committed afterwards goes to the current height or a later one: *)
(* what the relayers were noted for stays as it was executed.              *)
(***************************************************************************)

RewardsTypeOK ==
    /\ lastBottomUpBatch \in [height : Nat, msgs : Seq(Message)]
    /\ batchRewarded \in [Height -> SUBSET Relayer]

\* A batch of a height that has passed, all of whose messages were executed.
PastAndPaid(h) == h < block /\ ToSet(bottomUpMsgBatches[h]) \subseteq ToSet(paidUp)

RewardsInv ==
    /\ RewardsTypeOK
    /\ lastBottomUpBatch.height > 0 =>
          /\ lastBottomUpBatch.height \in Height
          /\ lastBottomUpBatch.msgs = bottomUpMsgBatches[lastBottomUpBatch.height]
          /\ PastAndPaid(lastBottomUpBatch.height)
    /\ \A h \in Height : batchRewarded[h] # {} => PastAndPaid(h)

\* The invariant says more than the property.
LEMMA RewardsSuffice == RewardsInv => RewardedBatchIsPaid
    BY DEF RewardsInv, RewardsTypeOK, PastAndPaid, RewardedBatchIsPaid, Height

LEMMA RewardsInit == CrossNetInit => RewardsInv
<1> SUFFICES ASSUME CrossNetInit PROVE RewardsInv
    OBVIOUS
<1>1. /\ lastBottomUpBatch = [height |-> 0, msgs |-> <<>>]
      /\ batchRewarded = [h \in Height |-> {}]
    BY DEF CrossNetInit
<1>2. RewardsTypeOK
    BY <1>1 DEF RewardsTypeOK
<1> QED
    BY <1>1, <1>2 DEF RewardsInv

\* Steps that note no relayer: blocks pass, payments are never taken back, and
\* no batch of the past changes.
LEMMA RewardsKept ==
    ASSUME CrossNetInv, RewardsInv,
           UNCHANGED <<lastBottomUpBatch, batchRewarded, paidUp>>,
           block' \in Nat, block <= block',
           \A h \in Height : h < block => bottomUpMsgBatches'[h] = bottomUpMsgBatches[h]
    PROVE  RewardsInv'
<1>1. \A h \in Height : PastAndPaid(h) => PastAndPaid(h)'
    BY DEF PastAndPaid, CrossNetInv, BeforeGenesis, Height
<1>2. RewardsTypeOK'
    BY DEF RewardsInv, RewardsTypeOK
<1>3. lastBottomUpBatch.height > 0 =>
          /\ lastBottomUpBatch.height \in Height
          /\ lastBottomUpBatch.msgs = bottomUpMsgBatches'[lastBottomUpBatch.height]
          /\ PastAndPaid(lastBottomUpBatch.height)'
    BY <1>1 DEF RewardsInv, PastAndPaid
<1>4. \A h \in Height : batchRewarded[h] # {} => PastAndPaid(h)'
    BY <1>1 DEF RewardsInv
<1> QED
    BY <1>2, <1>3, <1>4 DEF RewardsInv, PastAndPaid

\* What is committed goes to the current height, or to the end of its epoch.
LEMMA PastBatchesKept ==
    ASSUME CrossNetInv, NEW value \in Values, NEW refused \in BOOLEAN,
           Release(value, refused),
           NEW h \in Height, h < block
    PROVE  bottomUpMsgBatches'[h] = bottomUpMsgBatches[h]
<1>1. PICK m : block > 0 /\ CommitBottomUpMsg(m)
    BY DEF Release
<1>2. /\ bottomUpMsgBatches = [k \in Height |-> bottomUpMsgBatches[k]]
      /\ block \in Nat /\ h # block /\ h # NextEpoch
    <2>1. block \in Nat /\ block < NextEpoch /\ NextEpoch \in Nat
        BY <1>1, EpochEnds, HeightsAreKept DEF CrossNetInv, BeforeGenesis, NextEpoch, Height
    <2> QED
        BY <2>1 DEF CrossNetInv, UpInv, Height
<1>3. PICK e : e = NextEpoch
    OBVIOUS
<1>4. PICK batch : batch = bottomUpMsgBatches[e]
    OBVIOUS
<1>5. \/ bottomUpMsgBatches' =
            [[bottomUpMsgBatches EXCEPT ![block] = @ \o batch] EXCEPT ![e] = <<m>>]
      \/ bottomUpMsgBatches' = [bottomUpMsgBatches EXCEPT ![e] = Append(@, m)]
    BY <1>1, <1>3, <1>4 DEF CommitBottomUpMsg, CutBatch, CutHeight
<1> QED
    BY <1>2, <1>3, <1>5

\* A submitted batch is executed before its relayer is noted.
LEMMA RewardsSubmit ==
    ASSUME CrossNetInv, RewardsInv, NEW height \in Height, NEW relayer \in Relayer,
           SubmitBottomUpMsgBatch(height, relayer)
    PROVE  RewardsInv'
<1>1. PICK msgs : msgs = bottomUpMsgBatches[height]
    OBVIOUS
<1>2. /\ height < block
      /\ lastBottomUpBatch' = [height |-> height, msgs |-> msgs]
      /\ batchRewarded' = [batchRewarded EXCEPT ![height] = @ \cup {relayer}]
      /\ paidUp' = paidUp \o msgs
      /\ UNCHANGED <<block, bottomUpMsgBatches>>
    BY <1>1 DEF SubmitBottomUpMsgBatch, ExecBottomUpMsgBatch, childVars
<1>3. msgs \in Seq(Message) /\ paidUp \in Seq(Message)
    BY <1>1, MessagesAreSequences DEF CrossNetInv, UpInv, SentOnly
<1>4. ToSet(paidUp') = ToSet(paidUp) \cup ToSet(msgs)
    <2>1. Range(paidUp \o msgs) = Range(paidUp) \cup Range(msgs)
        BY <1>3, RangeConcatenation
    <2> QED
        BY <1>2, <2>1 DEF Range, ToSet
<1>5. \A h \in Height : PastAndPaid(h) => PastAndPaid(h)'
    BY <1>2, <1>4 DEF PastAndPaid
<1>6. PastAndPaid(height)'
    BY <1>1, <1>2, <1>4 DEF PastAndPaid
<1>7. RewardsTypeOK'
    BY <1>2, <1>3 DEF RewardsInv, RewardsTypeOK, Height
<1>8. \A h \in Height : batchRewarded'[h] # {} => PastAndPaid(h)'
    BY <1>2, <1>5, <1>6 DEF RewardsInv, RewardsTypeOK
<1> QED
    BY <1>1, <1>2, <1>6, <1>7, <1>8 DEF RewardsInv, PastAndPaid

LEMMA RewardsRepeat ==
    ASSUME RewardsInv, NEW relayer \in Relayer, RepeatBottomUpMsgBatch(relayer)
    PROVE  RewardsInv'
<1>1. PICK last : last = lastBottomUpBatch.height
    OBVIOUS
<1>2. /\ last > 0
      /\ batchRewarded' = [batchRewarded EXCEPT ![last] = @ \cup {relayer}]
      /\ UNCHANGED <<lastBottomUpBatch, paidUp, block, bottomUpMsgBatches>>
    BY <1>1 DEF RepeatBottomUpMsgBatch, childVars
<1>3. last \in Height /\ PastAndPaid(last)
    BY <1>1, <1>2 DEF RewardsInv
<1>4. RewardsTypeOK'
    BY <1>2, <1>3 DEF RewardsInv, RewardsTypeOK
<1>5. \A h : PastAndPaid(h) <=> PastAndPaid(h)'
    BY <1>2 DEF PastAndPaid
<1>6. \A h \in Height : batchRewarded'[h] # {} => PastAndPaid(h)'
    BY <1>2, <1>3, <1>5 DEF RewardsInv, RewardsTypeOK
<1> QED
    BY <1>2, <1>4, <1>5, <1>6 DEF RewardsInv

\* Every step keeps the rewards in order.
LEMMA RewardsStep ==
    CrossNetInv /\ CrossNetInv' /\ RewardsInv /\ [CrossNetNext]_crossVars => RewardsInv'
<1> SUFFICES ASSUME CrossNetInv, CrossNetInv', RewardsInv, [CrossNetNext]_crossVars
             PROVE  RewardsInv'
    OBVIOUS
<1>1. block \in Nat /\ block' \in Nat
    BY DEF CrossNetInv, BeforeGenesis
<1>2. ASSUME UNCHANGED <<lastBottomUpBatch, batchRewarded, paidUp, block, bottomUpMsgBatches>>
      PROVE  RewardsInv'
    BY <1>1, <1>2, RewardsKept
<1>3. ASSUME NEW supply \in GenesisSupply, Register(supply) PROVE RewardsInv'
    <2>1. /\ block = 0 /\ block' = 1
          /\ UNCHANGED <<lastBottomUpBatch, batchRewarded, paidUp, bottomUpMsgBatches>>
        BY <1>3 DEF Register
    <2> QED
        BY <1>1, <2>1, RewardsKept
<1>4. ASSUME NEW value \in Values, NEW refused \in BOOLEAN, Fund(value, refused) PROVE RewardsInv'
    BY <1>2, <1>4 DEF Fund, childVars
<1>5. ASSUME NEW i \in DOMAIN topDown, NEW j \in DOMAIN topDown,
             ApplyCrossMessages(SubSeq(topDown, i, j))
      PROVE  RewardsInv'
    BY <1>2, <1>5 DEF ApplyCrossMessages, parentVars
<1>6. ASSUME NEW value \in Values, NEW refused \in BOOLEAN,
           Release(value, refused) PROVE RewardsInv'
    <2>1. UNCHANGED <<lastBottomUpBatch, batchRewarded, paidUp, block>>
        BY <1>6 DEF Release, parentVars
    <2> QED
        BY <1>1, <1>6, <2>1, PastBatchesKept, RewardsKept
<1>7. CASE NextBlock
    <2>1. /\ block' = block + 1
          /\ UNCHANGED <<lastBottomUpBatch, batchRewarded, paidUp, bottomUpMsgBatches>>
        BY <1>7 DEF NextBlock, parentVars
    <2> QED
        BY <1>1, <2>1, RewardsKept
<1>8. CASE Kill
    BY <1>2, <1>8 DEF Kill, childVars
<1>9. CASE UNCHANGED crossVars
    BY <1>2, <1>9 DEF crossVars, parentVars, childVars
<1> QED
    BY <1>3, <1>4, <1>5, <1>6, <1>7, <1>8, <1>9, RewardsSubmit, RewardsRepeat DEF CrossNetNext

LEMMA RewardsAlways == CrossNetSpec => [](CrossNetInv /\ FundsInv /\ RewardsInv)
<1>1. CrossNetInit => RewardsInv
    BY RewardsInit
<1> QED
    BY <1>1, FundsAlways, RewardsStep, PTL DEF CrossNetSpec

\* Each account, counter, message and batch is what its name says.
THEOREM CrossNetTyped == CrossNetSpec => []CrossNetTypeOK
<1>1. CrossNetInv /\ FundsInv /\ RewardsInv => CrossNetTypeOK
    <2> SUFFICES ASSUME CrossNetInv, FundsInv, RewardsInv PROVE CrossNetTypeOK
        OBVIOUS
    <2>1. /\ topDown \in Seq(Message) /\ paidDown \in Seq(Message)
          /\ bottomUp \in Seq(Message) /\ paidUp \in Seq(Message)
        BY MessagesAreSequences
    <2>2. bottomUpNonce \in Nat /\ appliedTopDownNonce \in Nat
        BY <2>1, LenProperties DEF CrossNetInv, UpInv, DownInv
    <2>3. bottomUpMsgBatches \in [Height -> Seq(Message)]
        BY DEF CrossNetInv, UpInv, SentOnly
    <2>4. block \in 0..MaxBlock
        BY DEF CrossNetInv, BeforeGenesis
    <2> QED
        BY <2>1, <2>2, <2>3, <2>4
        DEF CrossNetTypeOK, FundsInv, AccountsTypeOK, RewardsInv, RewardsTypeOK
<1> QED
    BY <1>1, RewardsAlways, PTL

\* A relayer is noted only for a batch whose messages were all executed, and
\* neither what the child stores for that height nor the batch kept for a
\* repeated submission changes afterwards (submitBottomUpMsgBatch,
\* storeBottomUpMsgBatch).
THEOREM RewardedAndPaid == CrossNetSpec => []RewardedBatchIsPaid
    BY RewardsAlways, RewardsSuffice, PTL

-----------------------------------------------------------------------------
(***************************************************************************)
(* Batches. Joined by height they are all that was sent up. No height after *)
(* the current one holds a message, except the end of the current epoch:   *)
(* what is committed is therefore last in the joined order, and a batch    *)
(* that is cut moves over empty heights only.                              *)
(***************************************************************************)

\* The batches up to each height, joined.
JoinedUpTo(it, batches) ==
    it = [n \in 0..LastEpoch |-> IF n = 0 THEN <<>> ELSE it[n - 1] \o batches[n]]

Joined(batches) == CHOOSE it : JoinedUpTo(it, batches)

Batches == [Height -> Seq(Message)]

\* There is room for a batch.
LEMMA LastEpochIsPositive == LastEpoch \in Nat \ {0}
<1>1. MaxBlock \in Nat /\ MaxBlock < LastEpoch
    BY EpochEnds, CrossNetAssumption DEF LastEpoch
<1>2. MaxBlock \div BatchPeriod \in Nat /\ BatchPeriod \in Nat
    BY EpochEnds, CrossNetAssumption
<1>3. \A p \in Nat, q \in Nat : (q + 1) * p \in Nat
    OBVIOUS
<1>4. LastEpoch \in Nat
    BY <1>2, <1>3 DEF LastEpoch
<1> QED
    BY <1>1, <1>4

\* Joining batches by height is well defined.
LEMMA JoinedExists ==
    ASSUME NEW batches
    PROVE  JoinedUpTo(Joined(batches), batches)
<1> DEFINE Upto(it, last) ==
        it = [n \in 0..last |-> IF n = 0 THEN <<>> ELSE it[n - 1] \o batches[n]]
           K == {last \in Nat : \E it : Upto(it, last)}
<1>1. 0 \in K
    <2>1. Upto([n \in 0..0 |-> <<>>], 0)
        OBVIOUS
    <2> QED
        BY <2>1
<1>2. \A k \in Nat : k \in K => k + 1 \in K
    <2> SUFFICES ASSUME NEW k \in Nat, k \in K PROVE k + 1 \in K
        OBVIOUS
    <2>1. PICK it : Upto(it, k)
        OBVIOUS
    <2>2. PICK next : next = it[k] \o batches[k + 1]
        OBVIOUS
    <2>3. PICK longer : longer = [n \in 0..(k + 1) |-> IF n = k + 1 THEN next ELSE it[n]]
        OBVIOUS
    <2>4. k \in Nat
        OBVIOUS
    <2>5. \A n \in 0..(k + 1) :
              longer[n] = IF n = 0 THEN <<>> ELSE longer[n - 1] \o batches[n]
        <3> TAKE n \in 0..(k + 1)
        <3>1. CASE n = k + 1
            BY <2>2, <2>3, <2>4, <3>1
        <3>2. CASE n \in 0..k
            BY <2>1, <2>3, <2>4, <3>2
        <3> QED
            BY <2>4, <3>1, <3>2
    <2>6. Upto(longer, k + 1)
        BY <2>3, <2>5
    <2>7. \E other : Upto(other, k + 1)
        BY <2>6
    <2> HIDE DEF Upto
    <2> QED
        BY <2>4, <2>7
<1> HIDE DEF K
<1>3. Nat \subseteq K
    BY <1>1, <1>2, NumbersByInduction
<1>4. LastEpoch \in K
    BY <1>3, LastEpochIsPositive
<1>5. \E it : JoinedUpTo(it, batches)
    BY <1>4 DEF K, JoinedUpTo
<1> QED
    BY <1>5 DEF Joined

\* The joined batches, height by height.
LEMMA JoinedSteps ==
    ASSUME NEW batches \in Batches
    PROVE  /\ Joined(batches)[0] = <<>>
           /\ \A n \in Height : Joined(batches)[n] = Joined(batches)[n - 1] \o batches[n]
           /\ \A n \in 0..LastEpoch : Joined(batches)[n] \in Seq(Message)
<1>1. PICK it : it = Joined(batches)
    OBVIOUS
<1>2. it = [n \in 0..LastEpoch |-> IF n = 0 THEN <<>> ELSE it[n - 1] \o batches[n]]
    BY <1>1, JoinedExists DEF JoinedUpTo
<1>3. it[0] = <<>>
    <2>1. 0 \in 0..LastEpoch
        BY LastEpochIsPositive
    <2> QED
        BY <1>2, <2>1
<1>4. \A n \in Height : it[n] = it[n - 1] \o batches[n]
    <2> TAKE n \in Height
    <2>1. n \in 0..LastEpoch /\ n # 0
        BY LastEpochIsPositive DEF Height
    <2> QED
        BY <1>2, <2>1
<1> DEFINE K == {n \in Nat : n \in 0..LastEpoch => it[n] \in Seq(Message)}
<1>5. 0 \in K
    <2>1. <<>> \in Seq(Message)
        OBVIOUS
    <2> QED
        BY <1>3, <2>1
<1>6. \A k \in Nat : k \in K => k + 1 \in K
    <2> SUFFICES ASSUME NEW k \in Nat, k \in K, k + 1 \in 0..LastEpoch
                 PROVE  it[k + 1] \in Seq(Message)
        OBVIOUS
    <2>1. k \in 0..LastEpoch /\ k + 1 \in Height /\ (k + 1) - 1 = k
        BY LastEpochIsPositive DEF Height
    <2>2. it[k] \in Seq(Message) /\ batches[k + 1] \in Seq(Message)
        BY <2>1 DEF Batches
    <2>3. it[k + 1] = it[k] \o batches[k + 1]
        BY <1>4, <2>1
    <2> QED
        BY <2>2, <2>3
<1> HIDE DEF K
<1>7. Nat \subseteq K
    BY <1>5, <1>6, NumbersByInduction
<1>8. \A n \in 0..LastEpoch : it[n] \in Seq(Message)
    BY <1>7, LastEpochIsPositive DEF K
<1> QED
    BY <1>1, <1>3, <1>8, <1>4

\* FlattenSeq joins all heights.
LEMMA JoinedIsFlatten ==
    ASSUME NEW batches \in Batches
    PROVE  FlattenSeq([h \in Height |-> batches[h]]) = Joined(batches)[LastEpoch]
<1>1. PICK it : it = Joined(batches)
    OBVIOUS
<1>2. /\ it[0] = <<>>
      /\ \A n \in Height : it[n] = it[n - 1] \o batches[n]
      /\ \A n \in 0..LastEpoch : it[n] \in Seq(Message)
    BY <1>1, JoinedSteps
<1>3. batches = [h \in Height |-> batches[h]] /\ batches \in Seq(Seq(Message))
      /\ Len(batches) = LastEpoch
    BY LastEpochIsPositive DEF Batches, Height
<1> DEFINE IsFlatten(f) ==
        f = [i \in 1..Len(batches) |-> IF i = 1 THEN batches[i] ELSE f[i - 1] \o batches[i]]
<1>4. \E f : IsFlatten(f)
    <2>1. PICK f : f = [i \in 1..LastEpoch |-> it[i]]
        OBVIOUS
    <2>2. \A i \in 1..LastEpoch : f[i] = IF i = 1 THEN batches[i] ELSE f[i - 1] \o batches[i]
        <3> TAKE i \in 1..LastEpoch
        <3>1. CASE i = 1
            <4>1. batches[1] \in Seq(Message)
                BY <3>1 DEF Batches, Height
            <4>2. 1 \in Height /\ 1 - 1 = 0
                BY <3>1 DEF Height
            <4>3. it[1] = <<>> \o batches[1]
                BY <1>2, <4>2
            <4> QED
                BY <2>1, <3>1, <4>1, <4>3, ConcatEmptySeq
        <3>2. CASE i # 1
            <4>1. i - 1 \in 1..LastEpoch /\ i \in Height
                BY <3>2, LastEpochIsPositive DEF Height
            <4> QED
                BY <1>2, <2>1, <3>2, <4>1
        <3> QED
            BY <3>1, <3>2
    <2>3. IsFlatten(f)
        BY <1>3, <2>1, <2>2
    <2> QED
        BY <2>3
<1>5. PICK flatten : flatten = CHOOSE f : IsFlatten(f)
    OBVIOUS
<1>6. IsFlatten(flatten)
    BY <1>4, <1>5
<1> DEFINE K == {n \in Nat : n \in 1..LastEpoch => flatten[n] = it[n]}
<1>7. 0 \in K
    OBVIOUS
<1>8. \A k \in Nat : k \in K => k + 1 \in K
    <2> SUFFICES ASSUME NEW k \in Nat, k \in K, k + 1 \in 1..LastEpoch
                 PROVE  flatten[k + 1] = it[k + 1]
        OBVIOUS
    <2>1. k \in Nat /\ (k + 1) - 1 = k /\ k + 1 \in Height
        BY DEF Height
    <2>2. it[k + 1] = it[k] \o batches[k + 1] /\ batches[k + 1] \in Seq(Message)
        BY <1>2, <2>1 DEF Batches
    <2>3. CASE k = 0
        BY <1>2, <1>3, <1>6, <2>2, <2>3, ConcatEmptySeq
    <2>4. CASE k # 0
        <3>1. k \in 1..LastEpoch
            BY <2>1, <2>4, LastEpochIsPositive
        <3>2. flatten[k + 1] = flatten[k] \o batches[k + 1]
            <4>1. k + 1 \in 1..Len(batches) /\ k + 1 # 1
                BY <1>3, <2>1, <2>4
            <4>2. flatten[k + 1] = flatten[(k + 1) - 1] \o batches[k + 1]
                BY <1>6, <4>1
            <4> QED
                BY <2>1, <4>2
        <3> QED
            BY <2>2, <3>1, <3>2
    <2> QED
        BY <2>3, <2>4
<1> HIDE DEF K
<1>9. Nat \subseteq K
    BY <1>7, <1>8, NumbersByInduction
<1>10. flatten[LastEpoch] = it[LastEpoch]
    BY <1>9, LastEpochIsPositive DEF K
<1>11. FlattenSeq(batches) = flatten[Len(batches)]
    <2>1. Len(batches) # 0
        BY <1>3, LastEpochIsPositive
    <2> QED
        BY <1>5, <2>1 DEF FlattenSeq
<1> QED
    BY <1>1, <1>3, <1>10, <1>11

\* What is joined up to a height depends on the batches up to there.
LEMMA JoinedSame ==
    ASSUME NEW old \in Batches, NEW new \in Batches, NEW last \in 0..LastEpoch,
           \A h \in 1..last : old[h] = new[h]
    PROVE  Joined(old)[last] = Joined(new)[last]
<1> DEFINE K == {n \in Nat : n <= last => Joined(old)[n] = Joined(new)[n]}
<1>1. 0 \in K
    BY JoinedSteps
<1>2. \A k \in Nat : k \in K => k + 1 \in K
    <2> SUFFICES ASSUME NEW k \in Nat, k \in K, k + 1 <= last
                 PROVE  Joined(old)[k + 1] = Joined(new)[k + 1]
        OBVIOUS
    <2>1. k \in Nat /\ k + 1 \in Height /\ (k + 1) - 1 = k /\ k + 1 \in 1..last
        BY LastEpochIsPositive DEF Height
    <2>2. Joined(old)[k] = Joined(new)[k]
        BY <2>1, LastEpochIsPositive
    <2> QED
        BY <2>1, <2>2, JoinedSteps
<1> HIDE DEF K
<1>3. Nat \subseteq K
    BY <1>1, <1>2, NumbersByInduction
<1> QED
    BY <1>3, LastEpochIsPositive DEF K

\* Empty batches add nothing.
LEMMA JoinedOverEmpty ==
    ASSUME NEW batches \in Batches, NEW first \in 0..LastEpoch, NEW last \in first..LastEpoch,
           \A h \in (first + 1)..last : batches[h] = <<>>
    PROVE  Joined(batches)[last] = Joined(batches)[first]
<1> DEFINE K == {n \in Nat : first + n <= last =>
                                 Joined(batches)[first + n] = Joined(batches)[first]}
<1>1. 0 \in K
    BY LastEpochIsPositive
<1>2. \A k \in Nat : k \in K => k + 1 \in K
    <2> SUFFICES ASSUME NEW k \in Nat, k \in K, first + (k + 1) <= last
                 PROVE  Joined(batches)[first + (k + 1)] = Joined(batches)[first]
        OBVIOUS
    <2>1. PICK h : h = first + (k + 1)
        OBVIOUS
    <2>2. /\ h \in Height /\ h \in (first + 1)..last /\ h - 1 = first + k
          /\ first + k <= last /\ h - 1 \in 0..LastEpoch
        BY <2>1, LastEpochIsPositive DEF Height
    <2>3. Joined(batches)[h - 1] = Joined(batches)[first]
        BY <2>2
    <2>4. Joined(batches)[h] = Joined(batches)[h - 1] \o <<>>
        BY <2>2, JoinedSteps
    <2>5. Joined(batches)[h - 1] \in Seq(Message)
        BY <2>2, JoinedSteps
    <2> QED
        BY <2>1, <2>3, <2>4, <2>5, ConcatEmptySeq
<1> HIDE DEF K
<1>3. Nat \subseteq K
    BY <1>1, <1>2, NumbersByInduction
<1>4. PICK n : n = last - first
    OBVIOUS
<1>5. n \in Nat /\ first + n = last /\ first + n <= last
    BY <1>4, LastEpochIsPositive
<1>6. n \in K
    BY <1>3, <1>5
<1> QED
    BY <1>5, <1>6 DEF K

\* One height more.
LEMMA JoinedOnce ==
    ASSUME NEW batches \in Batches, NEW h \in Height
    PROVE  /\ Joined(batches)[h - 1] \in Seq(Message) /\ batches[h] \in Seq(Message)
           /\ Joined(batches)[h] \in Seq(Message)
           /\ Joined(batches)[h] = Joined(batches)[h - 1] \o batches[h]
<1>1. h - 1 \in 0..LastEpoch /\ h \in 0..LastEpoch
    BY LastEpochIsPositive DEF Height
<1>2. batches[h] \in Seq(Message)
    BY DEF Batches
<1> QED
    BY <1>1, <1>2, JoinedSteps

\* A message appended to the last batch comes last.
LEMMA JoinedAppend ==
    ASSUME NEW old \in Batches, NEW new \in Batches, NEW e \in Height, NEW m \in Message,
           new = [old EXCEPT ![e] = Append(@, m)],
           \A h \in Height : h > e => old[h] = <<>>
    PROVE  Joined(new)[LastEpoch] = Append(Joined(old)[LastEpoch], m)
<1>1. e - 1 \in 0..LastEpoch /\ LastEpoch \in e..LastEpoch /\ e \in 0..LastEpoch
    BY LastEpochIsPositive DEF Height
<1>2. /\ \A h \in Height : h # e => new[h] = old[h]
      /\ new[e] = Append(old[e], m)
    BY DEF Batches
<1>3. Joined(old)[e - 1] = Joined(new)[e - 1]
    <2>1. \A h \in 1..(e - 1) : h \in Height /\ h # e
        BY LastEpochIsPositive DEF Height
    <2>2. \A h \in 1..(e - 1) : old[h] = new[h]
        BY <1>2, <2>1
    <2> QED
        BY <1>1, <2>2, JoinedSame
<1>4. Joined(new)[LastEpoch] = Joined(new)[e] /\ Joined(old)[LastEpoch] = Joined(old)[e]
    <2>1. \A h \in (e + 1)..LastEpoch : h \in Height /\ h # e /\ h > e
        BY LastEpochIsPositive DEF Height
    <2>2. \A h \in (e + 1)..LastEpoch : old[h] = <<>>
        BY <2>1
    <2>3. \A h \in (e + 1)..LastEpoch : new[h] = <<>>
        BY <1>2, <2>1, <2>2
    <2>4. Joined(old)[LastEpoch] = Joined(old)[e]
        BY <1>1, <2>2, JoinedOverEmpty
    <2>5. Joined(new)[LastEpoch] = Joined(new)[e]
        BY <1>1, <2>3, JoinedOverEmpty
    <2> QED
        BY <2>4, <2>5
<1>5. PICK before, batch : before = Joined(old)[e - 1] /\ batch = old[e]
    OBVIOUS
<1>6. before \in Seq(Message) /\ batch \in Seq(Message) /\ <<m>> \in Seq(Message)
    <2>1. <<m>> \in Seq(Message)
        OBVIOUS
    <2> QED
        BY <1>5, <2>1, JoinedOnce
<1>7. Joined(old)[e] = before \o batch
    BY <1>5, JoinedOnce
<1>8. Joined(new)[e] = before \o (batch \o <<m>>)
    <2>1. new[e] = batch \o <<m>>
        BY <1>2, <1>5, <1>6, AppendIsConcat
    <2>2. Joined(new)[e] = Joined(new)[e - 1] \o new[e]
        BY JoinedOnce
    <2> QED
        BY <1>3, <1>5, <2>1, <2>2
<1>9. before \o (batch \o <<m>>) = (before \o batch) \o <<m>>
    BY <1>6, ConcatAssociative
<1>10. (before \o batch) \o <<m>> = Append(before \o batch, m)
    <2>1. before \o batch \in Seq(Message)
        BY <1>6
    <2> QED
        BY <2>1, AppendIsConcat
<1> QED
    BY <1>4, <1>7, <1>8, <1>9, <1>10

\* A batch that is cut earlier, over empty heights, keeps its place; the message
\* that starts it anew comes last.
CutAndStarted(batches, b, e, m) ==
    [[batches EXCEPT ![b] = @ \o batches[e]] EXCEPT ![e] = <<m>>]

\* A cut moves a batch over empty heights, and the new message is the last.
LEMMA JoinedCut ==
    ASSUME NEW old \in Batches, NEW new \in Batches, NEW b \in Height, NEW e \in Height, b < e,
           NEW m \in Message,
           new = CutAndStarted(old, b, e, m),
           \A h \in Height : h > b /\ h # e => old[h] = <<>>
    PROVE  Joined(new)[LastEpoch] = Append(Joined(old)[LastEpoch], m)
<1>1. /\ b \in 0..LastEpoch /\ b - 1 \in 0..LastEpoch /\ e - 1 \in b..LastEpoch
      /\ e \in 0..LastEpoch /\ LastEpoch \in e..LastEpoch
    BY LastEpochIsPositive DEF Height
<1>2. /\ \A h \in Height : h # e /\ h # b => new[h] = old[h]
      /\ new[b] = old[b] \o old[e]
      /\ new[e] = <<m>>
    <2>1. b # e
        BY DEF Height
    <2> QED
        BY <2>1 DEF Batches, CutAndStarted
<1>3. Joined(old)[b - 1] = Joined(new)[b - 1]
    <2>1. \A h \in 1..(b - 1) : h \in Height /\ h # e /\ h # b
        BY LastEpochIsPositive DEF Height
    <2>2. \A h \in 1..(b - 1) : old[h] = new[h]
        BY <1>2, <2>1
    <2> QED
        BY <1>1, <2>2, JoinedSame
<1>4. Joined(new)[LastEpoch] = Joined(new)[e] /\ Joined(old)[LastEpoch] = Joined(old)[e]
    <2>1. \A h \in (e + 1)..LastEpoch : h \in Height /\ h # e /\ h # b /\ h > b
        BY LastEpochIsPositive DEF Height
    <2>2. \A h \in (e + 1)..LastEpoch : old[h] = <<>>
        BY <2>1
    <2>3. \A h \in (e + 1)..LastEpoch : new[h] = <<>>
        BY <1>2, <2>1, <2>2
    <2>4. Joined(old)[LastEpoch] = Joined(old)[e]
        BY <1>1, <2>2, JoinedOverEmpty
    <2>5. Joined(new)[LastEpoch] = Joined(new)[e]
        BY <1>1, <2>3, JoinedOverEmpty
    <2> QED
        BY <2>4, <2>5
<1>5. Joined(new)[e - 1] = Joined(new)[b] /\ Joined(old)[e - 1] = Joined(old)[b]
    <2>1. \A h \in (b + 1)..(e - 1) : h \in Height /\ h # e /\ h # b /\ h > b
        BY LastEpochIsPositive DEF Height
    <2>2. \A h \in (b + 1)..(e - 1) : old[h] = <<>>
        BY <2>1
    <2>3. \A h \in (b + 1)..(e - 1) : new[h] = <<>>
        BY <1>2, <2>1, <2>2
    <2>4. Joined(old)[e - 1] = Joined(old)[b]
        BY <1>1, <2>2, JoinedOverEmpty
    <2>5. Joined(new)[e - 1] = Joined(new)[b]
        BY <1>1, <2>3, JoinedOverEmpty
    <2> QED
        BY <2>4, <2>5
<1>6. PICK before, here, batch :
          before = Joined(old)[b - 1] /\ here = old[b] /\ batch = old[e]
    OBVIOUS
<1>7. before \in Seq(Message) /\ here \in Seq(Message) /\ batch \in Seq(Message)
    BY <1>6, JoinedOnce
<1>8. Joined(old)[b] = before \o here
    BY <1>6, JoinedOnce
<1>9. Joined(new)[b] = before \o (here \o batch)
    <2>1. Joined(new)[b] = Joined(new)[b - 1] \o new[b]
        BY JoinedOnce
    <2> QED
        BY <1>2, <1>3, <1>6, <2>1
<1>10. Joined(old)[e] = (before \o here) \o batch
    <2>1. Joined(old)[e] = Joined(old)[e - 1] \o old[e]
        BY JoinedOnce
    <2> QED
        BY <1>5, <1>6, <1>8, <2>1
<1>11. Joined(new)[b] = Joined(old)[e]
    <2>1. before \o (here \o batch) = (before \o here) \o batch
        BY <1>7, ConcatAssociative
    <2> QED
        BY <1>9, <1>10, <2>1
<1>12. Joined(new)[e] = Joined(old)[e] \o <<m>>
    <2>1. Joined(new)[e] = Joined(new)[e - 1] \o new[e]
        BY JoinedOnce
    <2> QED
        BY <1>2, <1>5, <1>11, <2>1
<1>13. Joined(old)[e] \in Seq(Message)
    BY JoinedOnce
<1>14. Joined(old)[e] \o <<m>> = Append(Joined(old)[e], m)
    BY <1>13, AppendIsConcat
<1> QED
    BY <1>4, <1>12, <1>14

\* The end of the epoch stays, or has been reached.
LEMMA EpochReached ==
    ASSUME NEW b \in Nat
    PROVE  \/ ((b + 1) \div BatchPeriod + 1) * BatchPeriod = (b \div BatchPeriod + 1) * BatchPeriod
           \/ (b \div BatchPeriod + 1) * BatchPeriod <= b + 1
<1>1. PICK p \in Nat \ {0} : p = BatchPeriod
    BY CrossNetAssumption
<1>2. PICK q \in Nat, r \in Nat : q = b \div p /\ r = (b + 1) \div p
    BY EpochEnds, <1>1
<1>3. r * p <= b + 1
    BY <1>1, <1>2
<1>4. q <= r
    BY <1>1, <1>2
<1>5. \A x \in Nat, y \in Nat, z \in Nat : x + 1 <= y => (x + 1) * z <= y * z
    OBVIOUS
<1>6. q = r \/ (q + 1) * p <= r * p
    BY <1>4, <1>5
<1>7. (q + 1) * p \in Nat /\ r * p \in Nat
    OBVIOUS
<1> QED
    BY <1>1, <1>2, <1>3, <1>6, <1>7

BatchesInv ==
    /\ Joined(bottomUpMsgBatches)[LastEpoch] = bottomUp
    /\ \A h \in Height : bottomUpMsgBatches[h] # <<>> => h <= block \/ h = NextEpoch

\* Batches are sequences of messages.
LEMMA BatchesTyped ==
    ASSUME CrossNetInv
    PROVE  bottomUpMsgBatches \in Batches
    BY DEF CrossNetInv, UpInv, SentOnly, Batches

LEMMA BatchesInit == CrossNetInit => BatchesInv
<1> SUFFICES ASSUME CrossNetInit PROVE BatchesInv
    OBVIOUS
<1>1. bottomUp = <<>> /\ bottomUpMsgBatches = [h \in Height |-> <<>>]
    BY DEF CrossNetInit
<1>2. bottomUpMsgBatches \in Batches
    BY <1>1 DEF Batches
<1>3. Joined(bottomUpMsgBatches)[LastEpoch] = Joined(bottomUpMsgBatches)[0]
    <2>1. 0 \in 0..LastEpoch /\ LastEpoch \in 0..LastEpoch /\ (0 + 1)..LastEpoch = Height
        BY LastEpochIsPositive DEF Height
    <2> QED
        BY <1>1, <1>2, <2>1, JoinedOverEmpty
<1> QED
    BY <1>1, <1>2, <1>3, JoinedSteps DEF BatchesInv

\* Steps that commit nothing; a block may pass.
LEMMA BatchesKept ==
    ASSUME CrossNetInv, BatchesInv, UNCHANGED <<bottomUpMsgBatches, bottomUp>>,
           block' = block \/ block' = block + 1
    PROVE  BatchesInv'
<1>1. block \in Nat
    BY DEF CrossNetInv, BeforeGenesis
<1>2. NextEpoch' = NextEpoch \/ NextEpoch <= block'
    BY <1>1, EpochReached DEF NextEpoch
<1>3. \A h \in Height : h <= block \/ h = NextEpoch => h <= block' \/ h = NextEpoch'
    BY <1>1, <1>2 DEF Height
<1>4. Joined(bottomUpMsgBatches')[LastEpoch] = bottomUp'
    BY DEF BatchesInv
<1>5. \A h \in Height : bottomUpMsgBatches'[h] # <<>> => h <= block' \/ h = NextEpoch'
    BY <1>3 DEF BatchesInv
<1> QED
    BY <1>4, <1>5 DEF BatchesInv

\* A message sent up is added at the end of the joined batches, whether or not a
\* batch is cut for it.
LEMMA BatchesRelease ==
    ASSUME CrossNetInv, CrossNetInv', BatchesInv, NEW value \in Values, NEW refused \in BOOLEAN,
           Release(value, refused)
    PROVE  BatchesInv'
<1>1. PICK m : m = [nonce |-> bottomUpNonce, value |-> value, refused |-> refused]
    OBVIOUS
<1>2. /\ block > 0 /\ block' = block
      /\ CommitBottomUpMsg(m)
      /\ bottomUp' = Append(bottomUp, m)
    BY <1>1 DEF Release
<1>3. m \in Message
    <2>1. bottomUpNonce \in Nat
        BY MessagesAreSequences, LenProperties DEF CrossNetInv, UpInv
    <2> QED
        BY <1>1, <2>1 DEF Message
<1>4. PICK e : e = NextEpoch
    OBVIOUS
<1>5. e \in Height /\ block \in Height /\ block < e
    BY <1>2, <1>4, EpochEnds, HeightsAreKept DEF CrossNetInv, BeforeGenesis, NextEpoch
<1>6. PICK old, new : old = bottomUpMsgBatches /\ new = bottomUpMsgBatches'
    OBVIOUS
<1>7. old \in Batches /\ new \in Batches
    <2>1. bottomUpMsgBatches' \in Batches
        BY DEF CrossNetInv, UpInv, SentOnly, Batches
    <2> QED
        BY <1>6, <2>1, BatchesTyped
<1>8. \/ new = CutAndStarted(old, block, e, m)
      \/ new = [old EXCEPT ![e] = Append(@, m)]
    BY <1>2, <1>4, <1>6 DEF CommitBottomUpMsg, CutBatch, CutHeight, CutAndStarted
<1>9. \A h \in Height : h > block /\ h # e => old[h] = <<>>
    BY <1>4, <1>5, <1>6 DEF BatchesInv, Height
<1>10. \A h \in Height : h > e => old[h] = <<>>
    BY <1>5, <1>9 DEF Height
<1>11. Joined(new)[LastEpoch] = Append(Joined(old)[LastEpoch], m)
    <2>1. CASE new = CutAndStarted(old, block, e, m)
        <3>1. PICK b : b = block
            OBVIOUS
        <3>2. new = CutAndStarted(old, b, e, m) /\ b \in Height /\ b < e
            BY <1>5, <2>1, <3>1
        <3>3. \A h \in Height : h > b /\ h # e => old[h] = <<>>
            BY <1>9, <3>1
        <3> QED
            BY <1>3, <1>5, <1>7, <3>2, <3>3, JoinedCut
    <2>2. CASE new = [old EXCEPT ![e] = Append(@, m)]
        BY <1>3, <1>5, <1>7, <1>10, <2>2, JoinedAppend
    <2> QED
        BY <1>8, <2>1, <2>2
<1>12. Joined(new)[LastEpoch] = bottomUp'
    BY <1>2, <1>6, <1>11 DEF BatchesInv
<1>13. \A h \in Height : h > block /\ h # e => new[h] = <<>>
    BY <1>5, <1>7, <1>8, <1>9 DEF Batches, Height, CutAndStarted
<1>14. \A h \in Height : new[h] # <<>> => h <= block' \/ h = NextEpoch'
    <2>1. NextEpoch' = e
        BY <1>2, <1>4 DEF NextEpoch
    <2> QED
        BY <1>2, <1>5, <1>13, <2>1 DEF Height
<1> QED
    BY <1>6, <1>12, <1>14 DEF BatchesInv

\* Every step keeps the joined batches what was sent.
LEMMA BatchesStep ==
    CrossNetInv /\ CrossNetInv' /\ BatchesInv /\ [CrossNetNext]_crossVars => BatchesInv'
<1> SUFFICES ASSUME CrossNetInv, CrossNetInv', BatchesInv, [CrossNetNext]_crossVars
             PROVE  BatchesInv'
    OBVIOUS
<1>1. ASSUME NEW supply \in GenesisSupply, Register(supply) PROVE BatchesInv'
    <2>1. UNCHANGED <<bottomUpMsgBatches, bottomUp>> /\ block' = block + 1
        BY <1>1 DEF Register
    <2> QED
        BY <2>1, BatchesKept
<1>2. ASSUME NEW value \in Values, NEW refused \in BOOLEAN, Fund(value, refused) PROVE BatchesInv'
    BY <1>2, BatchesKept DEF Fund, childVars
<1>3. ASSUME NEW i \in DOMAIN topDown, NEW j \in DOMAIN topDown,
             ApplyCrossMessages(SubSeq(topDown, i, j))
      PROVE  BatchesInv'
    BY <1>3, BatchesKept DEF ApplyCrossMessages
<1>4. CASE NextBlock
    BY <1>4, BatchesKept DEF NextBlock
<1>5. ASSUME NEW height \in Height, NEW relayer \in Relayer,
             SubmitBottomUpMsgBatch(height, relayer)
      PROVE  BatchesInv'
    BY <1>5, BatchesKept DEF SubmitBottomUpMsgBatch, childVars
<1>6. ASSUME NEW relayer \in Relayer, RepeatBottomUpMsgBatch(relayer) PROVE BatchesInv'
    BY <1>6, BatchesKept DEF RepeatBottomUpMsgBatch, childVars
<1>7. CASE Kill
    BY <1>7, BatchesKept DEF Kill, childVars
<1>8. CASE UNCHANGED crossVars
    BY <1>8, BatchesKept DEF crossVars, childVars
<1> QED
    BY <1>1, <1>2, <1>3, <1>4, <1>5, <1>6, <1>7, <1>8, BatchesRelease DEF CrossNetNext

\* Whatever was sent up is in one batch, in its place, however full batches are
\* cut and whenever blocks pass (commitBottomUpMsg, storeBottomUpMsgBatch).
THEOREM BatchesComplete == CrossNetSpec => []BatchesHoldAll
<1>1. CrossNetInv /\ BatchesInv => BatchesHoldAll
    BY BatchesTyped, JoinedIsFlatten DEF BatchesInv, BatchesHoldAll
<1>2. CrossNetInit => BatchesInv
    BY BatchesInit
<1> QED
    BY <1>1, <1>2, FundsAlways, BatchesStep, PTL DEF CrossNetSpec
=============================================================================
