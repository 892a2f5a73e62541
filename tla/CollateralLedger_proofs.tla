----------------------- MODULE CollateralLedger_proofs -----------------------
(***************************************************************************)
(* Confirming in order is enough: the ledger confirms without looking at   *)
(* the collateral it takes, and never takes collateral that is not there.  *)
(*                                                                         *)
(* The inductive invariant says that a book of the confirmed collateral    *)
(* exists for every prefix of the log: the first is today's, the last is   *)
(* the supplied book, and each is the one before it with one entry         *)
(* applied. All of them are natural, so no confirmation can go wrong.      *)
(***************************************************************************)
EXTENDS CollateralLedger, TLAPS

Balances == [Validator -> Nat]

Applied(balances, entry) ==
    [balances EXCEPT ![entry.validator] = @ + entry.delta]

IsChronicle(book) ==
    /\ book \in [first..next -> Balances]
    /\ book[first] = confirmed
    /\ book[next] = supplied
    /\ \A n \in first..(next - 1) : book[n + 1] = Applied(book[n], pending[n])

LedgerTypeOK ==
    /\ first \in Nat
    /\ next \in Nat
    /\ first <= next
    /\ pending \in [first..(next - 1) -> Entry]
    /\ supplied \in Balances
    /\ confirmed \in Balances

LedgerInv == LedgerTypeOK /\ \E book : IsChronicle(book)

LEMMA LedgerInit == Init => LedgerInv
<1> SUFFICES ASSUME Init PROVE LedgerInv
  OBVIOUS
<1>1. pending \in [1..0 -> Entry]
  BY DEF Init
<1>2. LedgerTypeOK
  BY <1>1 DEF Init, LedgerTypeOK, Balances
<1>3. IsChronicle([n \in 1..1 |-> confirmed])
  <2>1. first..(next - 1) = {}
    BY DEF Init
  <2>2. QED
    BY <1>2, <2>1 DEF Init, IsChronicle, LedgerTypeOK
<1>4. QED
  BY <1>2, <1>3 DEF LedgerInv

\* Supplying leaves a book of naturals that differs at one validator.
LEMMA SupplyType ==
    ASSUME LedgerTypeOK, NEW v \in Validator, Supply(v)
    PROVE  /\ supplied' \in Balances
           /\ Delta(v) \in Int
           /\ supplied' = Applied(supplied, [validator |-> v, delta |-> Delta(v)])
<1>1. PICK amount \in Nat : supplied'[v] = amount
  BY DEF Supply
<1>2. supplied' = [supplied EXCEPT ![v] = amount]
  BY <1>1 DEF Supply
<1>3. supplied' \in Balances
  BY <1>1, <1>2 DEF LedgerTypeOK, Balances
<1>4. supplied[v] \in Nat /\ Delta(v) = amount - supplied[v]
  BY <1>1 DEF LedgerTypeOK, Balances, Delta
<1>5. Delta(v) \in Int /\ supplied[v] + Delta(v) = amount
  BY <1>1, <1>4
<1>6. QED
  BY <1>2, <1>3, <1>5 DEF Applied

LEMMA DirectStep ==
    ASSUME LedgerInv, NEW v \in Validator, Direct(v)
    PROVE  LedgerInv'
<1>1. PICK book : IsChronicle(book)
  BY DEF LedgerInv
<1>2. LedgerTypeOK /\ supplied = confirmed /\ first = next
  BY <1>1 DEF LedgerInv, IsChronicle, Direct
<1>3. supplied' \in Balances /\ supplied' = confirmed'
  BY <1>2, SupplyType DEF Direct, Applied
<1>4. LedgerTypeOK'
  BY <1>2, <1>3 DEF LedgerTypeOK, Direct
<1>5. PICK single : single = [n \in first..next |-> supplied']
  OBVIOUS
<1>6. IsChronicle(single)'
  <2>1. first..(next - 1) = {} /\ first' = first /\ next' = next
    BY <1>2 DEF LedgerTypeOK, Direct
  <2>2. first \in first..next /\ next \in first..next
    BY <1>2 DEF LedgerTypeOK
  <2>3. QED
    BY <1>3, <1>5, <2>1, <2>2 DEF IsChronicle
<1>7. QED
  BY <1>4, <1>6 DEF LedgerInv

\* The empty changes repeat the supplied book; the last one is the new book.
LEMMA RecordBook ==
    ASSUME LedgerTypeOK, NEW book, IsChronicle(book),
           NEW v \in Validator, NEW empty \in {0, 1}, Record(v, empty)
    PROVE  /\ LedgerTypeOK'
           /\ \E new : IsChronicle(new)' /\ \A n \in first..next : new[n] = book[n]
<1> DEFINE number == next + empty
           entry(n) == [validator |-> v, delta |-> IF n = number THEN Delta(v) ELSE 0]
<1>1. IsChronicle(book)
  OBVIOUS
<1>2. LedgerTypeOK
  OBVIOUS
<1>3. /\ supplied' \in Balances /\ Delta(v) \in Int
      /\ supplied' = Applied(supplied, [validator |-> v, delta |-> Delta(v)])
  BY <1>2, SupplyType DEF Record
<1>4. /\ first' = first /\ next' = number + 1 /\ confirmed' = confirmed
      /\ number \in Nat /\ next <= number /\ first <= next /\ first \in Nat /\ next \in Nat
  BY <1>2 DEF Record, LedgerTypeOK
<1>5. pending' = [n \in first..number |-> IF n < next THEN pending[n] ELSE entry(n)]
  BY DEF Record
<1>6. \A n \in first..number : pending'[n] \in Entry
  <2> TAKE n \in first..number
  <2>1. CASE n < next
    BY <1>2, <1>4, <1>5, <2>1 DEF LedgerTypeOK
  <2>2. CASE ~(n < next)
    BY <1>3, <1>4, <1>5, <2>2 DEF Entry
  <2>3. QED
    BY <2>1, <2>2
<1>7. pending' \in [first..number -> Entry]
  BY <1>5, <1>6
<1>8. LedgerTypeOK'
  <2>1. first'..(next' - 1) = first..number
    BY <1>4
  <2>2. QED
    BY <1>2, <1>3, <1>4, <1>7, <2>1 DEF LedgerTypeOK
<1> DEFINE longer == [n \in first..(number + 1) |->
                         IF n <= next THEN book[n] ELSE
                         IF n <= number THEN supplied ELSE supplied']
<1>9. longer \in [first..(number + 1) -> Balances]
  BY <1>1, <1>2, <1>3, <1>4 DEF IsChronicle, LedgerTypeOK
<1>10. \A n \in first..number : longer[n + 1] = Applied(longer[n], pending'[n])
  <2> TAKE n \in first..number
  <2>1. CASE n < next
    <3>1. longer[n] = book[n] /\ longer[n + 1] = book[n + 1] /\ pending'[n] = pending[n]
      BY <1>4, <1>5, <2>1
    <3>2. book[n + 1] = Applied(book[n], pending[n])
      BY <1>1, <1>4, <2>1 DEF IsChronicle
    <3>3. QED
      BY <3>1, <3>2
  <2>2. CASE n >= next /\ n < number
    <3>1. n = next /\ n + 1 = number
      BY <1>4, <2>2
    <3>2. longer[n] = supplied /\ longer[n + 1] = supplied
      BY <1>1, <1>4, <3>1 DEF IsChronicle
    <3>3. pending'[n] = [validator |-> v, delta |-> 0]
      BY <1>4, <1>5, <2>2
    <3>4. Applied(supplied, [validator |-> v, delta |-> 0]) = supplied
      BY <1>2 DEF LedgerTypeOK, Balances, Applied
    <3>5. QED
      BY <3>2, <3>3, <3>4
  <2>3. CASE n = number
    <3>1. longer[n] = supplied
      BY <1>1, <1>4, <2>3 DEF IsChronicle
    <3>2. longer[n + 1] = supplied'
      BY <1>4, <2>3
    <3>3. pending'[n] = [validator |-> v, delta |-> Delta(v)]
      BY <1>4, <1>5, <2>3
    <3>4. QED
      BY <1>3, <3>1, <3>2, <3>3
  <2>4. QED
    BY <1>4, <2>1, <2>2, <2>3
<1>11. longer[first] = confirmed' /\ longer[number + 1] = supplied'
  BY <1>1, <1>4 DEF IsChronicle
<1>12. PICK new : new = longer
  OBVIOUS
<1>13. IsChronicle(new)'
  <2>1. first'..(next' - 1) = first..number /\ first'..next' = first..(number + 1)
    BY <1>4
  <2> HIDE DEF longer, number
  <2>2. QED
    BY <1>4, <1>9, <1>10, <1>11, <1>12, <2>1 DEF IsChronicle
<1>14. \A n \in first..next : new[n] = book[n]
  BY <1>4, <1>12
<1>15. QED
  BY <1>8, <1>13, <1>14

LEMMA RecordStep ==
    ASSUME LedgerInv, NEW v \in Validator, NEW empty \in {0, 1}, Record(v, empty)
    PROVE  LedgerInv'
BY RecordBook DEF LedgerInv

\* Confirming turns the second book into today's.
LEMMA ConfirmBook ==
    ASSUME LedgerTypeOK, NEW book, IsChronicle(book), Confirm
    PROVE  /\ LedgerTypeOK'
           /\ \E new : IsChronicle(new)' /\ \A n \in (first + 1)..next : new[n] = book[n]
<1>1. IsChronicle(book)
  OBVIOUS
<1>2. LedgerTypeOK
  OBVIOUS
<1>3. /\ first < next /\ first' = first + 1 /\ next' = next /\ supplied' = supplied
      /\ first \in Nat /\ next \in Nat
  BY <1>2 DEF Confirm, LedgerTypeOK
<1>4. pending' = [n \in (first + 1)..(next - 1) |-> pending[n]]
  BY DEF Confirm
<1>5. confirmed' = book[first + 1]
  <2>1. confirmed' = Applied(confirmed, pending[first])
    BY DEF Confirm, Applied
  <2>2. first \in first..(next - 1)
    BY <1>3
  <2>3. QED
    BY <1>1, <2>1, <2>2 DEF IsChronicle
<1>6. confirmed' \in Balances
  BY <1>1, <1>3, <1>5 DEF IsChronicle
<1>7. pending' \in [(first + 1)..(next - 1) -> Entry]
  BY <1>2, <1>3, <1>4 DEF LedgerTypeOK
<1>8. LedgerTypeOK'
  BY <1>2, <1>3, <1>6, <1>7 DEF LedgerTypeOK
<1>9. PICK rest : rest = [n \in (first + 1)..next |-> book[n]]
  OBVIOUS
<1>10. IsChronicle(rest)'
  <2>1. /\ rest \in [(first + 1)..next -> Balances]
        /\ rest[first + 1] = confirmed' /\ rest[next] = supplied
    BY <1>1, <1>3, <1>5, <1>9 DEF IsChronicle
  <2>2. \A n \in (first + 1)..(next - 1) : rest[n + 1] = Applied(rest[n], pending'[n])
    <3> TAKE n \in (first + 1)..(next - 1)
    <3>1. n \in first..(next - 1) /\ n \in (first + 1)..next /\ n + 1 \in (first + 1)..next
      BY <1>3
    <3>2. QED
      BY <1>1, <1>4, <1>9, <3>1 DEF IsChronicle
  <2>3. QED
    BY <1>3, <2>1, <2>2 DEF IsChronicle
<1>11. QED
  BY <1>8, <1>9, <1>10

LEMMA ConfirmStep ==
    ASSUME LedgerInv, Confirm
    PROVE  LedgerInv'
BY ConfirmBook DEF LedgerInv

\* Every step keeps a chronicle of books.
LEMMA LedgerNext == LedgerInv /\ [Next]_ledgerVars => LedgerInv'
<1> SUFFICES ASSUME LedgerInv, [Next]_ledgerVars PROVE LedgerInv'
  OBVIOUS
<1>1. CASE UNCHANGED ledgerVars
  BY <1>1 DEF ledgerVars, LedgerInv, LedgerTypeOK, IsChronicle
<1>2. QED
  BY <1>1, DirectStep, RecordStep, ConfirmStep DEF Next

\* The head of the log applied to today's book is the second book.
LEMMA LedgerConsequences == LedgerInv => NeverOverdrawn /\ HeadConfirmable
<1> SUFFICES ASSUME LedgerInv PROVE NeverOverdrawn /\ HeadConfirmable
  OBVIOUS
<1>1. PICK book : IsChronicle(book)
  BY DEF LedgerInv
<1>2. NeverOverdrawn
  BY DEF LedgerInv, LedgerTypeOK, Balances, NeverOverdrawn
<1>3. ASSUME first < next
      PROVE  confirmed[pending[first].validator] + pending[first].delta \in Nat
  <2>1. first \in first..(next - 1) /\ first + 1 \in first..next
    BY <1>3 DEF LedgerInv, LedgerTypeOK
  <2>2. pending[first].validator \in Validator
    BY <2>1 DEF LedgerInv, LedgerTypeOK, Entry
  <2>3. book[first + 1] \in Balances /\ book[first + 1] = Applied(confirmed, pending[first])
    BY <1>1, <2>1 DEF IsChronicle
  <2>4. book[first + 1][pending[first].validator] \in Nat
    BY <2>2, <2>3 DEF Balances
  <2>5. QED
    BY <2>2, <2>3, <2>4 DEF LedgerInv, LedgerTypeOK, Balances, Applied
<1>4. QED
  BY <1>2, <1>3 DEF HeadConfirmable

\* A log that is recorded against one book and confirmed in order against the
\* other never overdraws the other, however the two are interleaved
\* (LibStaking confirmChange, recordWithdraw).
THEOREM LedgerNeverOverdraws == Spec => [](NeverOverdrawn /\ HeadConfirmable)
BY LedgerInit, LedgerNext, LedgerConsequences, PTL DEF Spec
=============================================================================
