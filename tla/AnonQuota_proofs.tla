--------------------------- MODULE AnonQuota_proofs ---------------------------
(***************************************************************************)
(* Theorems about the quota ledger for every set of devices, users,        *)
(* projects and requests and every cap, bonus and grant size.              *)
(***************************************************************************)
EXTENDS AnonQuota, FiniteSetTheorems, WellFoundedInduction, TLAPS

(***************************************************************************)
(* Lemmas about the row operations.                                        *)
(***************************************************************************)

\* Sets of turns are finite, so they can be counted.
LEMMA TurnSetsAreFinite ==
  ASSUME NEW S \in SUBSET Turns
  PROVE  IsFiniteSet(S) /\ Cardinality(S) \in Nat
BY TurnsAreFinite, FS_Subset, FS_CardinalityType

\* The cap of an account, anonymous or not, is a natural number.
LEMMA CapIsNatural ==
  ASSUME NEW a \in Accounts
  PROVE  CapOf(a) \in Nat
BY CapsAreNaturals DEF CapOf

\* Consuming a turn never takes a counter below zero: the grant is charged
\* only when base and bonus are spent, and then some of it must be left.
LEMMA ConsumedIsRow ==
  ASSUME NEW row \in Row, NEW cap \in Nat,
         row.used < cap + row.bonus + row.granted
  PROVE  Consumed(row, cap) \in Row
<1> DEFINE granted == IF row.used >= cap + row.bonus THEN row.granted - 1 ELSE row.granted
<1>1. row.used \in Nat /\ row.bonus \in Nat /\ row.granted \in Nat
  BY DEF Row
<1>2. row.used + 1 \in Nat /\ granted \in Nat
  BY <1>1
<1>3. QED
  BY <1>2, Zenon DEF Consumed, Row

\* Giving turns back that a row counts leaves a row.
LEMMA RestoredIsRow ==
  ASSUME NEW row \in Row, NEW n \in Nat, NEW g \in Nat, n <= row.used
  PROVE  Restored(row, n, g) \in Row
<1>1. row.used \in Nat /\ row.granted \in Nat
  BY DEF Row
<1>2. row.used - n \in Nat /\ row.granted + g \in Nat
  BY <1>1
<1>3. QED
  BY <1>2, Zenon DEF Restored, Row

\* Merging the row of a device into that of an account gives a row.
LEMMA MergedIsRow ==
  ASSUME NEW row \in Row, NEW device \in Row
  PROVE  Merged(row, device) \in Row
<1>1. /\ row.used + device.used \in Nat
      /\ Larger(row.bonus, device.bonus) \in Nat
      /\ row.granted + device.granted \in Nat
  BY DEF Row, Larger
<1>2. (row.bonusGranted \/ device.bonusGranted) \in BOOLEAN
  OBVIOUS
<1>3. QED
  BY <1>1, <1>2, Zenon DEF Merged, Row

\* A settled reservation is a reservation row.
LEMMA ClosedIsSlot ==
  ASSUME NEW s \in Slot
  PROVE  [s EXCEPT !.open = FALSE] \in Slot
BY Zenon DEF Slot

\* A row that is not in the table reads as a row of zeroes.
LEMMA NoRowIsRow == NoRow \in Row
BY DEF NoRow, Row

(***************************************************************************)
(* Type correctness.                                                       *)
(***************************************************************************)

\* The empty tables are well typed.
LEMMA InitTypeOK == Init => TypeOK
<1> SUFFICES ASSUME Init PROVE TypeOK
  OBVIOUS
<1>1. linking \in [Anon -> [user : Users \cup {Nobody}, rows : [Projects -> Row]]]
  BY NoRowIsRow DEF Init, NotLinking
<1>2. QED
  BY <1>1, NoRowIsRow DEF Init, TypeOK, NoSlot, Slot, Classes, Phases

\* refund_turn_atomically keeps the types of the tables it writes.
LEMMA RefundTxnTypeOK ==
  ASSUME TypeOK, NEW t \in Turns, RefundTxn(t)
  PROVE  /\ quota' \in [Accounts -> Row]
         /\ slot' \in [Turns -> Slot]
         /\ payer' \in [Turns -> Accounts \cup {Nobody}]
<1>1. CASE ~Refundable(t)
  BY <1>1 DEF RefundTxn, TypeOK
<1>2. CASE Refundable(t)
  <2> DEFINE a == slot[t].account
             g == Cardinality(GrantedIn({t}))
  <2>1. g \in Nat
    BY TurnSetsAreFinite DEF GrantedIn
  <2>2. slot[t] \in Slot
    BY DEF TypeOK
  <2>3. quota' = [quota EXCEPT ![a] = Restored(@, 1, g)]
    BY <1>2 DEF RefundTxn
  <2>4. a \in Accounts => Restored(quota[a], 1, g) \in Row
    <3>1. SUFFICES ASSUME a \in Accounts PROVE Restored(quota[a], 1, g) \in Row
      OBVIOUS
    <3>2. quota[a] \in Row /\ quota[a].used > 0 /\ quota[a].used \in Nat
      BY <1>2, <3>1 DEF TypeOK, Refundable, Row
    <3>3. 1 <= quota[a].used
      BY <3>2
    <3>4. QED
      BY <2>1, <3>2, <3>3, RestoredIsRow
  <2>5. quota' \in [Accounts -> Row]
    BY <2>3, <2>4 DEF TypeOK
  <2>6. slot' \in [Turns -> Slot]
    BY <1>2, <2>2, ClosedIsSlot DEF RefundTxn, TypeOK
  <2>7. payer' \in [Turns -> Accounts \cup {Nobody}]
    BY <1>2 DEF RefundTxn, TypeOK
  <2>8. QED
    BY <2>5, <2>6, <2>7
<1>3. QED
  BY <1>1, <1>2

\* finalize_turn_atomically keeps the types of the tables it writes.
LEMMA FinalizeTxnTypeOK ==
  ASSUME TypeOK, NEW t \in Turns, FinalizeTxn(t)
  PROVE  /\ quota' \in [Accounts -> Row]
         /\ slot' \in [Turns -> Slot]
         /\ payer' \in [Turns -> Accounts \cup {Nobody}]
<1>1. slot[t] \in Slot
  BY DEF TypeOK
<1>2. QED
  BY <1>1, ClosedIsSlot DEF FinalizeTxn, TypeOK

\* consume_turn_atomically keeps the types.
LEMMA ReserveTypeOK ==
  ASSUME TypeOK, NEW t \in Turns, NEW a \in Accounts, Reserve(t, a)
  PROVE  TypeOK'
<1> DEFINE row == Consumed(quota[a], CapOf(a))
<1>1. row \in Row
  <2>1. quota[a] \in Row /\ CapOf(a) \in Nat
    BY CapIsNatural DEF TypeOK
  <2>2. quota[a].used < CapOf(a) + quota[a].bonus + quota[a].granted
    BY DEF Reserve, HasAllowance
  <2>3. QED
    BY <2>1, <2>2, ConsumedIsRow
<1>2. [open |-> TRUE, account |-> a, class |-> ClassOf(row, CapOf(a))] \in Slot
  BY DEF ClassOf, Slot, Classes
<1>3. quota' \in [Accounts -> Row] /\ slot' \in [Turns -> Slot]
  BY <1>1, <1>2 DEF Reserve, TypeOK
<1>4. QED
  BY <1>3 DEF Reserve, TypeOK, Phases

\* Whatever ends a turn, finalize, refund, cancel or a lost call, keeps the types.
LEMMA SettleTypeOK ==
  ASSUME TypeOK, NEW t \in Turns, Settle(t)
  PROVE  TypeOK'
<1>1. CASE Finalize(t)
  BY <1>1, FinalizeTxnTypeOK DEF Finalize, TypeOK, Phases
<1>2. CASE FinalizeLost(t)
  BY <1>2 DEF FinalizeLost, TypeOK, Phases
<1>3. CASE Refund(t)
  <2>1. turn' \in [Turns -> Phases]
    BY <1>3 DEF Refund, TypeOK, Phases
  <2>2. QED
    BY <1>3, <2>1, RefundTxnTypeOK DEF Refund, TypeOK
<1>4. CASE RefundLost(t)
  BY <1>4 DEF RefundLost, TypeOK, Phases
<1>5. CASE Cancel(t)
  <2>1. /\ quota' \in [Accounts -> Row]
        /\ slot' \in [Turns -> Slot]
        /\ payer' \in [Turns -> Accounts \cup {Nobody}]
    BY <1>5, FinalizeTxnTypeOK, RefundTxnTypeOK DEF Cancel, TypeOK
  <2>2. QED
    BY <1>5, <2>1 DEF Cancel, TypeOK, Phases
<1>6. CASE Abandon(t)
  BY <1>6 DEF Abandon, TypeOK, Phases
<1>7. QED
  BY <1>1, <1>2, <1>3, <1>4, <1>5, <1>6 DEF Settle

\* The bonus after a lead keeps the types.
LEMMA GrantBonusTypeOK ==
  ASSUME TypeOK, NEW a \in Accounts, GrantBonus(a)
  PROVE  TypeOK'
<1>1. quota[a] \in Row
  BY DEF TypeOK
<1>2. quota[a].bonus + Bonus \in Nat
  BY <1>1, BonusIsPositive DEF Row
<1>3. WithBonus(quota[a]) \in Row
  BY <1>1, <1>2, Zenon DEF WithBonus, Row
<1>4. quota' \in [Accounts -> Row]
  BY <1>3 DEF GrantBonus, TypeOK
<1>5. QED
  BY <1>4 DEF GrantBonus, TypeOK

\* An admin grant, applied or deduplicated, keeps the types.
LEMMA GrantTurnsTypeOK ==
  ASSUME TypeOK, NEW a \in Accounts, NEW r \in Requests, NEW n \in GrantSizes,
         GrantTurns(a, r, n)
  PROVE  TypeOK'
<1>1. quota[a] \in Row /\ n \in Nat
  BY GrantsArePositive DEF TypeOK
<1>2. quota[a].granted + n \in Nat
  BY <1>1 DEF Row
<1>3. WithGrant(quota[a], n) \in Row
  BY <1>1, <1>2, Zenon DEF WithGrant, Row
<1>4. quota' \in [Accounts -> Row]
  BY <1>3 DEF GrantTurns, TypeOK
<1>5. audit' \in [Requests -> [account : Accounts \cup {Nobody}, count : Nat]]
  BY <1>1 DEF GrantTurns, TypeOK
<1>6. QED
  BY <1>4, <1>5 DEF GrantTurns, TypeOK

\* The rows a link reads are rows.
LEMMA StartLinkTypeOK ==
  ASSUME TypeOK, NEW d \in Anon, NEW u \in Users, StartLink(d, u)
  PROVE  TypeOK'
<1>1. \A p \in Projects : quota[<<d, p>>] \in Row
  BY DEF TypeOK, Accounts, Keys
<1>2. linking' \in [Anon -> [user : Users \cup {Nobody}, rows : [Projects -> Row]]]
  BY <1>1 DEF StartLink, TypeOK
<1>3. QED
  BY <1>2 DEF StartLink, TypeOK

\* A device without an open link transaction is well typed.
LEMMA NotLinkingIsTyped ==
  NotLinking \in [user : Users \cup {Nobody}, rows : [Projects -> Row]]
BY NoRowIsRow DEF NotLinking

\* Merging, re-keying and deleting the rows of a device keeps the types.
LEMMA CommitLinkTypeOK ==
  ASSUME TypeOK, NEW d \in Anon, NEW u \in Users, CommitLink(d, u)
  PROVE  TypeOK'
<1>1. quota' \in [Accounts -> Row]
  <2> SUFFICES ASSUME NEW a \in Accounts
               PROVE  (IF a[1] = d THEN NoRow
                       ELSE IF a[1] = u THEN Merged(quota[a], linking[d].rows[a[2]])
                       ELSE quota[a]) \in Row
    BY DEF CommitLink
  <2>1. quota[a] \in Row /\ linking[d].rows[a[2]] \in Row
    BY DEF TypeOK, Accounts, Keys
  <2>2. QED
    BY <2>1, NoRowIsRow, MergedIsRow
<1>2. payer' \in [Turns -> Accounts \cup {Nobody}]
  <2> SUFFICES ASSUME NEW t \in Turns
               PROVE  (IF \E p \in Projects : payer[t] = <<d, p>>
                       THEN <<u, payer[t][2]>> ELSE payer[t]) \in Accounts \cup {Nobody}
    BY DEF CommitLink
  <2>1. CASE \E p \in Projects : payer[t] = <<d, p>>
    BY <2>1 DEF Accounts, Keys
  <2>2. CASE ~\E p \in Projects : payer[t] = <<d, p>>
    BY <2>2 DEF TypeOK
  <2>3. QED
    BY <2>1, <2>2
<1>3. linking' \in [Anon -> [user : Users \cup {Nobody}, rows : [Projects -> Row]]]
  BY NotLinkingIsTyped DEF CommitLink, TypeOK
<1>4. QED
  BY <1>1, <1>2, <1>3 DEF CommitLink, TypeOK

\* A link that is rolled back keeps the types.
LEMMA AbortLinkTypeOK ==
  ASSUME TypeOK, NEW d \in Anon, AbortLink(d)
  PROVE  TypeOK'
<1>1. linking' \in [Anon -> [user : Users \cup {Nobody}, rows : [Projects -> Row]]]
  BY NotLinkingIsTyped DEF AbortLink, TypeOK
<1>2. QED
  BY <1>1 DEF AbortLink, TypeOK

\* The purge refunds at most as many turns of a row as the row counts.
LEMMA PurgeTypeOK ==
  ASSUME TypeOK, NEW S \in SUBSET Turns, NEW R \in SUBSET Accounts,
         NEW D \in SUBSET S, Purge(S, D, R)
  PROVE  TypeOK'
<1>1. quota' \in [Accounts -> Row]
  <2> SUFFICES ASSUME NEW a \in Accounts, a \notin R
               PROVE  Restored(quota[a], Cardinality(StaleIn(D, a)),
                               Cardinality(GrantedIn(StaleIn(D, a)))) \in Row
    BY NoRowIsRow DEF Purge
  <2>1. /\ Cardinality(StaleIn(D, a)) \in Nat
        /\ Cardinality(StaleIn(S, a)) \in Nat
        /\ Cardinality(GrantedIn(StaleIn(D, a))) \in Nat
    BY TurnSetsAreFinite DEF StaleIn, GrantedIn
  <2>2. quota[a] \in Row /\ quota[a].used \in Nat
    BY DEF TypeOK, Row
  <2>3. Cardinality(StaleIn(D, a)) <= quota[a].used
    BY <2>1, <2>2 DEF Purge
  <2>4. QED
    BY <2>1, <2>2, <2>3, RestoredIsRow
<1>2. slot' \in [Turns -> Slot]
  BY ClosedIsSlot DEF Purge, TypeOK
<1>3. payer' \in [Turns -> Accounts \cup {Nobody}]
  BY DEF Purge, TypeOK
<1>4. QED
  BY <1>1, <1>2, <1>3 DEF Purge, TypeOK

\* Every step keeps the types.
LEMMA NextTypeOK == TypeOK /\ [Next]_vars => TypeOK'
<1> SUFFICES ASSUME TypeOK, [Next]_vars
             PROVE  TypeOK'
  OBVIOUS
<1>1. ASSUME NEW t \in Turns, NEW a \in Accounts, Reserve(t, a) \/ Refuse(t, a)
      PROVE  TypeOK'
  <2>1. CASE Refuse(t, a)
    BY <2>1 DEF Refuse, TypeOK, Phases
  <2>2. QED
    BY <1>1, <2>1, ReserveTypeOK
<1>2. CASE UNCHANGED vars
  BY <1>2 DEF vars, TypeOK
<1>3. QED
  BY <1>1, <1>2, SettleTypeOK, GrantBonusTypeOK, GrantTurnsTypeOK, StartLinkTypeOK,
     CommitLinkTypeOK, AbortLinkTypeOK, PurgeTypeOK DEF Next

\* Every counter of every row stays a natural number, every reservation and
\* request keeps its type, whatever is lost, cancelled, linked or purged.
THEOREM TypeCorrect == Spec => []TypeOK
BY InitTypeOK, NextTypeOK, PTL DEF Spec

-------------------------------------------------------------------------------
(***************************************************************************)
(* The counters are exact where no device is linked.  The counters alone   *)
(* are not inductive: that a refund decrements the row that counts the     *)
(* turn follows from what the phase of a request says of its reservation.  *)
(***************************************************************************)

NoOpenLink == \A d \in Anon : linking[d] = NotLinking

LedgerInv ==
    /\ TypeOK
    /\ NoOpenLink
    /\ UsedCountsTurns
    /\ PhasesMatchReservations
    /\ FailedTurnIsGivenBack

\* Where no device may be linked, no link starts, commits or aborts.
LEMMA NothingLinks ==
  ASSUME Linkable = {}, NoOpenLink, NEW d \in Anon
  PROVE  /\ \A u \in Users : ~StartLink(d, u) /\ ~CommitLink(d, u)
         /\ ~AbortLink(d)
<1>1. linking[d] = NotLinking
  BY DEF NoOpenLink
<1>2. linking[d].user = Nobody
  BY <1>1 DEF NotLinking
<1>3. QED
  BY <1>1, <1>2, NobodyIsNoKey DEF StartLink, CommitLink, AbortLink

\* Where no device may be linked, no link transaction is ever open.
LEMMA NoLinkOpens ==
  ASSUME Linkable = {}, NoOpenLink, [Next]_vars
  PROVE  NoOpenLink'
<1>1. linking' = linking
  BY NothingLinks DEF Next, vars, Reserve, Refuse, Settle, Finalize, FinalizeLost, Refund,
     RefundLost, Cancel, Abandon, GrantBonus, GrantTurns, Purge
<1>2. QED
  BY <1>1 DEF NoOpenLink

\* Nobody is not an account.
LEMMA NobodyIsNotInAccounts == Nobody \notin Accounts
BY NobodyIsNoAccount DEF Accounts, Keys

\* The turns an account counts are finitely many.
LEMMA CountedIsFinite ==
  ASSUME NEW a
  PROVE  IsFiniteSet(CountedFor(a)) /\ Cardinality(CountedFor(a)) \in Nat
BY TurnSetsAreFinite DEF CountedFor

\* A turn that gets a payer is one more for that account and none for another.
LEMMA CountAdds ==
  ASSUME TypeOK, NEW t \in Turns, NEW a \in Accounts, NEW b \in Accounts,
         payer[t] = Nobody, payer' = [payer EXCEPT ![t] = a]
  PROVE  Cardinality(CountedFor(b)') =
            IF b = a THEN Cardinality(CountedFor(b)) + 1 ELSE Cardinality(CountedFor(b))
<1>1. t \notin CountedFor(b)
  BY NobodyIsNotInAccounts DEF CountedFor
<1>2. CASE b = a
  <2>1. CountedFor(b)' = CountedFor(b) \cup {t}
    BY <1>2 DEF CountedFor, TypeOK
  <2>2. QED
    BY <1>1, <1>2, <2>1, CountedIsFinite, FS_AddElement
<1>3. CASE b # a
  <2>1. CountedFor(b)' = CountedFor(b)
    BY <1>1, <1>3 DEF CountedFor, TypeOK
  <2>2. QED
    BY <1>3, <2>1
<1>4. QED
  BY <1>2, <1>3

\* A turn that loses its payer is one less for that account and none for another.
LEMMA CountRemoves ==
  ASSUME TypeOK, NEW t \in Turns, NEW a \in Accounts, NEW b \in Accounts,
         payer[t] = a, payer' = [payer EXCEPT ![t] = Nobody]
  PROVE  Cardinality(CountedFor(b)') =
            IF b = a THEN Cardinality(CountedFor(b)) - 1 ELSE Cardinality(CountedFor(b))
<1>1. CountedFor(b)' = CountedFor(b) \ {t}
  BY NobodyIsNotInAccounts DEF CountedFor, TypeOK
<1>2. t \in CountedFor(b) <=> b = a
  BY DEF CountedFor
<1>3. QED
  BY <1>1, <1>2, CountedIsFinite, FS_RemoveElement

\* An open reservation is counted, so the row it would be given back to
\* exists and is not at zero.
LEMMA OpenIsRefundable ==
  ASSUME LedgerInv, NEW t \in Turns, slot[t].open
  PROVE  /\ Refundable(t)
         /\ slot[t].account \in Accounts
         /\ payer[t] = slot[t].account
<1> DEFINE a == slot[t].account
<1>1. payer[t] = a /\ payer[t] # Nobody
  BY DEF LedgerInv, PhasesMatchReservations, PhaseMatches
<1>2. a \in Accounts
  BY <1>1 DEF LedgerInv, TypeOK
<1>3. t \in CountedFor(a)
  BY <1>1 DEF CountedFor
<1>4. Cardinality(CountedFor(a)) # 0
  BY <1>3, CountedIsFinite, FS_EmptySet
<1>5. quota[a].used = Cardinality(CountedFor(a))
  BY <1>2 DEF LedgerInv, UsedCountsTurns
<1>6. quota[a].used > 0
  BY <1>4, <1>5, CountedIsFinite
<1>7. QED
  BY <1>1, <1>2, <1>6 DEF Refundable

\* A refund keeps the counters exact and touches no other turn.
LEMMA RefundTxnCounts ==
  ASSUME LedgerInv, NEW t \in Turns, RefundTxn(t)
  PROVE  /\ UsedCountsTurns'
         /\ \A s \in Turns \ {t} : slot'[s] = slot[s] /\ payer'[s] = payer[s]
         /\ ~slot'[t].open
         /\ slot[t].open => payer'[t] = Nobody
         /\ ~slot[t].open => payer'[t] = payer[t]
<1> USE DEF LedgerInv
<1>1. CASE ~slot[t].open
  <2>1. UNCHANGED <<quota, slot, payer>>
    BY <1>1 DEF RefundTxn, Refundable
  <2>2. QED
    BY <1>1, <2>1 DEF UsedCountsTurns, CountedFor
<1>2. CASE slot[t].open
  <2> DEFINE a == slot[t].account
             g == Cardinality(GrantedIn({t}))
  <2>1. Refundable(t) /\ a \in Accounts /\ payer[t] = a
    BY <1>2, OpenIsRefundable
  <2>2. /\ quota' = [quota EXCEPT ![a] = Restored(@, 1, g)]
        /\ slot' = [slot EXCEPT ![t].open = FALSE]
        /\ payer' = [payer EXCEPT ![t] = Nobody]
    BY <2>1 DEF RefundTxn
  <2>3. ASSUME NEW b \in Accounts
        PROVE  quota'[b].used = Cardinality(CountedFor(b)')
    <3>1. quota[b].used = Cardinality(CountedFor(b))
      BY DEF UsedCountsTurns
    <3>2. quota'[b].used = IF b = a THEN quota[b].used - 1 ELSE quota[b].used
      BY <2>1, <2>2 DEF Restored, TypeOK, Row
    <3>3. QED
      BY <2>1, <2>2, <3>1, <3>2, CountRemoves
  <2>4. UsedCountsTurns'
    BY <2>3 DEF UsedCountsTurns
  <2>5. /\ \A s \in Turns \ {t} : slot'[s] = slot[s] /\ payer'[s] = payer[s]
        /\ ~slot'[t].open /\ payer'[t] = Nobody
    BY <2>2 DEF TypeOK, Slot
  <2>6. QED
    BY <1>2, <2>4, <2>5
<1>3. QED
  BY <1>1, <1>2

\* What a step does not touch keeps its phase, reservation and account.
LEMMA OtherTurnsKeepPhase ==
  ASSUME LedgerInv, NEW t \in Turns,
         \A s \in Turns \ {t} :
            turn'[s] = turn[s] /\ slot'[s] = slot[s] /\ payer'[s] = payer[s],
         PhaseMatches(t)', turn'[t] = "failed" => payer'[t] = Nobody
  PROVE  PhasesMatchReservations' /\ FailedTurnIsGivenBack'
<1>1. ASSUME NEW s \in Turns
      PROVE  PhaseMatches(s)' /\ (turn'[s] = "failed" => payer'[s] = Nobody)
  <2>1. CASE s = t
    BY <2>1
  <2>2. CASE s # t
    BY <2>2 DEF LedgerInv, PhasesMatchReservations, PhaseMatches, FailedTurnIsGivenBack
  <2>3. QED
    BY <2>1, <2>2
<1>2. QED
  BY <1>1 DEF PhasesMatchReservations, FailedTurnIsGivenBack

\* The empty tables satisfy the inductive invariant.
LEMMA InitLedgerInv == Init => LedgerInv
<1> SUFFICES ASSUME Init PROVE LedgerInv
  OBVIOUS
<1>1. \A a \in Accounts : CountedFor(a) = {}
  BY NobodyIsNotInAccounts DEF Init, CountedFor
<1>2. UsedCountsTurns
  BY <1>1, FS_EmptySet DEF Init, UsedCountsTurns, NoRow
<1>3. PhasesMatchReservations /\ FailedTurnIsGivenBack
  BY DEF Init, PhasesMatchReservations, PhaseMatches, FailedTurnIsGivenBack, NoSlot
<1>4. QED
  BY <1>2, <1>3, InitTypeOK DEF LedgerInv, NoOpenLink, Init

\* Reserving a turn keeps the inductive invariant.
LEMMA ReserveLedgerInv ==
  ASSUME LedgerInv, NEW t \in Turns, NEW a \in Accounts, Reserve(t, a)
  PROVE  UsedCountsTurns' /\ PhasesMatchReservations' /\ FailedTurnIsGivenBack'
<1> DEFINE row == Consumed(quota[a], CapOf(a))
<1>1. turn[t] = "new" /\ payer[t] = Nobody
  BY DEF Reserve, LedgerInv, PhasesMatchReservations, PhaseMatches
<1>2. ASSUME NEW b \in Accounts
      PROVE  quota'[b].used = Cardinality(CountedFor(b)')
  <2>1. quota[b].used = Cardinality(CountedFor(b))
    BY DEF LedgerInv, UsedCountsTurns
  <2>2. quota'[b].used = IF b = a THEN quota[b].used + 1 ELSE quota[b].used
    BY DEF Reserve, Consumed, LedgerInv, TypeOK, Row
  <2>3. QED
    BY <1>1, <2>1, <2>2, CountAdds DEF Reserve, LedgerInv
<1>3. /\ turn'[t] = "running"
      /\ slot'[t].open /\ slot'[t].account = a
      /\ payer'[t] = a
  BY DEF Reserve, LedgerInv, TypeOK
<1>4. PhaseMatches(t)' /\ (turn'[t] = "failed" => payer'[t] = Nobody)
  BY <1>3, NobodyIsNotInAccounts DEF PhaseMatches
<1>5. \A s \in Turns \ {t} : turn'[s] = turn[s] /\ slot'[s] = slot[s] /\ payer'[s] = payer[s]
  BY DEF Reserve, LedgerInv, TypeOK
<1>6. QED
  BY <1>2, <1>4, <1>5, OtherTurnsKeepPhase DEF UsedCountsTurns

\* A step that only moves the request along.
LEMMA PhaseStepLedgerInv ==
  ASSUME LedgerInv, NEW t \in Turns, UNCHANGED <<quota, slot, payer>>,
         NEW phase \in Phases, turn' = [turn EXCEPT ![t] = phase],
         \/ turn[t] \in {"running", "cancelled"} /\ phase \in {"answered", "kept", "gone", "cancelled"}
         \/ turn[t] = "cut" /\ phase \in {"kept", "gone"}
         \/ turn[t] = "new" /\ phase = "refused"
  PROVE  UsedCountsTurns' /\ PhasesMatchReservations' /\ FailedTurnIsGivenBack'
<1>1. UsedCountsTurns'
  BY DEF LedgerInv, UsedCountsTurns, CountedFor
<1>2. turn'[t] = phase
  BY DEF LedgerInv, TypeOK
<1>3. PhaseMatches(t)' /\ (turn'[t] = "failed" => payer'[t] = Nobody)
  BY <1>2 DEF LedgerInv, PhasesMatchReservations, PhaseMatches
<1>4. \A s \in Turns \ {t} : turn'[s] = turn[s] /\ slot'[s] = slot[s] /\ payer'[s] = payer[s]
  BY DEF LedgerInv, TypeOK
<1>5. QED
  BY <1>1, <1>3, <1>4, OtherTurnsKeepPhase

\* Charging a turn keeps the inductive invariant.
LEMMA FinalizeTxnLedgerInv ==
  ASSUME LedgerInv, NEW t \in Turns, turn[t] = "running", FinalizeTxn(t),
         NEW phase \in {"answered", "cut"}, turn' = [turn EXCEPT ![t] = phase]
  PROVE  UsedCountsTurns' /\ PhasesMatchReservations' /\ FailedTurnIsGivenBack'
<1>1. UsedCountsTurns'
  BY DEF LedgerInv, UsedCountsTurns, CountedFor, FinalizeTxn
<1>2. turn'[t] = phase /\ ~slot'[t].open
  BY DEF LedgerInv, TypeOK, FinalizeTxn, Slot
<1>3. PhaseMatches(t)' /\ (turn'[t] = "failed" => payer'[t] = Nobody)
  BY <1>2 DEF PhaseMatches
<1>4. \A s \in Turns \ {t} : turn'[s] = turn[s] /\ slot'[s] = slot[s] /\ payer'[s] = payer[s]
  BY DEF LedgerInv, TypeOK, FinalizeTxn
<1>5. QED
  BY <1>1, <1>3, <1>4, OtherTurnsKeepPhase

\* Giving a turn back keeps the inductive invariant.
LEMMA RefundTxnLedgerInv ==
  ASSUME LedgerInv, NEW t \in Turns, RefundTxn(t), NEW phase \in Phases,
         turn' = [turn EXCEPT ![t] = phase],
         \/ turn[t] \in {"running", "cancelled"} /\ phase \in {"failed", "cancelled"}
         \/ turn[t] = "cut" /\ phase = "answered"
  PROVE  UsedCountsTurns' /\ PhasesMatchReservations' /\ FailedTurnIsGivenBack'
<1>1. turn'[t] = phase
  BY DEF LedgerInv, TypeOK
<1>2. PhaseMatches(t)
  BY DEF LedgerInv, PhasesMatchReservations
<1>3. PhaseMatches(t)' /\ (turn'[t] = "failed" => payer'[t] = Nobody)
  BY <1>1, <1>2, RefundTxnCounts DEF PhaseMatches
<1>4. \A s \in Turns \ {t} : turn'[s] = turn[s] /\ slot'[s] = slot[s] /\ payer'[s] = payer[s]
  BY RefundTxnCounts DEF LedgerInv, TypeOK
<1>5. QED
  BY <1>3, <1>4, RefundTxnCounts, OtherTurnsKeepPhase

\* Whatever ends a turn keeps the inductive invariant.
LEMMA SettleLedgerInv ==
  ASSUME LedgerInv, NEW t \in Turns, Settle(t)
  PROVE  UsedCountsTurns' /\ PhasesMatchReservations' /\ FailedTurnIsGivenBack'
<1>1. CASE Finalize(t)
  BY <1>1, FinalizeTxnLedgerInv DEF Finalize
<1>2. CASE FinalizeLost(t)
  BY <1>2, PhaseStepLedgerInv DEF FinalizeLost, Phases
<1>3. CASE Refund(t)
  <2>1. CASE turn[t] = "cut"
    BY <1>3, <2>1, RefundTxnLedgerInv DEF Refund, LedgerInv, TypeOK, Phases
  <2>2. CASE turn[t] \in {"running", "cancelled"}
    BY <1>3, <2>2, RefundTxnLedgerInv DEF Refund, LedgerInv, TypeOK, Phases
  <2>3. QED
    BY <1>3, <2>1, <2>2 DEF Refund, InFlight
<1>4. CASE RefundLost(t)
  BY <1>4, PhaseStepLedgerInv DEF RefundLost, InFlight, Phases
<1>5. CASE Cancel(t)
  <2>1. CASE turn' = [turn EXCEPT ![t] = "cancelled"] /\ UNCHANGED <<quota, slot, payer>>
    BY <1>5, <2>1, PhaseStepLedgerInv DEF Cancel, Phases
  <2>2. CASE turn' = [turn EXCEPT ![t] = "cancelled"] /\ RefundTxn(t)
    BY <1>5, <2>2, RefundTxnLedgerInv DEF Cancel, Phases
  <2>3. CASE turn' = [turn EXCEPT ![t] = "cut"] /\ FinalizeTxn(t)
    BY <1>5, <2>3, FinalizeTxnLedgerInv DEF Cancel
  <2>4. QED
    BY <1>5, <2>1, <2>2, <2>3 DEF Cancel
<1>6. CASE Abandon(t)
  BY <1>6, PhaseStepLedgerInv DEF Abandon, InFlight, Phases
<1>7. QED
  BY <1>1, <1>2, <1>3, <1>4, <1>5, <1>6 DEF Settle

\* A bonus or a grant keeps the inductive invariant.
LEMMA GrantLedgerInv ==
  ASSUME LedgerInv, NEW a \in Accounts,
         \/ GrantBonus(a)
         \/ \E r \in Requests, n \in GrantSizes : GrantTurns(a, r, n)
  PROVE  UsedCountsTurns' /\ PhasesMatchReservations' /\ FailedTurnIsGivenBack'
<1>1. UNCHANGED <<turn, slot, payer>>
  BY DEF GrantBonus, GrantTurns
<1>2. ASSUME NEW b \in Accounts PROVE quota'[b].used = quota[b].used
  <2>1. quota[a] \in Row /\ quota \in [Accounts -> Row]
    BY DEF LedgerInv, TypeOK
  <2>2. WithBonus(quota[a]).used = quota[a].used
    BY <2>1 DEF WithBonus, Row
  <2>3. ASSUME NEW n \in GrantSizes PROVE WithGrant(quota[a], n).used = quota[a].used
    BY <2>1 DEF WithGrant, Row
  <2>4. CASE GrantBonus(a)
    BY <2>1, <2>2, <2>4 DEF GrantBonus
  <2>5. ASSUME NEW r \in Requests, NEW n \in GrantSizes, GrantTurns(a, r, n)
        PROVE  quota'[b].used = quota[b].used
    BY <2>1, <2>3, <2>5 DEF GrantTurns
  <2>6. QED
    BY <2>4, <2>5
<1>3. QED
  BY <1>1, <1>2 DEF LedgerInv, UsedCountsTurns, CountedFor, PhasesMatchReservations,
     PhaseMatches, FailedTurnIsGivenBack

\* The rows that are purged, and the turns that are given back, are exactly
\* the ones the counters lose.
LEMMA PurgeLedgerInv ==
  ASSUME LedgerInv, NEW S \in SUBSET Turns, NEW R \in SUBSET Accounts,
         NEW D \in SUBSET S, Purge(S, D, R)
  PROVE  UsedCountsTurns' /\ PhasesMatchReservations' /\ FailedTurnIsGivenBack'
<1>1. ASSUME NEW a \in Accounts
      PROVE  quota'[a].used = Cardinality(CountedFor(a)')
  <2>1. CASE a \in R
    <3>1. CountedFor(a)' = {}
      BY <2>1, NobodyIsNotInAccounts DEF Purge, CountedFor
    <3>2. quota'[a] = NoRow
      BY <2>1 DEF Purge
    <3>3. QED
      BY <3>1, <3>2, FS_EmptySet DEF NoRow
  <2>2. CASE a \notin R
    <3>1. CountedFor(a)' = CountedFor(a) \ D
      BY <2>2, NobodyIsNotInAccounts DEF Purge, CountedFor
    <3>2. CountedFor(a) \cap D = StaleIn(D, a)
      BY OpenIsRefundable DEF Purge, CountedFor, StaleIn
    <3>3. Cardinality(CountedFor(a) \ D)
            = Cardinality(CountedFor(a)) - Cardinality(StaleIn(D, a))
      BY <3>2, CountedIsFinite, FS_Difference
    <3>4. quota'[a].used = quota[a].used - Cardinality(StaleIn(D, a))
      <4>1. quota[a] \in Row
        BY DEF LedgerInv, TypeOK
      <4>2. quota'[a] = Restored(quota[a], Cardinality(StaleIn(D, a)),
                                 Cardinality(GrantedIn(StaleIn(D, a))))
        BY <2>2 DEF Purge
      <4>3. QED
        BY <4>1, <4>2 DEF Restored, Row
    <3>5. quota[a].used = Cardinality(CountedFor(a))
      BY DEF LedgerInv, UsedCountsTurns
    <3>6. QED
      BY <3>1, <3>3, <3>4, <3>5
  <2>3. QED
    BY <2>1, <2>2
<1>2. ASSUME NEW t \in Turns
      PROVE  PhaseMatches(t)' /\ (turn'[t] = "failed" => payer'[t] = Nobody)
  <2>1. /\ turn'[t] = turn[t]
        /\ slot'[t].open => slot[t].open /\ t \notin S /\ slot'[t].account = slot[t].account
        /\ turn[t] \in {"running", "cancelled"} => slot'[t] = slot[t]
        /\ payer'[t] \in {payer[t], Nobody}
        /\ payer'[t] # payer[t] => t \in D \/ payer[t] \in R
    <3>1. turn' = turn /\ payer'[t] = IF payer[t] \in R \/ t \in D THEN Nobody ELSE payer[t]
      BY DEF Purge
    <3>2. slot'[t] = IF t \in S THEN [slot[t] EXCEPT !.open = FALSE] ELSE slot[t]
      BY DEF Purge
    <3>3. t \in S => turn[t] \in Over
      BY DEF Purge
    <3>4. slot[t] \in Slot
      BY DEF LedgerInv, TypeOK
    <3>5. [slot[t] EXCEPT !.open = FALSE].open = FALSE
      BY <3>4 DEF Slot
    <3>6. QED
      BY <3>1, <3>2, <3>3, <3>5 DEF Over
  <2>2. PhaseMatches(t) /\ (turn[t] = "failed" => payer[t] = Nobody)
    BY DEF LedgerInv, PhasesMatchReservations, FailedTurnIsGivenBack
  <2>3. slot'[t].open => payer'[t] = payer[t]
    BY <2>1, OpenIsRefundable DEF Purge
  <2>4. QED
    BY <2>1, <2>2, <2>3 DEF PhaseMatches
<1>3. QED
  BY <1>1, <1>2 DEF UsedCountsTurns, PhasesMatchReservations, FailedTurnIsGivenBack

LEMMA LedgerInvIsInductive ==
  ASSUME Linkable = {}, LedgerInv, [Next]_vars
  PROVE  LedgerInv'
<1> SUFFICES UsedCountsTurns' /\ PhasesMatchReservations' /\ FailedTurnIsGivenBack'
  BY NextTypeOK, NoLinkOpens DEF LedgerInv
<1>1. ASSUME NEW t \in Turns, NEW a \in Accounts, Reserve(t, a) \/ Refuse(t, a)
      PROVE  UsedCountsTurns' /\ PhasesMatchReservations' /\ FailedTurnIsGivenBack'
  <2>1. CASE Refuse(t, a)
    BY <2>1, PhaseStepLedgerInv DEF Refuse, Phases
  <2>2. QED
    BY <1>1, <2>1, ReserveLedgerInv
<1>2. CASE UNCHANGED vars
  BY <1>2 DEF vars, LedgerInv, UsedCountsTurns, CountedFor, PhasesMatchReservations,
     PhaseMatches, FailedTurnIsGivenBack
<1>3. ASSUME NEW d \in Anon
      PROVE  (\A u \in Users : ~StartLink(d, u) /\ ~CommitLink(d, u)) /\ ~AbortLink(d)
  BY NothingLinks DEF LedgerInv
<1>4. QED
  BY <1>1, <1>2, <1>3, SettleLedgerInv, GrantLedgerInv, PurgeLedgerInv DEF Next

\* The inductive invariant holds where no device is linked.
LEMMA LedgerInvariant ==
  ASSUME Linkable = {}
  PROVE  Spec => []LedgerInv
<1>1. Init => LedgerInv
  BY InitLedgerInv
<1>2. LedgerInv /\ [Next]_vars => LedgerInv'
  BY LedgerInvIsInductive
<1>3. QED
  BY <1>1, <1>2, PTL DEF Spec

\* used_turns is exactly the number of turns held or charged: nothing lost,
\* cancelled, refunded twice or purged moves it away from that.
THEOREM CountersAreExact ==
  ASSUME Linkable = {}
  PROVE  Spec => []UsedCountsTurns
<1>1. LedgerInv => UsedCountsTurns
  BY DEF LedgerInv
<1>2. QED
  BY <1>1, LedgerInvariant, PTL

\* A refund that ran gave the turn back.
THEOREM FailuresAreRefunded ==
  ASSUME Linkable = {}
  PROVE  Spec => []FailedTurnIsGivenBack
<1>1. LedgerInv => FailedTurnIsGivenBack
  BY DEF LedgerInv
<1>2. QED
  BY <1>1, LedgerInvariant, PTL

\* A request's phase and its reservation row never disagree.
THEOREM PhasesAreConsistent ==
  ASSUME Linkable = {}
  PROVE  Spec => []PhasesMatchReservations
<1>1. LedgerInv => PhasesMatchReservations
  BY DEF LedgerInv
<1>2. QED
  BY <1>1, LedgerInvariant, PTL

-------------------------------------------------------------------------------
(***************************************************************************)
(* The allowance.  A step either takes one turn from a row that has one    *)
(* left, or gives turns back: then it matters that a reservation of class  *)
(* "granted" gives back what a granted turn took.                          *)
(***************************************************************************)

\* The granted turns an account spent are finitely many.
LEMMA SpentIsFinite ==
  ASSUME NEW a
  PROVE  IsFiniteSet(GrantedIn(CountedFor(a))) /\ GrantedSpent(a) \in Nat
BY TurnSetsAreFinite DEF GrantedSpent, GrantedIn, CountedFor

\* A turn beyond cap and bonus is a granted one: the class of a reservation is
\* computed from the counters after the update.
LEMMA ReserveOverspends ==
  ASSUME LedgerInv, NoOverspending, NEW t \in Turns, NEW a \in Accounts, Reserve(t, a)
  PROVE  NoOverspending'
<1> DEFINE row == Consumed(quota[a], CapOf(a))
<1>1. /\ turn[t] = "new" /\ payer[t] = Nobody
      /\ quota[a] \in Row /\ CapOf(a) \in Nat
  BY CapIsNatural DEF Reserve, LedgerInv, PhasesMatchReservations, PhaseMatches, TypeOK
<1>2. /\ quota' = [quota EXCEPT ![a] = row]
      /\ payer' = [payer EXCEPT ![t] = a]
      /\ slot'[t].class = ClassOf(row, CapOf(a))
      /\ \A s \in Turns \ {t} : slot'[s] = slot[s]
  BY DEF Reserve, LedgerInv, TypeOK
<1>3. /\ row.used = quota[a].used + 1 /\ row.bonus = quota[a].bonus
      /\ quota[a].used \in Nat /\ quota[a].bonus \in Nat
  BY <1>1 DEF Consumed, Row
<1>4. ASSUME NEW b \in Accounts
      PROVE  quota'[b].used <= CapOf(b) + quota'[b].bonus + GrantedSpent(b)'
  <2>1. CASE b # a
    <3>1. GrantedIn(CountedFor(b))' = GrantedIn(CountedFor(b))
      BY <1>1, <1>2, <2>1, NobodyIsNotInAccounts DEF GrantedIn, CountedFor, LedgerInv, TypeOK
    <3>2. GrantedSpent(b)' = GrantedSpent(b)
      BY <3>1 DEF GrantedSpent
    <3>3. quota'[b] = quota[b]
      BY <1>2, <2>1 DEF LedgerInv, TypeOK
    <3>4. QED
      BY <3>2, <3>3 DEF NoOverspending
  <2>2. CASE b = a
    <3>1. quota'[b] = row
      BY <1>2, <2>2 DEF LedgerInv, TypeOK
    <3>2. t \notin GrantedIn(CountedFor(a))
      BY <1>1, NobodyIsNotInAccounts DEF GrantedIn, CountedFor
    <3>3. CASE row.used <= CapOf(a) + row.bonus
      <4>1. GrantedSpent(a)' \in Nat
        BY TurnSetsAreFinite DEF GrantedSpent, GrantedIn, CountedFor
      <4>2. QED
        BY <1>1, <1>3, <2>2, <3>1, <3>3, <4>1
    <3>4. CASE ~(row.used <= CapOf(a) + row.bonus)
      <4>1. ClassOf(row, CapOf(a)) = "granted"
        BY <1>1, <1>3, <3>4 DEF ClassOf
      <4>2. GrantedIn(CountedFor(a))' = GrantedIn(CountedFor(a)) \cup {t}
        BY <1>1, <1>2, <4>1, NobodyIsNotInAccounts DEF GrantedIn, CountedFor, LedgerInv, TypeOK
      <4>3. GrantedSpent(a)' = GrantedSpent(a) + 1
        BY <3>2, <4>2, SpentIsFinite, FS_AddElement DEF GrantedSpent
      <4>4. quota[a].used <= CapOf(a) + quota[a].bonus + GrantedSpent(a)
        BY DEF NoOverspending
      <4>5. QED
        BY <1>1, <1>3, <2>2, <3>1, <4>3, <4>4, SpentIsFinite
    <3>5. QED
      BY <3>3, <3>4
  <2>3. QED
    BY <2>1, <2>2
<1>5. QED
  BY <1>4 DEF NoOverspending

\* Giving a turn back frees at most as many granted turns as turns.
LEMMA RefundTxnOverspends ==
  ASSUME LedgerInv, NoOverspending, NEW t \in Turns, RefundTxn(t)
  PROVE  NoOverspending'
<1>1. CASE ~Refundable(t)
  BY <1>1 DEF RefundTxn, NoOverspending, GrantedSpent, GrantedIn, CountedFor
<1>2. CASE Refundable(t)
  <2> DEFINE a == slot[t].account
             g == Cardinality(GrantedIn({t}))
  <2>1. a \in Accounts /\ payer[t] = a
    BY <1>2, OpenIsRefundable DEF Refundable
  <2>2. /\ quota' = [quota EXCEPT ![a] = Restored(@, 1, g)]
        /\ payer' = [payer EXCEPT ![t] = Nobody]
        /\ \A s \in Turns : slot'[s].class = slot[s].class
    <3>1. slot \in [Turns -> Slot]
      BY DEF LedgerInv, TypeOK
    <3>2. QED
      BY <1>2, <3>1 DEF RefundTxn, Slot
  <2>3. ASSUME NEW b \in Accounts
        PROVE  quota'[b].used <= CapOf(b) + quota'[b].bonus + GrantedSpent(b)'
    <3>1. GrantedIn(CountedFor(b))' = GrantedIn(CountedFor(b)) \ {t}
      BY <2>1, <2>2, NobodyIsNotInAccounts DEF GrantedIn, CountedFor, LedgerInv, TypeOK
    <3>2. quota[b].used <= CapOf(b) + quota[b].bonus + GrantedSpent(b)
      BY DEF NoOverspending
    <3>3. CapOf(b) \in Nat /\ quota[b] \in Row /\ quota[b].used \in Nat /\ quota[b].bonus \in Nat
      BY CapIsNatural DEF LedgerInv, TypeOK, Row
    <3>4. CASE b # a
      <4>1. t \notin GrantedIn(CountedFor(b))
        BY <2>1, <3>4 DEF GrantedIn, CountedFor
      <4>2. GrantedSpent(b)' = GrantedSpent(b)
        BY <3>1, <4>1 DEF GrantedSpent
      <4>3. quota'[b] = quota[b]
        BY <2>2, <3>4 DEF LedgerInv, TypeOK
      <4>4. QED
        BY <3>2, <4>2, <4>3
    <3>5. CASE b = a
      <4>1. Cardinality(GrantedIn(CountedFor(b)) \ {t}) >= GrantedSpent(b) - 1
        <5>1. CASE t \in GrantedIn(CountedFor(b))
          <6>1. PICK G : G = GrantedIn(CountedFor(b))
            OBVIOUS
          <6>2. IsFiniteSet(G) /\ Cardinality(G) \in Nat /\ GrantedSpent(b) = Cardinality(G)
            BY <6>1, SpentIsFinite DEF GrantedSpent
          <6>3. Cardinality(G \ {t}) = Cardinality(G) - 1
            BY <5>1, <6>1, <6>2, FS_RemoveElement
          <6>4. QED
            BY <6>1, <6>2, <6>3
        <5>2. CASE t \notin GrantedIn(CountedFor(b))
          <6>1. GrantedIn(CountedFor(b)) \ {t} = GrantedIn(CountedFor(b))
            BY <5>2
          <6>2. QED
            BY <6>1, SpentIsFinite DEF GrantedSpent
        <5>3. QED
          BY <5>1, <5>2
      <4>2. quota'[b].used = quota[b].used - 1 /\ quota'[b].bonus = quota[b].bonus
        BY <2>2, <3>3, <3>5 DEF Restored, Row, LedgerInv, TypeOK
      <4>3. QED
        <5>1. GrantedSpent(b)' = Cardinality(GrantedIn(CountedFor(b)) \ {t})
          BY <3>1 DEF GrantedSpent
        <5>2. GrantedSpent(b)' \in Nat
          BY TurnSetsAreFinite DEF GrantedSpent, GrantedIn, CountedFor
        <5>3. QED
          BY <3>2, <3>3, <4>1, <4>2, <5>1, <5>2, SpentIsFinite
    <3>6. QED
      BY <3>4, <3>5
  <2>4. QED
    BY <2>3 DEF NoOverspending
<1>3. QED
  BY <1>1, <1>2

\* A purge passes no allowance.
LEMMA PurgeOverspends ==
  ASSUME LedgerInv, NoOverspending, NEW S \in SUBSET Turns, NEW R \in SUBSET Accounts,
         NEW D \in SUBSET S, Purge(S, D, R)
  PROVE  NoOverspending'
<1>1. \A s \in Turns : slot'[s].class = slot[s].class
  BY DEF Purge, LedgerInv, TypeOK, Slot
<1>2. ASSUME NEW a \in Accounts
      PROVE  quota'[a].used <= CapOf(a) + quota'[a].bonus + GrantedSpent(a)'
  <2>1. CapOf(a) \in Nat /\ quota[a] \in Row /\ quota[a].used \in Nat /\ quota[a].bonus \in Nat
    BY CapIsNatural DEF LedgerInv, TypeOK, Row
  <2>2. GrantedSpent(a)' \in Nat
    BY TurnSetsAreFinite DEF GrantedSpent, GrantedIn, CountedFor
  <2>3. CASE a \in R
    <3>1. quota'[a].used = 0 /\ quota'[a].bonus = 0
      BY <2>3 DEF Purge, NoRow
    <3>2. QED
      BY <2>1, <2>2, <3>1
  <2>4. CASE a \notin R
    <3> DEFINE n == Cardinality(StaleIn(D, a))
               G == GrantedIn(CountedFor(a))
    <3>1. /\ StaleIn(D, a) \in SUBSET Turns
          /\ StaleIn(D, a) \subseteq CountedFor(a)
      BY OpenIsRefundable DEF Purge, CountedFor, StaleIn
    <3>2. CountedFor(a)' = CountedFor(a) \ StaleIn(D, a)
      BY <2>4, <3>1, NobodyIsNotInAccounts, OpenIsRefundable DEF Purge, CountedFor, StaleIn
    <3>3. GrantedIn(CountedFor(a))' = G \ StaleIn(D, a)
      BY <1>1, <3>2 DEF GrantedIn, CountedFor
    <3>4. IsFiniteSet(StaleIn(D, a)) /\ n \in Nat
      BY <3>1, TurnSetsAreFinite
    <3>5. G \cap StaleIn(D, a) \subseteq StaleIn(D, a)
      OBVIOUS
    <3>6. Cardinality(G \cap StaleIn(D, a)) <= n
      BY <3>4, <3>5, FS_Subset
    <3>7. Cardinality(G \ StaleIn(D, a)) = Cardinality(G) - Cardinality(G \cap StaleIn(D, a))
      BY SpentIsFinite, FS_Difference
    <3>8. Cardinality(G \cap StaleIn(D, a)) \in Nat
      BY <3>1, TurnSetsAreFinite
    <3>9. GrantedSpent(a)' >= GrantedSpent(a) - n
      BY <3>3, <3>4, <3>6, <3>7, <3>8, SpentIsFinite DEF GrantedSpent
    <3>10. quota'[a].used = quota[a].used - n /\ quota'[a].bonus = quota[a].bonus
      BY <2>1, <2>4 DEF Purge, Restored, Row
    <3>11. quota[a].used <= CapOf(a) + quota[a].bonus + GrantedSpent(a)
      BY DEF NoOverspending
    <3>12. QED
      BY <2>1, <2>2, <3>4, <3>9, <3>10, <3>11, SpentIsFinite
  <2>5. QED
    BY <2>3, <2>4
<1>3. QED
  BY <1>2 DEF NoOverspending

\* A step that leaves usage alone and does not lower a bonus.
LEMMA OtherStepsOverspend ==
  ASSUME LedgerInv, NoOverspending, UNCHANGED payer,
         \A s \in Turns : slot'[s].class = slot[s].class,
         \A a \in Accounts : /\ quota'[a].used = quota[a].used
                             /\ quota'[a].bonus \in Nat
                             /\ quota'[a].bonus >= quota[a].bonus
  PROVE  NoOverspending'
<1>1. ASSUME NEW a \in Accounts
      PROVE  quota'[a].used <= CapOf(a) + quota'[a].bonus + GrantedSpent(a)'
  <2>1. CapOf(a) \in Nat /\ quota[a].used \in Nat /\ quota[a].bonus \in Nat
    BY CapIsNatural DEF LedgerInv, TypeOK, Row
  <2>2. GrantedSpent(a)' = GrantedSpent(a)
    BY DEF GrantedSpent, GrantedIn, CountedFor
  <2>3. quota[a].used <= CapOf(a) + quota[a].bonus + GrantedSpent(a)
    BY DEF NoOverspending
  <2>4. QED
    BY <2>1, <2>2, <2>3, SpentIsFinite
<1>2. QED
  BY <1>1 DEF NoOverspending

\* Whatever ends a turn passes no allowance.
LEMMA SettleOverspends ==
  ASSUME LedgerInv, NoOverspending, NEW t \in Turns, Settle(t)
  PROVE  NoOverspending'
<1>1. \A a \in Accounts : quota[a].bonus \in Nat
  BY DEF LedgerInv, TypeOK, Row
<1>2. CASE RefundTxn(t)
  BY <1>2, RefundTxnOverspends
<1>3. CASE FinalizeTxn(t)
  <2>1. \A s \in Turns : slot'[s].class = slot[s].class
    BY <1>3 DEF FinalizeTxn, LedgerInv, TypeOK, Slot
  <2>2. QED
    BY <1>1, <1>3, <2>1, OtherStepsOverspend DEF FinalizeTxn
<1>4. CASE UNCHANGED <<quota, slot, payer>>
  BY <1>1, <1>4, OtherStepsOverspend
<1>5. QED
  BY <1>2, <1>3, <1>4 DEF Settle, Finalize, FinalizeLost, Refund, RefundLost, Cancel, Abandon

\* A bonus or a grant passes no allowance.
LEMMA GrantOverspends ==
  ASSUME LedgerInv, NoOverspending, NEW a \in Accounts,
         \/ GrantBonus(a)
         \/ \E r \in Requests, n \in GrantSizes : GrantTurns(a, r, n)
  PROVE  NoOverspending'
<1>1. UNCHANGED <<slot, payer>>
  BY DEF GrantBonus, GrantTurns
<1>2. ASSUME NEW b \in Accounts
      PROVE  /\ quota'[b].used = quota[b].used
             /\ quota'[b].bonus \in Nat
             /\ quota'[b].bonus >= quota[b].bonus
  <2>1. quota[a] \in Row /\ quota[b] \in Row /\ quota \in [Accounts -> Row]
    BY DEF LedgerInv, TypeOK
  <2>2. quota[b].bonus \in Nat /\ quota[a].bonus \in Nat
    BY <2>1 DEF Row
  <2>3. CASE GrantBonus(a)
    <3>1. WithBonus(quota[a]).used = quota[a].used
      BY <2>1 DEF WithBonus, Row
    <3>2. WithBonus(quota[a]).bonus = quota[a].bonus + Bonus
      BY <2>1 DEF WithBonus, Row
    <3>3. QED
      BY <2>1, <2>2, <2>3, <3>1, <3>2, BonusIsPositive DEF GrantBonus
  <2>4. ASSUME NEW r \in Requests, NEW n \in GrantSizes, GrantTurns(a, r, n)
        PROVE  quota'[b].used = quota[b].used /\ quota'[b].bonus = quota[b].bonus
    <3>1. /\ WithGrant(quota[a], n).used = quota[a].used
          /\ WithGrant(quota[a], n).bonus = quota[a].bonus
      BY <2>1 DEF WithGrant, Row
    <3>2. QED
      BY <2>1, <2>4, <3>1 DEF GrantTurns
  <2>5. QED
    BY <2>2, <2>3, <2>4
<1>3. QED
  BY <1>1, <1>2, OtherStepsOverspend

\* Parallel submissions at the boundary cannot overshoot the allowance.
THEOREM AllowanceIsRespected ==
  ASSUME Linkable = {}
  PROVE  Spec => []NoOverspending
<1>1. Init => NoOverspending
  <2> SUFFICES ASSUME Init, NEW a \in Accounts
               PROVE  quota[a].used <= CapOf(a) + quota[a].bonus + GrantedSpent(a)
    BY DEF NoOverspending
  <2>1. quota[a].used = 0 /\ quota[a].bonus = 0
    BY DEF Init, NoRow
  <2>2. QED
    BY <2>1, CapIsNatural, SpentIsFinite
<1>2. LedgerInv /\ NoOverspending /\ [Next]_vars => NoOverspending'
  <2> SUFFICES ASSUME LedgerInv, NoOverspending, [Next]_vars PROVE NoOverspending'
    OBVIOUS
  <2>1. \A a \in Accounts : quota[a].bonus \in Nat
    BY DEF LedgerInv, TypeOK, Row
  <2>2. ASSUME NEW t \in Turns, NEW a \in Accounts, Refuse(t, a)
        PROVE  NoOverspending'
    BY <2>1, <2>2, OtherStepsOverspend DEF Refuse
  <2>3. CASE UNCHANGED vars
    BY <2>1, <2>3, OtherStepsOverspend DEF vars
  <2>4. ASSUME NEW d \in Anon
        PROVE  (\A u \in Users : ~StartLink(d, u) /\ ~CommitLink(d, u)) /\ ~AbortLink(d)
    BY NothingLinks DEF LedgerInv
  <2>5. QED
    BY <2>2, <2>3, <2>4, ReserveOverspends, SettleOverspends, GrantOverspends,
       PurgeOverspends DEF Next
<1>3. QED
  BY <1>1, <1>2, LedgerInvariant, PTL DEF Spec

-------------------------------------------------------------------------------
(***************************************************************************)
(* The bonus, with devices linked to users as well.                        *)
(***************************************************************************)

\* Rows that both had the bonus merge into one that has it once.
LEMMA MergedBonus ==
  ASSUME NEW row \in Row, NEW device \in Row,
         row.bonus = IF row.bonusGranted THEN Bonus ELSE 0,
         device.bonus = IF device.bonusGranted THEN Bonus ELSE 0
  PROVE  Merged(row, device).bonus
            = IF Merged(row, device).bonusGranted THEN Bonus ELSE 0
<1>1. Bonus \in Nat
  BY BonusIsPositive
<1>2. CASE ~device.live
  BY <1>2 DEF Merged
<1>3. CASE device.live
  <2>1. /\ Merged(row, device).bonus = Larger(row.bonus, device.bonus)
        /\ Merged(row, device).bonusGranted = (row.bonusGranted \/ device.bonusGranted)
    BY <1>3 DEF Merged
  <2>2. CASE row.bonusGranted \/ device.bonusGranted
    <3>1. Larger(row.bonus, device.bonus) = Bonus
      BY <1>1, <2>2 DEF Larger
    <3>2. QED
      BY <2>1, <2>2, <3>1
  <2>3. CASE ~(row.bonusGranted \/ device.bonusGranted)
    <3>1. Larger(row.bonus, device.bonus) = 0
      BY <1>1, <2>3 DEF Larger
    <3>2. QED
      BY <2>1, <2>3, <3>1
  <2>4. QED
    BY <2>2, <2>3
<1>4. QED
  BY <1>2, <1>3

\* What a step does to a row keeps its bonus what its flag says.
BonusFits(row) == row.bonus = IF row.bonusGranted THEN Bonus ELSE 0

\* The operations on one row keep its bonus at one Bonus or none.
LEMMA RowStepsKeepBonus ==
  ASSUME NEW row \in Row, BonusFits(row)
  PROVE  /\ \A cap \in Nat : BonusFits(Consumed(row, cap))
         /\ \A n \in Nat, g \in Nat : BonusFits(Restored(row, n, g))
         /\ ~row.bonusGranted => BonusFits(WithBonus(row))
         /\ \A n \in GrantSizes : BonusFits(WithGrant(row, n))
         /\ BonusFits(NoRow)
<1>1. ASSUME NEW cap \in Nat PROVE BonusFits(Consumed(row, cap))
  BY DEF BonusFits, Consumed, Row
<1>2. ASSUME NEW n \in Nat, NEW g \in Nat PROVE BonusFits(Restored(row, n, g))
  BY DEF BonusFits, Restored, Row
<1>3. ASSUME ~row.bonusGranted PROVE BonusFits(WithBonus(row))
  <2>1. row.bonus + Bonus = Bonus
    BY <1>3, BonusIsPositive DEF BonusFits
  <2>2. WithBonus(row).bonus = row.bonus + Bonus /\ WithBonus(row).bonusGranted = TRUE
    BY DEF WithBonus, Row
  <2>3. QED
    BY <2>1, <2>2 DEF BonusFits
<1>4. ASSUME NEW n \in GrantSizes PROVE BonusFits(WithGrant(row, n))
  BY DEF BonusFits, WithGrant, Row
<1>5. BonusFits(NoRow)
  BY DEF BonusFits, NoRow
<1>6. QED
  BY <1>1, <1>2, <1>3, <1>4, <1>5

\* The rows an open link has read fit as well.
BonusInv ==
    /\ \A a \in Accounts : BonusFits(quota[a])
    /\ \A d \in Anon, p \in Projects : BonusFits(linking[d].rows[p])

\* Every step keeps the bonus of every row at one Bonus or none.
LEMMA NextKeepsBonus ==
  ASSUME TypeOK, BonusInv, [Next]_vars, NEW a \in Accounts
  PROVE  BonusFits(quota'[a])
<1>1. quota[a] \in Row /\ BonusFits(quota[a]) /\ CapOf(a) \in Nat
  BY CapIsNatural DEF TypeOK, BonusInv
<1>2. CASE quota' = quota
  BY <1>1, <1>2
<1>3. ASSUME NEW t \in Turns, NEW b \in Accounts, Reserve(t, b)
      PROVE  BonusFits(quota'[a])
  <2>1. quota'[a] \in {quota[a], Consumed(quota[a], CapOf(a))}
    BY <1>3 DEF Reserve, TypeOK
  <2>2. QED
    BY <1>1, <2>1, RowStepsKeepBonus
<1>4. ASSUME NEW t \in Turns, RefundTxn(t)
      PROVE  BonusFits(quota'[a])
  <2>1. Cardinality(GrantedIn({t})) \in Nat
    BY TurnSetsAreFinite DEF GrantedIn
  <2>2. quota'[a] \in {quota[a], Restored(quota[a], 1, Cardinality(GrantedIn({t})))}
    BY <1>4 DEF RefundTxn, TypeOK
  <2>3. QED
    BY <1>1, <2>1, <2>2, RowStepsKeepBonus
<1>5. ASSUME NEW b \in Accounts, GrantBonus(b)
      PROVE  BonusFits(quota'[a])
  BY <1>1, <1>5, RowStepsKeepBonus DEF GrantBonus, TypeOK
<1>6. ASSUME NEW b \in Accounts, NEW r \in Requests, NEW n \in GrantSizes, GrantTurns(b, r, n)
      PROVE  BonusFits(quota'[a])
  <2>1. quota'[a] \in {quota[a], WithGrant(quota[a], n)}
    BY <1>6 DEF GrantTurns, TypeOK
  <2>2. QED
    BY <1>1, <2>1, RowStepsKeepBonus
<1>7. ASSUME NEW d \in Anon, NEW u \in Users, StartLink(d, u) \/ CommitLink(d, u)
      PROVE  BonusFits(quota'[a])
  <2>1. CASE StartLink(d, u)
    BY <1>2, <2>1 DEF StartLink
  <2>2. CASE CommitLink(d, u)
    <3>1. linking[d].rows[a[2]] \in Row /\ BonusFits(linking[d].rows[a[2]])
      BY DEF Accounts, TypeOK, BonusInv
    <3>2. quota'[a] \in {NoRow, Merged(quota[a], linking[d].rows[a[2]]), quota[a]}
      BY <2>2 DEF CommitLink
    <3>3. QED
      BY <1>1, <3>1, <3>2, MergedBonus, RowStepsKeepBonus DEF BonusFits
  <2>3. QED
    BY <1>7, <2>1, <2>2
<1>8. ASSUME NEW S \in SUBSET Turns, NEW R \in SUBSET Accounts, NEW D \in SUBSET S,
             Purge(S, D, R)
      PROVE  BonusFits(quota'[a])
  <2>1. /\ Cardinality(StaleIn(D, a)) \in Nat
        /\ Cardinality(GrantedIn(StaleIn(D, a))) \in Nat
    BY TurnSetsAreFinite DEF StaleIn, GrantedIn
  <2>2. quota'[a] \in {NoRow, Restored(quota[a], Cardinality(StaleIn(D, a)),
                                       Cardinality(GrantedIn(StaleIn(D, a))))}
    BY <1>8 DEF Purge
  <2>3. QED
    BY <1>1, <2>1, <2>2, RowStepsKeepBonus
<1>9. ASSUME NEW t \in Turns, Settle(t)
      PROVE  BonusFits(quota'[a])
  BY <1>2, <1>4, <1>9 DEF Settle, Finalize, FinalizeLost, Refund, RefundLost, Cancel,
     Abandon, FinalizeTxn
<1>10. ASSUME NEW t \in Turns, NEW b \in Accounts, Refuse(t, b)
       PROVE  BonusFits(quota'[a])
  BY <1>2, <1>10 DEF Refuse
<1>11. QED
  BY <1>2, <1>3, <1>5, <1>6, <1>7, <1>8, <1>9, <1>10 DEF Next, vars, AbortLink

\* Every step keeps the bonus of the rows an open link has read.
LEMMA NextKeepsReadBonus ==
  ASSUME TypeOK, BonusInv, [Next]_vars, NEW d \in Anon, NEW p \in Projects
  PROVE  BonusFits(linking'[d].rows[p])
<1>1. BonusFits(linking[d].rows[p]) /\ BonusFits(quota[<<d, p>>])
  BY DEF BonusInv, Accounts, Keys
<1>2. BonusFits(NotLinking.rows[p])
  BY DEF NotLinking, BonusFits, NoRow
<1>3. CASE linking' = linking
  BY <1>1, <1>3
<1>4. ASSUME NEW c \in Anon, NEW u \in Users, StartLink(c, u)
      PROVE  BonusFits(linking'[d].rows[p])
  <2>1. CASE c = d
    <3>1. linking'[d].rows[p] = quota[<<d, p>>]
      BY <1>4, <2>1 DEF StartLink, TypeOK
    <3>2. QED
      BY <1>1, <3>1
  <2>2. CASE c # d
    BY <1>1, <1>4, <2>2 DEF StartLink, TypeOK
  <2>3. QED
    BY <2>1, <2>2
<1>5. ASSUME NEW c \in Anon, linking' = [linking EXCEPT ![c] = NotLinking]
      PROVE  BonusFits(linking'[d].rows[p])
  <2>1. linking'[d] \in {linking[d], NotLinking}
    BY <1>5 DEF TypeOK
  <2>2. QED
    BY <1>1, <1>2, <2>1
<1>6. QED
  BY <1>3, <1>4, <1>5 DEF Next, vars, Reserve, Refuse, Settle, Finalize, FinalizeLost,
     Refund, RefundLost, Cancel, Abandon, GrantBonus, GrantTurns, CommitLink, AbortLink, Purge

\* The bonus of an account row is added once, whatever is merged into it.
THEOREM BonusIsAddedOnce == Spec => []BonusIsOneTime
<1>1. Init => BonusInv
  BY DEF Init, BonusInv, BonusFits, NoRow, NotLinking
<1>2. TypeOK /\ BonusInv /\ [Next]_vars => BonusInv'
  BY NextKeepsBonus, NextKeepsReadBonus DEF BonusInv
<1>3. BonusInv => BonusIsOneTime
  BY DEF BonusInv, BonusFits, BonusIsOneTime
<1>4. QED
  BY <1>1, <1>2, <1>3, TypeCorrect, PTL DEF Spec

-------------------------------------------------------------------------------
(***************************************************************************)
(* The abstract ledger.  Where no device is linked, every operation of the *)
(* store is one step of TurnLedger or changes nothing that it speaks of.   *)
(***************************************************************************)

\* A turn is counted by the account its reservation was made for.
SlotHolds(t) ==
    /\ turn[t] = "new" => slot[t].account = Nobody
    /\ payer[t] # Nobody => payer[t] = slot[t].account

MapInv == LedgerInv /\ \A t \in Turns : SlotHolds(t)

LEMMA MapInvHoldsAtFirst == Init => MapInv
<1>1. Init => LedgerInv
  BY InitLedgerInv
<1>2. ASSUME Init, NEW t \in Turns
      PROVE  SlotHolds(t)
  BY <1>2 DEF Init, SlotHolds, NoSlot
<1>3. QED
  BY <1>1, <1>2 DEF MapInv

\* Only a reservation gives a turn an account, and only linking moves it.
LEMMA MapInvIsInductive ==
  ASSUME Linkable = {}, MapInv, [Next]_vars
  PROVE  MapInv'
<1>1. LedgerInv' /\ TypeOK
  BY LedgerInvIsInductive DEF MapInv, LedgerInv
<1> SUFFICES ASSUME NEW s \in Turns
             PROVE  SlotHolds(s)'
  BY <1>1 DEF MapInv
<1>2. SlotHolds(s)
  BY DEF MapInv
<1>3. slot \in [Turns -> Slot] /\ payer \in [Turns -> Accounts \cup {Nobody}]
      /\ turn \in [Turns -> Phases]
  BY <1>1 DEF TypeOK
<1>4. ASSUME slot'[s].account = slot[s].account, payer'[s] \in {payer[s], Nobody},
             turn'[s] = "new" => turn[s] = "new"
      PROVE  SlotHolds(s)'
  BY <1>2, <1>4 DEF SlotHolds
<1>5. ASSUME NEW t \in Turns, NEW a \in Accounts, Reserve(t, a)
      PROVE  SlotHolds(s)'
  <2>1. CASE s = t
    BY <1>3, <1>5, <2>1 DEF Reserve, SlotHolds
  <2>2. CASE s # t
    BY <1>3, <1>4, <1>5, <2>2 DEF Reserve
  <2>3. QED
    BY <2>1, <2>2
<1>6. ASSUME NEW t \in Turns, NEW a \in Accounts, Refuse(t, a)
      PROVE  SlotHolds(s)'
  BY <1>3, <1>4, <1>6 DEF Refuse
<1>7. ASSUME NEW t \in Turns, RefundTxn(t) \/ FinalizeTxn(t)
      PROVE  slot'[s].account = slot[s].account /\ payer'[s] \in {payer[s], Nobody}
  BY <1>3, <1>7 DEF RefundTxn, FinalizeTxn, Slot
<1>8. ASSUME NEW t \in Turns, Settle(t)
      PROVE  SlotHolds(s)'
  <2>1. slot'[s].account = slot[s].account /\ payer'[s] \in {payer[s], Nobody}
    BY <1>7, <1>8 DEF Settle, Finalize, FinalizeLost, Refund, RefundLost, Cancel, Abandon
  <2>2. turn'[s] = "new" => turn[s] = "new"
    BY <1>3, <1>8 DEF Settle, Finalize, FinalizeLost, Refund, RefundLost, Cancel, Abandon
  <2>3. QED
    BY <1>4, <2>1, <2>2
<1>9. ASSUME NEW S \in SUBSET Turns, NEW R \in SUBSET Accounts, NEW D \in SUBSET S, Purge(S, D, R)
      PROVE  SlotHolds(s)'
  <2>1. slot'[s].account = slot[s].account
    BY <1>3, <1>9 DEF Purge, Slot
  <2>2. QED
    BY <1>4, <1>9, <2>1 DEF Purge
<1>10. ASSUME NEW a \in Accounts, GrantBonus(a)
                 \/ (\E r \in Requests, n \in GrantSizes : GrantTurns(a, r, n))
       PROVE  SlotHolds(s)'
  BY <1>4, <1>10 DEF GrantBonus, GrantTurns
<1>11. CASE UNCHANGED vars
  BY <1>4, <1>11 DEF vars
<1>12. ASSUME NEW d \in Anon
       PROVE  (\A u \in Users : ~StartLink(d, u) /\ ~CommitLink(d, u)) /\ ~AbortLink(d)
  BY NothingLinks DEF MapInv, LedgerInv
<1>13. QED
  BY <1>5, <1>6, <1>8, <1>9, <1>10, <1>11, <1>12 DEF Next

\* What the ledger counts is what the counters count.
LEMMA LedgerCounts ==
  ASSUME MapInv, NEW a \in Accounts
  PROVE  /\ Ledger!Counted(a) = CountedFor(a)
         /\ Ledger!HeldBy(a) = {t \in Turns : slot[t].open /\ slot[t].account = a}
<1>1. ASSUME NEW t \in Turns
      PROVE  /\ slot[t].account = a /\ StatusOf(t) \in {"held", "charged"} <=> payer[t] = a
             /\ slot[t].account = a /\ StatusOf(t) = "held" <=> slot[t].account = a /\ slot[t].open
  <2>1. SlotHolds(t) /\ PhaseMatches(t) /\ a # Nobody
    BY NobodyIsNotInAccounts DEF MapInv, LedgerInv, PhasesMatchReservations
  <2>2. QED
    BY <2>1 DEF SlotHolds, PhaseMatches, StatusOf
<1>2. QED
  BY <1>1 DEF Ledger!Counted, Ledger!HeldBy, CountedFor

LEMMA CardinalityIsTheLedgers == \A S : Ledger!Cardinality(S) = Cardinality(S)
BY DEF Ledger!Cardinality, Cardinality, Ledger!IsFiniteSet, IsFiniteSet

\* What counts against a limit: a step that changes no row and no class, and gives
\* no turn another payer, leaves it.
LEMMA LimitsStay ==
  ASSUME MapInv, UNCHANGED payer, \A t \in Turns : slot'[t].class = slot[t].class,
         NEW a \in Accounts, quota'[a].bonus = quota[a].bonus, quota'[a].granted = quota[a].granted
  PROVE  LimitOf(a)' = LimitOf(a)
BY DEF LimitOf, GrantedSpent, GrantedIn, CountedFor, CapOf

LEMMA LimitsAreNumbers ==
  ASSUME MapInv, NEW a \in Accounts
  PROVE  /\ CapOf(a) \in Nat /\ quota[a].used \in Nat /\ quota[a].bonus \in Nat
         /\ quota[a].granted \in Nat /\ GrantedSpent(a) \in Nat /\ LimitOf(a) \in Nat
BY CapIsNatural, SpentIsFinite DEF MapInv, LedgerInv, TypeOK, Row, LimitOf

LEMMA ReserveHolds ==
  ASSUME MapInv, NEW t \in Turns, NEW a \in Accounts, Reserve(t, a)
  PROVE  Ledger!Hold(t, a)
<1> DEFINE row == Consumed(quota[a], CapOf(a))
<1>1. /\ turn[t] = "new" /\ payer[t] = Nobody /\ slot[t].account = Nobody
      /\ quota[a] \in Row /\ CapOf(a) \in Nat /\ a # Nobody
      /\ slot \in [Turns -> Slot] /\ quota \in [Accounts -> Row]
      /\ payer \in [Turns -> Accounts \cup {Nobody}]
  BY CapIsNatural, NobodyIsNotInAccounts
     DEF Reserve, MapInv, SlotHolds, LedgerInv, PhasesMatchReservations, PhaseMatches, TypeOK
<1>2. /\ quota' = [quota EXCEPT ![a] = row]
      /\ payer' = [payer EXCEPT ![t] = a]
      /\ slot'[t].class = ClassOf(row, CapOf(a)) /\ slot'[t].open /\ slot'[t].account = a
      /\ \A s \in Turns \ {t} : slot'[s] = slot[s] /\ payer'[s] = payer[s]
  BY <1>1 DEF Reserve
<1>3. /\ row.used = quota[a].used + 1 /\ row.bonus = quota[a].bonus
      /\ row.granted = IF quota[a].used >= CapOf(a) + quota[a].bonus
                       THEN quota[a].granted - 1 ELSE quota[a].granted
      /\ quota[a].used \in Nat /\ quota[a].bonus \in Nat /\ quota[a].granted \in Nat
      /\ quota[a].used < CapOf(a) + quota[a].bonus + quota[a].granted
  BY <1>1 DEF Consumed, Row, Reserve, HasAllowance
<1> HIDE DEF row
<1>4. StatusOf(t) = "new" /\ StatusOf(t)' = "held"
  BY <1>1, <1>2 DEF StatusOf
<1>5. ASSUME NEW s \in Turns \ {t}
      PROVE  StatusOf(s)' = StatusOf(s)
  BY <1>2 DEF StatusOf
<1>6. ASSUME NEW b \in Accounts
      PROVE  LimitOf(b)' = LimitOf(b)
  <2>1. CASE b # a
    <3>1. GrantedIn(CountedFor(b))' = GrantedIn(CountedFor(b))
      <4>1. ASSUME NEW s \in Turns
            PROVE  (payer'[s] = b /\ slot'[s].class = "granted")
                     <=> (payer[s] = b /\ slot[s].class = "granted")
        BY <1>1, <1>2, <2>1, NobodyIsNotInAccounts
      <4>2. QED
        BY <4>1 DEF GrantedIn, CountedFor
    <3>2. QED
      BY <1>1, <1>2, <2>1, <3>1 DEF LimitOf, GrantedSpent, CapOf
  <2>2. CASE b = a
    <3>1. quota'[b] = row
      BY <1>1, <1>2, <2>2
    <3>2. t \notin GrantedIn(CountedFor(a))
      BY <1>1 DEF GrantedIn, CountedFor
    <3>3. CASE row.used <= CapOf(a) + row.bonus
      <4>1. ClassOf(row, CapOf(a)) # "granted"
        BY <3>3 DEF ClassOf
      <4>2. GrantedIn(CountedFor(a))' = GrantedIn(CountedFor(a))
        BY <1>1, <1>2, <3>2, <4>1 DEF GrantedIn, CountedFor
      <4>3. row.granted = quota[a].granted
        BY <1>1, <1>3, <3>3
      <4>4. QED
        BY <1>3, <2>2, <3>1, <4>2, <4>3 DEF LimitOf, GrantedSpent, CapOf
    <3>4. CASE ~(row.used <= CapOf(a) + row.bonus)
      <4>1. ClassOf(row, CapOf(a)) = "granted"
        BY <1>1, <1>3, <3>4 DEF ClassOf
      <4>2. GrantedIn(CountedFor(a))' = GrantedIn(CountedFor(a)) \cup {t}
        BY <1>1, <1>2, <4>1 DEF GrantedIn, CountedFor
      <4>3. GrantedSpent(a)' = GrantedSpent(a) + 1
        BY <3>2, <4>2, SpentIsFinite, FS_AddElement DEF GrantedSpent
      <4>4. row.granted = quota[a].granted - 1
        BY <1>1, <1>3, <3>4
      <4>5. LimitOf(a)' = CapOf(a) + row.bonus + row.granted + GrantedSpent(a)'
        BY <2>2, <3>1 DEF LimitOf, CapOf
      <4>6. LimitOf(a) = CapOf(a) + quota[a].bonus + quota[a].granted + GrantedSpent(a)
        BY DEF LimitOf
      <4>7. QED
        BY <1>1, <1>3, <2>2, <4>3, <4>4, <4>5, <4>6, SpentIsFinite
    <3>5. QED
      BY <3>3, <3>4
  <2>3. QED
    BY <2>1, <2>2
<1>7. Cardinality(Ledger!Counted(a)) < LimitOf(a)
  <2>1. Cardinality(Ledger!Counted(a)) = quota[a].used
    BY LedgerCounts DEF MapInv, LedgerInv, UsedCountsTurns
  <2>2. QED
    BY <1>1, <1>3, <2>1, SpentIsFinite DEF LimitOf
<1>8. /\ [s \in Turns |-> StatusOf(s)]' = [[s \in Turns |-> StatusOf(s)] EXCEPT ![t] = "held"]
      /\ [s \in Turns |-> slot[s].account]' = [[s \in Turns |-> slot[s].account] EXCEPT ![t] = a]
      /\ [b \in Accounts |-> LimitOf(b)]' = [b \in Accounts |-> LimitOf(b)]
  BY <1>2, <1>4, <1>5, <1>6
<1>9. QED
  BY <1>4, <1>7, <1>8, CardinalityIsTheLedgers DEF Ledger!Hold

\* A turn that is not settled otherwise is charged for good.
LEMMA FinalizeCharges ==
  ASSUME MapInv, NEW t \in Turns, turn[t] = "running", FinalizeTxn(t)
  PROVE  Ledger!Charge(t)
<1>1. /\ slot[t].open /\ payer[t] = slot[t].account /\ payer[t] # Nobody
      /\ slot \in [Turns -> Slot]
  BY DEF MapInv, LedgerInv, PhasesMatchReservations, PhaseMatches, TypeOK
<1>2. /\ UNCHANGED <<quota, payer>> /\ ~slot'[t].open
      /\ \A s \in Turns : slot'[s].account = slot[s].account /\ slot'[s].class = slot[s].class
      /\ \A s \in Turns \ {t} : slot'[s] = slot[s]
  BY <1>1 DEF FinalizeTxn, Slot
<1>3. StatusOf(t) = "held" /\ StatusOf(t)' = "charged"
  BY <1>1, <1>2 DEF StatusOf
<1>4. \A s \in Turns \ {t} : StatusOf(s)' = StatusOf(s)
  BY <1>2 DEF StatusOf
<1>5. \A a \in Accounts : LimitOf(a)' = LimitOf(a)
  BY <1>2, LimitsStay
<1>6. /\ [s \in Turns |-> StatusOf(s)]' = [[s \in Turns |-> StatusOf(s)] EXCEPT ![t] = "charged"]
      /\ [s \in Turns |-> slot[s].account]' = [s \in Turns |-> slot[s].account]
      /\ [b \in Accounts |-> LimitOf(b)]' = [b \in Accounts |-> LimitOf(b)]
  BY <1>2, <1>3, <1>4, <1>5
<1>7. QED
  BY <1>3, <1>6 DEF Ledger!Charge

\* What is given back of an account, granted turns first of all, leaves its limit:
\* the grant grows by what the turns spent of it.
LEMMA LimitGivesBack ==
  ASSUME MapInv, NEW a \in Accounts, NEW D \in SUBSET CountedFor(a), NEW n \in Nat,
         quota'[a] = Restored(quota[a], n, Cardinality(GrantedIn(D))),
         CountedFor(a)' = CountedFor(a) \ D,
         \A t \in Turns : slot'[t].class = slot[t].class
  PROVE  LimitOf(a)' = LimitOf(a)
<1>1. GrantedIn(CountedFor(a))' = GrantedIn(CountedFor(a)) \ GrantedIn(D)
  BY DEF GrantedIn, CountedFor
<1>2. GrantedIn(CountedFor(a)) \cap GrantedIn(D) = GrantedIn(D)
  BY DEF GrantedIn
<1>3. Cardinality(GrantedIn(CountedFor(a)) \ GrantedIn(D))
        = Cardinality(GrantedIn(CountedFor(a))) - Cardinality(GrantedIn(D))
  <2>1. PICK G : G = GrantedIn(CountedFor(a)) /\ IsFiniteSet(G)
    BY SpentIsFinite
  <2>2. PICK H : H = GrantedIn(D)
    OBVIOUS
  <2>3. Cardinality(G \ H) = Cardinality(G) - Cardinality(G \cap H)
    BY <2>1, FS_Difference
  <2>4. QED
    BY <1>2, <2>1, <2>2, <2>3
<1>4. Cardinality(GrantedIn(D)) \in Nat
  BY TurnSetsAreFinite DEF GrantedIn, CountedFor
<1>5. PICK g \in Nat : g = Cardinality(GrantedIn(D))
  BY <1>4
<1>6. GrantedSpent(a)' = GrantedSpent(a) - g
  BY <1>1, <1>3, <1>5 DEF GrantedSpent
<1>7. quota'[a].bonus = quota[a].bonus /\ quota'[a].granted = quota[a].granted + g
  BY <1>5 DEF Restored, MapInv, LedgerInv, TypeOK, Row
<1>8. /\ LimitOf(a)' = CapOf(a) + quota'[a].bonus + quota'[a].granted + GrantedSpent(a)'
      /\ LimitOf(a) = CapOf(a) + quota[a].bonus + quota[a].granted + GrantedSpent(a)
  BY DEF LimitOf, CapOf
<1>9. QED
  BY <1>6, <1>7, <1>8, LimitsAreNumbers

LEMMA RefundReleases ==
  ASSUME MapInv, NEW t \in Turns, RefundTxn(t)
  PROVE  Ledger!Release({t}) \/ UNCHANGED <<quota, slot, payer>>
<1>1. CASE ~slot[t].open
  BY <1>1 DEF RefundTxn, Refundable
<1>2. CASE slot[t].open
  <2> DEFINE a == slot[t].account
  <2>1. Refundable(t) /\ a \in Accounts /\ payer[t] = a /\ a # Nobody
    BY <1>2, OpenIsRefundable, NobodyIsNotInAccounts DEF MapInv
  <2>2. /\ quota' = [quota EXCEPT ![a] = Restored(@, 1, Cardinality(GrantedIn({t})))]
        /\ payer' = [payer EXCEPT ![t] = Nobody] /\ ~slot'[t].open
        /\ \A s \in Turns : slot'[s].account = slot[s].account /\ slot'[s].class = slot[s].class
        /\ \A s \in Turns \ {t} : slot'[s] = slot[s] /\ payer'[s] = payer[s]
        /\ payer'[t] = Nobody
    <3>1. slot \in [Turns -> Slot] /\ payer \in [Turns -> Accounts \cup {Nobody}]
      BY DEF MapInv, LedgerInv, TypeOK
    <3>2. QED
      BY <2>1, <3>1 DEF RefundTxn, Slot
  <2>3. StatusOf(t) = "held" /\ StatusOf(t)' = "released"
    BY <1>2, <2>1, <2>2 DEF StatusOf
  <2>4. \A s \in Turns \ {t} : StatusOf(s)' = StatusOf(s)
    BY <2>2 DEF StatusOf
  <2>5. ASSUME NEW b \in Accounts
        PROVE  LimitOf(b)' = LimitOf(b)
    <3>1. quota \in [Accounts -> Row]
      BY DEF MapInv, LedgerInv, TypeOK
    <3>2. CASE b = a
      <4>1. CountedFor(b)' = CountedFor(b) \ {t}
        BY <2>1, <2>2, NobodyIsNotInAccounts DEF CountedFor
      <4>2. {t} \in SUBSET CountedFor(b)
        BY <2>1, <3>2 DEF CountedFor
      <4>3. quota'[b] = Restored(quota[b], 1, Cardinality(GrantedIn({t})))
        BY <2>2, <3>1, <3>2
      <4>4. QED
        BY <2>2, <4>1, <4>2, <4>3, LimitGivesBack
    <3>3. CASE b # a
      <4>1. CountedFor(b)' = CountedFor(b)
        BY <2>1, <2>2, <3>3, NobodyIsNotInAccounts DEF CountedFor
      <4>2. GrantedIn(CountedFor(b))' = GrantedIn(CountedFor(b))
        BY <2>2, <4>1 DEF GrantedIn, CountedFor
      <4>3. quota'[b] = quota[b]
        BY <2>2, <3>1, <3>3
      <4>4. QED
        BY <4>2, <4>3 DEF LimitOf, GrantedSpent, CapOf
    <3>4. QED
      BY <3>2, <3>3
  <2>6. /\ [s \in Turns |-> StatusOf(s)]'
             = [s \in Turns |-> IF s \in {t} THEN "released" ELSE [x \in Turns |-> StatusOf(x)][s]]
        /\ [s \in Turns |-> slot[s].account]' = [s \in Turns |-> slot[s].account]
        /\ [b \in Accounts |-> LimitOf(b)]' = [b \in Accounts |-> LimitOf(b)]
    BY <2>2, <2>3, <2>4, <2>5
  <2>7. QED
    BY <2>3, <2>6 DEF Ledger!Release
<1>3. QED
  BY <1>1, <1>2

\* A bonus or a grant raises the limit of its account.
LEMMA GrantRaises ==
  ASSUME MapInv, NEW a \in Accounts,
         \/ GrantBonus(a)
         \/ \E r \in Requests, n \in GrantSizes : GrantTurns(a, r, n)
  PROVE  \/ \E n \in GrantSizes \cup {Bonus} : Ledger!Raise(a, n)
         \/ UNCHANGED <<quota, slot, payer>>
<1>1. UNCHANGED <<slot, payer>> /\ quota \in [Accounts -> Row] /\ quota[a] \in Row
  BY DEF GrantBonus, GrantTurns, MapInv, LedgerInv, TypeOK
<1>2. CASE quota' = quota
  BY <1>1, <1>2
<1>3. ASSUME NEW n \in GrantSizes \cup {Bonus}, NEW row, quota' = [quota EXCEPT ![a] = row],
             row.bonus + row.granted = quota[a].bonus + quota[a].granted + n,
             row.bonus \in Nat, row.granted \in Nat
      PROVE  Ledger!Raise(a, n)
  <2>1. n \in Nat /\ n > 0
    BY BonusIsPositive, GrantsArePositive
  <2>2. ASSUME NEW b \in Accounts \ {a}
        PROVE  LimitOf(b)' = LimitOf(b)
    <3>1. quota'[b] = quota[b]
      BY <1>1, <1>3
    <3>2. QED
      BY <1>1, <3>1, LimitsStay
  <2>3. LimitOf(a)' = LimitOf(a) + n
    <3>1. GrantedSpent(a)' = GrantedSpent(a)
      BY <1>1 DEF GrantedSpent, GrantedIn, CountedFor
    <3>2. LimitOf(a)' = CapOf(a) + row.bonus + row.granted + GrantedSpent(a)
      BY <1>1, <1>3, <3>1 DEF LimitOf, CapOf
    <3>3. LimitOf(a) = CapOf(a) + quota[a].bonus + quota[a].granted + GrantedSpent(a)
      BY DEF LimitOf
    <3>4. QED
      BY <1>3, <2>1, <3>2, <3>3, LimitsAreNumbers
  <2>4. \A s \in Turns : StatusOf(s)' = StatusOf(s)
    BY <1>1 DEF StatusOf
  <2>5. /\ [s \in Turns |-> StatusOf(s)]' = [s \in Turns |-> StatusOf(s)]
        /\ [s \in Turns |-> slot[s].account]' = [s \in Turns |-> slot[s].account]
        /\ [b \in Accounts |-> LimitOf(b)]' = [[b \in Accounts |-> LimitOf(b)] EXCEPT ![a] = @ + n]
    BY <1>1, <2>2, <2>3, <2>4
  <2>6. QED
    BY <2>1, <2>5 DEF Ledger!Raise
<1>4. CASE GrantBonus(a)
  <2>1. PICK row : row = WithBonus(quota[a]) /\ quota' = [quota EXCEPT ![a] = row]
    BY <1>4 DEF GrantBonus
  <2>2. /\ row.bonus = quota[a].bonus + Bonus /\ row.granted = quota[a].granted
        /\ quota[a].bonus \in Nat /\ quota[a].granted \in Nat
    BY <1>1, <2>1 DEF WithBonus, Row
  <2>3. /\ row.bonus + row.granted = quota[a].bonus + quota[a].granted + Bonus
        /\ row.bonus \in Nat /\ row.granted \in Nat /\ Bonus \in GrantSizes \cup {Bonus}
    BY <2>2, BonusIsPositive
  <2>4. Ledger!Raise(a, Bonus)
    BY <1>3, <2>1, <2>3, Zenon
  <2>5. QED
    BY <2>3, <2>4
<1>5. ASSUME NEW r \in Requests, NEW n \in GrantSizes, GrantTurns(a, r, n), quota' # quota
      PROVE  Ledger!Raise(a, n)
  <2>1. PICK row : row = WithGrant(quota[a], n) /\ quota' = [quota EXCEPT ![a] = row]
    BY <1>5 DEF GrantTurns
  <2>2. /\ row.bonus = quota[a].bonus /\ row.granted = quota[a].granted + n
        /\ quota[a].bonus \in Nat /\ quota[a].granted \in Nat /\ n \in Nat
    BY <1>1, <2>1, GrantsArePositive DEF WithGrant, Row
  <2>3. /\ row.bonus + row.granted = quota[a].bonus + quota[a].granted + n
        /\ row.bonus \in Nat /\ row.granted \in Nat /\ n \in GrantSizes \cup {Bonus}
    BY <2>2
  <2>4. QED
    BY <1>3, <2>1, <2>3, Zenon
<1>6. QED
  BY <1>2, <1>4, <1>3, <1>5

\* No row is at zero while it has open reservations, so a purge gives all of them back.
LEMMA PurgeGivesBackAll ==
  ASSUME MapInv, NEW S \in SUBSET Turns, NEW R \in SUBSET Accounts,
         NEW D \in SUBSET S, Purge(S, D, R)
  PROVE  /\ D = S
         /\ \A a \in Accounts : StaleIn(S, a) \in SUBSET CountedFor(a)
<1>1. ASSUME NEW a \in Accounts
      PROVE  StaleIn(S, a) \in SUBSET CountedFor(a)
  BY OpenIsRefundable DEF Purge, CountedFor, StaleIn, MapInv
<1>2. ASSUME NEW a \in Accounts
      PROVE  StaleIn(D, a) = StaleIn(S, a)
  <2> DEFINE n == Cardinality(StaleIn(S, a))
  <2>1. Cardinality(StaleIn(D, a)) = IF n <= quota[a].used THEN n ELSE quota[a].used
    BY DEF Purge
  <2>2. quota[a].used = Cardinality(CountedFor(a))
    BY DEF MapInv, LedgerInv, UsedCountsTurns
  <2>3. n <= Cardinality(CountedFor(a))
    BY <1>1, CountedIsFinite, FS_Subset
  <2>4. StaleIn(S, a) \in SUBSET Turns /\ StaleIn(D, a) \in SUBSET StaleIn(S, a)
    BY DEF StaleIn
  <2>5. IsFiniteSet(StaleIn(S, a))
    BY <2>4, TurnSetsAreFinite
  <2>6. Cardinality(StaleIn(D, a)) = Cardinality(StaleIn(S, a))
    BY <2>1, <2>2, <2>3
  <2>7. QED
    BY <2>4, <2>5, <2>6, FS_Subset
<1>3. ASSUME NEW t \in S
      PROVE  t \in D
  <2>1. slot[t].account \in Accounts
    BY OpenIsRefundable DEF Purge, MapInv
  <2>2. t \in StaleIn(S, slot[t].account)
    BY DEF StaleIn
  <2>3. QED
    BY <1>2, <2>1, <2>2 DEF StaleIn
<1>4. QED
  BY <1>1, <1>3

LEMMA PurgeRetires ==
  ASSUME MapInv, NEW S \in SUBSET Turns, NEW R \in SUBSET Accounts,
         NEW D \in SUBSET S, Purge(S, D, R)
  PROVE  Ledger!Retire(S, R)
<1>1. /\ D = S /\ \A a \in Accounts : StaleIn(S, a) \in SUBSET CountedFor(a)
      /\ slot \in [Turns -> Slot] /\ Nobody \notin Accounts
      /\ \A t \in S : slot[t].open /\ slot[t].account \in Accounts
  <2>1. \A t \in S : slot[t].open
    BY DEF Purge
  <2>2. \A t \in S : slot[t].account \in Accounts
    BY <2>1, OpenIsRefundable DEF MapInv
  <2>3. slot \in [Turns -> Slot]
    BY DEF MapInv, LedgerInv, TypeOK
  <2>4. QED
    BY <2>1, <2>2, <2>3, PurgeGivesBackAll, NobodyIsNotInAccounts
<1>2. /\ \A t \in Turns : slot'[t].account = slot[t].account /\ slot'[t].class = slot[t].class
      /\ \A t \in S : ~slot'[t].open
      /\ \A t \in Turns \ S : slot'[t] = slot[t]
      /\ \A t \in Turns : payer'[t] = IF payer[t] \in R \/ t \in S THEN Nobody ELSE payer[t]
      /\ \A a \in R : ~\E t \in Turns \ S : slot[t].open /\ slot[t].account = a
  BY <1>1 DEF Purge, Slot
<1>3. ASSUME NEW t \in Turns
      PROVE  SlotHolds(t) /\ PhaseMatches(t)
  BY DEF MapInv, LedgerInv, PhasesMatchReservations
<1>4. \A t \in S : StatusOf(t) = "held"
  BY <1>1 DEF StatusOf
<1>5. \A a \in R : Ledger!HeldBy(a) \subseteq S
  BY <1>2, LedgerCounts
<1>6. ASSUME NEW t \in Turns
      PROVE  StatusOf(t)' = IF t \in S \/ \E a \in R : t \in Ledger!Counted(a)
                            THEN "released" ELSE StatusOf(t)
  <2>1. (\E a \in R : t \in Ledger!Counted(a)) <=> payer[t] \in R
    BY LedgerCounts DEF CountedFor
  <2>2. CASE t \in S
    BY <1>1, <1>2, <2>2 DEF StatusOf
  <2>3. CASE t \notin S /\ payer[t] \in R
    <3>1. payer[t] # Nobody /\ slot[t].account = payer[t]
      BY <1>1, <1>3, <2>3 DEF SlotHolds
    <3>2. ~slot[t].open
      BY <1>2, <2>3, <3>1
    <3>3. QED
      BY <1>2, <2>1, <2>3, <3>1, <3>2 DEF StatusOf
  <2>4. CASE t \notin S /\ payer[t] \notin R
    BY <1>2, <2>1, <2>4 DEF StatusOf
  <2>5. QED
    BY <2>2, <2>3, <2>4
<1>7. ASSUME NEW a \in Accounts
      PROVE  LimitOf(a)' = IF a \in R THEN CapOf(a) ELSE LimitOf(a)
  <2>1. CASE a \in R
    <3>1. CountedFor(a)' = {}
      BY <1>1, <1>2, <2>1 DEF CountedFor
    <3>2. GrantedIn(CountedFor(a))' = {}
      BY <3>1 DEF GrantedIn
    <3>3. quota'[a].bonus = 0 /\ quota'[a].granted = 0
      BY <2>1 DEF Purge, NoRow
    <3>4. GrantedSpent(a)' = 0
      BY <3>2, FS_EmptySet DEF GrantedSpent
    <3>5. LimitOf(a)' = CapOf(a) + quota'[a].bonus + quota'[a].granted + GrantedSpent(a)'
      BY DEF LimitOf, CapOf
    <3>6. QED
      BY <2>1, <3>3, <3>4, <3>5, CapIsNatural
  <2>2. CASE a \notin R
    <3>1. quota'[a] = Restored(quota[a], Cardinality(StaleIn(S, a)),
                               Cardinality(GrantedIn(StaleIn(S, a))))
      BY <1>1, <2>2 DEF Purge
    <3>2. CountedFor(a)' = CountedFor(a) \ StaleIn(S, a)
      <4>1. ASSUME NEW t \in CountedFor(a)
            PROVE  t \in S <=> t \in StaleIn(S, a)
        BY <1>1, <1>3 DEF CountedFor, SlotHolds, StaleIn
      <4>2. QED
        BY <1>1, <1>2, <2>2, <4>1 DEF CountedFor
    <3>3. Cardinality(StaleIn(S, a)) \in Nat
      BY TurnSetsAreFinite DEF StaleIn
    <3>4. QED
      BY <1>1, <1>2, <2>2, <3>1, <3>2, <3>3, LimitGivesBack
  <2>3. QED
    BY <2>1, <2>2
<1>8. /\ [s \in Turns |-> StatusOf(s)]'
           = [s \in Turns |-> IF s \in S \/ \E a \in R : s \in Ledger!Counted(a)
                              THEN "released" ELSE [x \in Turns |-> StatusOf(x)][s]]
      /\ [s \in Turns |-> slot[s].account]' = [s \in Turns |-> slot[s].account]
      /\ [b \in Accounts |-> LimitOf(b)]'
           = [b \in Accounts |-> IF b \in R THEN [x \in Accounts |-> CapOf(x)][b]
                                 ELSE [x \in Accounts |-> LimitOf(x)][b]]
  BY <1>2, <1>6, <1>7
<1>9. QED
  BY <1>4, <1>5, <1>8 DEF Ledger!Retire

LEMMA LedgerIsNew == Init => Ledger!LedgerInit
<1> SUFFICES ASSUME Init PROVE Ledger!LedgerInit
  OBVIOUS
<1>1. \A t \in Turns : StatusOf(t) = "new" /\ slot[t].account = Nobody
  BY DEF Init, StatusOf, NoSlot
<1>2. ASSUME NEW a \in Accounts
      PROVE  LimitOf(a) = CapOf(a)
  <2>1. GrantedIn(CountedFor(a)) = {}
    BY NobodyIsNotInAccounts DEF Init, GrantedIn, CountedFor
  <2>2. GrantedSpent(a) = 0 /\ quota[a].bonus = 0 /\ quota[a].granted = 0
    BY <2>1, FS_EmptySet DEF GrantedSpent, Init, NoRow
  <2>3. QED
    BY <2>2, CapIsNatural DEF LimitOf
<1>3. QED
  BY <1>1, <1>2 DEF Ledger!LedgerInit

LEMMA QuietSteps ==
  ASSUME UNCHANGED <<quota, slot, payer>>
  PROVE  UNCHANGED Ledger!ledgerVars
<1>1. \A t \in Turns : StatusOf(t)' = StatusOf(t)
  BY DEF StatusOf
<1>2. \A a \in Accounts : LimitOf(a)' = LimitOf(a)
  BY DEF LimitOf, GrantedSpent, GrantedIn, CountedFor, CapOf
<1>3. QED
  BY <1>1, <1>2 DEF Ledger!ledgerVars

LEMMA StepsAreLedgerSteps ==
  ASSUME Linkable = {}, MapInv, [Next]_vars
  PROVE  Ledger!LedgerNext \/ UNCHANGED Ledger!ledgerVars
<1>1. ASSUME NEW t \in Turns, NEW a \in Accounts, Reserve(t, a)
      PROVE  Ledger!LedgerNext
  BY <1>1, ReserveHolds DEF Ledger!LedgerNext
<1>2. ASSUME NEW t \in Turns, Settle(t)
      PROVE  Ledger!LedgerNext \/ UNCHANGED <<quota, slot, payer>>
  <2>1. \/ turn[t] = "running" /\ FinalizeTxn(t)
        \/ RefundTxn(t)
        \/ UNCHANGED <<quota, slot, payer>>
    BY <1>2 DEF Settle, Finalize, FinalizeLost, Refund, RefundLost, Cancel, Abandon
  <2>2. {t} \in SUBSET Turns
    OBVIOUS
  <2>3. QED
    BY <2>1, <2>2, FinalizeCharges, RefundReleases DEF Ledger!LedgerNext
<1>3. ASSUME NEW a \in Accounts, GrantBonus(a)
                 \/ (\E r \in Requests, n \in GrantSizes : GrantTurns(a, r, n))
      PROVE  Ledger!LedgerNext \/ UNCHANGED <<quota, slot, payer>>
  BY <1>3, GrantRaises DEF Ledger!LedgerNext
<1>4. ASSUME NEW S \in SUBSET Turns, NEW R \in SUBSET Accounts, NEW D \in SUBSET S, Purge(S, D, R)
      PROVE  Ledger!LedgerNext
  BY <1>4, PurgeRetires DEF Ledger!LedgerNext
<1>5. ASSUME NEW d \in Anon
      PROVE  (\A u \in Users : ~StartLink(d, u) /\ ~CommitLink(d, u)) /\ ~AbortLink(d)
  BY NothingLinks DEF MapInv, LedgerInv
<1>6. CASE UNCHANGED vars
  BY <1>6, QuietSteps DEF vars
<1>7. ASSUME NEW t \in Turns, NEW a \in Accounts, Refuse(t, a)
      PROVE  UNCHANGED <<quota, slot, payer>>
  BY <1>7 DEF Refuse
<1>8. QED
  BY <1>1, <1>2, <1>3, <1>4, <1>5, <1>6, <1>7, QuietSteps DEF Next

\* Where no device is linked, the rows, reservations and settlements of the store
\* are an implementation of the abstract ledger: a turn is held once within the
\* limit, settled once, and a limit moves only with a bonus, a grant or retention.
THEOREM TheLedgerIsImplemented ==
  ASSUME Linkable = {}
  PROVE  Spec => ImplementsLedger
<1>1. Init => MapInv /\ Ledger!LedgerInit
  BY MapInvHoldsAtFirst, LedgerIsNew
<1>2. MapInv /\ [Next]_vars => MapInv' /\ [Ledger!LedgerNext]_(Ledger!ledgerVars)
  BY MapInvIsInductive, StepsAreLedgerSteps
<1>3. QED
  BY <1>1, <1>2, PTL DEF Spec, ImplementsLedger, Ledger!LedgerSpec
-------------------------------------------------------------------------------
(***************************************************************************)
(* Sums over finite sets.  SumFunctionOnSet is a recursive function on     *)
(* the subsets of its set; the order of adding does not matter.            *)
(***************************************************************************)

\* h is summed over every subset of S by g.
Sums(g, h, S) ==
    g = [s \in SUBSET S |->
            IF s = {} THEN 0 ELSE h[CHOOSE x \in s : TRUE] + g[s \ {CHOOSE x \in s : TRUE}]]

\* Induction over the natural numbers, for a set of them.
LEMMA SetInduction ==
  ASSUME NEW T, 0 \in T, \A n \in Nat : n \in T => n + 1 \in T
  PROVE  Nat \subseteq T
<1> SUFFICES ASSUME Nat \ T # {} PROVE FALSE
  OBVIOUS
<1>1. PICK m \in Nat \ T : \A y \in Nat \ T : <<y, m>> \notin OpToRel(<, Nat)
  <2>1. IsWellFoundedOn(OpToRel(<, Nat), Nat)
    BY NatLessThanWellFounded
  <2>2. QED
    BY <2>1, WFMin
<1>2. m # 0 /\ m - 1 \in Nat
  OBVIOUS
<1>3. \A y \in Nat \ T : ~(y < m)
  BY <1>1 DEF OpToRel
<1>4. m - 1 \in T
  BY <1>2, <1>3
<1>5. QED
  BY <1>2, <1>4

LEMMA SumsExist ==
  ASSUME NEW S, IsFiniteSet(S), NEW h
  PROVE  \E g : Sums(g, h, S)
<1> DEFINE c(s) == CHOOSE x \in s : TRUE
           Upto(n) == {s \in SUBSET S : Cardinality(s) <= n}
           SumsUpto(g, n) ==
              g = [s \in Upto(n) |-> IF s = {} THEN 0 ELSE h[c(s)] + g[s \ {c(s)}]]
           T == {n \in Nat : \E g : SumsUpto(g, n)}
<1>1. \A s \in SUBSET S : IsFiniteSet(s) /\ Cardinality(s) \in Nat
  BY FS_Subset, FS_CardinalityType
<1>2. ASSUME NEW s \in SUBSET S, s # {}
      PROVE  /\ c(s) \in s /\ s \ {c(s)} \in SUBSET S
             /\ Cardinality(s \ {c(s)}) = Cardinality(s) - 1
  <2>1. c(s) \in s
    BY <1>2
  <2> HIDE DEF c
  <2>2. QED
    BY <1>1, <2>1, FS_RemoveElement
<1> HIDE DEF c
<1>3. 0 \in T
  <2> DEFINE g == [s \in Upto(0) |-> 0]
  <2>1. \A s \in Upto(0) : s = {}
    BY <1>1, FS_EmptySet
  <2>2. SumsUpto(g, 0)
    BY <2>1
  <2>3. QED
    BY <2>2
<1>4. ASSUME NEW n \in Nat, n \in T
      PROVE  n + 1 \in T
  <2>1. PICK g : SumsUpto(g, n)
    BY <1>4
  <2> DEFINE f == [s \in Upto(n + 1) |-> IF s = {} THEN 0 ELSE h[c(s)] + g[s \ {c(s)}]]
  <2>2. Upto(n) \subseteq Upto(n + 1)
    BY <1>1
  <2>3. ASSUME NEW s \in Upto(n + 1), s # {}
        PROVE  f[s \ {c(s)}] = g[s \ {c(s)}]
    <3>1. s \ {c(s)} \in Upto(n)
      BY <1>1, <1>2, <2>3
    <3>2. s \ {c(s)} \in Upto(n + 1)
      BY <2>2, <3>1
    <3>3. PICK r : r = s \ {c(s)}
      OBVIOUS
    <3>4. r \in Upto(n) /\ r \in Upto(n + 1)
      BY <3>1, <3>2, <3>3
    <3> HIDE DEF Upto
    <3>5. f[r] = IF r = {} THEN 0 ELSE h[c(r)] + g[r \ {c(r)}]
      BY <3>4
    <3>6. g[r] = IF r = {} THEN 0 ELSE h[c(r)] + g[r \ {c(r)}]
      BY <2>1, <3>4
    <3>7. QED
      BY <3>3, <3>5, <3>6
  <2>4. f = [s \in Upto(n + 1) |-> IF s = {} THEN 0 ELSE h[c(s)] + f[s \ {c(s)}]]
    <3> HIDE DEF Upto
    <3>1. \A s \in Upto(n + 1) : f[s] = IF s = {} THEN 0 ELSE h[c(s)] + f[s \ {c(s)}]
      BY <2>3
    <3>2. QED
      BY <3>1
  <2>5. \E e : SumsUpto(e, n + 1)
    <3> HIDE DEF f
    <3>1. SumsUpto(f, n + 1)
      BY <2>4
    <3>2. QED
      BY <3>1
  <2>6. n + 1 \in Nat
    OBVIOUS
  <2> HIDE DEF SumsUpto
  <2>7. QED
    BY <2>5, <2>6, Zenon
<1>5. Cardinality(S) \in T
  <2> HIDE DEF T
  <2>1. Nat \subseteq T
    BY <1>3, <1>4, SetInduction
  <2>2. QED
    BY <1>1, <2>1
<1>6. PICK g : SumsUpto(g, Cardinality(S))
  BY <1>5
<1>7. Upto(Cardinality(S)) = SUBSET S
  BY FS_Subset
<1>8. g = [s \in SUBSET S |-> IF s = {} THEN 0 ELSE h[c(s)] + g[s \ {c(s)}]]
  BY <1>6, <1>7
<1>9. QED
  BY <1>8 DEF Sums, c

\* What is summed over a set is determined by the values in it.
LEMMA SumsAgree ==
  ASSUME NEW S, IsFiniteSet(S), NEW h, NEW g, Sums(g, h, S),
         NEW V, NEW e, NEW f, Sums(f, e, V),
         NEW W, W \subseteq S, W \subseteq V, \A x \in W : h[x] = e[x]
  PROVE  g[W] = f[W]
<1> DEFINE c(s) == CHOOSE x \in s : TRUE
           T == {n \in Nat : \A s \in SUBSET W : Cardinality(s) = n => g[s] = f[s]}
<1>1. \A s \in SUBSET W : IsFiniteSet(s) /\ Cardinality(s) \in Nat
  BY FS_Subset, FS_CardinalityType
<1>2. ASSUME NEW s \in SUBSET W
      PROVE  /\ g[s] = IF s = {} THEN 0 ELSE h[c(s)] + g[s \ {c(s)}]
             /\ f[s] = IF s = {} THEN 0 ELSE e[c(s)] + f[s \ {c(s)}]
  BY DEF Sums
<1>3. ASSUME NEW s \in SUBSET W, s # {}
      PROVE  /\ c(s) \in s /\ s \ {c(s)} \in SUBSET W
             /\ Cardinality(s \ {c(s)}) = Cardinality(s) - 1
  <2>1. c(s) \in s
    BY <1>3
  <2> HIDE DEF c
  <2>2. QED
    BY <1>1, <2>1, FS_RemoveElement
<1> HIDE DEF c
<1>4. 0 \in T
  BY <1>1, <1>2, FS_EmptySet
<1>5. ASSUME NEW n \in Nat, n \in T
      PROVE  n + 1 \in T
  <2> SUFFICES ASSUME NEW s \in SUBSET W, Cardinality(s) = n + 1
               PROVE  g[s] = f[s]
    OBVIOUS
  <2>1. s # {}
    BY FS_EmptySet
  <2>2. g[s \ {c(s)}] = f[s \ {c(s)}]
    <3>1. s \ {c(s)} \in SUBSET W /\ Cardinality(s \ {c(s)}) = n
      BY <1>3, <2>1
    <3>2. QED
      BY <1>5, <3>1
  <2>3. h[c(s)] = e[c(s)]
    BY <1>3, <2>1
  <2>4. QED
    BY <1>2, <2>1, <2>2, <2>3
<1>6. Cardinality(W) \in T
  <2> HIDE DEF T
  <2>1. Nat \subseteq T
    BY <1>4, <1>5, SetInduction
  <2>2. QED
    BY <1>1, <2>1
<1>7. QED
  BY <1>6

LEMMA TotalIsSummed ==
  ASSUME NEW S, IsFiniteSet(S), NEW h
  PROVE  \E g : Sums(g, h, S) /\ SumFunctionOnSet(h, S) = g[S]
<1> DEFINE iter[s \in SUBSET S] ==
              IF s = {} THEN 0 ELSE h[CHOOSE x \in s : TRUE] + iter[s \ {CHOOSE x \in s : TRUE}]
<1>1. Sums(iter, h, S)
  <2>1. PICK g : Sums(g, h, S)
    BY SumsExist
  <2>2. g = [s \in SUBSET S |->
            IF s = {} THEN 0 ELSE h[CHOOSE x \in s : TRUE] + g[s \ {CHOOSE x \in s : TRUE}]]
    BY <2>1 DEF Sums
  <2>3. iter = [s \in SUBSET S |->
            IF s = {} THEN 0 ELSE h[CHOOSE x \in s : TRUE] + iter[s \ {CHOOSE x \in s : TRUE}]]
    BY <2>2, Zenon
  <2>4. QED
    BY <2>3 DEF Sums
<1>2. SumFunctionOnSet(h, S) = iter[S]
  BY DEF SumFunctionOnSet, FoldFunctionOnSet, MapThenFoldSet
<1>3. QED
  BY <1>1, <1>2

\* A set of subsets that holds the empty one, and with each one those that have
\* one element more, holds all of them.
LEMMA SubsetInduction ==
  ASSUME NEW S, IsFiniteSet(S), NEW T, {} \in T,
         \A W \in SUBSET S : \A x \in S \ W : W \in T => W \cup {x} \in T
  PROVE  S \in T
<1> DEFINE U == {n \in Nat : \A W \in SUBSET S : Cardinality(W) = n => W \in T}
<1>1. \A W \in SUBSET S : IsFiniteSet(W) /\ Cardinality(W) \in Nat
  BY FS_Subset, FS_CardinalityType
<1>2. \A W \in SUBSET S : \A x \in W :
         W \ {x} \in SUBSET S /\ Cardinality(W \ {x}) = Cardinality(W) - 1
  BY <1>1, FS_RemoveElement
<1>3. 0 \in U
  BY <1>1, FS_EmptySet
<1>4. ASSUME NEW n \in Nat, n \in U
      PROVE  n + 1 \in U
  <2> SUFFICES ASSUME NEW W \in SUBSET S, Cardinality(W) = n + 1
               PROVE  W \in T
    OBVIOUS
  <2>1. PICK x \in W : TRUE
    BY <1>1, FS_EmptySet
  <2>2. W \ {x} \in SUBSET S /\ Cardinality(W \ {x}) = n
    BY <1>2
  <2>3. W \ {x} \in T
    BY <1>4, <2>2
  <2>4. (W \ {x}) \cup {x} = W /\ x \in S \ (W \ {x})
    BY <2>1
  <2>5. QED
    BY <2>2, <2>3, <2>4
<1>5. Cardinality(S) \in U
  <2> HIDE DEF U
  <2>1. Nat \subseteq U
    BY <1>3, <1>4, SetInduction
  <2>2. QED
    BY <1>1, <2>1
<1>6. QED
  BY <1>5

\* Sums of numbers are numbers.
LEMMA SumsAreNumbers ==
  ASSUME NEW S, IsFiniteSet(S), NEW h, \A x \in S : h[x] \in Nat, NEW g, Sums(g, h, S)
  PROVE  \A s \in SUBSET S : g[s] \in Nat
<1> DEFINE c(s) == CHOOSE x \in s : TRUE
           T == {n \in Nat : \A s \in SUBSET S : Cardinality(s) = n => g[s] \in Nat}
<1>1. \A s \in SUBSET S : IsFiniteSet(s) /\ Cardinality(s) \in Nat
  BY FS_Subset, FS_CardinalityType
<1>2. ASSUME NEW s \in SUBSET S
      PROVE  g[s] = IF s = {} THEN 0 ELSE h[c(s)] + g[s \ {c(s)}]
  BY DEF Sums
<1>3. \A s \in SUBSET S : s # {} => c(s) \in s
  OBVIOUS
<1>4. \A s \in SUBSET S : \A x \in s :
         s \ {x} \in SUBSET S /\ Cardinality(s \ {x}) = Cardinality(s) - 1
  BY <1>1, FS_RemoveElement
<1> HIDE DEF c
<1>5. 0 \in T
  BY <1>1, <1>2, FS_EmptySet
<1>6. ASSUME NEW n \in Nat, n \in T
      PROVE  n + 1 \in T
  <2> SUFFICES ASSUME NEW s \in SUBSET S, Cardinality(s) = n + 1
               PROVE  g[s] \in Nat
    OBVIOUS
  <2>1. PICK y \in s : y = c(s)
    BY <1>1, <1>3, FS_EmptySet
  <2>2. g[s] = h[y] + g[s \ {y}]
    BY <1>2, <2>1
  <2>3. s \ {y} \in SUBSET S /\ Cardinality(s \ {y}) = n
    BY <1>4
  <2>4. g[s \ {y}] \in Nat
    BY <1>6, <2>3
  <2>5. QED
    BY <2>2, <2>4
<1>7. ASSUME NEW s \in SUBSET S
      PROVE  g[s] \in Nat
  <2> HIDE DEF T
  <2>1. Nat \subseteq T
    BY <1>5, <1>6, SetInduction
  <2>2. Cardinality(s) \in T
    BY <1>1, <2>1
  <2>3. QED
    BY <2>2 DEF T
<1>8. QED
  BY <1>7

\* Any element may be added last.
LEMMA SumsSplit ==
  ASSUME NEW S, IsFiniteSet(S), NEW h, \A x \in S : h[x] \in Nat, NEW g, Sums(g, h, S)
  PROVE  \A s \in SUBSET S : \A x \in s : g[s] = h[x] + g[s \ {x}]
<1> DEFINE c(s) == CHOOSE x \in s : TRUE
           Split(s) == \A x \in s : g[s] = h[x] + g[s \ {x}]
           T == {n \in Nat : \A s \in SUBSET S : Cardinality(s) = n => Split(s)}
<1>1. \A s \in SUBSET S : IsFiniteSet(s) /\ Cardinality(s) \in Nat
  BY FS_Subset, FS_CardinalityType
<1>2. ASSUME NEW s \in SUBSET S
      PROVE  g[s] = IF s = {} THEN 0 ELSE h[c(s)] + g[s \ {c(s)}]
  BY DEF Sums
<1>3. \A s \in SUBSET S : s # {} => c(s) \in s
  OBVIOUS
<1>4. \A s \in SUBSET S : \A x \in s :
         s \ {x} \in SUBSET S /\ Cardinality(s \ {x}) = Cardinality(s) - 1
  BY <1>1, FS_RemoveElement
<1> HIDE DEF c
<1>5. 0 \in T
  <2>1. ASSUME NEW s \in SUBSET S, Cardinality(s) = 0
        PROVE  s = {}
    BY <1>1, <2>1, FS_EmptySet
  <2>2. Split({})
    BY <1>2
  <2> HIDE DEF Split
  <2>3. QED
    BY <2>1, <2>2
<1>6. ASSUME NEW n \in Nat, n \in T
      PROVE  n + 1 \in T
  <2> SUFFICES ASSUME NEW s \in SUBSET S, Cardinality(s) = n + 1
               PROVE  Split(s)
    OBVIOUS
  <2>1. \A x \in s : Split(s \ {x})
    <3> HIDE DEF Split
    <3>1. \A x \in s : s \ {x} \in SUBSET S /\ Cardinality(s \ {x}) = n
      BY <1>4
    <3>2. QED
      BY <1>6, <3>1
  <2>2. PICK y \in s : y = c(s)
    BY <1>1, <1>3, FS_EmptySet
  <2>3. g[s] = h[y] + g[s \ {y}]
    BY <1>2, <2>2
  <2>4. ASSUME NEW x \in s, x # y
        PROVE  g[s] = h[x] + g[s \ {x}]
    <3>1. g[s \ {y}] = h[x] + g[(s \ {y}) \ {x}]
      BY <2>1, <2>4
    <3>2. g[s \ {x}] = h[y] + g[(s \ {x}) \ {y}]
      BY <2>1, <2>4
    <3>3. (s \ {y}) \ {x} = (s \ {x}) \ {y}
      OBVIOUS
    <3>4. PICK z \in SUBSET S : z = (s \ {x}) \ {y}
      OBVIOUS
    <3>5. g[z] \in Nat
      BY SumsAreNumbers
    <3>6. g[s] = h[y] + (h[x] + g[z])
      BY <2>3, <3>1, <3>3, <3>4
    <3>7. g[s \ {x}] = h[y] + g[z]
      BY <3>2, <3>4
    <3>8. h[x] \in Nat /\ h[y] \in Nat
      OBVIOUS
    <3>9. QED
      BY <3>5, <3>6, <3>7, <3>8
  <2>5. QED
    BY <2>3, <2>4
<1>7. ASSUME NEW s \in SUBSET S
      PROVE  Split(s)
  <2> HIDE DEF T
  <2>1. Nat \subseteq T
    BY <1>5, <1>6, SetInduction
  <2>2. Cardinality(s) \in T
    BY <1>1, <2>1
  <2> HIDE DEF Split
  <2>3. QED
    BY <2>2 DEF T
<1>8. QED
  BY <1>7

\* What is summed over no element, over numbers, and over equal values.
LEMMA TotalOfNone == \A h : SumFunctionOnSet(h, {}) = 0
<1> TAKE h
<1>1. PICK g : Sums(g, h, {}) /\ SumFunctionOnSet(h, {}) = g[{}]
  BY TotalIsSummed, FS_EmptySet
<1>2. g[{}] = 0
  BY <1>1 DEF Sums
<1>3. QED
  BY <1>1, <1>2

LEMMA TotalIsNumber ==
  ASSUME NEW S, IsFiniteSet(S), NEW h, \A x \in S : h[x] \in Nat
  PROVE  SumFunctionOnSet(h, S) \in Nat
<1>1. PICK g : Sums(g, h, S) /\ SumFunctionOnSet(h, S) = g[S]
  BY TotalIsSummed
<1>2. QED
  BY <1>1, SumsAreNumbers

LEMMA TotalAgrees ==
  ASSUME NEW S, IsFiniteSet(S), NEW h, NEW e, \A x \in S : h[x] = e[x]
  PROVE  SumFunctionOnSet(h, S) = SumFunctionOnSet(e, S)
<1>1. PICK g : Sums(g, h, S) /\ SumFunctionOnSet(h, S) = g[S]
  BY TotalIsSummed
<1>2. PICK f : Sums(f, e, S) /\ SumFunctionOnSet(e, S) = f[S]
  BY TotalIsSummed
<1>3. QED
  BY <1>1, <1>2, SumsAgree

\* The value of one element may be set apart.
LEMMA TotalSplits ==
  ASSUME NEW S, IsFiniteSet(S), NEW h, \A x \in S : h[x] \in Nat, NEW x \in S
  PROVE  /\ SumFunctionOnSet(h, S) = h[x] + SumFunctionOnSet(h, S \ {x})
         /\ SumFunctionOnSet(h, S \ {x}) \in Nat
<1>1. IsFiniteSet(S \ {x}) /\ S \ {x} \in SUBSET S
  BY FS_RemoveElement
<1>2. PICK g : Sums(g, h, S) /\ SumFunctionOnSet(h, S) = g[S]
  BY TotalIsSummed
<1>3. PICK f : Sums(f, h, S \ {x}) /\ SumFunctionOnSet(h, S \ {x}) = f[S \ {x}]
  BY <1>1, TotalIsSummed
<1>4. g[S \ {x}] = f[S \ {x}]
  BY <1>1, <1>2, <1>3, SumsAgree
<1>5. g[S] = h[x] + g[S \ {x}]
  BY <1>2, SumsSplit
<1>6. SumFunctionOnSet(h, S \ {x}) \in Nat
  BY <1>1, TotalIsNumber
<1>7. QED
  BY <1>2, <1>3, <1>4, <1>5, <1>6

\* What one element gives to another stays in the total.
LEMMA TotalStaysWhenMoved ==
  ASSUME NEW S, IsFiniteSet(S), NEW h, \A x \in S : h[x] \in Nat,
         NEW e, NEW x \in S, NEW y \in S, x # y,
         e[x] = 0, e[y] = h[y] + h[x], \A z \in S \ {x, y} : e[z] = h[z]
  PROVE  SumFunctionOnSet(e, S) = SumFunctionOnSet(h, S)
<1>1. IsFiniteSet(S \ {x}) /\ y \in S \ {x}
  BY FS_RemoveElement
<1>2. IsFiniteSet((S \ {x}) \ {y})
  BY <1>1, FS_RemoveElement
<1>3. \A z \in S : e[z] \in Nat
  OBVIOUS
<1>4. /\ SumFunctionOnSet(h, S) = h[x] + SumFunctionOnSet(h, S \ {x})
      /\ SumFunctionOnSet(e, S) = e[x] + SumFunctionOnSet(e, S \ {x})
  BY <1>3, TotalSplits
<1>5. /\ SumFunctionOnSet(h, S \ {x}) = h[y] + SumFunctionOnSet(h, (S \ {x}) \ {y})
      /\ SumFunctionOnSet(e, S \ {x}) = e[y] + SumFunctionOnSet(e, (S \ {x}) \ {y})
      /\ SumFunctionOnSet(h, (S \ {x}) \ {y}) \in Nat
  BY <1>1, <1>3, TotalSplits
<1>6. SumFunctionOnSet(h, (S \ {x}) \ {y}) = SumFunctionOnSet(e, (S \ {x}) \ {y})
  BY <1>2, TotalAgrees
<1>7. h[x] \in Nat /\ h[y] \in Nat
  OBVIOUS
<1>8. QED
  BY <1>4, <1>5, <1>6, <1>7


-------------------------------------------------------------------------------
(***************************************************************************)
(* Admin grants.  What an account holds or spent of them moves only with a *)
(* grant: the other steps that leave its limit leave its bonus too.        *)
(***************************************************************************)

\* What the account has got of granted turns, spent or not.
GrantHeld(a) == quota[a].granted + GrantedSpent(a)

GrantInv ==
    /\ MapInv
    /\ IsFiniteSet({r \in Requests : audit[r].account # Nobody})
    /\ \A a \in Accounts : GrantHeld(a) <= GrantsApplied(a)

\* Only finitely many grants were applied, so they can be summed.
LEMMA AppliedIsFinite ==
  ASSUME GrantInv, NEW a \in Accounts
  PROVE  /\ IsFiniteSet(AppliedTo(a))
         /\ GrantsApplied(a) \in Nat
         /\ \A r \in Requests : [x \in Requests |-> audit[x].count][r] \in Nat
<1>1. AppliedTo(a) \in SUBSET {r \in Requests : audit[r].account # Nobody}
  BY NobodyIsNotInAccounts DEF AppliedTo
<1>2. IsFiniteSet(AppliedTo(a))
  BY <1>1, FS_Subset DEF GrantInv
<1>3. \A r \in Requests : [x \in Requests |-> audit[x].count][r] \in Nat
  BY DEF GrantInv, MapInv, LedgerInv, TypeOK
<1>4. AppliedTo(a) \subseteq Requests
  BY DEF AppliedTo
<1> DEFINE h == [x \in Requests |-> audit[x].count]
<1>5. \A r \in AppliedTo(a) : h[r] \in Nat
  BY <1>3, <1>4
<1> HIDE DEF h
<1>6. SumFunctionOnSet(h, AppliedTo(a)) \in Nat
  BY <1>2, <1>5, TotalIsNumber
<1>7. QED
  BY <1>2, <1>3, <1>6 DEF GrantsApplied, h

\* A step that leaves limit and bonus leaves what is held of grants.
LEMMA GrantHeldStays ==
  ASSUME MapInv, TypeOK', NEW a \in Accounts,
         LimitOf(a)' = LimitOf(a), quota'[a].bonus = quota[a].bonus
  PROVE  GrantHeld(a)' = GrantHeld(a)
<1>1. quota'[a].granted \in Nat
  BY DEF TypeOK, Row
<1>2. GrantedSpent(a)' \in Nat
  BY TurnSetsAreFinite DEF GrantedSpent, GrantedIn, CountedFor
<1>3. /\ LimitOf(a)' = CapOf(a) + quota'[a].bonus + quota'[a].granted + GrantedSpent(a)'
      /\ LimitOf(a) = CapOf(a) + quota[a].bonus + quota[a].granted + GrantedSpent(a)
  BY DEF LimitOf, CapOf
<1>4. /\ CapOf(a) \in Nat /\ quota[a].bonus \in Nat
      /\ quota[a].granted \in Nat /\ GrantedSpent(a) \in Nat
  BY LimitsAreNumbers
<1>5. quota'[a].granted + GrantedSpent(a)' = quota[a].granted + GrantedSpent(a)
  <2>1. PICK g \in Nat : g = quota'[a].granted
    BY <1>1
  <2>2. PICK k \in Nat : k = GrantedSpent(a)'
    BY <1>2
  <2>3. CapOf(a) + quota[a].bonus + g + k
          = CapOf(a) + quota[a].bonus + quota[a].granted + GrantedSpent(a)
    BY <1>3, <2>1, <2>2
  <2>4. g + k = quota[a].granted + GrantedSpent(a)
    BY <1>4, <2>3
  <2>5. QED
    BY <2>1, <2>2, <2>4
<1>6. QED
  BY <1>5 DEF GrantHeld

\* A grant is recorded under a request that had none, with the turns it carries.
LEMMA GrantIsApplied ==
  ASSUME GrantInv, NEW a \in Accounts, NEW r \in Requests, NEW n \in GrantSizes,
         audit[r].account = Nobody,
         audit' = [audit EXCEPT ![r] = [account |-> a, count |-> n]]
  PROVE  /\ GrantsApplied(a)' = GrantsApplied(a) + n
         /\ \A b \in Accounts \ {a} : GrantsApplied(b)' = GrantsApplied(b)
         /\ IsFiniteSet({x \in Requests : audit[x].account # Nobody})'
<1> DEFINE h == [x \in Requests |-> audit[x].count]
           e == [x \in Requests |-> audit'[x].count]
<1>1. /\ audit \in [Requests -> [account : Accounts \cup {Nobody}, count : Nat]]
      /\ a # Nobody
  BY NobodyIsNotInAccounts DEF GrantInv, MapInv, LedgerInv, TypeOK
<1>2. /\ e[r] = n /\ \A x \in Requests \ {r} : e[x] = h[x] /\ audit'[x] = audit[x]
      /\ audit'[r].account = a
  BY <1>1
<1>3. \A x \in Requests : e[x] \in Nat
  BY <1>1, GrantsArePositive
<1>4. /\ AppliedTo(a)' = AppliedTo(a) \cup {r} /\ r \notin AppliedTo(a)
      /\ \A b \in Accounts \ {a} : AppliedTo(b)' = AppliedTo(b) /\ r \notin AppliedTo(b)
  BY <1>1, <1>2, NobodyIsNotInAccounts DEF AppliedTo
<1>5. \A b \in Accounts : IsFiniteSet(AppliedTo(b)) /\ AppliedTo(b) \subseteq Requests
  BY AppliedIsFinite DEF AppliedTo
<1>6. \A b \in Accounts : GrantsApplied(b) = SumFunctionOnSet(h, AppliedTo(b))
                          /\ GrantsApplied(b)' = SumFunctionOnSet(e, AppliedTo(b)')
  BY DEF GrantsApplied
<1>7. PICK f : f = h
  OBVIOUS
<1>8. PICK g : g = e
  OBVIOUS
<1>9. /\ g[r] = n /\ \A x \in Requests : g[x] \in Nat
      /\ \A x \in Requests \ {r} : g[x] = f[x]
      /\ \A b \in Accounts : GrantsApplied(b) = SumFunctionOnSet(f, AppliedTo(b))
                             /\ GrantsApplied(b)' = SumFunctionOnSet(g, AppliedTo(b)')
  <2> HIDE DEF h, e
  <2>1. QED
    BY <1>2, <1>3, <1>6, <1>7, <1>8
<1> HIDE DEF h, e
<1>10. ASSUME NEW b \in Accounts
       PROVE  SumFunctionOnSet(g, AppliedTo(b)) = SumFunctionOnSet(f, AppliedTo(b))
  <2>1. \A x \in AppliedTo(b) : g[x] = f[x]
    BY <1>4, <1>5, <1>9
  <2>2. QED
    BY <1>5, <2>1, TotalAgrees
<1>11. GrantsApplied(a)' = GrantsApplied(a) + n
  <2> DEFINE A == AppliedTo(a) \cup {r}
  <2>1. IsFiniteSet(A) /\ A \ {r} = AppliedTo(a) /\ r \in A
    BY <1>4, <1>5, FS_AddElement
  <2>2. \A x \in A : g[x] \in Nat
    BY <1>5, <1>9
  <2>3. SumFunctionOnSet(g, A) = g[r] + SumFunctionOnSet(g, AppliedTo(a))
    <3> HIDE DEF A
    <3>1. SumFunctionOnSet(g, A) = g[r] + SumFunctionOnSet(g, A \ {r})
      BY <2>1, <2>2, TotalSplits
    <3>2. QED
      BY <2>1, <3>1
  <2>4. GrantsApplied(a) \in Nat /\ n \in Nat
    BY AppliedIsFinite, GrantsArePositive
  <2>5. GrantsApplied(a)' = SumFunctionOnSet(g, A)
    BY <1>4, <1>9
  <2> HIDE DEF A
  <2>6. QED
    BY <1>9, <1>10, <2>3, <2>4, <2>5
<1>12. \A b \in Accounts \ {a} : GrantsApplied(b)' = GrantsApplied(b)
  BY <1>4, <1>9, <1>10
<1>13. {x \in Requests : audit[x].account # Nobody}'
         = {x \in Requests : audit[x].account # Nobody} \cup {r}
  BY <1>1, <1>2
<1>14. QED
  BY <1>11, <1>12, <1>13, FS_AddElement DEF GrantInv

\* What is held of grants stays when a turn is taken, settled or given back.
LEMMA LedgerStepsKeepGrants ==
  ASSUME GrantInv, TypeOK', UNCHANGED audit,
         \A a \in Accounts : \/ GrantHeld(a)' = GrantHeld(a)
                             \/ GrantHeld(a)' = 0
  PROVE  \A a \in Accounts : GrantHeld(a)' <= GrantsApplied(a)'
<1> SUFFICES ASSUME NEW a \in Accounts
             PROVE  GrantHeld(a)' <= GrantsApplied(a)'
  OBVIOUS
<1>1. GrantsApplied(a)' = GrantsApplied(a)
  BY DEF GrantsApplied, AppliedTo
<1>2. GrantsApplied(a) \in Nat /\ GrantHeld(a) <= GrantsApplied(a)
  BY AppliedIsFinite DEF GrantInv
<1>3. QED
  BY <1>1, <1>2

\* Every step keeps it; only a grant raises either side.
LEMMA GrantInvIsInductive ==
  ASSUME Linkable = {}, GrantInv, [Next]_vars
  PROVE  GrantInv'
<1>1. MapInv' /\ TypeOK' /\ TypeOK /\ MapInv
  BY MapInvIsInductive DEF GrantInv, MapInv, LedgerInv
<1>2. quota \in [Accounts -> Row]
  BY <1>1 DEF TypeOK
<1>3. ASSUME UNCHANGED audit,
             \A a \in Accounts : GrantHeld(a)' = GrantHeld(a) \/ GrantHeld(a)' = 0
      PROVE  GrantInv'
  <2>1. \A a \in Accounts : GrantHeld(a)' <= GrantsApplied(a)'
    BY <1>1, <1>3, LedgerStepsKeepGrants
  <2>2. QED
    BY <1>1, <1>3, <2>1 DEF GrantInv
<1>4. ASSUME UNCHANGED <<quota, slot, payer, audit>>
      PROVE  GrantInv'
  BY <1>3, <1>4 DEF GrantHeld, GrantedSpent, GrantedIn, CountedFor
<1>5. ASSUME NEW t \in Turns, NEW a \in Accounts, Reserve(t, a)
      PROVE  GrantInv'
  <2>1. ASSUME NEW b \in Accounts
        PROVE  GrantHeld(b)' = GrantHeld(b)
    <3>1. Ledger!Hold(t, a)
      BY <1>1, <1>5, ReserveHolds
    <3>2. LimitOf(b)' = LimitOf(b)
      BY <3>1 DEF Ledger!Hold
    <3>3. quota'[b].bonus = quota[b].bonus
      BY <1>2, <1>5 DEF Reserve, Consumed, Row
    <3>4. QED
      BY <1>1, <3>2, <3>3, GrantHeldStays
  <2>2. QED
    BY <1>3, <1>5, <2>1 DEF Reserve
<1>6. ASSUME NEW t \in Turns, Settle(t)
      PROVE  GrantInv'
  <2>1. UNCHANGED audit
    BY <1>6 DEF Settle, Finalize, FinalizeLost, Refund, RefundLost, Cancel, Abandon
  <2>2. \/ turn[t] = "running" /\ FinalizeTxn(t)
        \/ RefundTxn(t)
        \/ UNCHANGED <<quota, slot, payer>>
    BY <1>6 DEF Settle, Finalize, FinalizeLost, Refund, RefundLost, Cancel, Abandon
  <2>3. ASSUME Ledger!Charge(t) \/ Ledger!Release({t}), NEW b \in Accounts,
               quota'[b].bonus = quota[b].bonus
        PROVE  GrantHeld(b)' = GrantHeld(b)
    <3>1. LimitOf(b)' = LimitOf(b)
      BY <2>3 DEF Ledger!Charge, Ledger!Release
    <3>2. QED
      BY <1>1, <2>3, <3>1, GrantHeldStays
  <2>4. ASSUME RefundTxn(t) \/ FinalizeTxn(t), NEW b \in Accounts
        PROVE  quota'[b].bonus = quota[b].bonus
    <3>1. \A row \in Row : \A n, g : Restored(row, n, g).bonus = row.bonus
      BY DEF Restored, Row
    <3>2. CASE quota' = quota
      BY <3>2
    <3>3. ASSUME NEW a, NEW g, quota' = [quota EXCEPT ![a] = Restored(@, 1, g)]
          PROVE  quota'[b].bonus = quota[b].bonus
      BY <1>2, <3>1, <3>3
    <3>4. QED
      BY <2>4, <3>2, <3>3 DEF RefundTxn, FinalizeTxn
  <2>5. CASE turn[t] = "running" /\ FinalizeTxn(t)
    <3>1. Ledger!Charge(t)
      BY <1>1, <2>5, FinalizeCharges
    <3>2. QED
      BY <1>3, <2>1, <2>3, <2>4, <2>5, <3>1
  <2>6. CASE RefundTxn(t)
    <3>1. Ledger!Release({t}) \/ UNCHANGED <<quota, slot, payer>>
      BY <1>1, <2>6, RefundReleases
    <3>2. QED
      BY <1>3, <1>4, <2>1, <2>3, <2>4, <2>6, <3>1
  <2>7. QED
    BY <1>4, <2>1, <2>2, <2>5, <2>6
<1>7. ASSUME NEW S \in SUBSET Turns, NEW R \in SUBSET Accounts, NEW D \in SUBSET S, Purge(S, D, R)
      PROVE  GrantInv'
  <2>1. ASSUME NEW b \in Accounts
        PROVE  GrantHeld(b)' = GrantHeld(b) \/ GrantHeld(b)' = 0
    <3>1. Ledger!Retire(S, R)
      BY <1>1, <1>7, PurgeRetires
    <3>2. LimitOf(b)' = IF b \in R THEN CapOf(b) ELSE LimitOf(b)
      BY <3>1 DEF Ledger!Retire
    <3>3. CASE b \in R
      <4>1. quota'[b].bonus = 0 /\ quota'[b].granted = 0
        BY <1>7, <3>3 DEF Purge, NoRow
      <4>2. LimitOf(b)' = CapOf(b) + quota'[b].bonus + quota'[b].granted + GrantedSpent(b)'
        BY DEF LimitOf, CapOf
      <4>3. CapOf(b) \in Nat /\ GrantedSpent(b)' \in Nat
        BY CapIsNatural, TurnSetsAreFinite DEF GrantedSpent, GrantedIn, CountedFor
      <4>4. GrantedSpent(b)' = 0
        BY <3>2, <3>3, <4>1, <4>2, <4>3
      <4>5. QED
        BY <4>1, <4>4 DEF GrantHeld
    <3>4. CASE b \notin R
      <4>1. quota'[b].bonus = quota[b].bonus
        BY <1>2, <1>7, <3>4 DEF Purge, Restored, Row
      <4>2. QED
        BY <1>1, <3>2, <3>4, <4>1, GrantHeldStays
    <3>5. QED
      BY <3>3, <3>4
  <2>2. QED
    BY <1>3, <1>7, <2>1 DEF Purge
<1>8. ASSUME UNCHANGED <<slot, payer>>, NEW b \in Accounts
      PROVE  /\ GrantHeld(b)' = quota'[b].granted + GrantedSpent(b)
             /\ GrantHeld(b) = quota[b].granted + GrantedSpent(b)
             /\ quota[b].granted \in Nat /\ GrantedSpent(b) \in Nat
  BY <1>1, <1>8, LimitsAreNumbers DEF GrantHeld, GrantedSpent, GrantedIn, CountedFor
<1>9. ASSUME NEW a \in Accounts, GrantBonus(a)
      PROVE  GrantInv'
  <2>1. \A b \in Accounts : quota'[b].granted = quota[b].granted
    BY <1>2, <1>9 DEF GrantBonus, WithBonus, Row
  <2>2. \A b \in Accounts : GrantHeld(b)' = GrantHeld(b)
    BY <1>8, <1>9, <2>1 DEF GrantBonus
  <2>3. QED
    BY <1>3, <1>9, <2>2 DEF GrantBonus
<1>10. ASSUME NEW a \in Accounts, NEW r \in Requests, NEW n \in GrantSizes, GrantTurns(a, r, n)
       PROVE  GrantInv'
  <2>1. CASE audit[r].account # Nobody
    BY <1>4, <1>10, <2>1 DEF GrantTurns
  <2>2. CASE audit[r].account = Nobody
    <3>1. /\ audit' = [audit EXCEPT ![r] = [account |-> a, count |-> n]]
          /\ quota' = [quota EXCEPT ![a] = WithGrant(@, n)]
          /\ UNCHANGED <<slot, payer>>
      BY <1>10, <2>2 DEF GrantTurns
    <3>2. /\ GrantsApplied(a)' = GrantsApplied(a) + n
          /\ \A b \in Accounts \ {a} : GrantsApplied(b)' = GrantsApplied(b)
          /\ IsFiniteSet({x \in Requests : audit[x].account # Nobody})'
      BY <2>2, <3>1, GrantIsApplied
    <3>3. /\ quota'[a].granted = quota[a].granted + n
          /\ \A b \in Accounts \ {a} : quota'[b].granted = quota[b].granted
          /\ n \in Nat
      BY <1>2, <3>1, GrantsArePositive DEF WithGrant, Row
    <3>4. ASSUME NEW b \in Accounts
          PROVE  GrantHeld(b)' <= GrantsApplied(b)'
      <4>1. GrantHeld(b) <= GrantsApplied(b) /\ GrantsApplied(b) \in Nat
        BY AppliedIsFinite DEF GrantInv
      <4>2. PICK k \in Nat, m \in Nat : k = quota[b].granted /\ m = GrantedSpent(b)
        BY <1>8, <3>1
      <4>3. GrantHeld(b) = k + m
        BY <1>8, <3>1, <4>2
      <4>4. CASE b = a
        <5>1. GrantHeld(b)' = (k + n) + m
          BY <1>8, <3>1, <3>3, <4>2, <4>4
        <5>2. QED
          BY <3>2, <3>3, <4>1, <4>3, <4>4, <5>1
      <4>5. CASE b # a
        <5>1. GrantHeld(b)' = k + m
          BY <1>8, <3>1, <3>3, <4>2, <4>5
        <5>2. QED
          BY <3>2, <4>1, <4>3, <4>5, <5>1
      <4>6. QED
        BY <4>4, <4>5
    <3>5. QED
      BY <1>1, <3>2, <3>4 DEF GrantInv
  <2>3. QED
    BY <2>1, <2>2
<1>11. ASSUME NEW d \in Anon
       PROVE  (\A u \in Users : ~StartLink(d, u) /\ ~CommitLink(d, u)) /\ ~AbortLink(d)
  BY <1>1, NothingLinks DEF MapInv, LedgerInv
<1>12. ASSUME NEW t \in Turns, NEW a \in Accounts, Refuse(t, a)
       PROVE  GrantInv'
  BY <1>4, <1>12 DEF Refuse
<1>13. CASE UNCHANGED vars
  BY <1>4, <1>13 DEF vars
<1>14. QED
  BY <1>5, <1>6, <1>7, <1>9, <1>10, <1>11, <1>12, <1>13 DEF Next

LEMMA NothingIsGrantedAtFirst == Init => GrantInv
<1> SUFFICES ASSUME Init PROVE GrantInv
  OBVIOUS
<1>1. MapInv
  BY MapInvHoldsAtFirst
<1>2. {r \in Requests : audit[r].account # Nobody} = {}
  BY DEF Init
<1>3. ASSUME NEW a \in Accounts
      PROVE  GrantHeld(a) <= GrantsApplied(a)
  <2>1. AppliedTo(a) = {} /\ GrantedIn(CountedFor(a)) = {}
    BY NobodyIsNotInAccounts DEF Init, AppliedTo, GrantedIn, CountedFor
  <2>2. GrantsApplied(a) = 0
    BY <2>1, TotalOfNone DEF GrantsApplied
  <2>3. GrantedSpent(a) = 0 /\ quota[a].granted = 0
    BY <2>1, FS_EmptySet DEF GrantedSpent, Init, NoRow
  <2>4. QED
    BY <2>2, <2>3 DEF GrantHeld
<1>4. QED
  BY <1>1, <1>2, <1>3, FS_EmptySet DEF GrantInv

\* An account never holds and spends more granted turns than the requests that
\* were recorded for it carried, in whatever order turns were taken, given back
\* and purged and grants were repeated.
THEOREM GrantsAreSpentOnce ==
  ASSUME Linkable = {}
  PROVE  Spec => []GrantsAreNotMultiplied
<1>1. Init => GrantInv
  BY NothingIsGrantedAtFirst
<1>2. GrantInv /\ [Next]_vars => GrantInv'
  BY GrantInvIsInductive
<1>3. GrantInv => GrantsAreNotMultiplied
  BY DEF GrantInv, MapInv, LedgerInv, GrantHeld, GrantsAreNotMultiplied
<1>4. QED
  BY <1>1, <1>2, <1>3, PTL DEF Spec

-------------------------------------------------------------------------------
(***************************************************************************)
(* Linking.  The rows of the device are merged into those of the user,     *)
(* project by project, and what one row gives the other receives.          *)
(***************************************************************************)

\* So the usage of all accounts can be summed.
LEMMA AccountsAreFinite == IsFiniteSet(Accounts)
BY KeysAreFinite, FS_Product DEF Accounts, Keys

\* Moving what x has to u in every project leaves the total.
LEMMA TotalStaysWhenMerged ==
  ASSUME NEW h \in [Accounts -> Nat], NEW e, NEW d \in Keys, NEW u \in Keys, d # u,
         \A p \in Projects : /\ e[<<d, p>>] = 0
                             /\ e[<<u, p>>] = h[<<u, p>>] + h[<<d, p>>],
         \A a \in Accounts : a[1] \notin {d, u} => e[a] = h[a]
  PROVE  SumFunctionOnSet(e, Accounts) = SumFunctionOnSet(h, Accounts)
<1> DEFINE mix(Q) == [a \in Accounts |-> IF a[2] \in Q THEN e[a] ELSE h[a]]
           T == {Q \in SUBSET Projects :
                   SumFunctionOnSet(mix(Q), Accounts) = SumFunctionOnSet(h, Accounts)}
<1>1. ASSUME NEW k \in Keys, NEW p \in Projects
      PROVE  <<k, p>> \in Accounts /\ <<k, p>>[1] = k /\ <<k, p>>[2] = p
  BY DEF Accounts
<1>2. ASSUME NEW a \in Accounts
      PROVE  a[1] \in Keys /\ a[2] \in Projects /\ a = <<a[1], a[2]>>
  BY DEF Accounts
<1>3. \A a \in Accounts : e[a] \in Nat /\ h[a] \in Nat
  <2>1. ASSUME NEW a \in Accounts
        PROVE  e[a] \in Nat
    <3>1. PICK k \in Keys, p \in Projects : a = <<k, p>>
      BY <1>2
    <3>2. h[<<u, p>>] \in Nat /\ h[<<d, p>>] \in Nat /\ h[<<k, p>>] \in Nat
      BY <1>1
    <3>3. CASE k = d
      <4>1. e[a] = 0
        BY <3>1, <3>3
      <4>2. QED
        BY <4>1
    <3>4. CASE k = u
      BY <3>1, <3>2, <3>4
    <3>5. CASE k \notin {d, u}
      BY <1>1, <3>1, <3>2, <3>5
    <3>6. QED
      BY <3>3, <3>4, <3>5
  <2>2. QED
    BY <2>1
<1>4. {} \in T
  <2>1. \A a \in Accounts : mix({})[a] = h[a]
    OBVIOUS
  <2> HIDE DEF mix
  <2>2. QED
    BY <2>1, AccountsAreFinite, TotalAgrees
<1>5. ASSUME NEW Q \in SUBSET Projects, NEW p \in Projects \ Q, Q \in T
      PROVE  Q \cup {p} \in T
  <2>1. PICK f : f = mix(Q)
    OBVIOUS
  <2>2. PICK g : g = mix(Q \cup {p})
    OBVIOUS
  <2>3. \A a \in Accounts : f[a] \in Nat
    BY <1>3, <2>1
  <2>4. PICK x \in Accounts : x = <<d, p>>
    BY <1>1
  <2>5. PICK y \in Accounts : y = <<u, p>>
    BY <1>1
  <2>6. x # y
    BY <2>4, <2>5
  <2>7. x[2] = p /\ y[2] = p
    BY <1>1, <2>4, <2>5
  <2>8. /\ g[x] = e[x] /\ g[y] = e[y] /\ f[x] = h[x] /\ f[y] = h[y]
    BY <2>1, <2>2, <2>7
  <2>9. g[x] = 0 /\ g[y] = f[y] + f[x]
    BY <2>4, <2>5, <2>8
  <2>10. ASSUME NEW z \in Accounts \ {x, y}
         PROVE  g[z] = f[z]
    <3>1. CASE z[2] # p
      BY <2>1, <2>2, <3>1
    <3>2. CASE z[2] = p
      <4>1. z[1] \notin {d, u}
        BY <1>2, <2>4, <2>5, <3>2
      <4>2. QED
        BY <2>1, <2>2, <4>1
    <3>3. QED
      BY <3>1, <3>2
  <2>11. SumFunctionOnSet(g, Accounts) = SumFunctionOnSet(f, Accounts)
    BY <2>3, <2>6, <2>9, <2>10, AccountsAreFinite, TotalStaysWhenMoved
  <2> HIDE DEF mix
  <2>12. QED
    BY <1>5, <2>1, <2>2, <2>11
<1>6. Projects \in T
  <2> HIDE DEF T
  <2>1. QED
    BY <1>4, <1>5, KeysAreFinite, SubsetInduction
<1>7. \A a \in Accounts : mix(Projects)[a] = e[a]
  BY <1>2
<1>8. QED
  <2> HIDE DEF mix
  <2>1. QED
    BY <1>6, <1>7, AccountsAreFinite, TotalAgrees

UsageInv ==
    /\ TypeOK
    /\ \A a \in Accounts : ~quota[a].live => quota[a].used = 0

\* A row is counted up when it is there, and dropped with its count.
LEMMA UsageInvIsInductive == UsageInv /\ [Next]_vars => UsageInv'
<1> SUFFICES ASSUME UsageInv, [Next]_vars
             PROVE  UsageInv'
  OBVIOUS
<1>1. TypeOK' /\ quota \in [Accounts -> Row]
  BY NextTypeOK DEF UsageInv, TypeOK
<1> SUFFICES ASSUME NEW b \in Accounts
             PROVE  ~quota'[b].live => quota'[b].used = 0
  BY <1>1 DEF UsageInv
<1>2. /\ ~quota[b].live => quota[b].used = 0
      /\ quota[b].used \in Nat /\ quota[b].live \in BOOLEAN
  BY <1>1 DEF UsageInv, Row
<1>3. ASSUME quota' = quota
      PROVE  ~quota'[b].live => quota'[b].used = 0
  BY <1>2, <1>3
<1>4. ASSUME NEW a \in Accounts, NEW row, quota' = [quota EXCEPT ![a] = row], row.live
      PROVE  ~quota'[b].live => quota'[b].used = 0
  BY <1>1, <1>2, <1>4
<1>5. \A row \in Row : /\ \A c : Consumed(row, c).live
                       /\ \A n : WithGrant(row, n).live
                       /\ WithBonus(row).live
                       /\ \A n, g : /\ Restored(row, n, g).live = row.live
                                    /\ Restored(row, n, g).used = row.used - n
  BY DEF Consumed, WithGrant, WithBonus, Restored, Row
<1>6. ASSUME NEW t \in Turns, NEW a \in Accounts, Reserve(t, a)
      PROVE  ~quota'[b].live => quota'[b].used = 0
  BY <1>1, <1>4, <1>5, <1>6 DEF Reserve
<1>7. ASSUME NEW t \in Turns, RefundTxn(t), quota' # quota
      PROVE  ~quota'[b].live => quota'[b].used = 0
  <2>1. PICK a, g : /\ quota' = [quota EXCEPT ![a] = Restored(@, 1, g)]
                    /\ quota[a].used > 0
    BY <1>7 DEF RefundTxn, Refundable
  <2>2. CASE a # b
    BY <1>1, <1>2, <2>1, <2>2
  <2>3. CASE a = b
    BY <1>1, <1>2, <1>5, <2>1, <2>3
  <2>4. QED
    BY <2>2, <2>3
<1>8. ASSUME NEW t \in Turns, Settle(t)
      PROVE  ~quota'[b].live => quota'[b].used = 0
  BY <1>3, <1>7, <1>8 DEF Settle, Finalize, FinalizeLost, Refund, RefundLost, Cancel,
     Abandon, FinalizeTxn
<1>9. ASSUME NEW a \in Accounts, GrantBonus(a)
      PROVE  ~quota'[b].live => quota'[b].used = 0
  BY <1>1, <1>4, <1>5, <1>9 DEF GrantBonus
<1>10. ASSUME NEW a \in Accounts, NEW r \in Requests, NEW n \in GrantSizes, GrantTurns(a, r, n)
       PROVE  ~quota'[b].live => quota'[b].used = 0
  BY <1>1, <1>3, <1>4, <1>5, <1>10 DEF GrantTurns
<1>11. ASSUME NEW d \in Anon, NEW u \in Users, CommitLink(d, u)
       PROVE  ~quota'[b].live => quota'[b].used = 0
  <2>1. quota'[b] \in {NoRow, quota[b], Merged(quota[b], linking[d].rows[b[2]])}
    BY <1>11 DEF CommitLink
  <2>2. ASSUME NEW row
        PROVE  Merged(quota[b], row) = quota[b] \/ Merged(quota[b], row).live
    BY DEF Merged
  <2>3. ~NoRow.live => NoRow.used = 0
    BY DEF NoRow
  <2>4. QED
    BY <1>2, <2>1, <2>2, <2>3
<1>12. ASSUME NEW S \in SUBSET Turns, NEW R \in SUBSET Accounts, NEW D \in SUBSET S, Purge(S, D, R)
       PROVE  ~quota'[b].live => quota'[b].used = 0
  <2>1. CASE b \in R
    BY <1>12, <2>1 DEF Purge, NoRow
  <2>2. CASE b \notin R
    <3>1. PICK n, g : n = Cardinality(StaleIn(D, b)) /\ quota'[b] = Restored(quota[b], n, g)
      BY <1>12, <2>2 DEF Purge
    <3>2. n \in Nat /\ n <= quota[b].used
      <4>1. StaleIn(D, b) \in SUBSET Turns /\ StaleIn(S, b) \in SUBSET Turns
        BY DEF StaleIn
      <4>2. Cardinality(StaleIn(S, b)) \in Nat
        BY <4>1, TurnSetsAreFinite
      <4>3. n = IF Cardinality(StaleIn(S, b)) <= quota[b].used
                THEN Cardinality(StaleIn(S, b)) ELSE quota[b].used
        BY <1>12, <3>1 DEF Purge
      <4>4. QED
        BY <1>2, <4>2, <4>3
    <3>3. quota'[b].live = quota[b].live /\ quota'[b].used = quota[b].used - n
      BY <1>1, <1>5, <3>1
    <3>4. QED
      BY <1>2, <3>2, <3>3
  <2>3. QED
    BY <2>1, <2>2
<1>13. ASSUME NEW t \in Turns, NEW a \in Accounts, Refuse(t, a)
       PROVE  quota' = quota
  BY <1>13 DEF Refuse
<1>14. ASSUME NEW d \in Anon, AbortLink(d) \/ \E u \in Users : StartLink(d, u)
       PROVE  quota' = quota
  BY <1>14 DEF AbortLink, StartLink
<1>15. CASE UNCHANGED vars
  BY <1>3, <1>15 DEF vars
<1>16. QED
  BY <1>3, <1>6, <1>8, <1>9, <1>10, <1>11, <1>12, <1>13, <1>14, <1>15 DEF Next

\* A commit merges rows that are still what the link has read.
LEMMA CommitMovesUsage ==
  ASSUME UsageInv, NEW d \in Anon, NEW u \in Users, CommitLink(d, u),
         \A p \in Projects : quota[<<d, p>>] = linking[d].rows[p]
  PROVE  AllUsed' = AllUsed
<1> DEFINE h == [a \in Accounts |-> quota[a].used]
           e == [a \in Accounts |-> quota'[a].used]
<1>1. d # u /\ d \in Keys /\ u \in Keys
  BY KeysAreDisjoint DEF Keys
<1>2. quota \in [Accounts -> Row]
  BY DEF UsageInv, TypeOK
<1>3. h \in [Accounts -> Nat]
  BY <1>2 DEF Row
<1>4. ASSUME NEW k \in Keys, NEW p \in Projects
      PROVE  <<k, p>> \in Accounts
  BY DEF Accounts
<1>5. ASSUME NEW p \in Projects
      PROVE  e[<<d, p>>] = 0 /\ e[<<u, p>>] = h[<<u, p>>] + h[<<d, p>>]
  <2>1. quota'[<<d, p>>] = NoRow
    BY <1>1, <1>4 DEF CommitLink
  <2>2. quota'[<<u, p>>] = Merged(quota[<<u, p>>], quota[<<d, p>>])
    BY <1>1, <1>4 DEF CommitLink
  <2>3. PICK x \in Row, y \in Row : x = quota[<<u, p>>] /\ y = quota[<<d, p>>]
    BY <1>1, <1>2, <1>4
  <2>4. ~y.live => y.used = 0
    BY <1>1, <1>4, <2>3 DEF UsageInv
  <2>5. Merged(x, y).used = x.used + y.used
    BY <2>4 DEF Merged, Row
  <2>6. e[<<d, p>>] = 0
    BY <1>1, <1>4, <2>1 DEF NoRow
  <2>7. e[<<u, p>>] = x.used + y.used
    BY <1>1, <1>4, <2>2, <2>3, <2>5
  <2>8. QED
    BY <1>1, <1>4, <2>3, <2>6, <2>7
<1>6. \A a \in Accounts : a[1] \notin {d, u} => e[a] = h[a]
  BY DEF CommitLink
<1>7. PICK f : f = h
  OBVIOUS
<1>8. PICK g : g = e
  OBVIOUS
<1>9. AllUsed = SumFunctionOnSet(f, Accounts) /\ AllUsed' = SumFunctionOnSet(g, Accounts)
  BY <1>7, <1>8 DEF AllUsed, SumFunction
<1>10. SumFunctionOnSet(g, Accounts) = SumFunctionOnSet(f, Accounts)
  <2> HIDE DEF h, e
  <2>1. QED
    BY <1>1, <1>3, <1>5, <1>6, <1>7, <1>8, TotalStaysWhenMerged
<1>11. QED
  BY <1>9, <1>10

\* Linking a device whose rows did not change since they were read creates no
\* usage and loses none, for any devices, users and projects.
THEOREM LinkingMovesUsage == Spec => LinkMovesUsage
<1>1. Init => UsageInv
  <2>1. Init => TypeOK
    BY InitTypeOK
  <2>2. QED
    BY <2>1 DEF Init, UsageInv, NoRow
<1>2. UsageInv /\ [Next]_vars => UsageInv'
  BY UsageInvIsInductive
<1>3. ASSUME UsageInv, [Next]_vars, NEW d \in Anon, link'[d] # link[d],
             \A p \in Projects : quota[<<d, p>>] = linking[d].rows[p]
      PROVE  AllUsed' = AllUsed
  <2>1. link' # link
    BY <1>3
  <2>2. PICK c \in Anon, u \in Users : CommitLink(c, u)
    BY <1>3, <2>1 DEF Next, vars, Reserve, Refuse, Settle, Finalize, FinalizeLost, Refund,
       RefundLost, Cancel, Abandon, GrantBonus, GrantTurns, StartLink, AbortLink, Purge
  <2>3. c = d
    BY <1>3, <2>2 DEF CommitLink, UsageInv, TypeOK
  <2>4. QED
    BY <1>3, <2>2, <2>3, CommitMovesUsage
<1>4. UsageInv /\ [Next]_vars =>
        [\A d \in Anon :
            /\ link'[d] # link[d]
            /\ \A p \in Projects : quota[<<d, p>>] = linking[d].rows[p]
            => AllUsed' = AllUsed]_vars
  BY <1>3
<1>5. QED
  BY <1>1, <1>2, <1>4, PTL DEF Spec, LinkMovesUsage
===============================================================================
