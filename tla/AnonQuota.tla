------------------------------- MODULE AnonQuota -------------------------------
(***************************************************************************)
(* The turn quota of POST /query: the rows of anon_quota and               *)
(* quota_reservations, the operations of PostgresQuotaStore on them, and   *)
(* the requests that reserve, finalize or refund one turn each.            *)
(*                                                                         *)
(* Every store operation is one SQL transaction.  All but one take effect  *)
(* under the lock of the row they change, hence in one action; linking     *)
(* reads rows it has not locked and needs two.  What happens between two   *)
(* transactions of a request (a lost reply, a cancelled task, a dead       *)
(* worker) is an action of its own.                                        *)
(* Time is abstracted: a purge may find any settled-or-abandoned           *)
(* reservation old enough, and any row without reservations idle enough.   *)
(***************************************************************************)
EXTENDS Naturals, FiniteSets, FiniteSetsExt

CONSTANTS
    Anon,         \* identity keys of anonymous devices (token subjects)
    Users,        \* firebase accounts; the key of u is "firebase:u"
    Projects,     \* project keys
    Turns,        \* requests, each with the reservation id it would get
    Requests,     \* request ids of admin grants
    GrantSizes,   \* turn counts an admin grant may carry
    AnonCap,      \* anonymous_base_turn_cap
    CustomerCap,  \* DEFAULT_CUSTOMER_BASE_TURN_CAP
    Bonus,        \* anonymous_bonus_turns_after_lead
    Linkable,     \* pairs <<a, u>> for which /link-anon may be called
    Idle,         \* keys that may stay idle for the 90 days of retention
    Nobody        \* no user, no account

ASSUME KeysAreDisjoint == Anon \cap Users = {}
ASSUME NobodyIsNoKey == Nobody \notin Anon \cup Users
ASSUME NobodyIsNoAccount == Nobody \notin (Anon \cup Users) \X Projects
ASSUME TurnsAreFinite == IsFiniteSet(Turns)
ASSUME KeysAreFinite == IsFiniteSet(Anon \cup Users) /\ IsFiniteSet(Projects)
ASSUME CapsAreNaturals == AnonCap \in Nat /\ CustomerCap \in Nat
ASSUME BonusIsPositive == Bonus \in Nat \ {0}
ASSUME GrantsArePositive == GrantSizes \subseteq Nat \ {0}
ASSUME LinkableArePairs == Linkable \subseteq Anon \X Users

VARIABLES
    quota,    \* account -> its anon_quota row
    slot,     \* turn -> its quota_reservations row; a deleted row is not open
    turn,     \* turn -> how far the request got
    link,     \* device -> the user it is linked to (identity_links)
    linking,  \* device -> the link transaction open on it, and the rows it read
    audit,    \* grant request id -> its quota_grant_audit row
    payer     \* history: turn -> the account whose used_turns counts it

vars == <<quota, slot, turn, link, linking, audit, payer>>

Keys == Anon \cup Users
Accounts == Keys \X Projects
Classes == {"base", "bonus", "granted"}

CapOf(a) == IF a[1] \in Anon THEN AnonCap ELSE CustomerCap

\* A row that is not in the table reads as zero in every upsert.
NoRow == [live |-> FALSE, used |-> 0, bonus |-> 0, granted |-> 0, bonusGranted |-> FALSE]
NoSlot == [open |-> FALSE, account |-> Nobody, class |-> "base"]

NotLinking == [user |-> Nobody, rows |-> [p \in Projects |-> NoRow]]

Row == [live : BOOLEAN, used : Nat, bonus : Nat, granted : Nat, bonusGranted : BOOLEAN]
Slot == [open : BOOLEAN, account : Accounts \cup {Nobody}, class : Classes]

\* "running": reserved, the pipeline works or settles
\* "cancelled": the SSE task was cancelled, its teardown still refunds
\* "cut": the same, but the cancelled finalize had committed
\* "answered": finalize was attempted      "failed": the refund transaction ran
\* "kept": the refund raised, was swallowed  "gone": the worker or stream died
Phases == {"new", "refused", "running", "cancelled", "cut", "answered", "failed",
           "kept", "gone"}
InFlight == {"running", "cancelled", "cut"}

\* The columns, phases and link transactions keep their types.
TypeOK ==
    /\ quota \in [Accounts -> Row]
    /\ slot \in [Turns -> Slot]
    /\ turn \in [Turns -> Phases]
    /\ link \in [Anon -> Users \cup {Nobody}]
    /\ linking \in [Anon -> [user : Users \cup {Nobody}, rows : [Projects -> Row]]]
    /\ audit \in [Requests -> [account : Accounts \cup {Nobody}, count : Nat]]
    /\ payer \in [Turns -> Accounts \cup {Nobody}]

Init ==
    /\ quota = [a \in Accounts |-> NoRow]
    /\ slot = [t \in Turns |-> NoSlot]
    /\ turn = [t \in Turns |-> "new"]
    /\ link = [a \in Anon |-> Nobody]
    /\ linking = [a \in Anon |-> NotLinking]
    /\ audit = [r \in Requests |-> [account |-> Nobody, count |-> 0]]
    /\ payer = [t \in Turns |-> Nobody]

-------------------------------------------------------------------------------
(***************************************************************************)
(* Reserving a turn: QueryQuotaGate.prepare_turn -> consume_turn.          *)
(***************************************************************************)

\* Faulty: <= for <.
HasAllowanceAtLimit(a) ==
    /\ CapOf(a) >= 1
    /\ quota[a].used <= CapOf(a) + quota[a].bonus + quota[a].granted

HasAllowance(a) ==
    /\ CapOf(a) >= 1
    /\ quota[a].used < CapOf(a) + quota[a].bonus + quota[a].granted

\* Faulty: never charges the grant.
ConsumedFree(row, cap) == [row EXCEPT !.live = TRUE, !.used = @ + 1]

\* The row after the conditional upsert.
Consumed(row, cap) ==
    [row EXCEPT !.live = TRUE,
                !.used = @ + 1,
                !.granted = IF row.used >= cap + row.bonus THEN @ - 1 ELSE @]

\* Faulty: computed from the counters before the update.
ClassOfOld(row, cap) ==
    IF row.used - 1 <= cap THEN "base"
    ELSE IF row.used - 1 <= cap + row.bonus THEN "bonus" ELSE "granted"

\* The class the RETURNING clause computes from the new counters.
ClassOf(row, cap) ==
    IF row.used <= cap THEN "base"
    ELSE IF row.used <= cap + row.bonus THEN "bonus" ELSE "granted"

Reserve(t, a) ==
    /\ turn[t] = "new"
    /\ HasAllowance(a)
    /\ LET row == Consumed(quota[a], CapOf(a)) IN
        /\ quota' = [quota EXCEPT ![a] = row]
        /\ slot' = [slot EXCEPT ![t] = [open |-> TRUE, account |-> a,
                                        class |-> ClassOf(row, CapOf(a))]]
    /\ turn' = [turn EXCEPT ![t] = "running"]
    /\ payer' = [payer EXCEPT ![t] = a]
    /\ UNCHANGED <<link, linking, audit>>

\* 429 before any pipeline leg runs.
Refuse(t, a) ==
    /\ turn[t] = "new"
    /\ ~HasAllowance(a)
    /\ turn' = [turn EXCEPT ![t] = "refused"]
    /\ UNCHANGED <<quota, slot, link, linking, audit, payer>>

-------------------------------------------------------------------------------
(***************************************************************************)
(* Settling a turn.                                                        *)
(***************************************************************************)

\* finalize_turn_atomically: drop the reservation, leave the counters.
FinalizeTxn(t) ==
    /\ slot' = [slot EXCEPT ![t].open = FALSE]
    /\ UNCHANGED <<quota, payer>>

\* What giving back n turns, g of them granted ones, does to a row.
Restored(row, n, g) == [row EXCEPT !.used = @ - n, !.granted = @ + g]

GrantedIn(S) == {t \in S : slot[t].class = "granted"}

\* Faulty: a reservation that was deleted can be refunded again.
RefundableAgain(t) == slot[t].account # Nobody /\ quota[slot[t].account].used > 0

\* Faulty: the last turn is not given back.
RefundableButLast(t) == slot[t].open /\ quota[slot[t].account].used > 1

\* refund_turn_atomically finds the reservation and a row to decrement.
Refundable(t) == slot[t].open /\ quota[slot[t].account].used > 0

\* Without them the transaction returns None and changes nothing; the
\* reservation of a missing row stays.
RefundTxn(t) ==
    LET a == slot[t].account IN
    IF Refundable(t)
    THEN /\ quota' = [quota EXCEPT ![a] = Restored(@, 1, Cardinality(GrantedIn({t})))]
         /\ slot' = [slot EXCEPT ![t].open = FALSE]
         /\ payer' = [payer EXCEPT ![t] = Nobody]
    ELSE UNCHANGED <<quota, slot, payer>>

\* The answer is complete.
Finalize(t) ==
    /\ turn[t] = "running"
    /\ FinalizeTxn(t)
    /\ turn' = [turn EXCEPT ![t] = "answered"]
    /\ UNCHANGED <<link, linking, audit>>

\* The gate swallows a store failure and keeps the answer.
FinalizeLost(t) ==
    /\ turn[t] = "running"
    /\ turn' = [turn EXCEPT ![t] = "answered"]
    /\ UNCHANGED <<quota, slot, link, linking, audit, payer>>

\* The pipeline raised, or the teardown of a cancelled stream settles.
Refund(t) ==
    /\ turn[t] \in InFlight
    /\ RefundTxn(t)
    /\ turn' = [turn EXCEPT ![t] = IF @ = "cut" THEN "answered" ELSE "failed"]
    /\ UNCHANGED <<link, linking, audit>>

\* The gate swallows a store failure and keeps the reservation.
RefundLost(t) ==
    /\ turn[t] \in InFlight
    /\ turn' = [turn EXCEPT ![t] = "kept"]
    /\ UNCHANGED <<quota, slot, link, linking, audit, payer>>

\* Disconnect or deadline: the task is cancelled while it works, or while it
\* awaits a settlement whose transaction committed or not.  turn_released is
\* still false, so the teardown refunds next.
Cancel(t) ==
    /\ turn[t] = "running"
    /\ \/ /\ turn' = [turn EXCEPT ![t] = "cancelled"]
          /\ UNCHANGED <<quota, slot, payer>> \/ RefundTxn(t)
       \/ /\ turn' = [turn EXCEPT ![t] = "cut"]
          /\ FinalizeTxn(t)
    /\ UNCHANGED <<link, linking, audit>>

\* The worker dies, the reply of consume is lost, or the stream is closed
\* before its generator entered the try block.
Abandon(t) ==
    /\ turn[t] \in InFlight
    /\ turn' = [turn EXCEPT ![t] = "gone"]
    /\ UNCHANGED <<quota, slot, link, linking, audit, payer>>

-------------------------------------------------------------------------------
(***************************************************************************)
(* Bonus, admin grants, linking, retention.                                *)
(***************************************************************************)

WithBonus(row) == [row EXCEPT !.live = TRUE, !.bonus = @ + Bonus, !.bonusGranted = TRUE]

WithGrant(row, n) == [row EXCEPT !.live = TRUE, !.granted = @ + n]

\* grant_post_lead_bonus_turns: the token's subject, once per account row.
GrantBonus(a) ==
    /\ a[1] \in Anon
    /\ ~quota[a].bonusGranted
    /\ quota' = [quota EXCEPT ![a] = WithBonus(@)]
    /\ UNCHANGED <<slot, turn, link, linking, audit, payer>>

\* grant_turns_atomically: the audit row's key is the request id alone.
GrantTurns(a, r, n) ==
    /\ IF audit[r].account = Nobody
       THEN /\ audit' = [audit EXCEPT ![r] = [account |-> a, count |-> n]]
            /\ quota' = [quota EXCEPT ![a] = WithGrant(@, n)]
       ELSE UNCHANGED <<audit, quota>>
    /\ UNCHANGED <<slot, turn, link, linking, payer>>

Larger(m, n) == IF m >= n THEN m ELSE n

\* Faulty: both bonuses are added up.
MergedBothBonuses(account, device) ==
    [live |-> account.live \/ device.live,
     used |-> account.used + device.used,
     bonus |-> account.bonus + device.bonus,
     granted |-> account.granted + device.granted,
     bonusGranted |-> account.bonusGranted \/ device.bonusGranted]

\* Faulty: the usage of one of the rows is forgotten.
MergedLargerUse(account, device) ==
    [live |-> account.live \/ device.live,
     used |-> Larger(account.used, device.used),
     bonus |-> Larger(account.bonus, device.bonus),
     granted |-> account.granted + device.granted,
     bonusGranted |-> account.bonusGranted \/ device.bonusGranted]

\* The account row after the device row is merged into it.
Merged(account, device) ==
    IF ~device.live THEN account
    ELSE [live |-> TRUE,
          used |-> account.used + device.used,
          bonus |-> Larger(account.bonus, device.bonus),
          granted |-> account.granted + device.granted,
          bonusGranted |-> account.bonusGranted \/ device.bonusGranted]

\* INSERT ... ON CONFLICT DO NOTHING inserted the link.
Unlinked(d, u) == link[d] = Nobody

\* link_identity_atomically for a device that is not linked yet; for a linked
\* one it only compares the user and changes nothing.  The transaction holds
\* the new link and the user's rows, but not the device's rows it merges: turns
\* of the device may be taken or given back before it deletes them.
StartLink(d, u) ==
    /\ <<d, u>> \in Linkable
    /\ Unlinked(d, u)
    /\ linking[d] = NotLinking
    /\ linking' = [linking EXCEPT ![d] = [user |-> u,
                                        rows |-> [p \in Projects |-> quota[<<d, p>>]]]]
    /\ UNCHANGED <<quota, slot, turn, link, audit, payer>>

\* Reservations keep the device's key.
CommitLink(d, u) ==
    /\ linking[d].user = u
    /\ link' = [link EXCEPT ![d] = u]
    /\ linking' = [linking EXCEPT ![d] = NotLinking]
    /\ quota' = [a \in Accounts |->
                    IF a[1] = d THEN NoRow
                    ELSE IF a[1] = u THEN Merged(quota[a], linking[d].rows[a[2]])
                    ELSE quota[a]]
    /\ payer' = [t \in Turns |->
                    IF \E p \in Projects : payer[t] = <<d, p>>
                    THEN <<u, payer[t][2]>> ELSE payer[t]]
    /\ UNCHANGED <<slot, turn, audit>>

\* The connection is lost: the transaction is rolled back.
AbortLink(d) ==
    /\ linking[d] # NotLinking
    /\ linking' = [linking EXCEPT ![d] = NotLinking]
    /\ UNCHANGED <<quota, slot, turn, link, audit, payer>>

Over == {"answered", "failed", "kept", "gone"}

StaleIn(S, a) == {t \in S : slot[t].account = a}

\* purge_stale_records: refund the old reservations S in no particular order,
\* drop them all, then drop the idle rows R that have none left.  A row at
\* zero is not decremented, so only those in D count; a decremented row is
\* not idle.
Purge(S, D, R) ==
    /\ S # {} \/ R # {}
    /\ \A t \in S : slot[t].open /\ turn[t] \in Over
    /\ D \subseteq S
    /\ \A a \in Accounts :
          LET n == Cardinality(StaleIn(S, a)) IN
          Cardinality(StaleIn(D, a)) = IF n <= quota[a].used THEN n ELSE quota[a].used
    /\ \A a \in R : a[1] \in Idle /\ quota[a].live /\ StaleIn(D, a) = {}
    /\ \A a \in R : ~\E t \in Turns \ S : slot[t].open /\ slot[t].account = a
    /\ slot' = [t \in Turns |-> IF t \in S THEN [slot[t] EXCEPT !.open = FALSE] ELSE slot[t]]
    /\ quota' = [a \in Accounts |->
                    IF a \in R THEN NoRow
                    ELSE Restored(quota[a], Cardinality(StaleIn(D, a)),
                                  Cardinality(GrantedIn(StaleIn(D, a))))]
    /\ payer' = [t \in Turns |->
                    IF payer[t] \in R \/ t \in D
                    THEN Nobody ELSE payer[t]]
    /\ UNCHANGED <<turn, link, linking, audit>>

-------------------------------------------------------------------------------
Settle(t) ==
    \/ Finalize(t)
    \/ FinalizeLost(t)
    \/ Refund(t)
    \/ RefundLost(t)
    \/ Cancel(t)
    \/ Abandon(t)

Next ==
    \/ \E t \in Turns, a \in Accounts : Reserve(t, a) \/ Refuse(t, a)
    \/ \E t \in Turns : Settle(t)
    \/ \E a \in Accounts : GrantBonus(a)
    \/ \E a \in Accounts, r \in Requests, n \in GrantSizes : GrantTurns(a, r, n)
    \/ \E d \in Anon, u \in Users : StartLink(d, u) \/ CommitLink(d, u)
    \/ \E d \in Anon : AbortLink(d)
    \/ \E S \in SUBSET Turns, R \in SUBSET Accounts : \E D \in SUBSET S : Purge(S, D, R)

Spec == Init /\ [][Next]_vars

-------------------------------------------------------------------------------
(***************************************************************************)
(* Properties.                                                             *)
(***************************************************************************)

CountedFor(a) == {t \in Turns : payer[t] = a}

\* The counter of an account is exactly the number of turns it holds or was
\* charged for, whatever was lost, cancelled, refunded twice or purged.
\* (Where no device is linked: see LinkMovesUsage.)
UsedCountsTurns ==
    \A a \in Accounts : quota[a].used = Cardinality(CountedFor(a))

\* What the request knows and what the reservation row says go together.
PhaseMatches(t) ==
    /\ turn[t] \in {"new", "refused"} => ~slot[t].open /\ payer[t] = Nobody
    /\ turn[t] = "running" => slot[t].open
    /\ turn[t] = "cancelled" => slot[t].open \/ payer[t] = Nobody
    /\ turn[t] \in {"cut", "failed"} => ~slot[t].open
    /\ slot[t].open => payer[t] = slot[t].account /\ payer[t] # Nobody

\* A running turn has its reservation and is counted by the account it
\* reserved from; a cancelled one still has it or was given back.  So a late
\* or repeated refund never touches another turn.
PhasesMatchReservations == \A t \in Turns : PhaseMatches(t)

GrantedSpent(a) == Cardinality(GrantedIn(CountedFor(a)))

\* The grants applied to an account, and the turns they carried.
AppliedTo(a) == {r \in Requests : audit[r].account = a}
GrantsApplied(a) == SumFunctionOnSet([r \in Requests |-> audit[r].count], AppliedTo(a))

\* An account never holds or spends more granted turns than the admin grants
\* applied to it, retried or not: a refund gives back only what its own
\* reservation took.  Rows, reservations and histories keep their types.
GrantsAreNotMultiplied ==
    /\ TypeOK
    /\ \A a \in Accounts : quota[a].granted + GrantedSpent(a) <= GrantsApplied(a)

\* With neither bonus nor grant the counter never passes the cap, with them it
\* passes it by the bonus and the granted turns spent: parallel submissions at
\* the boundary cannot overshoot.
NoOverspending ==
    \A a \in Accounts :
        quota[a].used <= CapOf(a) + quota[a].bonus + GrantedSpent(a)

\* The bonus of an account row is added once, also when two rows that both
\* had it are merged.
BonusIsOneTime ==
    \A a \in Accounts :
        quota[a].bonus = IF quota[a].bonusGranted THEN Bonus ELSE 0

AllUsed == SumFunction([a \in Accounts |-> quota[a].used])

\* Linking a device whose rows did not change since they were read moves their
\* usage to the user: none is created and none is lost, whatever the user's
\* rows went through meanwhile.
LinkMovesUsage ==
    [][\A d \in Anon :
          /\ link'[d] # link[d]
          /\ \A p \in Projects : quota[<<d, p>>] = linking[d].rows[p]
          => AllUsed' = AllUsed]_vars

\* A failed pipeline gives its turn back.
FailedTurnIsGivenBack ==
    \A t \in Turns : turn[t] = "failed" => payer[t] = Nobody

-------------------------------------------------------------------------------
(***************************************************************************)
(* Where no device is linked, this module implements the abstract ledger.  *)
(***************************************************************************)

StatusOf(t) ==
    IF slot[t].account = Nobody THEN "new"
    ELSE IF slot[t].open THEN "held"
    ELSE IF payer[t] # Nobody THEN "charged" ELSE "released"

LimitOf(a) == CapOf(a) + quota[a].bonus + quota[a].granted + GrantedSpent(a)

Ledger == INSTANCE TurnLedger WITH
    BaseLimit <- [a \in Accounts |-> CapOf(a)],
    Raises    <- GrantSizes \cup {Bonus},
    status    <- [t \in Turns |-> StatusOf(t)],
    account   <- [t \in Turns |-> slot[t].account],
    limit     <- [a \in Accounts |-> LimitOf(a)]

\* Every operation of the store is one step of the ledger, or none of it.
ImplementsLedger == Ledger!LedgerSpec
===============================================================================
