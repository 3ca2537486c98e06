------------------------------ MODULE TurnLedger ------------------------------
(***************************************************************************)
(* What the quota ledger promises, without rows, reservations or SQL.      *)
(*                                                                         *)
(* A turn is held before the pipeline runs and settled once: charged for   *)
(* good, or released.  The turns an account holds or was charged for never *)
(* exceed the limit the account had when the last of them was taken.       *)
(* AnonQuota is shown to implement this module.                            *)
(***************************************************************************)
EXTENDS Naturals, FiniteSets

CONSTANTS
    Accounts,   \* (identity_key, project_key) pairs
    Turns,      \* one request each, identified by its reservation id
    Nobody,     \* the account of a turn that was not taken yet
    BaseLimit,  \* account -> its configured cap
    Raises      \* the sizes of a bonus or of an admin grant

VARIABLES
    status,     \* turn -> "new", "held", "charged" or "released"
    account,    \* turn -> the account it was taken from
    limit       \* account -> the turns it may hold or be charged for

ledgerVars == <<status, account, limit>>

\* The turns that count against account a.
Counted(a) ==
    {t \in Turns : account[t] = a /\ status[t] \in {"held", "charged"}}

HeldBy(a) == {t \in Counted(a) : status[t] = "held"}

LedgerInit ==
    /\ status = [t \in Turns |-> "new"]
    /\ account = [t \in Turns |-> Nobody]
    /\ limit = BaseLimit

Hold(t, a) ==
    /\ status[t] = "new"
    /\ Cardinality(Counted(a)) < limit[a]
    /\ status' = [status EXCEPT ![t] = "held"]
    /\ account' = [account EXCEPT ![t] = a]
    /\ UNCHANGED limit

Charge(t) ==
    /\ status[t] = "held"
    /\ status' = [status EXCEPT ![t] = "charged"]
    /\ UNCHANGED <<account, limit>>

\* A clean-up may release several abandoned turns in one transaction.
Release(S) ==
    /\ S # {}
    /\ \A t \in S : status[t] = "held"
    /\ status' = [t \in Turns |-> IF t \in S THEN "released" ELSE status[t]]
    /\ UNCHANGED <<account, limit>>

Raise(a, n) ==
    /\ n > 0
    /\ limit' = [limit EXCEPT ![a] = @ + n]
    /\ UNCHANGED <<status, account>>

\* Retention: the history of accounts with nothing in flight is dropped.
\* The same transaction first releases the abandoned turns S.
Retire(S, A) ==
    /\ \A t \in S : status[t] = "held"
    /\ \A a \in A : HeldBy(a) \subseteq S
    /\ status' = [t \in Turns |->
                    IF t \in S \/ \E a \in A : t \in Counted(a)
                    THEN "released" ELSE status[t]]
    /\ limit' = [a \in Accounts |-> IF a \in A THEN BaseLimit[a] ELSE limit[a]]
    /\ UNCHANGED account

LedgerNext ==
    \/ \E t \in Turns, a \in Accounts : Hold(t, a)
    \/ \E t \in Turns : Charge(t)
    \/ \E S \in SUBSET Turns : Release(S)
    \/ \E a \in Accounts, n \in Raises : Raise(a, n)
    \/ \E S \in SUBSET Turns, A \in SUBSET Accounts : Retire(S, A)

LedgerSpec == LedgerInit /\ [][LedgerNext]_ledgerVars
===============================================================================
