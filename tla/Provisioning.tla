------------------------------ MODULE Provisioning ------------------------------
(***************************************************************************)
(* scripts/provision_sales_user.py: an operator gives a sales row a        *)
(* Firebase account, or replaces the account it has, one run after the     *)
(* other.  A run writes to Identity Toolkit, Firestore and PostgreSQL in   *)
(* turn and takes nothing back: when a call fails it exits with an error,  *)
(* and a call that failed may have been applied.                           *)
(***************************************************************************)
EXTENDS Naturals, FiniteSets

CONSTANTS
    Emails,    \* accounts the operator names in the environment
    SalesRows, \* rows of the table sales
    MaxUid,    \* bound: accounts that are ever created
    MaxRuns    \* bound: runs of the script

ASSUME SomebodyIsNamed == Emails # {} /\ SalesRows # {}

VARIABLES
    account,   \* email -> the uid of its Firebase account, or 0
    granted,   \* uids with the role claim
    documents, \* uids with a sales profile in Firestore
    mapped,    \* sales row -> its firebase_uid, or 0
    database,  \* the Firestore database was created
    created,   \* accounts created so far
    script     \* the run: its configuration and how far it got

cloud == <<account, granted, documents, database, created>>
scriptVars == <<cloud, mapped, script>>

\* old: the account a reprovision replaces     uid: the account of the run
NoScript == [mode |-> "provision", email |-> CHOOSE e \in Emails : TRUE,
             row |-> CHOOSE n \in SalesRows : TRUE, old |-> 0, uid |-> 0,
             step |-> "failed", bare |-> FALSE, runs |-> 0]

InitScript ==
    /\ account = [e \in Emails |-> 0] /\ mapped = [n \in SalesRows |-> 0]
    /\ granted = {} /\ documents = {} /\ created = 0
    /\ database \in BOOLEAN
    /\ script = NoScript

Ends == {"ok", "failed"}

Live(u) == \E e \in Emails : account[e] = u

Moves(step) == script' = [script EXCEPT !.step = step]

\* The order of the calls in run_provision and run_reprovision.
Following(step) ==
    IF script.mode = "provision"
    THEN CASE step = "signup" -> "update" [] step = "update" -> "verify"
           [] step = "verify" -> "map"    [] step = "map" -> "profile"
           [] step = "profile" -> "probe" [] step = "probe" -> "ok"
    ELSE CASE step = "delete" -> "clear"  [] step = "clear" -> "signup"
           [] step = "signup" -> "update" [] step = "update" -> "profile"
           [] step = "profile" -> "map"   [] step = "map" -> "ok"

-------------------------------------------------------------------------------
RunProvision(e, n) ==
    /\ script.step \in Ends /\ script.runs < MaxRuns
    /\ script' = [NoScript EXCEPT !.email = e, !.row = n, !.step = "signup",
                                  !.runs = script.runs + 1]
    /\ UNCHANGED <<cloud, mapped>>

\* The one identity to replace is selected by its uid, which is not looked up,
\* or by an email, which is.
RunReprovision(e, n, u) ==
    /\ script.step \in Ends /\ script.runs < MaxRuns
    /\ script' = [NoScript EXCEPT !.mode = "reprovision", !.email = e, !.row = n, !.old = u,
                                  !.step = "delete", !.runs = script.runs + 1]
    /\ UNCHANGED <<cloud, mapped>>

\* An account or a document that is not there is as good as deleted.
DeleteAccount ==
    /\ script.step = "delete"
    /\ account' = [e \in Emails |-> IF account[e] = script.old THEN 0 ELSE account[e]]
    /\ granted' = granted \ {script.old}
    /\ Moves(Following("delete"))
    /\ UNCHANGED <<documents, database, created, mapped>>

DeleteProfile ==
    /\ script.step = "clear"
    /\ documents' = documents \ {script.old}
    /\ Moves(Following("clear"))
    /\ UNCHANGED <<account, granted, database, created, mapped>>

\* An email that exists keeps its account.
SignUp ==
    /\ script.step = "signup"
    /\ IF account[script.email] # 0
       THEN /\ script' = [script EXCEPT !.uid = account[script.email],
                                        !.step = Following("signup")]
            /\ UNCHANGED <<account, created>>
       ELSE /\ created < MaxUid /\ created' = created + 1
            /\ account' = [account EXCEPT ![script.email] = created']
            /\ script' = [script EXCEPT !.uid = created', !.step = Following("signup")]
    /\ UNCHANGED <<granted, documents, database, mapped>>

\* Claims, password and name of the account.
UpdateAccount ==
    /\ script.step = "update"
    /\ granted' = granted \cup {script.uid}
    /\ Moves(Following("update"))
    /\ UNCHANGED <<account, documents, database, created, mapped>>

\* The role is read from the token of a sign-in, unless there is no web key.
VerifyClaim ==
    /\ script.step = "verify"
    /\ Moves(IF script.uid \in granted THEN Following("verify") ELSE "failed")
    /\ UNCHANGED <<cloud, mapped>>

\* Faulty: the account may be that of another row.
MapAnyway ==
    /\ script.step = "map"
    /\ mapped' = [mapped EXCEPT ![script.row] = script.uid]
    /\ Moves(Following("map"))
    /\ UNCHANGED cloud

\* uq_sales_firebase_uid: no two rows have the account.
MapUid ==
    /\ script.step = "map"
    /\ IF \E n \in SalesRows \ {script.row} : mapped[n] = script.uid
       THEN Moves("failed") /\ UNCHANGED mapped
       ELSE /\ mapped' = [mapped EXCEPT ![script.row] = script.uid]
            /\ Moves(Following("map"))
    /\ UNCHANGED cloud

\* Without a database a provisioning goes on; a reprovisioning ends there, and
\* main reports success.
WriteProfile ==
    /\ script.step = "profile"
    /\ documents' = IF database THEN documents \cup {script.uid} ELSE documents
    /\ script' = [script EXCEPT !.bare = ~database,
                     !.step = IF database \/ script.mode = "provision"
                              THEN Following("profile") ELSE "ok"]
    /\ UNCHANGED <<account, granted, database, created, mapped>>

ProbeDatabases ==
    /\ script.step = "probe"
    /\ Moves(Following("probe"))
    /\ UNCHANGED <<cloud, mapped>>

\* A call fails, or the process is killed.  A call that failed and was applied is
\* the step and a failure after it.
Fail ==
    /\ script.step \notin Ends
    /\ Moves("failed")
    /\ UNCHANGED <<cloud, mapped>>

\* The operator creates the database that was missing.
CreateDatabase ==
    /\ ~database /\ database' = TRUE
    /\ UNCHANGED <<account, granted, documents, created, mapped, script>>

NextScript ==
    \/ \E e \in Emails, n \in SalesRows :
          \/ RunProvision(e, n)
          \/ \E u \in 1..created : RunReprovision(e, n, u)
    \/ DeleteAccount \/ DeleteProfile \/ SignUp \/ UpdateAccount \/ VerifyClaim
    \/ MapUid \/ WriteProfile \/ ProbeDatabases \/ Fail \/ CreateDatabase

SpecScript == InitScript /\ [][NextScript]_scriptVars

-------------------------------------------------------------------------------
\* A run that exits with 0 leaves the row with a live account of the configured
\* email that has the claim, no other row with it, a profile unless there was no
\* database, and nothing of the account it replaced, whatever the runs before it
\* left behind; but a reprovisioning without a database need not have got that far.
ExitZeroIsUsable ==
    script.step = "ok" =>
        /\ account[script.email] = script.uid /\ script.uid \in granted
        /\ script.bare \/ script.uid \in documents
        /\ script.mode = "provision" \/ (~Live(script.old) /\ script.old \notin documents)
        /\ (script.mode = "provision" \/ ~script.bare) =>
              \A n \in SalesRows : mapped[n] = script.uid <=> n = script.row
===============================================================================
