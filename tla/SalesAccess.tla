------------------------------ MODULE SalesAccess ------------------------------
(***************************************************************************)
(* The access of one broker: the row in PostgreSQL, the role claim of the  *)
(* Firebase user and the sales profile in Firestore, changed together by   *)
(* the admin requests that create, activate and deactivate the broker.     *)
(*                                                                         *)
(* There is no transaction over the three: a request calls provision or    *)
(* revoke of the provisioner, stores the row, and when a call fails tries  *)
(* to undo the others.  Every call is one action; it may fail, and a call  *)
(* that failed may have been applied.  A worker may die between two calls, *)
(* and requests may overlap.  A profile is reduced to is_active.           *)
(***************************************************************************)
EXTENDS Naturals, FiniteSets

CONSTANTS
    Requests,   \* workers that serve admin requests
    MaxFaults   \* bound on the failing calls of one request

ASSUME RequestsAreFinite == IsFiniteSet(Requests)
ASSUME FaultsAreNatural == MaxFaults \in Nat

VARIABLES
    pg,       \* the sales row: "none", or its is_active
    claim,    \* the Firebase user has the role claim "sales"
    profile,  \* the Firestore document: "absent", or its is_active
    req,      \* request -> what it does and how far it got
    trouble   \* history: more went wrong than the undoing can make good

systems == <<pg, claim, profile>>
vars == <<pg, claim, profile, req, trouble>>

Ops == {"create", "activate", "deactivate"}
Calls == {"provision", "revoke"}
Profiles == {"absent", "active", "inactive"}

\* "read": the provisioner reads the profile     "one", "two": its two writes
\* "undo1", "undo2": it takes them back          "store": the row is written
\* "reset": the row is made inactive             "none": nothing had to be done
Running == {"look", "read", "one", "two", "undo1", "undo2", "store", "reset"}
Ended == {"done", "failed", "none", "dead"}

\* call: the function of the provisioner that runs; undoing: it runs to take
\* back what the request did; prev: the profile it read.  History: no other
\* request ran (alone), the broker was not as asked for when it came (useful).
NoRequest == [op |-> "create", step |-> "none", call |-> "provision", undoing |-> FALSE,
              prev |-> "absent", faults |-> 0, alone |-> FALSE, useful |-> FALSE]

\* Row, gates and requests keep their types: no request is in a step the code
\* does not have.
TypeOK ==
    /\ pg \in {"none", "active", "inactive"}
    /\ claim \in BOOLEAN
    /\ profile \in Profiles
    /\ req \in [Requests -> [op : Ops, step : Running \cup Ended, call : Calls,
                             undoing : BOOLEAN, prev : Profiles, faults : 0..MaxFaults,
                             alone : BOOLEAN, useful : BOOLEAN]]
    /\ trouble \in BOOLEAN

Init ==
    /\ pg = "none" /\ claim = FALSE /\ profile = "absent"
    /\ req = [r \in Requests |-> NoRequest]
    /\ trouble = FALSE

Quiet == \A r \in Requests : req[r].step \in Ended

At(r, step) == req[r].step = step

Goes(q, step) == [q EXCEPT !.step = step]

Becomes(r, q) == req' = [req EXCEPT ![r] = q]

\* One more call of the request fails.  The undoing is made for one call that
\* failed and was not applied, in a request that has something to do.
FailsWith(r, q) ==
    /\ req[r].faults < MaxFaults
    /\ Becomes(r, [q EXCEPT !.faults = @ + 1])
    /\ trouble' = (trouble \/ req[r].faults > 0 \/ ~req[r].useful \/ systems' # systems)

-------------------------------------------------------------------------------
(***************************************************************************)
(* create_admin_sales and patch_admin_sales.                               *)
(***************************************************************************)

Start(r, op) ==
    /\ req[r].step \in Ended
    /\ req' = [x \in Requests |->
                  IF x = r THEN [NoRequest EXCEPT
                                    !.op = op, !.step = "look", !.alone = Quiet,
                                    !.useful = (op = "deactivate") <=> (pg = "active")]
                  ELSE [req[x] EXCEPT !.alone = FALSE]]
    /\ trouble' = (trouble \/ ~Quiet)
    /\ UNCHANGED systems

\* The access gates are opened before the row is active and closed before it is
\* inactive.  A broker that is not there is a 404, an active one is not created.
Look(r) ==
    /\ At(r, "look")
    /\ LET q == req[r] IN
       IF IF q.op = "create" THEN pg = "active" ELSE pg = "none"
       THEN Becomes(r, Goes(q, "none"))
       ELSE Becomes(r, [q EXCEPT !.step = "read",
                                 !.call = IF q.op = "deactivate" THEN "revoke" ELSE "provision"])
    /\ UNCHANGED <<systems, trouble>>

\* The request takes its call back with the opposite one.
Undone(q) == [q EXCEPT !.step = "read", !.undoing = TRUE,
                       !.call = IF q.op = "deactivate" THEN "provision" ELSE "revoke"]

\* How a request goes on when the provisioner returned, was refused (a
\* SalesProvisioningError) or broke (any other exception).
After(q, result) ==
    IF q.undoing
    THEN Goes(q, IF q.op = "activate" /\ result # "broken" THEN "reset" ELSE "failed")
    ELSE CASE result = "ok" -> Goes(q, "store")
           [] result = "refused" -> Goes(q, IF q.op = "activate" THEN "reset" ELSE "failed")
           [] OTHER -> IF q.op = "create" THEN Goes(q, "failed") ELSE Undone(q)

\* create_sales_mapping or set_sales_active.  A row that was not stored takes
\* the gates back, except those that were open before a create.
Store(r) ==
    LET q == req[r]
        row == IF q.op = "deactivate" THEN "inactive" ELSE "active" IN
    /\ At(r, "store")
    /\ UNCHANGED <<claim, profile>>
    /\ \/ /\ pg' = row
          /\ Becomes(r, Goes(q, "done"))
          /\ trouble' = (trouble /\ ~q.alone)
       \/ /\ pg' \in {pg, row}
          /\ FailsWith(r, IF q.op = "create" /\ q.prev = "active" THEN Goes(q, "failed")
                          ELSE Undone(q))

\* A failed activation makes the row inactive; that this fails is passed over.
Reset(r) ==
    /\ At(r, "reset")
    /\ UNCHANGED <<claim, profile>>
    /\ \/ pg' = "inactive" /\ Becomes(r, Goes(req[r], "failed")) /\ UNCHANGED trouble
       \/ pg' \in {pg, "inactive"} /\ FailsWith(r, Goes(req[r], "failed"))

Die(r) ==
    /\ req[r].step \in Running
    /\ Becomes(r, Goes(req[r], "dead"))
    /\ trouble' = TRUE
    /\ UNCHANGED systems

-------------------------------------------------------------------------------
(***************************************************************************)
(* provision and revoke of FirebaseSalesProvisioner.                       *)
(***************************************************************************)

\* The token and the profile; an error of the transport is not wrapped.
Read(r) ==
    /\ At(r, "read")
    /\ UNCHANGED systems
    /\ \/ Becomes(r, [req[r] EXCEPT !.step = "one", !.prev = profile]) /\ UNCHANGED trouble
       \/ \E result \in {"refused", "broken"} : FailsWith(r, After(req[r], result))

\* A write to the gates: it leads to q, or fails and leads to f.
Write(r, p, c, q, f) ==
    /\ UNCHANGED pg
    /\ \/ profile' = p /\ claim' = c /\ Becomes(r, q) /\ UNCHANGED trouble
       \/ /\ UNCHANGED <<profile, claim>> \/ (profile' = p /\ claim' = c)
          /\ FailsWith(r, f)

Calling(r, call, step) == At(r, step) /\ req[r].call = call

GrantClaim(r) ==
    /\ Calling(r, "provision", "one")
    /\ Write(r, profile, TRUE, Goes(req[r], "two"), Goes(req[r], "undo1"))

\* Faulty: a failure is reported without taking the claim back.
OpenProfileAlone(r) ==
    /\ Calling(r, "provision", "two")
    /\ Write(r, "active", claim, After(req[r], "ok"), After(req[r], "refused"))

OpenProfile(r) ==
    /\ Calling(r, "provision", "two")
    /\ Write(r, "active", claim, After(req[r], "ok"), Goes(req[r], "undo1"))

CloseProfile(r) ==
    /\ Calling(r, "revoke", "one")
    /\ Write(r, "inactive", claim, Goes(req[r], "two"), Goes(req[r], "undo1"))

\* Faulty: the claim is left to expire.
DropClaimLater(r) ==
    /\ Calling(r, "revoke", "two")
    /\ Write(r, profile, claim, After(req[r], "ok"), Goes(req[r], "undo1"))

DropClaim(r) ==
    /\ Calling(r, "revoke", "two")
    /\ Write(r, profile, FALSE, After(req[r], "ok"), Goes(req[r], "undo1"))

\* A profile that was absent stays, inactive after a provision and active after
\* a revoke.
PutBackProfile(r) ==
    LET q == req[r]
        p == IF q.prev # "absent" THEN q.prev
             ELSE IF q.call = "provision" THEN "inactive" ELSE "active" IN
    /\ At(r, "undo1")
    /\ Write(r, p, claim, Goes(q, "undo2"), After(q, "refused"))

\* A failed revoke gives the claim back whatever it was.
PutBackClaim(r) ==
    LET q == req[r] IN
    /\ At(r, "undo2")
    /\ Write(r, profile, q.call = "revoke" \/ q.prev = "active",
             After(q, "refused"), After(q, "refused"))

-------------------------------------------------------------------------------
Provisioner(r) ==
    \/ Read(r)
    \/ GrantClaim(r) \/ OpenProfile(r)
    \/ CloseProfile(r) \/ DropClaim(r)
    \/ PutBackProfile(r) \/ PutBackClaim(r)

Serve(r) == Look(r) \/ Store(r) \/ Reset(r) \/ Die(r) \/ Provisioner(r)

Next == \E r \in Requests : Serve(r) \/ \E op \in Ops : Start(r, op)

Spec == Init /\ [][Next]_vars

-------------------------------------------------------------------------------
(***************************************************************************)
(* Properties.                                                             *)
(***************************************************************************)

Open == claim /\ profile = "active"
Shut == ~claim /\ profile # "active"

\* A request that ran alone and is answered with 200 left the row and both gates
\* as it was asked to, whatever requests before it failed, overlapped, died or
\* were half undone.
SuccessIsWhole ==
    [][\A r \in Requests :
          At(r, "store") /\ req[r].alone /\ req'[r].step = "done" =>
              IF req[r].op = "deactivate" THEN pg' = "inactive" /\ Shut'
              ELSE pg' = "active" /\ Open']_vars

\* When no request is being served, the broker has all of the access or none,
\* unless since the last successful request requests overlapped, died, or failed
\* in a way the undoing is not made for.
AccessIsWhole == TypeOK /\ (Quiet /\ ~trouble => IF pg = "active" THEN Open ELSE Shut)
===============================================================================
