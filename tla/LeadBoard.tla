------------------------------- MODULE LeadBoard -------------------------------
(***************************************************************************)
(* The broker board: a lead is inserted, routed to the broker who waited   *)
(* longest, worked on through /sales and /crm, handed over on no_answer,   *)
(* and expired when every broker was tried; the customer is told once that *)
(* a call started.                                                         *)
(*                                                                         *)
(* A single SQL statement is one action.  A request of a broker reads the  *)
(* lead, writes it and logs in separate statements.  A routing decision    *)
(* locks the row of its lead, not the rows of other leads: it has one      *)
(* action for picking the broker and one for committing.  Rows of the log  *)
(* are told apart by lead, broker and action; created_at of an assign row  *)
(* is the transaction's begin.                                             *)
(***************************************************************************)
EXTENDS Naturals, FiniteSets, SequencesExt

CONSTANTS
    Leads,      \* ids of leads
    Sales,      \* ids of brokers
    Steady,     \* the brokers no admin deactivates
    Rank,       \* the order of brokers by priority, then id
    Preferred,  \* broker of SALES_PREFERRED_FIREBASE_UID, or Nobody
    Requests,   \* requests of brokers and admins
    Asked,      \* what the requests may ask for: board actions, CRM statuses
    Admin,      \* the principal of an admin
    Nobody      \* no broker

ASSUME SteadyAreSales == Steady \subseteq Sales
ASSUME RankOrdersSales == Rank \in [Sales -> Nat] /\ IsInjective(Rank)
ASSUME PreferredIsSales == Preferred \in Sales \cup {Nobody}
ASSUME NobodyIsNoRequest == Nobody \notin Requests
ASSUME AdminIsNoBroker == Admin \notin Sales \cup {Nobody} /\ Nobody \notin Sales

BoardActions == {"called", "no_answer", "callback", "booked", "lost"}
CrmStatuses == {"callback_required", "called", "call_completed", "callback", "booked", "lost"}
Ways == {"board", "patch", "crm"}

ASSUME AskedAreKnown ==
    Asked \subseteq ({"board", "patch"} \X BoardActions) \cup ({"crm"} \X CrmStatuses)
                    \cup {<<"call", "started">>}

VARIABLES
    lead,      \* lead -> its leads row; status "none" before it is inserted
    route,     \* lead -> the brokers of its assign log rows, in order
    log,       \* lead -> its other log rows
    stamp,     \* broker -> time of its latest assign log row, 0 for none
    clock,     \* number of routing transactions begun
    active,    \* the brokers with is_active
    deciding,  \* lead -> the routing transaction that holds its row lock
    req,       \* request -> how far it got
    intake,    \* leads inserted by a /lead request that is not finished
    notice     \* lead -> call-started push: tasks queued, stamp, pushes sent

vars == <<lead, route, log, stamp, clock, active, deciding, req, intake, notice>>

Closed == {"booked", "lost", "expired"}
Statuses == {"none", "new", "assigned"} \cup CrmStatuses \cup Closed

NotDeciding == [open |-> FALSE, by |-> Nobody, next |-> Nobody, time |-> 0]
Idle == [by |-> Nobody, lead |-> Nobody, what |-> Nobody, seen |-> "none", step |-> "idle"]

\* "patch": PATCH read a new lead     "go": handle_lead_action read the lead
\* "crm": the CRM service read it     "log": the row is written, the log is not
Steps == {"idle", "patch", "go", "crm", "log", "done", "refused", "dead"}

\* Rows, log, locks and requests keep their types.
TypeOK ==
    /\ lead \in [Leads -> [status : Statuses, owner : Sales \cup {Nobody}, closed : BOOLEAN]]
    /\ route \in [Leads -> Seq(Sales)]
    /\ log \in [Leads -> SUBSET [sales : Sales \cup {Nobody},
                                 action : {"call", "callback", "no_answer", "booked", "lost",
                                           "expired"}]]
    /\ stamp \in [Sales -> Nat]
    /\ clock \in Nat
    /\ active \in SUBSET Sales
    /\ deciding \in [Leads -> [open : BOOLEAN, by : Requests \cup {Nobody},
                               next : Sales \cup {Nobody}, time : Nat]]
    /\ req \in [Requests -> [by : Sales \cup {Admin, Nobody}, lead : Leads \cup {Nobody},
                             what : Asked \cup {Nobody}, seen : Statuses, step : Steps]]
    /\ intake \in SUBSET Leads
    /\ notice \in [Leads -> [queued : Nat, claimed : BOOLEAN, sent : Nat]]

Init ==
    /\ lead = [l \in Leads |-> [status |-> "none", owner |-> Nobody, closed |-> FALSE]]
    /\ route = [l \in Leads |-> <<>>]
    /\ log = [l \in Leads |-> {}]
    /\ stamp = [s \in Sales |-> 0]
    /\ clock = 0
    /\ active = Sales
    /\ deciding = [l \in Leads |-> NotDeciding]
    /\ req = [r \in Requests |-> Idle]
    /\ intake = {}
    /\ notice = [l \in Leads |-> [queued |-> 0, claimed |-> FALSE, sent |-> 0]]

Exists(l) == lead[l].status # "none"
Locked(l) == deciding[l].open

-------------------------------------------------------------------------------
(***************************************************************************)
(* Routing: assign_lead.                                                   *)
(***************************************************************************)

\* The brokers with no log row for the lead.
Candidates(l) ==
    {s \in active : s \notin Range(route[l]) /\ \A e \in log[l] : e.sales # s}

\* Brokers without an assign row have stamp 0 and come first.
WaitedLonger(s, t) == stamp[s] < stamp[t] \/ (stamp[s] = stamp[t] /\ Rank[s] < Rank[t])

LeastRecent(S) == CHOOSE s \in S : \A t \in S \ {s} : WaitedLonger(s, t)

\* Faulty: only the owner is left out.
PickOther(l) ==
    LET S == active \ {lead[l].owner} IN IF S = {} THEN Nobody ELSE LeastRecent(S)

\* Faulty: the preferred broker is a filter, not a sort key.
PickPreferred(l) ==
    LET S == Candidates(l) IN
    IF Preferred \in S THEN Preferred
    ELSE IF S = {} \/ Preferred \in active THEN Nobody ELSE LeastRecent(S)

Pick(l) ==
    LET S == Candidates(l) IN
    IF Preferred \in S THEN Preferred ELSE IF S = {} THEN Nobody ELSE LeastRecent(S)

\* The row is locked, still open and still owned by whom the caller expects.
Begin(l, r, next) ==
    /\ clock' = clock + 1
    /\ deciding' = [deciding EXCEPT ![l] = [open |-> TRUE, by |-> r, next |-> next,
                                            time |-> clock + 1]]

\* Faulty: the prelude is not written.
PreludeLost(r) == {}

\* The rows the caller wants logged first; here, and in Pick, the excluded
\* broker of a no_answer is the one that logs it.
Prelude(r) == IF r = Nobody THEN {} ELSE {[sales |-> req[r].by, action |-> "no_answer"]}

\* The owner of an expired lead stays in its row.  A transaction that began before
\* another may commit after it: the latest created_at of the log counts.
Routed(l) ==
    LET d == deciding[l] IN
    /\ lead' = [lead EXCEPT ![l].status = IF d.next = Nobody THEN "expired" ELSE "assigned",
                            ![l].owner = IF d.next = Nobody THEN @ ELSE d.next,
                            ![l].closed = @ \/ d.next = Nobody]
    /\ route' = [route EXCEPT ![l] = IF d.next = Nobody THEN @ ELSE Append(@, d.next)]
    /\ log' = [log EXCEPT ![l] =
                  @ \cup Prelude(d.by)
                    \cup (IF d.next = Nobody THEN {[sales |-> Nobody, action |-> "expired"]}
                          ELSE {})]
    /\ stamp' = IF d.next = Nobody THEN stamp ELSE [stamp EXCEPT ![d.next] = IF d.time > @ THEN d.time ELSE @]

Finish(r, step) == IF r = Nobody THEN req ELSE [req EXCEPT ![r].step = step]

Commit(l) ==
    /\ Locked(l)
    /\ Routed(l)
    /\ deciding' = [deciding EXCEPT ![l] = NotDeciding]
    /\ req' = Finish(deciding[l].by, "done")
    /\ intake' = IF deciding[l].by = Nobody THEN intake \ {l} ELSE intake
    /\ UNCHANGED <<clock, active, notice>>

\* The connection is lost or the worker dies: the transaction is rolled back.
Rollback(l) ==
    /\ Locked(l)
    /\ deciding' = [deciding EXCEPT ![l] = NotDeciding]
    /\ req' = Finish(deciding[l].by, "dead")
    /\ intake' = IF deciding[l].by = Nobody THEN intake \ {l} ELSE intake
    /\ UNCHANGED <<lead, route, log, stamp, clock, active, notice>>

-------------------------------------------------------------------------------
(***************************************************************************)
(* POST /lead: create_customer_lead.                                       *)
(***************************************************************************)

Create(l) ==
    /\ lead[l].status = "none"
    /\ lead' = [lead EXCEPT ![l].status = "new"]
    /\ intake' = intake \cup {l}
    /\ UNCHANGED <<route, log, stamp, clock, active, deciding, req, notice>>

\* An admin may have closed the lead already; then nothing is routed.
RouteNew(l) ==
    /\ l \in intake
    /\ ~Locked(l)
    /\ IF lead[l].status \in Closed
       THEN /\ intake' = intake \ {l}
            /\ UNCHANGED <<clock, deciding>>
       ELSE /\ Begin(l, Nobody, Pick(l))
            /\ UNCHANGED intake
    /\ UNCHANGED <<lead, route, log, stamp, active, req, notice>>

\* The worker dies, or the store fails, after the lead was committed.
LoseIntake(l) ==
    /\ l \in intake
    /\ ~Locked(l)
    /\ intake' = intake \ {l}
    /\ UNCHANGED <<lead, route, log, stamp, clock, active, deciding, req, notice>>

-------------------------------------------------------------------------------
(***************************************************************************)
(* /sales: lead_action, patch_lead_status, handle_lead_action.             *)
(***************************************************************************)

Actionable(a) ==
    CASE a = "called" -> {"assigned"}
      [] a \in {"no_answer", "callback"} -> {"assigned", "called"}
      [] OTHER -> {"assigned", "called", "callback"}

\* The unlocked read of handle_lead_action.
Accepts(s, l, a) == lead[l].owner = s /\ lead[l].status \in Actionable(a)

Took(r, p, l, w, step) ==
    req' = [req EXCEPT ![r] = [by |-> p, lead |-> l, what |-> w, seen |-> lead[l].status,
                               step |-> step]]

\* The broker's key or token is checked when the request arrives.
Act(r, s, l, w) ==
    /\ req[r].step = "idle" /\ s \in active /\ Exists(l)
    /\ w[1] = "board" \/ (w[1] = "patch" /\ w[2] \in {"callback", "booked", "lost"})
    /\ Took(r, s, l, w, IF Accepts(s, l, w[2]) THEN "go" ELSE "refused")
    /\ UNCHANGED <<lead, route, log, stamp, clock, active, deciding, intake, notice>>

\* "called" is passed on only for a lead that is still new.
PatchCalled(r, s, l, w) ==
    /\ req[r].step = "idle" /\ s \in active /\ Exists(l)
    /\ w = <<"patch", "called">>
    /\ Took(r, s, l, w, IF lead[l].status = "new" THEN "patch" ELSE "refused")
    /\ UNCHANGED <<lead, route, log, stamp, clock, active, deciding, intake, notice>>

PassOn(r) ==
    /\ req[r].step = "patch"
    /\ Took(r, req[r].by, req[r].lead, req[r].what,
            IF Accepts(req[r].by, req[r].lead, "called") THEN "go" ELSE "refused")
    /\ UNCHANGED <<lead, route, log, stamp, clock, active, deciding, intake, notice>>

\* Faulty: the update has no owner predicate.
OwnedByAnyone(r) == TRUE

\* The owner predicate of update_lead.
Owned(r) == lead[req[r].lead].owner = req[r].by

\* _update_owned_lead; the status read before is not looked at again.
Write(r) ==
    LET l == req[r].lead  a == req[r].what[2] IN
    /\ req[r].step = "go" /\ a # "no_answer" /\ ~Locked(l)
    /\ IF Owned(r)
       THEN /\ lead' = [lead EXCEPT ![l].status = a, ![l].closed = @ \/ a \in {"booked", "lost"}]
            /\ req' = [req EXCEPT ![r].step = "log"]
       ELSE /\ req' = [req EXCEPT ![r].step = "refused"]
            /\ UNCHANGED lead
    /\ UNCHANGED <<route, log, stamp, clock, active, deciding, intake, notice>>

\* The log row, and for "called" the push that is queued with the answer.
WriteLog(r) ==
    LET l == req[r].lead  a == req[r].what[2] IN
    /\ req[r].step = "log"
    /\ log' = [log EXCEPT ![l] =
                  @ \cup {[sales |-> req[r].by, action |-> IF a = "called" THEN "call" ELSE a]}]
    /\ notice' = [notice EXCEPT ![l].queued = IF a = "called" THEN @ + 1 ELSE @]
    /\ req' = [req EXCEPT ![r].step = "done"]
    /\ UNCHANGED <<lead, route, stamp, clock, active, deciding, intake>>

\* no_answer hands the lead over in one routing transaction.
HandOver(r) ==
    LET l == req[r].lead IN
    /\ req[r].step = "go" /\ req[r].what[2] = "no_answer" /\ ~Locked(l)
    /\ IF Owned(r) /\ lead[l].status \notin Closed
       THEN Begin(l, r, Pick(l)) /\ UNCHANGED req
       ELSE /\ req' = [req EXCEPT ![r].step = "refused"]
            /\ UNCHANGED <<clock, deciding>>
    /\ UNCHANGED <<lead, route, log, stamp, active, intake, notice>>

\* The worker dies, or the store fails.
Die(r) ==
    /\ req[r].step \in {"patch", "go", "crm", "log"}
    /\ \A l \in Leads : deciding[l].by # r
    /\ req' = [req EXCEPT ![r].step = "dead"]
    /\ UNCHANGED <<lead, route, log, stamp, clock, active, deciding, intake, notice>>

-------------------------------------------------------------------------------
(***************************************************************************)
(* /crm: update_lead_crm_status_and_mirror.                                *)
(***************************************************************************)

Crm(r, p, l, w) ==
    /\ req[r].step = "idle" /\ p \in active \cup {Admin} /\ Exists(l)
    /\ w[1] = "crm"
    /\ Took(r, p, l, w, IF p \in {Admin, lead[l].owner} THEN "crm" ELSE "refused")
    /\ UNCHANGED <<lead, route, log, stamp, clock, active, deciding, intake, notice>>

\* update_lead_crm_state: any status, closed_at and the log are left alone; the
\* push is queued when the status read before was "assigned".
CrmWrite(r) ==
    LET l == req[r].lead  st == req[r].what[2] IN
    /\ req[r].step = "crm" /\ ~Locked(l)
    /\ IF req[r].by = Admin \/ Owned(r)
       THEN /\ lead' = [lead EXCEPT ![l].status = st]
            /\ notice' = [notice EXCEPT ![l].queued =
                             IF req[r].seen = "assigned" /\ st = "called" THEN @ + 1 ELSE @]
            /\ req' = [req EXCEPT ![r].step = "done"]
       ELSE /\ req' = [req EXCEPT ![r].step = "refused"]
            /\ UNCHANGED <<lead, notice>>
    /\ UNCHANGED <<route, log, stamp, clock, active, deciding, intake>>

-------------------------------------------------------------------------------
(***************************************************************************)
(* The call-started push: call_started, dispatch_call_started_once.        *)
(***************************************************************************)

\* The tel link.  Nothing read before the push is queued is written or kept.
CallStarted(r, p, l, w) ==
    /\ req[r].step = "idle" /\ p \in active \cup {Admin} /\ Exists(l)
    /\ w = <<"call", "started">>
    /\ Took(r, p, l, w, IF p \in {Admin, lead[l].owner} THEN "done" ELSE "refused")
    /\ notice' = [notice EXCEPT ![l].queued = IF p \in {Admin, lead[l].owner} THEN @ + 1 ELSE @]
    /\ UNCHANGED <<lead, route, log, stamp, clock, active, deciding, intake>>

\* Faulty: the stamp is read, and set after the push.
ClaimableAlways(l) == lead[l].status = "called"

\* The compare-and-set of stamp_call_started.
Claimable(l) == lead[l].status = "called" /\ ~notice[l].claimed

\* dispatch_call_started_once: the stamp is claimed, then the push is sent; a
\* claimed stamp is never given back.
Announce(l) ==
    /\ notice[l].queued > 0 /\ ~Locked(l)
    /\ \/ /\ Claimable(l)
          /\ \E sent \in {0, 1} :
                notice' = [notice EXCEPT ![l] = [queued |-> @.queued - 1, claimed |-> TRUE,
                                                 sent |-> @.sent + sent]]
       \/ /\ ~Claimable(l)
          /\ notice' = [notice EXCEPT ![l].queued = @ - 1]
    /\ UNCHANGED <<lead, route, log, stamp, clock, active, deciding, req, intake>>

\* patch_admin_sales; the leads of the broker are left alone.
SetActive(s) ==
    /\ s \in Sales \ Steady
    /\ active' = IF s \in active THEN active \ {s} ELSE active \cup {s}
    /\ UNCHANGED <<lead, route, log, stamp, clock, deciding, req, intake, notice>>

-------------------------------------------------------------------------------
Decide(l) == Create(l) \/ RouteNew(l) \/ LoseIntake(l) \/ Commit(l) \/ Rollback(l) \/ Announce(l)

Arrive(r, p, l, w) == Act(r, p, l, w) \/ PatchCalled(r, p, l, w) \/ Crm(r, p, l, w)
                      \/ CallStarted(r, p, l, w)

Continue(r) == PassOn(r) \/ Write(r) \/ WriteLog(r) \/ HandOver(r) \/ CrmWrite(r) \/ Die(r)

Next ==
    \/ \E l \in Leads : Decide(l)
    \/ \E r \in Requests, p \in Sales \cup {Admin}, l \in Leads, w \in Asked : Arrive(r, p, l, w)
    \/ \E r \in Requests : Continue(r)
    \/ \E s \in Sales : SetActive(s)

Spec == Init /\ [][Next]_vars

-------------------------------------------------------------------------------
(***************************************************************************)
(* Properties.                                                             *)
(***************************************************************************)

\* A lead is routed to no broker twice, however decisions, deactivations and
\* late requests interleave, and its owner is the one it was routed to last.  Rows, log,
\* locks and requests keep their types.
RoutedOnceEach ==
    /\ TypeOK
    /\ \A l \in Leads :
        /\ IsInjective(route[l])
        /\ lead[l].owner = IF route[l] = <<>> THEN Nobody ELSE Last(route[l])

\* A lead expires only after every broker who was active all along was tried.
ExpiredMeansTried ==
    \A l \in Leads : lead[l].status = "expired" => Steady \subseteq Range(route[l])

\* A request of a former owner changes nothing: its write finds no row.
FormerOwnersAreInert ==
    [][\A r \in Requests :
          /\ req[r].step \in {"go", "crm"}
          /\ req'[r].step \in {"log", "done"}
          => req[r].by \in {lead[req[r].lead].owner, Admin}]_vars

\* The customer gets at most one call-started push for a lead.
CallIsAnnouncedOnce == \A l \in Leads : notice[l].sent <= 1

-------------------------------------------------------------------------------
(***************************************************************************)
(* The board implements the custody of a lead.                             *)
(***************************************************************************)

OwnerOf(l) == lead[l].owner

\* Who said that the customer does not answer.
NoAnswers(l) == {e.sales : e \in {x \in log[l] : x.action = "no_answer"}}

RanOut(l) == [sales |-> Nobody, action |-> "expired"] \in log[l]

Custody == INSTANCE LeadCustody WITH
    Brokers   <- Sales,
    holder    <- [l \in Leads |-> OwnerOf(l)],
    gaveUp    <- [l \in Leads |-> NoAnswers(l)],
    exhausted <- {l \in Leads : RanOut(l)}

\* A lead changes hands only with its holder, in one step with the trace of it,
\* to a broker who never held it, whatever statements, rollbacks and requests
\* come between: every step is one of the custody, or none of it.
ImplementsCustody == Custody!CustodySpec
===============================================================================
