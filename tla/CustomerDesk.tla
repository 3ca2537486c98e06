------------------------------ MODULE CustomerDesk ------------------------------
(***************************************************************************)
(* What staff do around a customer: runs that queue rejected customers for *)
(* a newly activated project, the withdrawal of marketing consent, the     *)
(* reveal of a phone, the pages of leads and notifications, read marks,    *)
(* and the device tokens of pushes.                                        *)
(*                                                                         *)
(* Each SQL statement and each call of Firestore is one action; a request  *)
(* acts on what it read before.  Leads are numbered in the order of        *)
(* (created_at, id).  The brake on reveals is that of one worker process.  *)
(***************************************************************************)
EXTENDS DeviceTokens

CONSTANTS
    Leads,        \* ids of leads, in the order of their creation
    FirstLeads,   \* the leads there are at the start
    CustomerOf,   \* lead -> customer_id, the HMAC of its phone
    Fits,         \* pairs of a lead and a project whose price band its budget is in
    Sales, Admin, Nobody,
    Projects,     \* projects that are activated
    MaxAttempts,  \* MAX_REENGAGE_ATTEMPTS_PER_CUSTOMER
    QueuePage,    \* documents in one list of the queue, pageSize
    DocRank,      \* the order of the queue's document ids
    PageSize,     \* leads or notifications on one page
    RevealLimit,  \* REVEAL_SUCCESS_BUDGET_PER_MINUTE
    Shifts,       \* the kinds of operations that meet in one behaviour
    MaxMoves      \* bound: operations that start

ASSUME LeadsAreNumbered == Leads \subseteq Nat \ {0} /\ IsFiniteSet(Leads) /\ FirstLeads \subseteq Leads
ASSUME RevealsAreLimited == RevealLimit \in Nat \ {0} /\ IsFiniteSet(Requests)
ASSUME SizesArePositive == PageSize \in Nat \ {0} /\ MaxAttempts \in Nat \ {0}

VARIABLES
    lead,      \* lead -> its row, as far as it matters here
    queue,     \* documents of reengage_queue: customer and project
    optedOut,  \* customers whose consent was withdrawn
    brake,     \* actor -> reveals in its window
    audited,   \* actor and customer of the durable reveal records
    shown,     \* actor and customer of the phones that were revealed
    reads,     \* broker, lead -> read_at, 0 for none
    shift, moves

deskVars == <<lead, queue, optedOut, brake, audited, shown, reads, shift>>
vars == <<device, now, req, deskVars, moves>>

Actors == Sales \cup {Admin}
Customers == {CustomerOf[l] : l \in Leads}
Documents == Customers \X Projects
Steps == [run |-> {"leads", "save"}, withdraw |-> {"stamp", "list", "delete"}, reveal |-> {"read", "audit"},
          walk |-> {"page", "states", "ended"}, mark |-> {"commit"}, register |-> {"lock"}, push |-> {"send"}]

\* Rows, documents, windows, marks and requests keep their types.
TypeOK ==
    /\ device \in [Identities \X Tokens -> [on : BOOLEAN, seen : Nat]]
    /\ lead \in [Leads -> [made : BOOLEAN, owner : Sales \cup {Nobody}, lost : BOOLEAN,
                           consent : BOOLEAN, withdrawn : BOOLEAN]]
    /\ queue \subseteq Documents
    /\ optedOut \subseteq Customers
    /\ brake \in [Actors -> Nat]
    /\ shown \subseteq Actors \X Customers /\ audited \subseteq Actors \X Customers
    /\ reads \in [Sales \X Leads -> Nat]
    /\ \A r \in Requests : req[r] = Idle \/ req[r].step \in Steps[req[r].kind]
    /\ \A x \in Sales \X Leads : reads[x] > 0 => lead[x[2]].made

Init ==
    /\ device = [x \in Identities \X Tokens |-> [on |-> FALSE, seen |-> 0]]
    /\ now = 0
    /\ req = [r \in Requests |-> Idle]
    /\ lead \in {[l \in Leads |-> [made |-> l \in FirstLeads, lost |-> l \in FirstLeads, withdrawn |-> FALSE,
                                   owner |-> IF l \in FirstLeads THEN owner[l] ELSE Nobody,
                                   consent |-> l \in FirstLeads]] : owner \in [FirstLeads -> Sales]}
    /\ queue = {} /\ optedOut = {} /\ audited = {} /\ shown = {}
    /\ brake = [a \in Actors |-> 0]
    /\ reads = [x \in Sales \X Leads |-> 0]
    /\ shift \in Shifts
    /\ moves = 0

\* An operation starts, and an idle request takes it.
Begins(kind) == kind \in shift /\ moves < MaxMoves /\ moves' = moves + 1
Takes(r, kind, next) == Begins(kind) /\ req[r] = Idle /\ Becomes(r, next)
Tokenless == UNCHANGED <<device, now>>

LeadsOf(c) == {l \in Leads : lead[l].made /\ CustomerOf[l] = c}

\* An admin, or the owner of one of the leads.
MayTouch(a, S) == a = Admin \/ \E l \in S : lead[l].owner = a

-------------------------------------------------------------------------------
(***************************************************************************)
(* The rows: intake, routing and status, as far as they matter here.       *)
(***************************************************************************)

\* Intake writes no marketing consent: the column's default is false.
Insert ==
    /\ Begins("insert")
    /\ \E l \in Leads :
          /\ ~lead[l].made /\ \A k \in Leads : k < l => lead[k].made
          /\ lead' = [lead EXCEPT ![l].made = TRUE]
    /\ UNCHANGED <<req, queue, optedOut, brake, audited, shown, reads, shift>> /\ Tokenless

\* A walk is owed the leads that stay in its scope from its begin to its end.
Assign(l, s) ==
    /\ Begins("assign") /\ lead[l].made /\ lead[l].owner # s
    /\ lead' = [lead EXCEPT ![l].owner = s]
    /\ req' = [r \in Requests |->
                 IF req[r].kind = "walk" /\ req[r].by = lead[l].owner
                 THEN [req[r] EXCEPT !.owed = @ \ {l}] ELSE req[r]]
    /\ UNCHANGED <<queue, optedOut, brake, audited, shown, reads, shift>> /\ Tokenless

\* Rejected with a reason, or taken up again.
SetStatus(l) ==
    /\ Begins("status") /\ lead[l].made
    /\ lead' = [lead EXCEPT ![l].lost = ~@]
    /\ UNCHANGED <<req, queue, optedOut, brake, audited, shown, reads, shift>> /\ Tokenless

-------------------------------------------------------------------------------
(***************************************************************************)
(* Re-engagement.                                                          *)
(***************************************************************************)

\* One page of the collection, in the order of document ids.
Listed == {d \in queue : Cardinality({e \in queue : DocRank[e] < DocRank[d]}) < QueuePage}

AttemptCounts == [c \in Customers |-> Cardinality({d \in Listed : d[1] = c})]

Eligible(l) == lead[l].made /\ lead[l].lost /\ lead[l].consent /\ ~lead[l].withdrawn

\* The newest eligible row stands for its customer.
Profiles == {l \in Leads : Eligible(l) /\ \A k \in LeadsOf(CustomerOf[l]) : Eligible(k) => k <= l}

BeginRun(r, p) ==
    /\ Takes(r, "run", [kind |-> "run", step |-> "leads", project |-> p, counts |-> AttemptCounts])
    /\ UNCHANGED deskVars /\ Tokenless

\* Faulty: the cap is not applied.
MatchedUncapped(r) == {CustomerOf[l] : l \in {k \in Profiles : <<k, req[r].project>> \in Fits}}

\* What is left by the budget filter and the reminder cap; the consent of a
\* profile is checked again on the copy that was read.
Matched(r) ==
    {CustomerOf[l] : l \in {k \in Profiles : /\ <<k, req[r].project>> \in Fits
                                             /\ req[r].counts[CustomerOf[k]] < MaxAttempts}}

LoadLeads(r) ==
    /\ At(r, "run", "leads")
    /\ Becomes(r, [kind |-> "run", step |-> "save", project |-> req[r].project, found |-> Matched(r),
                   out |-> optedOut])
    /\ UNCHANGED <<deskVars, moves>> /\ Tokenless

\* The entries are written one by one; an entry of the same project is replaced.
Save(r, c) ==
    /\ At(r, "run", "save") /\ c \in req[r].found
    /\ queue' = queue \cup {<<c, req[r].project>>}
    /\ req' = [req EXCEPT ![r].found = @ \ {c}]
    /\ UNCHANGED <<lead, optedOut, brake, audited, shown, reads, shift, moves>> /\ Tokenless

\* Everything is saved, or Firestore, the embedder or the timeout ended the run.
EndRun(r) ==
    /\ req[r].kind = "run"
    /\ Ends(r)
    /\ UNCHANGED <<deskVars, moves>> /\ Tokenless

-------------------------------------------------------------------------------
(***************************************************************************)
(* Withdrawal of marketing consent.                                        *)
(***************************************************************************)

BeginWithdraw(r, a, c) ==
    /\ LeadsOf(c) # {} /\ MayTouch(a, LeadsOf(c))
    /\ Takes(r, "withdraw", [kind |-> "withdraw", step |-> "stamp", by |-> a, customer |-> c])
    /\ UNCHANGED deskVars /\ Tokenless

\* Faulty: only the caller's own rows.
WithdrawnOwn(a, c) == {l \in LeadsOf(c) : a = Admin \/ lead[l].owner = a}

\* Every row of the customer, whoever owns it.
Withdrawn(a, c) == IF MayTouch(a, LeadsOf(c)) THEN LeadsOf(c) ELSE {}

\* One statement tests the ownership again and writes.
Stamp(r) ==
    /\ At(r, "withdraw", "stamp")
    /\ LET c == req[r].customer
           S == Withdrawn(req[r].by, c)
       IN /\ lead' = [l \in Leads |-> IF l \in S THEN [lead[l] EXCEPT !.withdrawn = TRUE, !.consent = FALSE]
                                      ELSE lead[l]]
          /\ optedOut' = IF S = {} THEN optedOut ELSE optedOut \cup {c}
          /\ IF S = {} THEN Ends(r) ELSE req' = [req EXCEPT ![r].step = "list"]
    /\ UNCHANGED <<queue, brake, audited, shown, reads, shift, moves>> /\ Tokenless

ListEntries(r) ==
    /\ At(r, "withdraw", "list")
    /\ Becomes(r, [kind |-> "withdraw", step |-> "delete",
                   doomed |-> {d \in Listed : d[1] = req[r].customer}])
    /\ UNCHANGED <<deskVars, moves>> /\ Tokenless

CancelEntry(r, d) ==
    /\ At(r, "withdraw", "delete") /\ d \in req[r].doomed
    /\ queue' = queue \ {d}
    /\ req' = [req EXCEPT ![r].doomed = @ \ {d}]
    /\ UNCHANGED <<lead, optedOut, brake, audited, shown, reads, shift, moves>> /\ Tokenless

\* The entries are cancelled, or cancelling failed: the opt-out stands.
EndWithdraw(r) ==
    /\ req[r].kind = "withdraw" /\ req[r].step # "stamp"
    /\ Ends(r)
    /\ UNCHANGED <<deskVars, moves>> /\ Tokenless

-------------------------------------------------------------------------------
(***************************************************************************)
(* Reveal of a phone.                                                      *)
(***************************************************************************)

\* The budget is looked at, not taken; over it the answer is 429.
BeginReveal(r, a, c) ==
    /\ brake[a] < RevealLimit
    /\ Takes(r, "reveal", [kind |-> "reveal", step |-> "read", by |-> a, customer |-> c])
    /\ UNCHANGED deskVars /\ Tokenless

ReadLeads(r) ==
    /\ At(r, "reveal", "read")
    /\ LET S == LeadsOf(req[r].customer)
       IN IF S # {} /\ MayTouch(req[r].by, S) THEN req' = [req EXCEPT ![r].step = "audit"] ELSE Ends(r)
    /\ UNCHANGED <<deskVars, moves>> /\ Tokenless

\* Faulty: a record that was not written does not stop the answer.
AnsweredAnyway(r, durable) == TRUE

Answered(r, durable) == durable

\* Without a durable record the answer is 503; with one the budget is taken
\* and the phone returned, with no await in between.
Reveal(r) ==
    /\ At(r, "reveal", "audit")
    /\ \E durable \in BOOLEAN :
          LET who == <<req[r].by, req[r].customer>>
          IN /\ audited' = IF durable THEN audited \cup {who} ELSE audited
             /\ shown' = IF Answered(r, durable) THEN shown \cup {who} ELSE shown
             /\ brake' = IF Answered(r, durable) THEN [brake EXCEPT ![req[r].by] = @ + 1] ELSE brake
    /\ Ends(r)
    /\ UNCHANGED <<lead, queue, optedOut, reads, shift, moves>> /\ Tokenless

\* The oldest stamp leaves the window.
LeaveWindow(a) ==
    /\ brake[a] > 0
    /\ brake' = [brake EXCEPT ![a] = @ - 1]
    /\ UNCHANGED <<req, lead, queue, optedOut, audited, shown, reads, shift, moves>> /\ Tokenless

-------------------------------------------------------------------------------
(***************************************************************************)
(* Pages of leads and notifications, and read marks.                       *)
(***************************************************************************)

Scope(a) == {l \in Leads : lead[l].made /\ (a = Admin \/ lead[l].owner = a)}

\* The first n of a set of leads, newest first.
FirstOf(S, n) == {l \in S : Cardinality({k \in S : k > l}) < n}

BeginWalk(r, a) ==
    /\ Takes(r, "walk", [kind |-> "walk", step |-> "page", by |-> a, below |-> {}, page |-> {}, more |-> FALSE,
                         listed |-> {}, owed |-> Scope(a), twice |-> FALSE])
    /\ UNCHANGED deskVars /\ Tokenless

\* Faulty: the extra row that shows there is more is the cursor.
CursorOfExtra(S) == CHOOSE l \in S : \A k \in S : l <= k

\* The last row of the page.
Cursor(S) == CHOOSE l \in FirstOf(S, PageSize) : \A k \in FirstOf(S, PageSize) : l <= k

\* One row more than the page shows is read.
ReadPage(r) ==
    /\ At(r, "walk", "page")
    /\ LET S == FirstOf({l \in Scope(req[r].by) : \A b \in req[r].below : l < b}, PageSize + 1)
           page == FirstOf(S, PageSize)
           more == Cardinality(S) > PageSize
       IN req' = [req EXCEPT ![r].step = "states", ![r].page = page, ![r].more = more,
                             ![r].below = IF more THEN {Cursor(S)} ELSE {},
                             ![r].listed = @ \cup page,
                             ![r].twice = @ \/ page \cap req[r].listed # {}]
    /\ UNCHANGED <<deskVars, moves>> /\ Tokenless

\* The read states of the page.  The filter by them, of the unread view, is left out.
ReadStates(r) ==
    /\ At(r, "walk", "states")
    /\ IF req[r].more THEN req' = [req EXCEPT ![r].step = "page"] ELSE req' = [req EXCEPT ![r].step = "ended"]
    /\ UNCHANGED <<deskVars, moves>> /\ Tokenless

\* The client stops, at the end or before.
EndWalk(r) ==
    /\ req[r].kind = "walk"
    /\ Ends(r)
    /\ UNCHANGED <<deskVars, moves>> /\ Tokenless

\* now() of a mark is the begin of its transaction.
BeginMark(r, s, S) ==
    /\ Takes(r, "mark", [kind |-> "mark", step |-> "commit", by |-> s, leads |-> S, time |-> now + 1])
    /\ now' = now + 1
    /\ UNCHANGED <<device, deskVars>>

\* Faulty: the mark that commits last wins.
ReadAtLast(old, new) == new

\* Read wins, and the earliest of two.
ReadAt(old, new) == IF old > 0 /\ old < new THEN old ELSE new

\* Only leads that are the caller's own by now.
Marked(r) == req[r].leads \cap Scope(req[r].by)

Mark(r) ==
    /\ At(r, "mark", "commit")
    /\ reads' = [x \in Sales \X Leads |->
                   IF x[1] = req[r].by /\ x[2] \in Marked(r)
                   THEN ReadAt(reads[x], req[r].time) ELSE reads[x]]
    /\ Ends(r)
    /\ UNCHANGED <<lead, queue, optedOut, brake, audited, shown, shift, moves>> /\ Tokenless

-------------------------------------------------------------------------------
Board ==
    \/ Insert
    \/ \E l \in Leads : SetStatus(l) \/ \E s \in Sales : Assign(l, s)

Reengage(r) ==
    \/ \E p \in Projects : BeginRun(r, p)
    \/ LoadLeads(r) \/ EndRun(r)
    \/ \E c \in Customers : Save(r, c)

Withdraw(r) ==
    \/ \E a \in Actors, c \in Customers : BeginWithdraw(r, a, c)
    \/ Stamp(r) \/ ListEntries(r) \/ EndWithdraw(r)
    \/ \E d \in Documents : CancelEntry(r, d)

RevealPhone(r) ==
    \/ \E a \in Actors, c \in Customers : BeginReveal(r, a, c)
    \/ ReadLeads(r) \/ Reveal(r)

Read(r) ==
    \/ \E a \in Actors : BeginWalk(r, a)
    \/ ReadPage(r) \/ ReadStates(r) \/ EndWalk(r) \/ Mark(r)
    \/ \E s \in Sales, l \in Leads : BeginMark(r, s, {l}) \/ BeginMark(r, s, {k \in Leads : k <= l})

Devices(r) ==
    \/ Begins("register") /\ req[r] = Idle /\ \E i \in Identities, t \in Tokens : BeginRegister(r, i, t)
    \/ Begins("push") /\ req[r] = Idle /\ \E i \in Identities : BeginPush(r, i)
    \/ UNCHANGED moves /\ (Register(r) \/ EndPush(r) \/ \E t \in Tokens : Send(r, t) \/ Prune(r, t))

Next ==
    \/ Board
    \/ \E a \in Actors : LeaveWindow(a)
    \/ \E r \in Requests : Reengage(r) \/ Withdraw(r) \/ RevealPhone(r) \/ Read(r) \/ (Devices(r) /\ UNCHANGED deskVars)
    \/ Begins("remove") /\ \E i \in Identities, t \in Tokens : RemoveToken(i, t) /\ UNCHANGED deskVars

Spec == Init /\ [][Next]_vars

-------------------------------------------------------------------------------
\* Once a customer's consent is withdrawn, no row of theirs is eligible again,
\* whoever owns it, and no run that reads the leads later finds the customer.
\* Rows, documents, windows, marks and requests keep their types.
OptOutHolds ==
    /\ TypeOK
    /\ \A l \in Leads : CustomerOf[l] \in optedOut => ~Eligible(l)
    /\ \A r \in Requests : At(r, "run", "save") => req[r].found \cap req[r].out = {}

\* A customer is suggested for at most MaxAttempts projects, and one more for
\* each run that read the counts at the same time, as long as the queue fits
\* one page.
AttemptsAreCapped ==
    \A c \in Customers :
        Cardinality({d \in queue : d[1] = c}) <= MaxAttempts + Cardinality(Requests) - 1

\* A phone that was shown has a durable record, and a window has at most
\* RevealLimit reveals of an actor and one for each request beside the last.
RevealsAreAccounted ==
    /\ shown \subseteq audited
    /\ \A a \in Actors : brake[a] <= RevealLimit + Cardinality(Requests) - 1

\* Pages that are walked while leads come and go show no lead twice, and in
\* the end every lead that stayed in the walk's scope.
WalkIsComplete ==
    \A r \in Requests : req[r].kind = "walk" =>
        ~req[r].twice /\ (req[r].step = "ended" => req[r].owed \subseteq req[r].listed)

\* A lead that was read stays read, since its first reading at the latest.
ReadsOnlyDeepen ==
    [][\A x \in Sales \X Leads : reads[x] > 0 => reads'[x] > 0 /\ reads'[x] <= reads[x]]_vars
===============================================================================
