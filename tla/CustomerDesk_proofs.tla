-------------------------- MODULE CustomerDesk_proofs --------------------------
(***************************************************************************)
(* Theorems about the desk, for any customers, brokers, leads, projects,   *)
(* devices and requests: an opt-out holds, reveals are accounted for, what *)
(* was read stays read, suggestions and device tokens stay within their    *)
(* caps, and walks of pages leave nothing out and show nothing twice.      *)
(***************************************************************************)
EXTENDS CustomerDesk, FiniteSetTheorems, WellFoundedInduction, TLAPS

Lead == [made : BOOLEAN, owner : Sales \cup {Nobody}, lost : BOOLEAN, consent : BOOLEAN,
         withdrawn : BOOLEAN]
Device == [on : BOOLEAN, seen : Nat]

RowTypes ==
    /\ device \in [Identities \X Tokens -> Device] /\ now \in Nat
    /\ lead \in [Leads -> Lead]
    /\ queue \subseteq Documents /\ optedOut \subseteq Customers

\* A lead that was read was made.
ReadTypes ==
    /\ reads \in [Sales \X Leads -> Nat]
    /\ \A x \in Sales \X Leads : reads[x] > 0 => lead[x[2]].made

\* Intake asks for no consent, and an opt-out takes it from every row.
ConsentHolds ==
    \A l \in Leads :
        /\ ~lead[l].made => ~lead[l].consent
        /\ CustomerOf[l] \in optedOut => ~lead[l].consent

Saving == [kind : {"run"}, step : {"save"}, project : Projects,
           found : SUBSET Customers, out : SUBSET Customers]
Asked == [kind : {"withdraw"}, step : {"stamp", "list"}, by : Actors, customer : Customers]
Cancelling == [kind : {"withdraw"}, step : {"delete"}, doomed : SUBSET Documents]
Revealing == [kind : {"reveal"}, step : {"read", "audit"}, by : Actors, customer : Customers]
Pushing == [kind : {"push"}, step : {"send"}, left : SUBSET Tokens, dead : SUBSET Tokens]
Walking(q) ==
    /\ {"kind", "step"} \subseteq DOMAIN q /\ q.kind = "walk"
    /\ q.step \in {"page", "states", "ended"}

\* What a request holds; a run saves nobody who had opted out when it read the leads.
RequestOK(q) ==
    \/ q = Idle
    \/ q.kind = "run" /\ q.step = "leads" /\ q.project \in Projects
    \/ q \in Saving /\ q.found \cap q.out = {}
    \/ q \in Asked \/ q \in Cancelling \/ q \in Revealing \/ q \in Pushing \/ Walking(q)
    \/ q.kind = "mark" /\ q.step = "commit" /\ q.time \in Nat \ {0}
    \/ q.kind = "register" /\ q.step = "lock" /\ q.who \in Identities /\ q.token \in Tokens
       /\ q.time \in Nat

RequestsHold ==
    /\ req = [r \in Requests |-> req[r]]
    /\ \A r \in Requests : RequestOK(req[r])

\* A request on its way may use the window once more.
OnTheirWay(a) == {r \in Requests : req[r].kind = "reveal" /\ req[r].by = a}

RevealsHold ==
    /\ brake \in [Actors -> Nat]
    /\ shown \subseteq audited /\ audited \subseteq Actors \X Customers
    /\ \A a \in Actors :
          brake[a] + Cardinality(OnTheirWay(a)) <= RevealLimit + Cardinality(Requests) - 1

DeskInv == RowTypes /\ ReadTypes /\ ConsentHolds /\ RequestsHold /\ RevealsHold

-------------------------------------------------------------------------------
\* A request that takes another step leaves the others as they are.
LEMMA OneRequestMoves ==
  ASSUME RequestsHold, NEW r \in Requests, NEW q, RequestOK(q), Becomes(r, q)
  PROVE  RequestsHold' /\ \A s \in Requests : req'[s] = IF s = r THEN q ELSE req[s]
<1>1. \A s \in Requests : req'[s] = IF s = r THEN q ELSE req[s]
  BY DEF RequestsHold, Becomes
<1>2. req' = [s \in Requests |-> req'[s]]
  BY DEF RequestsHold, Becomes
<1>3. QED
  BY <1>1, <1>2 DEF RequestsHold

\* Those on their way, and that they are not too many to count.
LEMMA WayIsFinite ==
  \A a : /\ IsFiniteSet(OnTheirWay(a)) /\ Cardinality(OnTheirWay(a)) \in Nat
         /\ Cardinality(OnTheirWay(a)) <= Cardinality(Requests) /\ Cardinality(Requests) \in Nat
BY RevealsAreLimited, FS_Subset, FS_CardinalityType DEF OnTheirWay

\* A step that reveals nothing and is not of a reveal.
LEMMA OthersKeepReveals ==
  ASSUME RevealsHold, UNCHANGED <<brake, audited, shown>>,
         \A r \in Requests : (req'[r].kind = "reveal" <=> req[r].kind = "reveal")
                             /\ (req[r].kind = "reveal" => req'[r] = req[r])
  PROVE  RevealsHold'
<1>1. \A a : OnTheirWay(a)' = OnTheirWay(a)
  BY DEF OnTheirWay
<1>2. QED
  BY <1>1 DEF RevealsHold

\* A step of a request that is no reveal and writes no row.
LEMMA QuietStep ==
  ASSUME DeskInv, NEW r \in Requests, NEW q, RequestOK(q), Becomes(r, q), q.kind # "reveal",
         req[r].kind # "reveal", UNCHANGED deskVars, UNCHANGED <<device, now>>
  PROVE  DeskInv'
<1>1. RequestsHold' /\ \A s \in Requests : req'[s] = IF s = r THEN q ELSE req[s]
  BY OneRequestMoves DEF DeskInv
<1>2. RevealsHold'
  BY <1>1, OthersKeepReveals DEF DeskInv, deskVars
<1>3. QED
  BY <1>1, <1>2 DEF DeskInv, RowTypes, ReadTypes, ConsentHolds, deskVars

LEMMA IdleIsOK == RequestOK(Idle) /\ Idle.kind = "idle"
BY DEF RequestOK, Idle

-------------------------------------------------------------------------------
LEMMA DeskInvHoldsAtFirst == Init => DeskInv
<1> SUFFICES ASSUME Init
             PROVE  DeskInv
  OBVIOUS
<1>1. RequestsHold
  BY IdleIsOK DEF Init, RequestsHold
<1>2. RevealsHold
  <2>1. \A a : OnTheirWay(a) = {}
    BY IdleIsOK DEF Init, OnTheirWay
  <2>2. QED
    BY <2>1, RevealsAreLimited, FS_EmptySet, WayIsFinite DEF Init, RevealsHold
<1>3. PICK owner \in [FirstLeads -> Sales] :
        lead = [l \in Leads |-> [made |-> l \in FirstLeads, lost |-> l \in FirstLeads, withdrawn |-> FALSE,
                                 owner |-> IF l \in FirstLeads THEN owner[l] ELSE Nobody,
                                 consent |-> l \in FirstLeads]]
  BY DEF Init
<1>4. lead \in [Leads -> Lead] /\ ConsentHolds
  <2>1. ASSUME NEW l \in Leads
        PROVE  [made |-> l \in FirstLeads, lost |-> l \in FirstLeads, withdrawn |-> FALSE,
                owner |-> IF l \in FirstLeads THEN owner[l] ELSE Nobody,
                consent |-> l \in FirstLeads] \in Lead
    <3>1. (l \in FirstLeads) \in BOOLEAN /\ FALSE \in BOOLEAN
      OBVIOUS
    <3>2. (IF l \in FirstLeads THEN owner[l] ELSE Nobody) \in Sales \cup {Nobody}
      OBVIOUS
    <3>3. QED
      BY <3>1, <3>2, Zenon DEF Lead
  <2>2. lead \in [Leads -> Lead]
    BY <1>3, <2>1, Zenon
  <2>3. \A l \in Leads : lead[l].made = (l \in FirstLeads) /\ lead[l].consent = (l \in FirstLeads)
    BY <1>3
  <2>4. QED
    BY <2>2, <2>3 DEF Init, ConsentHolds
<1>5. device \in [Identities \X Tokens -> Device]
  <2>1. [on |-> FALSE, seen |-> 0] \in Device
    BY Zenon DEF Device
  <2>2. QED
    BY <2>1 DEF Init
<1>6. ReadTypes
  <2>1. reads = [x \in Sales \X Leads |-> 0]
    BY DEF Init
  <2>2. reads \in [Sales \X Leads -> Nat]
    BY <2>1
  <2>3. \A x \in Sales \X Leads : reads[x] = 0
    BY <2>1
  <2>4. QED
    BY <2>2, <2>3 DEF ReadTypes
<1>7. RowTypes
  BY <1>4, <1>5 DEF Init, RowTypes
<1>8. QED
  BY <1>1, <1>2, <1>4, <1>6, <1>7 DEF DeskInv

-------------------------------------------------------------------------------
(***************************************************************************)
(* The board.                                                              *)
(***************************************************************************)

\* A change of rows that gives no consent, unmakes no lead and opts nobody out.
LEMMA RowsKeep ==
  ASSUME DeskInv, lead' \in [Leads -> Lead], UNCHANGED <<device, now, queue, optedOut, reads>>,
         \A l \in Leads : /\ lead[l].made => lead'[l].made
                          /\ lead'[l].consent => lead[l].consent
  PROVE  RowTypes' /\ ReadTypes' /\ ConsentHolds'
<1>1. RowTypes'
  BY DEF DeskInv, RowTypes
<1>2. ReadTypes'
  BY DEF DeskInv, ReadTypes
<1>3. ConsentHolds'
  BY DEF DeskInv, ConsentHolds
<1>4. QED
  BY <1>1, <1>2, <1>3

LEMMA BoardKeeps ==
  ASSUME DeskInv, Board
  PROVE  DeskInv'
<1>1. CASE Insert \/ \E l \in Leads : SetStatus(l)
  <2>1. PICK l \in Leads :
          lead' \in {[lead EXCEPT ![l].made = TRUE], [lead EXCEPT ![l].lost = ~@]}
    BY <1>1 DEF Insert, SetStatus
  <2>2. UNCHANGED <<device, now, req, queue, optedOut, brake, audited, shown, reads>>
    BY <1>1 DEF Insert, SetStatus, Tokenless
  <2>3. lead \in [Leads -> Lead] /\ lead[l] \in Lead
    BY DEF DeskInv, RowTypes
  <2>4. /\ [lead[l] EXCEPT !.made = TRUE] \in Lead
        /\ [lead[l] EXCEPT !.lost = ~@] \in Lead
    BY <2>3 DEF Lead
  <2>5. lead' \in [Leads -> Lead]
    BY <2>1, <2>3, <2>4
  <2>6. \A k \in Leads : (lead[k].made => lead'[k].made) /\ (lead'[k].consent <=> lead[k].consent)
    BY <2>1, <2>3 DEF Lead
  <2>7. QED
    BY <2>2, <2>5, <2>6, RowsKeep DEF DeskInv, RequestsHold, RevealsHold, OnTheirWay
<1>2. ASSUME NEW l \in Leads, NEW s \in Sales, Assign(l, s)
      PROVE  DeskInv'
  <2>1. /\ lead' = [lead EXCEPT ![l].owner = s]
        /\ UNCHANGED <<device, now, queue, optedOut, brake, audited, shown, reads>>
        /\ \A r \in Requests : req'[r] = IF req[r].kind = "walk" /\ req[r].by = lead[l].owner
                                         THEN [req[r] EXCEPT !.owed = @ \ {l}] ELSE req[r]
        /\ req' = [r \in Requests |-> req'[r]]
    BY <1>2 DEF Assign, Tokenless
  <2>2. lead' \in [Leads -> Lead]
    <3>1. lead \in [Leads -> Lead] /\ [lead[l] EXCEPT !.owner = s] \in Lead
      BY DEF DeskInv, RowTypes, Lead
    <3>2. QED
      BY <2>1, <3>1
  <2>3. \A k \in Leads : lead'[k].made = lead[k].made /\ lead'[k].consent = lead[k].consent
    BY <2>1 DEF DeskInv, RowTypes, Lead
  <2>4. ASSUME NEW r \in Requests
        PROVE  /\ RequestOK(req'[r]) /\ (req'[r].kind = "reveal" <=> req[r].kind = "reveal")
               /\ req[r].kind = "reveal" => req'[r] = req[r]
    <3>1. CASE req[r].kind = "walk"
      <4>1. Walking(req[r])
        BY <3>1 DEF DeskInv, RequestsHold, RequestOK, Idle, Saving, Asked, Cancelling, Revealing, Pushing
      <4>2. Walking(req'[r]) /\ req'[r].kind = "walk"
        BY <2>1, <3>1, <4>1 DEF Walking
      <4>3. QED
        BY <3>1, <4>2 DEF RequestOK
    <3>2. CASE req[r].kind # "walk"
      BY <2>1, <3>2 DEF DeskInv, RequestsHold
    <3>3. QED
      BY <3>1, <3>2
  <2>5. RequestsHold' /\ RevealsHold'
    BY <2>1, <2>4, OthersKeepReveals DEF RequestsHold, DeskInv
  <2>6. QED
    BY <2>1, <2>2, <2>3, <2>5, RowsKeep DEF DeskInv
<1>3. QED
  BY <1>1, <1>2 DEF Board

-------------------------------------------------------------------------------
(***************************************************************************)
(* Re-engagement and opt-outs.                                             *)
(***************************************************************************)

\* Whoever is matched has a row that is eligible, so has not opted out.
LEMMA MatchedHaveNotOptedOut ==
  ASSUME DeskInv, NEW r
  PROVE  Matched(r) \subseteq Customers /\ Matched(r) \cap optedOut = {}
BY DEF Matched, Profiles, Eligible, Customers, DeskInv, ConsentHolds

\* What a request is, by its kind and step.
LEMMA WhatItHolds ==
  ASSUME RequestsHold, NEW r \in Requests
  PROVE  /\ At(r, "run", "leads") => req[r].project \in Projects
         /\ At(r, "run", "save") => req[r] \in Saving /\ req[r].found \cap req[r].out = {}
         /\ At(r, "withdraw", "stamp") \/ At(r, "withdraw", "list") => req[r] \in Asked
         /\ At(r, "withdraw", "delete") => req[r] \in Cancelling
         /\ req[r].kind = "reveal" => req[r] \in Revealing
         /\ req[r].kind = "walk" => Walking(req[r])
         /\ req[r].kind = "mark" => req[r].time \in Nat \ {0}
         /\ req[r].kind = "register" =>
               req[r].who \in Identities /\ req[r].token \in Tokens /\ req[r].time \in Nat
         /\ req[r].kind = "push" => req[r] \in Pushing
<1>1. RequestOK(req[r])
  BY DEF RequestsHold
<1>2. QED
  BY <1>1 DEF RequestOK, At, Idle, Saving, Asked, Cancelling, Revealing, Pushing, Walking

LEMMA ReengageKeeps ==
  ASSUME DeskInv, NEW r \in Requests, Reengage(r)
  PROVE  DeskInv'
<1>1. ASSUME NEW p \in Projects, BeginRun(r, p)
      PROVE  DeskInv'
  <2> DEFINE q == [kind |-> "run", step |-> "leads", project |-> p, counts |-> AttemptCounts]
  <2>1. Becomes(r, q) /\ UNCHANGED deskVars /\ UNCHANGED <<device, now>> /\ req[r] = Idle
    BY <1>1 DEF BeginRun, Takes, Tokenless
  <2>2. RequestOK(q) /\ q.kind = "run"
    BY DEF RequestOK
  <2>3. QED
    BY <2>1, <2>2, QuietStep, IdleIsOK
<1>2. CASE LoadLeads(r)
  <2> DEFINE q == [kind |-> "run", step |-> "save", project |-> req[r].project, found |-> Matched(r),
                   out |-> optedOut]
  <2>1. Becomes(r, q) /\ UNCHANGED deskVars /\ UNCHANGED <<device, now>> /\ At(r, "run", "leads")
    BY <1>2 DEF LoadLeads, Tokenless
  <2>2. RequestOK(q) /\ q.kind = "run"
    <3>1. req[r].project \in Projects
      BY <2>1, WhatItHolds DEF DeskInv
    <3>2. optedOut \subseteq Customers
      BY DEF DeskInv, RowTypes
    <3>3. q \in Saving /\ q.found \cap q.out = {}
      BY <3>1, <3>2, MatchedHaveNotOptedOut DEF Saving
    <3>4. QED
      BY <3>3 DEF RequestOK
  <2>3. QED
    BY <2>1, <2>2, QuietStep DEF At
<1>3. CASE EndRun(r)
  BY <1>3, QuietStep, IdleIsOK DEF EndRun, Ends, Tokenless
<1>4. ASSUME NEW c \in Customers, Save(r, c)
      PROVE  DeskInv'
  <2>1. /\ At(r, "run", "save") /\ queue' = queue \cup {<<c, req[r].project>>}
        /\ req' = [req EXCEPT ![r].found = @ \ {c}]
        /\ UNCHANGED <<device, now, lead, optedOut, brake, audited, shown, reads>>
    BY <1>4 DEF Save, Tokenless
  <2>2. req[r] \in Saving /\ req[r].found \cap req[r].out = {}
    BY <2>1, WhatItHolds DEF DeskInv
  <2> DEFINE q == [req[r] EXCEPT !.found = @ \ {c}]
  <2>3. Becomes(r, q) /\ q \in Saving /\ q.found \cap q.out = {} /\ q.kind = "run" /\ req[r].kind = "run"
    BY <2>1, <2>2 DEF Saving, Becomes
  <2> HIDE DEF q
  <2>4. RequestsHold' /\ \A s \in Requests : req'[s] = IF s = r THEN q ELSE req[s]
    BY <2>3, OneRequestMoves DEF DeskInv, RequestOK
  <2>5. RevealsHold'
    BY <2>1, <2>3, <2>4, OthersKeepReveals DEF DeskInv
  <2>6. queue' \subseteq Documents
    BY <2>1, <2>2 DEF DeskInv, RowTypes, Documents, Saving
  <2>7. QED
    BY <2>1, <2>4, <2>5, <2>6 DEF DeskInv, RowTypes, ReadTypes, ConsentHolds
<1>5. QED
  BY <1>1, <1>2, <1>3, <1>4 DEF Reengage

\* The opt-out stands on every row, made or not yet made, before the request goes on.
LEMMA StampKeeps ==
  ASSUME DeskInv, NEW r \in Requests, Stamp(r)
  PROVE  DeskInv'
<1> DEFINE c == req[r].customer
           S == Withdrawn(req[r].by, c)
<1>1. /\ At(r, "withdraw", "stamp")
      /\ lead' = [l \in Leads |-> IF l \in S THEN [lead[l] EXCEPT !.withdrawn = TRUE, !.consent = FALSE]
                                  ELSE lead[l]]
      /\ optedOut' = (IF S = {} THEN optedOut ELSE optedOut \cup {c})
      /\ IF S = {} THEN Ends(r) ELSE req' = [req EXCEPT ![r].step = "list"]
      /\ UNCHANGED <<device, now, queue, brake, audited, shown, reads>>
  BY DEF Stamp, Tokenless
<1>2. req[r] \in Asked
  BY <1>1, WhatItHolds DEF DeskInv
<1>3. PICK q : RequestOK(q) /\ Becomes(r, q) /\ q.kind # "reveal"
  <2>1. CASE S = {}
    BY <1>1, <2>1, IdleIsOK DEF Ends
  <2>2. CASE S # {}
    <3>1. Becomes(r, [req[r] EXCEPT !.step = "list"])
      BY <1>1, <2>2 DEF Becomes
    <3>2. [req[r] EXCEPT !.step = "list"] \in Asked /\ [req[r] EXCEPT !.step = "list"].kind = "withdraw"
      BY <1>2 DEF Asked
    <3>3. QED
      BY <3>1, <3>2 DEF RequestOK
  <2>3. QED
    BY <2>1, <2>2
<1>4. RequestsHold' /\ \A s \in Requests : req'[s] = IF s = r THEN q ELSE req[s]
  BY <1>3, OneRequestMoves DEF DeskInv
<1>5. RevealsHold'
  BY <1>1, <1>2, <1>3, <1>4, OthersKeepReveals DEF DeskInv, Asked
<1>6. lead' \in [Leads -> Lead]
  <2>1. \A l \in Leads : lead[l] \in Lead /\ [lead[l] EXCEPT !.withdrawn = TRUE, !.consent = FALSE] \in Lead
    BY DEF DeskInv, RowTypes, Lead
  <2>2. QED
    BY <1>1, <2>1
<1>7. \A l \in Leads : /\ lead'[l].made = lead[l].made
                       /\ lead'[l].consent => lead[l].consent /\ l \notin S
  BY <1>1 DEF DeskInv, RowTypes, Lead
<1>8. c \in Customers /\ (S # {} => S = LeadsOf(c))
  BY <1>2 DEF Asked, Withdrawn
<1>9. ConsentHolds'
  BY <1>1, <1>7, <1>8 DEF DeskInv, ConsentHolds, LeadsOf
<1>10. ReadTypes'
  BY <1>1, <1>7 DEF DeskInv, ReadTypes
<1>11. RowTypes'
  BY <1>1, <1>6, <1>8 DEF DeskInv, RowTypes
<1>12. QED
  BY <1>4, <1>5, <1>9, <1>10, <1>11 DEF DeskInv

LEMMA WithdrawKeeps ==
  ASSUME DeskInv, NEW r \in Requests, Withdraw(r)
  PROVE  DeskInv'
<1>1. ASSUME NEW a \in Actors, NEW c \in Customers, BeginWithdraw(r, a, c)
      PROVE  DeskInv'
  <2> DEFINE q == [kind |-> "withdraw", step |-> "stamp", by |-> a, customer |-> c]
  <2>1. Becomes(r, q) /\ UNCHANGED deskVars /\ UNCHANGED <<device, now>> /\ req[r] = Idle
    BY <1>1 DEF BeginWithdraw, Takes, Tokenless
  <2>2. RequestOK(q) /\ q.kind = "withdraw"
    BY DEF RequestOK, Asked
  <2>3. QED
    BY <2>1, <2>2, QuietStep, IdleIsOK
<1>2. CASE ListEntries(r)
  <2> DEFINE q == [kind |-> "withdraw", step |-> "delete",
                   doomed |-> {d \in Listed : d[1] = req[r].customer}]
  <2>1. Becomes(r, q) /\ UNCHANGED deskVars /\ UNCHANGED <<device, now>> /\ At(r, "withdraw", "list")
    BY <1>2 DEF ListEntries, Tokenless
  <2>2. q \in Cancelling /\ q.kind = "withdraw"
    BY DEF Cancelling, Listed, DeskInv, RowTypes
  <2>3. QED
    BY <2>1, <2>2, QuietStep DEF At, RequestOK
<1>3. ASSUME NEW d \in Documents, CancelEntry(r, d)
      PROVE  DeskInv'
  <2>1. /\ At(r, "withdraw", "delete") /\ queue' = queue \ {d}
        /\ req' = [req EXCEPT ![r].doomed = @ \ {d}]
        /\ UNCHANGED <<device, now, lead, optedOut, brake, audited, shown, reads>>
    BY <1>3 DEF CancelEntry, Tokenless
  <2>2. req[r] \in Cancelling
    BY <2>1, WhatItHolds DEF DeskInv
  <2> DEFINE q == [req[r] EXCEPT !.doomed = @ \ {d}]
  <2>3. Becomes(r, q) /\ q \in Cancelling /\ q.kind = "withdraw" /\ req[r].kind = "withdraw"
    BY <2>1, <2>2 DEF Cancelling, Becomes
  <2> HIDE DEF q
  <2>4. RequestsHold' /\ \A s \in Requests : req'[s] = IF s = r THEN q ELSE req[s]
    BY <2>3, OneRequestMoves DEF DeskInv, RequestOK
  <2>5. RevealsHold'
    BY <2>1, <2>3, <2>4, OthersKeepReveals DEF DeskInv
  <2>6. QED
    BY <2>1, <2>4, <2>5 DEF DeskInv, RowTypes, ReadTypes, ConsentHolds
<1>4. CASE EndWithdraw(r)
  BY <1>4, QuietStep, IdleIsOK DEF EndWithdraw, Ends, Tokenless
<1>5. QED
  BY <1>1, <1>2, <1>3, <1>4, StampKeeps DEF Withdraw

-------------------------------------------------------------------------------
(***************************************************************************)
(* Reveals.                                                                *)
(***************************************************************************)

\* Nothing but brake, audit and the request r changes.
LEMMA RevealsAlone ==
  ASSUME DeskInv, RequestsHold', RevealsHold', UNCHANGED <<device, now, lead, queue, optedOut, reads>>
  PROVE  DeskInv'
BY DEF DeskInv, RowTypes, ReadTypes, ConsentHolds

LEMMA RevealKeeps ==
  ASSUME DeskInv, NEW r \in Requests, RevealPhone(r)
  PROVE  DeskInv'
<1>1. ASSUME NEW a \in Actors, NEW c \in Customers, BeginReveal(r, a, c)
      PROVE  DeskInv'
  <2> DEFINE q == [kind |-> "reveal", step |-> "read", by |-> a, customer |-> c]
  <2>1. /\ Becomes(r, q) /\ req[r] = Idle /\ brake[a] < RevealLimit
        /\ UNCHANGED <<device, now, lead, queue, optedOut, reads, brake, audited, shown>>
    BY <1>1 DEF BeginReveal, Takes, Tokenless, deskVars
  <2>2. RequestOK(q) /\ q.kind = "reveal" /\ q.by = a
    BY DEF RequestOK, Revealing
  <2>3. RequestsHold' /\ \A s \in Requests : req'[s] = IF s = r THEN q ELSE req[s]
    BY <2>1, <2>2, OneRequestMoves DEF DeskInv
  <2> HIDE DEF q
  <2>4. \A b \in Actors : b # a => OnTheirWay(b)' = OnTheirWay(b)
    BY <2>1, <2>2, <2>3, IdleIsOK DEF OnTheirWay
  <2>5. /\ Cardinality(OnTheirWay(a)') \in Nat
        /\ Cardinality(OnTheirWay(a)') <= Cardinality(Requests)
    BY RevealsAreLimited, FS_Subset, FS_CardinalityType DEF OnTheirWay
  <2>6. brake[a] + Cardinality(OnTheirWay(a)') <= RevealLimit + Cardinality(Requests) - 1
    BY <2>1, <2>5, RevealsAreLimited, WayIsFinite DEF DeskInv, RevealsHold
  <2>7. RevealsHold'
    BY <2>1, <2>4, <2>6 DEF DeskInv, RevealsHold
  <2>8. QED
    BY <2>1, <2>3, <2>7, RevealsAlone
<1>2. CASE ReadLeads(r)
  <2>1. /\ At(r, "reveal", "read") /\ UNCHANGED <<device, now, lead, queue, optedOut, reads, brake, audited, shown>>
        /\ req' = [req EXCEPT ![r].step = "audit"] \/ Ends(r)
    BY <1>2 DEF ReadLeads, Tokenless, deskVars
  <2>2. req[r] \in Revealing
    BY <2>1, WhatItHolds DEF At, DeskInv
  <2>3. PICK q : RequestOK(q) /\ Becomes(r, q) /\ (q.kind = "reveal" => q.by = req[r].by)
    <3>1. CASE Ends(r)
      BY <3>1, IdleIsOK DEF Ends
    <3>2. CASE req' = [req EXCEPT ![r].step = "audit"]
      <4>1. Becomes(r, [req[r] EXCEPT !.step = "audit"])
        BY <3>2 DEF Becomes
      <4>2. [req[r] EXCEPT !.step = "audit"] \in Revealing /\ [req[r] EXCEPT !.step = "audit"].by = req[r].by
        BY <2>2 DEF Revealing
      <4>3. QED
        BY <4>1, <4>2 DEF RequestOK
    <3>3. QED
      BY <2>1, <3>1, <3>2
  <2>4. RequestsHold' /\ \A s \in Requests : req'[s] = IF s = r THEN q ELSE req[s]
    BY <2>3, OneRequestMoves DEF DeskInv
  <2>5. \A b \in Actors : /\ OnTheirWay(b)' \subseteq OnTheirWay(b)
                          /\ Cardinality(OnTheirWay(b)') \in Nat
                          /\ Cardinality(OnTheirWay(b)') <= Cardinality(OnTheirWay(b))
    <3>1. \A b \in Actors : OnTheirWay(b)' \subseteq OnTheirWay(b)
      BY <2>1, <2>3, <2>4 DEF OnTheirWay, At
    <3>2. QED
      BY <3>1, WayIsFinite, FS_Subset, FS_CardinalityType
  <2>6. RevealsHold'
    BY <2>1, <2>5, WayIsFinite, RevealsAreLimited DEF DeskInv, RevealsHold
  <2>7. QED
    BY <2>1, <2>4, <2>6, RevealsAlone
<1>3. CASE Reveal(r)
  <2> DEFINE who == <<req[r].by, req[r].customer>>
  <2>1. PICK durable \in BOOLEAN :
          /\ audited' = IF durable THEN audited \cup {who} ELSE audited
          /\ shown' = IF durable THEN shown \cup {who} ELSE shown
          /\ brake' = IF durable THEN [brake EXCEPT ![req[r].by] = @ + 1] ELSE brake
    BY <1>3 DEF Reveal, Answered
  <2>2. /\ At(r, "reveal", "audit") /\ Becomes(r, Idle)
        /\ UNCHANGED <<device, now, lead, queue, optedOut, reads>>
    BY <1>3 DEF Reveal, Ends, Tokenless
  <2>3. req[r] \in Revealing /\ req[r].by \in Actors
    BY <2>2, WhatItHolds DEF At, DeskInv, Revealing
  <2>0. PICK by \in Actors : by = req[r].by
    BY <2>3
  <2>4. RequestsHold' /\ \A s \in Requests : req'[s] = IF s = r THEN Idle ELSE req[s]
    BY <2>2, IdleIsOK, OneRequestMoves DEF DeskInv
  <2>5. req'[r].kind # "reveal" /\ \A s \in Requests : s # r => req'[s] = req[s]
    BY <2>4, IdleIsOK
  <2>6. /\ OnTheirWay(by)' = OnTheirWay(by) \ {r} /\ r \in OnTheirWay(by)
        /\ \A b \in Actors : b # by => OnTheirWay(b)' = OnTheirWay(b)
    <3>1. r \in OnTheirWay(by)
      BY <2>0, <2>2 DEF OnTheirWay, At
    <3>2. OnTheirWay(by)' = OnTheirWay(by) \ {r}
      BY <2>5 DEF OnTheirWay
    <3>3. \A b \in Actors : b # by => OnTheirWay(b)' = OnTheirWay(b)
      BY <2>0, <2>5 DEF OnTheirWay
    <3>4. QED
      BY <3>1, <3>2, <3>3
  <2>7. /\ brake' \in [Actors -> Nat]
        /\ \A b \in Actors : /\ b # by => brake'[b] = brake[b]
                             /\ brake'[b] <= brake[b] + 1
    BY <2>0, <2>1, <2>3 DEF DeskInv, RevealsHold
  <2>8. \A b \in Actors :
           brake'[b] + Cardinality(OnTheirWay(b)') <= RevealLimit + Cardinality(Requests) - 1
    <3>1. Cardinality(OnTheirWay(by) \ {r}) = Cardinality(OnTheirWay(by)) - 1
      BY <2>6, WayIsFinite, FS_RemoveElement
    <3>2. SUFFICES ASSUME NEW b \in Actors
                   PROVE  brake'[b] + Cardinality(OnTheirWay(b)') <= RevealLimit + Cardinality(Requests) - 1
      OBVIOUS
    <3>3. /\ brake[b] + Cardinality(OnTheirWay(b)) <= RevealLimit + Cardinality(Requests) - 1
          /\ brake[b] \in Nat /\ brake'[b] \in Nat /\ Cardinality(OnTheirWay(b)) \in Nat
          /\ Cardinality(Requests) \in Nat /\ RevealLimit \in Nat
      BY <2>7, WayIsFinite, RevealsAreLimited DEF DeskInv, RevealsHold
    <3>4. CASE b = by
      <4>1. Cardinality(OnTheirWay(b)') = Cardinality(OnTheirWay(b)) - 1
        BY <2>6, <3>1, <3>4
      <4>2. brake'[b] <= brake[b] + 1
        BY <2>7
      <4>3. QED
        BY <3>3, <4>1, <4>2
    <3>5. CASE b # by
      <4>1. Cardinality(OnTheirWay(b)') = Cardinality(OnTheirWay(b)) /\ brake'[b] = brake[b]
        BY <2>6, <2>7, <3>5
      <4>2. QED
        BY <3>3, <4>1
    <3>6. QED
      BY <3>4, <3>5
  <2>9. shown' \subseteq audited' /\ audited' \subseteq Actors \X Customers
    BY <2>1, <2>3 DEF DeskInv, RevealsHold, Revealing
  <2>10. RevealsHold'
    BY <2>7, <2>8, <2>9 DEF RevealsHold
  <2>11. QED
    BY <2>2, <2>4, <2>10, RevealsAlone
<1>4. QED
  BY <1>1, <1>2, <1>3 DEF RevealPhone

LEMMA WindowKeeps ==
  ASSUME DeskInv, NEW a \in Actors, LeaveWindow(a)
  PROVE  DeskInv'
<1>1. /\ brake[a] > 0 /\ brake' = [brake EXCEPT ![a] = @ - 1]
      /\ UNCHANGED <<device, now, req, lead, queue, optedOut, audited, shown, reads>>
  BY DEF LeaveWindow, Tokenless
<1>2. brake' \in [Actors -> Nat] /\ \A b \in Actors : brake'[b] <= brake[b]
  BY <1>1 DEF DeskInv, RevealsHold
<1>3. RequestsHold' /\ \A b \in Actors : OnTheirWay(b)' = OnTheirWay(b)
  BY <1>1 DEF DeskInv, RequestsHold, OnTheirWay
<1>4. RevealsHold'
  BY <1>1, <1>2, <1>3, WayIsFinite, RevealsAreLimited DEF DeskInv, RevealsHold
<1>5. QED
  BY <1>1, <1>3, <1>4, RevealsAlone

-------------------------------------------------------------------------------
(***************************************************************************)
(* Pages, marks and devices.                                               *)
(***************************************************************************)

\* A walk goes on from page to page.
LEMMA WalkKeeps ==
  ASSUME DeskInv, NEW r \in Requests, NEW a \in Actors,
         BeginWalk(r, a) \/ ReadPage(r) \/ ReadStates(r) \/ EndWalk(r)
  PROVE  DeskInv'
<1>1. CASE BeginWalk(r, a)
  <2> DEFINE q == [kind |-> "walk", step |-> "page", by |-> a, below |-> {}, page |-> {}, more |-> FALSE,
                   listed |-> {}, owed |-> Scope(a), twice |-> FALSE]
  <2>1. Becomes(r, q) /\ UNCHANGED deskVars /\ UNCHANGED <<device, now>> /\ req[r] = Idle
    BY <1>1 DEF BeginWalk, Takes, Tokenless
  <2>2. Walking(q) /\ q.kind = "walk"
    BY DEF Walking
  <2>3. QED
    BY <2>1, <2>2, QuietStep, IdleIsOK DEF RequestOK
<1>2. CASE ReadPage(r)
  <2>1. /\ At(r, "walk", "page") /\ UNCHANGED deskVars /\ UNCHANGED <<device, now>>
        /\ \E page, more, below, listed, twice :
              req' = [req EXCEPT ![r].step = "states", ![r].page = page, ![r].more = more,
                                 ![r].below = below, ![r].listed = listed, ![r].twice = twice]
    BY <1>2 DEF ReadPage, Tokenless
  <2>2. Walking(req[r])
    BY <2>1, WhatItHolds DEF At, DeskInv
  <2>3. PICK page, more, below, listed, twice :
          req' = [req EXCEPT ![r].step = "states", ![r].page = page, ![r].more = more,
                             ![r].below = below, ![r].listed = listed, ![r].twice = twice]
    BY <2>1
  <2> DEFINE q == [req[r] EXCEPT !.step = "states", !.page = page, !.more = more, !.below = below,
                                 !.listed = listed, !.twice = twice]
  <2>4. Becomes(r, q)
    BY <2>3 DEF Becomes
  <2>5. Walking(q) /\ q.kind = "walk"
    BY <2>2 DEF Walking
  <2>6. QED
    BY <2>1, <2>4, <2>5, QuietStep DEF At, RequestOK
<1>3. CASE ReadStates(r)
  <2>1. /\ At(r, "walk", "states") /\ UNCHANGED deskVars /\ UNCHANGED <<device, now>>
        /\ \E step \in {"page", "ended"} : Becomes(r, [req[r] EXCEPT !.step = step])
    BY <1>3 DEF ReadStates, Tokenless, Becomes
  <2>2. PICK step \in {"page", "ended"} : Becomes(r, [req[r] EXCEPT !.step = step])
    BY <2>1
  <2>3. Walking(req[r])
    BY <2>1, WhatItHolds DEF At, DeskInv
  <2>4. Walking([req[r] EXCEPT !.step = step]) /\ [req[r] EXCEPT !.step = step].kind = "walk"
    BY <2>3 DEF Walking
  <2>5. QED
    BY <2>1, <2>2, <2>4, QuietStep DEF At, RequestOK
<1>4. CASE EndWalk(r)
  BY <1>4, QuietStep, IdleIsOK DEF EndWalk, Ends, Tokenless
<1>5. QED
  BY <1>1, <1>2, <1>3, <1>4

\* A mark reads leads that were made, and read wins.
LEMMA MarkWrites ==
  ASSUME DeskInv, NEW r \in Requests, Mark(r)
  PROVE  /\ reads' \in [Sales \X Leads -> Nat]
         /\ \A x \in Sales \X Leads : /\ reads'[x] > 0 => reads[x] > 0 \/ lead[x[2]].made
                                      /\ reads[x] > 0 => reads'[x] > 0 /\ reads'[x] <= reads[x]
<1>1. /\ req[r].kind = "mark"
      /\ reads' = [x \in Sales \X Leads |->
                     IF x[1] = req[r].by /\ x[2] \in Marked(r)
                     THEN ReadAt(reads[x], req[r].time) ELSE reads[x]]
  BY DEF Mark, At
<1>2. req[r].time \in Nat \ {0} /\ reads \in [Sales \X Leads -> Nat]
  BY <1>1, WhatItHolds DEF DeskInv, ReadTypes
<1>3. \A x \in Sales \X Leads : /\ ReadAt(reads[x], req[r].time) \in Nat \ {0}
                                /\ reads[x] > 0 => ReadAt(reads[x], req[r].time) <= reads[x]
  BY <1>2 DEF ReadAt
<1>4. \A l \in Marked(r) : lead[l].made
  BY DEF Marked, Scope
<1>5. QED
  BY <1>1, <1>2, <1>3, <1>4

LEMMA MarkKeeps ==
  ASSUME DeskInv, NEW r \in Requests,
         Mark(r) \/ \E s \in Sales, S \in SUBSET Leads : BeginMark(r, s, S)
  PROVE  DeskInv'
<1>1. CASE Mark(r)
  <2>1. /\ req[r].kind = "mark" /\ Becomes(r, Idle)
        /\ UNCHANGED <<device, now, lead, queue, optedOut, brake, audited, shown>>
    BY <1>1 DEF Mark, At, Ends, Tokenless
  <2>2. RequestsHold' /\ \A s \in Requests : req'[s] = IF s = r THEN Idle ELSE req[s]
    BY <2>1, IdleIsOK, OneRequestMoves DEF DeskInv
  <2>3. RevealsHold'
    BY <2>1, <2>2, IdleIsOK, OthersKeepReveals DEF DeskInv
  <2>4. ReadTypes'
    <3>1. ASSUME NEW x \in Sales \X Leads, reads'[x] > 0
          PROVE  lead'[x[2]].made
      <4>1. reads[x] > 0 \/ lead[x[2]].made
        BY <1>1, <3>1, MarkWrites
      <4>2. QED
        BY <2>1, <4>1 DEF DeskInv, ReadTypes
    <3>2. QED
      BY <1>1, <3>1, MarkWrites DEF ReadTypes
  <2>5. QED
    BY <2>1, <2>2, <2>3, <2>4 DEF DeskInv, RowTypes, ConsentHolds
<1>2. ASSUME NEW s \in Sales, NEW S \in SUBSET Leads, BeginMark(r, s, S)
      PROVE  DeskInv'
  <2> DEFINE q == [kind |-> "mark", step |-> "commit", by |-> s, leads |-> S, time |-> now + 1]
  <2>1. Becomes(r, q) /\ req[r] = Idle /\ now' = now + 1 /\ UNCHANGED device /\ UNCHANGED deskVars
    BY <1>2 DEF BeginMark, Takes
  <2>2. q.time \in Nat \ {0} /\ q.kind = "mark" /\ q.step = "commit"
    BY DEF DeskInv, RowTypes
  <2> HIDE DEF q
  <2>3. RequestsHold' /\ \A t \in Requests : req'[t] = IF t = r THEN q ELSE req[t]
    BY <2>1, <2>2, OneRequestMoves DEF DeskInv, RequestOK
  <2>4. RevealsHold'
    BY <2>1, <2>2, <2>3, IdleIsOK, OthersKeepReveals DEF DeskInv, deskVars
  <2>5. UNCHANGED <<lead, queue, optedOut, reads>>
    BY <2>1 DEF deskVars
  <2>6. RowTypes'
    BY <2>1, <2>5 DEF DeskInv, RowTypes
  <2>7. ReadTypes' /\ ConsentHolds'
    BY <2>5 DEF DeskInv, ReadTypes, ConsentHolds
  <2>8. QED
    BY <2>3, <2>4, <2>6, <2>7 DEF DeskInv
<1>3. QED
  BY <1>1, <1>2

\* Rows of devices are the only rows a step of a device writes.
LEMMA DeviceRows ==
  ASSUME DeskInv, RequestsHold', RevealsHold', device' \in [Identities \X Tokens -> Device], now' \in Nat,
         UNCHANGED deskVars
  PROVE  DeskInv'
BY DEF DeskInv, RowTypes, ReadTypes, ConsentHolds, deskVars

LEMMA DevicesKeep ==
  ASSUME DeskInv, NEW r \in Requests, Devices(r), UNCHANGED deskVars
  PROVE  DeskInv'
<1>1. ASSUME NEW i \in Identities, NEW t \in Tokens, BeginRegister(r, i, t), req[r] = Idle
      PROVE  DeskInv'
  <2> DEFINE q == [kind |-> "register", step |-> "lock", who |-> i, token |-> t, time |-> now + 1]
  <2>1. Becomes(r, q) /\ now' = now + 1 /\ UNCHANGED device
    BY <1>1 DEF BeginRegister
  <2>2. now + 1 \in Nat /\ RequestOK(q) /\ q.kind = "register"
    BY DEF DeskInv, RowTypes, RequestOK
  <2> HIDE DEF q
  <2>3. RequestsHold' /\ \A s \in Requests : req'[s] = IF s = r THEN q ELSE req[s]
    BY <2>1, <2>2, OneRequestMoves DEF DeskInv
  <2>4. RevealsHold'
    BY <1>1, <2>2, <2>3, IdleIsOK, OthersKeepReveals DEF DeskInv, deskVars
  <2>5. QED
    BY <2>1, <2>2, <2>3, <2>4, DeviceRows DEF DeskInv, RowTypes
<1>2. CASE Register(r)
  <2> DEFINE i == req[r].who
             t == req[r].token
             rows == [device EXCEPT ![<<i, t>>] = [on |-> TRUE, seen |-> req[r].time]]
  <2>1. /\ req[r].kind = "register" /\ Becomes(r, Idle) /\ now' = now
        /\ device' = [x \in DOMAIN rows |->
                        IF x[1] = i /\ rows[x].on /\ x[2] \notin Retained(i, t, rows)
                        THEN [on |-> FALSE, seen |-> 0] ELSE rows[x]]
    BY <1>2 DEF Register, At, Ends
  <2>2. /\ req[r].time \in Nat /\ device \in [Identities \X Tokens -> Device]
    BY <2>1, WhatItHolds DEF DeskInv, RowTypes
  <2>3. [on |-> TRUE, seen |-> req[r].time] \in Device /\ [on |-> FALSE, seen |-> 0] \in Device
    BY <2>2, Zenon DEF Device
  <2>4. rows \in [Identities \X Tokens -> Device]
    BY <2>2, <2>3
  <2> HIDE DEF rows
  <2>5. device' \in [Identities \X Tokens -> Device]
    BY <2>1, <2>3, <2>4
  <2>6. RequestsHold' /\ \A s \in Requests : req'[s] = IF s = r THEN Idle ELSE req[s]
    BY <2>1, IdleIsOK, OneRequestMoves DEF DeskInv
  <2>7. RevealsHold'
    BY <2>1, <2>6, IdleIsOK, OthersKeepReveals DEF DeskInv, deskVars
  <2>8. QED
    BY <2>1, <2>5, <2>6, <2>7, DeviceRows DEF DeskInv, RowTypes
<1>3. ASSUME NEW i \in Identities, BeginPush(r, i), req[r] = Idle
      PROVE  DeskInv'
  <2> DEFINE q == [kind |-> "push", step |-> "send", left |-> Enabled(i, device), dead |-> {}]
  <2>1. Becomes(r, q) /\ UNCHANGED <<device, now>>
    BY <1>3 DEF BeginPush
  <2>2. RequestOK(q) /\ q.kind = "push"
    BY DEF RequestOK, Pushing, Enabled
  <2>3. QED
    BY <1>3, <2>1, <2>2, QuietStep, IdleIsOK
<1>4. ASSUME NEW t \in Tokens, Send(r, t) \/ Prune(r, t)
      PROVE  DeskInv'
  <2>1. /\ req[r].kind = "push" /\ now' = now
        /\ \/ \E dead \in {{}, {t}} : req' = [req EXCEPT ![r].left = @ \ {t}, ![r].dead = @ \cup dead]
           \/ req' = [req EXCEPT ![r].dead = @ \ {t}]
    BY <1>4 DEF Send, Prune, At
  <2>2. req[r] \in Pushing
    BY <2>1, WhatItHolds DEF DeskInv
  <2>3. PICK q \in Pushing : Becomes(r, q)
    <3>1. CASE req' = [req EXCEPT ![r].dead = @ \ {t}]
      <4>1. [req[r] EXCEPT !.dead = @ \ {t}] \in Pushing
        BY <2>2 DEF Pushing
      <4>2. QED
        BY <3>1, <4>1 DEF Becomes
    <3>2. ASSUME NEW dead \in {{}, {t}}, req' = [req EXCEPT ![r].left = @ \ {t}, ![r].dead = @ \cup dead]
          PROVE  \E q \in Pushing : Becomes(r, q)
      <4>1. [req[r] EXCEPT !.left = @ \ {t}, !.dead = @ \cup dead] \in Pushing
        BY <2>2 DEF Pushing
      <4>2. QED
        BY <3>2, <4>1 DEF Becomes
    <3>3. QED
      BY <2>1, <3>1, <3>2
  <2>4. q.kind = "push"
    BY DEF Pushing
  <2>5. RequestsHold' /\ \A s \in Requests : req'[s] = IF s = r THEN q ELSE req[s]
    BY <2>3, OneRequestMoves DEF DeskInv, RequestOK
  <2>6. RevealsHold'
    BY <2>1, <2>4, <2>5, OthersKeepReveals DEF DeskInv, deskVars
  <2>7. device' \in [Identities \X Tokens -> Device]
    <3>1. device \in [Identities \X Tokens -> Device]
      BY DEF DeskInv, RowTypes
    <3>2. \A x \in Identities \X Tokens : [device[x] EXCEPT !.on = FALSE] \in Device
      BY <3>1 DEF Device
    <3>3. CASE device' = [x \in DOMAIN device |->
                            IF x[2] = t THEN [device[x] EXCEPT !.on = FALSE] ELSE device[x]]
      BY <3>1, <3>2, <3>3
    <3>4. QED
      BY <1>4, <3>1, <3>3 DEF Send, Prune
  <2>8. QED
    BY <2>1, <2>5, <2>6, <2>7, DeviceRows DEF DeskInv, RowTypes
<1>5. CASE EndPush(r)
  BY <1>5, QuietStep, IdleIsOK DEF EndPush, At, Ends
<1>6. QED
  BY <1>1, <1>2, <1>3, <1>4, <1>5 DEF Devices

LEMMA RemoveKeeps ==
  ASSUME DeskInv, NEW i \in Identities, NEW t \in Tokens, RemoveToken(i, t), UNCHANGED deskVars
  PROVE  DeskInv'
<1>1. device \in [Identities \X Tokens -> Device] /\ <<i, t>> \in Identities \X Tokens
  BY DEF DeskInv, RowTypes
<1>2. device[<<i, t>>] \in Device
  BY <1>1, Zenon
<1>3. [device[<<i, t>>] EXCEPT !.on = FALSE] \in Device
  BY <1>2 DEF Device
<1>4. /\ device' = [device EXCEPT ![<<i, t>>] = [device[<<i, t>>] EXCEPT !.on = FALSE]]
      /\ UNCHANGED <<now, req>>
  BY DEF RemoveToken
<1>5. device' \in [Identities \X Tokens -> Device]
  BY <1>1, <1>3, <1>4
<1>6. QED
  BY <1>4, <1>5, DeviceRows DEF DeskInv, RowTypes, RequestsHold, RevealsHold, OnTheirWay, deskVars

-------------------------------------------------------------------------------
LEMMA DeskInvIsInductive == DeskInv /\ [Next]_vars => DeskInv'
<1> SUFFICES ASSUME DeskInv, [Next]_vars
             PROVE  DeskInv'
  OBVIOUS
<1>1. CASE Board
  BY <1>1, BoardKeeps
<1>2. ASSUME NEW a \in Actors, LeaveWindow(a)
      PROVE  DeskInv'
  BY <1>2, WindowKeeps
<1>3. ASSUME NEW r \in Requests, Reengage(r) \/ Withdraw(r) \/ RevealPhone(r)
      PROVE  DeskInv'
  BY <1>3, ReengageKeeps, WithdrawKeeps, RevealKeeps
<1>4. ASSUME NEW r \in Requests, Read(r)
      PROVE  DeskInv'
  <2>1. \A s \in Sales, l \in Leads :
           BeginMark(r, s, {l}) \/ BeginMark(r, s, {k \in Leads : k <= l}) =>
              \E S \in SUBSET Leads : BeginMark(r, s, S)
    OBVIOUS
  <2>2. Admin \in Actors
    BY DEF Actors
  <2>3. QED
    BY <1>4, <2>1, <2>2, WalkKeeps, MarkKeeps DEF Read
<1>5. ASSUME NEW r \in Requests, Devices(r), UNCHANGED deskVars
      PROVE  DeskInv'
  BY <1>5, DevicesKeep
<1>6. ASSUME NEW i \in Identities, NEW t \in Tokens, RemoveToken(i, t), UNCHANGED deskVars
      PROVE  DeskInv'
  BY <1>6, RemoveKeeps
<1>7. CASE UNCHANGED vars
  BY <1>7 DEF vars, deskVars, DeskInv, RowTypes, ReadTypes, ConsentHolds, RequestsHold, RevealsHold,
     OnTheirWay
<1>8. QED
  BY <1>1, <1>2, <1>3, <1>4, <1>5, <1>6, <1>7 DEF Next

LEMMA DeskInvHolds == Spec => []DeskInv
BY DeskInvHoldsAtFirst, DeskInvIsInductive, PTL DEF Spec

-------------------------------------------------------------------------------
\* Once a customer's consent is withdrawn, no row of theirs is eligible again and no
\* run that reads the leads later finds them, for any leads, brokers and requests.
THEOREM OptOutsHold == Spec => []OptOutHolds
<1>1. DeskInv => OptOutHolds
  <2> SUFFICES ASSUME DeskInv
               PROVE  OptOutHolds
    OBVIOUS
  <2>1. \A r \in Requests : req[r] = Idle \/ req[r].step \in Steps[req[r].kind]
    <3> SUFFICES ASSUME NEW r \in Requests
                 PROVE  req[r] = Idle \/ req[r].step \in Steps[req[r].kind]
      OBVIOUS
    <3>1. RequestOK(req[r])
      BY DEF DeskInv, RequestsHold
    <3>2. QED
      BY <3>1 DEF RequestOK, Saving, Asked, Cancelling, Revealing, Pushing, Walking, Steps
  <2>2. TypeOK
    <3>1. shown \subseteq Actors \X Customers
      BY DEF DeskInv, RevealsHold
    <3>2. QED
      BY <2>1, <3>1 DEF DeskInv, RowTypes, ReadTypes, RevealsHold, TypeOK, Lead, Device
  <2>3. \A l \in Leads : CustomerOf[l] \in optedOut => ~Eligible(l)
    BY DEF DeskInv, ConsentHolds, Eligible
  <2>4. \A r \in Requests : At(r, "run", "save") => req[r].found \cap req[r].out = {}
    BY WhatItHolds DEF DeskInv
  <2>5. QED
    BY <2>2, <2>3, <2>4 DEF OptOutHolds
<1>2. QED
  BY <1>1, DeskInvHolds, PTL

\* A phone that was shown has a durable record, and a window holds at most RevealLimit
\* reveals of an actor and one for each other request, for any number of requests.
THEOREM RevealsStayAccounted == Spec => []RevealsAreAccounted
<1>1. DeskInv => RevealsAreAccounted
  BY WayIsFinite, RevealsAreLimited DEF DeskInv, RevealsHold, RevealsAreAccounted
<1>2. QED
  BY <1>1, DeskInvHolds, PTL

\* A lead that was read stays read, since its first reading at the latest.
THEOREM ReadingsOnlyDeepen == Spec => ReadsOnlyDeepen
<1>1. DeskInv /\ [Next]_vars =>
        [\A x \in Sales \X Leads : reads[x] > 0 => reads'[x] > 0 /\ reads'[x] <= reads[x]]_vars
  <2> SUFFICES ASSUME DeskInv, Next, NEW x \in Sales \X Leads, reads[x] > 0
               PROVE  reads'[x] > 0 /\ reads'[x] <= reads[x]
    OBVIOUS
  <2>1. reads[x] \in Nat
    BY DEF DeskInv, ReadTypes
  <2>2. CASE \E r \in Requests : Mark(r)
    BY <2>2, MarkWrites
  <2>3. CASE ~\E r \in Requests : Mark(r)
    <3>1. ASSUME Board
          PROVE  UNCHANGED reads
      BY <3>1 DEF Board, Insert, SetStatus, Assign
    <3>2. ASSUME NEW a \in Actors, LeaveWindow(a)
          PROVE  UNCHANGED reads
      BY <3>2 DEF LeaveWindow
    <3>3. ASSUME NEW r \in Requests, Reengage(r)
          PROVE  UNCHANGED reads
      BY <3>3 DEF Reengage, BeginRun, LoadLeads, EndRun, Save, deskVars
    <3>4. ASSUME NEW r \in Requests, Withdraw(r)
          PROVE  UNCHANGED reads
      BY <3>4 DEF Withdraw, BeginWithdraw, Stamp, ListEntries, CancelEntry, EndWithdraw, deskVars
    <3>5. ASSUME NEW r \in Requests, RevealPhone(r)
          PROVE  UNCHANGED reads
      BY <3>5 DEF RevealPhone, BeginReveal, ReadLeads, Reveal, deskVars
    <3>6. ASSUME NEW r \in Requests, Read(r)
          PROVE  UNCHANGED reads
      BY <2>3, <3>6 DEF Read, BeginWalk, ReadPage, ReadStates, EndWalk, BeginMark, deskVars
    <3>7. ASSUME UNCHANGED deskVars
          PROVE  UNCHANGED reads
      BY <3>7 DEF deskVars
    <3>8. UNCHANGED reads
      BY <3>1, <3>2, <3>3, <3>4, <3>5, <3>6, <3>7 DEF Next
    <3>9. QED
      BY <2>1, <3>8
  <2>4. QED
    BY <2>2, <2>3
<1>2. QED
  BY <1>1, DeskInvHolds, PTL DEF Spec, ReadsOnlyDeepen

-------------------------------------------------------------------------------
(***************************************************************************)
(* Whose step it is.                                                       *)
(***************************************************************************)

\* A request of one kind takes a step, or an idle one becomes of that kind.
Moves(r, kind) ==
    /\ req[r].kind \in {"idle", kind} /\ req'[r].kind \in {"idle", kind}
    /\ \A s \in Requests \ {r} : req'[s] = req[s]

LEMMA MovesByUpdate ==
  ASSUME RequestsHold, NEW r \in Requests, NEW q, Becomes(r, q), NEW kind,
         req[r].kind \in {"idle", kind}, q.kind \in {"idle", kind}
  PROVE  Moves(r, kind)
BY DEF RequestsHold, Becomes, Moves

LEMMA RunsMove ==
  ASSUME DeskInv, NEW r \in Requests, Reengage(r)
  PROVE  Moves(r, "run")
<1>0. RequestsHold
  BY DEF DeskInv
<1>1. ASSUME NEW p \in Projects, BeginRun(r, p)
      PROVE  Moves(r, "run")
  BY <1>0, <1>1, IdleIsOK, MovesByUpdate DEF BeginRun, Takes
<1>2. CASE LoadLeads(r)
  BY <1>0, <1>2, MovesByUpdate DEF LoadLeads, At
<1>3. CASE EndRun(r)
  BY <1>0, <1>3, IdleIsOK, MovesByUpdate DEF EndRun, Ends
<1>4. ASSUME NEW c \in Customers, Save(r, c)
      PROVE  Moves(r, "run")
  <2>1. PICK q : q = [req[r] EXCEPT !.found = @ \ {c}]
    OBVIOUS
  <2>2. Becomes(r, q) /\ req[r].kind = "run" /\ req[r] \in Saving
    BY <1>0, <1>4, <2>1, WhatItHolds DEF Save, At, Becomes
  <2>3. q.kind = "run"
    BY <2>1, <2>2 DEF Saving
  <2>4. QED
    BY <1>0, <2>2, <2>3, MovesByUpdate
<1>5. QED
  BY <1>1, <1>2, <1>3, <1>4 DEF Reengage

LEMMA WithdrawalsMove ==
  ASSUME DeskInv, NEW r \in Requests, Withdraw(r)
  PROVE  Moves(r, "withdraw")
<1>0. RequestsHold
  BY DEF DeskInv
<1>1. ASSUME NEW a \in Actors, NEW c \in Customers, BeginWithdraw(r, a, c)
      PROVE  Moves(r, "withdraw")
  BY <1>0, <1>1, IdleIsOK, MovesByUpdate DEF BeginWithdraw, Takes
<1>2. CASE Stamp(r)
  <2>1. req[r] \in Asked /\ req[r].kind = "withdraw"
    BY <1>0, <1>2, WhatItHolds DEF Stamp, At
  <2>2. PICK q : q = [req[r] EXCEPT !.step = "list"]
    OBVIOUS
  <2>3. Becomes(r, Idle) \/ Becomes(r, q)
    BY <1>2, <2>2 DEF Stamp, Ends, Becomes
  <2>4. q.kind = "withdraw"
    BY <2>1, <2>2 DEF Asked
  <2>5. QED
    BY <1>0, <2>1, <2>3, <2>4, IdleIsOK, MovesByUpdate
<1>3. CASE ListEntries(r)
  BY <1>0, <1>3, MovesByUpdate DEF ListEntries, At
<1>4. CASE EndWithdraw(r)
  BY <1>0, <1>4, IdleIsOK, MovesByUpdate DEF EndWithdraw, Ends
<1>5. ASSUME NEW d \in Documents, CancelEntry(r, d)
      PROVE  Moves(r, "withdraw")
  <2>1. PICK q : q = [req[r] EXCEPT !.doomed = @ \ {d}]
    OBVIOUS
  <2>2. Becomes(r, q) /\ req[r].kind = "withdraw" /\ req[r] \in Cancelling
    BY <1>0, <1>5, <2>1, WhatItHolds DEF CancelEntry, At, Becomes
  <2>3. q.kind = "withdraw"
    BY <2>1, <2>2 DEF Cancelling
  <2>4. QED
    BY <1>0, <2>2, <2>3, MovesByUpdate
<1>6. QED
  BY <1>1, <1>2, <1>3, <1>4, <1>5 DEF Withdraw

LEMMA RevealsMove ==
  ASSUME DeskInv, NEW r \in Requests, RevealPhone(r)
  PROVE  Moves(r, "reveal")
<1>0. RequestsHold
  BY DEF DeskInv
<1>1. ASSUME NEW a \in Actors, NEW c \in Customers, BeginReveal(r, a, c)
      PROVE  Moves(r, "reveal")
  BY <1>0, <1>1, IdleIsOK, MovesByUpdate DEF BeginReveal, Takes
<1>2. CASE ReadLeads(r)
  <2>1. req[r] \in Revealing /\ req[r].kind = "reveal"
    BY <1>0, <1>2, WhatItHolds DEF ReadLeads, At
  <2>2. PICK q : q = [req[r] EXCEPT !.step = "audit"]
    OBVIOUS
  <2>3. Becomes(r, Idle) \/ Becomes(r, q)
    BY <1>2, <2>2 DEF ReadLeads, Ends, Becomes
  <2>4. q.kind = "reveal"
    BY <2>1, <2>2 DEF Revealing
  <2>5. QED
    BY <1>0, <2>1, <2>3, <2>4, IdleIsOK, MovesByUpdate
<1>3. CASE Reveal(r)
  BY <1>0, <1>3, IdleIsOK, MovesByUpdate DEF Reveal, At, Ends
<1>4. QED
  BY <1>1, <1>2, <1>3 DEF RevealPhone

LEMMA ReadersMove ==
  ASSUME DeskInv, NEW r \in Requests, Read(r)
  PROVE  Moves(r, "walk") \/ Moves(r, "mark")
<1>0. RequestsHold
  BY DEF DeskInv
<1>1. ASSUME NEW a \in Actors, BeginWalk(r, a)
      PROVE  Moves(r, "walk")
  BY <1>0, <1>1, IdleIsOK, MovesByUpdate DEF BeginWalk, Takes
<1>2. CASE ReadPage(r)
  <2>1. Walking(req[r]) /\ req[r].kind = "walk"
    BY <1>0, <1>2, WhatItHolds DEF ReadPage, At
  <2>2. \E page, more, below, listed, twice :
           req' = [req EXCEPT ![r].step = "states", ![r].page = page, ![r].more = more,
                              ![r].below = below, ![r].listed = listed, ![r].twice = twice]
    BY <1>2 DEF ReadPage
  <2>3. PICK page, more, below, listed, twice :
           req' = [req EXCEPT ![r].step = "states", ![r].page = page, ![r].more = more,
                              ![r].below = below, ![r].listed = listed, ![r].twice = twice]
    BY <2>2
  <2>4. PICK q : q = [req[r] EXCEPT !.step = "states", !.page = page, !.more = more,
                                    !.below = below, !.listed = listed, !.twice = twice]
    OBVIOUS
  <2>5. Becomes(r, q) /\ q.kind = "walk"
    BY <2>1, <2>3, <2>4 DEF Walking, Becomes
  <2>6. QED
    BY <1>0, <2>1, <2>5, MovesByUpdate
<1>3. CASE ReadStates(r)
  <2>1. Walking(req[r]) /\ req[r].kind = "walk"
    BY <1>0, <1>3, WhatItHolds DEF ReadStates, At
  <2>2. \E step : req' = [req EXCEPT ![r].step = step]
    BY <1>3 DEF ReadStates
  <2>3. PICK step : req' = [req EXCEPT ![r].step = step]
    BY <2>2
  <2>4. PICK q : q = [req[r] EXCEPT !.step = step]
    OBVIOUS
  <2>5. Becomes(r, q) /\ q.kind = "walk"
    BY <2>1, <2>3, <2>4 DEF Walking, Becomes
  <2>6. QED
    BY <1>0, <2>1, <2>5, MovesByUpdate
<1>4. CASE EndWalk(r)
  BY <1>0, <1>4, IdleIsOK, MovesByUpdate DEF EndWalk, Ends
<1>5. CASE Mark(r)
  BY <1>0, <1>5, IdleIsOK, MovesByUpdate DEF Mark, At, Ends
<1>6. ASSUME NEW s \in Sales, NEW S, BeginMark(r, s, S)
      PROVE  Moves(r, "mark")
  BY <1>0, <1>6, IdleIsOK, MovesByUpdate DEF BeginMark, Takes
<1>7. QED
  BY <1>1, <1>2, <1>4, <1>5, <1>6, <1>3 DEF Read

-------------------------------------------------------------------------------
(***************************************************************************)
(* Attempts.  Counting the entries and saving one are statements apart, so *)
(* the cap alone is not inductive: runs on their way may each add one.     *)
(***************************************************************************)

\* One page shows the whole queue, and document ids are ordered.
QueueFits ==
    /\ IsFiniteSet(Documents) /\ QueuePage \in Nat /\ Cardinality(Documents) <= QueuePage
    /\ DocRank \in [Documents -> Nat]

Queued(c) == {d \in queue : d[1] = c}

\* Runs that may still save an entry of the customer.
Pending(c) ==
    {r \in Requests : \/ At(r, "run", "leads") /\ req[r].counts[c] < MaxAttempts
                      \/ At(r, "run", "save") /\ c \in req[r].found}

AttemptInv ==
    \A c \in Customers :
        Cardinality(Queued(c)) + Cardinality(Pending(c)) <= MaxAttempts + Cardinality(Requests) - 1

LEMMA QueuedAreFinite ==
  ASSUME QueueFits, NEW Q, Q \subseteq Documents
  PROVE  IsFiniteSet(Q) /\ Cardinality(Q) \in Nat
<1>1. Q \in SUBSET Documents
  OBVIOUS
<1>2. QED
  BY <1>1, FS_Subset, FS_CardinalityType DEF QueueFits

LEMMA PendingAreFinite ==
  ASSUME NEW S \in SUBSET Requests
  PROVE  /\ IsFiniteSet(S) /\ Cardinality(S) \in Nat
         /\ Cardinality(S) <= Cardinality(Requests) /\ Cardinality(Requests) \in Nat
BY RevealsAreLimited, FS_Subset, FS_CardinalityType

\* A list of the queue shows all of it.
LEMMA AllAreListed ==
  ASSUME QueueFits, queue \subseteq Documents
  PROVE  Listed = queue
<1> SUFFICES ASSUME NEW d \in queue
             PROVE  Cardinality({e \in queue : DocRank[e] < DocRank[d]}) < QueuePage
  BY DEF Listed
<1> DEFINE S == {e \in queue : DocRank[e] < DocRank[d]}
<1>1. d \in Documents /\ DocRank[d] \in Nat
  BY DEF QueueFits
<1>2. S \in SUBSET Documents /\ d \notin S
  BY <1>1
<1> HIDE DEF S
<1>3. S # Documents
  BY <1>1, <1>2
<1>4. /\ Cardinality(S) \in Nat /\ Cardinality(Documents) \in Nat
      /\ Cardinality(S) <= Cardinality(Documents)
      /\ Cardinality(S) = Cardinality(Documents) => S = Documents
  BY <1>2, QueuedAreFinite, FS_Subset, FS_CardinalityType DEF QueueFits
<1>5. QED
  BY <1>3, <1>4 DEF QueueFits, S

\* A step after which no entry is added and no more runs may save one.
LEMMA FewerAttempts ==
  ASSUME QueueFits, DeskInv, AttemptInv, queue' \subseteq queue,
         \A c \in Customers : Pending(c)' \subseteq Pending(c)
  PROVE  AttemptInv'
<1> SUFFICES ASSUME NEW c \in Customers
             PROVE  Cardinality(Queued(c)') + Cardinality(Pending(c)')
                       <= MaxAttempts + Cardinality(Requests) - 1
  BY DEF AttemptInv
<1>1. queue \subseteq Documents
  BY DEF DeskInv, RowTypes
<1>2. Queued(c)' \in SUBSET Queued(c) /\ Queued(c) \subseteq Documents /\ Queued(c)' \subseteq Documents
  BY <1>1 DEF Queued
<1>3. Pending(c)' \in SUBSET Pending(c) /\ Pending(c) \in SUBSET Requests /\ Pending(c)' \in SUBSET Requests
  BY DEF Pending
<1>4. /\ Cardinality(Queued(c)') <= Cardinality(Queued(c))
      /\ Cardinality(Queued(c)') \in Nat /\ Cardinality(Queued(c)) \in Nat
  BY <1>2, QueuedAreFinite, FS_Subset
<1>5. /\ Cardinality(Pending(c)') <= Cardinality(Pending(c)) /\ Cardinality(Requests) \in Nat
      /\ Cardinality(Pending(c)') \in Nat /\ Cardinality(Pending(c)) \in Nat
  BY <1>3, PendingAreFinite, FS_Subset
<1>6. QED
  BY <1>4, <1>5, SizesArePositive DEF AttemptInv

\* A request of another kind does not change who may save.
LEMMA PendingStay ==
  ASSUME NEW r \in Requests, NEW kind, Moves(r, kind), kind # "run"
  PROVE  \A c : Pending(c)' = Pending(c)
<1>1. ~At(r, "run", "leads") /\ ~At(r, "run", "save")
      /\ ~At(r, "run", "leads")' /\ ~At(r, "run", "save")'
  BY DEF Moves, At
<1>2. \A s \in Requests \ {r} : req'[s] = req[s]
  BY DEF Moves
<1>3. \A s \in Requests \ {r} : \A k, p : At(s, k, p)' = At(s, k, p)
  BY <1>2 DEF At
<1>4. QED
  BY <1>1, <1>2, <1>3 DEF Pending

LEMMA ReengageKeepsAttempts ==
  ASSUME QueueFits, DeskInv, AttemptInv, NEW r \in Requests, Reengage(r)
  PROVE  AttemptInv'
<1>0. /\ RequestsHold /\ queue \subseteq Documents
      /\ \A s \in Requests \ {r} : req'[s] = req[s]
  BY RunsMove DEF DeskInv, RowTypes, Moves
<1>1. ASSUME NEW p \in Projects, BeginRun(r, p)
      PROVE  AttemptInv'
  <2>1. PICK q : q = [kind |-> "run", step |-> "leads", project |-> p, counts |-> AttemptCounts]
    OBVIOUS
  <2>2. /\ req[r] = Idle /\ Becomes(r, q) /\ queue' = queue
        /\ q.kind = "run" /\ q.step = "leads"
        /\ \A c \in Customers : q.counts[c] = Cardinality(Queued(c))
    <3>1. \A c \in Customers : AttemptCounts[c] = Cardinality(Queued(c))
      BY <1>0, AllAreListed DEF AttemptCounts, Queued
    <3>2. QED
      BY <1>1, <2>1, <3>1 DEF BeginRun, Takes, deskVars
  <2>3. req'[r] = q
    BY <1>0, <2>2 DEF RequestsHold, Becomes
  <2>4. ASSUME NEW c \in Customers
        PROVE  Cardinality(Queued(c)') + Cardinality(Pending(c)')
                  <= MaxAttempts + Cardinality(Requests) - 1
    <3>1. Queued(c)' = Queued(c) /\ Queued(c) \subseteq Documents
      BY <1>0, <2>2 DEF Queued
    <3>2. PICK n \in Nat : n = Cardinality(Queued(c))
      BY <3>1, QueuedAreFinite
    <3>3. Pending(c) \in SUBSET Requests /\ Pending(c)' \in SUBSET Requests
      BY DEF Pending
    <3>4. CASE n < MaxAttempts
      BY <3>1, <3>2, <3>3, <3>4, PendingAreFinite, SizesArePositive
    <3>5. CASE ~(n < MaxAttempts)
      <4>1. r \notin Pending(c) /\ ~(r \in Pending(c)')
        BY <2>2, <2>3, <3>2, <3>5, IdleIsOK DEF Pending, At
      <4>2. Pending(c)' = Pending(c)
        BY <1>0, <4>1 DEF Pending, At
      <4>3. QED
        BY <3>1, <4>2 DEF AttemptInv
    <3>6. QED
      BY <3>4, <3>5
  <2>5. QED
    BY <2>4 DEF AttemptInv
<1>2. CASE LoadLeads(r)
  <2>1. At(r, "run", "leads") /\ queue' = queue
    BY <1>2 DEF LoadLeads, deskVars
  <2>2. req'[r].step = "save" /\ req'[r].kind = "run" /\ req'[r].found = Matched(r)
    BY <1>0, <1>2 DEF LoadLeads, Becomes, RequestsHold
  <2>3. ASSUME NEW c \in Matched(r)
        PROVE  req[r].counts[c] < MaxAttempts
    BY DEF Matched
  <2>4. ASSUME NEW c
        PROVE  Pending(c)' \subseteq Pending(c)
    <3>1. r \in Pending(c)' => r \in Pending(c)
      BY <2>1, <2>2, <2>3 DEF Pending, At
    <3>2. \A s \in Requests \ {r} : s \in Pending(c)' <=> s \in Pending(c)
      BY <1>0 DEF Pending, At
    <3>3. QED
      BY <3>1, <3>2 DEF Pending
  <2>5. QED
    BY <2>1, <2>4, FewerAttempts
<1>3. CASE EndRun(r)
  <2>1. req'[r] = Idle /\ queue' = queue
    BY <1>0, <1>3 DEF EndRun, Ends, Becomes, RequestsHold, deskVars
  <2>2. ASSUME NEW c
        PROVE  Pending(c)' \subseteq Pending(c)
    BY <1>0, <2>1, IdleIsOK DEF Pending, At
  <2>3. QED
    BY <2>1, <2>2, FewerAttempts
<1>4. ASSUME NEW b \in Customers, Save(r, b)
      PROVE  AttemptInv'
  <2>1. /\ At(r, "run", "save") /\ b \in req[r].found /\ req[r] \in Saving
        /\ queue' = queue \cup {<<b, req[r].project>>}
    BY <1>0, <1>4, WhatItHolds DEF Save
  <2>2. PICK q : q = [req[r] EXCEPT !.found = @ \ {b}]
    OBVIOUS
  <2>3. req'[r] = q
    BY <1>0, <1>4, <2>2 DEF Save, RequestsHold
  <2>4. q.kind = "run" /\ q.step = "save" /\ q.found = req[r].found \ {b}
    BY <2>1, <2>2 DEF Saving
  <2>5. /\ Pending(b)' = Pending(b) \ {r} /\ r \in Pending(b)
        /\ \A c \in Customers \ {b} : Pending(c)' = Pending(c)
    <3>1. \A c : r \in Pending(c) <=> c \in req[r].found
      BY <2>1 DEF Pending, At
    <3>2. \A c : r \in Pending(c)' <=> c \in req[r].found \ {b}
      BY <2>3, <2>4 DEF Pending, At
    <3>3. \A c : \A s \in Requests \ {r} : s \in Pending(c)' <=> s \in Pending(c)
      BY <1>0 DEF Pending, At
    <3>4. \A c : Pending(c) \subseteq Requests /\ Pending(c)' \subseteq Requests
      BY DEF Pending
    <3>5. r \in Pending(b) /\ ~(r \in Pending(b)')
      BY <2>1, <3>1, <3>2
    <3>6. Pending(b)' = Pending(b) \ {r}
      BY <3>3, <3>4, <3>5
    <3>7. ASSUME NEW c \in Customers \ {b}
          PROVE  Pending(c)' = Pending(c)
      <4>1. r \in Pending(c)' <=> r \in Pending(c)
        BY <3>1, <3>2
      <4>2. QED
        BY <3>3, <3>4, <4>1
    <3>8. QED
      BY <3>5, <3>6, <3>7
  <2>6. ASSUME NEW c \in Customers
        PROVE  Cardinality(Queued(c)') + Cardinality(Pending(c)')
                  <= MaxAttempts + Cardinality(Requests) - 1
    <3>1. /\ Queued(c) \subseteq Documents /\ Pending(c) \in SUBSET Requests
      BY <1>0 DEF Queued, Pending
    <3>2. PICK n \in Nat, k \in Nat : n = Cardinality(Queued(c)) /\ k = Cardinality(Pending(c))
      BY <3>1, QueuedAreFinite, PendingAreFinite
    <3>3. n + k <= MaxAttempts + Cardinality(Requests) - 1 /\ Cardinality(Requests) \in Nat
      BY <3>1, <3>2, PendingAreFinite DEF AttemptInv
    <3>4. CASE c # b
      <4>1. Queued(c)' = Queued(c)
        BY <2>1, <3>4 DEF Queued
      <4>2. QED
        BY <2>5, <3>2, <3>3, <3>4, <4>1
    <3>5. CASE c = b
      <4>1. Cardinality(Pending(c)') = k - 1
        BY <2>5, <3>1, <3>2, <3>5, PendingAreFinite, FS_RemoveElement
      <4>2. Cardinality(Queued(c)') \in Nat /\ Cardinality(Queued(c)') <= n + 1
        <5>1. Queued(c)' = Queued(c) \cup {<<b, req[r].project>>}
          BY <2>1, <3>5 DEF Queued
        <5>2. IsFiniteSet(Queued(c))
          BY <3>1, QueuedAreFinite
        <5>3. Cardinality(Queued(c)') \in {n, n + 1}
          BY <3>2, <5>1, <5>2, FS_AddElement
        <5>4. QED
          BY <5>3
      <4>3. QED
        BY <3>3, <4>1, <4>2, SizesArePositive
    <3>6. QED
      BY <3>4, <3>5
  <2>7. QED
    BY <2>6 DEF AttemptInv
<1>5. QED
  BY <1>1, <1>2, <1>3, <1>4 DEF Reengage

LEMMA DevicesMove ==
  ASSUME DeskInv, NEW r \in Requests, Devices(r)
  PROVE  Moves(r, "register") \/ Moves(r, "push")
<1>0. RequestsHold
  BY DEF DeskInv
<1>1. ASSUME NEW i \in Identities, NEW t \in Tokens, req[r] = Idle, BeginRegister(r, i, t)
      PROVE  Moves(r, "register")
  BY <1>0, <1>1, IdleIsOK, MovesByUpdate DEF BeginRegister
<1>2. ASSUME NEW i \in Identities, req[r] = Idle, BeginPush(r, i)
      PROVE  Moves(r, "push")
  BY <1>0, <1>2, IdleIsOK, MovesByUpdate DEF BeginPush
<1>3. CASE Register(r)
  BY <1>0, <1>3, IdleIsOK, MovesByUpdate DEF Register, At, Ends
<1>4. CASE EndPush(r)
  BY <1>0, <1>4, IdleIsOK, MovesByUpdate DEF EndPush, At, Ends
<1>5. ASSUME NEW t \in Tokens, Send(r, t)
      PROVE  Moves(r, "push")
  <2>1. PICK dead : req' = [req EXCEPT ![r].left = @ \ {t}, ![r].dead = @ \cup dead]
    BY <1>5 DEF Send
  <2>2. PICK q : q = [req[r] EXCEPT !.left = @ \ {t}, !.dead = @ \cup dead]
    OBVIOUS
  <2>3. req[r] \in Pushing /\ req[r].kind = "push"
    BY <1>0, <1>5, WhatItHolds DEF Send, At
  <2>4. Becomes(r, q) /\ q.kind = "push"
    BY <2>1, <2>2, <2>3 DEF Becomes, Pushing
  <2>5. QED
    BY <1>0, <2>3, <2>4, MovesByUpdate
<1>6. ASSUME NEW t \in Tokens, Prune(r, t)
      PROVE  Moves(r, "push")
  <2>1. PICK q : q = [req[r] EXCEPT !.dead = @ \ {t}]
    OBVIOUS
  <2>2. req[r] \in Pushing /\ req[r].kind = "push"
    BY <1>0, <1>6, WhatItHolds DEF Prune, At
  <2>3. Becomes(r, q) /\ q.kind = "push"
    BY <1>6, <2>1, <2>2 DEF Becomes, Pushing, Prune
  <2>4. QED
    BY <1>0, <2>2, <2>3, MovesByUpdate
<1>7. QED
  BY <1>1, <1>2, <1>3, <1>4, <1>5, <1>6 DEF Devices

\* The board takes a lead from the walks of the owner it had; nothing else it
\* does is about a request.
LEMMA BoardMovesWalks ==
  ASSUME DeskInv, Board
  PROVE  \A r \in Requests : /\ req'[r].kind = req[r].kind
                             /\ req[r].kind # "walk" => req'[r] = req[r]
<1>1. CASE Insert \/ \E l \in Leads : SetStatus(l)
  BY <1>1 DEF Insert, SetStatus
<1>2. ASSUME NEW l \in Leads, NEW s \in Sales, Assign(l, s), NEW r \in Requests
      PROVE  req'[r].kind = req[r].kind /\ (req[r].kind # "walk" => req'[r] = req[r])
  <2>1. req'[r] = IF req[r].kind = "walk" /\ req[r].by = lead[l].owner
                  THEN [req[r] EXCEPT !.owed = @ \ {l}] ELSE req[r]
    BY <1>2 DEF Assign
  <2>2. req[r].kind = "walk" => Walking(req[r])
    BY WhatItHolds DEF DeskInv
  <2>3. QED
    BY <2>1, <2>2 DEF Walking
<1>3. QED
  BY <1>1, <1>2 DEF Board

LEMMA OthersKeepAttempts ==
  ASSUME QueueFits, DeskInv, AttemptInv, queue' \subseteq queue,
         NEW r \in Requests, NEW kind, Moves(r, kind), kind # "run"
  PROVE  AttemptInv'
BY PendingStay, FewerAttempts

LEMMA AttemptInvIsInductive ==
  ASSUME QueueFits, DeskInv, AttemptInv, [Next]_vars
  PROVE  AttemptInv'
<1>1. CASE Board
  <2>1. \A r \in Requests : \A step : At(r, "run", step)' <=> At(r, "run", step)
    BY <1>1, BoardMovesWalks DEF At
  <2>2. \A r \in Requests : \A step : At(r, "run", step) => req'[r] = req[r]
    BY <1>1, BoardMovesWalks DEF At
  <2>3. \A c : Pending(c)' = Pending(c)
    BY <2>1, <2>2 DEF Pending
  <2>4. queue' = queue
    BY <1>1 DEF Board, Insert, SetStatus, Assign
  <2>5. QED
    BY <2>3, <2>4, FewerAttempts
<1>2. CASE UNCHANGED <<queue, req>>
  <2>1. \A c : Pending(c)' = Pending(c)
    BY <1>2 DEF Pending, At
  <2>2. QED
    BY <1>2, <2>1, FewerAttempts
<1>3. CASE \E a \in Actors : LeaveWindow(a)
  BY <1>2, <1>3 DEF LeaveWindow
<1>4. ASSUME NEW r \in Requests, Reengage(r)
      PROVE  AttemptInv'
  BY <1>4, ReengageKeepsAttempts
<1>5. ASSUME NEW r \in Requests, Withdraw(r)
      PROVE  AttemptInv'
  <2>1. queue' \subseteq queue
    BY <1>5 DEF Withdraw, BeginWithdraw, Stamp, ListEntries, EndWithdraw, CancelEntry, deskVars
  <2>2. QED
    BY <1>5, <2>1, WithdrawalsMove, OthersKeepAttempts
<1>6. ASSUME NEW r \in Requests, RevealPhone(r)
      PROVE  AttemptInv'
  <2>1. queue' \subseteq queue
    BY <1>6 DEF RevealPhone, BeginReveal, ReadLeads, Reveal, deskVars
  <2>2. QED
    BY <1>6, <2>1, RevealsMove, OthersKeepAttempts
<1>7. ASSUME NEW r \in Requests, Read(r)
      PROVE  AttemptInv'
  <2>1. queue' \subseteq queue
    BY <1>7 DEF Read, BeginWalk, ReadPage, ReadStates, EndWalk, Mark, BeginMark, deskVars
  <2>2. QED
    BY <1>7, <2>1, ReadersMove, OthersKeepAttempts
<1>8. ASSUME NEW r \in Requests, Devices(r), UNCHANGED deskVars
      PROVE  AttemptInv'
  <2>1. queue' \subseteq queue
    BY <1>8 DEF deskVars
  <2>2. QED
    BY <1>8, <2>1, DevicesMove, OthersKeepAttempts
<1>9. ASSUME NEW i \in Identities, NEW t \in Tokens, RemoveToken(i, t), UNCHANGED deskVars
      PROVE  AttemptInv'
  BY <1>2, <1>9 DEF RemoveToken, deskVars
<1>10. CASE UNCHANGED vars
  BY <1>2, <1>10 DEF vars, deskVars
<1>11. QED
  BY <1>1, <1>3, <1>4, <1>5, <1>6, <1>7, <1>8, <1>9, <1>10 DEF Next

LEMMA AttemptInvHoldsAtFirst ==
  ASSUME QueueFits, Init
  PROVE  AttemptInv
<1>1. ASSUME NEW c \in Customers
      PROVE  Queued(c) = {} /\ Pending(c) \in SUBSET Requests
  BY DEF Init, Queued, Pending
<1>2. \A c \in Customers : Pending(c) = {}
  BY IdleIsOK DEF Init, Pending, At
<1>3. Cardinality(Requests) \in Nat
  BY RevealsAreLimited, FS_CardinalityType
<1>4. \A c \in Customers : Cardinality(Queued(c)) = 0 /\ Cardinality(Pending(c)) = 0
  BY <1>1, <1>2, FS_EmptySet
<1>5. QED
  BY <1>3, <1>4, SizesArePositive DEF AttemptInv

\* A queue that one list shows holds a customer for at most MaxAttempts
\* projects and one more for each run beside the last that counted at the
\* same time, for any requests, leads, projects and limit:
\* load_attempt_counts_by_customer_id, the ReengageMatchWorkflow and
\* save_queue_entries, beside the withdrawals that cancel entries.
THEOREM AttemptsStayCapped ==
  ASSUME QueueFits
  PROVE  Spec => []AttemptsAreCapped
<1>1. Init => AttemptInv
  BY AttemptInvHoldsAtFirst
<1>2. AttemptInv /\ DeskInv /\ [Next]_vars => AttemptInv'
  BY AttemptInvIsInductive
<1>3. AttemptInv /\ DeskInv => AttemptsAreCapped
  <2> SUFFICES ASSUME AttemptInv, DeskInv, NEW c \in Customers
               PROVE  Cardinality(Queued(c)) <= MaxAttempts + Cardinality(Requests) - 1
    BY DEF AttemptsAreCapped, Queued
  <2>1. Queued(c) \subseteq Documents /\ Pending(c) \in SUBSET Requests
    BY DEF Queued, Pending, DeskInv, RowTypes
  <2>2. /\ Cardinality(Queued(c)) \in Nat /\ Cardinality(Pending(c)) \in Nat
        /\ Cardinality(Requests) \in Nat
    BY <2>1, QueuedAreFinite, PendingAreFinite
  <2>3. QED
    BY <2>2, SizesArePositive DEF AttemptInv
<1>4. QED
  BY <1>1, <1>2, <1>3, DeskInvHolds, PTL DEF Spec

-------------------------------------------------------------------------------
(***************************************************************************)
(* Numbers.  Sets of them have a least one, finite ones a greatest.        *)
(***************************************************************************)

LEMMA LeastNumber ==
  ASSUME NEW T, T \subseteq Nat, T # {}
  PROVE  \E x \in T : \A y \in T : x <= y
<1>1. PICK x \in T : \A y \in T : <<y, x>> \notin OpToRel(<, Nat)
  <2>1. IsWellFoundedOn(OpToRel(<, Nat), Nat)
    BY NatLessThanWellFounded
  <2>2. QED
    BY <2>1, WFMin
<1>2. \A y \in T : ~(y < x)
  BY <1>1 DEF OpToRel
<1>3. QED
  BY <1>2

LEMMA GreatestNumber ==
  ASSUME NEW T, T \subseteq Nat, IsFiniteSet(T), T # {}
  PROVE  \E x \in T : \A y \in T : y <= x
<1> DEFINE Above(x) == {k \in T : k > x}
<1>1. ASSUME NEW x \in T
      PROVE  Above(x) \in SUBSET T /\ IsFiniteSet(Above(x)) /\ Cardinality(Above(x)) \in Nat
  <2>1. Above(x) \in SUBSET T
    OBVIOUS
  <2>2. QED
    BY <2>1, FS_Subset, FS_CardinalityType
<1>2. PICK C : C = {Cardinality(Above(x)) : x \in T}
  OBVIOUS
<1>3. C \subseteq Nat /\ C # {}
  <2> HIDE DEF Above
  <2>1. \A c \in C : c \in Nat
    BY <1>1, <1>2
  <2>2. \E c : c \in C
    BY <1>2
  <2>3. QED
    BY <2>1, <2>2
<1>4. PICK c \in C : \A d \in C : c <= d
  BY <1>3, LeastNumber
<1>5. PICK x \in T : c = Cardinality(Above(x))
  <2> HIDE DEF Above
  <2> QED
    BY <1>2
<1>6. ASSUME NEW y \in T, y > x
      PROVE  FALSE
  <2>1. Above(y) \in SUBSET Above(x) /\ y \in Above(x) /\ y \notin Above(y)
    <3>1. x \in Nat /\ y \in Nat
      OBVIOUS
    <3>2. ASSUME NEW k \in T, k > y
          PROVE  k > x
      <4>1. k \in Nat
        OBVIOUS
      <4>2. QED
        BY <1>6, <3>1, <3>2, <4>1
    <3>3. Above(y) \in SUBSET Above(x)
      BY <3>2
    <3>4. ~(y > y)
      BY <3>1
    <3>5. QED
      BY <1>6, <3>3, <3>4
  <2> HIDE DEF Above
  <2>2. /\ IsFiniteSet(Above(x)) /\ Cardinality(Above(x)) \in Nat
        /\ IsFiniteSet(Above(y)) /\ Cardinality(Above(y)) \in Nat
    BY <1>1
  <2>3. /\ Cardinality(Above(y)) <= Cardinality(Above(x))
        /\ Cardinality(Above(y)) = Cardinality(Above(x)) => Above(y) = Above(x)
    BY <2>1, <2>2, FS_Subset
  <2>4. Cardinality(Above(y)) # Cardinality(Above(x))
    BY <2>1, <2>3
  <2>5. c <= Cardinality(Above(y))
    BY <1>2, <1>4
  <2>6. QED
    BY <1>5, <2>2, <2>3, <2>4, <2>5
<1>7. QED
  BY <1>6

-------------------------------------------------------------------------------
(***************************************************************************)
(* Device tokens.  now() stamps a row once, so no two rows were seen at    *)
(* the same time, and the newest MaxTokens of them are MaxTokens at most.  *)
(***************************************************************************)

RowsOfDevices == Identities \X Tokens

\* A row was seen at a time of its own, no later than now.
TimesAreApart ==
    /\ \A x \in RowsOfDevices : device[x].seen <= now /\ (device[x].on => device[x].seen > 0)
    /\ \A x, y \in RowsOfDevices : device[x].seen = device[y].seen /\ device[x].seen > 0 => x = y

\* A registration that waits for the lock has a time that no row has, nor
\* another registration.
WaitersAreApart ==
    \A r \in Requests : req[r].kind = "register" =>
        /\ 0 < req[r].time /\ req[r].time <= now
        /\ \A x \in RowsOfDevices : device[x].seen # req[r].time
        /\ \A s \in Requests \ {r} : req[s].kind = "register" => req[s].time # req[r].time

FewEnabled ==
    \A i \in Identities : /\ IsFiniteSet(Enabled(i, device))
                          /\ Cardinality(Enabled(i, device)) <= MaxTokens + 1

TokenInv == TimesAreApart /\ WaitersAreApart /\ FewEnabled

\* The newest n of rows that were seen at different times are n at most.
LEMMA NewestAreFew ==
  ASSUME NEW S, IsFiniteSet(S), NEW i, NEW rows, NEW n \in Nat,
         \A t \in S : rows[<<i, t>>].seen \in Nat,
         \A t, u \in S : rows[<<i, t>>].seen = rows[<<i, u>>].seen => t = u
  PROVE  /\ IsFiniteSet(Newest(S, i, rows, n))
         /\ Cardinality(Newest(S, i, rows, n)) \in Nat
         /\ Cardinality(Newest(S, i, rows, n)) <= n
<1>1. PICK N : N = Newest(S, i, rows, n)
  OBVIOUS
<1>2. N \in SUBSET S
  BY <1>1 DEF Newest
<1>3. IsFiniteSet(N) /\ Cardinality(N) \in Nat
  BY <1>2, FS_Subset, FS_CardinalityType
<1>4. CASE N = {}
  BY <1>1, <1>3, <1>4, FS_EmptySet
<1>5. CASE N # {}
  <2>1. PICK T : T = {rows[<<i, t>>].seen : t \in N}
    OBVIOUS
  <2>2. T \subseteq Nat /\ T # {}
    <3>1. \A t \in N : rows[<<i, t>>].seen \in Nat
      BY <1>2
    <3>2. \A y \in T : \E t \in N : y = rows[<<i, t>>].seen
      BY <2>1
    <3>3. \A y \in T : y \in Nat
      BY <3>1, <3>2
    <3>4. PICK t \in N : TRUE
      BY <1>5
    <3>5. rows[<<i, t>>].seen \in T
      BY <2>1, <3>4
    <3>6. QED
      BY <3>3, <3>5
  <2>3. PICK x \in T : \A y \in T : x <= y
    BY <2>2, LeastNumber
  <2>4. PICK t \in N : \A u \in N : rows[<<i, t>>].seen <= rows[<<i, u>>].seen
    <3>1. PICK t \in N : rows[<<i, t>>].seen = x
      BY <2>1, <2>3
    <3>2. \A u \in N : rows[<<i, u>>].seen \in T
      BY <2>1
    <3>3. \A u \in N : rows[<<i, t>>].seen <= rows[<<i, u>>].seen
      BY <2>3, <3>1, <3>2
    <3>4. QED
      BY <3>3
  <2>5. PICK U : U = {u \in S : rows[<<i, u>>].seen > rows[<<i, t>>].seen}
    OBVIOUS
  <2>6. U \in SUBSET S /\ Cardinality(U) < n
    BY <1>1, <2>4, <2>5 DEF Newest
  <2>7. IsFiniteSet(U) /\ Cardinality(U) \in Nat
    BY <2>6, FS_Subset, FS_CardinalityType
  <2>8. N \subseteq U \cup {t}
    BY <1>2, <2>4, <2>5
  <2>9. t \notin U
    BY <1>2, <2>4, <2>5
  <2>10. IsFiniteSet(U \cup {t}) /\ Cardinality(U \cup {t}) = Cardinality(U) + 1
    BY <2>7, <2>9, FS_AddElement
  <2>11. N \in SUBSET (U \cup {t})
    BY <2>8
  <2>12. Cardinality(N) <= Cardinality(U \cup {t})
    BY <2>10, <2>11, FS_Subset
  <2>13. Cardinality(N) <= n
    BY <1>3, <2>6, <2>7, <2>10, <2>12
  <2>14. QED
    BY <1>1, <1>3, <2>13
<1>6. QED
  BY <1>4, <1>5

\* A step that only disables rows or forgets them, and begins no registration.
LEMMA FewerTokens ==
  ASSUME DeskInv, TokenInv, now' \in Nat, now <= now',
         \A x \in RowsOfDevices : /\ device'[x].seen = device[x].seen
                                  /\ device'[x].on => device[x].on,
         \A r \in Requests : req'[r].kind = "register" => req'[r] = req[r]
  PROVE  TokenInv'
<1>0. /\ now \in Nat /\ \A x \in RowsOfDevices : device[x].seen \in Nat
      /\ \A r \in Requests : req[r].kind = "register" => req[r].time \in Nat
  BY WhatItHolds DEF RowsOfDevices, DeskInv, RowTypes, Device
<1>1. TimesAreApart'
  <2>1. \A x \in RowsOfDevices : device'[x].seen <= now' /\ (device'[x].on => device'[x].seen > 0)
    BY <1>0 DEF TokenInv, TimesAreApart
  <2>2. \A x, y \in RowsOfDevices : device'[x].seen = device'[y].seen /\ device'[x].seen > 0 => x = y
    BY DEF TokenInv, TimesAreApart
  <2>3. QED
    BY <2>1, <2>2 DEF TimesAreApart, RowsOfDevices
<1>2. WaitersAreApart'
  <2>1. ASSUME NEW r \in Requests, req'[r].kind = "register"
        PROVE  /\ 0 < req'[r].time /\ req'[r].time <= now'
               /\ \A x \in RowsOfDevices : device'[x].seen # req'[r].time
               /\ \A s \in Requests \ {r} : req'[s].kind = "register" => req'[s].time # req'[r].time
    <3>1. req'[r] = req[r] /\ req[r].time \in Nat
      BY <1>0, <2>1
    <3>2. /\ 0 < req[r].time /\ req[r].time <= now
          /\ \A x \in RowsOfDevices : device[x].seen # req[r].time
          /\ \A s \in Requests \ {r} : req[s].kind = "register" => req[s].time # req[r].time
      BY <2>1, <3>1 DEF TokenInv, WaitersAreApart
    <3>3. req[r].time <= now'
      BY <1>0, <3>1, <3>2
    <3>4. \A s \in Requests \ {r} : req'[s].kind = "register" => req'[s].time # req[r].time
      BY <3>2
    <3>5. QED
      BY <3>1, <3>2, <3>3, <3>4
  <2>2. QED
    BY <2>1 DEF WaitersAreApart, RowsOfDevices
<1>3. ASSUME NEW i \in Identities
      PROVE  /\ IsFiniteSet(Enabled(i, device)')
             /\ Cardinality(Enabled(i, device)') <= MaxTokens + 1
  <2>1. PICK S : S = Enabled(i, device)
    OBVIOUS
  <2>2. PICK T : T = Enabled(i, device)'
    OBVIOUS
  <2>3. T \in SUBSET S
    BY <2>1, <2>2 DEF Enabled, RowsOfDevices
  <2>4. IsFiniteSet(S) /\ Cardinality(S) <= MaxTokens + 1
    BY <2>1 DEF TokenInv, FewEnabled
  <2>5. IsFiniteSet(T) /\ Cardinality(T) <= Cardinality(S) /\ Cardinality(T) \in Nat /\ Cardinality(S) \in Nat
    BY <2>3, <2>4, FS_Subset, FS_CardinalityType
  <2>6. QED
    BY <2>2, <2>4, <2>5, MaxTokensIsPositive
<1>4. FewEnabled'
  BY <1>3 DEF FewEnabled
<1>5. QED
  BY <1>1, <1>2, <1>4 DEF TokenInv

LEMMA BeginRegisterKeepsTokens ==
  ASSUME DeskInv, TokenInv, NEW r \in Requests, NEW i \in Identities, NEW t \in Tokens,
         BeginRegister(r, i, t)
  PROVE  TokenInv'
<1>1. PICK n : n = now + 1
  OBVIOUS
<1>2. now \in Nat /\ n \in Nat /\ n > now /\ now' = n /\ device' = device
  BY <1>1 DEF BeginRegister, DeskInv, RowTypes
<1>3. PICK q : q = [kind |-> "register", step |-> "lock", who |-> i, token |-> t, time |-> n]
  OBVIOUS
<1>4. q.kind = "register" /\ q.time = n
  BY <1>3
<1>5. \A s \in Requests : req'[s] = IF s = r THEN q ELSE req[s]
  BY <1>1, <1>3 DEF BeginRegister, Becomes, DeskInv, RequestsHold
<1>6. \A x \in RowsOfDevices : device[x].seen \in Nat
  BY DEF RowsOfDevices, DeskInv, RowTypes, Device
<1>7. TimesAreApart'
  BY <1>2, <1>6 DEF TokenInv, TimesAreApart
<1>8. \A s \in Requests : req[s].kind = "register" => req[s].time \in Nat
  BY WhatItHolds DEF DeskInv
<1>9. ASSUME NEW s \in Requests, req'[s].kind = "register"
      PROVE  /\ 0 < req'[s].time /\ req'[s].time <= n
             /\ \A x \in RowsOfDevices : device[x].seen # req'[s].time
             /\ \A u \in Requests \ {s} : req'[u].kind = "register" => req'[u].time # req'[s].time
  <2>1. CASE s = r
    <3>1. req'[s].time = n
      BY <1>4, <1>5, <2>1
    <3>2. \A x \in RowsOfDevices : device[x].seen # n
      BY <1>2, <1>6 DEF TokenInv, TimesAreApart
    <3>3. ASSUME NEW u \in Requests \ {s}, req'[u].kind = "register"
          PROVE  req'[u].time # n
      <4>1. req'[u] = req[u]
        BY <1>5, <2>1
      <4>2. req[u].time \in Nat /\ req[u].time <= now
        BY <1>8, <3>3, <4>1 DEF TokenInv, WaitersAreApart
      <4>3. QED
        BY <1>2, <4>1, <4>2
    <3>4. 0 < n /\ n <= n
      BY <1>2
    <3>5. QED
      BY <3>1, <3>2, <3>3, <3>4
  <2>2. CASE s # r
    <3>1. req'[s] = req[s] /\ req[s].kind = "register"
      BY <1>5, <1>9, <2>2
    <3>2. req[s].time \in Nat /\ 0 < req[s].time /\ req[s].time <= now
      BY <1>8, <3>1 DEF TokenInv, WaitersAreApart
    <3>3. req[s].time <= n /\ req[s].time # n
      BY <1>2, <3>2
    <3>4. \A x \in RowsOfDevices : device[x].seen # req[s].time
      BY <3>1 DEF TokenInv, WaitersAreApart
    <3>5. ASSUME NEW u \in Requests \ {s}, req'[u].kind = "register"
          PROVE  req'[u].time # req[s].time
      <4>1. CASE u = r
        BY <1>4, <1>5, <3>3, <4>1
      <4>2. CASE u # r
        <5>1. req'[u] = req[u]
          BY <1>5, <4>2
        <5>2. QED
          BY <3>1, <3>5, <5>1 DEF TokenInv, WaitersAreApart
      <4>3. QED
        BY <4>1, <4>2
    <3>6. QED
      BY <3>1, <3>2, <3>3, <3>4, <3>5
  <2>3. QED
    BY <2>1, <2>2
<1>10. WaitersAreApart'
  BY <1>2, <1>9 DEF WaitersAreApart
<1>11. FewEnabled'
  BY <1>2 DEF TokenInv, FewEnabled, Enabled
<1>12. QED
  BY <1>7, <1>10, <1>11 DEF TokenInv

LEMMA RegisterKeepsTokens ==
  ASSUME DeskInv, TokenInv, NEW r \in Requests, Register(r)
  PROVE  TokenInv'
<1>1. PICK i \in Identities, t \in Tokens, n \in Nat :
        i = req[r].who /\ t = req[r].token /\ n = req[r].time
  BY WhatItHolds DEF DeskInv, Register, At
<1>2. PICK rows : rows = [device EXCEPT ![<<i, t>>] = [on |-> TRUE, seen |-> n]]
  OBVIOUS
<1>3. PICK kept : kept = Retained(i, t, rows)
  OBVIOUS
<1>4. /\ req[r].kind = "register" /\ Becomes(r, Idle) /\ now' = now
      /\ device' = [x \in DOMAIN rows |->
                      IF x[1] = i /\ rows[x].on /\ x[2] \notin kept
                      THEN [on |-> FALSE, seen |-> 0] ELSE rows[x]]
  BY <1>1, <1>2, <1>3 DEF Register, At, Ends
<1>5. \A s \in Requests : req'[s] = IF s = r THEN Idle ELSE req[s]
  BY <1>4 DEF DeskInv, RequestsHold, Becomes
<1>6. now \in Nat /\ \A x \in RowsOfDevices : device[x].seen \in Nat
  BY DEF RowsOfDevices, DeskInv, RowTypes, Device
<1>7. /\ 0 < n /\ n <= now
      /\ \A x \in RowsOfDevices : device[x].seen # n
  BY <1>1, <1>4 DEF TokenInv, WaitersAreApart
<1>8. PICK own \in RowsOfDevices : own = <<i, t>>
  BY DEF RowsOfDevices
<1>9. /\ DOMAIN rows = RowsOfDevices
      /\ rows[own].on /\ rows[own].seen = n
      /\ \A x \in RowsOfDevices \ {own} : rows[x] = device[x]
  BY <1>2, <1>8 DEF RowsOfDevices, DeskInv, RowTypes
<1>10. \A x \in RowsOfDevices : /\ rows[x].seen \in Nat /\ rows[x].seen <= now
                                /\ rows[x].on => rows[x].seen > 0
  <2>1. \A x \in RowsOfDevices : device[x].seen <= now /\ (device[x].on => device[x].seen > 0)
    BY DEF TokenInv, TimesAreApart
  <2>2. QED
    BY <1>6, <1>7, <1>9, <2>1
<1>11. \A x, y \in RowsOfDevices : rows[x].seen = rows[y].seen /\ rows[x].seen > 0 => x = y
  <2>1. \A x, y \in RowsOfDevices : device[x].seen = device[y].seen /\ device[x].seen > 0 => x = y
    BY DEF TokenInv, TimesAreApart
  <2>2. QED
    BY <1>7, <1>9, <2>1
<1>12. \A x \in RowsOfDevices :
          \/ device'[x] = rows[x] /\ ~(x[1] = i /\ rows[x].on /\ x[2] \notin kept)
          \/ device'[x] = [on |-> FALSE, seen |-> 0] /\ x[1] = i
  BY <1>4, <1>9
<1>13. TimesAreApart'
  <2>1. ASSUME NEW x \in RowsOfDevices
        PROVE  /\ device'[x].seen <= now /\ (device'[x].on => device'[x].seen > 0)
               /\ device'[x].seen > 0 => device'[x].seen = rows[x].seen
    BY <1>6, <1>10, <1>12
  <2>2. ASSUME NEW x \in RowsOfDevices, NEW y \in RowsOfDevices,
               device'[x].seen = device'[y].seen, device'[x].seen > 0
        PROVE  x = y
    <3>1. rows[x].seen = rows[y].seen /\ rows[x].seen > 0
      BY <2>1, <2>2
    <3>2. QED
      BY <1>11, <3>1
  <2>3. QED
    BY <1>4, <2>1, <2>2 DEF TimesAreApart, RowsOfDevices
<1>14. WaitersAreApart'
  <2>1. ASSUME NEW s \in Requests, req'[s].kind = "register"
        PROVE  /\ s # r /\ req'[s] = req[s] /\ req[s].kind = "register"
    BY <1>5, <2>1, IdleIsOK
  <2>2. ASSUME NEW s \in Requests, req'[s].kind = "register"
        PROVE  /\ 0 < req'[s].time /\ req'[s].time <= now
               /\ \A u \in Requests \ {s} : req'[u].kind = "register" => req'[u].time # req'[s].time
    <3>1. /\ 0 < req[s].time /\ req[s].time <= now
          /\ \A u \in Requests \ {s} : req[u].kind = "register" => req[u].time # req[s].time
      BY <2>1, <2>2 DEF TokenInv, WaitersAreApart
    <3>2. QED
      BY <2>1, <2>2, <3>1
  <2>3. ASSUME NEW s \in Requests, req'[s].kind = "register", NEW x \in RowsOfDevices
        PROVE  device'[x].seen # req'[s].time
    <3>1. req'[s] = req[s] /\ 0 < req[s].time /\ req[s].time # n /\ device[x].seen # req[s].time
      BY <1>1, <1>4, <2>1, <2>3 DEF TokenInv, WaitersAreApart
    <3>2. req[s].time \in Nat
      BY <2>1, <2>3, WhatItHolds DEF DeskInv
    <3>3. rows[x].seen # req[s].time
      BY <1>9, <3>1
    <3>4. QED
      BY <1>12, <3>1, <3>2, <3>3
  <2>4. QED
    BY <1>4, <2>2, <2>3 DEF WaitersAreApart, RowsOfDevices
<1>15. ASSUME NEW j \in Identities
       PROVE  /\ IsFiniteSet(Enabled(j, device)')
              /\ Cardinality(Enabled(j, device)') <= MaxTokens + 1
  <2>1. PICK T : T = Enabled(j, device)'
    OBVIOUS
  <2>2. CASE j # i
    <3>1. \A u \in Tokens : <<j, u>> \in RowsOfDevices /\ <<j, u>> # own /\ <<j, u>>[1] # i
      BY <1>8, <2>2 DEF RowsOfDevices
    <3>2. \A u \in Tokens : device'[<<j, u>>] = device[<<j, u>>]
      BY <1>9, <1>12, <3>1
    <3>3. Enabled(j, device)' = Enabled(j, device)
      BY <3>2 DEF Enabled
    <3>4. QED
      BY <3>3 DEF TokenInv, FewEnabled
  <2>3. CASE j = i
    <3>1. PICK S : S = Enabled(i, rows)
      OBVIOUS
    <3>2. PICK N : N = Newest(S, i, rows, MaxTokens)
      OBVIOUS
    <3>3. kept = {t} \cup N
      BY <1>3, <3>1, <3>2 DEF Retained
    <3>4. \A u \in S : <<i, u>> \in RowsOfDevices /\ rows[<<i, u>>].on /\ u \in Tokens
      BY <3>1 DEF Enabled, RowsOfDevices
    <3>5. IsFiniteSet(S)
      <4>1. PICK E : E = Enabled(i, device)
        OBVIOUS
      <4>2. IsFiniteSet(E)
        BY <4>1 DEF TokenInv, FewEnabled
      <4>3. S \subseteq E \cup {t}
        <5>1. ASSUME NEW u \in S, u # t
              PROVE  u \in E
          <6>1. <<i, u>> \in RowsOfDevices \ {own}
            BY <1>8, <3>4, <5>1
          <6>2. device[<<i, u>>].on
            BY <1>9, <3>4, <5>1, <6>1
          <6>3. QED
            BY <3>4, <4>1, <5>1, <6>2 DEF Enabled
        <5>2. QED
          BY <5>1
      <4>4. S \in SUBSET (E \cup {t})
        BY <4>3
      <4>5. QED
        BY <4>2, <4>4, FS_AddElement, FS_Subset
    <3>6. \A u \in S : rows[<<i, u>>].seen \in Nat
      BY <1>10, <3>4
    <3>7. \A u, v \in S : rows[<<i, u>>].seen = rows[<<i, v>>].seen => u = v
      <4>1. ASSUME NEW u \in S, NEW v \in S, rows[<<i, u>>].seen = rows[<<i, v>>].seen
            PROVE  <<i, u>> = <<i, v>>
        BY <1>10, <1>11, <3>4, <4>1
      <4>2. QED
        BY <4>1
    <3>8. IsFiniteSet(N) /\ Cardinality(N) \in Nat /\ Cardinality(N) <= MaxTokens
      BY <3>2, <3>5, <3>6, <3>7, NewestAreFew, MaxTokensIsPositive
    <3>9. T \in SUBSET kept
      <4>1. ASSUME NEW u \in T
            PROVE  u \in kept
        <5>1. u \in Tokens /\ device'[<<i, u>>].on
          BY <2>1, <2>3, <4>1 DEF Enabled
        <5>2. <<i, u>> \in RowsOfDevices /\ <<i, u>>[1] = i /\ <<i, u>>[2] = u
          BY <5>1 DEF RowsOfDevices
        <5>3. QED
          BY <1>12, <5>1, <5>2
      <4>2. QED
        BY <4>1
    <3>10. /\ IsFiniteSet(kept) /\ Cardinality(kept) \in Nat
           /\ Cardinality(kept) <= MaxTokens + 1
      <4>1. kept = N \cup {t}
        BY <3>3
      <4>2. IsFiniteSet(N \cup {t}) /\ Cardinality(N \cup {t}) \in {Cardinality(N), Cardinality(N) + 1}
        BY <3>8, FS_AddElement
      <4>3. QED
        BY <3>8, <4>1, <4>2, MaxTokensIsPositive
    <3>11. IsFiniteSet(T) /\ Cardinality(T) \in Nat /\ Cardinality(T) <= Cardinality(kept)
      BY <3>9, <3>10, FS_Subset, FS_CardinalityType
    <3>12. QED
      BY <2>1, <3>10, <3>11, MaxTokensIsPositive
  <2>4. QED
    BY <2>2, <2>3
<1>16. FewEnabled'
  BY <1>15 DEF FewEnabled
<1>17. QED
  BY <1>13, <1>14, <1>16 DEF TokenInv

\* A request that registers nothing and writes no row of a device.
LEMMA OthersKeepTokens ==
  ASSUME DeskInv, TokenInv, device' = device, now' \in Nat, now <= now',
         NEW r \in Requests, NEW kind, Moves(r, kind), kind # "register"
  PROVE  TokenInv'
<1>1. \A s \in Requests : req'[s].kind = "register" => req'[s] = req[s]
  BY DEF Moves
<1>2. QED
  BY <1>1, FewerTokens

LEMMA PushKeepsTokens ==
  ASSUME DeskInv, TokenInv, NEW r \in Requests,
         (\E i \in Identities : BeginPush(r, i)) \/ EndPush(r) \/ \E t \in Tokens : Send(r, t) \/ Prune(r, t)
  PROVE  TokenInv'
<1>1. now' = now /\ now \in Nat
  BY DEF BeginPush, EndPush, Send, Prune, DeskInv, RowTypes
<1>2. device' = device \/ \E t \in Tokens : device' = [x \in DOMAIN device |->
                            IF x[2] = t THEN [device[x] EXCEPT !.on = FALSE] ELSE device[x]]
  BY DEF BeginPush, EndPush, Send, Prune
<1>3. \A x \in RowsOfDevices : device'[x].seen = device[x].seen /\ (device'[x].on => device[x].on)
  <2>1. DOMAIN device = RowsOfDevices /\ \A x \in RowsOfDevices : device[x] \in Device
    BY DEF RowsOfDevices, DeskInv, RowTypes
  <2>2. CASE device' = device
    BY <2>2
  <2>3. ASSUME NEW t \in Tokens, NEW x \in RowsOfDevices,
               device' = [y \in DOMAIN device |->
                            IF y[2] = t THEN [device[y] EXCEPT !.on = FALSE] ELSE device[y]]
        PROVE  device'[x].seen = device[x].seen /\ (device'[x].on => device[x].on)
    <3>1. device[x] \in Device
      BY <2>1
    <3>2. PICK d : d = [device[x] EXCEPT !.on = FALSE]
      OBVIOUS
    <3>3. d.seen = device[x].seen /\ ~d.on
      BY <3>1, <3>2 DEF Device
    <3>4. device'[x] = d \/ device'[x] = device[x]
      BY <2>1, <2>3, <3>2
    <3>5. QED
      BY <3>3, <3>4
  <2>4. QED
    BY <1>2, <2>2, <2>3
<1>4. RequestsHold
  BY DEF DeskInv
<1>5. \A s \in Requests : req'[s].kind = "register" => req'[s] = req[s]
  <2>1. CASE \E i \in Identities : BeginPush(r, i)
    BY <1>4, <2>1 DEF BeginPush, Becomes, RequestsHold
  <2>2. CASE EndPush(r)
    BY <1>4, <2>2, IdleIsOK DEF EndPush, Ends, Becomes, RequestsHold
  <2>3. CASE \E t \in Tokens : Send(r, t) \/ Prune(r, t)
    <3>1. req[r] \in Pushing
      BY <1>4, <2>3, WhatItHolds DEF Send, Prune, At
    <3>2. \E left, dead : req' = [req EXCEPT ![r].left = left, ![r].dead = dead]
                          \/ req' = [req EXCEPT ![r].dead = dead]
      BY <2>3 DEF Send, Prune
    <3>3. PICK left, dead : req' = [req EXCEPT ![r].left = left, ![r].dead = dead]
                            \/ req' = [req EXCEPT ![r].dead = dead]
      BY <3>2
    <3>4. req'[r].kind = "push"
      BY <1>4, <3>1, <3>3 DEF RequestsHold, Pushing
    <3>5. \A s \in Requests \ {r} : req'[s] = req[s]
      BY <1>4, <3>3 DEF RequestsHold
    <3>6. QED
      BY <3>4, <3>5
  <2>4. QED
    BY <2>1, <2>2, <2>3
<1>6. QED
  BY <1>1, <1>3, <1>5, FewerTokens

LEMMA TokenInvIsInductive ==
  ASSUME DeskInv, TokenInv, [Next]_vars
  PROVE  TokenInv'
<1>0. now \in Nat
  BY DEF DeskInv, RowTypes
<1>1. CASE Board
  <2>1. \A r \in Requests : req'[r].kind = "register" => req'[r] = req[r]
    BY <1>1, BoardMovesWalks
  <2>2. UNCHANGED <<device, now>>
    BY <1>1 DEF Board, Insert, SetStatus, Assign, Tokenless
  <2>3. QED
    BY <1>0, <2>1, <2>2, FewerTokens
<1>2. CASE UNCHANGED <<device, now, req>>
  BY <1>0, <1>2, FewerTokens
<1>3. CASE \E a \in Actors : LeaveWindow(a)
  BY <1>2, <1>3 DEF LeaveWindow, Tokenless
<1>4. ASSUME NEW r \in Requests, Reengage(r)
      PROVE  TokenInv'
  <2>1. UNCHANGED <<device, now>>
    BY <1>4 DEF Reengage, BeginRun, LoadLeads, EndRun, Save, Tokenless
  <2>2. QED
    BY <1>0, <1>4, <2>1, RunsMove, OthersKeepTokens
<1>5. ASSUME NEW r \in Requests, Withdraw(r)
      PROVE  TokenInv'
  <2>1. UNCHANGED <<device, now>>
    BY <1>5 DEF Withdraw, BeginWithdraw, Stamp, ListEntries, EndWithdraw, CancelEntry, Tokenless
  <2>2. QED
    BY <1>0, <1>5, <2>1, WithdrawalsMove, OthersKeepTokens
<1>6. ASSUME NEW r \in Requests, RevealPhone(r)
      PROVE  TokenInv'
  <2>1. UNCHANGED <<device, now>>
    BY <1>6 DEF RevealPhone, BeginReveal, ReadLeads, Reveal, Tokenless
  <2>2. QED
    BY <1>0, <1>6, <2>1, RevealsMove, OthersKeepTokens
<1>7. ASSUME NEW r \in Requests, Read(r)
      PROVE  TokenInv'
  <2>1. device' = device /\ (now' = now \/ now' = now + 1)
    BY <1>7 DEF Read, BeginWalk, ReadPage, ReadStates, EndWalk, Mark, BeginMark, Tokenless
  <2>2. now' \in Nat /\ now <= now'
    BY <1>0, <2>1
  <2>3. QED
    BY <1>7, <2>1, <2>2, ReadersMove, OthersKeepTokens
<1>8. ASSUME NEW r \in Requests, Devices(r)
      PROVE  TokenInv'
  BY <1>8, BeginRegisterKeepsTokens, RegisterKeepsTokens, PushKeepsTokens DEF Devices
<1>9. ASSUME NEW i \in Identities, NEW t \in Tokens, RemoveToken(i, t)
      PROVE  TokenInv'
  <2>1. PICK own \in RowsOfDevices : own = <<i, t>>
    BY DEF RowsOfDevices
  <2>2. device' = [device EXCEPT ![own].on = FALSE] /\ UNCHANGED <<now, req>>
    BY <1>9, <2>1 DEF RemoveToken
  <2>3. \A x \in RowsOfDevices : device'[x].seen = device[x].seen /\ (device'[x].on => device[x].on)
    BY <2>1, <2>2 DEF RowsOfDevices, DeskInv, RowTypes, Device
  <2>4. QED
    BY <1>0, <2>2, <2>3, FewerTokens
<1>10. CASE UNCHANGED vars
  BY <1>2, <1>10 DEF vars
<1>11. QED
  BY <1>1, <1>3, <1>4, <1>5, <1>6, <1>7, <1>8, <1>9, <1>10 DEF Next

LEMMA TokenInvHoldsAtFirst ==
  ASSUME Init
  PROVE  TokenInv
<1>1. /\ now = 0 /\ \A x \in RowsOfDevices : device[x] = [on |-> FALSE, seen |-> 0]
  BY DEF Init, RowsOfDevices
<1>2. \A x \in RowsOfDevices : device[x].on = FALSE /\ device[x].seen = 0
  BY <1>1
<1>3. TimesAreApart
  BY <1>1, <1>2 DEF TimesAreApart
<1>4. WaitersAreApart
  BY IdleIsOK DEF Init, WaitersAreApart
<1>5. \A i \in Identities : Enabled(i, device) = {}
  BY <1>2 DEF Enabled, RowsOfDevices
<1>6. IsFiniteSet({}) /\ Cardinality({}) = 0
  BY FS_EmptySet
<1>7. FewEnabled
  BY <1>5, <1>6, MaxTokensIsPositive DEF FewEnabled
<1>8. QED
  BY <1>3, <1>4, <1>7 DEF TokenInv

\* Registrations that overlap leave an identity with at most one token above
\* the cap, for any identities, tokens, requests and cap: the
\* advisory lock, the insert and the eviction of register_fcm_token.
THEOREM TokensStayCapped == Spec => []TokensAreCapped
<1>1. Init => TokenInv
  BY TokenInvHoldsAtFirst
<1>2. TokenInv /\ DeskInv /\ [Next]_vars => TokenInv'
  BY TokenInvIsInductive
<1>3. TokenInv => TokensAreCapped
  BY DEF TokenInv, FewEnabled, TokensAreCapped
<1>4. QED
  BY <1>1, <1>2, <1>3, DeskInvHolds, PTL DEF Spec

-------------------------------------------------------------------------------
(***************************************************************************)
(* Walks.  What is still owed lies below the cursor, what was shown does   *)
(* not, and a page without a next one ends with all that is below.         *)
(***************************************************************************)

\* Of a page's set, what is newer than a member of the page is on the page.
LEMMA PagesAreUpward ==
  ASSUME NEW S, S \subseteq Nat, IsFiniteSet(S), NEW n \in Nat,
         NEW k \in FirstOf(S, n), NEW l \in S, l >= k
  PROVE  l \in FirstOf(S, n)
<1>1. PICK A : A = {j \in S : j > k}
  OBVIOUS
<1>2. PICK B : B = {j \in S : j > l}
  OBVIOUS
<1>3. k \in S /\ Cardinality(A) < n
  BY <1>1 DEF FirstOf
<1>4. A \in SUBSET S
  BY <1>1
<1>5. B \in SUBSET A
  <2>1. ASSUME NEW j \in B
        PROVE  j \in S /\ j > k
    <3>1. j \in S /\ j > l /\ j \in Nat /\ l \in Nat /\ k \in Nat
      BY <1>2, <1>3, <2>1
    <3>2. QED
      BY <3>1
  <2>2. QED
    BY <1>1, <2>1
<1>6. IsFiniteSet(A) /\ Cardinality(A) \in Nat
  BY <1>4, FS_Subset, FS_CardinalityType
<1>7. Cardinality(B) \in Nat /\ Cardinality(B) <= Cardinality(A)
  BY <1>5, <1>6, FS_Subset, FS_CardinalityType
<1>8. Cardinality(B) < n
  BY <1>3, <1>6, <1>7
<1>9. QED
  BY <1>2, <1>8 DEF FirstOf

LEMMA PagesAreNotEmpty ==
  ASSUME NEW S, S \subseteq Nat, IsFiniteSet(S), S # {}, NEW n \in Nat, n > 0
  PROVE  FirstOf(S, n) # {}
<1>1. PICK x \in S : \A y \in S : y <= x
  BY GreatestNumber
<1>2. {k \in S : k > x} = {}
  <2>1. ASSUME NEW k \in S, k > x
        PROVE  FALSE
    <3>1. k \in Nat /\ x \in Nat /\ k <= x
      BY <1>1
    <3>2. QED
      BY <2>1, <3>1
  <2>2. QED
    BY <2>1
<1>3. Cardinality({k \in S : k > x}) = 0
  BY <1>2, FS_EmptySet
<1>4. QED
  BY <1>3 DEF FirstOf

\* A page that is not full shows everything.
LEMMA ShortPagesShowAll ==
  ASSUME NEW S, S \subseteq Nat, IsFiniteSet(S), NEW n \in Nat,
         Cardinality(FirstOf(S, n)) < n
  PROVE  FirstOf(S, n) = S
<1>1. PICK F : F = FirstOf(S, n)
  OBVIOUS
<1>2. F \in SUBSET S
  BY <1>1 DEF FirstOf
<1>3. IsFiniteSet(F) /\ Cardinality(F) \in Nat
  BY <1>2, FS_Subset, FS_CardinalityType
<1>4. ASSUME F # S
      PROVE  FALSE
  <2>1. S \ F \in SUBSET S /\ S \ F # {} /\ S \ F \subseteq Nat
    BY <1>2, <1>4
  <2>2. IsFiniteSet(S \ F)
    BY <2>1, FS_Subset
  <2>3. PICK m \in S \ F : \A y \in S \ F : y <= m
    BY <2>1, <2>2, GreatestNumber
  <2>4. PICK A : A = {k \in S : k > m}
    OBVIOUS
  <2>5. A \in SUBSET F
    <3>1. ASSUME NEW k \in A, k \notin F
          PROVE  FALSE
      <4>1. k \in S \ F /\ k > m /\ k \in Nat /\ m \in Nat
        BY <2>3, <2>4, <3>1
      <4>2. k <= m
        BY <2>3, <4>1
      <4>3. QED
        BY <4>1, <4>2
    <3>2. QED
      BY <3>1
  <2>6. Cardinality(A) \in Nat /\ Cardinality(A) <= Cardinality(F)
    BY <1>3, <2>5, FS_Subset, FS_CardinalityType
  <2>7. Cardinality(A) < n
    BY <1>1, <1>3, <2>6
  <2>8. m \in F
    BY <1>1, <2>3, <2>4, <2>7 DEF FirstOf
  <2>9. QED
    BY <2>3, <2>8
<1>5. QED
  BY <1>1, <1>4

LEMMA SmallSetsFit ==
  ASSUME NEW S, IsFiniteSet(S), S \subseteq Nat, NEW n \in Nat, Cardinality(S) <= n
  PROVE  FirstOf(S, n) = S
<1>1. ASSUME NEW l \in S
      PROVE  Cardinality({k \in S : k > l}) < n
  <2>1. PICK A : A = {k \in S : k > l}
    OBVIOUS
  <2>2. A \in SUBSET S /\ A # S
    BY <2>1
  <2>3. Cardinality(A) \in Nat /\ Cardinality(S) \in Nat /\ Cardinality(A) <= Cardinality(S)
        /\ Cardinality(A) # Cardinality(S)
    BY <2>2, FS_Subset, FS_CardinalityType
  <2>4. Cardinality(A) < n
    BY <2>3
  <2>5. QED
    BY <2>1, <2>4
<1>2. QED
  BY <1>1 DEF FirstOf

WalkRows == [kind : {"walk"}, step : {"page", "states", "ended"}, by : Actors,
             below : SUBSET Leads, page : SUBSET Leads, more : BOOLEAN,
             listed : SUBSET Leads, owed : SUBSET Leads, twice : BOOLEAN]

\* A cursor parts what was shown from what is owed; without one, nothing was
\* shown yet, or nothing is owed any more.
Cut(q) ==
    /\ \A b \in q.below : /\ \A l \in q.listed : b <= l
                          /\ \A l \in q.owed \ q.listed : l < b
    /\ q.step = "page" /\ q.below = {} => q.listed = {}
    /\ q.step = "states" /\ q.more => q.below # {}
    /\ q.step = "ended" \/ (q.step = "states" /\ ~q.more) => q.owed \subseteq q.listed

WalkHolds(q) == q \in WalkRows /\ ~q.twice /\ q.owed \subseteq Scope(q.by) /\ Cut(q)

WalkInv == \A r \in Requests : req[r].kind = "walk" => WalkHolds(req[r])

\* A step that no walk takes, after which nobody's scope lost a lead.
LEMMA WalksStay ==
  ASSUME WalkInv, \A r \in Requests : req'[r].kind = "walk" => req'[r] = req[r],
         \A a \in Actors : Scope(a) \subseteq Scope(a)'
  PROVE  WalkInv'
<1> SUFFICES ASSUME NEW r \in Requests, req'[r].kind = "walk"
             PROVE  WalkHolds(req[r])'
  BY DEF WalkInv
<1>1. req'[r] = req[r] /\ WalkHolds(req[r])
  BY DEF WalkInv
<1>2. req[r].by \in Actors
  BY <1>1 DEF WalkHolds, WalkRows
<1>3. req[r].owed \subseteq Scope(req[r].by)'
  BY <1>1, <1>2 DEF WalkHolds
<1>4. QED
  BY <1>1, <1>3 DEF WalkHolds, Scope, Cut, WalkRows, Actors

\* The same when a request takes a step that is not of a walk.
LEMMA OthersKeepWalks ==
  ASSUME WalkInv, NEW r \in Requests, NEW kind, Moves(r, kind), kind # "walk",
         \A a \in Actors : Scope(a) \subseteq Scope(a)'
  PROVE  WalkInv'
<1>1. \A s \in Requests : req'[s].kind = "walk" => req'[s] = req[s]
  BY DEF Moves
<1>2. QED
  BY <1>1, WalksStay

\* Rows that stay made and keep their owner leave every scope what it had.
LEMMA ScopesStay ==
  ASSUME \A l \in Leads : lead[l].made => lead'[l].made /\ lead'[l].owner = lead[l].owner
  PROVE  \A a : Scope(a) \subseteq Scope(a)'
BY DEF Scope

\* A request takes a step of a walk, and no row changes.
LEMMA OneWalkMoves ==
  ASSUME DeskInv, WalkInv, NEW r \in Requests, NEW q, Becomes(r, q), WalkHolds(q), lead' = lead
  PROVE  WalkInv'
<1>1. \A s \in Requests : req'[s] = IF s = r THEN q ELSE req[s]
  BY DEF DeskInv, RequestsHold, Becomes
<1>2. \A a : Scope(a)' = Scope(a)
  BY DEF Scope
<1>3. ASSUME NEW s \in Requests, req'[s].kind = "walk"
      PROVE  WalkHolds(req'[s])
  BY <1>1, <1>3 DEF WalkInv
<1>4. QED
  BY <1>2, <1>3 DEF WalkInv, WalkHolds, WalkRows, Cut, Actors

LEMMA BeginWalkKeepsWalks ==
  ASSUME DeskInv, WalkInv, NEW r \in Requests, NEW a \in Actors, BeginWalk(r, a)
  PROVE  WalkInv'
<1>1. PICK q : q = [kind |-> "walk", step |-> "page", by |-> a, below |-> {}, page |-> {}, more |-> FALSE,
                    listed |-> {}, owed |-> Scope(a), twice |-> FALSE]
  OBVIOUS
<1>2. Becomes(r, q) /\ lead' = lead
  BY <1>1 DEF BeginWalk, Takes, deskVars
<1>3. q \in WalkRows
  BY <1>1 DEF WalkRows, Scope
<1>4. WalkHolds(q)
  BY <1>1, <1>3 DEF WalkHolds, Cut
<1>5. QED
  BY <1>2, <1>4, OneWalkMoves

\* A page of what is below the cursor leaves nothing out above the next one.
LEMMA ReadPageKeepsWalks ==
  ASSUME DeskInv, WalkInv, NEW r \in Requests, ReadPage(r)
  PROVE  WalkInv'
<1>1. PICK p : p = req[r]
  OBVIOUS
<1>2. p \in WalkRows /\ ~p.twice /\ p.owed \subseteq Scope(p.by) /\ Cut(p) /\ p.step = "page"
  BY <1>1 DEF ReadPage, At, WalkInv, WalkHolds
<1>3. PICK R : R = {l \in Scope(p.by) : \A b \in p.below : l < b}
  OBVIOUS
<1>4. PageSize \in Nat /\ PageSize > 0 /\ PageSize + 1 \in Nat
  BY SizesArePositive
<1>5. PICK m \in Nat : m = PageSize + 1
  BY <1>4
<1>6. PICK S : S = FirstOf(R, m)
  OBVIOUS
<1>7. PICK page : page = FirstOf(S, PageSize)
  OBVIOUS
<1> DEFINE more == Cardinality(S) > PageSize
<1>8. more \in BOOLEAN /\ (more <=> Cardinality(S) > PageSize)
  OBVIOUS
<1> HIDE DEF more
<1>9. PICK below : below = IF more THEN {Cursor(S)} ELSE {}
  OBVIOUS
<1>10. PICK listed : listed = p.listed \cup page
  OBVIOUS
<1>11. PICK twice : twice = (p.twice \/ page \cap p.listed # {})
  OBVIOUS
<1>12. PICK q : q = [p EXCEPT !.step = "states", !.page = page, !.more = more, !.below = below,
                              !.listed = listed, !.twice = twice]
  OBVIOUS
<1>13. Becomes(r, q) /\ lead' = lead
  <2>1. req' = [req EXCEPT ![r].step = "states", ![r].page = page, ![r].more = more, ![r].below = below,
                           ![r].listed = listed, ![r].twice = twice]
    BY <1>1, <1>3, <1>5, <1>6, <1>7, <1>9, <1>10, <1>11 DEF ReadPage, more
  <2>2. Becomes(r, q)
    BY <1>1, <1>12, <2>1 DEF Becomes
  <2>3. QED
    BY <2>2 DEF ReadPage, deskVars
<1>14. /\ q.step = "states" /\ q.page = page /\ q.more = more /\ q.below = below
       /\ q.listed = listed /\ q.twice = twice
       /\ q.kind = "walk" /\ q.by = p.by /\ q.owed = p.owed
  BY <1>2, <1>12 DEF WalkRows
<1>15. /\ R \subseteq Leads /\ S \subseteq R /\ page \subseteq S
       /\ R \subseteq Nat /\ S \subseteq Nat /\ page \subseteq Nat
  BY <1>3, <1>6, <1>7, LeadsAreNumbered DEF Scope, FirstOf
<1>16. IsFiniteSet(R) /\ IsFiniteSet(S) /\ Cardinality(S) \in Nat
  <2>1. R \in SUBSET Leads /\ S \in SUBSET Leads
    BY <1>15
  <2>2. QED
    BY <2>1, LeadsAreNumbered, FS_Subset, FS_CardinalityType
<1>17. p.listed \subseteq Leads /\ p.owed \subseteq Leads /\ p.below \subseteq Leads
       /\ Leads \subseteq Nat
  BY <1>2, LeadsAreNumbered DEF WalkRows
\* Nothing on the page was shown before.
<1>18. page \cap p.listed = {}
  <2>1. ASSUME NEW l \in page, l \in p.listed
        PROVE  FALSE
    <3>1. PICK b \in p.below : TRUE
      BY <1>2, <2>1 DEF Cut
    <3>2. b <= l /\ l < b /\ l \in Nat /\ b \in Nat
      BY <1>2, <1>3, <1>15, <1>17, <2>1, <3>1 DEF Cut
    <3>3. QED
      BY <3>2
  <2>2. QED
    BY <2>1
<1>19. ASSUME NEW l \in p.owed, l \notin p.listed
       PROVE  l \in R
  BY <1>2, <1>3, <1>19 DEF Cut
<1>20. ASSUME more
       PROVE  /\ below \subseteq Leads /\ below # {}
              /\ \A b \in below : /\ \A l \in listed : b <= l
                                  /\ \A l \in p.owed \ listed : l < b
  <2>1. S # {}
    <3>1. Cardinality(S) > 0
      BY <1>4, <1>16, <1>20, <1>8
    <3>2. QED
      BY <3>1, FS_EmptySet
  <2>2. page # {}
    BY <1>7, <1>15, <1>16, <2>1, <1>4, PagesAreNotEmpty
  <2>3. PICK x \in page : \A k \in page : x <= k
    BY <1>15, <2>2, LeastNumber
  <2>4. PICK c : c = Cursor(S)
    OBVIOUS
  <2>5. c \in page /\ \A k \in page : c <= k
    BY <1>7, <2>3, <2>4 DEF Cursor
  <2>6. below = {c} /\ c \in S /\ c \in R /\ c \in Leads /\ c \in Nat
    BY <1>9, <1>15, <1>20, <2>4, <2>5
  <2>7. ASSUME NEW l \in listed
        PROVE  c <= l
    <3>1. CASE l \in page
      BY <2>5, <3>1
    <3>2. CASE l \in p.listed
      <4>1. PICK b \in p.below : TRUE
        BY <1>2, <3>2 DEF Cut
      <4>2. b <= l /\ c < b
        BY <1>2, <1>3, <2>6, <3>2, <4>1 DEF Cut
      <4>3. l \in Nat /\ b \in Nat
        BY <1>17, <3>2, <4>1
      <4>4. QED
        BY <2>6, <4>2, <4>3
    <3>3. QED
      BY <1>10, <2>7, <3>1, <3>2
  <2>8. ASSUME NEW l \in p.owed \ listed
        PROVE  l < c
    <3>1. l \in R /\ l \notin page /\ l \in Nat
      BY <1>10, <1>15, <1>19, <2>8
    <3>2. ASSUME l >= c
          PROVE  FALSE
      <4>1. l \in S
        BY <1>5, <1>6, <1>15, <1>16, <2>6, <3>1, <3>2, PagesAreUpward
      <4>2. l \in page
        BY <1>7, <1>15, <1>16, <2>5, <3>2, <4>1, <1>4, PagesAreUpward
      <4>3. QED
        BY <3>1, <4>2
    <3>3. QED
      BY <2>6, <3>1, <3>2
  <2>9. QED
    BY <2>6, <2>7, <2>8
\* A page that is not followed by one shows all that is below.
<1>21. ASSUME ~more
       PROVE  p.owed \subseteq listed
  <2>1. Cardinality(S) <= PageSize /\ PageSize \in Nat /\ Cardinality(S) < m
    BY <1>4, <1>5, <1>16, <1>21, <1>8
  <2>2. S = R
    BY <1>6, <1>15, <1>16, <2>1, ShortPagesShowAll
  <2>3. page = S
    BY <1>7, <1>15, <1>16, <2>1, SmallSetsFit
  <2>4. QED
    BY <1>10, <1>19, <2>2, <2>3
<1>22. more \in BOOLEAN /\ twice = FALSE /\ listed \subseteq Leads /\ page \subseteq Leads
  <2>1. more \in BOOLEAN
    BY <1>8
  <2>2. twice = FALSE
    BY <1>2, <1>11, <1>18
  <2>3. QED
    BY <1>10, <1>15, <1>17, <2>1, <2>2
<1>23. below \subseteq Leads /\ (~more => below = {})
  BY <1>9, <1>20
<1>24. q \in WalkRows
  BY <1>2, <1>12, <1>22, <1>23 DEF WalkRows
<1>25. Cut(q)
  <2>1. q.owed = p.owed /\ q.step = "states"
    BY <1>14
  <2>2. CASE more
    BY <1>14, <1>20, <2>2 DEF Cut
  <2>3. CASE ~more
    BY <1>14, <1>21, <1>23, <2>3 DEF Cut
  <2>4. QED
    BY <2>2, <2>3
<1>26. WalkHolds(q)
  BY <1>2, <1>14, <1>22, <1>24, <1>25 DEF WalkHolds
<1>27. QED
  BY <1>13, <1>26, OneWalkMoves

LEMMA ReadStatesKeepsWalks ==
  ASSUME DeskInv, WalkInv, NEW r \in Requests, ReadStates(r)
  PROVE  WalkInv'
<1>1. PICK p : p = req[r]
  OBVIOUS
<1>2. p \in WalkRows /\ ~p.twice /\ p.owed \subseteq Scope(p.by) /\ Cut(p) /\ p.step = "states"
  BY <1>1 DEF ReadStates, At, WalkInv, WalkHolds
<1>3. PICK step : step = IF p.more THEN "page" ELSE "ended"
  OBVIOUS
<1>4. PICK q : q = [p EXCEPT !.step = step]
  OBVIOUS
<1>5. Becomes(r, q) /\ lead' = lead
  BY <1>1, <1>3, <1>4 DEF ReadStates, Becomes, deskVars
<1>6. q \in WalkRows /\ q.step = step
      /\ q.below = p.below /\ q.listed = p.listed /\ q.owed = p.owed /\ q.more = p.more
      /\ q.by = p.by /\ q.twice = p.twice
  BY <1>2, <1>3, <1>4 DEF WalkRows
<1>7. p.more \in BOOLEAN
  BY <1>2 DEF WalkRows
<1>8. Cut(q)
  BY <1>2, <1>3, <1>6, <1>7 DEF Cut
<1>9. WalkHolds(q)
  BY <1>2, <1>6, <1>8 DEF WalkHolds
<1>10. QED
  BY <1>5, <1>9, OneWalkMoves

LEMMA AssignKeepsWalks ==
  ASSUME DeskInv, WalkInv, NEW l \in Leads, NEW s \in Sales, Assign(l, s)
  PROVE  WalkInv'
<1>1. PICK o : o = lead[l].owner
  OBVIOUS
<1>2. /\ lead \in [Leads -> Lead] /\ lead' = [lead EXCEPT ![l].owner = s] /\ Leads \subseteq Nat
      /\ \A r \in Requests : req'[r] = IF req[r].kind = "walk" /\ req[r].by = o
                                       THEN [req[r] EXCEPT !.owed = @ \ {l}] ELSE req[r]
  BY <1>1, LeadsAreNumbered DEF Assign, DeskInv, RowTypes
<1>3. \A k \in Leads : /\ lead'[k].made = lead[k].made
                       /\ k # l => lead'[k].owner = lead[k].owner
  BY <1>2 DEF Lead
<1>4. \A a : (Scope(a) \ {l}) \subseteq Scope(a)' /\ (a # o => Scope(a) \subseteq Scope(a)')
  BY <1>1, <1>3 DEF Scope
<1>5. ASSUME NEW r \in Requests, req'[r].kind = "walk"
      PROVE  WalkHolds(req[r])'
  <2>1. PICK p : p = req[r]
    OBVIOUS
  <2>2. PICK q : q = req'[r]
    OBVIOUS
  <2>3. p.kind = "walk"
    BY <1>2, <1>5, <2>1, BoardMovesWalks DEF Board
  <2>4. p \in WalkRows /\ ~p.twice /\ p.owed \subseteq Scope(p.by) /\ Cut(p)
    BY <2>1, <2>3 DEF WalkInv, WalkHolds
  <2>5. q \in WalkRows /\ ~q.twice /\ q.owed \subseteq Scope(q.by)' /\ Cut(q)
    <3>1. CASE p.by = o
      <4>1. PICK owed : owed = p.owed \ {l}
        OBVIOUS
      <4>2. q = [p EXCEPT !.owed = owed]
        BY <1>2, <2>1, <2>2, <2>3, <3>1, <4>1
      <4>3. /\ q.owed = owed /\ q.by = p.by /\ q.below = p.below /\ q.listed = p.listed
            /\ q.step = p.step /\ q.more = p.more /\ q.twice = p.twice /\ q \in WalkRows
        BY <2>4, <4>1, <4>2 DEF WalkRows
      <4>4. owed \subseteq Scope(p.by)'
        BY <1>4, <2>4, <4>1
      <4>5. Cut(q)
        BY <2>4, <4>1, <4>3 DEF Cut
      <4>6. q.owed \subseteq Scope(q.by)'
        BY <4>3, <4>4
      <4>7. QED
        BY <2>4, <4>3, <4>5, <4>6
    <3>2. CASE p.by # o
      <4>1. q = p
        BY <1>2, <2>1, <2>2, <3>2
      <4>2. p.owed \subseteq Scope(p.by)'
        BY <1>4, <2>4, <3>2
      <4>3. QED
        BY <2>4, <4>1, <4>2
    <3>3. QED
      BY <3>1, <3>2
  <2>6. QED
    BY <2>2, <2>5 DEF WalkHolds, WalkRows, Cut, Actors
<1>6. QED
  BY <1>5 DEF WalkInv

LEMMA BoardKeepsWalks ==
  ASSUME DeskInv, WalkInv, Board
  PROVE  WalkInv'
<1>1. CASE Insert \/ \E l \in Leads : SetStatus(l)
  <2>1. PICK l \in Leads : lead' \in {[lead EXCEPT ![l].made = TRUE], [lead EXCEPT ![l].lost = ~@]}
    BY <1>1 DEF Insert, SetStatus
  <2>2. \A k \in Leads : lead[k].made => lead'[k].made /\ lead'[k].owner = lead[k].owner
    BY <2>1 DEF DeskInv, RowTypes, Lead
  <2>3. req' = req
    BY <1>1 DEF Insert, SetStatus
  <2>4. QED
    BY <2>2, <2>3, ScopesStay, WalksStay
<1>2. ASSUME NEW l \in Leads, NEW s \in Sales, Assign(l, s)
      PROVE  WalkInv'
  BY <1>2, AssignKeepsWalks
<1>3. QED
  BY <1>1, <1>2 DEF Board

LEMMA ReadKeepsWalks ==
  ASSUME DeskInv, WalkInv, NEW r \in Requests, Read(r)
  PROVE  WalkInv'
<1>0. RequestsHold /\ \A a : lead' = lead => Scope(a)' = Scope(a)
  BY DEF DeskInv, Scope
<1>1. ASSUME NEW a \in Actors, BeginWalk(r, a)
      PROVE  WalkInv'
  BY <1>1, BeginWalkKeepsWalks
<1>2. CASE ReadPage(r)
  BY <1>2, ReadPageKeepsWalks
<1>3. CASE ReadStates(r)
  BY <1>3, ReadStatesKeepsWalks
<1>4. CASE EndWalk(r) \/ Mark(r)
  <2>1. req' = [req EXCEPT ![r] = Idle] /\ lead' = lead
    BY <1>4 DEF EndWalk, Mark, Ends, Becomes, deskVars
  <2>2. \A s \in Requests : req'[s].kind = "walk" => req'[s] = req[s]
    BY <1>0, <2>1, IdleIsOK DEF RequestsHold
  <2>3. QED
    BY <1>0, <2>1, <2>2, WalksStay
<1>5. ASSUME NEW s \in Sales, NEW S, BeginMark(r, s, S)
      PROVE  WalkInv'
  <2>1. lead' = lead /\ Moves(r, "mark")
    BY <1>0, <1>5, IdleIsOK, MovesByUpdate DEF BeginMark, Takes, deskVars
  <2>2. QED
    BY <1>0, <2>1, OthersKeepWalks
<1>6. QED
  BY <1>1, <1>2, <1>3, <1>4, <1>5 DEF Read

LEMMA WalkInvIsInductive ==
  ASSUME DeskInv, WalkInv, [Next]_vars
  PROVE  WalkInv'
<1>0. lead' = lead => \A a : Scope(a) \subseteq Scope(a)'
  BY DEF Scope
<1>1. CASE Board
  BY <1>1, BoardKeepsWalks
<1>2. CASE UNCHANGED <<lead, req>>
  BY <1>0, <1>2, WalksStay
<1>3. CASE \E a \in Actors : LeaveWindow(a)
  BY <1>2, <1>3 DEF LeaveWindow
<1>4. ASSUME NEW r \in Requests, Reengage(r)
      PROVE  WalkInv'
  <2>1. lead' = lead
    BY <1>4 DEF Reengage, BeginRun, LoadLeads, EndRun, Save, deskVars
  <2>2. QED
    BY <1>0, <1>4, <2>1, RunsMove, OthersKeepWalks
<1>5. ASSUME NEW r \in Requests, Withdraw(r)
      PROVE  WalkInv'
  <2>1. \A l \in Leads : lead[l].made => lead'[l].made /\ lead'[l].owner = lead[l].owner
    <3>1. CASE lead' = lead
      BY <3>1
    <3>2. CASE Stamp(r)
      <4>1. PICK S : lead' = [l \in Leads |-> IF l \in S
                                THEN [lead[l] EXCEPT !.withdrawn = TRUE, !.consent = FALSE] ELSE lead[l]]
        BY <3>2 DEF Stamp
      <4>2. QED
        BY <4>1 DEF DeskInv, RowTypes, Lead
    <3>3. QED
      BY <1>5, <3>1, <3>2 DEF Withdraw, BeginWithdraw, ListEntries, EndWithdraw, CancelEntry, deskVars
  <2>2. QED
    BY <1>5, <2>1, ScopesStay, WithdrawalsMove, OthersKeepWalks
<1>6. ASSUME NEW r \in Requests, RevealPhone(r)
      PROVE  WalkInv'
  <2>1. lead' = lead
    BY <1>6 DEF RevealPhone, BeginReveal, ReadLeads, Reveal, deskVars
  <2>2. QED
    BY <1>0, <1>6, <2>1, RevealsMove, OthersKeepWalks
<1>7. ASSUME NEW r \in Requests, Read(r)
      PROVE  WalkInv'
  BY <1>7, ReadKeepsWalks
<1>8. ASSUME NEW r \in Requests, Devices(r), UNCHANGED deskVars
      PROVE  WalkInv'
  <2>1. lead' = lead
    BY <1>8 DEF deskVars
  <2>2. QED
    BY <1>0, <1>8, <2>1, DevicesMove, OthersKeepWalks
<1>9. ASSUME NEW i \in Identities, NEW t \in Tokens, RemoveToken(i, t), UNCHANGED deskVars
      PROVE  WalkInv'
  BY <1>2, <1>9 DEF RemoveToken, deskVars
<1>10. CASE UNCHANGED vars
  BY <1>2, <1>10 DEF vars, deskVars
<1>11. QED
  BY <1>1, <1>3, <1>4, <1>5, <1>6, <1>7, <1>8, <1>9, <1>10 DEF Next

\* Pages that are walked while leads come, go and change hands show no lead
\* twice, and a walk that ends has shown every lead that stayed in its scope,
\* for any leads, brokers, walks and page size: the cursors of
\* query_crm_leads_page and of list_assigned_notification_leads.
THEOREM WalksAreComplete == Spec => []WalkIsComplete
<1>1. Init => WalkInv
  BY IdleIsOK DEF Init, WalkInv
<1>2. WalkInv /\ DeskInv /\ [Next]_vars => WalkInv'
  BY WalkInvIsInductive
<1>3. WalkInv => WalkIsComplete
  BY DEF WalkInv, WalkHolds, Cut, WalkIsComplete
<1>4. QED
  BY <1>1, <1>2, <1>3, DeskInvHolds, PTL DEF Spec
===============================================================================
