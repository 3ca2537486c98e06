------------------------------ MODULE Transcripts ------------------------------
(***************************************************************************)
(* Reading the chat history while it is written: the sessions endpoints of *)
(* customers, the reads of the global assistant's repository, the training *)
(* pages of brokers and admins and the conversation of a lead in the CRM.  *)
(*                                                                         *)
(* Every statement is one action.  A transcript takes two: one finds the   *)
(* session by what the caller claims, the next reads its messages by id.   *)
(* Times are numbers: no two statements write at the same microsecond.     *)
(***************************************************************************)
EXTENDS ChatHistory

CONSTANTS
    Readers,   \* requests that read
    Wanted,    \* what they may be: kind, session or lead, who, project
    Brokers,   \* brokers a lead may be assigned to
    Admin,     \* an administrator
    Limit,     \* sessions on a page
    HintAfter, \* turns before a customer is asked for a phone number
    Loads      \* bound: what a behaviour may consist of, and how many requests

ASSUME PagesAreFinite == IsFiniteSet(Sessions) /\ Sessions # {} /\ Limit \in Nat \ {0}
ASSUME WantedAreKnown ==
    \A w \in Wanted :
        /\ w.kind \in {"customer", "staff", "global", "training"} => w.session \in Sessions
        /\ w.kind = "lead" => w.session \in Leads

VARIABLES
    active,    \* session -> its last_active_at
    lead,      \* lead -> what its row claims, its broker, whether handoff was tried
    reader,    \* reader -> the request, how far it got and what it was shown
    load       \* the bound of this behaviour

readingVars == <<active, lead, reader, load>>
allVars == <<vars, readingVars>>

NoLead == [claim |-> Nobody, broker |-> Nobody, tried |-> FALSE, moved |-> FALSE]

\* row, swept, due, listed and rows are history: the session whose messages were
\* shown, whether it was swept after it was found, the sessions a walk still owes,
\* those it showed, and how many rows that were.
NoRead == [what |-> Nobody, step |-> "idle", session |-> Nobody, row |-> NoSession,
           swept |-> FALSE, cursor |-> 0, due |-> {}, listed |-> {}, rows |-> 0]

InitReading ==
    /\ Init
    /\ active = [s \in Sessions |-> 0]
    /\ lead = [l \in Leads |-> NoLead]
    /\ reader = [r \in Readers |-> NoRead]
    /\ load \in Loads

Used == Cardinality({t \in Turns : turn[t].step # "idle"})
        + Cardinality({r \in Readers : reader[r].step # "idle"})
        + Cardinality({l \in Leads : lead[l] # NoLead})

MayCome == Used < load.requests

-------------------------------------------------------------------------------
(***************************************************************************)
(* What the writers do to the times, and to the readers' history.          *)
(***************************************************************************)

Now == 1 + Max({active[s] : s \in Sessions})

\* The sessions whose last_active_at the step sets: a link does not.
Touched == {s \in Sessions : /\ session'[s].kind # "none"
                             /\ \/ session'[s].kind # session[s].kind
                                \/ session'[s].count # session[s].count
                                \/ session'[s].lead # session[s].lead}

Gone(s) == session[s].kind # "none" /\ session'[s].kind = "none"

Stamped ==
    /\ active' = [s \in Sessions |-> IF session'[s].kind = "none" THEN 0
                                     ELSE IF s \in Touched THEN Now ELSE active[s]]
    /\ reader' = [r \in Readers |->
          [reader[r] EXCEPT !.due = @ \ Touched,
                            !.swept = @ \/ (reader[r].step = "read" /\ Gone(reader[r].session))]]

Asking(t, w) ==
    /\ MayCome /\ w \in load.asked
    /\ Ask(t, w) \/ Preflight(t, w)
    /\ Stamped /\ UNCHANGED <<lead, load>>

Storing(t) == Store(t) /\ Stamped /\ UNCHANGED <<lead, load>>

Linking(d, u) == Link(d, u) /\ Stamped /\ UNCHANGED <<lead, load>>

Sweeping(s) == CleanUp(s) /\ Stamped /\ UNCHANGED <<lead, load>>

-------------------------------------------------------------------------------
(***************************************************************************)
(* Leads: committed with what the request claims, then handed over.        *)
(***************************************************************************)

\* The session, project and device of the row are the request's, unchecked.
Submit(l, h, b) ==
    /\ lead[l] = NoLead /\ MayCome
    /\ lead' = [lead EXCEPT ![l] = [NoLead EXCEPT !.claim = h, !.broker = b]]
    /\ UNCHANGED <<vars, active, reader, load>>

TryHandoff(l) ==
    /\ lead[l] # NoLead /\ ~lead[l].tried
    /\ lead' = [lead EXCEPT ![l].tried = TRUE]
    /\ \/ CheckHandoff(l, lead[l].claim)
       \/ ~MayHandOff(lead[l].claim, session[lead[l].claim.session]) /\ UNCHANGED vars
    /\ UNCHANGED <<active, reader, load>>

\* The mark is best effort: it may fail, and nobody repeats it.
Mark(l) ==
    \/ MarkHandedOff(l) /\ Stamped /\ UNCHANGED <<lead, load>>
    \/ /\ handing[l] # Nobody
       /\ handing' = [handing EXCEPT ![l] = Nobody]
       /\ UNCHANGED <<session, messages, turn, missed, link, readingVars>>

Reassign(l, b) ==
    /\ lead[l] # NoLead /\ ~lead[l].moved /\ lead[l].broker # b
    /\ lead' = [lead EXCEPT ![l].broker = b, ![l].moved = TRUE]
    /\ UNCHANGED <<vars, active, reader, load>>

-------------------------------------------------------------------------------
(***************************************************************************)
(* Transcripts.                                                            *)
(***************************************************************************)

IsCustomers(row) == row.kind \in {"customer", "global"}

Opens(r, w) == reader[r].step = "idle" /\ MayCome /\ w \in load.wanted

Reads(r, read) ==
    /\ reader' = [reader EXCEPT ![r] = read]
    /\ UNCHANGED <<vars, active, lead, load>>

Started(w, step) == [NoRead EXCEPT !.what = w, !.step = step]

\* Faulty: the session id alone opens a session.
ShownToId(w, row) == IsCustomers(row)

\* get_session: a customer's device and signed identity, staff by the device.
ShownTo(w, row) ==
    /\ IsCustomers(row)
    /\ row.owner = w.who /\ row.project = w.project
    /\ w.kind = "customer" => row.identity = w.who

\* get_global_session: the device or the identity.
IsGlobalOf(w, row) == row.kind = "global" /\ w.who \in {row.owner, row.identity}

\* get_training_session: no owner is compared for an admin.
IsTrainingOf(w, row) == row.kind = "training" /\ w.who \in {row.owner, Admin}

Matches(w, row) ==
    CASE w.kind = "global"   -> IsGlobalOf(w, row)
      [] w.kind = "training" -> IsTrainingOf(w, row)
      [] OTHER               -> ShownTo(w, row)

FindsOrRefuses(r, w) ==
    Reads(r, IF Matches(w, session[w.session])
             THEN [Started(w, "read") EXCEPT !.session = w.session]
             ELSE Started(w, "refused"))

Find(r, w) == Opens(r, w) /\ w.kind \in {"customer", "staff", "global"} /\ FindsOrRefuses(r, w)

\* An absent session and one of another broker are refused alike but for the
\* status: a probe without the owner tells 404 from 403.
FindTraining(r, w) == Opens(r, w) /\ w.kind = "training" /\ FindsOrRefuses(r, w)

\* Only the broker the lead is assigned to, or an admin, gets past.
OpenLead(r, w) ==
    /\ Opens(r, w) /\ w.kind = "lead" /\ lead[w.session] # NoLead
    /\ Reads(r, Started(w, IF w.who \in {lead[w.session].broker, Admin}
                           THEN "find" ELSE "refused"))

\* The session that was marked with the lead, or the one the lead claims.
IsOfLead(l, s) ==
    /\ IsCustomers(session[s])
    /\ \/ session[s].lead = l
       \/ /\ s = lead[l].claim.session
          /\ session[s].project = lead[l].claim.project
          /\ session[s].owner = lead[l].claim.device

\* No session is no error: the conversation is empty.
FindOfLead(r) ==
    /\ reader[r].step = "find"
    /\ LET l == reader[r].what.session
           found == {s \in Sessions : IsOfLead(l, s)}
       IN \/ \E s \in found : Reads(r, [reader[r] EXCEPT !.step = "read", !.session = s])
          \/ found = {} /\ Reads(r, [reader[r] EXCEPT !.step = "empty"])

Shows(r, row) == Reads(r, [reader[r] EXCEPT !.step = "shown", !.row = row])

\* The messages of a customer's session or of a lead's: by session id alone.
Show(r) ==
    /\ reader[r].step = "read" /\ reader[r].what.kind \in {"customer", "staff", "lead"}
    /\ Shows(r, session[reader[r].session])

\* The claims are compared again by the statement that reads.
ShowGlobal(r) ==
    /\ reader[r].step = "read" /\ reader[r].what.kind = "global"
    /\ LET row == session[reader[r].session] IN
       Shows(r, IF IsGlobalOf(reader[r].what, row) THEN row ELSE NoSession)

\* That it is a training session is looked up again; training is not swept.
ShowTraining(r) ==
    /\ reader[r].step = "read" /\ reader[r].what.kind = "training"
    /\ LET row == session[reader[r].session] IN
       Shows(r, IF row.kind = "training" THEN row ELSE NoSession)

\* Turns of the session, handed over, named by a lead: in one statement.
CtaState(w) ==
    LET row == session[w.session] IN
    IF ShownTo([w EXCEPT !.kind = "customer"], row)
    THEN [turns |-> row.count \div 2, handed |-> row.lead # Nobody,
          phone |-> \E l \in Leads : lead[l] # NoLead /\ lead[l].claim.session = w.session]
    ELSE [turns |-> 0, handed |-> FALSE, phone |-> FALSE]

\* A phone number is asked for after enough turns, in a session that was not
\* handed over and that no lead names.
AskForPhone(r, w) ==
    /\ Opens(r, w) /\ w.kind = "hint"
    /\ LET cta == CtaState(w) IN
       Reads(r, Started(w, IF cta.turns < HintAfter \/ cta.handed \/ cta.phone
                           THEN "refused" ELSE "hinted"))

-------------------------------------------------------------------------------
(***************************************************************************)
(* Walking through the pages of training sessions.                         *)
(***************************************************************************)

Listed(w) ==
    {s \in Sessions : /\ session[s].kind = "training"
                      /\ w.who \in {session[s].owner, Admin}
                      /\ w.project \in {session[s].project, Nobody}}

StartWalk(r, w) ==
    /\ Opens(r, w) /\ w.kind = "walk"
    /\ Reads(r, [Started(w, "page") EXCEPT !.cursor = Now, !.due = Listed(w)])

Newest(rows, n) == {s \in rows : Cardinality({x \in rows : active[x] > active[s]}) < n}

Lists(r, w, rows) ==
    Reads(r, [Started(w, "walked") EXCEPT !.listed = Newest(rows, Limit),
                                          !.rows = Cardinality(Newest(rows, Limit))])

\* The newest sessions of a customer, in one statement.
ListSessions(r, w) ==
    /\ Opens(r, w) /\ w.kind = "list"
    /\ Lists(r, w, {s \in Sessions : ShownTo([w EXCEPT !.kind = "customer"], session[s])})

ListGlobal(r, w) ==
    /\ Opens(r, w) /\ w.kind = "globals"
    /\ Lists(r, w, {s \in Sessions : IsGlobalOf(w, session[s])})

\* Faulty: the cursor is the row that was read to see whether there are more.
CursorOfExtra(rows) == Min({active[s] : s \in Newest(rows, Limit + 1)})

\* The cursor is the last row of the page.
CursorOf(rows) == Min({active[s] : s \in Newest(rows, Limit)})

\* The rows below the cursor, newest first.
Page(r) ==
    /\ reader[r].step = "page"
    /\ LET rows == {s \in Listed(reader[r].what) : active[s] < reader[r].cursor}
           page == Newest(rows, Limit)
           shown == [reader[r] EXCEPT !.listed = @ \cup page, !.rows = @ + Cardinality(page)]
       IN Reads(r, IF Cardinality(rows) > Limit
                   THEN [shown EXCEPT !.cursor = CursorOf(rows)]
                   ELSE [shown EXCEPT !.step = "walked", !.cursor = 0])

-------------------------------------------------------------------------------
Reading(r) ==
    \/ FindOfLead(r) \/ Show(r) \/ ShowGlobal(r) \/ ShowTraining(r) \/ Page(r)
    \/ \E w \in Wanted : \/ Find(r, w) \/ FindTraining(r, w) \/ OpenLead(r, w)
                         \/ AskForPhone(r, w) \/ ListSessions(r, w) \/ ListGlobal(r, w)
                         \/ StartWalk(r, w)

NextReading ==
    \/ \E t \in Turns : Storing(t) \/ \E w \in Asked : Asking(t, w)
    \/ \E l \in Leads : \/ TryHandoff(l) \/ Mark(l)
                        \/ \E b \in Brokers : Reassign(l, b) \/ \E h \in Handed : Submit(l, h, b)
    \/ \E d \in Devices, u \in Accounts : Linking(d, u)
    \/ \E s \in Sessions : Sweeping(s)
    \/ \E r \in Readers : Reading(r)

SpecReading == InitReading /\ [][NextReading]_allVars

-------------------------------------------------------------------------------
(***************************************************************************)
(* Properties.                                                             *)
(***************************************************************************)

\* A transcript that is shown belongs to the one who asked for it: a customer's
\* to its device and project, a training session to its broker, the conversation
\* of a lead to the device and project of the lead.  The messages are read by id
\* alone, so this takes that no session changes hands between the statements,
\* which only a sweep does.
TranscriptIsTheReaders ==
    \A r \in Readers :
        reader[r].step = "shown" /\ reader[r].row # NoSession /\ ~reader[r].swept =>
            LET w == reader[r].what
                row == reader[r].row
            IN CASE w.kind \in {"customer", "staff"} ->
                      IsCustomers(row) /\ row.owner = w.who /\ row.project = w.project
                 [] w.kind = "global"   -> row.kind = "global" /\ w.who \in {row.owner, row.identity}
                 [] w.kind = "training" -> row.kind = "training" /\ w.who \in {row.owner, Admin}
                 [] w.kind = "lead"     ->
                      /\ IsCustomers(row)
                      /\ w.session \notin missed =>
                            /\ row.owner = lead[w.session].claim.device
                            /\ row.project = lead[w.session].claim.project

\* A walk through the pages shows no session twice, and misses only those that
\* were written to while it went on: they moved above its cursor.
WalkIsComplete ==
    \A r \in Readers :
        /\ reader[r].rows = Cardinality(reader[r].listed)
        /\ reader[r].step = "walked" => reader[r].due \subseteq reader[r].listed
===============================================================================
