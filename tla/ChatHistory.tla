------------------------------ MODULE ChatHistory ------------------------------
(***************************************************************************)
(* The durable chat history: rows of chat_sessions and chat_messages       *)
(* written by customer turns, turns of the global assistant and private    *)
(* training turns of brokers, handed to leads, re-keyed when a device is   *)
(* linked to an account, and swept after their retention.                  *)
(*                                                                         *)
(* A customer or global turn is one transaction whose upsert locks the     *)
(* session row: one action.  A training turn reads what it will write      *)
(* without a lock: two.  The anonymous identity of a device is the device. *)
(***************************************************************************)
EXTENDS Naturals, FiniteSets, SequencesExt

CONSTANTS
    Sessions,  \* session ids the clients present
    Devices,   \* devices of customers
    Accounts,  \* firebase accounts of customers
    Turns,     \* answered POST /query requests to be stored
    Asked,     \* what the turns may be: kind, session, who, project, question
    Leads,     \* submissions that may hand a session over
    Handed,    \* what they may present: session, device, project
    Nobody     \* no account, owner, session or lead

ASSUME KeysAreDisjoint == Devices \cap Accounts = {} /\ Nobody \notin Devices \cup Accounts
ASSUME NobodyIsSeparate == Nobody \notin Leads \cup Sessions
ASSUME AskedAreTurns ==
    \A w \in Asked : /\ w.kind \in {"customer", "global", "training"}
                     /\ w.session \in Sessions
                     /\ IF w.kind = "training" THEN w.who # Nobody ELSE w.who \in Devices
ASSUME HandedAreSessions == \A h \in Handed : h.session \in Sessions

VARIABLES
    session,   \* session id -> its chat_sessions row
    messages,  \* session id -> its chat_messages rows, by id
    turn,      \* turn -> the request and how far it got
    handing,   \* lead -> the session its submission was found to own
    missed,    \* history: leads whose session was swept while it was handed over
    link       \* device -> the account it is linked to

vars == <<session, messages, turn, handing, missed, link>>

Kinds == {"customer", "global", "training"}

\* owner is the device of a customer, or the broker of a training session.
NoSession == [kind |-> "none", owner |-> Nobody, identity |-> Nobody, project |-> Nobody,
              count |-> 0, lead |-> Nobody]

\* after is history: the training turns that were stored when it read.
NoTurn == [what |-> Nobody, identity |-> Nobody, repeat |-> FALSE, after |-> {},
           step |-> "idle"]

\* "bind": the preflight found no training session     "ready": answered
\* "write": a training turn read what is stored already
Steps == {"idle", "bind", "ready", "write", "stored", "refused", "lost"}

\* Rows keep their types; a session that is not there has no messages, and a
\* training session has a broker and no customer identity.
TypeOK ==
    /\ \A s \in Sessions :
          /\ session[s].kind \in Kinds \cup {"none"}
          /\ session[s].identity \in Devices \cup Accounts \cup {Nobody}
          /\ session[s].count \in Nat
          /\ session[s].lead \in Leads \cup {Nobody}
          /\ session[s].kind = "none" => session[s] = NoSession /\ messages[s] = <<>>
          /\ session[s].kind = "training" <=> session[s].identity = Nobody
                                              /\ session[s].owner # Nobody
    /\ messages \in [Sessions -> Seq([turn : Turns, role : {"user", "assistant"}])]
    /\ turn \in [Turns -> [what : Asked \cup {Nobody}, repeat : BOOLEAN, after : SUBSET Turns,
                           identity : Devices \cup Accounts \cup {Nobody}, step : Steps]]
    /\ handing \in [Leads -> Sessions \cup {Nobody}]
    /\ missed \subseteq Leads
    /\ link \in [Devices -> Accounts \cup {Nobody}]

Init ==
    /\ session = [s \in Sessions |-> NoSession]
    /\ messages = [s \in Sessions |-> <<>>]
    /\ turn = [t \in Turns |-> NoTurn]
    /\ handing = [l \in Leads |-> Nobody]
    /\ missed = {}
    /\ link = [d \in Devices |-> Nobody]

At(t, kind, step) == turn[t].step = step /\ turn[t].what.kind = kind

Goes(t, step) == turn' = [turn EXCEPT ![t].step = step]

Row(t) == session[turn[t].what.session]

Said(t, role) == [turn |-> t, role |-> role]

\* The row of the turn's session, made if there is none.
Opened(t) ==
    IF Row(t).kind # "none" THEN Row(t)
    ELSE [NoSession EXCEPT !.kind = turn[t].what.kind, !.owner = turn[t].what.who,
                           !.identity = turn[t].identity, !.project = turn[t].what.project]

\* Faulty: every turn counts as two messages.
StoredAsTwo(t, said) ==
    LET s == turn[t].what.session IN
    /\ messages' = [messages EXCEPT ![s] = @ \o said]
    /\ session' = [session EXCEPT ![s] = [Opened(t) EXCEPT !.count = @ + 2]]
    /\ Goes(t, "stored")

\* The messages a turn adds, and the count that goes with them.
Stored(t, said) ==
    LET s == turn[t].what.session IN
    /\ messages' = [messages EXCEPT ![s] = @ \o said]
    /\ session' = [session EXCEPT ![s] = [Opened(t) EXCEPT !.count = @ + Len(said)]]
    /\ Goes(t, "stored")

\* The store fails, or the worker dies: nothing of the turn is written.
Lose(t) ==
    /\ turn[t].step \in {"bind", "ready", "write"}
    /\ Goes(t, "lost")
    /\ UNCHANGED <<session, messages, handing, missed, link>>

-------------------------------------------------------------------------------
(***************************************************************************)
(* Customer and global turns.                                              *)
(***************************************************************************)

\* The identity is fixed before the pipeline runs: the device's own, or the
\* account the client is signed in to.
Ask(t, w) ==
    /\ turn[t].step = "idle" /\ w.kind \in {"customer", "global"}
    /\ \E i \in {w.who, link[w.who]} \ {Nobody} :
          turn' = [turn EXCEPT ![t] = [NoTurn EXCEPT !.what = w, !.identity = i,
                                                      !.step = "ready"]]
    /\ UNCHANGED <<session, messages, handing, missed, link>>

\* append_turn: the session row is created, or touched when device, identity
\* and project match.  When they do not, the command tag is "INSERT 0 0" and
\* not the "UPDATE 0" that is looked for: the messages are written all the same.
AppendTurn(t) ==
    /\ At(t, "customer", "ready")
    /\ Stored(t, <<Said(t, "user"), Said(t, "assistant")>>)
    /\ UNCHANGED <<handing, missed, link>>

\* The ON CONFLICT predicate of append_global_turn.
SameClaims(t) ==
    /\ Row(t).kind = "global"
    /\ Row(t).owner = turn[t].what.who
    /\ Row(t).identity = turn[t].identity

AppendGlobalTurn(t) ==
    /\ At(t, "global", "ready")
    /\ IF Row(t).kind = "none" \/ SameClaims(t)
       THEN Stored(t, <<Said(t, "user"), Said(t, "assistant")>>)
       ELSE Goes(t, "refused") /\ UNCHANGED <<session, messages>>
    /\ UNCHANGED <<handing, missed, link>>

-------------------------------------------------------------------------------
(***************************************************************************)
(* Training turns: _validate_training_request, bind_training_session,      *)
(* append_training_turn.                                                   *)
(***************************************************************************)

\* Faulty: the project is not compared.
BoundToOwner(w, row) == row.kind = "training" /\ row.owner = w.who

\* The session is a training session of this broker and project.
BoundTo(w, row) == row.kind = "training" /\ row.owner = w.who /\ row.project = w.project

Preflight(t, w) ==
    /\ turn[t].step = "idle" /\ w.kind = "training"
    /\ turn' = [turn EXCEPT ![t] = [NoTurn EXCEPT !.what = w, !.step =
                   IF session[w.session].kind # "training" THEN "bind"
                   ELSE IF BoundTo(w, session[w.session]) THEN "ready" ELSE "refused"]]
    /\ UNCHANGED <<session, messages, handing, missed, link>>

Bind(t) ==
    /\ turn[t].step = "bind"
    /\ LET w == turn[t].what IN
       IF Row(t).kind = "none"
       THEN /\ session' = [session EXCEPT ![w.session] =
                  [NoSession EXCEPT !.kind = "training", !.owner = w.who, !.project = w.project]]
            /\ Goes(t, "ready")
       ELSE /\ Goes(t, IF BoundTo(w, Row(t)) THEN "ready" ELSE "refused")
            /\ UNCHANGED session
    /\ UNCHANGED <<messages, handing, missed, link>>

\* Faulty: the question is never found.
IsRepeatNever(t) == FALSE

\* The question is stored already, whoever asked it.
IsRepeat(t) ==
    \E i \in 1..Len(messages[turn[t].what.session]) :
        LET said == messages[turn[t].what.session][i] IN
        said.role = "user" /\ turn[said.turn].what.question = turn[t].what.question

TurnsOf(s, kind) ==
    {said.turn : said \in {m \in ToSet(messages[s]) : turn[m.turn].what.kind = kind}}

ReadStored(t) ==
    /\ At(t, "training", "ready")
    /\ turn' = IF BoundTo(turn[t].what, Row(t))
               THEN [turn EXCEPT ![t].step = "write", ![t].repeat = IsRepeat(t),
                                 ![t].after = TurnsOf(turn[t].what.session, "training")]
               ELSE [turn EXCEPT ![t].step = "refused"]
    /\ UNCHANGED <<session, messages, handing, missed, link>>

AppendTrainingTurn(t) ==
    /\ At(t, "training", "write")
    /\ Stored(t, IF turn[t].repeat THEN <<Said(t, "assistant")>>
                 ELSE <<Said(t, "user"), Said(t, "assistant")>>)
    /\ UNCHANGED <<handing, missed, link>>

-------------------------------------------------------------------------------
(***************************************************************************)
(* Handoff, linking and retention.                                         *)
(***************************************************************************)

\* get_session_for_handoff and the device check of submit_lead.
MayHandOff(h, row) ==
    /\ row.kind \in {"customer", "global"}
    /\ row.project = h.project
    /\ row.owner = h.device

CheckHandoff(l, h) ==
    /\ handing[l] = Nobody /\ \A s \in Sessions : session[s].lead # l
    /\ MayHandOff(h, session[h.session])
    /\ handing' = [handing EXCEPT ![l] = h.session]
    /\ UNCHANGED <<session, messages, turn, missed, link>>

\* mark_handed_off: the session id alone, but never a training session.
MarkHandedOff(l) ==
    /\ handing[l] # Nobody
    /\ session' = IF session[handing[l]].kind \in {"customer", "global"}
                  THEN [session EXCEPT ![handing[l]].lead = l] ELSE session
    /\ handing' = [handing EXCEPT ![l] = Nobody]
    /\ UNCHANGED <<messages, turn, missed, link>>

\* The history part of link_identity_atomically.
Link(d, u) ==
    /\ link[d] = Nobody
    /\ link' = [link EXCEPT ![d] = u]
    /\ session' = [s \in Sessions |-> IF session[s].identity = d
                                      THEN [session[s] EXCEPT !.identity = u] ELSE session[s]]
    /\ UNCHANGED <<messages, turn, handing, missed>>

\* Rows without an answer mode.
IsSwept(row) == row.kind \in {"customer", "global"}

\* That the session was idle for the days of retention is not modelled.
CleanUp(s) ==
    /\ IsSwept(session[s])
    /\ missed' = missed \cup {l \in Leads : handing[l] = s}
    /\ session' = [session EXCEPT ![s] = NoSession]
    /\ messages' = [messages EXCEPT ![s] = <<>>]
    /\ UNCHANGED <<turn, handing, link>>

-------------------------------------------------------------------------------
Store(t) ==
    \/ AppendTurn(t) \/ AppendGlobalTurn(t)
    \/ Bind(t) \/ ReadStored(t) \/ AppendTrainingTurn(t) \/ Lose(t)

Next ==
    \/ \E t \in Turns : Store(t) \/ \E w \in Asked : Ask(t, w) \/ Preflight(t, w)
    \/ \E l \in Leads : MarkHandedOff(l) \/ \E h \in Handed : CheckHandoff(l, h)
    \/ \E d \in Devices, u \in Accounts : Link(d, u)
    \/ \E s \in Sessions : CleanUp(s)

Spec == Init /\ [][Next]_vars

-------------------------------------------------------------------------------
(***************************************************************************)
(* Properties.                                                             *)
(***************************************************************************)

\* message_count is the number of messages, whatever turns are repeated, lost
\* or stored at the same time.
CountIsExact == \A s \in Sessions : session[s].count = Len(messages[s])

\* The claims of a customer's turn, as they read after its device was linked.
Owns(t, row) ==
    /\ row.owner = turn[t].what.who
    /\ \/ row.identity = turn[t].identity
       \/ turn[t].identity \in Devices /\ row.identity = link[turn[t].identity]

\* Training and global turns are stored only in a session of their owner and,
\* for training, of their project, however binds, links and sweeps interleave;
\* rows keep their types, and a session that is not there has no messages.
GuardedTurnsAreOwned ==
  /\ TypeOK
  /\ \A s \in Sessions :
        /\ \A t \in TurnsOf(s, "training") :
              /\ session[s].kind = "training"
              /\ session[s].owner = turn[t].what.who
              /\ session[s].project = turn[t].what.project
        /\ \A t \in TurnsOf(s, "global") :
              session[s].kind = "global" /\ Owns(t, session[s])

Twice(t, x, s) ==
    /\ t # x
    /\ {Said(t, "user"), Said(x, "user")} \subseteq ToSet(messages[s])
    /\ turn[t].what.question = turn[x].what.question

\* A question of a training session that is asked again after it was stored is
\* not stored again, whoever asks; only attempts that read at the same time do.
\* And what is stored is counted, by whichever of the paths it came.
QuestionIsStoredOnce ==
  /\ CountIsExact
  /\ \A s \in Sessions : \A t, x \in TurnsOf(s, "training") :
        Twice(t, x, s) => t \notin turn[x].after /\ x \notin turn[t].after

\* A customer's turn is stored only in a session of the same device, identity
\* and project.
CustomerTurnsAreOwned ==
    \A s \in Sessions : \A t \in TurnsOf(s, "customer") :
        /\ session[s].kind = "customer"
        /\ session[s].project = turn[t].what.project
        /\ Owns(t, session[s])
===============================================================================
