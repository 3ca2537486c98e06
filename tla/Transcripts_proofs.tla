-------------------------- MODULE Transcripts_proofs --------------------------
(***************************************************************************)
(* Theorems about the chat history and those who read it, for any sessions *)
(* devices, turns, leads and readers: whose turns are stored where, that a *)
(* question is stored once, that a transcript is shown to whom it belongs, *)
(* and that a walk through the pages is complete.                          *)
(***************************************************************************)
EXTENDS Transcripts, SequenceTheorems, FiniteSetTheorems, TLAPS

Owners == {Nobody} \cup {w.who : w \in Asked}
Projects == {Nobody} \cup {w.project : w \in Asked}
Identities == Devices \cup Accounts \cup {Nobody}

SessionRows == [kind : Kinds \cup {"none"}, owner : Owners, identity : Identities,
                project : Projects, count : Nat, lead : Leads \cup {Nobody}]
Messages == [turn : Turns, role : {"user", "assistant"}]
TurnRows == [what : Asked \cup {Nobody}, repeat : BOOLEAN, after : SUBSET Turns,
             identity : Identities, step : Steps]

\* A session that is not there is empty, one of training has no identity, and
\* every other has one.
RowHolds(row) ==
    /\ row.kind = "none" => row = NoSession
    /\ row.kind # "none" => row.owner # Nobody
    /\ row.kind \in {"customer", "global"} => row.identity # Nobody
    /\ row.kind = "training" => row.identity = Nobody

RowsHold == \A s \in Sessions : /\ RowHolds(session[s])
                                /\ session[s].kind = "none" => messages[s] = <<>>

\* A training turn that is on its way has its session, which nothing takes away.
Sound(q) ==
    /\ IF q.step = "idle" THEN q.after = {} ELSE q.what \in Asked
    /\ q.step \in {"bind", "write"} => q.what.kind = "training"
    /\ q.step # "idle" /\ q.what.kind # "training" => q.identity # Nobody
    /\ q.step \in {"ready", "write"} /\ q.what.kind = "training" =>
          BoundTo(q.what, session[q.what.session])

TurnsHold == \A t \in Turns : Sound(turn[t])

\* A message is of a turn that was stored, in the session the turn asked for.
MessageHolds(m, s) ==
    /\ turn[m.turn].step = "stored" /\ turn[m.turn].what.session = s
    /\ turn[m.turn].what.kind = "training" => BoundTo(turn[m.turn].what, session[s])
    /\ turn[m.turn].what.kind = "global" => session[s].kind = "global" /\ Owns(m.turn, session[s])
    /\ turn[m.turn].what.kind = "training" /\ m.role = "user" => ~turn[m.turn].repeat

MessagesHold == \A s \in Sessions : \A m \in ToSet(messages[s]) : MessageHolds(m, s)

\* The turns that were stored when a turn read had their questions compared.
Compared(q) ==
    \A t \in q.after :
        /\ turn[t].step = "stored"
        /\ /\ Said(t, "user") \in ToSet(messages[q.what.session])
           /\ turn[t].what.question = q.what.question
           => q.repeat

RepeatsHold == \A x \in Turns : Compared(turn[x])

ChatTypes ==
    /\ session \in [Sessions -> SessionRows] /\ messages \in [Sessions -> Seq(Messages)]
    /\ turn \in [Turns -> TurnRows] /\ handing \in [Leads -> Sessions \cup {Nobody}]
    /\ missed \subseteq Leads /\ link \in [Devices -> Accounts \cup {Nobody}]

ChatInv ==
    ChatTypes /\ RowsHold /\ TurnsHold /\ MessagesHold /\ RepeatsHold /\ CountIsExact

-------------------------------------------------------------------------------
ReadSteps == {"idle", "read", "refused", "find", "empty", "shown", "hinted", "page", "walked"}
LeadRows == [claim : Handed \cup {Nobody}, broker : Brokers \cup {Nobody},
             tried : BOOLEAN, moved : BOOLEAN]
ReadRows == [what : Wanted \cup {Nobody}, step : ReadSteps, session : Sessions \cup {Nobody},
             row : SessionRows, swept : BOOLEAN, cursor : Nat, due : SUBSET Sessions,
             listed : SUBSET Sessions, rows : Nat]

ReadTypes ==
    /\ active \in [Sessions -> Nat] /\ lead \in [Leads -> LeadRows]
    /\ reader \in [Readers -> ReadRows]

\* What a lead claims was compared with the session before it was marked; only a
\* sweep between the two puts another one in its place.
ClaimsHold ==
    \A l \in Leads :
        /\ lead[l] # NoLead => lead[l].claim \in Handed
        /\ l \notin missed =>
              \A s \in Sessions : handing[l] = s \/ session[s].lead = l =>
                                      lead[l] # NoLead /\ MayHandOff(lead[l].claim, session[s])

\* The row is of the one who asks; a global session is compared once more.
Belongs(w, row) ==
    /\ w.kind \in {"customer", "staff"} =>
          IsCustomers(row) /\ row.owner = w.who /\ row.project = w.project
    /\ w.kind = "training" => IsTrainingOf(w, row)
    /\ w.kind = "lead" => /\ IsCustomers(row)
                          /\ w.session \notin missed =>
                                /\ row.owner = lead[w.session].claim.device
                                /\ row.project = lead[w.session].claim.project

ReadHolds(q) ==
    /\ q.step \in {"find", "read", "shown"} => q.what \in Wanted
    /\ q.step \in {"read", "shown"} =>
          q.what.kind \in {"customer", "staff", "global", "training", "lead"}
    /\ q.step = "find" => q.what.kind = "lead"
    /\ q.step \in {"find", "read", "shown"} /\ q.what.kind = "lead" => lead[q.what.session] # NoLead
    /\ q.step = "read" => q.session \in Sessions
    /\ q.step = "read" /\ ~q.swept => Belongs(q.what, session[q.session])
    /\ q.step = "shown" /\ ~q.swept /\ q.row # NoSession =>
          Belongs(q.what, q.row) /\ (q.what.kind = "global" => IsGlobalOf(q.what, q.row))

\* What was listed stays at or above the cursor, what is due is listed or below.
WalkHolds(q) ==
    /\ q.rows = Cardinality(q.listed)
    /\ q.step = "walked" => q.due \subseteq q.listed
    /\ q.step = "page" => /\ q.due \cup q.listed \subseteq Listed(q.what)
                          /\ \A s \in q.listed : q.cursor <= active[s]
                          /\ \A s \in q.due \ q.listed : active[s] < q.cursor

ReadInv ==
    /\ ChatInv /\ ReadTypes /\ ClaimsHold
    /\ \A r \in Readers : ReadHolds(reader[r]) /\ WalkHolds(reader[r])

(***************************************************************************)
(* Rows and messages.                                                      *)
(***************************************************************************)

\* What is added to a sequence is added to its set.
LEMMA SetOfConcat ==
  ASSUME NEW S, NEW p \in Seq(S), NEW q \in Seq(S)
  PROVE  p \o q \in Seq(S) /\ Len(p \o q) = Len(p) + Len(q) /\ ToSet(p \o q) = ToSet(p) \cup ToSet(q)
<1>1. Range(p \o q) = Range(p) \cup Range(q)
  BY RangeConcatenation
<1>2. \A x : Range(x) = ToSet(x)
  BY DEF Range, ToSet
<1>3. p \o q \in Seq(S) /\ Len(p \o q) = Len(p) + Len(q)
  BY ConcatProperties
<1>4. QED
  BY <1>1, <1>2, <1>3

\* The one or two messages of a turn.
LEMMA MessagesOfTurn ==
  ASSUME NEW t \in Turns, NEW said,
         \/ said = <<Said(t, "assistant")>>
         \/ said = <<Said(t, "user"), Said(t, "assistant")>>
  PROVE  said \in Seq(Messages) /\ Len(said) \in Nat /\ ToSet(said) \subseteq {Said(t, "user"), Said(t, "assistant")}
<1>1. Said(t, "user") \in Messages /\ Said(t, "assistant") \in Messages
  BY DEF Said, Messages
<1> HIDE DEF Said
<1>2. CASE said = <<Said(t, "assistant")>>
  BY <1>1, <1>2 DEF ToSet
<1>3. CASE said = <<Said(t, "user"), Said(t, "assistant")>>
  BY <1>1, <1>3 DEF ToSet
<1>4. QED
  BY <1>2, <1>3

LEMMA ChatInvImplies == ChatInv => GuardedTurnsAreOwned /\ QuestionIsStoredOnce
<1> SUFFICES ASSUME ChatInv PROVE GuardedTurnsAreOwned /\ QuestionIsStoredOnce
  OBVIOUS
<1>1. TypeOK
  <2>1. ASSUME NEW s \in Sessions
        PROVE  /\ session[s] \in SessionRows /\ RowHolds(session[s])
               /\ session[s].kind = "none" => messages[s] = <<>>
    BY DEF ChatInv, ChatTypes, RowsHold
  <2>2. ASSUME NEW s \in Sessions
        PROVE  session[s].kind = "training" <=> session[s].identity = Nobody
                                                /\ session[s].owner # Nobody
    BY <2>1 DEF RowHolds, NoSession, SessionRows, Kinds
  <2>3. QED
    BY <2>1, <2>2 DEF TypeOK, ChatInv, ChatTypes, SessionRows, RowHolds, Messages, TurnRows,
       Identities
<1>2. ASSUME NEW s \in Sessions, NEW kind, NEW t \in TurnsOf(s, kind)
      PROVE  /\ turn[t].what.kind = kind
             /\ \E m \in ToSet(messages[s]) : m.turn = t /\ MessageHolds(m, s)
  BY DEF TurnsOf, ChatInv, MessagesHold
<1>3. GuardedTurnsAreOwned
  BY <1>1, <1>2 DEF GuardedTurnsAreOwned, MessageHolds, BoundTo
<1>4. ASSUME NEW s \in Sessions, NEW t \in TurnsOf(s, "training"), NEW x \in TurnsOf(s, "training"),
             Twice(t, x, s)
      PROVE  t \notin turn[x].after
  <2>1. /\ Said(t, "user") \in ToSet(messages[s]) /\ Said(x, "user") \in ToSet(messages[s])
        /\ turn[t].what.question = turn[x].what.question
    BY <1>4 DEF Twice
  <2>2. MessageHolds(Said(x, "user"), s)
    BY <2>1 DEF ChatInv, MessagesHold
  <2>3. Said(x, "user").turn = x /\ Said(x, "user").role = "user"
    BY DEF Said
  <2>4. turn[x].what.session = s /\ ~turn[x].repeat
    BY <1>2, <2>2, <2>3 DEF MessageHolds
  <2>5. x \in Turns
    <3>1. Said(x, "user") \in Messages
      BY <2>1 DEF ChatInv, ChatTypes, ToSet
    <3>2. QED
      BY <3>1, <2>3 DEF Messages
  <2>6. Compared(turn[x])
    BY <2>5 DEF ChatInv, RepeatsHold
  <2>7. QED
    BY <2>1, <2>4, <2>6 DEF Compared
<1>5. QED
  <2>1. ASSUME NEW s \in Sessions, NEW t \in TurnsOf(s, "training"), NEW x \in TurnsOf(s, "training"),
               Twice(t, x, s)
        PROVE  Twice(x, t, s)
    BY <2>1 DEF Twice
  <2>2. CountIsExact
    BY DEF ChatInv
  <2>3. QED
    BY <1>3, <1>4, <2>1, <2>2 DEF QuestionIsStoredOnce

LEMMA ChatInvHoldsAtFirst == Init => ChatInv
<1> SUFFICES ASSUME Init PROVE ChatInv
  OBVIOUS
<1>1. NoSession \in SessionRows /\ NoTurn \in TurnRows /\ <<>> \in Seq(Messages)
  BY DEF NoSession, SessionRows, Owners, Projects, Identities, NoTurn, TurnRows, Steps
<1>2. ChatTypes
  BY <1>1 DEF Init, ChatTypes
<1>3. ToSet(<<>>) = {} /\ Len(<<>>) = 0
  BY DEF ToSet
<1>4. QED
  BY <1>2, <1>3 DEF Init, ChatInv, RowsHold, RowHolds, NoSession, TurnsHold, Sound, NoTurn,
     MessagesHold, RepeatsHold, Compared, CountIsExact, Kinds

-------------------------------------------------------------------------------
(***************************************************************************)
(* The steps of the chat history.                                          *)
(***************************************************************************)
StoredStays == \A x \in Turns : turn[x].step = "stored" => turn'[x] = turn[x]

TrainingStays ==
    \A s \in Sessions : session[s].kind = "training" =>
        /\ session'[s].kind = "training"
        /\ session'[s].owner = session[s].owner /\ session'[s].project = session[s].project

\* What a step has to show: of the turns it moves, of the messages it adds, and
\* of the global sessions it changes.
LEMMA ChatStepKeeps ==
  ASSUME ChatInv, ChatTypes', RowsHold', CountIsExact', StoredStays, TrainingStays,
         \A x \in Turns : turn'[x] = turn[x] \/ (Sound(turn[x])' /\ Compared(turn[x])'),
         \A s \in Sessions : \A m \in ToSet(messages'[s]) :
             m \in ToSet(messages[s]) \/ (MessageHolds(m, s)' /\ turn[m.turn].step # "stored"),
         \A s \in Sessions : \A m \in ToSet(messages'[s]) \cap ToSet(messages[s]) :
             turn[m.turn].what.kind = "global" =>
                 (session[s].kind = "global" /\ Owns(m.turn, session[s]))'
  PROVE  ChatInv'
<1>1. ASSUME NEW s \in Sessions, NEW m \in ToSet(messages[s])
      PROVE  m \in Messages /\ m.turn \in Turns /\ MessageHolds(m, s)
  <2>1. messages[s] \in Seq(Messages)
    BY DEF ChatInv, ChatTypes
  <2>2. m \in Messages
    BY <2>1 DEF ToSet
  <2>3. QED
    BY <2>2 DEF ChatInv, MessagesHold, Messages
<1>2. TurnsHold'
  <2> SUFFICES ASSUME NEW x \in Turns, turn'[x] = turn[x]
               PROVE  Sound(turn[x])'
    BY DEF TurnsHold
  <2>1. PICK q : q = turn[x]
    OBVIOUS
  <2>2. Sound(q)
    BY <2>1 DEF ChatInv, TurnsHold
  <2>3. q.step # "idle" => q.what.session \in Sessions
    BY <2>2, AskedAreTurns DEF Sound
  <2>4. Sound(q)'
    BY <2>2, <2>3 DEF Sound, TrainingStays, BoundTo
  <2>5. QED
    BY <2>1, <2>4
<1>3. MessagesHold'
  <2> SUFFICES ASSUME NEW s \in Sessions, NEW m \in ToSet(messages'[s]) \cap ToSet(messages[s])
               PROVE  MessageHolds(m, s)'
    BY DEF MessagesHold
  <2>1. MessageHolds(m, s) /\ turn'[m.turn] = turn[m.turn]
    BY <1>1 DEF MessageHolds, StoredStays
  <2>2. QED
    BY <2>1 DEF MessageHolds, TrainingStays, BoundTo
<1>4. RepeatsHold'
  <2> SUFFICES ASSUME NEW x \in Turns, turn'[x] = turn[x]
               PROVE  Compared(turn[x])'
    BY DEF RepeatsHold
  <2>1. PICK q \in TurnRows : q = turn[x] /\ q = turn'[x]
    BY DEF ChatInv, ChatTypes
  <2>2. Compared(q) /\ Sound(q)
    BY <2>1 DEF ChatInv, RepeatsHold, TurnsHold
  <2>3. ASSUME NEW t \in q.after
        PROVE  /\ turn'[t].step = "stored" /\ turn'[t] = turn[t]
               /\ Said(t, "user") \in ToSet(messages'[q.what.session])
                  /\ turn[t].what.question = q.what.question => q.repeat
    <3>1. t \in Turns /\ turn[t].step = "stored" /\ turn'[t] = turn[t]
      BY <2>1, <2>2, <2>3 DEF Compared, TurnRows, StoredStays
    <3>2. ASSUME q.step # "idle", Said(t, "user") \in ToSet(messages'[q.what.session])
          PROVE  Said(t, "user") \in ToSet(messages[q.what.session])
      <4>1. q.what.session \in Sessions
        BY <2>2, <3>2, AskedAreTurns DEF Sound
      <4>2. Said(t, "user").turn = t
        BY DEF Said
      <4>3. QED
        BY <3>1, <3>2, <4>1, <4>2
    <3>3. QED
      BY <2>2, <2>3, <3>1, <3>2 DEF Compared, Sound
  <2>4. Compared(q)'
    BY <2>3 DEF Compared
  <2>5. QED
    BY <2>1, <2>4
<1>5. QED
  BY <1>2, <1>3, <1>4 DEF ChatInv

\* A turn that nothing of was stored goes on and writes nothing.
LEMMA TurnMoves ==
  ASSUME ChatInv, NEW t \in Turns, turn[t].step # "stored", NEW q \in TurnRows,
         turn' = [turn EXCEPT ![t] = q], UNCHANGED <<session, messages, handing, missed, link>>,
         Sound(q), Compared(q)
  PROVE  ChatInv'
<1>1. ChatTypes' /\ RowsHold' /\ CountIsExact'
  BY DEF ChatInv, ChatTypes, RowsHold, CountIsExact
<1>2. StoredStays /\ TrainingStays
  BY DEF StoredStays, TrainingStays, ChatInv, ChatTypes
<1>3. Sound(q)'
  BY DEF Sound, BoundTo
<1>4. Compared(q)'
  <2>1. \A x \in q.after : x \in Turns /\ turn'[x] = turn[x]
    BY <1>2 DEF TurnRows, Compared, StoredStays
  <2>2. QED
    BY <2>1 DEF Compared
<1>5. \A x \in Turns : turn'[x] = turn[x] \/ turn'[x] = q
  BY DEF ChatInv, ChatTypes
<1>6. ASSUME NEW s \in Sessions, NEW m \in ToSet(messages[s]), turn[m.turn].what.kind = "global"
      PROVE  (session[s].kind = "global" /\ Owns(m.turn, session[s]))'
  <2>1. MessageHolds(m, s) /\ m.turn \in Turns
    <3>1. m \in Messages
      BY DEF ChatInv, ChatTypes, ToSet
    <3>2. QED
      BY <3>1 DEF ChatInv, MessagesHold, Messages
  <2>2. turn'[m.turn] = turn[m.turn]
    BY <1>2, <2>1 DEF StoredStays, MessageHolds
  <2>3. QED
    BY <1>6, <2>1, <2>2 DEF MessageHolds, Owns
<1>7. \A x \in Turns : turn'[x] = turn[x] \/ (Sound(turn[x])' /\ Compared(turn[x])')
  BY <1>3, <1>4, <1>5
<1>8. QED
  BY <1>1, <1>2, <1>6, <1>7, ChatStepKeeps

LEMMA MessagesAreStored ==
  ASSUME ChatInv, NEW s \in Sessions, NEW m \in ToSet(messages[s])
  PROVE  m \in Messages /\ m.turn \in Turns /\ MessageHolds(m, s)
<1>1. m \in Messages
  BY DEF ChatInv, ChatTypes, ToSet
<1>2. QED
  BY <1>1 DEF ChatInv, MessagesHold, Messages

LEMMA TurnIsKnown ==
  ASSUME ChatInv, NEW t \in Turns
  PROVE  /\ turn[t] \in TurnRows /\ Sound(turn[t]) /\ Compared(turn[t])
         /\ turn[t].step # "idle" =>
               /\ turn[t].what \in Asked /\ turn[t].what.session \in Sessions
               /\ turn[t].what.kind \in {"customer", "global", "training"}
               /\ Row(t) \in SessionRows /\ RowHolds(Row(t))
<1>1. turn[t] \in TurnRows /\ Sound(turn[t]) /\ Compared(turn[t])
  BY DEF ChatInv, ChatTypes, TurnsHold, RepeatsHold
<1>2. turn[t].step # "idle" => turn[t].what \in Asked
  BY <1>1 DEF Sound
<1>3. QED
  BY <1>1, <1>2, AskedAreTurns DEF Row, ChatInv, ChatTypes, RowsHold

LEMMA AskKeeps ==
  ASSUME ChatInv, NEW t \in Turns, NEW w \in Asked, Ask(t, w)
  PROVE  ChatInv'
<1>1. PICK i \in {w.who, link[w.who]} \ {Nobody} :
        turn' = [turn EXCEPT ![t] = [NoTurn EXCEPT !.what = w, !.identity = i, !.step = "ready"]]
  BY DEF Ask
<1>2. i \in Identities /\ i # Nobody
  BY AskedAreTurns DEF Ask, Identities, ChatInv, ChatTypes
<1>3. PICK q : q = [NoTurn EXCEPT !.what = w, !.identity = i, !.step = "ready"]
  OBVIOUS
<1>4. /\ q \in TurnRows /\ q.step = "ready" /\ q.what = w /\ q.identity = i /\ q.after = {}
      /\ w.kind # "training"
  BY <1>2, <1>3 DEF NoTurn, TurnRows, Steps, Ask
<1>5. Sound(q) /\ Compared(q)
  BY <1>2, <1>4 DEF Sound, Compared
<1>6. turn' = [turn EXCEPT ![t] = q] /\ turn[t].step # "stored"
  BY <1>1, <1>3 DEF Ask
<1>7. QED
  BY <1>4, <1>5, <1>6, TurnMoves DEF Ask

LEMMA PreflightKeeps ==
  ASSUME ChatInv, NEW t \in Turns, NEW w \in Asked, Preflight(t, w)
  PROVE  ChatInv'
<1>1. PICK step \in {"bind", "ready", "refused"} :
        /\ step = IF session[w.session].kind # "training" THEN "bind"
                  ELSE IF BoundTo(w, session[w.session]) THEN "ready" ELSE "refused"
        /\ turn' = [turn EXCEPT ![t] = [NoTurn EXCEPT !.what = w, !.step = step]]
  BY DEF Preflight
<1>2. PICK q : q = [NoTurn EXCEPT !.what = w, !.step = step]
  OBVIOUS
<1>3. /\ q \in TurnRows /\ q.step = step /\ q.what = w /\ q.after = {} /\ w.kind = "training"
  BY <1>2 DEF NoTurn, TurnRows, Steps, Identities, Preflight
<1>4. Sound(q) /\ Compared(q)
  BY <1>1, <1>3 DEF Sound, Compared
<1>5. turn' = [turn EXCEPT ![t] = q] /\ turn[t].step # "stored"
  BY <1>1, <1>2 DEF Preflight
<1>6. QED
  BY <1>3, <1>4, <1>5, TurnMoves DEF Preflight

\* A turn goes to a step and keeps the rest.
LEMMA GoesKeeps ==
  ASSUME ChatInv, NEW t \in Turns, turn[t].step \in {"bind", "ready", "write"},
         NEW step \in {"ready", "refused", "lost"}, Goes(t, step),
         UNCHANGED <<session, messages, handing, missed, link>>,
         step = "ready" => BoundTo(turn[t].what, Row(t))
  PROVE  ChatInv'
<1>1. PICK p \in TurnRows : p = turn[t] /\ Sound(p) /\ Compared(p) /\ p.what \in Asked
  BY TurnIsKnown
<1>2. PICK q : q = [p EXCEPT !.step = step]
  OBVIOUS
<1>3. /\ q \in TurnRows /\ q.step = step /\ q.what = p.what /\ q.after = p.after
      /\ q.identity = p.identity /\ q.repeat = p.repeat
  BY <1>2 DEF TurnRows, Steps
<1>4. Sound(q) /\ Compared(q)
  BY <1>1, <1>3 DEF Sound, Compared, Row
<1>5. turn' = [turn EXCEPT ![t] = q]
  BY <1>1, <1>2 DEF Goes
<1>6. QED
  BY <1>3, <1>4, <1>5, TurnMoves

\* What it found is what the messages say now.
LEMMA ReadStoredKeeps ==
  ASSUME ChatInv, NEW t \in Turns, ReadStored(t)
  PROVE  ChatInv'
<1>1. PICK p \in TurnRows :
        p = turn[t] /\ Sound(p) /\ p.what \in Asked /\ p.what.session \in Sessions
        /\ p.step = "ready" /\ p.what.kind = "training"
  BY TurnIsKnown DEF ReadStored, At
<1>2. CASE BoundTo(p.what, Row(t))
  <2> DEFINE s == p.what.session
  <2>1. ASSUME NEW x \in TurnsOf(s, "training")
        PROVE  x \in Turns /\ turn[x].step = "stored"
    BY <1>1, MessagesAreStored DEF TurnsOf, MessageHolds
  <2>2. PICK q : q = [p EXCEPT !.step = "write", !.repeat = IsRepeat(t),
                               !.after = TurnsOf(s, "training")]
    OBVIOUS
  <2>3. IsRepeat(t) \in BOOLEAN
    BY DEF IsRepeat
  <2>4. /\ q \in TurnRows /\ q.step = "write" /\ q.what = p.what
        /\ q.after = TurnsOf(s, "training") /\ (q.repeat <=> IsRepeat(t))
    <3> HIDE DEF s
    <3>1. q \in TurnRows
      BY <2>1, <2>2, <2>3 DEF TurnRows, Steps
    <3>2. QED
      BY <2>2, <2>3, <3>1 DEF TurnRows
  <2>5. Sound(q)
    BY <1>1, <1>2, <2>4 DEF Sound, Row
  <2>6. ASSUME NEW x, Said(x, "user") \in ToSet(messages[s]),
               turn[x].what.question = p.what.question
        PROVE  IsRepeat(t)
    <3>1. messages[s] \in Seq(Messages)
      BY <1>1 DEF ChatInv, ChatTypes
    <3>2. PICK i \in 1..Len(messages[s]) : messages[s][i] = Said(x, "user")
      BY <2>6, <3>1 DEF ToSet
    <3>3. Said(x, "user").role = "user" /\ Said(x, "user").turn = x
      BY DEF Said
    <3>4. QED
      BY <1>1, <2>6, <3>2, <3>3 DEF IsRepeat
  <2>7. Compared(q)
    BY <2>1, <2>4, <2>6 DEF Compared
  <2>8. turn' = [turn EXCEPT ![t] = q]
    BY <1>1, <1>2, <2>2 DEF ReadStored
  <2>9. QED
    BY <1>1, <2>4, <2>5, <2>7, <2>8, TurnMoves DEF ReadStored
<1>3. CASE ~BoundTo(p.what, Row(t))
  BY <1>1, <1>3, GoesKeeps DEF ReadStored, Goes
<1>4. QED
  BY <1>2, <1>3

\* A turn is stored, in a session of its own or in one it was let into.
LEMMA StoredKeeps ==
  ASSUME ChatInv, NEW t \in Turns, turn[t].step \in {"ready", "write"}, NEW said,
         \/ said = <<Said(t, "assistant")>>
         \/ said = <<Said(t, "user"), Said(t, "assistant")>> /\ ~turn[t].repeat
         \/ said = <<Said(t, "user"), Said(t, "assistant")>> /\ turn[t].what.kind # "training",
         Stored(t, said), UNCHANGED <<handing, missed, link>>,
         turn[t].what.kind = "global" => Row(t).kind = "none" \/ SameClaims(t)
  PROVE  ChatInv'
<1>1. PICK p \in TurnRows :
        /\ p = turn[t] /\ Sound(p) /\ Compared(p) /\ p.what \in Asked /\ p.what.session \in Sessions
        /\ p.what.kind \in {"customer", "global", "training"} /\ p.step \in {"ready", "write"}
  BY TurnIsKnown
<1>2. PICK s \in Sessions : s = p.what.session
  BY <1>1
<1>3. PICK q \in TurnRows :
        /\ turn' = [turn EXCEPT ![t] = q] /\ q.step = "stored" /\ q.what = p.what
        /\ q.identity = p.identity /\ q.after = p.after /\ q.repeat = p.repeat
  <2>1. PICK q : q = [p EXCEPT !.step = "stored"]
    OBVIOUS
  <2>2. q \in TurnRows /\ q.step = "stored" /\ q.what = p.what
        /\ q.identity = p.identity /\ q.after = p.after /\ q.repeat = p.repeat
    BY <2>1 DEF TurnRows, Steps
  <2>3. turn' = [turn EXCEPT ![t] = q]
    BY <1>1, <2>1 DEF Stored, Goes
  <2>4. QED
    BY <2>2, <2>3
<1>4. /\ said \in Seq(Messages) /\ Len(said) \in Nat
      /\ ToSet(said) \subseteq {Said(t, "user"), Said(t, "assistant")}
  BY MessagesOfTurn
<1>5. PICK base \in SessionRows :
        /\ RowHolds(base) /\ base.kind # "none" /\ base.count = session[s].count
        /\ IF session[s].kind = "none"
           THEN /\ base.kind = p.what.kind /\ base.owner = p.what.who
                /\ base.identity = p.identity /\ base.project = p.what.project
           ELSE base = session[s]
        /\ session' = [session EXCEPT ![s] = [base EXCEPT !.count = @ + Len(said)]]
  <2>1. PICK base : base = Opened(t)
    OBVIOUS
  <2>2. /\ session' = [session EXCEPT ![s] = [base EXCEPT !.count = @ + Len(said)]]
        /\ base = IF session[s].kind # "none" THEN session[s]
                  ELSE [NoSession EXCEPT !.kind = p.what.kind, !.owner = p.what.who,
                                         !.identity = p.identity, !.project = p.what.project]
    <3>1. session' = [session EXCEPT ![s] = [Opened(t) EXCEPT !.count = @ + Len(said)]]
      BY <1>1, <1>2 DEF Stored
    <3>2. Row(t) = session[s]
      BY <1>1, <1>2 DEF Row
    <3>3. QED
      BY <1>1, <2>1, <3>1, <3>2 DEF Opened
  <2>3. session[s] \in SessionRows /\ RowHolds(session[s])
    BY DEF ChatInv, ChatTypes, RowsHold
  <2>4. CASE session[s].kind = "none"
    <3>1. p.what.kind # "training"
      BY <1>1, <1>2, <2>4 DEF Sound, BoundTo
    <3>2. p.what.who # Nobody /\ p.identity # Nobody
      BY <1>1, <3>1, AskedAreTurns, KeysAreDisjoint DEF Sound
    <3>3. p.what.who \in Owners /\ p.what.project \in Projects /\ p.identity \in Identities
      BY <1>1 DEF Owners, Projects, TurnRows
    <3>4. base = [NoSession EXCEPT !.kind = p.what.kind, !.owner = p.what.who,
                                   !.identity = p.identity, !.project = p.what.project]
      BY <2>2, <2>4
    <3>5. /\ base \in SessionRows /\ base.kind = p.what.kind /\ base.owner = p.what.who
          /\ base.identity = p.identity /\ base.project = p.what.project /\ base.count = 0
      BY <1>1, <3>3, <3>4 DEF SessionRows, NoSession, Kinds
    <3>6. session[s].count = 0
      BY <2>3, <2>4 DEF RowHolds, NoSession
    <3>7. RowHolds(base)
      BY <1>1, <3>1, <3>2, <3>5 DEF RowHolds
    <3>8. QED
      BY <1>1, <2>2, <2>4, <3>5, <3>6, <3>7
  <2>5. CASE session[s].kind # "none"
    BY <2>2, <2>3, <2>5
  <2>6. QED
    BY <2>4, <2>5
<1>6. PICK row \in SessionRows :
        /\ session' = [session EXCEPT ![s] = row] /\ RowHolds(row) /\ row.kind = base.kind
        /\ row.owner = base.owner /\ row.identity = base.identity /\ row.project = base.project
        /\ row.count = session[s].count + Len(said)
  <2>1. PICK row : row = [base EXCEPT !.count = @ + Len(said)]
    OBVIOUS
  <2>2. session[s].count \in Nat
    BY DEF ChatInv, ChatTypes, SessionRows
  <2>3. /\ row \in SessionRows /\ row.kind = base.kind
        /\ row.owner = base.owner /\ row.identity = base.identity /\ row.project = base.project
        /\ row.count = session[s].count + Len(said)
    BY <1>4, <1>5, <2>1, <2>2 DEF SessionRows
  <2>4. RowHolds(row)
    BY <1>5, <2>3 DEF RowHolds
  <2>5. QED
    BY <1>5, <2>1, <2>3, <2>4
<1>7. /\ messages' = [messages EXCEPT ![s] = messages[s] \o said] /\ messages[s] \in Seq(Messages)
      /\ messages[s] \o said \in Seq(Messages)
      /\ Len(messages[s] \o said) = Len(messages[s]) + Len(said)
      /\ ToSet(messages[s] \o said) = ToSet(messages[s]) \cup ToSet(said)
  <2>1. messages[s] \in Seq(Messages)
    BY DEF ChatInv, ChatTypes
  <2>2. messages' = [messages EXCEPT ![s] = messages[s] \o said]
    BY <1>1, <1>2 DEF Stored
  <2>3. QED
    BY <1>4, <2>1, <2>2, SetOfConcat
<1>8. ChatTypes'
  BY <1>3, <1>6, <1>7 DEF ChatInv, ChatTypes
<1>9. RowsHold' /\ CountIsExact'
  <2>1. ASSUME NEW x \in Sessions
        PROVE  /\ RowHolds(session'[x])
               /\ session'[x].kind = "none" => messages'[x] = <<>>
               /\ session'[x].count = Len(messages'[x])
    <3>1. CASE x = s
      <4>1. session'[x] = row /\ messages'[x] = messages[s] \o said
        BY <3>1, <1>6, <1>7 DEF ChatInv, ChatTypes
      <4>2. session[s].count = Len(messages[s])
        BY DEF ChatInv, CountIsExact
      <4>3. QED
        BY <4>1, <4>2, <1>5, <1>6, <1>7
    <3>2. CASE x # s
      BY <3>2, <1>6, <1>7 DEF ChatInv, ChatTypes, RowsHold, CountIsExact
    <3>3. QED
      BY <3>1, <3>2
  <2>2. QED
    BY <2>1 DEF RowsHold, CountIsExact, RowHolds
<1>10. StoredStays
  BY <1>1, <1>3 DEF StoredStays, ChatInv, ChatTypes
<1>11. session'[s] = row /\ \A x \in Sessions \ {s} : session'[x] = session[x]
  BY <1>6 DEF ChatInv, ChatTypes
<1>12. turn'[t] = q /\ \A x \in Turns \ {t} : turn'[x] = turn[x]
  BY <1>3 DEF ChatInv, ChatTypes
<1>13. TrainingStays
  BY <1>5, <1>6, <1>11 DEF TrainingStays
<1>14. Sound(q)'
  BY <1>1, <1>3 DEF Sound
<1>15. Said(t, "user").turn = t /\ Said(t, "assistant").turn = t
       /\ Said(t, "assistant").role = "assistant"
  BY DEF Said
<1>16. Compared(q)'
  <2>1. ASSUME NEW u \in q.after
        PROVE  /\ turn'[u] = turn[u] /\ turn[u].step = "stored"
               /\ Said(u, "user") \in ToSet(messages'[s]) => Said(u, "user") \in ToSet(messages[s])
    <3>1. u \in Turns /\ turn[u].step = "stored" /\ u # t
      BY <1>1, <1>3 DEF Compared, TurnRows
    <3>2. Said(u, "user").turn = u
      BY DEF Said
    <3>3. messages'[s] = messages[s] \o said
      BY <1>7 DEF ChatInv, ChatTypes
    <3>4. QED
      BY <1>4, <1>7, <1>12, <1>15, <3>1, <3>2, <3>3
  <2>2. QED
    BY <1>1, <1>2, <1>3, <2>1 DEF Compared
<1>17. ASSUME NEW m \in ToSet(said)
       PROVE  MessageHolds(m, s)' /\ turn[m.turn].step # "stored"
  <2>1. m \in {Said(t, "user"), Said(t, "assistant")} /\ m.turn = t
    BY <1>4, <1>15
  <2>2. q.what.kind = "training" => BoundTo(q.what, row)
    <3>1. q.what.kind = "training" => BoundTo(p.what, session[s])
      BY <1>1, <1>2, <1>3 DEF Sound
    <3>2. QED
      BY <1>3, <1>5, <1>6, <3>1 DEF BoundTo
  <2>3. q.what.kind = "global" => row.kind = "global" /\ row.owner = q.what.who
                                  /\ row.identity = q.identity
    <3> SUFFICES ASSUME q.what.kind = "global"
                 PROVE  row.kind = "global" /\ row.owner = q.what.who
                        /\ row.identity = q.identity
      OBVIOUS
    <3>1. p.what.kind = "global" /\ turn[t] = p /\ p.what = q.what /\ p.identity = q.identity
      BY <1>1, <1>3
    <3>2. CASE session[s].kind = "none"
      BY <1>5, <1>6, <3>1, <3>2
    <3>3. CASE session[s].kind # "none"
      <4>1. Row(t) = session[s] /\ base = session[s]
        BY <1>1, <1>2, <1>5, <3>3 DEF Row
      <4>2. SameClaims(t)
        BY <3>1, <3>3, <4>1
      <4>3. QED
        BY <1>6, <3>1, <4>1, <4>2 DEF SameClaims
    <3>4. QED
      BY <3>2, <3>3
  <2>4. q.what.kind = "training" /\ m.role = "user" => ~q.repeat
    <3>1. CASE said = <<Said(t, "assistant")>>
      <4>1. m = Said(t, "assistant")
        BY <3>1 DEF ToSet
      <4>2. QED
        BY <4>1, <1>15
    <3>2. QED
      BY <1>1, <1>3, <3>1
  <2>5. MessageHolds(m, s)'
    BY <1>2, <1>3, <1>11, <1>12, <2>1, <2>2, <2>3, <2>4 DEF MessageHolds, Owns
  <2>6. QED
    BY <1>1, <2>1, <2>5
<1>18. ASSUME NEW x \in Sessions, NEW m \in ToSet(messages'[x])
       PROVE  m \in ToSet(messages[x]) \/ (MessageHolds(m, x)' /\ turn[m.turn].step # "stored")
  <2>1. CASE x = s
    <3>1. messages'[x] = messages[s] \o said
      BY <2>1, <1>7 DEF ChatInv, ChatTypes
    <3>2. QED
      BY <2>1, <3>1, <1>7, <1>17
  <2>2. CASE x # s
    BY <2>2, <1>7 DEF ChatInv, ChatTypes
  <2>3. QED
    BY <2>1, <2>2
<1>19. ASSUME NEW x \in Sessions, NEW m \in ToSet(messages[x]), turn[m.turn].what.kind = "global"
       PROVE  (session[x].kind = "global" /\ Owns(m.turn, session[x]))'
  <2>1. MessageHolds(m, x) /\ m.turn \in Turns
    BY MessagesAreStored
  <2>2. turn'[m.turn] = turn[m.turn]
    BY <1>10, <2>1 DEF StoredStays, MessageHolds
  <2>3. /\ session'[x].kind = session[x].kind /\ session'[x].owner = session[x].owner
        /\ session'[x].identity = session[x].identity
    <3>1. CASE x = s
      BY <1>5, <1>6, <1>11, <1>19, <2>1, <3>1 DEF MessageHolds
    <3>2. QED
      BY <1>11, <3>1
  <2>4. QED
    BY <1>19, <2>1, <2>2, <2>3 DEF MessageHolds, Owns
<1>20. \A x \in Turns : turn'[x] = turn[x] \/ (Sound(turn[x])' /\ Compared(turn[x])')
  BY <1>12, <1>14, <1>16
<1>21. QED
  BY <1>8, <1>9, <1>10, <1>13, <1>18, <1>19, <1>20, ChatStepKeeps

LEMMA StoreKeeps ==
  ASSUME ChatInv, NEW t \in Turns, Store(t)
  PROVE  ChatInv'
<1>1. CASE AppendTurn(t)
  <2>1. turn[t].what.kind = "customer" /\ turn[t].step = "ready"
    BY <1>1 DEF AppendTurn, At
  <2>2. QED
    BY <1>1, <2>1, StoredKeeps DEF AppendTurn
<1>2. CASE AppendGlobalTurn(t)
  <2>1. turn[t].what.kind = "global" /\ turn[t].step = "ready"
    BY <1>2 DEF AppendGlobalTurn, At
  <2>2. CASE Row(t).kind = "none" \/ SameClaims(t)
    BY <1>2, <2>1, <2>2, StoredKeeps DEF AppendGlobalTurn
  <2>3. CASE ~(Row(t).kind = "none" \/ SameClaims(t))
    BY <1>2, <2>1, <2>3, GoesKeeps DEF AppendGlobalTurn
  <2>4. QED
    BY <2>2, <2>3
<1>3. CASE AppendTrainingTurn(t)
  <2>1. turn[t].what.kind = "training" /\ turn[t].step = "write"
    BY <1>3 DEF AppendTrainingTurn, At
  <2>2. CASE turn[t].repeat
    BY <1>3, <2>1, <2>2, StoredKeeps DEF AppendTrainingTurn
  <2>3. CASE ~turn[t].repeat
    BY <1>3, <2>1, <2>3, StoredKeeps DEF AppendTrainingTurn
  <2>4. QED
    BY <2>2, <2>3
<1>4. CASE Bind(t) /\ Row(t).kind # "none"
  <2>1. turn[t].step = "bind"
    BY <1>4 DEF Bind
  <2>2. CASE BoundTo(turn[t].what, Row(t))
    BY <1>4, <2>1, <2>2, GoesKeeps DEF Bind
  <2>3. CASE ~BoundTo(turn[t].what, Row(t))
    BY <1>4, <2>1, <2>3, GoesKeeps DEF Bind
  <2>4. QED
    BY <2>2, <2>3
<1>5. CASE Bind(t) /\ Row(t).kind = "none"
  <2>1. PICK p \in TurnRows :
          /\ p = turn[t] /\ Sound(p) /\ Compared(p) /\ p.step = "bind"
          /\ p.what \in Asked /\ p.what.session \in Sessions /\ p.what.kind = "training"
    BY <1>5, TurnIsKnown DEF Bind, Sound
  <2>2. PICK s \in Sessions : s = p.what.session /\ session[s].kind = "none"
    BY <1>5, <2>1 DEF Row
  <2>3. PICK q \in TurnRows :
          /\ turn' = [turn EXCEPT ![t] = q] /\ q.step = "ready" /\ q.what = p.what
          /\ q.after = p.after /\ q.repeat = p.repeat
    <3>1. PICK q : q = [p EXCEPT !.step = "ready"]
      OBVIOUS
    <3>2. q \in TurnRows /\ q.step = "ready" /\ q.what = p.what /\ q.after = p.after
          /\ q.repeat = p.repeat
      BY <3>1 DEF TurnRows, Steps
    <3>3. turn' = [turn EXCEPT ![t] = q]
      BY <1>5, <2>1, <3>1 DEF Bind, Goes
    <3>4. QED
      BY <3>2, <3>3
  <2>4. PICK row \in SessionRows :
          /\ session' = [session EXCEPT ![s] = row] /\ BoundTo(p.what, row) /\ row.count = 0
          /\ RowHolds(row) /\ row.kind = "training"
    <3>1. PICK row : row = [NoSession EXCEPT !.kind = "training", !.owner = p.what.who,
                                             !.project = p.what.project]
      OBVIOUS
    <3>2. p.what.who \in Owners /\ p.what.project \in Projects /\ p.what.who # Nobody
      BY <2>1, AskedAreTurns DEF Owners, Projects
    <3>3. /\ row \in SessionRows /\ row.kind = "training" /\ row.owner = p.what.who
          /\ row.project = p.what.project /\ row.identity = Nobody /\ row.count = 0
      BY <3>1, <3>2 DEF SessionRows, NoSession, Kinds, Identities
    <3>4. session' = [session EXCEPT ![s] = row]
      BY <1>5, <2>1, <2>2, <3>1 DEF Bind
    <3>5. QED
      BY <3>2, <3>3, <3>4 DEF BoundTo, RowHolds
  <2>5. /\ UNCHANGED <<messages, handing, missed, link>>
        /\ session'[s] = row /\ \A x \in Sessions \ {s} : session'[x] = session[x]
        /\ turn'[t] = q /\ \A x \in Turns \ {t} : turn'[x] = turn[x]
    BY <1>5, <2>3, <2>4 DEF Bind, ChatInv, ChatTypes
  <2>6. ChatTypes'
    BY <2>3, <2>4, <2>5 DEF ChatInv, ChatTypes
  <2>7. messages[s] = <<>> /\ ToSet(messages[s]) = {}
    BY <2>2 DEF ChatInv, RowsHold, ToSet
  <2>8. RowsHold' /\ CountIsExact'
    BY <2>4, <2>5, <2>7 DEF ChatInv, RowsHold, RowHolds, CountIsExact
  <2>9. StoredStays /\ TrainingStays
    BY <2>1, <2>2, <2>5 DEF StoredStays, TrainingStays
  <2>10. Sound(q)'
    BY <2>1, <2>2, <2>3, <2>4, <2>5 DEF Sound
  <2>11. Compared(q)'
    <3>1. \A x \in q.after : turn'[x] = turn[x]
      BY <2>1, <2>3, <2>9 DEF Compared, TurnRows, StoredStays
    <3>2. QED
      BY <2>1, <2>3, <2>5, <3>1 DEF Compared
  <2>12. ASSUME NEW x \in Sessions, NEW m \in ToSet(messages[x]), turn[m.turn].what.kind = "global"
         PROVE  (session[x].kind = "global" /\ Owns(m.turn, session[x]))'
    <3>1. x # s /\ MessageHolds(m, x) /\ m.turn \in Turns
      BY <2>7, MessagesAreStored
    <3>2. turn'[m.turn] = turn[m.turn]
      BY <2>9, <3>1 DEF StoredStays, MessageHolds
    <3>3. QED
      BY <2>5, <2>12, <3>1, <3>2 DEF MessageHolds, Owns
  <2>13. \A x \in Turns : turn'[x] = turn[x] \/ (Sound(turn[x])' /\ Compared(turn[x])')
    BY <2>5, <2>10, <2>11
  <2>14. QED
    BY <2>5, <2>6, <2>8, <2>9, <2>12, <2>13, ChatStepKeeps
<1>6. CASE Lose(t)
  BY <1>6, GoesKeeps DEF Lose
<1>7. QED
  BY <1>1, <1>2, <1>3, <1>4, <1>5, <1>6, ReadStoredKeeps DEF Store

\* Rows keep whose they are, and the turns stay.
LEMMA RowsMove ==
  ASSUME ChatInv, ChatTypes', UNCHANGED turn,
         \A s \in Sessions :
             \/ session'[s] = NoSession /\ messages'[s] = <<>> /\ session[s].kind # "training"
             \/ /\ messages'[s] = messages[s] /\ session'[s].kind = session[s].kind
                /\ session'[s].owner = session[s].owner /\ session'[s].project = session[s].project
                /\ session'[s].count = session[s].count
                /\ session[s].kind = "none" => session'[s] = session[s]
                /\ session'[s].identity = Nobody <=> session[s].identity = Nobody
                /\ \A t \in Turns : session[s].kind = "global" /\ Owns(t, session[s])
                                        => Owns(t, session[s])'
  PROVE  ChatInv'
<1>1. ToSet(<<>>) = {} /\ Len(<<>>) = 0
  BY DEF ToSet
<1>2. RowHolds(NoSession) /\ NoSession.count = 0
  BY DEF RowHolds, NoSession, Kinds
<1>3. ASSUME NEW s \in Sessions
      PROVE  /\ RowHolds(session'[s])
             /\ session'[s].kind = "none" => messages'[s] = <<>>
             /\ session'[s].count = Len(messages'[s])
  BY <1>1, <1>2 DEF ChatInv, RowsHold, CountIsExact, RowHolds
<1>4. RowsHold' /\ CountIsExact'
  BY <1>3 DEF RowsHold, CountIsExact, RowHolds
<1>5. StoredStays /\ TrainingStays
  BY DEF StoredStays, TrainingStays
<1>6. ASSUME NEW s \in Sessions, NEW m \in ToSet(messages'[s])
      PROVE  m \in ToSet(messages[s])
  BY <1>1
<1>7. ASSUME NEW s \in Sessions, NEW m \in ToSet(messages'[s]) \cap ToSet(messages[s]),
             turn[m.turn].what.kind = "global"
      PROVE  (session[s].kind = "global" /\ Owns(m.turn, session[s]))'
  <2>1. MessageHolds(m, s) /\ m.turn \in Turns
    BY MessagesAreStored
  <2>2. QED
    BY <1>1, <1>7, <2>1 DEF MessageHolds
<1>8. QED
  BY <1>4, <1>5, <1>6, <1>7, ChatStepKeeps

LEMMA MarkKeeps ==
  ASSUME ChatInv, NEW l \in Leads, MarkHandedOff(l)
  PROVE  ChatInv'
<1>1. PICK s \in Sessions : s = handing[l]
  BY DEF MarkHandedOff, ChatInv, ChatTypes
<1>2. UNCHANGED <<messages, turn, missed, link>> /\ handing' = [handing EXCEPT ![l] = Nobody]
  BY DEF MarkHandedOff
<1>3. CASE session[s].kind \in {"customer", "global"}
  <2>1. PICK row : row = [session[s] EXCEPT !.lead = l]
    OBVIOUS
  <2>2. session[s] \in SessionRows
    BY DEF ChatInv, ChatTypes
  <2>3. /\ row \in SessionRows /\ row.kind = session[s].kind /\ row.owner = session[s].owner
        /\ row.project = session[s].project /\ row.identity = session[s].identity
        /\ row.count = session[s].count
    BY <2>1, <2>2 DEF SessionRows
  <2>4. session' = [session EXCEPT ![s] = row]
    BY <1>1, <1>3, <2>1 DEF MarkHandedOff
  <2>5. ChatTypes'
    BY <1>2, <2>3, <2>4 DEF ChatInv, ChatTypes
  <2>6. session'[s] = row /\ \A x \in Sessions \ {s} : session'[x] = session[x]
    BY <2>4 DEF ChatInv, ChatTypes
  <2>7. QED
    BY <1>2, <1>3, <2>3, <2>5, <2>6, RowsMove DEF Owns
<1>4. CASE session[s].kind \notin {"customer", "global"}
  <2>1. session' = session
    BY <1>1, <1>4 DEF MarkHandedOff
  <2>2. ChatTypes'
    BY <1>2, <2>1 DEF ChatInv, ChatTypes
  <2>3. QED
    BY <1>2, <2>1, <2>2, RowsMove DEF Owns
<1>5. QED
  BY <1>3, <1>4

\* A link moves the sessions of the device, and the turns stored in them own them
\* still.
LEMMA LinkKeeps ==
  ASSUME ChatInv, NEW d \in Devices, NEW u \in Accounts, Link(d, u)
  PROVE  ChatInv'
<1>1. /\ UNCHANGED <<messages, turn, handing, missed>> /\ link[d] = Nobody
      /\ link' = [link EXCEPT ![d] = u] /\ link \in [Devices -> Accounts \cup {Nobody}]
  BY DEF Link, ChatInv, ChatTypes
<1>2. ASSUME NEW s \in Sessions
      PROVE  /\ session'[s] \in SessionRows
             /\ session'[s].kind = session[s].kind
             /\ session'[s].owner = session[s].owner /\ session'[s].project = session[s].project
             /\ session'[s].count = session[s].count
             /\ session[s].identity = d => session'[s].identity = u
             /\ session[s].identity # d => session'[s] = session[s]
  <2>1. session[s] \in SessionRows
    BY DEF ChatInv, ChatTypes
  <2>2. session'[s] = IF session[s].identity = d THEN [session[s] EXCEPT !.identity = u]
                      ELSE session[s]
    BY DEF Link
  <2>3. QED
    BY <2>1, <2>2 DEF SessionRows, Identities
<1>3. ChatTypes'
  <2>1. session' \in [Sessions -> SessionRows]
    BY <1>2 DEF Link
  <2>2. QED
    BY <1>1, <2>1 DEF ChatInv, ChatTypes
<1>4. ASSUME NEW s \in Sessions
      PROVE  /\ session[s].kind = "none" => session'[s] = session[s]
             /\ session'[s].identity = Nobody <=> session[s].identity = Nobody
  <2>1. session[s].kind = "none" => session[s].identity = Nobody
    BY DEF ChatInv, RowsHold, RowHolds, NoSession
  <2>2. QED
    BY <1>2, <2>1, KeysAreDisjoint
<1>5. ASSUME NEW s \in Sessions, session[s].kind = "global",
             NEW t \in Turns, Owns(t, session[s])
      PROVE  Owns(t, session[s])'
  <2>1. session[s].identity # Nobody
    BY <1>5 DEF ChatInv, RowsHold, RowHolds
  <2>2. CASE session[s].identity = d
    <3>1. \A x \in Devices : link[x] # d
      BY <1>1, KeysAreDisjoint
    <3>2. turn[t].identity = d
      BY <1>5, <2>2, <3>1 DEF Owns
    <3>3. link'[d] = u
      BY <1>1
    <3>4. QED
      BY <1>1, <1>2, <1>5, <2>2, <3>2, <3>3 DEF Owns
  <2>3. CASE session[s].identity # d
    BY <1>1, <1>2, <1>5, <2>1, <2>3 DEF Owns
  <2>4. QED
    BY <2>2, <2>3
<1>6. QED
  BY <1>1, <1>2, <1>3, <1>4, <1>5, RowsMove

LEMMA CleanUpKeeps ==
  ASSUME ChatInv, NEW s \in Sessions, CleanUp(s)
  PROVE  ChatInv'
<1>1. /\ session' = [session EXCEPT ![s] = NoSession] /\ messages' = [messages EXCEPT ![s] = <<>>]
      /\ missed' = missed \cup {l \in Leads : handing[l] = s} /\ UNCHANGED <<turn, handing, link>>
      /\ session[s].kind # "training"
  BY DEF CleanUp, IsSwept
<1>2. NoSession \in SessionRows /\ <<>> \in Seq(Messages)
  BY DEF NoSession, SessionRows, Owners, Projects, Identities
<1>3. ChatTypes'
  BY <1>1, <1>2 DEF ChatInv, ChatTypes
<1>4. /\ session'[s] = NoSession /\ messages'[s] = <<>>
      /\ \A x \in Sessions \ {s} : session'[x] = session[x] /\ messages'[x] = messages[x]
  BY <1>1 DEF ChatInv, ChatTypes
<1>5. QED
  BY <1>1, <1>3, <1>4, RowsMove DEF Owns

\* A lead is found to own a session, or its mark is given up.
LEMMA HandingKeeps ==
  ASSUME ChatInv, UNCHANGED <<session, messages, turn, missed, link>>,
         handing' \in [Leads -> Sessions \cup {Nobody}]
  PROVE  ChatInv'
<1>1. ChatTypes'
  BY DEF ChatInv, ChatTypes
<1>2. QED
  BY <1>1, RowsMove DEF Owns

LEMMA StepKeepsChatInv == ChatInv /\ [Next]_vars => ChatInv'
<1> SUFFICES ASSUME ChatInv, [Next]_vars PROVE ChatInv'
  OBVIOUS
<1>1. ASSUME NEW l \in Leads, NEW h \in Handed, CheckHandoff(l, h)
      PROVE  ChatInv'
  <2>1. handing' \in [Leads -> Sessions \cup {Nobody}]
    BY <1>1, HandedAreSessions DEF CheckHandoff, ChatInv, ChatTypes
  <2>2. QED
    BY <1>1, <2>1, HandingKeeps DEF CheckHandoff
<1>2. CASE UNCHANGED vars
  BY <1>2, HandingKeeps DEF vars, ChatInv, ChatTypes
<1>3. QED
  BY <1>1, <1>2, StoreKeeps, AskKeeps, PreflightKeeps, MarkKeeps, LinkKeeps, CleanUpKeeps DEF Next

LEMMA ChatInvHolds == Spec => []ChatInv
BY ChatInvHoldsAtFirst, StepKeepsChatInv, PTL DEF Spec

-------------------------------------------------------------------------------
(***************************************************************************)
(* Times and pages.                                                        *)
(***************************************************************************)

LEMMA LeastNumber ==
  ASSUME NEW T, T \subseteq Nat, T # {}
  PROVE  Min(T) \in T /\ \A y \in T : Min(T) <= y
<1>1. PICK x \in T : \A y \in T : <<y, x>> \notin OpToRel(<, Nat)
  <2>1. IsWellFoundedOn(OpToRel(<, Nat), Nat)
    BY NatLessThanWellFounded
  <2>2. QED
    BY <2>1, WFMin
<1>2. \A y \in T : ~(y < x)
  BY <1>1 DEF OpToRel
<1>3. \A y \in T : x <= y
  BY <1>2
<1>4. QED
  BY <1>3 DEF Min

\* Of finitely many things that are numbered, one has the greatest number: fewest
\* are above it, and each of them would have fewer above itself.
LEMMA OneIsGreatest ==
  ASSUME NEW S, IsFiniteSet(S), S # {}, NEW f, \A x \in S : f[x] \in Nat
  PROVE  \E x \in S : \A y \in S : f[y] <= f[x]
<1> DEFINE Above(x) == {y \in S : f[y] > f[x]}
           T == {Cardinality(Above(x)) : x \in S}
<1>1. \A x \in S : IsFiniteSet(Above(x)) /\ Cardinality(Above(x)) \in Nat
  BY FS_Subset, FS_CardinalityType
<1>2. T \subseteq Nat /\ T # {}
  BY <1>1
<1>3. PICK x \in S : \A y \in S : Cardinality(Above(x)) <= Cardinality(Above(y))
  <2> HIDE DEF Above
  <2>1. Min(T) \in T /\ \A k \in T : Min(T) <= k
    BY <1>2, LeastNumber
  <2>2. QED
    BY <2>1
<1>4. ASSUME NEW y \in S, f[y] > f[x]
      PROVE  FALSE
  <2>1. Above(y) \subseteq Above(x) /\ y \in Above(x) /\ y \notin Above(y)
    BY <1>4
  <2>2. IsFiniteSet(Above(x)) /\ Above(y) # Above(x)
    BY <1>1, <2>1
  <2> HIDE DEF Above
  <2>3. Cardinality(Above(y)) < Cardinality(Above(x))
    BY <2>1, <2>2, <1>1, FS_Subset
  <2>4. QED
    BY <1>1, <1>3, <2>3
<1>5. QED
  BY <1>4

LEMMA NowIsLater ==
  ASSUME active \in [Sessions -> Nat]
  PROVE  Now \in Nat /\ \A s \in Sessions : active[s] < Now
<1> DEFINE T == {active[s] : s \in Sessions}
<1>1. PICK m \in Sessions : \A s \in Sessions : active[s] <= active[m]
  BY PagesAreFinite, OneIsGreatest
<1>2. Max(T) \in T /\ \A y \in T : y <= Max(T)
  <2>1. active[m] \in T /\ \A y \in T : active[m] >= y
    BY <1>1
  <2> HIDE DEF T
  <2>2. Max(T) \in T /\ \A y \in T : Max(T) >= y
    BY <2>1 DEF Max
  <2>3. T \subseteq Nat
    BY DEF T
  <2>4. QED
    BY <2>2, <2>3
<1>3. Max(T) \in Nat
  BY <1>2
<1>4. Now = 1 + Max(T)
  BY DEF Now
<1>5. \A s \in Sessions : active[s] \in T /\ active[s] \in Nat
  OBVIOUS
<1> HIDE DEF T
<1>6. QED
  BY <1>2, <1>3, <1>4, <1>5

\* The newest rows are above the others, they are all when they fit on a page, and
\* a page of some rows is not empty.
LEMMA NewestAreAbove ==
  ASSUME active \in [Sessions -> Nat], NEW rows, rows \subseteq Sessions
  PROVE  /\ Newest(rows, Limit) \subseteq rows
         /\ rows # {} => Newest(rows, Limit) # {}
         /\ \A s \in rows \ Newest(rows, Limit) : \A p \in Newest(rows, Limit) : active[s] < active[p]
         /\ Cardinality(rows) <= Limit => Newest(rows, Limit) = rows
<1> DEFINE Above(s) == {x \in rows : active[x] > active[s]}
<1>0. IsFiniteSet(rows) /\ Cardinality(rows) \in Nat
  BY PagesAreFinite, FS_Subset, FS_CardinalityType
<1>1. \A s \in rows : IsFiniteSet(Above(s)) /\ Cardinality(Above(s)) \in Nat
  BY <1>0, FS_Subset, FS_CardinalityType
<1>2. Newest(rows, Limit) = {s \in rows : Cardinality(Above(s)) < Limit}
  BY DEF Newest
<1>3. Newest(rows, Limit) \subseteq rows
  BY <1>2
<1>4. ASSUME rows # {}
      PROVE  Newest(rows, Limit) # {}
  <2>1. PICK s \in rows : \A x \in rows : active[x] <= active[s]
    BY <1>0, <1>4, OneIsGreatest
  <2>2. Above(s) = {}
    BY <2>1
  <2>3. Cardinality(Above(s)) = 0
    BY <2>2, FS_EmptySet
  <2>4. QED
    BY <1>2, <2>3, PagesAreFinite
<1>5. ASSUME NEW s \in rows, s \notin Newest(rows, Limit), NEW p \in Newest(rows, Limit)
      PROVE  active[s] < active[p]
  <2>1. SUFFICES ASSUME active[p] <= active[s]
                 PROVE  FALSE
    BY <1>3
  <2>2. Above(s) \subseteq Above(p)
    BY <1>3, <2>1
  <2>3. p \in rows /\ Cardinality(Above(p)) < Limit /\ ~(Cardinality(Above(s)) < Limit)
    BY <1>2, <1>5
  <2> HIDE DEF Above
  <2>4. Cardinality(Above(s)) <= Cardinality(Above(p))
    BY <1>1, <2>2, <2>3, FS_Subset
  <2>5. QED
    BY <1>1, <2>3, <2>4, PagesAreFinite
<1>6. ASSUME Cardinality(rows) <= Limit, NEW s \in rows
      PROVE  s \in Newest(rows, Limit)
  <2>1. Above(s) \subseteq rows /\ s \notin Above(s)
    OBVIOUS
  <2>2. Above(s) # rows
    BY <2>1
  <2> HIDE DEF Above
  <2>3. Cardinality(Above(s)) < Cardinality(rows)
    <3>1. Above(s) \in SUBSET rows
      BY <2>1
    <3>2. /\ Cardinality(Above(s)) <= Cardinality(rows)
          /\ Cardinality(rows) = Cardinality(Above(s)) => rows = Above(s)
      BY <1>0, <3>1, FS_Subset
    <3>3. QED
      BY <1>0, <1>1, <2>2, <3>2
  <2>4. Cardinality(Above(s)) < Limit
    BY <1>0, <1>1, <1>6, <2>3, PagesAreFinite
  <2>5. QED
    BY <1>2, <2>4
<1>7. QED
  BY <1>3, <1>4, <1>5, <1>6

-------------------------------------------------------------------------------
(***************************************************************************)
(* What readers hold while others write.                                   *)
(***************************************************************************)
OwnersStay ==
    \A s \in Sessions : session[s].kind # "none" /\ session'[s].kind # "none" =>
        /\ session'[s].kind = session[s].kind
        /\ session'[s].owner = session[s].owner /\ session'[s].project = session[s].project

\* A claim that was found is of the session it names, until a sweep takes that.
ClaimsStay ==
    \A l \in Leads \ missed' : \A s \in Sessions :
        handing'[l] = s \/ session'[s].lead = l =>
            (handing[l] = s \/ session[s].lead = l) /\ session'[s].kind # "none"

LEMMA WritersKeepReaders ==
  ASSUME ReadInv, ChatInv', Stamped, UNCHANGED lead, missed \subseteq missed',
         TrainingStays, OwnersStay, ClaimsStay
  PROVE  ReadInv'
<1>1. /\ active \in [Sessions -> Nat] /\ reader \in [Readers -> ReadRows]
      /\ lead \in [Leads -> LeadRows] /\ Now \in Nat /\ \A s \in Sessions : active[s] < Now
  BY NowIsLater DEF ReadInv, ReadTypes
<1>2. ASSUME NEW s \in Sessions
      PROVE  /\ active'[s] \in Nat
             /\ session'[s].kind # "none" => active[s] <= active'[s]
             /\ session'[s].kind # "none" /\ s \notin Touched => active'[s] = active[s]
  <2>1. active'[s] = IF session'[s].kind = "none" THEN 0 ELSE IF s \in Touched THEN Now ELSE active[s]
    BY DEF Stamped
  <2>2. QED
    BY <1>1, <2>1
<1>3. ASSUME NEW r \in Readers
      PROVE  /\ reader'[r] \in ReadRows
             /\ reader'[r].what = reader[r].what /\ reader'[r].step = reader[r].step
             /\ reader'[r].session = reader[r].session /\ reader'[r].row = reader[r].row
             /\ reader'[r].cursor = reader[r].cursor /\ reader'[r].listed = reader[r].listed
             /\ reader'[r].rows = reader[r].rows
             /\ reader'[r].due = reader[r].due \ Touched
             /\ reader'[r].swept <=> reader[r].swept
                     \/ (reader[r].step = "read" /\ Gone(reader[r].session))
  <2>1. PICK p \in ReadRows : p = reader[r]
    BY <1>1
  <2>2. PICK b \in BOOLEAN : b <=> p.swept \/ (p.step = "read" /\ Gone(p.session))
    OBVIOUS
  <2>3. reader'[r] = [p EXCEPT !.due = @ \ Touched, !.swept = b]
    <3>1. reader'[r] = [p EXCEPT !.due = @ \ Touched,
                                 !.swept = @ \/ (p.step = "read" /\ Gone(p.session))]
      BY <2>1 DEF Stamped
    <3>2. (p.swept \/ (p.step = "read" /\ Gone(p.session))) = b
      BY <2>2 DEF ReadRows
    <3>3. QED
      BY <3>1, <3>2
  <2>4. PICK q : q = [p EXCEPT !.due = @ \ Touched, !.swept = b]
    OBVIOUS
  <2>5. q \in ReadRows
    BY <2>4 DEF ReadRows
  <2>6. /\ q.what = p.what /\ q.step = p.step /\ q.session = p.session /\ q.row = p.row
        /\ q.cursor = p.cursor /\ q.listed = p.listed /\ q.rows = p.rows
        /\ q.due = p.due \ Touched /\ q.swept = b
    BY <2>4 DEF ReadRows
  <2>7. QED
    BY <2>1, <2>2, <2>3, <2>4, <2>5, <2>6
<1>4. ReadTypes'
  <2>1. active' \in [Sessions -> Nat] /\ reader' \in [Readers -> ReadRows]
    BY <1>2, <1>3 DEF Stamped
  <2>2. QED
    BY <1>1, <2>1 DEF ReadTypes
<1>5. ClaimsHold'
  <2>1. ASSUME NEW l \in Leads, l \notin missed', NEW s \in Sessions,
               handing'[l] = s \/ session'[s].lead = l
        PROVE  lead[l] # NoLead /\ MayHandOff(lead[l].claim, session'[s])
    <3>1. (handing[l] = s \/ session[s].lead = l) /\ session'[s].kind # "none"
      BY <2>1 DEF ClaimsStay
    <3>2. lead[l] # NoLead /\ MayHandOff(lead[l].claim, session[s])
      BY <2>1, <3>1 DEF ReadInv, ClaimsHold
    <3>3. QED
      BY <3>1, <3>2 DEF MayHandOff, OwnersStay
  <2>2. QED
    BY <2>1 DEF ReadInv, ClaimsHold, MayHandOff
<1>6. ASSUME NEW r \in Readers
      PROVE  ReadHolds(reader[r])' /\ WalkHolds(reader[r])'
  <2>1. PICK p \in ReadRows, q \in ReadRows :
          /\ p = reader[r] /\ q = reader'[r] /\ ReadHolds(p) /\ WalkHolds(p)
          /\ q.what = p.what /\ q.step = p.step /\ q.session = p.session /\ q.row = p.row
          /\ q.cursor = p.cursor /\ q.listed = p.listed /\ q.rows = p.rows
          /\ q.due = p.due \ Touched
          /\ q.swept <=> p.swept \/ (p.step = "read" /\ Gone(p.session))
    BY <1>1, <1>3 DEF ReadInv
  <2>2. ASSUME NEW w, NEW row, Belongs(w, row)
        PROVE  Belongs(w, row)'
    BY <2>2 DEF Belongs, IsCustomers, IsTrainingOf
  <2>3. ASSUME q.step = "read", ~q.swept
        PROVE  Belongs(q.what, session[q.session])'
    <3>1. /\ p.session \in Sessions /\ Belongs(p.what, session[p.session])
          /\ session[p.session].kind # "none" => session'[p.session].kind # "none"
      BY <2>1, <2>3 DEF ReadHolds, Gone
    <3>2. CASE session[p.session].kind # "none"
      <4>1. /\ session'[p.session].kind = session[p.session].kind
            /\ session'[p.session].owner = session[p.session].owner
            /\ session'[p.session].project = session[p.session].project
        BY <3>1, <3>2 DEF OwnersStay
      <4>2. Belongs(p.what, session'[p.session])
        BY <3>1, <4>1 DEF Belongs, IsCustomers, IsTrainingOf
      <4>3. QED
        BY <4>2, <2>1 DEF Belongs, IsCustomers, IsTrainingOf
    <3>3. CASE session[p.session].kind = "none"
      BY <2>1, <3>1, <3>3 DEF Belongs, IsCustomers, IsTrainingOf
    <3>4. QED
      BY <3>2, <3>3
  <2>4. ReadHolds(q)'
    <3>1. q.step = "shown" /\ ~q.swept /\ q.row # NoSession =>
            Belongs(q.what, q.row) /\ (q.what.kind = "global" => IsGlobalOf(q.what, q.row))
      BY <2>1 DEF ReadHolds
    <3>2. QED
      BY <2>1, <2>2, <2>3, <3>1 DEF ReadHolds, IsGlobalOf
  <2>5. ASSUME q.step = "page"
        PROVE  /\ (q.due \cup q.listed \subseteq Listed(q.what))'
               /\ \A s \in q.listed : q.cursor <= active'[s]
               /\ \A s \in q.due \ q.listed : active'[s] < q.cursor
    <3>1. /\ p.due \cup p.listed \subseteq Listed(p.what)
          /\ \A s \in p.listed : p.cursor <= active[s]
          /\ \A s \in p.due \ p.listed : active[s] < p.cursor
      BY <2>1, <2>5 DEF WalkHolds
    <3>2. ASSUME NEW s \in Listed(p.what)
          PROVE  s \in Sessions /\ session'[s].kind # "none" /\ s \in Listed(p.what)'
      BY <3>2 DEF Listed, TrainingStays
    <3>3. /\ \A s \in q.due \cup q.listed : s \in Sessions /\ session'[s].kind # "none"
          /\ q.cursor \in Nat
      BY <2>1, <3>1, <3>2 DEF ReadRows
    <3>4. (q.due \cup q.listed \subseteq Listed(q.what))'
      BY <2>1, <3>1, <3>2
    <3>5. ASSUME NEW s \in q.listed
          PROVE  q.cursor <= active'[s]
      BY <1>1, <1>2, <2>1, <3>1, <3>3
    <3>6. ASSUME NEW s \in q.due \ q.listed
          PROVE  active'[s] < q.cursor
      BY <1>1, <1>2, <2>1, <3>1, <3>3
    <3>7. QED
      BY <3>4, <3>5, <3>6
  <2>6. WalkHolds(q)'
    BY <2>1, <2>5 DEF WalkHolds
  <2>7. QED
    BY <2>1, <2>4, <2>6
<1>7. QED
  BY <1>4, <1>5, <1>6 DEF ReadInv

LEMMA UnchangedRowsStay ==
  ASSUME UNCHANGED <<session, handing, missed>>, ReadInv
  PROVE  TrainingStays /\ OwnersStay /\ ClaimsStay
<1>1. ASSUME NEW l \in Leads, l \notin missed, NEW s \in Sessions,
             handing[l] = s \/ session[s].lead = l
      PROVE  session[s].kind # "none"
  BY <1>1 DEF ReadInv, ClaimsHold, MayHandOff
<1>2. QED
  BY <1>1 DEF TrainingStays, OwnersStay, ClaimsStay

\* One row changes: it keeps whose it is and its lead, or was made.
LEMMA OneRowStays ==
  ASSUME ReadInv, NEW s \in Sessions, NEW row \in SessionRows,
         session' = [session EXCEPT ![s] = row], UNCHANGED <<handing, missed>>,
         row.kind # "none",
         IF session[s].kind = "none" THEN row.lead = Nobody
         ELSE /\ row.kind = session[s].kind /\ row.owner = session[s].owner
              /\ row.project = session[s].project /\ row.lead = session[s].lead
  PROVE  TrainingStays /\ OwnersStay /\ ClaimsStay
<1>1. session'[s] = row /\ \A x \in Sessions \ {s} : session'[x] = session[x]
  BY DEF ReadInv, ChatInv, ChatTypes
<1>2. ASSUME NEW l \in Leads, l \notin missed, NEW x \in Sessions,
             handing[l] = x \/ session[x].lead = l
      PROVE  session[x].kind # "none"
  BY <1>2 DEF ReadInv, ClaimsHold, MayHandOff
<1>3. TrainingStays /\ OwnersStay
  BY <1>1 DEF TrainingStays, OwnersStay
<1>4. ClaimsStay
  <2> SUFFICES ASSUME NEW l \in Leads, l \notin missed, NEW x \in Sessions,
                      handing[l] = x \/ session'[x].lead = l
               PROVE  (handing[l] = x \/ session[x].lead = l) /\ session'[x].kind # "none"
    BY DEF ClaimsStay
  <2>1. l # Nobody
    BY NobodyIsSeparate
  <2>2. CASE x = s
    BY <1>1, <1>2, <2>1, <2>2
  <2>3. CASE x # s
    BY <1>1, <1>2, <2>3
  <2>4. QED
    BY <2>2, <2>3
<1>5. QED
  BY <1>3, <1>4

LEMMA StoringKeeps ==
  ASSUME ReadInv, NEW t \in Turns, Storing(t)
  PROVE  ReadInv'
<1>1. ChatInv /\ ChatInv' /\ Stamped /\ UNCHANGED <<lead, load>> /\ Store(t)
  BY StoreKeeps DEF ReadInv, Storing
<1>2. UNCHANGED <<handing, missed>>
  BY <1>1 DEF Store, AppendTurn, AppendGlobalTurn, Bind, ReadStored, AppendTrainingTurn, Lose
<1>3. CASE session' = session
  BY <1>1, <1>2, <1>3, UnchangedRowsStay, WritersKeepReaders
<1>4. CASE session' # session
  <2>1. turn[t].step \in {"bind", "ready", "write"}
    BY <1>1 DEF Store, AppendTurn, AppendGlobalTurn, Bind, ReadStored, AppendTrainingTurn, Lose, At
  <2>2. PICK s \in Sessions : s = turn[t].what.session
    BY <1>1, <2>1, TurnIsKnown
  <2>3. session[s] \in SessionRows /\ session'[s] \in SessionRows /\ RowHolds(session[s])
    BY <1>1 DEF ChatInv, ChatTypes, RowsHold
  <2>4. /\ session' = [session EXCEPT ![s] = session'[s]]
        /\ session'[s].kind # "none"
        /\ IF session[s].kind = "none" THEN session'[s].lead = Nobody
           ELSE /\ session'[s].kind = session[s].kind /\ session'[s].owner = session[s].owner
                /\ session'[s].project = session[s].project /\ session'[s].lead = session[s].lead
    <3>1. CASE \E said : Stored(t, said)
      <4>1. PICK said : Stored(t, said)
        BY <3>1
      <4>2. session' = [session EXCEPT ![s] = [Opened(t) EXCEPT !.count = @ + Len(said)]]
        BY <4>1, <2>2 DEF Stored
      <4>3. session'[s] = [Opened(t) EXCEPT !.count = @ + Len(said)]
        BY <4>2, <1>1 DEF ChatInv, ChatTypes
      <4>4. /\ turn[t].what.kind \in {"customer", "global", "training"}
            /\ Row(t) = session[s]
        BY <1>1, <2>1, <2>2, TurnIsKnown DEF Row
      <4>5. CASE session[s].kind = "none"
        <5>1. Opened(t) = [NoSession EXCEPT !.kind = turn[t].what.kind,
                             !.owner = turn[t].what.who, !.identity = turn[t].identity,
                             !.project = turn[t].what.project]
          BY <4>4, <4>5 DEF Opened
        <5>2. Opened(t).kind = turn[t].what.kind /\ Opened(t).lead = Nobody
          BY <5>1 DEF NoSession
        <5>3. session'[s].kind = Opened(t).kind /\ session'[s].lead = Opened(t).lead
          BY <4>3, <5>1 DEF NoSession
        <5>4. QED
          BY <4>2, <4>3, <4>4, <4>5, <5>2, <5>3
      <4>6. CASE session[s].kind # "none"
        <5>1. session'[s] = [session[s] EXCEPT !.count = @ + Len(said)]
          BY <4>3, <4>4, <4>6 DEF Opened
        <5>2. /\ session'[s].kind = session[s].kind /\ session'[s].owner = session[s].owner
              /\ session'[s].project = session[s].project /\ session'[s].lead = session[s].lead
          BY <2>3, <5>1 DEF SessionRows
        <5>3. QED
          BY <4>2, <4>3, <4>6, <5>2
      <4>7. QED
        BY <4>5, <4>6
    <3>2. CASE Bind(t)
      <4>1. Row(t) = session[s] /\ session[s].kind = "none"
        BY <1>4, <2>2, <3>2 DEF Bind, Row
      <4>2. session' = [session EXCEPT ![s] = [NoSession EXCEPT !.kind = "training",
                           !.owner = turn[t].what.who, !.project = turn[t].what.project]]
        BY <2>2, <3>2, <4>1 DEF Bind
      <4>3. session'[s] = [NoSession EXCEPT !.kind = "training",
                           !.owner = turn[t].what.who, !.project = turn[t].what.project]
        BY <4>2, <1>1 DEF ChatInv, ChatTypes
      <4>4. session'[s].kind = "training" /\ session'[s].lead = Nobody
        BY <4>3 DEF NoSession
      <4>5. QED
        BY <4>1, <4>2, <4>3, <4>4
    <3>3. QED
      BY <1>1, <1>4, <3>1, <3>2 DEF Store, AppendTurn, AppendGlobalTurn, ReadStored,
         AppendTrainingTurn, Lose
  <2>5. TrainingStays /\ OwnersStay /\ ClaimsStay
    BY <1>2, <2>3, <2>4, OneRowStays
  <2>6. QED
    BY <1>1, <1>2, <2>5, WritersKeepReaders
<1>5. QED
  BY <1>3, <1>4

LEMMA AskingKeeps ==
  ASSUME ReadInv, NEW t \in Turns, NEW w \in Asked, Asking(t, w)
  PROVE  ReadInv'
<1>1. ChatInv' /\ Stamped /\ UNCHANGED lead
  BY AskKeeps, PreflightKeeps DEF ReadInv, Asking
<1>2. UNCHANGED <<session, handing, missed>>
  BY DEF Asking, Ask, Preflight
<1>3. QED
  BY <1>1, <1>2, UnchangedRowsStay, WritersKeepReaders

LEMMA LinkingKeeps ==
  ASSUME ReadInv, NEW d \in Devices, NEW u \in Accounts, Linking(d, u)
  PROVE  ReadInv'
<1>1. ChatInv' /\ Stamped /\ UNCHANGED <<lead, handing, missed>>
  BY LinkKeeps DEF ReadInv, Linking, Link
<1>2. ASSUME NEW s \in Sessions
      PROVE  /\ session'[s].kind = session[s].kind /\ session'[s].owner = session[s].owner
             /\ session'[s].project = session[s].project /\ session'[s].lead = session[s].lead
  <2>1. session[s] \in SessionRows
    BY DEF ReadInv, ChatInv, ChatTypes
  <2>2. session'[s] = IF session[s].identity = d THEN [session[s] EXCEPT !.identity = u]
                      ELSE session[s]
    BY DEF Linking, Link
  <2>3. QED
    BY <2>1, <2>2 DEF SessionRows
<1>3. ASSUME NEW l \in Leads, l \notin missed, NEW s \in Sessions,
             handing[l] = s \/ session[s].lead = l
      PROVE  session[s].kind # "none"
  BY <1>3 DEF ReadInv, ClaimsHold, MayHandOff
<1>4. TrainingStays /\ OwnersStay /\ ClaimsStay
  BY <1>1, <1>2, <1>3 DEF TrainingStays, OwnersStay, ClaimsStay
<1>5. QED
  BY <1>1, <1>4, WritersKeepReaders

LEMMA SweepingKeeps ==
  ASSUME ReadInv, NEW s \in Sessions, Sweeping(s)
  PROVE  ReadInv'
<1>1. ChatInv' /\ Stamped /\ UNCHANGED <<lead, handing>> /\ session[s].kind # "training"
  BY CleanUpKeeps DEF ReadInv, Sweeping, CleanUp, IsSwept
<1>2. missed' = missed \cup {l \in Leads : handing[l] = s}
  BY DEF Sweeping, CleanUp
<1>3. session'[s] = NoSession /\ \A x \in Sessions \ {s} : session'[x] = session[x]
  BY DEF Sweeping, CleanUp, ReadInv, ChatInv, ChatTypes
<1>4. NoSession.kind = "none" /\ NoSession.lead = Nobody
  BY DEF NoSession
<1>5. ASSUME NEW l \in Leads, l \notin missed, NEW x \in Sessions,
             handing[l] = x \/ session[x].lead = l
      PROVE  session[x].kind # "none"
  BY <1>5 DEF ReadInv, ClaimsHold, MayHandOff
<1>6. TrainingStays /\ OwnersStay
  BY <1>1, <1>3, <1>4 DEF TrainingStays, OwnersStay
<1>7. ClaimsStay
  BY <1>1, <1>2, <1>3, <1>4, <1>5, NobodyIsSeparate DEF ClaimsStay
<1>8. QED
  BY <1>1, <1>2, <1>6, <1>7, WritersKeepReaders

LEMMA MarkingKeeps ==
  ASSUME ReadInv, NEW l \in Leads, MarkHandedOff(l), Stamped, UNCHANGED lead
  PROVE  ReadInv'
<1>1. ChatInv' /\ UNCHANGED missed /\ handing' = [handing EXCEPT ![l] = Nobody] /\ handing[l] # Nobody
  BY MarkKeeps DEF ReadInv, MarkHandedOff
<1>2. handing'[l] = Nobody /\ \A k \in Leads \ {l} : handing'[k] = handing[k]
  BY <1>1 DEF ReadInv, ChatInv, ChatTypes
<1>3. ASSUME NEW s \in Sessions
      PROVE  /\ session'[s].kind = session[s].kind /\ session'[s].owner = session[s].owner
             /\ session'[s].project = session[s].project
             /\ session'[s].lead = session[s].lead \/ (s = handing[l] /\ session'[s].lead = l)
  <2>1. session[s] \in SessionRows /\ session \in [Sessions -> SessionRows]
    BY DEF ReadInv, ChatInv, ChatTypes
  <2>2. session'[s] = session[s]
        \/ (s = handing[l] /\ session'[s] = [session[s] EXCEPT !.lead = l])
    BY <2>1 DEF MarkHandedOff
  <2>3. QED
    BY <2>1, <2>2 DEF SessionRows
<1>4. ASSUME NEW k \in Leads, k \notin missed, NEW x \in Sessions,
             handing[k] = x \/ session[x].lead = k
      PROVE  session[x].kind # "none"
  BY <1>4 DEF ReadInv, ClaimsHold, MayHandOff
<1>5. TrainingStays /\ OwnersStay
  BY <1>3 DEF TrainingStays, OwnersStay
<1>6. ClaimsStay
  BY <1>1, <1>2, <1>3, <1>4, NobodyIsSeparate DEF ClaimsStay
<1>7. QED
  BY <1>1, <1>5, <1>6, WritersKeepReaders

\* A lead comes, is checked or moves on, and takes nothing from what was found.
LEMMA LeadsKeepReaders ==
  ASSUME ReadInv, ChatInv', UNCHANGED <<session, missed, active, reader>>,
         lead' \in [Leads -> LeadRows],
         \A l \in Leads : /\ lead'[l] # NoLead => lead'[l].claim \in Handed
                          /\ lead[l] # NoLead => lead'[l] # NoLead /\ lead'[l].claim = lead[l].claim,
         \A l \in Leads \ missed : \A s \in Sessions : handing'[l] = s =>
             handing[l] = s \/ (lead[l] # NoLead /\ MayHandOff(lead[l].claim, session[s]))
  PROVE  ReadInv'
<1>1. ReadTypes'
  BY DEF ReadInv, ReadTypes
<1>2. ClaimsHold'
  BY DEF ReadInv, ClaimsHold, MayHandOff
<1>3. ASSUME NEW r \in Readers
      PROVE  ReadHolds(reader[r])' /\ WalkHolds(reader[r])'
  <2>1. PICK q \in ReadRows : q = reader[r] /\ ReadHolds(q) /\ WalkHolds(q)
    BY DEF ReadInv, ReadTypes
  <2>2. \A w \in Wanted : w.kind = "lead" => w.session \in Leads
    BY WantedAreKnown
  <2>3. ASSUME NEW row, q.what \in Wanted, Belongs(q.what, row),
               q.what.kind = "lead" => lead[q.what.session] # NoLead
        PROVE  Belongs(q.what, row)'
    BY <2>2, <2>3 DEF Belongs, IsCustomers, IsTrainingOf
  <2>4. ReadHolds(q)'
    <3>1. q.step \in {"find", "read", "shown"} /\ q.what.kind = "lead" =>
            lead'[q.what.session] # NoLead
      BY <2>1, <2>2 DEF ReadHolds
    <3>2. q.step = "read" /\ ~q.swept => Belongs(q.what, session[q.session])'
      BY <2>1, <2>3 DEF ReadHolds
    <3>3. q.step = "shown" /\ ~q.swept /\ q.row # NoSession => Belongs(q.what, q.row)'
      BY <2>1, <2>3 DEF ReadHolds
    <3>4. QED
      BY <2>1, <3>1, <3>2, <3>3 DEF ReadHolds, IsGlobalOf
  <2>5. WalkHolds(q)'
    BY <2>1 DEF WalkHolds, Listed
  <2>6. QED
    BY <2>1, <2>4, <2>5
<1>4. QED
  BY <1>1, <1>2, <1>3 DEF ReadInv

LEMMA SubmitKeeps ==
  ASSUME ReadInv, NEW l \in Leads, NEW h \in Handed, NEW b \in Brokers, Submit(l, h, b)
  PROVE  ReadInv'
<1>1. ChatInv' /\ UNCHANGED <<session, missed, handing, active, reader>>
  BY HandingKeeps DEF ReadInv, Submit, vars, ChatInv, ChatTypes
<1>2. PICK row : row = [NoLead EXCEPT !.claim = h, !.broker = b]
  OBVIOUS
<1>3. row \in LeadRows /\ row.claim = h
  BY <1>2 DEF LeadRows, NoLead
<1>4. lead' = [lead EXCEPT ![l] = row] /\ lead[l] = NoLead /\ lead \in [Leads -> LeadRows]
  BY <1>2 DEF Submit, ReadInv, ReadTypes
<1>5. lead' \in [Leads -> LeadRows]
  BY <1>3, <1>4
<1>6. QED
  BY <1>1, <1>3, <1>4, <1>5, LeadsKeepReaders DEF ReadInv, ClaimsHold

LEMMA ReassignKeeps ==
  ASSUME ReadInv, NEW l \in Leads, NEW b \in Brokers, Reassign(l, b)
  PROVE  ReadInv'
<1>1. ChatInv' /\ UNCHANGED <<session, missed, handing, active, reader>>
  BY HandingKeeps DEF ReadInv, Reassign, vars, ChatInv, ChatTypes
<1>2. PICK row : row = [lead[l] EXCEPT !.broker = b, !.moved = TRUE]
  OBVIOUS
<1>3. lead[l] \in LeadRows /\ lead \in [Leads -> LeadRows] /\ lead[l] # NoLead
  BY DEF Reassign, ReadInv, ReadTypes
<1>4. row \in LeadRows /\ row.claim = lead[l].claim /\ row.moved
  BY <1>2, <1>3 DEF LeadRows
<1>5. lead' = [lead EXCEPT ![l] = row]
  BY <1>2 DEF Reassign
<1>6. lead' \in [Leads -> LeadRows] /\ ~NoLead.moved
  BY <1>3, <1>4, <1>5 DEF NoLead
<1>7. QED
  BY <1>1, <1>3, <1>4, <1>5, <1>6, LeadsKeepReaders DEF ReadInv, ClaimsHold

\* What is handed over is the session the lead claims, which is there and is its.
LEMMA TryHandoffKeeps ==
  ASSUME ReadInv, NEW l \in Leads, TryHandoff(l)
  PROVE  ReadInv'
<1>1. lead[l] \in LeadRows /\ lead \in [Leads -> LeadRows] /\ lead[l] # NoLead
      /\ lead[l].claim \in Handed /\ lead[l].claim.session \in Sessions
  BY HandedAreSessions DEF TryHandoff, ReadInv, ReadTypes, ClaimsHold
<1>2. UNCHANGED <<session, messages, turn, missed, link, active, reader>>
  BY DEF TryHandoff, CheckHandoff, vars
<1>3. /\ handing' \in [Leads -> Sessions \cup {Nobody}]
      /\ \A k \in Leads : handing'[k] = handing[k]
            \/ (k = l /\ handing'[k] = lead[k].claim.session
                /\ MayHandOff(lead[k].claim, session[lead[k].claim.session]))
  BY <1>1 DEF TryHandoff, CheckHandoff, vars, ReadInv, ChatInv, ChatTypes
<1>4. ChatInv'
  BY <1>2, <1>3, HandingKeeps DEF ReadInv
<1>5. PICK row : row = [lead[l] EXCEPT !.tried = TRUE]
  OBVIOUS
<1>6. row \in LeadRows /\ row.claim = lead[l].claim /\ row.tried /\ ~NoLead.tried
  BY <1>1, <1>5 DEF LeadRows, NoLead
<1>7. lead' = [lead EXCEPT ![l] = row]
  BY <1>5 DEF TryHandoff
<1>8. lead' \in [Leads -> LeadRows]
  BY <1>1, <1>6, <1>7
<1>9. \A k \in Leads : /\ lead'[k] # NoLead => lead'[k].claim \in Handed
                       /\ lead[k] # NoLead => lead'[k] # NoLead /\ lead'[k].claim = lead[k].claim
  BY <1>1, <1>6, <1>7 DEF ReadInv, ClaimsHold
<1>10. \A k \in Leads \ missed : \A s \in Sessions : handing'[k] = s =>
            handing[k] = s \/ (lead[k] # NoLead /\ MayHandOff(lead[k].claim, session[s]))
  BY <1>1, <1>3
<1>11. QED
  BY <1>2, <1>4, <1>8, <1>9, <1>10, LeadsKeepReaders

LEMMA MarkStepKeeps ==
  ASSUME ReadInv, NEW l \in Leads, Mark(l)
  PROVE  ReadInv'
<1>1. CASE MarkHandedOff(l) /\ Stamped /\ UNCHANGED <<lead, load>>
  BY <1>1, MarkingKeeps
<1>2. CASE /\ handing' = [handing EXCEPT ![l] = Nobody]
           /\ UNCHANGED <<session, messages, turn, missed, link, readingVars>>
  <2>1. handing' \in [Leads -> Sessions \cup {Nobody}]
    BY <1>2 DEF ReadInv, ChatInv, ChatTypes
  <2>2. ChatInv'
    BY <1>2, <2>1, HandingKeeps DEF ReadInv
  <2>3. \A k \in Leads : \A s \in Sessions : handing'[k] = s => handing[k] = s
    BY <1>2, NobodyIsSeparate DEF ReadInv, ChatInv, ChatTypes
  <2>4. QED
    BY <1>2, <2>2, <2>3, LeadsKeepReaders DEF readingVars, ReadInv, ReadTypes, ClaimsHold
<1>3. QED
  BY <1>1, <1>2 DEF Mark


-------------------------------------------------------------------------------
(***************************************************************************)
(* What the readers do.                                                    *)
(***************************************************************************)

LEMMA ReaderMoves ==
  ASSUME ReadInv, NEW r \in Readers, NEW q \in ReadRows, Reads(r, q), ReadHolds(q), WalkHolds(q)
  PROVE  ReadInv'
<1>1. UNCHANGED <<session, messages, turn, handing, missed, link, active, lead>>
  BY DEF Reads, vars
<1>2. ChatInv'
  BY <1>1, HandingKeeps DEF ReadInv, ChatInv, ChatTypes
<1>3. reader' \in [Readers -> ReadRows] /\ reader' = [reader EXCEPT ![r] = q]
  BY DEF Reads, ReadInv, ReadTypes
<1>4. ReadTypes' /\ ClaimsHold'
  BY <1>1, <1>3 DEF ReadInv, ReadTypes, ClaimsHold, MayHandOff
<1>5. ASSUME NEW p, ReadHolds(p), WalkHolds(p)
      PROVE  ReadHolds(p)' /\ WalkHolds(p)'
  BY <1>1, <1>5 DEF ReadHolds, Belongs, IsCustomers, IsTrainingOf, IsGlobalOf, WalkHolds, Listed
<1>6. ASSUME NEW x \in Readers
      PROVE  ReadHolds(reader[x])' /\ WalkHolds(reader[x])'
  <2>1. PICK p : p = reader'[x] /\ ReadHolds(p) /\ WalkHolds(p)
    BY <1>3 DEF ReadInv, ReadTypes
  <2>2. QED
    BY <1>5, <2>1
<1>7. QED
  BY <1>2, <1>4, <1>6 DEF ReadInv

LEMMA StartedRows ==
  ASSUME NEW w \in Wanted, NEW step \in ReadSteps, NEW q, q = Started(w, step)
  PROVE  /\ q \in ReadRows /\ q.what = w /\ q.step = step /\ ~q.swept /\ q.row = NoSession
         /\ q.due = {} /\ q.listed = {} /\ q.rows = 0 /\ q.cursor = 0
<1>1. NoSession \in SessionRows
  BY DEF NoSession, SessionRows, Owners, Projects, Identities
<1>2. QED
  BY <1>1 DEF Started, NoRead, ReadRows

LEMMA FindingKeeps ==
  ASSUME ReadInv, NEW r \in Readers, NEW w \in Wanted,
         w.kind \in {"customer", "staff", "global", "training"}, FindsOrRefuses(r, w)
  PROVE  ReadInv'
<1>0. w.session \in Sessions
  BY WantedAreKnown
<1>1. CASE Matches(w, session[w.session])
  <2>1. PICK p : p = Started(w, "read")
    OBVIOUS
  <2>2. PICK q : q = [p EXCEPT !.session = w.session]
    OBVIOUS
  <2>3. /\ p \in ReadRows /\ p.what = w /\ p.step = "read" /\ ~p.swept /\ p.due = {}
        /\ p.listed = {} /\ p.rows = 0
    BY <2>1, StartedRows DEF ReadSteps
  <2>4. /\ q \in ReadRows /\ q.what = w /\ q.step = "read" /\ q.session = w.session
        /\ q.listed = {} /\ q.rows = 0
    BY <1>0, <2>2, <2>3 DEF ReadRows
  <2>5. Belongs(w, session[w.session])
    BY <1>1 DEF Matches, ShownTo, Belongs
  <2>6. ReadHolds(q)
    BY <1>0, <2>4, <2>5 DEF ReadHolds
  <2>7. WalkHolds(q)
    BY <2>4, FS_EmptySet DEF WalkHolds
  <2>8. Reads(r, q)
    BY <1>1, <2>1, <2>2 DEF FindsOrRefuses
  <2>9. QED
    BY <2>4, <2>6, <2>7, <2>8, ReaderMoves
<1>2. CASE ~Matches(w, session[w.session])
  <2>1. PICK q : q = Started(w, "refused")
    OBVIOUS
  <2>2. /\ q \in ReadRows /\ q.step = "refused" /\ q.listed = {} /\ q.rows = 0
    BY <2>1, StartedRows DEF ReadSteps
  <2>3. ReadHolds(q) /\ WalkHolds(q)
    BY <2>2, FS_EmptySet DEF ReadHolds, WalkHolds
  <2>4. Reads(r, q)
    BY <1>2, <2>1 DEF FindsOrRefuses
  <2>5. QED
    BY <2>2, <2>3, <2>4, ReaderMoves
<1>3. QED
  BY <1>1, <1>2

LEMMA OpenLeadKeeps ==
  ASSUME ReadInv, NEW r \in Readers, NEW w \in Wanted, OpenLead(r, w)
  PROVE  ReadInv'
<1>1. PICK step \in {"find", "refused"} : Reads(r, Started(w, step))
  BY DEF OpenLead
<1>2. PICK q : q = Started(w, step)
  OBVIOUS
<1>3. /\ q \in ReadRows /\ q.what = w /\ q.step = step /\ q.listed = {} /\ q.rows = 0
  BY <1>2, StartedRows DEF ReadSteps
<1>4. ReadHolds(q) /\ WalkHolds(q)
  BY <1>3, FS_EmptySet DEF ReadHolds, WalkHolds, OpenLead
<1>5. QED
  BY <1>1, <1>2, <1>3, <1>4, ReaderMoves

\* The session of the lead is the one that was marked, or is compared with the claim.
LEMMA FindOfLeadKeeps ==
  ASSUME ReadInv, NEW r \in Readers, FindOfLead(r)
  PROVE  ReadInv'
<1>1. PICK p \in ReadRows : /\ p = reader[r] /\ ReadHolds(p) /\ WalkHolds(p)
                            /\ p.step = "find" /\ p.what \in Wanted /\ p.what.kind = "lead"
                            /\ lead[p.what.session] # NoLead /\ p.what.session \in Leads
  BY WantedAreKnown DEF FindOfLead, ReadInv, ReadTypes, ReadHolds
<1>2. CASE \E s \in Sessions : IsOfLead(p.what.session, s)
                               /\ Reads(r, [p EXCEPT !.step = "read", !.session = s])
  <2>1. PICK s \in Sessions : IsOfLead(p.what.session, s)
                              /\ Reads(r, [p EXCEPT !.step = "read", !.session = s])
    BY <1>2
  <2>2. PICK q : q = [p EXCEPT !.step = "read", !.session = s]
    OBVIOUS
  <2>3. /\ q \in ReadRows /\ q.what = p.what /\ q.step = "read" /\ q.session = s
        /\ q.listed = p.listed /\ q.rows = p.rows
    BY <1>1, <2>2 DEF ReadRows, ReadSteps
  <2>4. Belongs(p.what, session[s])
    <3>1. p.what.session \notin missed /\ session[s].lead = p.what.session =>
             MayHandOff(lead[p.what.session].claim, session[s])
      BY <1>1 DEF ReadInv, ClaimsHold
    <3>2. QED
      BY <1>1, <2>1, <3>1 DEF IsOfLead, Belongs, MayHandOff
  <2>5. ReadHolds(q) /\ WalkHolds(q)
    BY <1>1, <2>3, <2>4 DEF ReadHolds, WalkHolds
  <2>6. QED
    BY <2>1, <2>2, <2>3, <2>5, ReaderMoves
<1>3. CASE Reads(r, [p EXCEPT !.step = "empty"])
  <2>1. PICK q : q = [p EXCEPT !.step = "empty"]
    OBVIOUS
  <2>2. /\ q \in ReadRows /\ q.step = "empty" /\ q.listed = p.listed /\ q.rows = p.rows
    BY <1>1, <2>1 DEF ReadRows, ReadSteps
  <2>3. ReadHolds(q) /\ WalkHolds(q)
    BY <1>1, <2>2 DEF ReadHolds, WalkHolds
  <2>4. QED
    BY <1>3, <2>1, <2>2, <2>3, ReaderMoves
<1>4. QED
  BY <1>1, <1>2, <1>3 DEF FindOfLead

LEMMA ShowingKeeps ==
  ASSUME ReadInv, NEW r \in Readers, reader[r].step = "read",
         NEW row, row \in {session[reader[r].session], NoSession}, Shows(r, row),
         reader[r].what.kind = "global" /\ row # NoSession => IsGlobalOf(reader[r].what, row)
  PROVE  ReadInv'
<1>1. PICK p \in ReadRows : /\ p = reader[r] /\ ReadHolds(p) /\ WalkHolds(p) /\ p.step = "read"
                            /\ p.session \in Sessions
  BY DEF ReadInv, ReadTypes, ReadHolds
<1>2. row \in SessionRows
  <2>1. NoSession \in SessionRows
    BY DEF NoSession, SessionRows, Owners, Projects, Identities
  <2>2. QED
    BY <1>1, <2>1 DEF ReadInv, ChatInv, ChatTypes
<1>3. PICK q : q = [p EXCEPT !.step = "shown", !.row = row]
  OBVIOUS
<1>4. /\ q \in ReadRows /\ q.what = p.what /\ q.step = "shown" /\ q.row = row
      /\ q.swept = p.swept /\ q.listed = p.listed /\ q.rows = p.rows
  BY <1>1, <1>2, <1>3 DEF ReadRows, ReadSteps
<1>5. ~p.swept /\ row # NoSession => Belongs(p.what, row)
  BY <1>1 DEF ReadHolds
<1>6. ReadHolds(q) /\ WalkHolds(q)
  BY <1>1, <1>4, <1>5 DEF ReadHolds, WalkHolds
<1>7. Reads(r, q)
  BY <1>1, <1>3 DEF Shows
<1>8. QED
  BY <1>4, <1>6, <1>7, ReaderMoves

LEMMA HintKeeps ==
  ASSUME ReadInv, NEW r \in Readers, NEW w \in Wanted, AskForPhone(r, w)
  PROVE  ReadInv'
<1>1. PICK step \in {"hinted", "refused"} : Reads(r, Started(w, step))
  BY DEF AskForPhone
<1>2. PICK q : q = Started(w, step)
  OBVIOUS
<1>3. /\ q \in ReadRows /\ q.step = step /\ q.listed = {} /\ q.rows = 0
  BY <1>2, StartedRows DEF ReadSteps
<1>4. ReadHolds(q) /\ WalkHolds(q)
  BY <1>3, FS_EmptySet DEF ReadHolds, WalkHolds
<1>5. QED
  BY <1>1, <1>2, <1>3, <1>4, ReaderMoves

LEMMA ListingKeeps ==
  ASSUME ReadInv, NEW r \in Readers, NEW w \in Wanted, NEW rows, rows \subseteq Sessions,
         Lists(r, w, rows)
  PROVE  ReadInv'
<1>1. PICK page : page = Newest(rows, Limit)
  OBVIOUS
<1>2. page \subseteq Sessions /\ Cardinality(page) \in Nat
  BY <1>1, NewestAreAbove, PagesAreFinite, FS_Subset, FS_CardinalityType DEF ReadInv, ReadTypes
<1>3. PICK p : p = Started(w, "walked")
  OBVIOUS
<1>4. /\ p \in ReadRows /\ p.step = "walked" /\ p.due = {}
  BY <1>3, StartedRows DEF ReadSteps
<1>5. PICK n \in Nat : n = Cardinality(page)
  BY <1>2
<1>6. PICK q : q = [p EXCEPT !.listed = page, !.rows = n]
  OBVIOUS
<1>7. /\ q \in ReadRows /\ q.step = "walked" /\ q.due = {} /\ q.listed = page /\ q.rows = n
  BY <1>2, <1>4, <1>5, <1>6 DEF ReadRows
<1>8. ReadHolds(q) /\ WalkHolds(q)
  BY <1>5, <1>7 DEF ReadHolds, WalkHolds
<1>9. Reads(r, q)
  BY <1>1, <1>3, <1>5, <1>6 DEF Lists
<1>10. QED
  BY <1>7, <1>8, <1>9, ReaderMoves

LEMMA StartWalkKeeps ==
  ASSUME ReadInv, NEW r \in Readers, NEW w \in Wanted, StartWalk(r, w)
  PROVE  ReadInv'
<1>1. PICK now \in Nat : now = Now /\ \A s \in Sessions : active[s] < now
  BY NowIsLater DEF ReadInv, ReadTypes
<1>2. PICK rows : rows = Listed(w)
  OBVIOUS
<1>3. rows \subseteq Sessions
  BY <1>2 DEF Listed
<1>4. PICK p : p = Started(w, "page")
  OBVIOUS
<1>5. /\ p \in ReadRows /\ p.what = w /\ p.step = "page" /\ p.listed = {} /\ p.rows = 0
  BY <1>4, StartedRows DEF ReadSteps
<1>6. PICK q : q = [p EXCEPT !.cursor = now, !.due = rows]
  OBVIOUS
<1>7. /\ q \in ReadRows /\ q.what = w /\ q.step = "page" /\ q.listed = {} /\ q.rows = 0
      /\ q.cursor = now /\ q.due = rows
  BY <1>3, <1>5, <1>6 DEF ReadRows
<1>8. ReadHolds(q)
  BY <1>7 DEF ReadHolds
<1>9. WalkHolds(q)
  BY <1>1, <1>2, <1>3, <1>7, FS_EmptySet DEF WalkHolds
<1>10. Reads(r, q)
  BY <1>1, <1>2, <1>4, <1>6 DEF StartWalk
<1>11. QED
  BY <1>7, <1>8, <1>9, <1>10, ReaderMoves

\* A page lists the newest of the rows below the cursor, which were not listed yet,
\* and its last row is the next cursor: what it leaves out is below that one.
LEMMA PageKeeps ==
  ASSUME ReadInv, NEW r \in Readers, Page(r)
  PROVE  ReadInv'
<1>1. PICK p \in ReadRows : p = reader[r] /\ WalkHolds(p) /\ p.step = "page"
  BY DEF Page, ReadInv, ReadTypes
<1>2. active \in [Sessions -> Nat] /\ Limit \in Nat \ {0}
  BY PagesAreFinite DEF ReadInv, ReadTypes
<1>3. PICK rows : rows = {s \in Listed(p.what) : active[s] < p.cursor}
  OBVIOUS
<1>4. Listed(p.what) \subseteq Sessions /\ rows \subseteq Sessions
  BY <1>3 DEF Listed
<1>5. PICK page : page = Newest(rows, Limit)
  OBVIOUS
<1>6. /\ page \subseteq rows /\ (rows # {} => page # {})
      /\ \A s \in rows \ page : \A x \in page : active[s] < active[x]
      /\ Cardinality(rows) <= Limit => page = rows
  BY <1>2, <1>4, <1>5, NewestAreAbove
<1>7. /\ p.rows = Cardinality(p.listed) /\ p.due \cup p.listed \subseteq Listed(p.what)
      /\ \A s \in p.listed : p.cursor <= active[s]
      /\ \A s \in p.due \ p.listed : active[s] < p.cursor
  BY <1>1 DEF WalkHolds
<1>8. p.cursor \in Nat /\ p.due \subseteq Sessions /\ p.listed \subseteq Sessions
  BY DEF ReadRows
<1>9. page \cap p.listed = {}
  BY <1>2, <1>3, <1>6, <1>7, <1>8
<1>10. IsFiniteSet(page) /\ IsFiniteSet(p.listed) /\ Cardinality(page) \in Nat
       /\ Cardinality(p.listed) \in Nat
  BY <1>4, <1>6, <1>8, PagesAreFinite, FS_Subset, FS_CardinalityType
<1>11. Cardinality(p.listed \cup page) = Cardinality(p.listed) + Cardinality(page)
  <2>1. p.listed \cap page = {}
    BY <1>9
  <2>2. Cardinality(p.listed \cup page)
          = Cardinality(p.listed) + Cardinality(page) - Cardinality(p.listed \cap page)
    BY <1>10, FS_Union
  <2>3. Cardinality(p.listed \cap page) = 0
    BY <2>1, FS_EmptySet
  <2>4. QED
    BY <1>10, <2>2, <2>3
<1>12. PICK n \in Nat : n = Cardinality(page)
  BY <1>10
<1>13. PICK more : more = [p EXCEPT !.listed = @ \cup page, !.rows = @ + n]
  OBVIOUS
<1>14. /\ more \in ReadRows /\ more.what = p.what /\ more.step = "page" /\ more.due = p.due
       /\ more.listed = p.listed \cup page /\ more.rows = Cardinality(p.listed \cup page)
  <2>1. p.listed \cup page \subseteq Sessions /\ p.rows \in Nat /\ p.rows + n \in Nat
    BY <1>4, <1>6, <1>8 DEF ReadRows
  <2>2. p.rows + n = Cardinality(p.listed \cup page)
    BY <1>7, <1>11, <1>12
  <2>3. PICK l, k : l = p.listed \cup page /\ k = p.rows + n
    OBVIOUS
  <2>4. more = [p EXCEPT !.listed = l, !.rows = k]
    BY <1>13, <2>3
  <2>5. /\ more \in ReadRows /\ more.what = p.what /\ more.step = p.step /\ more.due = p.due
        /\ more.listed = l /\ more.rows = k
    BY <2>1, <2>3, <2>4 DEF ReadRows
  <2>6. QED
    BY <1>1, <2>2, <2>3, <2>5
<1>15. CASE Cardinality(rows) > Limit
  <2>1. page # {}
    <3>1. rows # {}
      BY <1>2, <1>15, FS_EmptySet
    <3>2. QED
      BY <1>6, <3>1
  <2>2. PICK k : k = CursorOf(rows)
    OBVIOUS
  <2>3. /\ k \in {active[s] : s \in page} /\ \A y \in {active[s] : s \in page} : k <= y
    <3>1. {active[s] : s \in page} \subseteq Nat /\ {active[s] : s \in page} # {}
      BY <1>2, <1>4, <1>6, <2>1
    <3>2. k = Min({active[s] : s \in page})
      BY <1>5, <2>2 DEF CursorOf
    <3>3. QED
      BY <3>1, <3>2, LeastNumber
  <2>4. PICK last \in page : k = active[last]
    BY <2>3
  <2>5. \A s \in page : k <= active[s]
    BY <2>3
  <2>6. k \in Nat /\ k < p.cursor
    BY <1>2, <1>3, <1>4, <1>6, <2>4
  <2>7. PICK q : q = [more EXCEPT !.cursor = k]
    OBVIOUS
  <2>8. /\ q \in ReadRows /\ q.what = p.what /\ q.step = "page" /\ q.due = p.due /\ q.cursor = k
        /\ q.listed = p.listed \cup page /\ q.rows = Cardinality(p.listed \cup page)
    BY <1>14, <2>6, <2>7 DEF ReadRows
  <2>9. ASSUME NEW s \in p.listed \cup page
        PROVE  k <= active[s]
    <3>1. CASE s \in page
      BY <2>5, <3>1
    <3>2. CASE s \in p.listed
      <4>1. p.cursor <= active[s] /\ active[s] \in Nat
        BY <1>2, <1>7, <1>8, <3>2
      <4>2. QED
        BY <1>8, <2>6, <4>1
    <3>3. QED
      BY <3>1, <3>2
  <2>10. ASSUME NEW s \in p.due \ (p.listed \cup page)
         PROVE  active[s] < k
    <3>1. s \in rows \ page
      BY <1>3, <1>7
    <3>2. QED
      BY <1>6, <2>4, <3>1
  <2>11. p.due \cup p.listed \cup page \subseteq Listed(p.what)
    BY <1>3, <1>6, <1>7
  <2>12. ReadHolds(q)
    BY <2>8 DEF ReadHolds
  <2>13. WalkHolds(q)
    BY <2>8, <2>9, <2>10, <2>11 DEF WalkHolds
  <2>14. Reads(r, q)
    BY <1>1, <1>3, <1>5, <1>12, <1>13, <1>15, <2>2, <2>7 DEF Page
  <2>15. QED
    BY <2>8, <2>12, <2>13, <2>14, ReaderMoves
<1>16. CASE ~(Cardinality(rows) > Limit)
  <2>1. page = rows
    <3>1. Cardinality(rows) \in Nat
      BY <1>4, PagesAreFinite, FS_Subset, FS_CardinalityType
    <3>2. QED
      BY <1>2, <1>6, <1>16, <3>1
  <2>2. PICK q : q = [more EXCEPT !.step = "walked", !.cursor = 0]
    OBVIOUS
  <2>3. /\ q \in ReadRows /\ q.what = p.what /\ q.step = "walked" /\ q.due = p.due
        /\ q.listed = p.listed \cup page /\ q.rows = Cardinality(p.listed \cup page)
    BY <1>14, <2>2 DEF ReadRows, ReadSteps
  <2>4. p.due \subseteq p.listed \cup page
    BY <1>3, <1>7, <2>1
  <2>5. ReadHolds(q) /\ WalkHolds(q)
    BY <2>3, <2>4 DEF ReadHolds, WalkHolds
  <2>6. Reads(r, q)
    BY <1>1, <1>3, <1>5, <1>12, <1>13, <1>16, <2>2 DEF Page
  <2>7. QED
    BY <2>3, <2>5, <2>6, ReaderMoves
<1>17. QED
  BY <1>15, <1>16

LEMMA ReadingKeeps ==
  ASSUME ReadInv, NEW r \in Readers, Reading(r)
  PROVE  ReadInv'
<1>1. ASSUME NEW w \in Wanted, Find(r, w) \/ FindTraining(r, w)
      PROVE  ReadInv'
  <2>1. w.kind \in {"customer", "staff", "global", "training"} /\ FindsOrRefuses(r, w)
    BY <1>1 DEF Find, FindTraining
  <2>2. QED
    BY <2>1, FindingKeeps
<1>2. ASSUME NEW w \in Wanted, ListSessions(r, w) \/ ListGlobal(r, w)
      PROVE  ReadInv'
  <2>1. PICK rows : rows \subseteq Sessions /\ Lists(r, w, rows)
    <3>1. CASE ListSessions(r, w)
      <4>1. PICK rows : rows = {s \in Sessions : ShownTo([w EXCEPT !.kind = "customer"], session[s])}
        OBVIOUS
      <4>2. QED
        BY <3>1, <4>1 DEF ListSessions
    <3>2. CASE ListGlobal(r, w)
      <4>1. PICK rows : rows = {s \in Sessions : IsGlobalOf(w, session[s])}
        OBVIOUS
      <4>2. QED
        BY <3>2, <4>1 DEF ListGlobal
    <3>3. QED
      BY <1>2, <3>1, <3>2
  <2>2. QED
    BY <2>1, ListingKeeps
<1>3. CASE Show(r)
  BY <1>3, ShowingKeeps DEF Show
<1>4. CASE ShowGlobal(r)
  BY <1>4, ShowingKeeps DEF ShowGlobal
<1>5. CASE ShowTraining(r)
  BY <1>5, ShowingKeeps DEF ShowTraining
<1>6. QED
  BY <1>1, <1>2, <1>3, <1>4, <1>5, FindOfLeadKeeps, PageKeeps, OpenLeadKeeps, HintKeeps,
     StartWalkKeeps DEF Reading

-------------------------------------------------------------------------------
(***************************************************************************)
(* The theorems.                                                           *)
(***************************************************************************)

LEMMA ReadInvHoldsAtFirst == InitReading => ReadInv
<1> SUFFICES ASSUME InitReading PROVE ReadInv
  OBVIOUS
<1>1. ChatInv
  BY ChatInvHoldsAtFirst DEF InitReading
<1>2. NoSession \in SessionRows
  BY DEF NoSession, SessionRows, Owners, Projects, Identities
<1>3. /\ NoRead \in ReadRows /\ NoRead.step = "idle" /\ NoRead.listed = {} /\ NoRead.rows = 0
  BY <1>2 DEF NoRead, ReadRows, ReadSteps
<1>4. NoLead \in LeadRows
  BY DEF NoLead, LeadRows
<1>5. ReadTypes
  BY <1>3, <1>4 DEF InitReading, ReadTypes
<1>6. ClaimsHold
  BY NobodyIsSeparate DEF InitReading, Init, ClaimsHold, NoSession
<1>7. ReadHolds(NoRead) /\ WalkHolds(NoRead)
  BY <1>3, FS_EmptySet DEF ReadHolds, WalkHolds
<1>8. QED
  BY <1>1, <1>5, <1>6, <1>7 DEF InitReading, ReadInv

LEMMA StepKeepsReadInv == ReadInv /\ [NextReading]_allVars => ReadInv'
<1> SUFFICES ASSUME ReadInv, [NextReading]_allVars PROVE ReadInv'
  OBVIOUS
<1>1. CASE UNCHANGED allVars
  <2>1. UNCHANGED <<session, messages, turn, handing, missed, link, active, lead, reader>>
    BY <1>1 DEF allVars, vars, readingVars
  <2>2. ChatInv'
    BY <2>1, HandingKeeps DEF ReadInv, ChatInv, ChatTypes
  <2>3. QED
    BY <2>1, <2>2, LeadsKeepReaders DEF ReadInv, ReadTypes, ClaimsHold
<1>2. CASE NextReading
  BY <1>2, StoringKeeps, AskingKeeps, TryHandoffKeeps, MarkStepKeeps, ReassignKeeps, SubmitKeeps,
     LinkingKeeps, SweepingKeeps, ReadingKeeps DEF NextReading
<1>3. QED
  BY <1>1, <1>2

LEMMA ReadInvHolds == SpecReading => []ReadInv
BY ReadInvHoldsAtFirst, StepKeepsReadInv, PTL DEF SpecReading

\* Training and global turns are stored only in a session of their owner and
\* project, however binds, answers, links and sweeps of any sessions interleave,
\* with those who read them (bind_training_session, append_training_turn,
\* append_global_turn) and without.
THEOREM GuardedTurnsStayOwned ==
  (Spec => []GuardedTurnsAreOwned) /\ (SpecReading => []GuardedTurnsAreOwned)
<1>1. ReadInv => GuardedTurnsAreOwned
  BY ChatInvImplies DEF ReadInv
<1>2. ChatInv => GuardedTurnsAreOwned
  BY ChatInvImplies
<1>3. QED
  BY <1>1, <1>2, ChatInvHolds, ReadInvHolds, PTL

\* A question of a training session that was stored when another turn read is not
\* stored by that turn again, and message_count counts what is stored, for any
\* turns that answer the same question at the same time (append_training_turn).
THEOREM QuestionsAreStoredOnce ==
  (Spec => []QuestionIsStoredOnce) /\ (SpecReading => []QuestionIsStoredOnce)
<1>1. ReadInv => QuestionIsStoredOnce
  BY ChatInvImplies DEF ReadInv
<1>2. ChatInv => QuestionIsStoredOnce
  BY ChatInvImplies
<1>3. QED
  BY <1>1, <1>2, ChatInvHolds, ReadInvHolds, PTL

\* The messages that are shown by the id of a session alone are those of the
\* session that was found for the reader, unless a sweep came between: no turn,
\* link or hand-over changes whose a session is (get_session, list_messages and
\* the conversation of a lead).
THEOREM TranscriptsStayTheReaders == SpecReading => []TranscriptIsTheReaders
<1>1. ReadInv => TranscriptIsTheReaders
  <2> SUFFICES ASSUME ReadInv, NEW r \in Readers,
                      reader[r].step = "shown", reader[r].row # NoSession, ~reader[r].swept
               PROVE  LET w == reader[r].what
                          row == reader[r].row
                      IN CASE w.kind \in {"customer", "staff"} ->
                                IsCustomers(row) /\ row.owner = w.who /\ row.project = w.project
                           [] w.kind = "global"   ->
                                row.kind = "global" /\ w.who \in {row.owner, row.identity}
                           [] w.kind = "training" ->
                                row.kind = "training" /\ w.who \in {row.owner, Admin}
                           [] w.kind = "lead"     ->
                                /\ IsCustomers(row)
                                /\ w.session \notin missed =>
                                      /\ row.owner = lead[w.session].claim.device
                                      /\ row.project = lead[w.session].claim.project
    BY DEF TranscriptIsTheReaders
  <2>1. PICK w, row :
          /\ w = reader[r].what /\ row = reader[r].row /\ Belongs(w, row)
          /\ w.kind = "global" => IsGlobalOf(w, row)
          /\ w.kind \in {"customer", "staff", "global", "training", "lead"}
    BY DEF ReadInv, ReadHolds
  <2>2. CASE w.kind \in {"customer", "staff"}
    BY <2>1, <2>2 DEF Belongs
  <2>3. CASE w.kind = "global"
    BY <2>1, <2>3 DEF IsGlobalOf
  <2>4. CASE w.kind = "training"
    BY <2>1, <2>4 DEF Belongs, IsTrainingOf
  <2>5. CASE w.kind = "lead"
    BY <2>1, <2>5 DEF Belongs
  <2>6. QED
    BY <2>1, <2>2, <2>3, <2>4, <2>5
<1>2. QED
  BY <1>1, ReadInvHolds, PTL

\* The pages of a walk, each below the last row of the one before, show no session
\* twice and leave out none that was there and was not written to, for any number
\* of sessions and any size of a page (list_training_sessions and its cursor).
THEOREM WalksAreComplete == SpecReading => []WalkIsComplete
<1>1. ReadInv => WalkIsComplete
  BY DEF ReadInv, WalkHolds, WalkIsComplete
<1>2. QED
  BY <1>1, ReadInvHolds, PTL
===============================================================================
