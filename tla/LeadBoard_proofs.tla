--------------------------- MODULE LeadBoard_proofs ---------------------------
(***************************************************************************)
(* Theorems about the broker board, for any leads, brokers, priorities and *)
(* requests: a lead is routed to nobody twice, a hand-over leaves its      *)
(* trace, a lead expires after everybody was tried, a call is announced    *)
(* once, a former owner changes nothing, and the board implements the      *)
(* custody of a lead.                                                      *)
(***************************************************************************)
EXTENDS LeadBoard, SequenceTheorems, WellFoundedInduction, TLAPS

Rows == [status : Statuses, owner : Sales \cup {Nobody}, closed : BOOLEAN]
Actions == {"call", "callback", "no_answer", "booked", "lost", "expired"}
Entries == [sales : Sales \cup {Nobody}, action : Actions]
Decisions == [open : BOOLEAN, by : Requests \cup {Nobody}, next : Sales \cup {Nobody}, time : Nat]
Asking == [by : Sales \cup {Admin, Nobody}, lead : Leads \cup {Nobody},
           what : Asked \cup {Nobody}, seen : Statuses, step : Steps]
Notices == [queued : Nat, claimed : BOOLEAN, sent : Nat]

\* A lead belongs to whom it was routed to last; an intake has routed nothing yet.
RoutesHold ==
    \A l \in Leads :
        /\ IsInjective(route[l])
        /\ lead[l].owner = IF route[l] = <<>> THEN Nobody ELSE Last(route[l])
        /\ lead[l].status = "none" \/ l \in intake => route[l] = <<>>

\* Only brokers that had the lead are in its log.
LogsHold ==
    \A l \in Leads : \A e \in log[l] :
        /\ e.sales # Nobody => e.sales \in Range(route[l])
        /\ e.action = "no_answer" => e.sales # Nobody

\* What a request asks for, and that it logs what its broker did as the owner.
Sound(q) ==
    /\ q.step \in {"patch", "go", "crm", "log"} => q.lead \in Leads
    /\ q.step \in {"patch", "go", "log"} =>
          q.by \in Sales /\ q.what \in {"board", "patch"} \X BoardActions
    /\ q.step = "crm" => q.what \in {"crm"} \X CrmStatuses
    /\ q.step = "log" => q.what[2] # "no_answer" /\ q.by \in Range(route[q.lead])

RequestsHold == \A r \in Requests : Sound(req[r])

\* The broker picked was not tried, or all were; the owner asked for the hand-over.
DecisionsHold ==
    \A l \in Leads : deciding[l].open =>
        /\ deciding[l].next \notin Range(route[l])
        /\ deciding[l].next = Nobody => Steady \subseteq Range(route[l])
        /\ deciding[l].by = Nobody => l \in intake
        /\ deciding[l].by # Nobody =>
              /\ req[deciding[l].by].step = "go" /\ req[deciding[l].by].what[2] = "no_answer"
              /\ req[deciding[l].by].lead = l /\ req[deciding[l].by].by = lead[l].owner

NoticesHold == \A l \in Leads : notice[l].sent <= 1 /\ (~notice[l].claimed => notice[l].sent = 0)

\* Whoever lost a lead logged a no_answer on it: ownership and its trace are
\* written together or not at all.
HandOversAreLogged ==
    \A l \in Leads :
        /\ NoAnswers(l) \subseteq Range(route[l])
        /\ route[l] # <<>> => Range(Front(route[l])) \subseteq NoAnswers(l)

BoardInv ==
    /\ TypeOK /\ Steady \subseteq active
    /\ RoutesHold /\ LogsHold /\ RequestsHold /\ DecisionsHold /\ NoticesHold
    /\ HandOversAreLogged /\ ExpiredMeansTried

-------------------------------------------------------------------------------
(***************************************************************************)
(* Routes and picks.                                                       *)
(***************************************************************************)

\* A route that grows by a broker it does not hold.
LEMMA RouteGrows ==
  ASSUME NEW q \in Seq(Sales), NEW s \in Sales, s \notin Range(q), IsInjective(q)
  PROVE  /\ Append(q, s) \in Seq(Sales) /\ Append(q, s) # <<>>
         /\ IsInjective(Append(q, s)) /\ Last(Append(q, s)) = s
         /\ Range(Append(q, s)) = Range(q) \cup {s}
         /\ Range(Front(Append(q, s))) = Range(q)
<1> DEFINE w == Append(q, s)
<1>1. /\ w \in Seq(Sales) /\ w # <<>> /\ Len(w) = Len(q) + 1
      /\ \A i \in 1..Len(q) : w[i] = q[i]
      /\ w[Len(q) + 1] = s
  BY AppendProperties
<1>2. Len(q) \in Nat /\ DOMAIN q = 1..Len(q) /\ DOMAIN w = 1..(Len(q) + 1)
  BY <1>1, LenProperties
<1>3. \A i \in 1..Len(q) : q[i] # s
  BY <1>2 DEF Range
<1> HIDE DEF w
<1>4. IsInjective(w)
  <2> SUFFICES ASSUME NEW i \in 1..(Len(q) + 1), NEW j \in 1..(Len(q) + 1), w[i] = w[j]
               PROVE  i = j
    BY <1>2 DEF IsInjective
  <2>1. CASE i \in 1..Len(q) /\ j \in 1..Len(q)
    BY <1>1, <1>2, <2>1 DEF IsInjective
  <2>2. CASE i = Len(q) + 1 \/ j = Len(q) + 1
    BY <1>1, <1>2, <1>3, <2>2
  <2>3. QED
    BY <1>2, <2>1, <2>2
<1>5. Range(w) = Range(q) \cup {s}
  <2>1. ASSUME NEW x \in Range(w) PROVE x \in Range(q) \cup {s}
    BY <1>1, <1>2 DEF Range
  <2>2. ASSUME NEW x \in Range(q) PROVE x \in Range(w)
    <3>1. PICK i \in 1..Len(q) : x = q[i]
      BY <1>2 DEF Range
    <3>2. i \in 1..(Len(q) + 1) /\ w[i] = x
      BY <1>1, <1>2, <3>1
    <3>3. QED
      BY <1>2, <3>2 DEF Range
  <2>3. s \in Range(w)
    BY <1>1, <1>2 DEF Range
  <2>4. QED
    BY <2>1, <2>2, <2>3
<1>6. Front(w) = q
  <2>1. Len(w) - 1 = Len(q) /\ Front(w) = SubSeq(w, 1, Len(q))
    BY <1>1, <1>2 DEF Front
  <2>2. \A i \in 1..Len(q) : w[i] \in Sales
    BY <1>1, <1>2, ElementOfSeq
  <2>3. /\ Front(w) \in Seq(Sales) /\ Len(Front(w)) = Len(q)
        /\ \A i \in 1..Len(q) : Front(w)[i] = w[i]
    BY <1>2, <2>1, <2>2, SubSeqProperties
  <2>4. QED
    BY <1>1, <2>3, SeqEqual
<1>7. QED
  BY <1>1, <1>2, <1>4, <1>5, <1>6 DEF Last, w

\* Whoever had the lead is its last broker or came before.
LEMMA RouteSplits ==
  ASSUME NEW q \in Seq(Sales), q # <<>>
  PROVE  /\ Last(q) \in Sales /\ Last(q) \in Range(q)
         /\ Range(q) \subseteq Range(Front(q)) \cup {Last(q)} /\ Range(Front(q)) \subseteq Range(q)
<1>1. Len(q) \in Nat \ {0} /\ DOMAIN q = 1..Len(q) /\ \A i \in 1..Len(q) : q[i] \in Sales
  BY EmptySeq, LenProperties, ElementOfSeq
<1>2. Last(q) \in Sales /\ Last(q) \in Range(q)
  BY <1>1 DEF Last, Range
<1>3. /\ Front(q) \in Seq(Sales) /\ Len(Front(q)) = Len(q) - 1
      /\ \A i \in 1..Len(q) - 1 : Front(q)[i] = q[i]
  BY <1>1, SubSeqProperties DEF Front
<1>4. ASSUME NEW i \in 1..Len(q)
      PROVE  q[i] \in Range(Front(q)) \cup {Last(q)}
  <2>1. CASE i = Len(q)
    BY <2>1 DEF Last
  <2>2. CASE i # Len(q)
    <3>0. Len(q) \in Nat /\ i \in Nat /\ 1 <= i /\ i <= Len(q)
      BY <1>1
    <3>1. i \in 1..(Len(q) - 1)
      BY <3>0, <2>2
    <3>2. DOMAIN Front(q) = 1..Len(q) - 1
      BY <1>3, LenProperties
    <3>3. QED
      BY <1>3, <3>1, <3>2 DEF Range
  <2>3. QED
    BY <2>1, <2>2
<1>5. Range(Front(q)) \subseteq Range(q)
  <2>1. DOMAIN Front(q) = 1..Len(q) - 1
    BY <1>3, LenProperties
  <2>2. QED
    BY <1>1, <1>3, <2>1 DEF Range
<1>6. QED
  BY <1>1, <1>2, <1>4, <1>5 DEF Range

LEMMA NothingIsEmpty == /\ Range(<<>>) = {} /\ IsInjective(<<>>) /\ <<>> \in Seq(Sales)
BY EmptySeq DEF Range, IsInjective

\* A set of numbers has a least one.
LEMMA LeastNumber ==
  ASSUME NEW T, T \subseteq Nat, T # {}
  PROVE  \E x \in T : \A y \in T : x <= y
<1>1. IsWellFoundedOn(OpToRel(<, Nat), Nat)
  BY NatLessThanWellFounded
<1>2. PICK x \in T : \A y \in T : <<y, x>> \notin OpToRel(<, Nat)
  BY <1>1, WFMin
<1>3. \A y \in T : ~(y < x)
  BY <1>2 DEF OpToRel
<1>4. QED
  BY <1>3

\* Stamp and rank order the brokers: of several, one waited longest.
LEMMA OneWaitedLongest ==
  ASSUME stamp \in [Sales -> Nat], NEW S, S \subseteq Sales, S # {}
  PROVE  LeastRecent(S) \in S
<1>1. PICK s \in S : \A t \in S : stamp[s] <= stamp[t]
  <2> DEFINE T == {stamp[t] : t \in S}
  <2>1. T \subseteq Nat /\ T # {}
    OBVIOUS
  <2>2. PICK x \in T : \A y \in T : x <= y
    BY <2>1, LeastNumber
  <2>3. QED
    BY <2>2
<1> DEFINE First == {t \in S : stamp[t] = stamp[s]}
<1>2. PICK f \in First : \A t \in First : Rank[f] <= Rank[t]
  <2> DEFINE T == {Rank[t] : t \in First}
  <2>1. T \subseteq Nat /\ T # {}
    BY RankOrdersSales
  <2>2. PICK x \in T : \A y \in T : x <= y
    BY <2>1, LeastNumber
  <2>3. QED
    BY <2>2
<1>3. ASSUME NEW t \in S \ {f}
      PROVE  WaitedLonger(f, t)
  <2>1. stamp[f] = stamp[s] /\ stamp[f] \in Nat /\ stamp[t] \in Nat /\ stamp[f] <= stamp[t]
    BY <1>1
  <2>2. CASE stamp[t] = stamp[f]
    <3>1. Rank[f] <= Rank[t]
      BY <1>2, <2>1, <2>2
    <3>2. Rank[f] # Rank[t] /\ Rank[f] \in Nat /\ Rank[t] \in Nat
      BY RankOrdersSales DEF IsInjective
    <3>3. QED
      BY <2>2, <3>1, <3>2 DEF WaitedLonger
  <2>3. CASE stamp[t] # stamp[f]
    BY <2>1, <2>3 DEF WaitedLonger
  <2>4. QED
    BY <2>2, <2>3
<1>4. \E x \in S : \A t \in S \ {x} : WaitedLonger(x, t)
  BY <1>3
<1>5. QED
  BY <1>4 DEF LeastRecent

\* What Pick promises: an active broker that did not have the lead, or none is left.
LEMMA PickIsFresh ==
  ASSUME BoardInv, NEW l \in Leads
  PROVE  /\ Pick(l) \in Sales \cup {Nobody}
         /\ Pick(l) \notin Range(route[l])
         /\ Pick(l) = Nobody => Steady \subseteq Range(route[l])
<1>1. /\ Candidates(l) \subseteq Sales /\ Candidates(l) \cap Range(route[l]) = {}
      /\ route[l] \in Seq(Sales) /\ Range(route[l]) \subseteq Sales
  BY RangeOfSeq DEF BoardInv, TypeOK, Candidates
<1>2. Nobody \notin Sales
  BY AdminIsNoBroker
<1>3. CASE Pick(l) \in Candidates(l)
  BY <1>1, <1>2, <1>3
<1>4. CASE Candidates(l) = {} /\ Pick(l) = Nobody
  <2>1. \A s \in active : s \in Range(route[l])
    BY <1>2, <1>4 DEF BoardInv, LogsHold, Candidates, TypeOK
  <2>2. QED
    BY <1>1, <1>2, <1>4, <2>1 DEF BoardInv
<1>5. Pick(l) \in Candidates(l) \/ (Candidates(l) = {} /\ Pick(l) = Nobody)
  BY <1>1, OneWaitedLongest DEF Pick, BoardInv, TypeOK
<1>6. QED
  BY <1>3, <1>4, <1>5

-------------------------------------------------------------------------------
(***************************************************************************)
(* Rows and requests.                                                      *)
(***************************************************************************)

LEMMA RowsAreTyped ==
  TypeOK <=> /\ lead \in [Leads -> Rows] /\ route \in [Leads -> Seq(Sales)]
             /\ log \in [Leads -> SUBSET Entries] /\ stamp \in [Sales -> Nat] /\ clock \in Nat
             /\ active \in SUBSET Sales /\ deciding \in [Leads -> Decisions]
             /\ req \in [Requests -> Asking] /\ intake \in SUBSET Leads
             /\ notice \in [Leads -> Notices]
BY Zenon DEF TypeOK, Rows, Entries, Actions, Decisions, Asking, Notices

\* A push that is queued, or none.
LEMMA PushIsQueued ==
  ASSUME NEW n \in Notices, NEW k \in Nat
  PROVE  /\ [n EXCEPT !.queued = k] \in Notices
         /\ [n EXCEPT !.queued = k].sent = n.sent /\ [n EXCEPT !.queued = k].claimed = n.claimed
BY DEF Notices

\* A request moves and may write the status of a row and queue a push.
LEMMA RequestMoves ==
  ASSUME BoardInv, NEW r \in Requests, NEW q \in Asking, Sound(q), req' = [req EXCEPT ![r] = q],
         \A l \in Leads : deciding[l].open => deciding[l].by # r,
         lead' \in [Leads -> Rows],
         \A l \in Leads : /\ lead'[l].owner = lead[l].owner
                          /\ lead'[l].status = "none" => lead[l].status = "none"
                          /\ lead'[l].status = "expired" => lead[l].status = "expired",
         notice' \in [Leads -> Notices],
         \A l \in Leads : notice'[l].sent = notice[l].sent /\ notice'[l].claimed = notice[l].claimed,
         UNCHANGED <<route, log, stamp, clock, active, deciding, intake>>
  PROVE  BoardInv'
<1>1. TypeOK'
  <2>1. req' \in [Requests -> Asking]
    BY RowsAreTyped DEF BoardInv
  <2>2. QED
    BY <2>1, RowsAreTyped DEF BoardInv, Rows, Entries, Actions, Decisions, Asking, Notices, TypeOK
<1>2. \A s \in Requests : req'[s] = IF s = r THEN q ELSE req[s]
  BY RowsAreTyped DEF BoardInv
<1>3. RoutesHold' /\ LogsHold' /\ HandOversAreLogged'
  BY DEF BoardInv, RoutesHold, LogsHold, HandOversAreLogged, NoAnswers
<1>4. RequestsHold'
  BY <1>2 DEF BoardInv, RequestsHold, Sound
<1>5. DecisionsHold'
  BY <1>2, RowsAreTyped DEF BoardInv, DecisionsHold, Decisions
<1>6. NoticesHold' /\ ExpiredMeansTried'
  BY DEF BoardInv, NoticesHold, ExpiredMeansTried
<1>7. QED
  BY <1>1, <1>3, <1>4, <1>5, <1>6 DEF BoardInv

\* A request that only moves.
LEMMA RequestMovesAlone ==
  ASSUME BoardInv, NEW r \in Requests, NEW q \in Asking, Sound(q), req' = [req EXCEPT ![r] = q],
         \A l \in Leads : deciding[l].open => deciding[l].by # r,
         UNCHANGED <<lead, route, log, stamp, clock, active, deciding, intake, notice>>
  PROVE  BoardInv'
BY RequestMoves, RowsAreTyped DEF BoardInv

\* Whoever decides asked for a hand-over.
LEMMA OthersDoNotDecide ==
  ASSUME BoardInv, NEW r \in Requests,
         req[r].step # "go" \/ req[r].what[2] # "no_answer" \/ ~deciding[req[r].lead].open
  PROVE  \A l \in Leads : deciding[l].open => deciding[l].by # r
BY NobodyIsNoRequest DEF BoardInv, DecisionsHold

LEMMA EndsAreSound ==
  ASSUME TypeOK, NEW r \in Requests, NEW step \in {"done", "refused", "dead"}
  PROVE  /\ [req[r] EXCEPT !.step = step] \in Asking /\ Sound([req[r] EXCEPT !.step = step])
         /\ [req EXCEPT ![r].step = step] = [req EXCEPT ![r] = [req[r] EXCEPT !.step = step]]
BY RowsAreTyped DEF Asking, Steps, Sound

\* A request ends and leaves the rest.
LEMMA RequestEnds ==
  ASSUME BoardInv, NEW r \in Requests, NEW step \in {"done", "refused", "dead"},
         req' = [req EXCEPT ![r].step = step],
         \A l \in Leads : deciding[l].open => deciding[l].by # r,
         UNCHANGED <<lead, route, log, stamp, clock, active, deciding, intake, notice>>
  PROVE  BoardInv'
BY EndsAreSound, RequestMovesAlone DEF BoardInv

\* The lead it found, the wish and the principal it took.
LEMMA TookIsSound ==
  ASSUME TypeOK, NEW r \in Requests, NEW p \in Sales \cup {Admin}, NEW l \in Leads, NEW w \in Asked,
         NEW step \in Steps, Took(r, p, l, w, step), step # "log",
         step \in {"patch", "go"} => p \in Sales /\ w[1] \in {"board", "patch"},
         step = "crm" => w[1] = "crm"
  PROVE  \E q \in Asking : Sound(q) /\ req' = [req EXCEPT ![r] = q]
<1> DEFINE q == [by |-> p, lead |-> l, what |-> w, seen |-> lead[l].status, step |-> step]
<1>1. lead[l].status \in Statuses
  BY RowsAreTyped DEF Rows
<1>2. q \in Asking
  BY <1>1 DEF Asking
<1>3. /\ w[1] \in {"board", "patch"} => w \in {"board", "patch"} \X BoardActions
      /\ w[1] = "crm" => w \in {"crm"} \X CrmStatuses
  BY AskedAreKnown
<1>4. Sound(q)
  BY <1>3 DEF Sound
<1>5. QED
  BY <1>2, <1>4 DEF Took

LEMMA ArriveKeeps ==
  ASSUME BoardInv, NEW r \in Requests, NEW p \in Sales \cup {Admin}, NEW l \in Leads, NEW w \in Asked,
         Arrive(r, p, l, w)
  PROVE  BoardInv'
<1>1. /\ req[r].step = "idle"
      /\ UNCHANGED <<lead, route, log, stamp, clock, active, deciding, intake>>
  BY DEF Arrive, Act, PatchCalled, Crm, CallStarted
<1>2. CASE CallStarted(r, p, l, w)
  <2>1. PICK step \in {"done", "refused"} : Took(r, p, l, w, step)
    BY <1>2 DEF CallStarted
  <2>2. PICK q \in Asking : Sound(q) /\ req' = [req EXCEPT ![r] = q]
    BY <2>1, TookIsSound DEF BoardInv, Steps
  <2>3. lead \in [Leads -> Rows] /\ notice \in [Leads -> Notices] /\ notice[l].queued + 1 \in Nat
    BY RowsAreTyped DEF BoardInv, Notices
  <2>4. PICK k \in Nat : notice' = [notice EXCEPT ![l] = [notice[l] EXCEPT !.queued = k]]
    <3>1. CASE p \in {Admin, lead[l].owner}
      BY <1>2, <2>3, <3>1 DEF CallStarted
    <3>2. CASE p \notin {Admin, lead[l].owner}
      <4>1. notice' = [notice EXCEPT ![l] = [notice[l] EXCEPT !.queued = notice[l].queued]]
        BY <1>2, <3>2 DEF CallStarted
      <4>2. notice[l].queued \in Nat
        BY <2>3 DEF Notices
      <4>3. QED
        BY <4>1, <4>2
    <3>3. QED
      BY <3>1, <3>2
  <2> DEFINE note == [notice[l] EXCEPT !.queued = k]
  <2>5. note \in Notices /\ note.sent = notice[l].sent /\ note.claimed = notice[l].claimed
    BY <2>3, PushIsQueued
  <2>6. notice' = [notice EXCEPT ![l] = note]
    BY <2>4
  <2> HIDE DEF note
  <2>7. notice' \in [Leads -> Notices]
    BY <2>3, <2>5, <2>6
  <2>8. \A m \in Leads : notice'[m].sent = notice[m].sent /\ notice'[m].claimed = notice[m].claimed
    BY <2>3, <2>5, <2>6
  <2>9. \A m \in Leads : deciding[m].open => deciding[m].by # r
    BY <1>1, OthersDoNotDecide
  <2>10. lead' \in [Leads -> Rows] /\ \A m \in Leads : lead'[m] = lead[m]
    BY <1>1, <2>3
  <2>11. QED
    BY <1>1, <2>2, <2>7, <2>8, <2>9, <2>10, RequestMoves
<1>3. CASE ~CallStarted(r, p, l, w)
  <2>1. UNCHANGED notice
    BY <1>3 DEF Arrive, Act, PatchCalled, Crm
  <2>2. PICK step \in {"go", "patch", "crm", "refused"} :
          /\ Took(r, p, l, w, step)
          /\ step \in {"patch", "go"} => p \in Sales /\ w[1] \in {"board", "patch"}
          /\ step = "crm" => w[1] = "crm"
    <3>1. active \subseteq Sales
      BY DEF BoardInv, TypeOK
    <3>2. CASE Act(r, p, l, w)
      BY <3>1, <3>2 DEF Act
    <3>3. CASE PatchCalled(r, p, l, w)
      BY <3>1, <3>3 DEF PatchCalled
    <3>4. CASE Crm(r, p, l, w)
      BY <3>4 DEF Crm
    <3>5. QED
      BY <1>3, <3>2, <3>3, <3>4 DEF Arrive
  <2>3. PICK q \in Asking : Sound(q) /\ req' = [req EXCEPT ![r] = q]
    BY <2>2, TookIsSound DEF BoardInv, Steps
  <2>4. QED
    BY <1>1, <2>1, <2>3, OthersDoNotDecide, RequestMovesAlone
<1>4. QED
  BY <1>2, <1>3

LEMMA PassOnKeeps ==
  ASSUME BoardInv, NEW r \in Requests, PassOn(r)
  PROVE  BoardInv'
<1>1. /\ req[r].step = "patch"
      /\ req[r].lead \in Leads /\ req[r].by \in Sales
      /\ req[r].what \in {"board", "patch"} \X BoardActions
  BY DEF PassOn, BoardInv, RequestsHold, Sound
<1>2. req[r] \in Asking
  BY RowsAreTyped DEF BoardInv
<1>3. PICK step \in {"go", "refused"} : Took(r, req[r].by, req[r].lead, req[r].what, step)
  BY DEF PassOn
<1> DEFINE q == [by |-> req[r].by, lead |-> req[r].lead, what |-> req[r].what,
                 seen |-> lead[req[r].lead].status, step |-> step]
<1>4. q \in Asking
  <2>1. lead[req[r].lead].status \in Statuses
    BY <1>1, RowsAreTyped DEF BoardInv, Rows
  <2>2. QED
    BY <1>1, <1>2, <2>1 DEF Asking, Steps
<1>5. Sound(q)
  BY <1>1 DEF Sound
<1>6. req' = [req EXCEPT ![r] = q] /\ UNCHANGED <<lead, route, log, stamp, clock, active, deciding, intake, notice>>
  BY <1>3 DEF PassOn, Took
<1>7. QED
  BY <1>1, <1>4, <1>5, <1>6, OthersDoNotDecide, RequestMovesAlone

LEMMA DieKeeps ==
  ASSUME BoardInv, NEW r \in Requests, Die(r)
  PROVE  BoardInv'
BY RequestEnds DEF Die

\* An update finds the row of its owner or nothing; the row it finds is open to it.
LEMMA WriteKeeps ==
  ASSUME BoardInv, NEW r \in Requests, Write(r)
  PROVE  BoardInv'
<1> DEFINE l == req[r].lead
           a == req[r].what[2]
<1>1. /\ req[r].step = "go" /\ a # "no_answer" /\ l \in Leads /\ req[r].by \in Sales
      /\ req[r].what \in {"board", "patch"} \X BoardActions
  BY DEF Write, BoardInv, RequestsHold, Sound
<1>2. a \in {"called", "callback", "booked", "lost"}
  BY <1>1 DEF BoardActions
<1>3. \A k \in Leads : deciding[k].open => deciding[k].by # r
  BY <1>1, OthersDoNotDecide
<1>4. CASE ~Owned(r)
  BY <1>3, <1>4, RequestEnds DEF Write
<1>5. CASE Owned(r)
  <2> DEFINE row == [lead[l] EXCEPT !.status = a, !.closed = @ \/ a \in {"booked", "lost"}]
             q == [req[r] EXCEPT !.step = "log"]
  <2>1. /\ lead' = [lead EXCEPT ![l] = row] /\ req' = [req EXCEPT ![r] = q]
        /\ UNCHANGED <<route, log, stamp, clock, active, deciding, intake, notice>>
    BY <1>5 DEF Write
  <2>2. row \in Rows /\ row.status = a /\ row.owner = lead[l].owner
    <3>1. lead[l] \in Rows /\ a \in Statuses
      BY <1>1, <1>2, RowsAreTyped DEF BoardInv, Statuses, CrmStatuses, Closed
    <3>2. (lead[l].closed \/ a \in {"booked", "lost"}) \in BOOLEAN
      OBVIOUS
    <3>3. QED
      BY <3>1, <3>2 DEF Rows
  <2> HIDE DEF row
  <2>3. lead \in [Leads -> Rows] /\ notice \in [Leads -> Notices] /\ req[r] \in Asking
    BY RowsAreTyped DEF BoardInv
  <2>4. lead' \in [Leads -> Rows]
    BY <2>1, <2>2, <2>3
  <2>5. \A k \in Leads : /\ lead'[k].owner = lead[k].owner
                         /\ lead'[k].status = "none" => lead[k].status = "none"
                         /\ lead'[k].status = "expired" => lead[k].status = "expired"
    BY <1>2, <2>1, <2>2, <2>3
  <2>6. req[r].by \in Range(route[l])
    <3>1. route[l] \in Seq(Sales) /\ route[l] # <<>> /\ Last(route[l]) = req[r].by
      BY <1>1, <1>5, AdminIsNoBroker, RowsAreTyped DEF Owned, BoardInv, RoutesHold
    <3>2. QED
      BY <3>1, RouteSplits
  <2>7. q \in Asking /\ Sound(q)
    BY <1>1, <2>3, <2>6 DEF Asking, Steps, Sound
  <2>8. QED
    BY <1>3, <2>1, <2>3, <2>4, <2>5, <2>7, RequestMoves
<1>6. QED
  BY <1>4, <1>5

\* The CRM sets the status and may queue a push; owner and log are left alone.
LEMMA CrmWriteKeeps ==
  ASSUME BoardInv, NEW r \in Requests, CrmWrite(r)
  PROVE  BoardInv'
<1> DEFINE l == req[r].lead
           st == req[r].what[2]
<1>1. /\ req[r].step = "crm" /\ l \in Leads /\ req[r].what \in {"crm"} \X CrmStatuses
  BY DEF CrmWrite, BoardInv, RequestsHold, Sound
<1>2. st \in CrmStatuses /\ st \in Statuses /\ st \notin {"none", "expired"}
  BY <1>1 DEF CrmStatuses, Statuses
<1>3. \A k \in Leads : deciding[k].open => deciding[k].by # r
  BY <1>1, OthersDoNotDecide
<1>4. CASE ~(req[r].by = Admin \/ Owned(r))
  BY <1>3, <1>4, RequestEnds DEF CrmWrite
<1>5. CASE req[r].by = Admin \/ Owned(r)
  <2> DEFINE row == [lead[l] EXCEPT !.status = st]
             n == IF req[r].seen = "assigned" /\ st = "called" THEN notice[l].queued + 1
                  ELSE notice[l].queued
             note == [notice[l] EXCEPT !.queued = n]
             q == [req[r] EXCEPT !.step = "done"]
  <2>1. /\ lead' = [lead EXCEPT ![l] = row] /\ req' = [req EXCEPT ![r] = q]
        /\ notice' = [notice EXCEPT ![l] = note]
        /\ UNCHANGED <<route, log, stamp, clock, active, deciding, intake>>
    BY <1>5 DEF CrmWrite
  <2>2. lead \in [Leads -> Rows] /\ notice \in [Leads -> Notices] /\ req[r] \in Asking
    BY RowsAreTyped DEF BoardInv
  <2>3. row \in Rows /\ row.status = st /\ row.owner = lead[l].owner
    BY <1>1, <1>2, <2>2 DEF Rows
  <2>4. note \in Notices /\ note.sent = notice[l].sent /\ note.claimed = notice[l].claimed
    <3>1. notice[l] \in Notices
      BY <1>1, <2>2
    <3>2. n \in Nat
      BY <3>1 DEF Notices
    <3>3. QED
      BY <3>1, <3>2, PushIsQueued
  <2> HIDE DEF row, note
  <2>5. lead' \in [Leads -> Rows] /\ notice' \in [Leads -> Notices]
    BY <2>1, <2>2, <2>3, <2>4
  <2>6. \A k \in Leads : /\ lead'[k].owner = lead[k].owner
                         /\ lead'[k].status = "none" => lead[k].status = "none"
                         /\ lead'[k].status = "expired" => lead[k].status = "expired"
    BY <1>2, <2>1, <2>2, <2>3
  <2>7. \A k \in Leads : notice'[k].sent = notice[k].sent /\ notice'[k].claimed = notice[k].claimed
    BY <2>1, <2>2, <2>4
  <2>8. q \in Asking /\ Sound(q)
    BY EndsAreSound DEF BoardInv
  <2>9. QED
    BY <1>3, <2>1, <2>5, <2>6, <2>7, <2>8, RequestMoves
<1>6. QED
  BY <1>4, <1>5

\* The row of the log, and the push that is queued with the answer.
LEMMA WriteLogKeeps ==
  ASSUME BoardInv, NEW r \in Requests, WriteLog(r)
  PROVE  BoardInv'
<1> DEFINE l == req[r].lead
           a == req[r].what[2]
           e == [sales |-> req[r].by, action |-> IF a = "called" THEN "call" ELSE a]
           q == [req[r] EXCEPT !.step = "done"]
           n == IF a = "called" THEN notice[l].queued + 1 ELSE notice[l].queued
           note == [notice[l] EXCEPT !.queued = n]
<1>1. /\ req[r].step = "log" /\ a # "no_answer" /\ l \in Leads /\ req[r].by \in Sales
      /\ req[r].what \in {"board", "patch"} \X BoardActions /\ req[r].by \in Range(route[l])
  BY DEF WriteLog, BoardInv, RequestsHold, Sound
<1>2. e \in Entries /\ e.action # "no_answer" /\ e.sales \in Range(route[l])
  BY <1>1 DEF BoardActions, Entries, Actions
<1>3. note \in Notices /\ note.sent = notice[l].sent /\ note.claimed = notice[l].claimed
  <2>1. notice[l] \in Notices
    BY <1>1, RowsAreTyped DEF BoardInv
  <2>2. n \in Nat
    BY <2>1 DEF Notices
  <2>3. QED
    BY <2>1, <2>2, PushIsQueued
<1>4. q \in Asking /\ Sound(q)
  BY EndsAreSound DEF BoardInv
<1>5. /\ log' = [log EXCEPT ![l] = @ \cup {e}] /\ notice' = [notice EXCEPT ![l] = note]
      /\ req' = [req EXCEPT ![r] = q]
      /\ UNCHANGED <<lead, route, stamp, clock, active, deciding, intake>>
  BY DEF WriteLog
<1> HIDE DEF e, note, q
<1>6. TypeOK'
  <2>1. log' \in [Leads -> SUBSET Entries]
    BY <1>1, <1>2, <1>5, RowsAreTyped DEF BoardInv
  <2>2. notice' \in [Leads -> Notices]
    BY <1>3, <1>5, RowsAreTyped DEF BoardInv
  <2>3. req' \in [Requests -> Asking]
    BY <1>4, <1>5, RowsAreTyped DEF BoardInv
  <2>4. QED
    BY <1>5, <2>1, <2>2, <2>3, RowsAreTyped DEF BoardInv, Rows, Entries, Actions, Decisions, Asking,
       Notices, TypeOK
<1>7. \A k \in Leads : \A f \in log'[k] : f \in log[k] \/ (k = l /\ f = e)
  BY <1>5, RowsAreTyped DEF BoardInv
<1>8. LogsHold' /\ RoutesHold'
  BY <1>2, <1>5, <1>7 DEF BoardInv, LogsHold, RoutesHold
<1>9. HandOversAreLogged'
  <2>1. \A k \in Leads : NoAnswers(k)' = NoAnswers(k)
    <3> SUFFICES ASSUME NEW k \in Leads
                 PROVE  NoAnswers(k)' = NoAnswers(k)
      OBVIOUS
    <3>1. log[k] \subseteq log'[k]
      BY <1>5, RowsAreTyped DEF BoardInv
    <3>2. QED
      BY <1>2, <1>7, <3>1 DEF NoAnswers
  <2>2. QED
    BY <1>5, <2>1 DEF BoardInv, HandOversAreLogged
<1>10. \A s \in Requests : req'[s] = IF s = r THEN q ELSE req[s]
  BY <1>5, RowsAreTyped DEF BoardInv
<1>11. RequestsHold'
  BY <1>4, <1>5, <1>10 DEF BoardInv, RequestsHold, Sound
<1>12. DecisionsHold'
  <2>1. \A k \in Leads : deciding[k].open => deciding[k].by # r
    BY <1>1, OthersDoNotDecide
  <2>2. QED
    BY <1>5, <1>10, <2>1, RowsAreTyped DEF BoardInv, DecisionsHold, Decisions
<1>13. NoticesHold' /\ ExpiredMeansTried'
  BY <1>3, <1>5, RowsAreTyped DEF BoardInv, NoticesHold, ExpiredMeansTried
<1>14. QED
  BY <1>5, <1>6, <1>8, <1>9, <1>11, <1>12, <1>13 DEF BoardInv

-------------------------------------------------------------------------------
(***************************************************************************)
(* Decisions.                                                              *)
(***************************************************************************)

\* A decision opens, for an intake or for the owner who asks for a hand-over.
LEMMA BeginKeeps ==
  ASSUME BoardInv, NEW l \in Leads, NEW by \in Requests \cup {Nobody}, ~Locked(l),
         Begin(l, by, Pick(l)),
         by = Nobody => l \in intake,
         by # Nobody => /\ req[by].step = "go" /\ req[by].what[2] = "no_answer"
                        /\ req[by].lead = l /\ req[by].by = lead[l].owner,
         UNCHANGED <<lead, route, log, stamp, active, req, intake, notice>>
  PROVE  BoardInv'
<1> DEFINE d == [open |-> TRUE, by |-> by, next |-> Pick(l), time |-> clock + 1]
<1>1. /\ Pick(l) \in Sales \cup {Nobody} /\ Pick(l) \notin Range(route[l])
      /\ Pick(l) = Nobody => Steady \subseteq Range(route[l])
  BY PickIsFresh
<1>2. clock \in Nat /\ clock' = clock + 1 /\ deciding' = [deciding EXCEPT ![l] = d]
  BY RowsAreTyped DEF Begin, BoardInv
<1>3. d \in Decisions
  <2>1. TRUE \in BOOLEAN /\ clock + 1 \in Nat
    BY <1>2
  <2>2. QED
    BY <1>1, <2>1 DEF Decisions
<1>4. \A k \in Leads : deciding'[k] = IF k = l THEN d ELSE deciding[k]
  BY <1>2, RowsAreTyped DEF BoardInv
<1>5. d.next = Pick(l) /\ d.by = by
  OBVIOUS
<1> HIDE DEF d
<1>6. TypeOK'
  <2>1. clock' \in Nat
    BY <1>2
  <2>2. deciding' \in [Leads -> Decisions]
    BY <1>2, <1>3, RowsAreTyped DEF BoardInv
  <2>3. QED
    BY <2>1, <2>2, RowsAreTyped DEF BoardInv, Rows, Entries, Actions, Decisions, Asking, Notices, TypeOK
<1>7. DecisionsHold'
  BY <1>1, <1>4, <1>5 DEF BoardInv, DecisionsHold
<1>8. QED
  BY <1>6, <1>7 DEF BoardInv, RoutesHold, LogsHold, RequestsHold, Sound, NoticesHold,
     HandOversAreLogged, NoAnswers, ExpiredMeansTried

LEMMA HandOverKeeps ==
  ASSUME BoardInv, NEW r \in Requests, HandOver(r)
  PROVE  BoardInv'
<1> DEFINE l == req[r].lead
<1>1. /\ req[r].step = "go" /\ req[r].what[2] = "no_answer" /\ l \in Leads /\ ~Locked(l)
  BY DEF HandOver, BoardInv, RequestsHold, Sound
<1>2. CASE Owned(r) /\ lead[l].status \notin Closed
  BY <1>1, <1>2, BeginKeeps, NobodyIsNoRequest DEF HandOver, Owned
<1>3. CASE ~(Owned(r) /\ lead[l].status \notin Closed)
  BY <1>1, <1>3, OthersDoNotDecide, RequestEnds DEF HandOver, Locked
<1>4. QED
  BY <1>2, <1>3

\* A decision closes: its request ends, and so does the intake it was for.
LEMMA DecisionCloses ==
  ASSUME BoardInv, NEW l \in Leads, Locked(l), NEW step \in {"done", "dead"},
         deciding' = [deciding EXCEPT ![l] = NotDeciding],
         req' = Finish(deciding[l].by, step),
         intake' = IF deciding[l].by = Nobody THEN intake \ {l} ELSE intake
  PROVE  /\ deciding' \in [Leads -> Decisions] /\ req' \in [Requests -> Asking]
         /\ intake' \subseteq intake /\ l \notin intake'
         /\ \A k \in Leads : deciding'[k].open => k # l /\ deciding'[k] = deciding[k]
                                                  /\ (k \in intake => k \in intake')
                                                  /\ (deciding[k].by \in Requests =>
                                                         req'[deciding[k].by] = req[deciding[k].by])
         /\ \A s \in Requests : Sound(req'[s])
<1> DEFINE by == deciding[l].by
<1>1. deciding \in [Leads -> Decisions] /\ req \in [Requests -> Asking] /\ deciding[l].open
  BY RowsAreTyped DEF BoardInv, Locked
<1>2. by \in Requests \cup {Nobody}
  BY <1>1 DEF Decisions
<1>3. NotDeciding \in Decisions /\ ~NotDeciding.open
  <2>1. FALSE \in BOOLEAN
    OBVIOUS
  <2>2. QED
    BY <2>1 DEF Decisions, NotDeciding
<1>4. \A k \in Leads : deciding'[k] = IF k = l THEN NotDeciding ELSE deciding[k]
  BY <1>1
<1>5. deciding' \in [Leads -> Decisions]
  BY <1>1, <1>3
<1>6. CASE by = Nobody
  <2>1. req' = req /\ intake' = intake \ {l}
    BY <1>6 DEF Finish
  <2>2. \A s \in Requests : Sound(req[s])
    BY DEF BoardInv, RequestsHold
  <2>3. QED
    BY <1>1, <1>3, <1>4, <1>5, <2>1, <2>2
<1>7. CASE by # Nobody
  <2>1. /\ by \in Requests /\ req[by].lead = l /\ req[by].by = lead[l].owner /\ req[by].by \in Sales
    BY <1>1, <1>2, <1>7 DEF BoardInv, DecisionsHold, RequestsHold, Sound
  <2>2. route[l] # <<>> /\ l \notin intake
    BY <2>1, AdminIsNoBroker DEF BoardInv, RoutesHold
  <2>3. intake' = intake /\ req' = [req EXCEPT ![by].step = step]
    BY <1>7 DEF Finish
  <2>4. /\ [req[by] EXCEPT !.step = step] \in Asking /\ Sound([req[by] EXCEPT !.step = step])
        /\ req' = [req EXCEPT ![by] = [req[by] EXCEPT !.step = step]]
    BY <2>1, <2>3, EndsAreSound DEF BoardInv
  <2>5. req' \in [Requests -> Asking] /\ \A s \in Requests : s # by => req'[s] = req[s]
    BY <1>1, <2>4
  <2>6. \A s \in Requests : Sound(req'[s])
    BY <1>1, <2>1, <2>4, <2>5 DEF BoardInv, RequestsHold
  <2>7. \A k \in Leads : k # l /\ deciding[k].open => deciding[k].by # by
    BY <1>7, <2>1 DEF BoardInv, DecisionsHold
  <2>8. QED
    BY <1>3, <1>4, <1>5, <2>2, <2>3, <2>5, <2>6, <2>7
<1>8. QED
  BY <1>6, <1>7

LEMMA RollbackKeeps ==
  ASSUME BoardInv, NEW l \in Leads, Rollback(l)
  PROVE  BoardInv'
<1>1. /\ deciding' \in [Leads -> Decisions] /\ req' \in [Requests -> Asking]
      /\ intake' \subseteq intake
      /\ \A k \in Leads : deciding'[k].open => deciding'[k] = deciding[k]
                                               /\ (k \in intake => k \in intake')
                                               /\ (deciding[k].by \in Requests =>
                                                      req'[deciding[k].by] = req[deciding[k].by])
      /\ \A s \in Requests : Sound(req'[s])
  BY DecisionCloses DEF Rollback
<1>2. UNCHANGED <<lead, route, log, stamp, clock, active, notice>>
  BY DEF Rollback
<1>3. TypeOK'
  BY <1>1, <1>2, RowsAreTyped DEF BoardInv, Rows, Entries, Actions, Decisions, Asking, Notices, TypeOK
<1>4. DecisionsHold'
  BY <1>1, <1>2, RowsAreTyped DEF BoardInv, DecisionsHold, Decisions
<1>5. RequestsHold'
  BY <1>1, <1>2 DEF RequestsHold, Sound
<1>6. QED
  BY <1>1, <1>2, <1>3, <1>4, <1>5 DEF BoardInv, RoutesHold, LogsHold, NoticesHold,
     HandOversAreLogged, NoAnswers, ExpiredMeansTried

\* What the log gains: the trace of a hand-over, and that nobody was left.
Gained(l) ==
    Prelude(deciding[l].by) \cup
    (IF deciding[l].next = Nobody THEN {[sales |-> Nobody, action |-> "expired"]} ELSE {})

LEMMA TraceIsLeft ==
  ASSUME BoardInv, NEW l \in Leads, Locked(l)
  PROVE  /\ Gained(l) \subseteq Entries
         /\ \A e \in Gained(l) : e.sales # Nobody => e.sales \in Range(route[l])
         /\ \A e \in Gained(l) : e.action = "no_answer" => e.sales # Nobody
         /\ route[l] # <<>> => [sales |-> Last(route[l]), action |-> "no_answer"] \in Gained(l)
<1> DEFINE by == deciding[l].by
<1>1. deciding[l] \in Decisions /\ deciding[l].open
  BY RowsAreTyped DEF BoardInv, Locked
<1>2. by \in Requests \cup {Nobody}
  BY <1>1 DEF Decisions
<1>3. CASE by = Nobody
  <2>1. route[l] = <<>>
    BY <1>1, <1>3 DEF BoardInv, DecisionsHold, RoutesHold
  <2>2. QED
    BY <1>3, <2>1 DEF Gained, Prelude, Entries, Actions
<1>4. CASE by # Nobody
  <2>1. /\ req[by].by = lead[l].owner /\ req[by].by \in Sales
        /\ Prelude(by) = {[sales |-> req[by].by, action |-> "no_answer"]}
    BY <1>1, <1>2, <1>4 DEF BoardInv, DecisionsHold, RequestsHold, Sound, Prelude
  <2>2. route[l] \in Seq(Sales) /\ route[l] # <<>> /\ Last(route[l]) = req[by].by
    BY <2>1, AdminIsNoBroker, RowsAreTyped DEF BoardInv, RoutesHold
  <2>3. req[by].by \in Range(route[l])
    BY <2>2, RouteSplits
  <2>4. QED
    BY <2>1, <2>2, <2>3, AdminIsNoBroker DEF Gained, Entries, Actions
<1>5. QED
  BY <1>3, <1>4

\* A commit gives the lead to the broker picked, or lets it expire.
LEMMA CommitKeeps ==
  ASSUME BoardInv, NEW l \in Leads, Commit(l)
  PROVE  BoardInv'
<1> DEFINE d == deciding[l]
           next == deciding[l].next
           row == [lead[l] EXCEPT !.status = IF next = Nobody THEN "expired" ELSE "assigned",
                                  !.owner = IF next = Nobody THEN @ ELSE next,
                                  !.closed = @ \/ next = Nobody]
           path == IF next = Nobody THEN route[l] ELSE Append(route[l], next)
<1>1. /\ Locked(l) /\ d \in Decisions /\ d.open /\ next \in Sales \cup {Nobody} /\ d.time \in Nat
      /\ route[l] \in Seq(Sales) /\ lead[l] \in Rows /\ log[l] \subseteq Entries
      /\ lead \in [Leads -> Rows] /\ route \in [Leads -> Seq(Sales)]
      /\ log \in [Leads -> SUBSET Entries] /\ stamp \in [Sales -> Nat]
  <2>1. Locked(l) /\ d \in Decisions /\ d.open
    BY RowsAreTyped DEF BoardInv, Commit, Locked
  <2>2. next \in Sales \cup {Nobody} /\ d.time \in Nat
    BY <2>1 DEF Decisions
  <2>3. QED
    BY <2>1, <2>2, RowsAreTyped DEF BoardInv
<1>2. /\ deciding' \in [Leads -> Decisions] /\ req' \in [Requests -> Asking]
      /\ intake' \subseteq intake /\ l \notin intake'
      /\ \A k \in Leads : deciding'[k].open => k # l /\ deciding'[k] = deciding[k]
                                               /\ (k \in intake => k \in intake')
                                               /\ (deciding[k].by \in Requests =>
                                                      req'[deciding[k].by] = req[deciding[k].by])
      /\ \A s \in Requests : Sound(req'[s])
  BY DecisionCloses DEF Commit
<1>3. /\ lead' = [lead EXCEPT ![l] = row] /\ route' = [route EXCEPT ![l] = path]
      /\ log' = [log EXCEPT ![l] = @ \cup Gained(l)]
      /\ stamp' = IF next = Nobody THEN stamp
                  ELSE [stamp EXCEPT ![next] = IF d.time > @ THEN d.time ELSE @]
      /\ UNCHANGED <<clock, active, notice>>
  BY DEF Commit, Routed, Gained
<1>4. /\ row \in Rows /\ row.status \in {"assigned", "expired"}
      /\ row.status = "expired" <=> next = Nobody
      /\ row.owner = IF next = Nobody THEN lead[l].owner ELSE next
  <2>1. (lead[l].closed \/ next = Nobody) \in BOOLEAN
    OBVIOUS
  <2>2. {"assigned", "expired"} \subseteq Statuses
    BY DEF Statuses, Closed
  <2>3. row \in Rows
    BY <1>1, <2>1, <2>2 DEF Rows
  <2>4. QED
    BY <1>1, <2>3 DEF Rows
<1> HIDE DEF row
<1>5. /\ path \in Seq(Sales) /\ IsInjective(path) /\ Range(route[l]) \subseteq Range(path)
      /\ row.owner = IF path = <<>> THEN Nobody ELSE Last(path)
      /\ path # <<>> => Range(Front(path)) \subseteq Range(route[l])
      /\ next # Nobody => path # <<>>
      /\ next = Nobody => path = route[l] /\ Steady \subseteq Range(route[l])
  <2>1. /\ next \notin Range(route[l]) /\ IsInjective(route[l])
        /\ next = Nobody => Steady \subseteq Range(route[l])
        /\ lead[l].owner = IF route[l] = <<>> THEN Nobody ELSE Last(route[l])
    BY <1>1 DEF BoardInv, DecisionsHold, RoutesHold
  <2>2. CASE next = Nobody
    <3>1. route[l] # <<>> => Range(Front(route[l])) \subseteq Range(route[l])
      BY <1>1, RouteSplits
    <3>2. QED
      BY <1>1, <1>4, <2>1, <2>2, <3>1
  <2>3. CASE next # Nobody
    <3>1. next \in Sales
      BY <1>1, <2>3
    <3>2. /\ path = Append(route[l], next) /\ path \in Seq(Sales) /\ path # <<>> /\ IsInjective(path)
          /\ Last(path) = next /\ Range(path) = Range(route[l]) \cup {next}
          /\ Range(Front(path)) = Range(route[l])
      BY <1>1, <2>1, <2>3, <3>1, RouteGrows
    <3>3. QED
      BY <1>4, <2>3, <3>2
  <2>4. QED
    BY <2>2, <2>3
<1>6. /\ \A k \in Leads : lead'[k] = IF k = l THEN row ELSE lead[k]
      /\ \A k \in Leads : route'[k] = IF k = l THEN path ELSE route[k]
      /\ \A k \in Leads : log'[k] = IF k = l THEN log[l] \cup Gained(l) ELSE log[k]
  BY <1>1, <1>3
<1>7. \A k \in Leads : Range(route[k]) \subseteq Range(route'[k])
  BY <1>5, <1>6
<1> HIDE DEF path
<1>8. /\ Gained(l) \subseteq Entries
      /\ \A e \in Gained(l) : e.sales # Nobody => e.sales \in Range(route[l])
      /\ \A e \in Gained(l) : e.action = "no_answer" => e.sales # Nobody
      /\ route[l] # <<>> => [sales |-> Last(route[l]), action |-> "no_answer"] \in Gained(l)
  BY <1>1, TraceIsLeft
<1>9. TypeOK'
  <2>1. lead' \in [Leads -> Rows] /\ route' \in [Leads -> Seq(Sales)]
    BY <1>1, <1>3, <1>4, <1>5
  <2>2. log' \in [Leads -> SUBSET Entries]
    BY <1>1, <1>3, <1>8
  <2>3. stamp' \in [Sales -> Nat]
    BY <1>1, <1>3
  <2>4. intake' \in SUBSET Leads
    BY <1>2, RowsAreTyped DEF BoardInv
  <2>5. QED
    BY <1>2, <1>3, <2>1, <2>2, <2>3, <2>4, RowsAreTyped DEF BoardInv, Rows, Entries, Actions,
       Decisions, Asking, Notices, TypeOK
<1>10. RoutesHold'
  <2> SUFFICES ASSUME NEW k \in Leads
               PROVE  /\ IsInjective(route'[k])
                      /\ lead'[k].owner = IF route'[k] = <<>> THEN Nobody ELSE Last(route'[k])
                      /\ lead'[k].status = "none" \/ k \in intake' => route'[k] = <<>>
    BY DEF RoutesHold
  <2>1. CASE k = l
    BY <1>2, <1>4, <1>5, <1>6, <2>1
  <2>2. CASE k # l
    BY <1>2, <1>6, <2>2 DEF BoardInv, RoutesHold
  <2>3. QED
    BY <2>1, <2>2
<1>11. LogsHold'
  <2>1. \A k \in Leads : \A e \in log'[k] :
           /\ e.sales # Nobody => e.sales \in Range(route[k])
           /\ e.action = "no_answer" => e.sales # Nobody
    BY <1>6, <1>8 DEF BoardInv, LogsHold
  <2>2. QED
    BY <1>7, <2>1 DEF LogsHold
<1>12. RequestsHold'
  <2>1. \A s \in Requests : req'[s].step = "log" => req'[s].lead \in Leads
    BY <1>2 DEF Sound
  <2>2. QED
    BY <1>2, <1>7, <2>1 DEF RequestsHold, Sound
<1>13. DecisionsHold'
  BY <1>2, <1>6, RowsAreTyped DEF BoardInv, DecisionsHold, Decisions
<1>14. HandOversAreLogged'
  <2> SUFFICES ASSUME NEW k \in Leads
               PROVE  /\ NoAnswers(k)' \subseteq Range(route'[k])
                      /\ route'[k] # <<>> => Range(Front(route'[k])) \subseteq NoAnswers(k)'
    BY DEF HandOversAreLogged
  <2>1. NoAnswers(k) \subseteq NoAnswers(k)'
    BY <1>6 DEF NoAnswers
  <2>2. NoAnswers(k)' \subseteq Range(route'[k])
    BY <1>11 DEF LogsHold, NoAnswers
  <2>3. CASE k # l
    BY <1>6, <2>1, <2>2, <2>3 DEF BoardInv, HandOversAreLogged
  <2>4. CASE k = l
    <3>1. Range(route[l]) \subseteq NoAnswers(l)'
      <4>1. CASE route[l] = <<>>
        BY <4>1, NothingIsEmpty
      <4>2. CASE route[l] # <<>>
        <5>1. Range(route[l]) \subseteq Range(Front(route[l])) \cup {Last(route[l])}
          BY <1>1, <4>2, RouteSplits
        <5>2. Last(route[l]) \in NoAnswers(l)'
          BY <1>6, <1>8, <4>2 DEF NoAnswers
        <5>3. Range(Front(route[l])) \subseteq NoAnswers(l)
          BY <4>2 DEF BoardInv, HandOversAreLogged
        <5>4. QED
          BY <2>1, <2>4, <5>1, <5>2, <5>3
      <4>3. QED
        BY <4>1, <4>2
    <3>2. QED
      BY <1>5, <1>6, <2>2, <2>4, <3>1
  <2>5. QED
    BY <2>3, <2>4
<1>15. NoticesHold'
  BY <1>3 DEF BoardInv, NoticesHold
<1>16. ExpiredMeansTried'
  BY <1>4, <1>5, <1>6, <1>7 DEF BoardInv, ExpiredMeansTried
<1>17. QED
  BY <1>3, <1>9, <1>10, <1>11, <1>12, <1>13, <1>14, <1>15, <1>16 DEF BoardInv

LEMMA RouteNewKeeps ==
  ASSUME BoardInv, NEW l \in Leads, RouteNew(l)
  PROVE  BoardInv'
<1>1. CASE lead[l].status \in Closed
  <2>1. intake' = intake \ {l} /\ ~Locked(l)
        /\ UNCHANGED <<lead, route, log, stamp, clock, active, deciding, req, notice>>
    BY <1>1 DEF RouteNew
  <2>2. DecisionsHold'
    BY <2>1 DEF BoardInv, DecisionsHold, Locked
  <2>3. QED
    BY <2>1, <2>2 DEF BoardInv, TypeOK, RoutesHold, LogsHold, RequestsHold, Sound, NoticesHold,
       HandOversAreLogged, NoAnswers, ExpiredMeansTried
<1>2. CASE lead[l].status \notin Closed
  BY <1>2, BeginKeeps DEF RouteNew
<1>3. QED
  BY <1>1, <1>2

LEMMA LoseIntakeKeeps ==
  ASSUME BoardInv, NEW l \in Leads, LoseIntake(l)
  PROVE  BoardInv'
<1>1. DecisionsHold'
  BY DEF LoseIntake, BoardInv, DecisionsHold, Locked
<1>2. QED
  BY <1>1 DEF LoseIntake, BoardInv, TypeOK, RoutesHold, LogsHold, RequestsHold, Sound, NoticesHold,
     HandOversAreLogged, NoAnswers, ExpiredMeansTried

LEMMA CreateKeeps ==
  ASSUME BoardInv, NEW l \in Leads, Create(l)
  PROVE  BoardInv'
<1> DEFINE row == [lead[l] EXCEPT !.status = "new"]
<1>1. /\ lead[l].status = "none" /\ lead' = [lead EXCEPT ![l] = row] /\ intake' = intake \cup {l}
      /\ UNCHANGED <<route, log, stamp, clock, active, deciding, req, notice>>
  BY DEF Create
<1>2. lead \in [Leads -> Rows] /\ intake \in SUBSET Leads
  BY RowsAreTyped DEF BoardInv
<1>3. row \in Rows /\ row.owner = lead[l].owner /\ row.status = "new"
  <2>1. "new" \in Statuses
    BY DEF Statuses
  <2>2. QED
    BY <1>2, <2>1 DEF Rows
<1> HIDE DEF row
<1>4. TypeOK'
  <2>1. lead' \in [Leads -> Rows]
    BY <1>1, <1>2, <1>3
  <2>2. intake' \in SUBSET Leads
    BY <1>1, <1>2
  <2>3. QED
    BY <1>1, <2>1, <2>2, RowsAreTyped DEF BoardInv, Rows, Entries, Actions, Decisions, Asking,
       Notices, TypeOK
<1>5. \A k \in Leads : lead'[k].owner = lead[k].owner /\ (k # l => lead'[k] = lead[k])
  BY <1>1, <1>2, <1>3
<1>6. lead'[l].status = "new"
  BY <1>1, <1>2, <1>3
<1>7. RoutesHold' /\ DecisionsHold' /\ ExpiredMeansTried'
  <2>1. RoutesHold'
    BY <1>1, <1>5, <1>6 DEF BoardInv, RoutesHold
  <2>2. DecisionsHold'
    BY <1>1, <1>5 DEF BoardInv, DecisionsHold
  <2>3. ExpiredMeansTried'
    BY <1>1, <1>5, <1>6 DEF BoardInv, ExpiredMeansTried
  <2>4. QED
    BY <2>1, <2>2, <2>3
<1>8. LogsHold' /\ RequestsHold' /\ NoticesHold' /\ active' = active
  BY <1>1 DEF BoardInv, LogsHold, RequestsHold, Sound, NoticesHold
<1>9. HandOversAreLogged'
  BY <1>1 DEF BoardInv, HandOversAreLogged, NoAnswers
<1>10. QED
  BY <1>4, <1>7, <1>8, <1>9 DEF BoardInv

\* A push is sent once the stamp was claimed, and it is claimed once.
LEMMA AnnounceKeeps ==
  ASSUME BoardInv, NEW l \in Leads, Announce(l)
  PROVE  BoardInv'
<1>1. /\ notice[l].queued > 0
      /\ UNCHANGED <<lead, route, log, stamp, clock, active, deciding, req, intake>>
  BY DEF Announce
<1>2. notice \in [Leads -> Notices] /\ notice[l].queued \in Nat /\ notice[l].sent \in Nat
  BY RowsAreTyped DEF BoardInv, Notices
<1>3. PICK note \in Notices : /\ notice' = [notice EXCEPT ![l] = note]
                              /\ note.sent <= 1 /\ (~note.claimed => note.sent = 0)
  <2>1. /\ notice[l].sent <= 1 /\ (~notice[l].claimed => notice[l].sent = 0)
        /\ notice[l].queued - 1 \in Nat
    BY <1>1, <1>2 DEF BoardInv, NoticesHold
  <2>2. CASE ~Claimable(l)
    <3>1. notice' = [notice EXCEPT ![l] = [notice[l] EXCEPT !.queued = notice[l].queued - 1]]
      BY <2>2 DEF Announce
    <3> DEFINE note == [notice[l] EXCEPT !.queued = notice[l].queued - 1]
    <3>2. note \in Notices /\ note.sent = notice[l].sent /\ note.claimed = notice[l].claimed
      BY <1>2, <2>1 DEF Notices
    <3> HIDE DEF note
    <3>3. QED
      BY <2>1, <3>1, <3>2 DEF note
  <2>3. CASE Claimable(l)
    <3>1. PICK sent \in {0, 1} :
            notice' = [notice EXCEPT ![l] = [queued |-> notice[l].queued - 1, claimed |-> TRUE,
                                             sent |-> notice[l].sent + sent]]
      BY <2>3 DEF Announce
    <3>2. notice[l].sent = 0
      BY <2>1, <2>3 DEF Claimable
    <3>3. notice[l].sent + sent \in Nat /\ notice[l].sent + sent <= 1 /\ TRUE \in BOOLEAN
      BY <3>2
    <3>4. [queued |-> notice[l].queued - 1, claimed |-> TRUE, sent |-> notice[l].sent + sent] \in Notices
      BY <2>1, <3>3 DEF Notices
    <3>5. QED
      BY <3>1, <3>3, <3>4
  <2>4. QED
    BY <2>2, <2>3
<1>4. TypeOK'
  <2>1. notice' \in [Leads -> Notices]
    BY <1>2, <1>3
  <2>2. QED
    BY <1>1, <2>1, RowsAreTyped DEF BoardInv, Rows, Entries, Actions, Decisions, Asking, Notices, TypeOK
<1>5. NoticesHold'
  BY <1>2, <1>3 DEF BoardInv, NoticesHold
<1>6. RoutesHold' /\ LogsHold' /\ ExpiredMeansTried' /\ active' = active
  BY <1>1 DEF BoardInv, RoutesHold, LogsHold, ExpiredMeansTried
<1>7. RequestsHold' /\ DecisionsHold'
  BY <1>1 DEF BoardInv, RequestsHold, Sound, DecisionsHold
<1>8. HandOversAreLogged'
  BY <1>1 DEF BoardInv, HandOversAreLogged, NoAnswers
<1>9. QED
  BY <1>4, <1>5, <1>6, <1>7, <1>8 DEF BoardInv

LEMMA SetActiveKeeps ==
  ASSUME BoardInv, NEW s \in Sales, SetActive(s)
  PROVE  BoardInv'
<1>1. /\ active' \subseteq Sales /\ Steady \subseteq active'
      /\ UNCHANGED <<lead, route, log, stamp, clock, deciding, req, intake, notice>>
  BY DEF SetActive, BoardInv, TypeOK
<1>2. TypeOK'
  BY <1>1 DEF BoardInv, TypeOK
<1>3. RoutesHold' /\ LogsHold' /\ ExpiredMeansTried' /\ NoticesHold'
  BY <1>1 DEF BoardInv, RoutesHold, LogsHold, ExpiredMeansTried, NoticesHold
<1>4. RequestsHold' /\ DecisionsHold'
  BY <1>1 DEF BoardInv, RequestsHold, Sound, DecisionsHold
<1>5. HandOversAreLogged'
  BY <1>1 DEF BoardInv, HandOversAreLogged, NoAnswers
<1>6. QED
  BY <1>1, <1>2, <1>3, <1>4, <1>5 DEF BoardInv

-------------------------------------------------------------------------------
LEMMA BoardInvHoldsAtFirst == Init => BoardInv
<1> SUFFICES ASSUME Init
             PROVE  BoardInv
  OBVIOUS
<1>1. TypeOK
  <2>1. [status |-> "none", owner |-> Nobody, closed |-> FALSE] \in Rows
    BY Zenon DEF Rows, Statuses
  <2>2. NotDeciding \in Decisions
    BY SMT DEF Decisions, NotDeciding
  <2>3. Idle \in Asking
    BY DEF Asking, Idle, Statuses, Steps
  <2>4. [queued |-> 0, claimed |-> FALSE, sent |-> 0] \in Notices
    BY SMT DEF Notices
  <2>5. QED
    BY <2>1, <2>2, <2>3, <2>4, RowsAreTyped, EmptySeq DEF Init
<1>2. RoutesHold
  BY NothingIsEmpty DEF Init, RoutesHold
<1>3. LogsHold /\ NoticesHold
  BY DEF Init, LogsHold, NoticesHold
<1>4. RequestsHold
  BY DEF Init, RequestsHold, Sound, Idle
<1>5. DecisionsHold
  BY DEF Init, DecisionsHold, NotDeciding
<1>6. HandOversAreLogged /\ ExpiredMeansTried
  BY DEF Init, HandOversAreLogged, NoAnswers, ExpiredMeansTried
<1>7. QED
  BY <1>1, <1>2, <1>3, <1>4, <1>5, <1>6, SteadyAreSales DEF Init, BoardInv

LEMMA BoardInvIsInductive == BoardInv /\ [Next]_vars => BoardInv'
<1> SUFFICES ASSUME BoardInv, [Next]_vars
             PROVE  BoardInv'
  OBVIOUS
<1>1. ASSUME NEW l \in Leads, Decide(l)
      PROVE  BoardInv'
  BY <1>1, CreateKeeps, RouteNewKeeps, LoseIntakeKeeps, CommitKeeps, RollbackKeeps, AnnounceKeeps
     DEF Decide
<1>2. ASSUME NEW r \in Requests, NEW p \in Sales \cup {Admin}, NEW l \in Leads, NEW w \in Asked,
             Arrive(r, p, l, w)
      PROVE  BoardInv'
  BY <1>2, ArriveKeeps
<1>3. ASSUME NEW r \in Requests, Continue(r)
      PROVE  BoardInv'
  BY <1>3, PassOnKeeps, WriteKeeps, WriteLogKeeps, HandOverKeeps, CrmWriteKeeps, DieKeeps DEF Continue
<1>4. ASSUME NEW s \in Sales, SetActive(s)
      PROVE  BoardInv'
  BY <1>4, SetActiveKeeps
<1>5. CASE UNCHANGED vars
  BY <1>5 DEF vars, BoardInv, TypeOK, RoutesHold, LogsHold, RequestsHold, Sound, DecisionsHold,
     NoticesHold, HandOversAreLogged, NoAnswers, ExpiredMeansTried
<1>6. QED
  BY <1>1, <1>2, <1>3, <1>4, <1>5 DEF Next

LEMMA BoardInvHolds == Spec => []BoardInv
BY BoardInvHoldsAtFirst, BoardInvIsInductive, PTL DEF Spec

-------------------------------------------------------------------------------
\* A lead is routed to no broker twice and its owner is the one it was routed to last,
\* for any brokers and any number of leads and requests that decide at once.
THEOREM NobodyIsRoutedTwice == Spec => []RoutedOnceEach
<1>1. BoardInv => RoutedOnceEach
  BY DEF BoardInv, RoutesHold, RoutedOnceEach
<1>2. QED
  BY <1>1, BoardInvHolds, PTL

\* Whoever lost a lead logged a no_answer on it, whatever was rolled back or deactivated.
THEOREM HandOversLeaveATrace == Spec => []HandOversAreLogged
<1>1. BoardInv => HandOversAreLogged
  BY DEF BoardInv
<1>2. QED
  BY <1>1, BoardInvHolds, PTL

\* A lead expires only after every broker who was active all along was tried.
THEOREM ExpiryComesLast == Spec => []ExpiredMeansTried
<1>1. BoardInv => ExpiredMeansTried
  BY DEF BoardInv
<1>2. QED
  BY <1>1, BoardInvHolds, PTL

\* The customer gets at most one call-started push for a lead, however many requests
\* and tasks say that it was called.
THEOREM CallsAreAnnouncedOnce == Spec => []CallIsAnnouncedOnce
<1>1. BoardInv => CallIsAnnouncedOnce
  BY DEF BoardInv, NoticesHold, CallIsAnnouncedOnce
<1>2. QED
  BY <1>1, BoardInvHolds, PTL

\* A request whose broker lost the lead after the read writes nothing and logs nothing.
THEOREM FormerOwnersStayInert == Spec => FormerOwnersAreInert
<1>1. BoardInv /\ [Next]_vars =>
        [\A r \in Requests :
            /\ req[r].step \in {"go", "crm"}
            /\ req'[r].step \in {"log", "done"}
            => req[r].by \in {lead[req[r].lead].owner, Admin}]_vars
  <2> SUFFICES ASSUME BoardInv, Next, NEW r \in Requests,
                      req[r].step \in {"go", "crm"}, req'[r].step \in {"log", "done"}
               PROVE  req[r].by \in {lead[req[r].lead].owner, Admin}
    OBVIOUS
  <2>0. req \in [Requests -> Asking]
    BY RowsAreTyped DEF BoardInv
  <2>1. ASSUME NEW l \in Leads, Decide(l)
        PROVE  req[r].by = lead[req[r].lead].owner
    <3>1. CASE Commit(l) \/ Rollback(l)
      <4>1. /\ Locked(l) /\ \E step \in {"done", "dead"} : req' = Finish(deciding[l].by, step)
        BY <3>1 DEF Commit, Rollback
      <4>2. deciding[l].by = r
        BY <2>0, <4>1 DEF Finish
      <4>3. QED
        BY <4>1, <4>2, NobodyIsNoRequest DEF BoardInv, DecisionsHold, Locked
    <3>2. CASE ~(Commit(l) \/ Rollback(l))
      BY <2>1, <3>2 DEF Decide, Create, RouteNew, LoseIntake, Announce
    <3>3. QED
      BY <3>1, <3>2
  <2>2. ASSUME NEW s \in Requests, NEW p \in Sales \cup {Admin}, NEW l \in Leads, NEW w \in Asked,
               Arrive(s, p, l, w)
        PROVE  FALSE
    BY <2>0, <2>2 DEF Arrive, Act, PatchCalled, Crm, CallStarted, Took
  <2>3. ASSUME NEW s \in Requests, Continue(s)
        PROVE  req[r].by \in {lead[req[r].lead].owner, Admin}
    <3>1. CASE s # r
      BY <2>0, <2>3, <3>1 DEF Continue, PassOn, Took, Write, WriteLog, HandOver, CrmWrite, Die
    <3>2. CASE s = r
      <4>1. req'[r].step \notin {"refused", "dead", "go"}
        OBVIOUS
      <4>2. CASE Write(r)
        <5>1. CASE Owned(r)
          BY <5>1 DEF Owned
        <5>2. CASE ~Owned(r)
          BY <2>0, <4>1, <4>2, <5>2 DEF Write, Asking
        <5>3. QED
          BY <5>1, <5>2
      <4>3. CASE CrmWrite(r)
        <5>1. CASE req[r].by = Admin \/ Owned(r)
          BY <5>1 DEF Owned
        <5>2. CASE ~(req[r].by = Admin \/ Owned(r))
          BY <2>0, <4>1, <4>3, <5>2 DEF CrmWrite, Asking
        <5>3. QED
          BY <5>1, <5>2
      <4>4. CASE HandOver(r)
        BY <2>0, <4>1, <4>4 DEF HandOver, Asking, Begin
      <4>5. CASE Die(r)
        BY <2>0, <4>1, <4>5 DEF Die, Asking
      <4>6. CASE PassOn(r) \/ WriteLog(r)
        BY <4>6 DEF PassOn, WriteLog
      <4>7. QED
        BY <2>3, <3>2, <4>2, <4>3, <4>4, <4>5, <4>6 DEF Continue
    <3>3. QED
      BY <3>1, <3>2
  <2>4. ASSUME NEW s \in Sales, SetActive(s)
        PROVE  FALSE
    BY <2>4 DEF SetActive
  <2>5. QED
    BY <2>1, <2>2, <2>3, <2>4 DEF Next
<1>2. QED
  BY <1>1, BoardInvHolds, PTL DEF Spec, FormerOwnersAreInert

-------------------------------------------------------------------------------
(***************************************************************************)
(* The board implements LeadCustody.                                       *)
(***************************************************************************)

\* The brokers who had the lead are those it was routed to.
LEMMA HadIsTheRoute ==
  ASSUME BoardInv, NEW l \in Leads
  PROVE  /\ NoAnswers(l) \cup ({OwnerOf(l)} \ {Nobody}) = Range(route[l])
         /\ OwnerOf(l) = Nobody <=> route[l] = <<>>
<1>1. route[l] \in Seq(Sales) /\ NoAnswers(l) \subseteq Range(route[l])
      /\ OwnerOf(l) = IF route[l] = <<>> THEN Nobody ELSE Last(route[l])
  BY RowsAreTyped DEF BoardInv, HandOversAreLogged, RoutesHold, OwnerOf
<1>2. CASE route[l] = <<>>
  BY <1>1, <1>2, NothingIsEmpty
<1>3. CASE route[l] # <<>>
  <2>1. /\ Last(route[l]) \in Sales /\ Last(route[l]) \in Range(route[l])
        /\ Range(route[l]) \subseteq Range(Front(route[l])) \cup {Last(route[l])}
    BY <1>1, <1>3, RouteSplits
  <2>2. Range(Front(route[l])) \subseteq NoAnswers(l)
    BY <1>3 DEF BoardInv, HandOversAreLogged
  <2>3. QED
    BY <1>1, <1>3, <2>1, <2>2, AdminIsNoBroker
<1>4. QED
  BY <1>2, <1>3

\* A commit records every broker who had the lead until then.
LEMMA CommitRecords ==
  ASSUME BoardInv, NEW l \in Leads, Commit(l)
  PROVE  /\ NoAnswers(l)' = Range(route[l])
         /\ deciding[l].next # Nobody => (RanOut(l)' <=> RanOut(l))
         /\ deciding[l].next = Nobody => RanOut(l)'
         /\ \A k \in Leads \ {l} : log'[k] = log[k]
<1>1. /\ Locked(l) /\ route[l] \in Seq(Sales) /\ log \in [Leads -> SUBSET Entries]
      /\ log' = [log EXCEPT ![l] = log[l] \cup Gained(l)]
  BY RowsAreTyped DEF BoardInv, Commit, Routed, Gained
<1>2. log'[l] = log[l] \cup Gained(l) /\ \A k \in Leads \ {l} : log'[k] = log[k]
  BY <1>1
<1>3. NoAnswers(l)' \subseteq Range(route[l])
  <2>1. \A e \in Gained(l) : e.action = "no_answer" => e.sales \in Range(route[l])
    BY <1>1, TraceIsLeft
  <2>2. \A e \in log[l] : e.action = "no_answer" => e.sales \in Range(route[l])
    BY HadIsTheRoute DEF NoAnswers
  <2>3. QED
    BY <1>2, <2>1, <2>2 DEF NoAnswers
<1>4. Range(route[l]) \subseteq NoAnswers(l)'
  <2>1. NoAnswers(l) \subseteq NoAnswers(l)'
    BY <1>2 DEF NoAnswers
  <2>2. OwnerOf(l) # Nobody => OwnerOf(l) \in NoAnswers(l)'
    <3>1. OwnerOf(l) # Nobody => route[l] # <<>> /\ OwnerOf(l) = Last(route[l])
      BY HadIsTheRoute DEF BoardInv, RoutesHold, OwnerOf
    <3>2. route[l] # <<>> => [sales |-> Last(route[l]), action |-> "no_answer"] \in log'[l]
      BY <1>1, <1>2, TraceIsLeft
    <3>3. QED
      BY <3>1, <3>2 DEF NoAnswers
  <2>3. QED
    BY <2>1, <2>2, HadIsTheRoute
<1>5. deciding[l].next # Nobody => [sales |-> Nobody, action |-> "expired"] \notin Gained(l)
  BY DEF Gained, Prelude
<1>6. deciding[l].next = Nobody => [sales |-> Nobody, action |-> "expired"] \in Gained(l)
  BY DEF Gained
<1>7. QED
  BY <1>2, <1>3, <1>4, <1>5, <1>6 DEF RanOut

\* A commit is the one step that concerns custody.
LEMMA CommitIsCustody ==
  ASSUME BoardInv, NEW l \in Leads, Commit(l)
  PROVE  Custody!CustodyNext
<1> DEFINE next == deciding[l].next
<1>1. /\ Locked(l) /\ lead \in [Leads -> Rows] /\ next \in Sales \cup {Nobody}
      /\ next \notin Range(route[l]) /\ (next = Nobody => Steady \subseteq Range(route[l]))
  BY RowsAreTyped DEF BoardInv, Commit, Locked, DecisionsHold, Decisions
<1>2. /\ OwnerOf(l)' = IF next = Nobody THEN OwnerOf(l) ELSE next
      /\ \A k \in Leads \ {l} : OwnerOf(k)' = OwnerOf(k)
  BY <1>1 DEF Commit, Routed, OwnerOf, Rows
<1>3. /\ NoAnswers(l)' = Range(route[l])
      /\ \A k \in Leads \ {l} : NoAnswers(k)' = NoAnswers(k) /\ (RanOut(k)' <=> RanOut(k))
  BY CommitRecords DEF NoAnswers, RanOut
<1>4. Custody!Had(l) = Range(route[l])
  BY HadIsTheRoute DEF Custody!Had
<1>5. [k \in Leads |-> NoAnswers(k)]' = [[k \in Leads |-> NoAnswers(k)] EXCEPT ![l] = Custody!Had(l)]
  BY <1>3, <1>4
<1> HIDE DEF next
<1>6. CASE next = Nobody
  <2>1. {k \in Leads : RanOut(k)}' = {k \in Leads : RanOut(k)} \cup {l}
    BY <1>3, <1>6, CommitRecords DEF next
  <2>2. [k \in Leads |-> OwnerOf(k)]' = [k \in Leads |-> OwnerOf(k)]
    BY <1>2, <1>6
  <2>3. Custody!Exhaust(l)
    BY <1>1, <1>4, <1>5, <1>6, <2>1, <2>2 DEF Custody!Exhaust
  <2>4. QED
    BY <2>3 DEF Custody!CustodyNext
<1>7. CASE next # Nobody
  <2>1. {k \in Leads : RanOut(k)}' = {k \in Leads : RanOut(k)}
    BY <1>3, <1>7, CommitRecords DEF next
  <2>2. [k \in Leads |-> OwnerOf(k)]' = [[k \in Leads |-> OwnerOf(k)] EXCEPT ![l] = next]
    BY <1>2, <1>7
  <2>3. next \in Sales
    BY <1>1, <1>7
  <2>4. CASE OwnerOf(l) = Nobody
    <3>1. Range(route[l]) = {} /\ NoAnswers(l) = {}
      BY <2>4, HadIsTheRoute, NothingIsEmpty
    <3>2. [k \in Leads |-> NoAnswers(k)]' = [k \in Leads |-> NoAnswers(k)]
      BY <1>3, <3>1
    <3>3. Custody!Offer(l, next)
      BY <1>4, <2>1, <2>2, <3>1, <3>2 DEF Custody!Offer
    <3>4. QED
      BY <2>3, <3>3 DEF Custody!CustodyNext
  <2>5. CASE OwnerOf(l) # Nobody
    <3>1. Custody!PassOver(l, next)
      BY <1>1, <1>4, <1>5, <2>1, <2>2, <2>5 DEF Custody!PassOver
    <3>2. QED
      BY <2>3, <3>1 DEF Custody!CustodyNext
  <2>6. QED
    BY <2>4, <2>5
<1>8. QED
  BY <1>6, <1>7

LEMMA CustodyStays ==
  ASSUME \A k \in Leads : OwnerOf(k)' = OwnerOf(k) /\ NoAnswers(k)' = NoAnswers(k),
         \A k \in Leads : RanOut(k)' <=> RanOut(k)
  PROVE  UNCHANGED Custody!custodyVars
<1>1. [l \in Leads |-> OwnerOf(l)]' = [l \in Leads |-> OwnerOf(l)]
  OBVIOUS
<1>2. [l \in Leads |-> NoAnswers(l)]' = [l \in Leads |-> NoAnswers(l)]
  OBVIOUS
<1>3. {l \in Leads : RanOut(l)}' = {l \in Leads : RanOut(l)}
  OBVIOUS
<1>4. QED
  BY <1>1, <1>2, <1>3 DEF Custody!custodyVars

\* A request writes the status of a lead, and logs neither a no_answer nor that
\* a lead ran out: no_answer is written by a routing decision.
LEMMA RequestsLeaveCustody ==
  ASSUME BoardInv, NEW r \in Requests, Continue(r)
  PROVE  UNCHANGED Custody!custodyVars
<1>1. lead \in [Leads -> Rows] /\ log \in [Leads -> SUBSET Entries] /\ Sound(req[r])
  BY RowsAreTyped DEF BoardInv, RequestsHold
<1>2. CASE Write(r) \/ CrmWrite(r)
  <2>1. log' = log
    BY <1>2 DEF Write, CrmWrite
  <2>2. \A k \in Leads : OwnerOf(k)' = OwnerOf(k)
    BY <1>1, <1>2 DEF Write, CrmWrite, OwnerOf, Rows
  <2>3. QED
    BY <2>1, <2>2, CustodyStays DEF NoAnswers, RanOut
<1>3. CASE WriteLog(r)
  <2>1. PICK e : /\ e \in [sales : {req[r].by}, action : BoardActions \cup {"call"}]
                 /\ e.action \notin {"no_answer", "expired"}
                 /\ log' = [log EXCEPT ![req[r].lead] = log[req[r].lead] \cup {e}]
    <3>1. PICK a : a = IF req[r].what[2] = "called" THEN "call" ELSE req[r].what[2]
      OBVIOUS
    <3>2. log' = [log EXCEPT ![req[r].lead] = log[req[r].lead] \cup {[sales |-> req[r].by, action |-> a]}]
      BY <1>3, <3>1 DEF WriteLog
    <3>3. req[r].what[2] \in BoardActions /\ req[r].what[2] # "no_answer"
      BY <1>1, <1>3 DEF WriteLog, Sound
    <3>4. a \in BoardActions \cup {"call"} /\ a \notin {"no_answer", "expired"}
      BY <3>1, <3>3 DEF BoardActions
    <3>5. QED
      BY <3>2, <3>4
  <2>2. ASSUME NEW k \in Leads
        PROVE  NoAnswers(k)' = NoAnswers(k) /\ (RanOut(k)' <=> RanOut(k))
    <3>1. log'[k] = log[k] \/ log'[k] = log[k] \cup {e}
      BY <1>1, <2>1
    <3>2. QED
      BY <2>1, <3>1 DEF NoAnswers, RanOut
  <2>3. lead' = lead
    BY <1>3 DEF WriteLog
  <2>4. QED
    BY <2>2, <2>3, CustodyStays DEF OwnerOf
<1>4. CASE PassOn(r) \/ HandOver(r) \/ Die(r)
  <2>1. lead' = lead /\ log' = log
    BY <1>4 DEF PassOn, HandOver, Die
  <2>2. QED
    BY <2>1, CustodyStays DEF OwnerOf, NoAnswers, RanOut
<1>5. QED
  BY <1>2, <1>3, <1>4 DEF Continue

\* A lead changes hands only with its holder, in one step with the trace of it, to
\* a broker who never held it: every step of the board is a step of the custody, or
\* none of it, for any leads, brokers, priorities and requests.
THEOREM CustodyIsImplemented == Spec => ImplementsCustody
<1>1. Init => Custody!CustodyInit
  BY DEF Init, Custody!CustodyInit, OwnerOf, NoAnswers, RanOut
<1>2. BoardInv /\ [Next]_vars => [Custody!CustodyNext]_(Custody!custodyVars)
  <2> SUFFICES ASSUME BoardInv, [Next]_vars
               PROVE  Custody!CustodyNext \/ UNCHANGED Custody!custodyVars
    OBVIOUS
  <2>1. ASSUME NEW l \in Leads, Decide(l)
        PROVE  Custody!CustodyNext \/ UNCHANGED Custody!custodyVars
    <3>1. CASE Commit(l)
      BY <3>1, CommitIsCustody
    <3>2. CASE Create(l)
      <4>1. log' = log /\ \A k \in Leads : OwnerOf(k)' = OwnerOf(k)
        BY <3>2, RowsAreTyped DEF BoardInv, Create, OwnerOf, Rows
      <4>2. QED
        BY <4>1, CustodyStays DEF NoAnswers, RanOut
    <3>3. CASE RouteNew(l) \/ LoseIntake(l) \/ Rollback(l) \/ Announce(l)
      <4>1. lead' = lead /\ log' = log
        BY <3>3 DEF RouteNew, LoseIntake, Rollback, Announce
      <4>2. QED
        BY <4>1, CustodyStays DEF OwnerOf, NoAnswers, RanOut
    <3>4. QED
      BY <2>1, <3>1, <3>2, <3>3 DEF Decide
  <2>2. ASSUME NEW r \in Requests, NEW p \in Sales \cup {Admin}, NEW l \in Leads, NEW w \in Asked,
               Arrive(r, p, l, w)
        PROVE  UNCHANGED Custody!custodyVars
    <3>1. lead' = lead /\ log' = log
      BY <2>2 DEF Arrive, Act, PatchCalled, Crm, CallStarted
    <3>2. QED
      BY <3>1, CustodyStays DEF OwnerOf, NoAnswers, RanOut
  <2>3. ASSUME NEW r \in Requests, Continue(r)
        PROVE  UNCHANGED Custody!custodyVars
    BY <2>3, RequestsLeaveCustody
  <2>4. CASE (\E s \in Sales : SetActive(s)) \/ UNCHANGED vars
    <3>1. lead' = lead /\ log' = log
      BY <2>4 DEF SetActive, vars
    <3>2. QED
      BY <3>1, CustodyStays DEF OwnerOf, NoAnswers, RanOut
  <2>5. QED
    BY <2>1, <2>2, <2>3, <2>4 DEF Next
<1>3. QED
  BY <1>1, <1>2, BoardInvHolds, PTL DEF Spec, ImplementsCustody, Custody!CustodySpec

\* A broker who logged a no_answer on a lead and still owns it owns a lead that ran
\* out of brokers.  The custody keeps this by itself, so whatever implements it does.
THEOREM WhoGaveUpHoldsNoLead == Spec => []Custody!HolderWants
<1>1. Init => Custody!HolderWants
  BY DEF Init, Custody!HolderWants, NoAnswers
<1>2. ASSUME Custody!HolderWants, Custody!CustodyNext
      PROVE  Custody!HolderWants'
  <2>1. ASSUME NEW l \in Leads, NEW s \in Sales, Custody!Offer(l, s)
        PROVE  Custody!HolderWants'
    BY <1>2, <2>1 DEF Custody!HolderWants, Custody!Offer, Custody!Had
  <2>2. ASSUME NEW l \in Leads, NEW s \in Sales, Custody!PassOver(l, s)
        PROVE  Custody!HolderWants'
    BY <1>2, <2>2 DEF Custody!HolderWants, Custody!PassOver, Custody!Had
  <2>3. ASSUME NEW l \in Leads, Custody!Exhaust(l)
        PROVE  Custody!HolderWants'
    BY <1>2, <2>3 DEF Custody!HolderWants, Custody!Exhaust
  <2>4. QED
    BY <1>2, <2>1, <2>2, <2>3 DEF Custody!CustodyNext
<1>3. ASSUME Custody!HolderWants, UNCHANGED Custody!custodyVars
      PROVE  Custody!HolderWants'
  BY <1>3 DEF Custody!HolderWants, Custody!custodyVars
<1>4. QED
  BY <1>1, <1>2, <1>3, CustodyIsImplemented, PTL DEF Spec, ImplementsCustody, Custody!CustodySpec
===============================================================================
