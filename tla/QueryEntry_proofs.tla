--------------------------- MODULE QueryEntry_proofs ---------------------------
(***************************************************************************)
(* Theorems about a request of POST /query, for any number of events, any  *)
(* number of windows and all limits: who is answered has paid, who is      *)
(* refused or failed has not, the teardown of a stream settles, and what   *)
(* the client was sent is the whole answer.  And about the conversation    *)
(* the question is part of, for any turns, callers and capacity: a phone   *)
(* is kept and asked for sparingly.                                        *)
(***************************************************************************)
EXTENDS QueryEntry, Conversation, SequenceTheorems, FiniteSetTheorems, WellFoundedInduction, TLAPS

-------------------------------------------------------------------------------
(***************************************************************************)
(* Events and frames in a sequence.                                        *)
(***************************************************************************)

Holds(s, e) == \E i \in 1..Len(s) : s[i] = e
Shows(s, kind) == \E i \in 1..Len(s) : s[i].kind = kind

Frames == [kind : FrameKinds, n : Nat]
Events == Emitted \cup Terminals

\* An appended event is held besides those before it.
LEMMA AppendHolds ==
  ASSUME NEW s \in Seq(Events), NEW x \in Events
  PROVE  /\ Append(s, x) \in Seq(Events)
         /\ \A e : Holds(Append(s, x), e) => Holds(s, e) \/ e = x
<1>1. /\ Append(s, x) \in Seq(Events) /\ Len(Append(s, x)) = Len(s) + 1
      /\ \A i \in 1..Len(s) : Append(s, x)[i] = s[i]
      /\ Append(s, x)[Len(s) + 1] = x
  OBVIOUS
<1>2. QED
  BY <1>1, LenProperties DEF Holds

\* An appended frame shows its kind besides those before it.
LEMMA AppendShows ==
  ASSUME NEW s \in Seq(Frames), NEW f \in Frames
  PROVE  /\ Append(s, f) \in Seq(Frames)
         /\ \A kind : Shows(Append(s, f), kind) => Shows(s, kind) \/ kind = f.kind
<1>1. /\ Append(s, f) \in Seq(Frames) /\ Len(Append(s, f)) = Len(s) + 1
      /\ \A i \in 1..Len(s) : Append(s, f)[i] = s[i]
      /\ Append(s, f)[Len(s) + 1] = f
  OBVIOUS
<1>2. QED
  BY <1>1, LenProperties DEF Shows

\* The head of a queue was in it, and its tail holds no more than it.
LEMMA HeadAndTailHold ==
  ASSUME NEW s \in Seq(Events), s # <<>>
  PROVE  /\ Head(s) \in Events /\ Holds(s, Head(s))
         /\ Tail(s) \in Seq(Events)
         /\ \A e : Holds(Tail(s), e) => Holds(s, e)
<1>1. /\ Head(s) \in Events /\ Tail(s) \in Seq(Events) /\ Len(Tail(s)) = Len(s) - 1
      /\ \A i \in 1..Len(s) - 1 : Tail(s)[i] = s[i + 1]
  BY HeadTailProperties
<1>2. Len(s) \in Nat /\ Len(s) >= 1 /\ Head(s) = s[1]
  BY EmptySeq
<1>3. QED
  BY <1>1, <1>2 DEF Holds

\* Nothing is held or shown by the empty sequence.
LEMMA EmptyHolds == \A e : ~Holds(<<>>, e) /\ ~Shows(<<>>, e)
BY DEF Holds, Shows

-------------------------------------------------------------------------------
(***************************************************************************)
(* The invariant of the stream.                                            *)
(***************************************************************************)

StreamTypes ==
  /\ pipe \in {"idle", "work", "finalize", "finalized", "refund", "refunded", "ended"}
  /\ end \in Terminals \cup {"none"}
  /\ gen \in {"none", "ack", "loop", "closing", "refund", "refunded", "closed"}
  /\ res \in {"none", "held", "charged", "released"}
  /\ {conn, cancelled, scoped, released, fault} \subseteq BOOLEAN
  /\ queue \in Seq(Events)
  /\ sent \in Seq(Frames)
  /\ buffer \in Nat

\* Before the ack nothing has happened; after it the task has begun.
Beginning ==
  /\ gen \in {"none", "ack"} =>
        /\ pipe = "idle" /\ sent = <<>> /\ queue = <<>> /\ buffer = 0
        /\ ~released /\ ~cancelled
  /\ gen = "ack" => res \in {"none", "held"}

\* What the task is about to report is what it asked the store for.
Asking ==
  /\ pipe \in {"finalize", "finalized"} => end = "__done__"
  /\ pipe \in {"refund", "refunded"} => end \in {"__rejected__", "__crashed__"}

\* The turn is as the terminal event says, unless the store failed.
Agrees(event) ==
  IF event = "__done__" THEN res \in {"none", "charged"} \/ (fault /\ res = "held")
                        ELSE res \in {"none", "released"} \/ fault

\* While the generator forwards, the task alone settles; a terminal event is
\* queued after that.
Forwarding ==
  gen = "loop" =>
     /\ ~cancelled
     /\ pipe \in {"work", "finalize", "refund"} => res \in {"none", "held"}
     /\ pipe = "finalized" => res \in {"none", "charged"}
     /\ pipe = "refunded" => res \in {"none", "released"}
     /\ pipe # "ended" => ~released /\ \A e \in Terminals : ~Holds(queue, e)
     /\ \A e \in Terminals : Holds(queue, e) => released /\ Agrees(e)

FrameOf(event) ==
  CASE event = "__done__" -> "answer" [] event = "__rejected__" -> "rejected" [] OTHER -> "internal"

\* Once a terminal frame was sent, nothing touches the turn any more.
Told ==
  \A e \in Terminals : Shows(sent, FrameOf(e)) =>
     gen \in {"closing", "closed"} /\ pipe = "ended" /\ released /\ Agrees(e)

\* A turn whose flag is up was settled, unless the store failed.
Settling ==
  /\ pipe \in {"finalized", "refunded"} => res # "held"
  /\ gen = "refunded" => res # "held"
  /\ released /\ ~fault => res # "held"
  /\ gen = "closed" /\ Shows(sent, "ack") /\ ~scoped => released

StreamInv ==
  StreamTypes /\ Beginning /\ Asking /\ Forwarding /\ Told /\ Settling

-------------------------------------------------------------------------------
(***************************************************************************)
(* Every step of the stream keeps it.                                      *)
(***************************************************************************)

\* Settling a turn leaves it settled.
LEMMA SettledIsSettled ==
  ASSUME StreamTypes, NEW r \in {"charged", "released"}
  PROVE  Settled(r) \in {"none", "charged", "released"} /\ (res = "none" => Settled(r) = "none")
BY DEF Settled, StreamTypes

\* The steps of the task.
LEMMA PipeKeepsStream ==
  ASSUME StreamInv, gen # "none", RunPipe
  PROVE  StreamInv'
<1> USE DEF Events, Emitted, Terminals
<1>1. ASSUME NEW event \in Emitted, Emit(event)
      PROVE  StreamInv'
  <2>1. queue' \in Seq(Events) /\ \A e : Holds(queue', e) => Holds(queue, e) \/ e = event
    BY <1>1, AppendHolds DEF Emit, StreamInv, StreamTypes
  <2>2. UNCHANGED <<conn, late, pipe, end, gen, buffer, sent, cancelled, scoped, released, res, fault>>
    BY <1>1 DEF Emit, genVars
  <2>3. pipe = "work"
    BY <1>1 DEF Emit
  <2>4. QED
    BY <2>1, <2>2, <2>3 DEF StreamInv, StreamTypes, Beginning, Asking, Forwarding, Told, Settling, Agrees
<1>2. CASE Succeed
  <2>1. queue' \in Seq(Events) /\ \A e : Holds(queue', e) => Holds(queue, e) \/ (e = "__done__" /\ released)
    BY <1>2, AppendHolds DEF Succeed, Report, StreamInv, StreamTypes
  <2>2. /\ UNCHANGED <<conn, late, gen, buffer, sent, cancelled, scoped, released, res, fault>>
        /\ pipe = "work" /\ end' = "__done__" /\ pipe' = (IF released THEN "ended" ELSE "finalize")
    BY <1>2 DEF Succeed, genVars, Report
  <2>3. QED
    BY <2>1, <2>2 DEF StreamInv, StreamTypes, Beginning, Asking, Forwarding, Told, Settling, Agrees
<1>3. ASSUME NEW event \in {"__rejected__", "__crashed__"}, Fail(event)
      PROVE  StreamInv'
  <2>1. queue' \in Seq(Events) /\ \A e : Holds(queue', e) => Holds(queue, e) \/ (e = event /\ released)
    BY <1>3, AppendHolds DEF Fail, Report, StreamInv, StreamTypes
  <2>2. /\ UNCHANGED <<conn, late, gen, buffer, sent, cancelled, scoped, released, res, fault>>
        /\ pipe = "work" /\ end' = event /\ pipe' = (IF released THEN "ended" ELSE "refund")
    BY <1>3 DEF Fail, genVars, Report
  <2>3. QED
    BY <2>1, <2>2 DEF StreamInv, StreamTypes, Beginning, Asking, Forwarding, Told, Settling, Agrees
<1>4. CASE CommitFinalize
  BY <1>4, SettledIsSettled DEF CommitFinalize, genVars, StreamInv, StreamTypes, Beginning, Asking,
     Forwarding, Told, Settling, Agrees, Settled
<1>5. CASE CommitRefund
  BY <1>5, SettledIsSettled DEF CommitRefund, genVars, StreamInv, StreamTypes, Beginning, Asking,
     Forwarding, Told, Settling, Agrees, Settled
<1>6. CASE Return
  <2>1. /\ end \in Terminals /\ queue' \in Seq(Events)
        /\ \A e : Holds(queue', e) => Holds(queue, e) \/ e = end
    BY <1>6, AppendHolds DEF Return, Report, StreamInv, StreamTypes, Asking
  <2>2. /\ UNCHANGED <<conn, late, end, gen, buffer, sent, cancelled, scoped, res, fault>>
        /\ pipe \in {"finalized", "refunded"} /\ pipe' = "ended" /\ released'
    BY <1>6 DEF Return, genVars, Report
  <2>3. QED
    BY <2>1, <2>2 DEF StreamInv, StreamTypes, Beginning, Asking, Forwarding, Told, Settling, Agrees
<1>7. CASE StoreFails
  <2>1. /\ end \in Terminals /\ queue' \in Seq(Events)
        /\ \A e : Holds(queue', e) => Holds(queue, e) \/ e = end
    BY <1>7, AppendHolds DEF StoreFails, Report, StreamInv, StreamTypes, Asking
  <2>2. /\ UNCHANGED <<conn, late, end, gen, buffer, sent, cancelled, scoped, res>>
        /\ pipe \in {"finalize", "refund"} /\ pipe' = "ended" /\ released' /\ fault'
    BY <1>7 DEF StoreFails, genVars, Report
  <2>3. QED
    BY <2>1, <2>2 DEF StreamInv, StreamTypes, Beginning, Asking, Forwarding, Told, Settling, Agrees
<1>8. CASE CancelTask
  BY <1>8 DEF CancelTask, genVars, StreamInv, StreamTypes, Beginning, Asking, Forwarding, Told,
     Settling, Agrees
<1>9. QED
  BY <1>1, <1>2, <1>3, <1>4, <1>5, <1>6, <1>7, <1>8 DEF RunPipe

\* What is flushed are frames, none of which ends the stream or is an ack.
LEMMA FlushedShows ==
  ASSUME StreamTypes
  PROVE  /\ Flushed \in Seq(Frames)
         /\ \A kind : Shows(Flushed, kind) => Shows(sent, kind) \/ kind = "token"
<1>1. Frame("token", buffer) \in Frames /\ Frame("token", buffer).kind = "token"
  BY DEF StreamTypes, Frames, Frame, FrameKinds
<1>2. QED
  BY <1>1, AppendShows DEF Flushed, StreamTypes

\* A frame that is sent after the flush.
LEMMA FlushThenShows ==
  ASSUME StreamTypes, NEW f \in Frames
  PROVE  /\ Append(Flushed, f) \in Seq(Frames)
         /\ \A kind : Shows(Append(Flushed, f), kind) => Shows(sent, kind) \/ kind \in {"token", f.kind}
BY FlushedShows, AppendShows

\* The frame of an event.
LEMMA TerminalFrameIsFrame ==
  ASSUME NEW event
  PROVE  /\ TerminalFrame(event) \in Frames
         /\ TerminalFrame(event).kind = (CASE event = "__done__" -> "answer"
              [] event = "__rejected__" -> "rejected" [] event = "__crashed__" -> "internal"
              [] OTHER -> "timeout")
BY DEF TerminalFrame, Frames, Frame, FrameKinds

\* Leaving the loop with a last frame that agrees with the turn.
LEMMA LeavingKeepsStream ==
  ASSUME StreamInv, gen = "loop", gen' = "closing",
         UNCHANGED <<pipe, end, res, fault, conn, scoped, released>>, cancelled' \in BOOLEAN,
         queue' \in Seq(Events), sent' \in Seq(Frames), buffer' \in Nat,
         \A e \in Terminals : Shows(sent', FrameOf(e)) => Shows(sent, FrameOf(e)) \/ Holds(queue, e)
  PROVE  StreamInv'
<1>1. \A e \in Terminals : Holds(queue, e) => pipe = "ended" /\ released /\ Agrees(e)
  BY DEF StreamInv, Forwarding
<1>2. \A e \in Terminals : Agrees(e) => Agrees(e)'
  BY DEF Agrees
<1>3. Told'
  BY <1>1, <1>2 DEF Told, StreamInv
<1>4. QED
  BY <1>3 DEF StreamInv, StreamTypes, Beginning, Asking, Forwarding, Settling

\* The steps of the generator.
LEMMA GenerateKeepsStream ==
  ASSUME StreamInv, gen # "none", Generate
  PROVE  StreamInv'
<1> USE DEF Emitted, Terminals
<1>0. StreamTypes /\ queue \in Seq(Events) /\ sent \in Seq(Frames) /\ buffer \in Nat
  BY DEF StreamInv, StreamTypes
<1>1. CASE Ack
  <2>1. Frame("ack", 0) \in Frames /\ sent' = <<Frame("ack", 0)>> /\ Frame("ack", 0).kind = "ack"
    BY <1>1 DEF Ack, Frame, Frames, FrameKinds
  <2>2. sent' \in Seq(Frames) /\ \A kind : Shows(sent', kind) => kind = "ack"
    BY <2>1 DEF Shows
  <2>3. \A e : ~Holds(queue, e)
    BY <1>1, EmptyHolds DEF Ack, StreamInv, Beginning
  <2>4. QED
    BY <1>1, <2>2, <2>3 DEF Ack, StreamInv, StreamTypes, Beginning, Asking, Forwarding, Told,
       Settling, FrameOf
<1>2. CASE CloseAtAck
  <2>1. \A kind : ~Shows(sent, kind)
    BY <1>2, EmptyHolds DEF CloseAtAck, StreamInv, Beginning
  <2>2. QED
    BY <1>2, <2>1 DEF CloseAtAck, pipeVars, StreamInv, StreamTypes, Beginning, Asking, Forwarding,
       Told, Settling
<1>3. CASE TakeToken
  <2>1. queue' \in Seq(Events) /\ \A e : Holds(queue', e) => Holds(queue, e)
    BY <1>0, <1>3, HeadAndTailHold DEF TakeToken
  <2>2. /\ Frame("token", buffer + 1) \in Frames /\ Frame("token", buffer + 1).kind = "token"
    BY <1>0 DEF Frame, Frames, FrameKinds
  <2>3. sent' \in Seq(Frames) /\ \A kind : Shows(sent', kind) => Shows(sent, kind) \/ kind = "token"
    BY <1>0, <1>3, <2>2, AppendShows DEF TakeToken
  <2>4. /\ UNCHANGED <<conn, pipe, end, res, fault, gen, cancelled, scoped, released>>
        /\ gen = "loop" /\ buffer' \in Nat
    BY <1>0, <1>3 DEF TakeToken, pipeVars
  <2>5. QED
    BY <2>1, <2>3, <2>4 DEF StreamInv, StreamTypes, Beginning, Asking, Forwarding, Told,
       Settling, Agrees, FrameOf
<1>4. CASE TakeMeta
  <2>1. queue' \in Seq(Events) /\ \A e : Holds(queue', e) => Holds(queue, e)
    BY <1>0, <1>4, HeadAndTailHold DEF TakeMeta
  <2>2. Frame("meta", 0) \in Frames /\ Frame("meta", 0).kind = "meta"
    BY DEF Frame, Frames, FrameKinds
  <2>3. sent' \in Seq(Frames) /\ \A kind : Shows(sent', kind) => Shows(sent, kind) \/ kind \in {"token", "meta"}
    BY <1>0, <1>4, <2>2, FlushThenShows DEF TakeMeta
  <2>4. /\ UNCHANGED <<conn, pipe, end, res, fault, gen, cancelled, scoped, released>>
        /\ gen = "loop" /\ buffer' \in Nat
    BY <1>4 DEF TakeMeta, pipeVars
  <2>5. QED
    BY <2>1, <2>3, <2>4 DEF StreamInv, StreamTypes, Beginning, Asking, Forwarding, Told,
       Settling, Agrees, FrameOf
<1>5. CASE TakeTerminal
  <2>1. queue' \in Seq(Events) /\ Holds(queue, Head(queue)) /\ Head(queue) \in Terminals
    BY <1>0, <1>5, HeadAndTailHold DEF TakeTerminal
  <2>2. /\ sent' \in Seq(Frames)
        /\ \A kind : Shows(sent', kind) =>
              Shows(sent, kind) \/ kind \in {"token", TerminalFrame(Head(queue)).kind}
    BY <1>0, <1>5, FlushThenShows, TerminalFrameIsFrame DEF TakeTerminal
  <2>3. \A e \in Terminals : Shows(sent', FrameOf(e)) => Shows(sent, FrameOf(e)) \/ Holds(queue, e)
    BY <2>1, <2>2, TerminalFrameIsFrame DEF FrameOf
  <2>4. /\ UNCHANGED <<conn, pipe, end, res, fault, scoped, released>>
        /\ gen = "loop" /\ gen' = "closing" /\ buffer' \in Nat /\ cancelled' \in BOOLEAN
    BY <1>0, <1>5 DEF TakeTerminal, pipeVars, Leave, StreamTypes
  <2>5. QED
    BY <2>1, <2>2, <2>3, <2>4, LeavingKeepsStream
<1>6. CASE SeeDisconnect
  <2>1. /\ UNCHANGED <<conn, pipe, end, res, fault, scoped, released, queue, sent, buffer>>
        /\ gen = "loop" /\ gen' = "closing" /\ cancelled' \in BOOLEAN
    BY <1>0, <1>6 DEF SeeDisconnect, pipeVars, Leave, StreamTypes
  <2>2. QED
    BY <1>0, <2>1, LeavingKeepsStream
<1>7. CASE SeeDeadline
  <2> DEFINE event == IF queue = <<>> THEN "__timeout__" ELSE Head(queue)
  <2>1. queue' \in Seq(Events) /\ (event \in Terminals => Holds(queue, event))
    BY <1>0, <1>7, HeadAndTailHold DEF SeeDeadline
  <2>2. /\ sent' \in Seq(Frames)
        /\ \A kind : Shows(sent', kind) =>
              Shows(sent, kind) \/ kind \in {"token", TerminalFrame(event).kind}
    BY <1>0, <1>7, FlushThenShows, TerminalFrameIsFrame DEF SeeDeadline
  <2>3. \A e \in Terminals : Shows(sent', FrameOf(e)) => Shows(sent, FrameOf(e)) \/ Holds(queue, e)
    <3> HIDE DEF event
    <3>1. QED
      BY <2>1, <2>2, TerminalFrameIsFrame DEF FrameOf
  <2>4. /\ UNCHANGED <<conn, pipe, end, res, fault, scoped, released>>
        /\ gen = "loop" /\ gen' = "closing" /\ buffer' \in Nat /\ cancelled' \in BOOLEAN
    BY <1>0, <1>7 DEF SeeDeadline, pipeVars, Leave, StreamTypes
  <2>5. QED
    BY <2>1, <2>2, <2>3, <2>4, LeavingKeepsStream
<1>8. CASE StopWaiting
  BY <1>8 DEF StopWaiting, pipeVars, StreamInv, StreamTypes, Beginning, Asking, Forwarding, Told,
     Settling, Agrees
<1>9. CASE TeardownCommit
  BY <1>9, SettledIsSettled DEF TeardownCommit, StreamInv, StreamTypes, Beginning, Asking,
     Forwarding, Told, Settling, Settled
<1>10. CASE TeardownReturn
  BY <1>10 DEF TeardownReturn, pipeVars, StreamInv, StreamTypes, Beginning, Asking, Forwarding,
     Told, Settling, Agrees
<1>11. CASE TeardownFails
  BY <1>11 DEF TeardownFails, StreamInv, StreamTypes, Beginning, Asking, Forwarding, Told, Settling
<1>12. CASE TeardownCancelled
  BY <1>12 DEF TeardownCancelled, pipeVars, StreamInv, StreamTypes, Beginning, Asking, Forwarding,
     Told, Settling, Agrees
<1>13. QED
  BY <1>1, <1>2, <1>3, <1>4, <1>5, <1>6, <1>7, <1>8, <1>9, <1>10, <1>11, <1>12 DEF Generate

\* What neither the task nor the generator sees changes nothing.
LEMMA UnnoticedKeepsStream ==
  ASSUME StreamInv, conn' \in BOOLEAN,
         UNCHANGED <<gen, pipe, end, res, fault, queue, buffer, sent, released, cancelled, scoped>>
  PROVE  StreamInv'
<1>1. \A e : Agrees(e) <=> Agrees(e)'
  BY DEF Agrees
<1>2. StreamTypes'
  BY DEF StreamInv, StreamTypes
<1>3. Beginning' /\ Asking' /\ Settling'
  BY DEF StreamInv, Beginning, Asking, Settling
<1>4. Forwarding'
  BY <1>1 DEF StreamInv, Forwarding
<1>5. Told'
  BY <1>1 DEF StreamInv, Told
<1>6. QED
  BY <1>2, <1>3, <1>4, <1>5 DEF StreamInv

\* Disconnection, deadline and the cancellation by the server.
LEMMA EnvironmentKeepsStream ==
  ASSUME StreamInv, gen # "none", CancelScope \/ Disconnect \/ DeadlinePasses
  PROVE  StreamInv'
<1>1. CASE CancelScope
  <2>1. /\ gen \in {"loop", "closing", "refund", "refunded"}
        /\ gen' = IF gen = "loop" THEN "closing" ELSE gen
        /\ scoped' = TRUE /\ cancelled' \in {cancelled, TRUE}
        /\ UNCHANGED <<conn, pipe, end, res, fault, queue, buffer, sent, released>>
    BY <1>1 DEF CancelScope, pipeVars
  <2>2. StreamTypes'
    BY <2>1 DEF StreamInv, StreamTypes
  <2>3. Beginning' /\ Asking'
    BY <2>1 DEF StreamInv, Beginning, Asking
  <2>4. Forwarding'
    BY <2>1 DEF Forwarding
  <2>5. Told'
    <3>1. \A e : Agrees(e) => Agrees(e)'
      BY <2>1 DEF Agrees
    <3>2. QED
      BY <2>1, <3>1 DEF StreamInv, Told
  <2>6. Settling'
    BY <2>1 DEF StreamInv, Settling
  <2>7. QED
    BY <2>2, <2>3, <2>4, <2>5, <2>6 DEF StreamInv
<1>2. CASE Disconnect
  <2>1. /\ conn' = FALSE
        /\ UNCHANGED <<gen, pipe, end, res, fault, queue, buffer, sent, released, cancelled, scoped>>
    BY <1>2 DEF Disconnect
  <2>2. QED
    BY <2>1, UnnoticedKeepsStream DEF StreamInv, StreamTypes
<1>3. CASE DeadlinePasses
  <2>1. UNCHANGED <<conn, gen, pipe, end, res, fault, queue, buffer, sent, released, cancelled, scoped>>
    BY <1>3 DEF DeadlinePasses
  <2>2. QED
    BY <2>1, UnnoticedKeepsStream DEF StreamInv, StreamTypes
<1>4. QED
  BY <1>1, <1>2, <1>3

\* No step of the stream ends its life or makes a turn out of none.
LEMMA StreamKeepsStanding ==
  ASSUME StreamTypes, gen # "none", Next
  PROVE  gen' # "none" /\ (res' = "none" <=> res = "none")
<1>1. CASE RunPipe
  BY <1>1 DEF RunPipe, Emit, Succeed, Fail, CommitFinalize, CommitRefund, Return, StoreFails,
     CancelTask, genVars, Settled, StreamTypes
<1>2. CASE Generate
  BY <1>2 DEF Generate, Ack, CloseAtAck, TakeToken, TakeMeta, TakeTerminal, SeeDisconnect,
     SeeDeadline, StopWaiting, TeardownCommit, TeardownReturn, TeardownFails, TeardownCancelled,
     Leave, pipeVars, Settled, StreamTypes
<1>3. CASE CancelScope \/ Disconnect \/ DeadlinePasses
  BY <1>3 DEF CancelScope, Disconnect, DeadlinePasses, pipeVars
<1>4. QED
  BY <1>1, <1>2, <1>3 DEF Next

-------------------------------------------------------------------------------
(***************************************************************************)
(* The invariant of the request.                                           *)
(***************************************************************************)

AtTheGate == {"auth", "preflight", "scope", "role", "window", "mint", "reserve"}
Answering == {"run", "finalize", "refund"}
Steps == AtTheGate \cup Answering \cup {"open", "refused", "stream", "answered", "failed", "cut"}

EntryTypes ==
  entry \in [step : Steps, mode : {"normal", "training"}, bearer : Bearers, token : BOOLEAN,
             sse : BOOLEAN, secret : BOOLEAN, store : BOOLEAN, free : BOOLEAN]

\* No more are let through than are counted, nor than the limit.
WindowsHold ==
  /\ window \in [Kinds -> Nat] /\ admitted \in [Kinds -> Nat]
  /\ \A k \in Kinds : admitted[k] <= window[k] /\ admitted[k] <= Limit[k]

\* The turn at every step of the request.
TurnFits ==
  /\ entry.step = "stream" <=> gen # "none"
  /\ entry.step \in AtTheGate => res = "none" /\ ~fault /\ ~entry.free
  /\ entry.step \in {"open"} \cup Answering => res \in {"none", "held"} /\ ~fault
  /\ entry.step \in {"open", "stream"} \cup Answering => (res = "none" <=> entry.free)
  /\ entry.step = "refused" => res = "none" \/ fault
  /\ entry.step = "answered" => res = (IF entry.free THEN "none" ELSE "charged") \/ fault
  /\ entry.step = "failed" => res \in {"none", "released"} \/ fault

RequestInv == StreamInv /\ EntryTypes /\ WindowsHold /\ TurnFits

\* A request that was not opened as a stream yet says nothing about one.
LEMMA IdleStream ==
  ASSUME StreamInv, gen = "none", UNCHANGED <<conn, pipe, end, queue, sent, buffer, cancelled, scoped, released>>,
         gen' \in {"none", "ack"}, res' \in {"none", "held", "charged", "released"}, fault' \in BOOLEAN,
         gen' = "ack" => res' \in {"none", "held"}
  PROVE  StreamInv'
<1>1. \A e : ~Shows(sent', e)
  BY EmptyHolds DEF StreamInv, Beginning
<1>2. QED
  BY <1>1 DEF StreamInv, StreamTypes, Beginning, Asking, Forwarding, Told, Settling, FrameOf

\* Limits are numbers above zero.
LEMMA LimitIsPositive == \A k \in Kinds : Limit[k] \in Nat \ {0}
BY LimitsArePositive DEF Kinds

\* A request that is counted keeps the windows.
LEMMA CountKeepsWindows ==
  ASSUME WindowsHold, NEW k \in Kinds, Count(k)
  PROVE  WindowsHold'
<1>1. /\ window[k] \in Nat /\ admitted[k] \in Nat /\ Limit[k] \in Nat
      /\ admitted[k] <= window[k] /\ admitted[k] <= Limit[k]
  BY LimitIsPositive DEF WindowsHold
<1> DEFINE w == CountedIn(k)
           a == IF Allowed(k) THEN admitted[k] + 1 ELSE admitted[k]
<1>2. w \in Nat /\ a \in Nat /\ a <= w /\ a <= Limit[k]
  BY <1>1 DEF CountedIn, Allowed
<1>3. /\ window' \in [Kinds -> Nat] /\ admitted' \in [Kinds -> Nat]
      /\ window'[k] = w /\ admitted'[k] = a
      /\ \A j \in Kinds \ {k} : window'[j] = window[j] /\ admitted'[j] = admitted[j]
  BY <1>2 DEF Count, WindowsHold
<1>4. QED
  BY <1>2, <1>3 DEF WindowsHold

\* The windows of the next period are empty.
LEMMA EmptyWindows ==
  ASSUME window' = Empty, admitted' = Empty
  PROVE  WindowsHold'
BY LimitIsPositive DEF Empty, WindowsHold

\* A step of the handler that leaves stream, turn and windows alone.
LEMMA GoingKeepsRequest ==
  ASSUME RequestInv, UNCHANGED <<vars, window, admitted>>, EntryTypes', TurnFits'
  PROVE  RequestInv'
<1>1. StreamInv'
  BY UnnoticedKeepsStream DEF RequestInv, vars, StreamInv, StreamTypes
<1>2. WindowsHold'
  BY DEF RequestInv, WindowsHold
<1>3. QED
  BY <1>1, <1>2 DEF RequestInv

\* A window is checked: the request goes on or is refused.
LEMMA CheckKeepsRequest ==
  ASSUME RequestInv, NEW step \in {"window", "mint"}, NEW k \in Kinds,
         NEW next \in {"mint", "reserve"}, CheckWindow(step, k, next)
  PROVE  RequestInv'
<1>1. UNCHANGED vars /\ entry' \in {[entry EXCEPT !.step = next], [entry EXCEPT !.step = "refused"]}
      /\ entry.step = step
  BY DEF CheckWindow, At
<1>2. EntryTypes'
  BY <1>1 DEF RequestInv, EntryTypes, Steps, AtTheGate
<1>3. TurnFits'
  BY <1>1 DEF RequestInv, EntryTypes, TurnFits, AtTheGate, Answering, vars
<1>4. WindowsHold'
  <2>1. CASE Count(k)
    BY <2>1, CountKeepsWindows DEF RequestInv
  <2>2. CASE window' \in {window, [window EXCEPT ![k] = @ + 1]} /\ admitted' = admitted
    BY <2>2, LimitIsPositive DEF RequestInv, WindowsHold
  <2>3. QED
    BY <2>1, <2>2 DEF CheckWindow
<1>5. StreamInv'
  BY <1>1, UnnoticedKeepsStream DEF RequestInv, vars, StreamInv, StreamTypes
<1>6. QED
  BY <1>2, <1>3, <1>4, <1>5 DEF RequestInv

\* The steps before the gate.
LEMMA BeforeTheGate ==
  ASSUME RequestInv, Authorize \/ Preflight \/ Scope \/ ResolveRole
  PROVE  RequestInv'
<1>1. /\ UNCHANGED <<vars, window, admitted>>
      /\ entry.step \in {"auth", "preflight", "scope", "role"}
      /\ \/ entry' \in {[entry EXCEPT !.step = s] : s \in AtTheGate \cup {"refused"}}
         \/ entry' = [entry EXCEPT !.step = "open", !.free = TRUE]
  <2>1. CASE Authorize
    BY <2>1 DEF Authorize, Goes, At, AtTheGate
  <2>2. CASE Preflight
    BY <2>2 DEF Preflight, Goes, At, AtTheGate
  <2>3. CASE Scope
    BY <2>3 DEF Scope, Goes, At, AtTheGate
  <2>4. CASE ResolveRole
    BY <2>4 DEF ResolveRole, Goes, At, AtTheGate
  <2>5. QED
    BY <2>1, <2>2, <2>3, <2>4
<1>2. EntryTypes'
  <2>1. CASE entry' = [entry EXCEPT !.step = "open", !.free = TRUE]
    BY <2>1 DEF RequestInv, EntryTypes, Steps
  <2>2. ASSUME NEW s \in AtTheGate \cup {"refused"}, entry' = [entry EXCEPT !.step = s]
        PROVE  EntryTypes'
    BY <2>2 DEF RequestInv, EntryTypes, Steps, AtTheGate
  <2>3. QED
    BY <1>1, <2>1, <2>2
<1>3. TurnFits'
  BY <1>1 DEF RequestInv, EntryTypes, TurnFits, AtTheGate, Answering, vars
<1>4. QED
  BY <1>1, <1>2, <1>3, GoingKeepsRequest

\* The turn is reserved, refused, or the store failed.
LEMMA ReserveKeepsRequest ==
  ASSUME RequestInv, Reserve
  PROVE  RequestInv'
<1>1. /\ entry.step = "reserve"
      /\ UNCHANGED <<conn, late, pipe, end, queue, genVars, released, emitted, window, admitted>>
      /\ \/ res' = "held" /\ fault' = fault /\ entry' = [entry EXCEPT !.step = "open"]
         \/ res' = res /\ fault' = fault /\ entry' = [entry EXCEPT !.step = "refused"]
         \/ res' \in {res, "held"} /\ fault' = TRUE /\ entry' = [entry EXCEPT !.step = "refused"]
  BY DEF Reserve, At
<1>2. gen = "none" /\ res = "none" /\ ~fault /\ ~entry.free
  BY <1>1 DEF RequestInv, TurnFits, AtTheGate, EntryTypes
<1>3. StreamInv'
  BY <1>1, <1>2, IdleStream DEF RequestInv, genVars, StreamInv, StreamTypes
<1>4. EntryTypes'
  BY <1>1 DEF RequestInv, EntryTypes, Steps
<1>5. TurnFits'
  BY <1>1, <1>2 DEF RequestInv, EntryTypes, TurnFits, AtTheGate, Answering, genVars
<1>6. QED
  BY <1>1, <1>3, <1>4, <1>5 DEF RequestInv, WindowsHold

\* The answer begins, as a stream or as JSON.
LEMMA OpenKeepsRequest ==
  ASSUME RequestInv, OpenStream \/ RunJson
  PROVE  RequestInv'
<1>1. /\ entry.step = "open" /\ entry'.step \in {"stream", "run"} /\ entry'.free = entry.free
      /\ window' = Empty /\ admitted' = Empty
      /\ UNCHANGED <<conn, late, pipe, end, queue, buffer, sent, cancelled, scoped, released, res, fault>>
      /\ gen' = IF entry'.step = "stream" THEN "ack" ELSE gen
  BY DEF OpenStream, RunJson, Enters, At, vars
<1>2. gen = "none" /\ res \in {"none", "held"} /\ ~fault /\ (res = "none" <=> entry.free)
  BY <1>1 DEF RequestInv, TurnFits, EntryTypes
<1>3. StreamInv'
  BY <1>1, <1>2, IdleStream DEF RequestInv, StreamInv, StreamTypes
<1>4. EntryTypes'
  <2>1. entry.sse \in BOOLEAN /\ entry.free \in BOOLEAN
    BY DEF RequestInv, EntryTypes
  <2>2. PICK step \in {"stream", "run"} :
          entry' = [step |-> step, mode |-> "normal", bearer |-> "none", token |-> FALSE,
                    sse |-> entry.sse, secret |-> FALSE, store |-> FALSE, free |-> entry.free]
    BY DEF OpenStream, RunJson, Enters
  <2>3. step \in Steps /\ "none" \in Bearers
    BY DEF Steps, Answering, Bearers
  <2>4. QED
    BY <2>1, <2>2, <2>3, Zenon DEF EntryTypes
<1>5. TurnFits'
  BY <1>1, <1>2 DEF RequestInv, EntryTypes, TurnFits, AtTheGate, Answering
<1>6. QED
  BY <1>1, <1>3, <1>4, <1>5, EmptyWindows DEF RequestInv

\* The JSON answer is settled, given back or cut off.
LEMMA JsonKeepsRequest ==
  ASSUME RequestInv, PipelineEnds \/ AnswerJson \/ RefuseJson \/ CutJson
  PROVE  RequestInv'
<1>1. CASE PipelineEnds \/ CutJson
  <2>1. /\ UNCHANGED <<vars, window, admitted>>
        /\ entry.step \in Answering
        /\ entry' \in {[entry EXCEPT !.step = s] : s \in {"finalize", "refund", "cut"}}
    BY <1>1 DEF PipelineEnds, CutJson, Goes, At, Answering
  <2>2. EntryTypes'
    BY <2>1 DEF RequestInv, EntryTypes, Steps, Answering
  <2>3. TurnFits'
    BY <2>1 DEF RequestInv, EntryTypes, TurnFits, AtTheGate, Answering, vars
  <2>4. QED
    BY <2>1, <2>2, <2>3, GoingKeepsRequest
<1>2. ASSUME NEW step \in {"finalize", "refund"}, NEW r \in {"charged", "released"},
             NEW next \in {"answered", "failed"}, Settles(step, r, next),
             step = "finalize" => r = "charged" /\ next = "answered",
             step = "refund" => r = "released" /\ next = "failed"
      PROVE  RequestInv'
  <2>1. /\ entry.step = step /\ entry' = [entry EXCEPT !.step = next]
        /\ UNCHANGED <<conn, late, pipe, end, queue, genVars, released, emitted, window, admitted>>
        /\ \/ res' = Settled(r) /\ fault' = fault
           \/ res' \in {res, Settled(r)} /\ fault' = TRUE
    BY <1>2 DEF Settles, At
  <2>2. gen = "none" /\ res \in {"none", "held"} /\ ~fault /\ (res = "none" <=> entry.free)
    BY <2>1 DEF RequestInv, TurnFits, EntryTypes, Answering
  <2>3. Settled(r) \in {"none", r} /\ (res = "none" <=> Settled(r) = "none")
    BY <2>2 DEF Settled
  <2>4. StreamInv'
    BY <2>1, <2>2, <2>3, IdleStream DEF RequestInv, genVars, StreamInv, StreamTypes
  <2>5. EntryTypes'
    BY <2>1 DEF RequestInv, EntryTypes, Steps
  <2>6. TurnFits'
    BY <1>2, <2>1, <2>2, <2>3 DEF RequestInv, EntryTypes, TurnFits, AtTheGate, Answering, genVars
  <2>7. QED
    BY <2>1, <2>4, <2>5, <2>6 DEF RequestInv, WindowsHold
<1>3. QED
  BY <1>1, <1>2 DEF AnswerJson, RefuseJson

\* A step of the stream.
LEMMA StreamKeepsRequest ==
  ASSUME RequestInv, gen # "none", Next, UNCHANGED entryVars
  PROVE  RequestInv'
<1>1. StreamInv'
  BY PipeKeepsStream, GenerateKeepsStream, EnvironmentKeepsStream DEF Next, RequestInv
<1>2. TurnFits'
  BY StreamKeepsStanding DEF RequestInv, StreamInv, TurnFits, entryVars, AtTheGate, Answering
<1>3. QED
  BY <1>1, <1>2 DEF RequestInv, EntryTypes, WindowsHold, entryVars

\* The invariant holds at every step of the request.
LEMMA RequestInvIsInductive == RequestInv /\ [NextEntry]_allVars => RequestInv'
<1> SUFFICES ASSUME RequestInv, [NextEntry]_allVars
             PROVE  RequestInv'
  OBVIOUS
<1>1. CASE Authorize \/ Preflight \/ Scope \/ ResolveRole
  BY <1>1, BeforeTheGate
<1>2. CASE CheckQueries \/ CheckMints
  BY <1>2, CheckKeepsRequest DEF CheckQueries, CheckMints, Kinds
<1>3. CASE Reserve
  BY <1>3, ReserveKeepsRequest
<1>4. CASE OpenStream \/ RunJson
  BY <1>4, OpenKeepsRequest
<1>5. CASE PipelineEnds \/ AnswerJson \/ RefuseJson \/ CutJson
  BY <1>5, JsonKeepsRequest
<1>6. ASSUME NEW k \in Kinds, Neighbour(k)
      PROVE  RequestInv'
  <2>1. WindowsHold'
    BY <1>6, CountKeepsWindows DEF Neighbour, RequestInv
  <2>2. QED
    BY <1>6, <2>1 DEF Neighbour, RequestInv, vars, StreamInv, StreamTypes, Beginning, Asking,
       Forwarding, Told, Settling, Agrees, EntryTypes, TurnFits
<1>7. CASE NextWindow
  BY <1>7, EmptyWindows DEF NextWindow, RequestInv, vars, StreamInv, StreamTypes, Beginning, Asking,
     Forwarding, Told, Settling, Agrees, EntryTypes, TurnFits
<1>8. CASE gen # "none" /\ Next /\ UNCHANGED entryVars
  BY <1>8, StreamKeepsRequest
<1>9. CASE UNCHANGED allVars
  BY <1>9 DEF allVars, entryVars, RequestInv, vars, StreamInv, StreamTypes, Beginning, Asking,
     Forwarding, Told, Settling, Agrees, EntryTypes, TurnFits, WindowsHold
<1>10. QED
  BY <1>1, <1>2, <1>3, <1>4, <1>5, <1>6, <1>7, <1>8, <1>9 DEF NextEntry, Enter

\* It holds when the request arrives.
LEMMA RequestInvHoldsAtFirst == InitEntry => RequestInv
<1> SUFFICES ASSUME InitEntry
             PROVE  RequestInv
  OBVIOUS
<1>1. StreamInv
  <2>1. StreamTypes
    BY EmptySeq DEF InitEntry, Init, StreamTypes
  <2>2. \A kind : ~Shows(sent, kind)
    BY EmptyHolds DEF InitEntry, Init
  <2>3. Beginning /\ Asking /\ Forwarding /\ Told /\ Settling
    BY <2>2 DEF InitEntry, Init, Beginning, Asking, Forwarding, Told, Settling
  <2>4. QED
    BY <2>1, <2>3 DEF StreamInv
<1>2. EntryTypes
  BY DEF InitEntry, EntryTypes, Steps, AtTheGate
<1>3. WindowsHold
  BY LimitIsPositive DEF InitEntry, WindowsHold, Empty
<1>4. TurnFits
  BY DEF InitEntry, Init, TurnFits, AtTheGate, Answering
<1>5. QED
  BY <1>1, <1>2, <1>3, <1>4 DEF RequestInv

LEMMA RequestInvHolds == SpecEntry => []RequestInv
BY RequestInvHoldsAtFirst, RequestInvIsInductive, PTL DEF SpecEntry

-------------------------------------------------------------------------------
\* Whoever is answered, as a stream or as JSON, has paid or was let through
\* without a turn, whoever is refused or failed has no turn left, and no more of
\* an address are let through than its limits, for any number of events and
\* windows and all limits.
THEOREM AnsweredMeansPaid == SpecEntry => []AccessIsPaidFor
<1>1. RequestInv => AccessIsPaidFor
  <2> SUFFICES ASSUME RequestInv
               PROVE  AccessIsPaidFor
    OBVIOUS
  <2>1. \A kind : Sent(kind) <=> Shows(sent, kind)
    BY DEF Sent, Shows
  <2>2. /\ FrameOf("__done__") = "answer" /\ FrameOf("__rejected__") = "rejected"
        /\ FrameOf("__crashed__") = "internal"
    BY DEF FrameOf
  <2>3. ClientPaysForAnswers
    BY <2>1, <2>2 DEF RequestInv, StreamInv, Told, Agrees, Terminals, ClientPaysForAnswers
  <2>4. QED
    BY <2>3 DEF RequestInv, TurnFits, WindowsHold, Answering, AccessIsPaidFor, At
<1>2. QED
  BY <1>1, RequestInvHolds, PTL

\* A stream that got past its ack has settled its turn when it is closed, unless
\* the store failed or the server cancelled the teardown.
THEOREM ClosedStreamsAreSettled == SpecEntry => []ClosedIsSettled
<1>1. RequestInv => ClosedIsSettled
  BY DEF RequestInv, StreamInv, StreamTypes, Settling, ClosedIsSettled, Sent, Shows
<1>2. QED
  BY <1>1, RequestInvHolds, PTL

-------------------------------------------------------------------------------
(***************************************************************************)
(* The turn of a request is a turn of the ledger.                          *)
(***************************************************************************)

\* How the turn of a request may change in a step.
TurnMoves ==
  \/ res' = res
  \/ res = "none" /\ res' = "held"
  \/ res = "held" /\ res' \in {"charged", "released"}

\* Settling is such a move, also when it came too late.
LEMMA SettlingMoves ==
  ASSUME NEW r \in {"charged", "released"}, res' \in {res, Settled(r)}
  PROVE  TurnMoves
BY DEF Settled, TurnMoves

\* The task and the generator only settle.
LEMMA StreamMovesTurn ==
  ASSUME Next
  PROVE  TurnMoves
<1>1. CASE RunPipe
  <2>1. CASE CommitFinalize \/ CommitRefund
    BY <2>1, SettlingMoves DEF CommitFinalize, CommitRefund
  <2>2. CASE \/ \E event \in Emitted : Emit(event)
             \/ Succeed
             \/ \E event \in {"__rejected__", "__crashed__"} : Fail(event)
             \/ Return \/ StoreFails \/ CancelTask
    BY <2>2 DEF Emit, Succeed, Fail, Return, StoreFails, CancelTask, TurnMoves
  <2>3. QED
    BY <1>1, <2>1, <2>2 DEF RunPipe
<1>2. CASE Generate
  <2>1. CASE TeardownCommit
    BY <2>1, SettlingMoves DEF TeardownCommit
  <2>2. CASE Ack \/ CloseAtAck \/ TakeToken \/ TakeMeta \/ TakeTerminal
    BY <2>2 DEF Ack, CloseAtAck, TakeToken, TakeMeta, TakeTerminal, pipeVars, TurnMoves
  <2>3. CASE SeeDisconnect \/ SeeDeadline \/ StopWaiting
    BY <2>3 DEF SeeDisconnect, SeeDeadline, StopWaiting, pipeVars, TurnMoves
  <2>4. CASE TeardownReturn \/ TeardownFails \/ TeardownCancelled
    BY <2>4 DEF TeardownReturn, TeardownFails, TeardownCancelled, pipeVars, TurnMoves
  <2>5. QED
    BY <1>2, <2>1, <2>2, <2>3, <2>4 DEF Generate
<1>3. CASE CancelScope \/ Disconnect \/ DeadlinePasses
  BY <1>3 DEF CancelScope, Disconnect, DeadlinePasses, pipeVars, TurnMoves
<1>4. QED
  BY <1>1, <1>2, <1>3 DEF Next

\* The handler holds the turn once, before the response, and then only settles.
LEMMA RequestMovesTurn ==
  ASSUME RequestInv, [NextEntry]_allVars
  PROVE  TurnMoves
<1>1. CASE Reserve
  <2>1. res = "none"
    BY <1>1 DEF Reserve, At, RequestInv, TurnFits, AtTheGate
  <2>2. res' \in {res, "held"}
    BY <1>1 DEF Reserve
  <2>3. QED
    BY <2>1, <2>2 DEF TurnMoves
<1>2. CASE AnswerJson \/ RefuseJson
  <2>1. \E r \in {"charged", "released"} : res' \in {res, Settled(r)}
    BY <1>2 DEF AnswerJson, RefuseJson, Settles
  <2>2. QED
    BY <2>1, SettlingMoves
<1>3. CASE Authorize \/ Preflight \/ Scope \/ ResolveRole \/ PipelineEnds \/ CutJson
  BY <1>3 DEF Authorize, Preflight, Scope, ResolveRole, PipelineEnds, CutJson, Goes, vars, TurnMoves
<1>4. CASE CheckQueries \/ CheckMints
  BY <1>4 DEF CheckQueries, CheckMints, CheckWindow, vars, TurnMoves
<1>5. CASE OpenStream \/ RunJson \/ NextWindow \/ \E k \in Kinds : Neighbour(k)
  BY <1>5 DEF OpenStream, RunJson, NextWindow, Neighbour, vars, TurnMoves
<1>6. CASE gen # "none" /\ Next /\ UNCHANGED entryVars
  BY <1>6, StreamMovesTurn
<1>7. CASE UNCHANGED allVars
  BY <1>7 DEF allVars, vars, TurnMoves
<1>8. QED
  BY <1>1, <1>2, <1>3, <1>4, <1>5, <1>6, <1>7 DEF NextEntry, Enter

\* Each of these moves is a step of the ledger.
LEMMA MovesAreLedgerSteps ==
  ASSUME TurnMoves
  PROVE  Ledger!LedgerNext \/ UNCHANGED Ledger!ledgerVars
<1>1. CASE res' = res
  BY <1>1 DEF Ledger!ledgerVars
<1>2. CASE res = "none" /\ res' = "held"
  <2>1. Ledger!Counted("caller") = {}
    BY <1>2 DEF Ledger!Counted
  <2>2. Ledger!Cardinality(Ledger!Counted("caller")) = 0
    <3>1. \A S : Ledger!Cardinality(S) = Cardinality(S)
      BY DEF Ledger!Cardinality, Cardinality
    <3>2. QED
      BY <2>1, <3>1, FS_EmptySet
  <2>3. Ledger!Hold("turn", "caller")
    <3>1. [a \in {"caller"} |-> 1]["caller"] = 1 /\ 0 < 1
      OBVIOUS
    <3>2. Ledger!Cardinality(Ledger!Counted("caller")) < [a \in {"caller"} |-> 1]["caller"]
      BY <2>2, <3>1
    <3>3. QED
      BY <1>2, <3>2 DEF Ledger!Hold
  <2>4. QED
    BY <2>3 DEF Ledger!LedgerNext
<1>3. CASE res = "held" /\ res' = "charged"
  <2>1. Ledger!Charge("turn")
    BY <1>3 DEF Ledger!Charge
  <2>2. QED
    BY <2>1 DEF Ledger!LedgerNext
<1>4. CASE res = "held" /\ res' = "released"
  <2>1. Ledger!Release({"turn"})
    BY <1>4 DEF Ledger!Release
  <2>2. QED
    BY <2>1 DEF Ledger!LedgerNext
<1>5. QED
  BY <1>1, <1>2, <1>3, <1>4 DEF TurnMoves

\* The turn of a request is held at most once and, once charged or released, stays
\* so: whatever the task, the teardown, the JSON handlers and a store that fails
\* before or after its commit do, in whatever order, are steps of the ledger.
THEOREM TurnIsATurnOfTheLedger == SpecEntry => ImplementsLedger
<1>1. InitEntry => Ledger!LedgerInit
  BY DEF InitEntry, Init, Ledger!LedgerInit
<1>2. RequestInv /\ [NextEntry]_allVars => [Ledger!LedgerNext]_(Ledger!ledgerVars)
  BY RequestMovesTurn, MovesAreLedgerSteps
<1>3. QED
  BY <1>1, <1>2, RequestInvHolds, PTL DEF SpecEntry, ImplementsLedger, Ledger!LedgerSpec

-------------------------------------------------------------------------------
(***************************************************************************)
(* What the frames carry.                                                  *)
(***************************************************************************)

\* A non-empty set of numbers has a least one.
LEMMA LeastNumber ==
  ASSUME NEW T, T \subseteq Nat, T # {}
  PROVE  \E x \in T : \A y \in T : x <= y
<1>1. PICK x \in T : \A y \in T : <<y, x>> \notin OpToRel(<, Nat)
  <2>1. IsWellFoundedOn(OpToRel(<, Nat), Nat)
    BY NatLessThanWellFounded
  <2>2. QED
    BY <2>1, WFMin
<1>2. \A y \in T : ~(y < x)
  BY <1>1 DEF OpToRel
<1>3. QED
  BY <1>2

\* What is carried by the first frames, up to the N-th.
IsCarry(c, s, N) ==
  c = [k \in 0..N |-> IF k = 0 THEN <<>> ELSE Extended(c[k - 1], s[k])]

\* There is such a function for every number of frames.
LEMMA CarryExists ==
  ASSUME NEW s, NEW N \in Nat
  PROVE  \E c : IsCarry(c, s, N)
<1> DEFINE T == {n \in Nat : ~\E c : IsCarry(c, s, n)}
<1>1. SUFFICES ASSUME T # {}
               PROVE  FALSE
  OBVIOUS
<1>2. PICK x \in T : \A y \in T : x <= y
  BY <1>1, LeastNumber
<1>3. x \in Nat /\ ~\E c : IsCarry(c, s, x)
  OBVIOUS
<1>4. CASE x = 0
  <2>1. PICK c : c = [k \in 0..0 |-> <<>>]
    OBVIOUS
  <2>2. IsCarry(c, s, 0)
    BY <2>1 DEF IsCarry
  <2>3. QED
    BY <1>3, <1>4, <2>2
<1>5. CASE x # 0
  <2>1. x - 1 \in Nat /\ x - 1 \notin T
    BY <1>2, <1>3, <1>5
  <2>2. PICK c : IsCarry(c, s, x - 1)
    BY <2>1
  <2>3. PICK e : e = Extended(c[x - 1], s[x])
    OBVIOUS
  <2>4. PICK d : d = [k \in 0..x |-> IF k = x THEN e ELSE c[k]]
    OBVIOUS
  <2>5. ASSUME NEW k \in 0..x
        PROVE  d[k] = IF k = 0 THEN <<>> ELSE Extended(d[k - 1], s[k])
    <3>1. CASE k = x
      <4>1. d[k] = e /\ d[k - 1] = c[k - 1]
        BY <1>3, <1>5, <2>4, <3>1
      <4>2. QED
        BY <1>5, <2>3, <3>1, <4>1
    <3>2. CASE k = 0
      <4>1. d[k] = c[k] /\ k \in 0..(x - 1)
        BY <1>3, <1>5, <2>4, <3>2
      <4>2. QED
        BY <2>2, <3>2, <4>1 DEF IsCarry
    <3>3. CASE k # x /\ k # 0
      <4>1. d[k] = c[k] /\ d[k - 1] = c[k - 1] /\ k \in 0..(x - 1)
        BY <1>3, <1>5, <2>4, <3>3
      <4>2. c[k] = Extended(c[k - 1], s[k])
        BY <2>2, <3>3, <4>1 DEF IsCarry
      <4>3. QED
        BY <3>3, <4>1, <4>2
    <3>4. QED
      BY <3>1, <3>2, <3>3
  <2>6. IsCarry(d, s, x)
    BY <2>4, <2>5 DEF IsCarry
  <2>7. QED
    BY <1>3, <2>6
<1>6. QED
  BY <1>4, <1>5

\* Two of them agree as far as the frames do.
LEMMA CarryAgrees ==
  ASSUME NEW s, NEW t, NEW N \in Nat, NEW M \in Nat, NEW c, NEW d,
         IsCarry(c, s, N), IsCarry(d, t, M),
         NEW k \in Nat, k <= N, k <= M, \A i \in 1..k : s[i] = t[i]
  PROVE  c[k] = d[k]
<1> DEFINE T == {n \in 0..k : c[n] # d[n]}
<1>1. SUFFICES ASSUME T # {}
               PROVE  FALSE
  OBVIOUS
<1>2. PICK x \in T : \A y \in T : x <= y
  <2>1. T \subseteq Nat
    OBVIOUS
  <2> HIDE DEF T
  <2>2. QED
    BY <1>1, <2>1, LeastNumber
<1>3. x \in 0..k /\ x \in Nat /\ c[x] # d[x] /\ x \in 0..N /\ x \in 0..M
  OBVIOUS
<1>4. x # 0
  <2>1. 0 \in 0..N /\ 0 \in 0..M
    OBVIOUS
  <2>2. c[0] = <<>> /\ d[0] = <<>>
    BY <2>1 DEF IsCarry
  <2>3. QED
    BY <1>3, <2>2
<1>5. x - 1 \in 0..k /\ x \in 1..k
  BY <1>3, <1>4
<1>6. c[x - 1] = d[x - 1]
  <2>1. x - 1 \notin T
    BY <1>2, <1>3
  <2>2. QED
    BY <1>5, <2>1
<1>7. c[x] = Extended(c[x - 1], s[x])
  BY <1>3, <1>4 DEF IsCarry
<1>8. d[x] = Extended(d[x - 1], t[x])
  BY <1>3, <1>4 DEF IsCarry
<1>9. s[x] = t[x]
  BY <1>5
<1>10. QED
  BY <1>3, <1>6, <1>7, <1>8, <1>9

LEMMA CarriedIsLast ==
  ASSUME NEW s, Len(s) \in Nat
  PROVE  \E c : IsCarry(c, s, Len(s)) /\ Carried(s) = c[Len(s)]
<1>1. PICK c : c = CHOOSE g : IsCarry(g, s, Len(s))
  OBVIOUS
<1>2. IsCarry(c, s, Len(s))
  BY <1>1, CarryExists
<1>3. Carried(s) = c[Len(s)]
  BY <1>1 DEF Carried, IsCarry
<1>4. QED
  BY <1>2, <1>3

\* No frames carry nothing, and a frame extends what those before it carry.
LEMMA CarriedByNone == Carried(<<>>) = <<>>
<1>1. Len(<<>>) = 0
  OBVIOUS
<1>2. PICK c : IsCarry(c, <<>>, 0) /\ Carried(<<>>) = c[0]
  BY <1>1, CarriedIsLast
<1>3. 0 \in 0..0
  OBVIOUS
<1>4. QED
  BY <1>2, <1>3 DEF IsCarry

LEMMA CarriedByAppend ==
  ASSUME NEW s \in Seq(Frames), NEW f \in Frames
  PROVE  Carried(Append(s, f)) = Extended(Carried(s), f)
<1>1. PICK t : t = Append(s, f)
  OBVIOUS
<1>2. PICK n \in Nat : n = Len(s)
  BY LenProperties
<1>3. Len(t) = n + 1 /\ t[n + 1] = f /\ \A i \in 1..n : t[i] = s[i]
  BY <1>1, <1>2, AppendProperties
<1>4. PICK c : IsCarry(c, s, n) /\ Carried(s) = c[n]
  BY <1>2, CarriedIsLast
<1>5. PICK d : IsCarry(d, t, n + 1) /\ Carried(t) = d[n + 1]
  BY <1>3, CarriedIsLast
<1>6. d[n] = c[n]
  <2>1. n + 1 \in Nat /\ n <= n + 1 /\ n <= n
    OBVIOUS
  <2>2. QED
    BY <1>3, <1>4, <1>5, <2>1, CarryAgrees
<1>7. d[n + 1] = Extended(d[n], t[n + 1])
  <2>1. n + 1 \in 0..(n + 1) /\ n + 1 # 0 /\ (n + 1) - 1 = n
    OBVIOUS
  <2>2. QED
    BY <1>5, <2>1 DEF IsCarry
<1>8. QED
  BY <1>1, <1>3, <1>4, <1>5, <1>6, <1>7

\* Tokens one more.
LEMMA OneMoreToken ==
  /\ Tokens(0) = <<>>
  /\ \A n \in Nat : Tokens(n) \in Seq(Emitted) /\ Len(Tokens(n)) = n
  /\ \A n \in Nat : Tokens(n + 1) = Append(Tokens(n), "token")
<1>1. Tokens(0) = <<>>
  BY DEF Tokens
<1>2. ASSUME NEW n \in Nat
      PROVE  Tokens(n) \in Seq(Emitted) /\ Len(Tokens(n)) = n
  BY DEF Tokens, Emitted
<1>3. ASSUME NEW n \in Nat
      PROVE  Tokens(n + 1) = Append(Tokens(n), "token")
  <2>1. /\ Tokens(n) \in Seq(Emitted) /\ Len(Tokens(n)) = n
        /\ Tokens(n + 1) \in Seq(Emitted) /\ Len(Tokens(n + 1)) = n + 1
    <3>1. n + 1 \in Nat
      OBVIOUS
    <3>2. QED
      BY <1>2, <3>1
  <2>2. \A i \in 1..(n + 1) : Tokens(n + 1)[i] = "token"
    BY DEF Tokens
  <2>3. \A i \in 1..n : Tokens(n)[i] = "token"
    BY DEF Tokens
  <2>4. PICK a \in Seq(Emitted) : a = Append(Tokens(n), "token")
    BY <2>1, AppendProperties DEF Emitted
  <2>5. Len(a) = n + 1 /\ a[n + 1] = "token" /\ \A i \in 1..n : a[i] = Tokens(n)[i]
    BY <2>1, <2>4, AppendProperties DEF Emitted
  <2>6. \A i \in 1..(n + 1) : a[i] = "token"
    BY <2>3, <2>5
  <2>7. \A i \in 1..Len(a) : a[i] = Tokens(n + 1)[i]
    BY <2>2, <2>5, <2>6
  <2>8. QED
    BY <2>1, <2>4, <2>5, <2>7, SeqEqual
<1>4. QED
  BY <1>1, <1>2, <1>3

\* Appending to the second part of a concatenation appends to it all.
LEMMA AppendGoesLast ==
  ASSUME NEW a \in Seq(Emitted), NEW b \in Seq(Emitted), NEW x \in Emitted
  PROVE  a \o Append(b, x) = Append(a \o b, x) /\ Append(b, x) \in Seq(Emitted)
<1>1. <<x>> \in Seq(Emitted)
  OBVIOUS
<1>2. a \o b \in Seq(Emitted)
  BY ConcatProperties
<1>3. Append(b, x) = b \o <<x>> /\ Append(a \o b, x) = (a \o b) \o <<x>>
  BY <1>2, AppendIsConcat
<1>4. (a \o b) \o <<x>> = a \o (b \o <<x>>)
  BY <1>1, ConcatAssociative
<1>5. QED
  BY <1>3, <1>4, AppendProperties

\* Its head may be counted to the first part.
LEMMA HeadGoesFirst ==
  ASSUME NEW a \in Seq(Emitted), NEW q \in Seq(Emitted), q # <<>>
  PROVE  /\ Head(q) \in Emitted /\ Tail(q) \in Seq(Emitted)
         /\ Append(a, Head(q)) \o Tail(q) = a \o q
<1>1. PICK x \in Emitted : x = Head(q)
  BY HeadTailProperties
<1>2. PICK r \in Seq(Emitted) : r = Tail(q)
  BY HeadTailProperties
<1>3. <<x>> \in Seq(Emitted) /\ q = <<x>> \o r
  <2>1. <<x>> \in Seq(Emitted) /\ Len(<<x>>) = 1 /\ <<x>>[1] = x
    OBVIOUS
  <2>2. PICK w \in Seq(Emitted) : w = <<x>> \o r
    BY <2>1, ConcatProperties
  <2>3. Len(r) \in Nat /\ Len(q) \in Nat /\ Len(r) = Len(q) - 1 /\ \A i \in 1..Len(r) : r[i] = q[i + 1]
    BY <1>2, HeadTailProperties, LenProperties
  <2>4. Len(w) = 1 + Len(r) /\ \A i \in 1..1 + Len(r) : w[i] = IF i <= 1 THEN <<x>>[i] ELSE r[i - 1]
    BY <2>1, <2>2, ConcatProperties
  <2>5. Len(w) = Len(q) /\ q[1] = x
    BY <1>1, <2>3, <2>4
  <2>6. ASSUME NEW i \in 1..Len(w)
        PROVE  w[i] = q[i]
    <3>1. CASE i = 1
      BY <2>1, <2>3, <2>4, <2>5, <3>1
    <3>2. CASE i # 1
      <4>1. i - 1 \in 1..Len(r) /\ i \in 1..1 + Len(r) /\ ~(i <= 1) /\ (i - 1) + 1 = i
        BY <2>3, <2>4, <3>2
      <4>2. QED
        BY <2>3, <2>4, <4>1
    <3>3. QED
      BY <3>1, <3>2
  <2>7. w = q
    BY <2>5, <2>6, SeqEqual
  <2>8. QED
    BY <2>1, <2>2, <2>7
<1>4. Append(a, x) = a \o <<x>>
  BY AppendIsConcat
<1>5. (a \o <<x>>) \o r = a \o (<<x>> \o r)
  BY <1>3, ConcatAssociative
<1>6. QED
  BY <1>1, <1>2, <1>3, <1>4, <1>5

\* A frame carries tokens, a metadata event or nothing.
LEMMA FrameCarries ==
  ASSUME NEW s \in Seq(Frames), Carried(s) \in Seq(Emitted), NEW kind \in FrameKinds, NEW n \in Nat
  PROVE  /\ Frame(kind, n) \in Frames /\ Append(s, Frame(kind, n)) \in Seq(Frames)
         /\ Carried(Append(s, Frame(kind, n))) \in Seq(Emitted)
         /\ kind = "token" => Carried(Append(s, Frame(kind, n))) = Carried(s) \o Tokens(n)
         /\ kind = "meta" => Carried(Append(s, Frame(kind, n))) = Append(Carried(s), "meta")
         /\ kind \notin {"token", "meta"} => Carried(Append(s, Frame(kind, n))) = Carried(s)
<1>1. PICK f \in Frames : f = Frame(kind, n)
  BY DEF Frame, Frames
<1>2. f.kind = kind /\ f.n = n
  BY <1>1 DEF Frame
<1>3. PICK c \in Seq(Emitted) : c = Carried(s)
  OBVIOUS
<1>4. Carried(Append(s, f)) = Extended(c, f)
  BY <1>3, CarriedByAppend
<1>5. /\ kind = "token" => Extended(c, f) = c \o Tokens(n)
      /\ kind = "meta" => Extended(c, f) = Append(c, "meta")
      /\ kind \notin {"token", "meta"} => Extended(c, f) = c
  <2>1. CASE kind = "token"
    BY <1>2, <2>1, Zenon DEF Extended
  <2>2. CASE kind = "meta"
    BY <1>2, <2>2, Zenon DEF Extended
  <2>3. CASE kind \notin {"token", "meta"}
    BY <1>2, <2>3, Zenon DEF Extended
  <2>4. QED
    BY <2>1, <2>2, <2>3
<1>6. c \o Tokens(n) \in Seq(Emitted) /\ Append(c, "meta") \in Seq(Emitted)
  <2>1. Tokens(n) \in Seq(Emitted) /\ "meta" \in Emitted
    BY OneMoreToken DEF Emitted
  <2>2. QED
    BY <2>1, ConcatProperties, AppendProperties
<1>7. Append(s, f) \in Seq(Frames)
  BY AppendProperties
<1>8. QED
  BY <1>1, <1>3, <1>4, <1>5, <1>6, <1>7

-------------------------------------------------------------------------------
(***************************************************************************)
(* What the client has, what is held back and what is queued.              *)
(***************************************************************************)

\* Tokens and queues stay within the bound on events.
Bounded ==
  /\ late \in BOOLEAN
  /\ buffer <= MaxEvents
  /\ sent \in Seq([kind : FrameKinds, n : 0..MaxEvents])
  /\ emitted \in Seq(Emitted) /\ Len(emitted) <= MaxEvents
  /\ Carried(sent) \in Seq(Emitted)

\* The queue holds the events q and, once the task ended, may end in how.
Queued(q) == queue = q \/ (pipe = "ended" /\ \E e \in Terminals : queue = Append(q, e))

\* While the generator forwards, no event is lost, doubled or overtaken.
Flowing ==
  /\ gen \in {"none", "ack"} => emitted = <<>>
  /\ gen = "loop" =>
        \E q \in Seq(Emitted) : Queued(q) /\ (Carried(sent) \o Tokens(buffer)) \o q = emitted

\* The answer is the last frame, and what came before it is everything.
AllIsTold ==
  Shows(sent, "answer") => Last(sent).kind = "answer" /\ Carried(sent) = emitted

WholeInv == Bounded /\ Flowing /\ AllIsTold

\* How much was taken, is held back and is queued.
LEMMA ForwardedIsBounded ==
  ASSUME NEW c \in Seq(Emitted), NEW b \in Nat, NEW q \in Seq(Emitted)
  PROVE  /\ Len((c \o Tokens(b)) \o q) = Len(c) + b + Len(q)
         /\ Len(c) \in Nat /\ Len(q) \in Nat
<1>1. Tokens(b) \in Seq(Emitted) /\ Len(Tokens(b)) = b
  BY OneMoreToken
<1>2. PICK d \in Seq(Emitted) : d = c \o Tokens(b)
  BY <1>1, ConcatProperties
<1>3. Len(d) = Len(c) + b /\ Len(d) \in Nat
  BY <1>1, <1>2, ConcatProperties, LenProperties
<1>4. Len(d \o q) = Len(d) + Len(q)
  BY ConcatProperties
<1>5. Len(c) \in Nat /\ Len(q) \in Nat
  BY LenProperties
<1>6. QED
  BY <1>2, <1>3, <1>4, <1>5

\* The head of the queue is the first of the events in it, or its end.
LEMMA HeadOfTheQueue ==
  ASSUME NEW q \in Seq(Emitted), Queued(q), queue # <<>>
  PROVE  /\ Head(queue) \in Emitted =>
              /\ q # <<>> /\ Head(q) = Head(queue) /\ Tail(q) \in Seq(Emitted)
              /\ Tail(queue) = Tail(q)
                   \/ (pipe = "ended" /\ \E e \in Terminals : Tail(queue) = Append(Tail(q), e))
         /\ Head(queue) \in Terminals => q = <<>> /\ pipe = "ended"
<1>1. Emitted \cap Terminals = {}
  BY DEF Emitted, Terminals
<1>2. CASE queue = q
  <2>1. Head(q) \in Emitted /\ Tail(q) \in Seq(Emitted)
    BY <1>2, HeadTailProperties
  <2>2. QED
    BY <1>1, <1>2, <2>1
<1>3. ASSUME pipe = "ended", NEW e \in Terminals, queue = Append(q, e)
      PROVE  /\ Head(queue) \in Emitted =>
                  /\ q # <<>> /\ Head(q) = Head(queue) /\ Tail(q) \in Seq(Emitted)
                  /\ Tail(queue) = Append(Tail(q), e)
             /\ Head(queue) \in Terminals => q = <<>>
  <2>1. /\ Head(queue) = IF q = <<>> THEN e ELSE Head(q)
        /\ Tail(queue) = IF q = <<>> THEN <<>> ELSE Append(Tail(q), e)
    BY <1>3, HeadTailAppend
  <2>2. q # <<>> => Head(q) \in Emitted /\ Tail(q) \in Seq(Emitted)
    BY HeadTailProperties
  <2>3. QED
    BY <1>1, <1>3, <2>1, <2>2
<1>4. QED
  BY <1>2, <1>3 DEF Queued

\* A flush carries the tokens that were held back.
LEMMA FlushedCarries ==
  ASSUME StreamTypes, Bounded
  PROVE  /\ Flushed \in Seq(Frames) /\ Carried(Flushed) \in Seq(Emitted)
         /\ Carried(Flushed) = Carried(sent) \o Tokens(buffer)
         /\ Flushed \in Seq([kind : FrameKinds, n : 0..MaxEvents])
<1>1. buffer \in Nat /\ sent \in Seq(Frames) /\ Carried(sent) \in Seq(Emitted)
  BY DEF StreamTypes, Bounded
<1>2. CASE buffer > 0
  <2>1. "token" \in FrameKinds
    BY DEF FrameKinds
  <2>2. Flushed = Append(sent, Frame("token", buffer))
    BY <1>2 DEF Flushed
  <2>3. Frame("token", buffer) \in [kind : FrameKinds, n : 0..MaxEvents]
    BY <1>1, <2>1, MaxEventsIsNatural DEF Bounded, Frame
  <2>4. QED
    BY <1>1, <2>1, <2>2, <2>3, FrameCarries, AppendProperties DEF Bounded
<1>3. CASE ~(buffer > 0)
  <2>1. Flushed = sent /\ buffer = 0
    BY <1>1, <1>3 DEF Flushed
  <2>2. Carried(sent) \o Tokens(buffer) = Carried(sent)
    BY <1>1, <2>1, OneMoreToken, ConcatEmptySeq
  <2>3. QED
    BY <1>1, <2>1, <2>2 DEF Bounded
<1>4. QED
  BY <1>2, <1>3

\* A step that neither emits nor sends and leaves the queue alone.
LEMMA QuietKeepsWhole ==
  ASSUME WholeInv, UNCHANGED <<queue, buffer, sent, emitted>>, late' \in BOOLEAN,
         pipe' = pipe \/ pipe' = "ended",
         gen' = "loop" => gen = "loop", gen' \in {"none", "ack"} => gen \in {"none", "ack"}
  PROVE  WholeInv'
<1>1. Bounded' /\ AllIsTold'
  BY DEF WholeInv, Bounded, AllIsTold
<1>2. ASSUME gen' = "loop"
      PROVE  \E q \in Seq(Emitted) : Queued(q)' /\ ((Carried(sent) \o Tokens(buffer)) \o q = emitted)'
  <2>1. PICK q \in Seq(Emitted) : Queued(q) /\ (Carried(sent) \o Tokens(buffer)) \o q = emitted
    BY <1>2 DEF WholeInv, Flowing
  <2>2. Queued(q)'
    BY <2>1 DEF Queued
  <2>3. QED
    BY <2>1, <2>2
<1>3. Flowing'
  BY <1>2 DEF WholeInv, Flowing
<1>4. QED
  BY <1>1, <1>3 DEF WholeInv

\* The task ends and queues its terminal event.
LEMMA ReportKeepsWhole ==
  ASSUME StreamInv, WholeInv, gen \notin {"none", "ack"}, pipe # "ended",
         NEW e \in Terminals, Report(e), UNCHANGED <<gen, buffer, sent, emitted, late>>
  PROVE  WholeInv'
<1>1. Bounded' /\ AllIsTold'
  BY DEF WholeInv, Bounded, AllIsTold
<1>2. ASSUME gen' = "loop"
      PROVE  \E q \in Seq(Emitted) : Queued(q)' /\ ((Carried(sent) \o Tokens(buffer)) \o q = emitted)'
  <2>1. PICK q \in Seq(Emitted) : Queued(q) /\ (Carried(sent) \o Tokens(buffer)) \o q = emitted
    BY <1>2 DEF WholeInv, Flowing
  <2>2. queue = q
    BY <2>1 DEF Queued
  <2>3. Queued(q)'
    BY <2>2 DEF Queued, Report
  <2>4. QED
    BY <2>1, <2>3
<1>3. Flowing'
  BY <1>2 DEF WholeInv, Flowing
<1>4. QED
  BY <1>1, <1>3 DEF WholeInv

\* The steps of the task.
LEMMA PipeKeepsWhole ==
  ASSUME StreamInv, WholeInv, gen # "none", RunPipe
  PROVE  WholeInv'
<1>0. pipe # "idle" => gen \notin {"none", "ack"}
  BY DEF StreamInv, Beginning
<1>1. ASSUME NEW event \in Emitted, Emit(event)
      PROVE  WholeInv'
  <2>1. /\ pipe = "work" /\ Len(emitted) < MaxEvents
        /\ emitted' = Append(emitted, event) /\ queue' = Append(queue, event)
        /\ UNCHANGED <<late, pipe, gen, buffer, sent>>
    BY <1>1 DEF Emit, genVars
  <2>2. emitted' \in Seq(Emitted) /\ Len(emitted') <= MaxEvents
    <3>1. emitted \in Seq(Emitted) /\ Len(emitted) \in Nat
      BY LenProperties DEF WholeInv, Bounded
    <3>2. QED
      BY <2>1, <3>1, AppendProperties, MaxEventsIsNatural
  <2>3. Bounded'
    BY <2>1, <2>2 DEF WholeInv, Bounded
  <2>4. AllIsTold'
    <3>1. ~Shows(sent, "answer")
      BY <2>1 DEF StreamInv, Told, Terminals, FrameOf
    <3>2. QED
      BY <2>1, <3>1 DEF AllIsTold
  <2>5. ASSUME gen' = "loop"
        PROVE  \E q \in Seq(Emitted) : Queued(q)' /\ ((Carried(sent) \o Tokens(buffer)) \o q = emitted)'
    <3>1. PICK q \in Seq(Emitted) : Queued(q) /\ (Carried(sent) \o Tokens(buffer)) \o q = emitted
      BY <2>1, <2>5 DEF WholeInv, Flowing
    <3>2. queue = q
      BY <2>1, <3>1 DEF Queued
    <3>3. Carried(sent) \o Tokens(buffer) \in Seq(Emitted)
      <4>1. Carried(sent) \in Seq(Emitted) /\ Tokens(buffer) \in Seq(Emitted)
        BY OneMoreToken DEF WholeInv, Bounded, StreamInv, StreamTypes
      <4>2. QED
        BY <4>1, ConcatProperties
    <3>4. PICK r \in Seq(Emitted) : r = Append(q, event)
      BY AppendProperties
    <3>5. (Carried(sent) \o Tokens(buffer)) \o r = Append(emitted, event)
      BY <3>1, <3>3, <3>4, AppendGoesLast
    <3>6. Queued(r)'
      BY <2>1, <3>2, <3>4 DEF Queued
    <3>7. QED
      BY <2>1, <3>5, <3>6
  <2>6. Flowing'
    BY <1>0, <2>1, <2>5 DEF Flowing
  <2>7. QED
    BY <2>3, <2>4, <2>6 DEF WholeInv
<1>2. CASE Succeed
  <2>1. UNCHANGED <<gen, buffer, sent, emitted, late>> /\ pipe = "work" /\ "__done__" \in Terminals
    BY <1>2 DEF Succeed, genVars, Terminals
  <2>2. CASE released
    BY <1>0, <1>2, <2>1, <2>2, ReportKeepsWhole DEF Succeed
  <2>3. CASE ~released
    BY <1>0, <1>2, <2>1, <2>3 DEF Succeed, WholeInv, Bounded, Flowing, AllIsTold, Queued
  <2>4. QED
    BY <2>2, <2>3
<1>3. ASSUME NEW event \in {"__rejected__", "__crashed__"}, Fail(event)
      PROVE  WholeInv'
  <2>1. UNCHANGED <<gen, buffer, sent, emitted, late>> /\ pipe = "work" /\ event \in Terminals
    BY <1>3 DEF Fail, genVars, Terminals
  <2>2. CASE released
    BY <1>0, <1>3, <2>1, <2>2, ReportKeepsWhole DEF Fail
  <2>3. CASE ~released
    BY <1>0, <1>3, <2>1, <2>3 DEF Fail, WholeInv, Bounded, Flowing, AllIsTold, Queued
  <2>4. QED
    BY <2>2, <2>3
<1>4. CASE CommitFinalize \/ CommitRefund
  BY <1>4 DEF CommitFinalize, CommitRefund, genVars, WholeInv, Bounded, Flowing, AllIsTold, Queued
<1>5. CASE Return \/ StoreFails
  <2>1. /\ UNCHANGED <<gen, buffer, sent, emitted, late>> /\ Report(end)
        /\ pipe \in {"finalize", "finalized", "refund", "refunded"}
    BY <1>5 DEF Return, StoreFails, genVars
  <2>2. end \in Terminals
    BY <2>1 DEF StreamInv, Asking, Terminals
  <2>3. QED
    BY <1>0, <2>1, <2>2, ReportKeepsWhole
<1>6. CASE CancelTask
  BY <1>6, QuietKeepsWhole DEF CancelTask, genVars, WholeInv, Bounded
<1>7. QED
  BY <1>1, <1>2, <1>3, <1>4, <1>5, <1>6 DEF RunPipe

\* The generator takes an event and sends what may be sent of it.
LEMMA TakingKeepsWhole ==
  ASSUME StreamInv, WholeInv, gen = "loop", gen' = gen, UNCHANGED <<late, pipe, emitted>>,
         queue # <<>>, Head(queue) \in Emitted, queue' = Tail(queue),
         buffer' \in Nat,
         NEW next \in Seq([kind : FrameKinds, n : 0..MaxEvents]), sent' = next, ~Shows(next, "answer"),
         Carried(next) \in Seq(Emitted),
         Carried(next) \o Tokens(buffer') = Append(Carried(sent) \o Tokens(buffer), Head(queue))
  PROVE  WholeInv'
<1>1. PICK q \in Seq(Emitted) : Queued(q) /\ (Carried(sent) \o Tokens(buffer)) \o q = emitted
  BY DEF WholeInv, Flowing
<1>2. /\ q # <<>> /\ Head(q) = Head(queue) /\ Tail(q) \in Seq(Emitted)
      /\ Tail(queue) = Tail(q)
           \/ (pipe = "ended" /\ \E e \in Terminals : Tail(queue) = Append(Tail(q), e))
  BY <1>1, HeadOfTheQueue
<1>3. PICK a \in Seq(Emitted) : a = Carried(sent) \o Tokens(buffer)
  <2>1. Carried(sent) \in Seq(Emitted) /\ Tokens(buffer) \in Seq(Emitted)
    BY OneMoreToken DEF WholeInv, Bounded, StreamInv, StreamTypes
  <2>2. QED
    BY <2>1, ConcatProperties
<1>4. PICK r \in Seq(Emitted) : r = Tail(q)
  BY <1>2
<1>5. PICK n \in Nat : n = buffer'
  OBVIOUS
<1>6. (Carried(next) \o Tokens(n)) \o r = emitted
  <2>1. Append(a, Head(q)) \o r = a \o q
    BY <1>2, <1>4, HeadGoesFirst
  <2>2. a \o q = emitted
    BY <1>1, <1>3
  <2>3. Carried(next) \o Tokens(n) = Append(a, Head(q))
    BY <1>2, <1>3, <1>5
  <2>4. QED
    BY <2>1, <2>2, <2>3
<1>7. Queued(r)'
  BY <1>2, <1>4 DEF Queued
<1>8. emitted \in Seq(Emitted) /\ Len(emitted) <= MaxEvents
  BY DEF WholeInv, Bounded
<1>9. Len(Carried(next)) + n + Len(r) = Len(emitted) /\ Len(Carried(next)) \in Nat
      /\ Len(r) \in Nat /\ Len(emitted) \in Nat
  <2>1. PICK c \in Seq(Emitted) : c = Carried(next)
    OBVIOUS
  <2>2. Len((c \o Tokens(n)) \o r) = Len(c) + n + Len(r) /\ Len(c) \in Nat /\ Len(r) \in Nat
    BY ForwardedIsBounded
  <2>3. (c \o Tokens(n)) \o r = emitted
    BY <1>6, <2>1
  <2>4. Len(emitted) \in Nat
    BY <1>8, LenProperties
  <2>5. QED
    BY <2>1, <2>2, <2>3, <2>4
<1>10. n <= MaxEvents
  BY <1>8, <1>9, MaxEventsIsNatural
<1>11. Bounded'
  BY <1>5, <1>8, <1>10 DEF WholeInv, Bounded
<1>12. Flowing'
  BY <1>5, <1>6, <1>7 DEF Flowing
<1>13. QED
  BY <1>11, <1>12 DEF WholeInv, AllIsTold

\* Leaving the loop with a frame after the flush: if it is the answer, the queue
\* held nothing but the end of the answer.
LEMMA LastFrameKeepsWhole ==
  ASSUME StreamInv, WholeInv, gen = "loop", gen' = "closing", UNCHANGED <<late, pipe, emitted>>,
         buffer' = 0, NEW event, sent' = Append(Flushed, TerminalFrame(event)),
         event = "__done__" => queue # <<>> /\ Head(queue) = event
  PROVE  WholeInv'
<1>1. PICK kind \in FrameKinds : TerminalFrame(event) = Frame(kind, 0)
        /\ kind \notin {"token", "meta"} /\ (kind = "answer" <=> event = "__done__")
  BY DEF TerminalFrame, FrameKinds
<1>2. /\ Flushed \in Seq(Frames) /\ Carried(Flushed) \in Seq(Emitted)
      /\ Carried(Flushed) = Carried(sent) \o Tokens(buffer)
      /\ Flushed \in Seq([kind : FrameKinds, n : 0..MaxEvents])
  BY FlushedCarries DEF StreamInv, WholeInv
<1>3. PICK s \in Seq([kind : FrameKinds, n : 0..MaxEvents]) : s = Append(Flushed, Frame(kind, 0))
  <2>1. Frame(kind, 0) \in [kind : FrameKinds, n : 0..MaxEvents]
    BY MaxEventsIsNatural DEF Frame
  <2>2. QED
    BY <1>2, <2>1, AppendProperties
<1>4. Carried(s) = Carried(Flushed) /\ Carried(s) \in Seq(Emitted)
  BY <1>1, <1>2, <1>3, FrameCarries
<1>5. sent' = s
  BY <1>1, <1>3
<1>6. Bounded'
  <2>1. buffer' <= MaxEvents
    BY MaxEventsIsNatural
  <2>2. QED
    BY <1>4, <1>5, <2>1 DEF WholeInv, Bounded
<1>7. ASSUME Shows(s, "answer")
      PROVE  Last(s).kind = "answer" /\ Carried(s) = emitted
  <2>1. ~Shows(sent, "answer")
    BY DEF StreamInv, Told, Terminals, FrameOf
  <2>2. Frame(kind, 0) \in Frames /\ Frame(kind, 0).kind = kind
    BY <1>1 DEF Frame, Frames
  <2>3. kind = "answer"
    BY <1>3, <1>7, <2>1, <2>2, FlushThenShows DEF StreamInv
  <2>4. Last(s).kind = "answer"
    BY <1>2, <1>3, <2>2, <2>3, AppendProperties DEF Last
  <2>5. PICK q \in Seq(Emitted) : Queued(q) /\ (Carried(sent) \o Tokens(buffer)) \o q = emitted
    BY DEF WholeInv, Flowing
  <2>6. q = <<>>
    BY <1>1, <2>3, <2>5, HeadOfTheQueue DEF Terminals
  <2>7. Carried(Flushed) \o <<>> = Carried(Flushed)
    BY <1>2, ConcatEmptySeq
  <2>8. QED
    BY <1>2, <1>4, <2>4, <2>5, <2>6, <2>7
<1>8. AllIsTold'
  BY <1>5, <1>7 DEF AllIsTold
<1>9. Flowing'
  BY DEF Flowing
<1>10. QED
  BY <1>6, <1>8, <1>9 DEF WholeInv

\* The steps of the generator.
LEMMA GenerateKeepsWhole ==
  ASSUME StreamInv, WholeInv, gen # "none", Generate
  PROVE  WholeInv'
<1>0. /\ sent \in Seq(Frames) /\ buffer \in Nat /\ Carried(sent) \in Seq(Emitted) /\ late \in BOOLEAN
      /\ sent \in Seq([kind : FrameKinds, n : 0..MaxEvents]) /\ Tokens(buffer) \in Seq(Emitted)
  BY OneMoreToken DEF StreamInv, StreamTypes, WholeInv, Bounded
<1>00. gen = "loop" => ~Shows(sent, "answer")
  BY DEF StreamInv, Told, Terminals, FrameOf
<1>1. CASE Ack
  <2>1. /\ sent' = <<Frame("ack", 0)>> /\ queue = <<>> /\ buffer = 0 /\ emitted = <<>>
        /\ gen' = "loop" /\ UNCHANGED <<late, queue, buffer, emitted>>
    BY <1>1 DEF Ack, StreamInv, Beginning, WholeInv, Flowing
  <2>2. "ack" \in FrameKinds /\ "ack" \notin {"token", "meta"} /\ <<>> \in Seq(Frames) /\ <<>> \in Seq(Emitted)
    BY DEF FrameKinds
  <2>3. PICK s : s = Append(<<>>, Frame("ack", 0))
    OBVIOUS
  <2>4. Carried(s) = <<>>
    BY <2>2, <2>3, CarriedByNone, FrameCarries
  <2>5. sent' = s
    BY <2>1, <2>3
  <2>6. s \in Seq([kind : FrameKinds, n : 0..MaxEvents])
    <3>1. Frame("ack", 0) \in [kind : FrameKinds, n : 0..MaxEvents]
      BY <2>2, MaxEventsIsNatural DEF Frame
    <3>2. QED
      BY <2>3, <3>1
  <2>7. Bounded'
    BY <2>1, <2>2, <2>4, <2>5, <2>6 DEF WholeInv, Bounded
  <2>8. Flowing'
    <3>1. (<<>> \o Tokens(0)) \o <<>> = <<>>
      BY OneMoreToken, <2>2, ConcatEmptySeq
    <3>2. Queued(<<>>)'
      BY <2>1 DEF Queued
    <3>3. QED
      BY <2>1, <2>2, <2>4, <2>5, <3>1, <3>2 DEF Flowing
  <2>9. ~Shows(s, "answer")
    BY <2>3 DEF Shows, Frame
  <2>10. QED
    BY <2>5, <2>7, <2>8, <2>9 DEF WholeInv, AllIsTold
<1>2. CASE TakeToken
  <2>1. /\ gen = "loop" /\ gen' = gen /\ UNCHANGED <<late, pipe, emitted>>
        /\ queue # <<>> /\ Head(queue) = "token" /\ queue' = Tail(queue) /\ "token" \in Emitted
    BY <1>2 DEF TakeToken, pipeVars, Emitted
  <2>2. PICK a \in Seq(Emitted) : a = Carried(sent) \o Tokens(buffer + 1)
    <3>1. buffer + 1 \in Nat
      BY <1>0
    <3>2. QED
      BY <1>0, <3>1, OneMoreToken, ConcatProperties
  <2>3. a = Append(Carried(sent) \o Tokens(buffer), Head(queue))
    <3>1. Tokens(buffer + 1) = Append(Tokens(buffer), "token")
      BY <1>0, OneMoreToken
    <3>2. Carried(sent) \o Append(Tokens(buffer), "token") = Append(Carried(sent) \o Tokens(buffer), "token")
      BY <1>0, <2>1, AppendGoesLast
    <3>3. QED
      BY <2>1, <2>2, <3>1, <3>2
  <2>4. CASE buffer' = buffer + 1 /\ sent' = sent
    <3>1. buffer' \in Nat /\ Carried(sent) \o Tokens(buffer') = a
      BY <1>0, <2>2, <2>4
    <3>2. QED
      BY <1>0, <1>00, <2>1, <2>3, <2>4, <3>1, TakingKeepsWhole
  <2>5. CASE buffer' = 0 /\ sent' = Append(sent, Frame("token", buffer + 1))
    <3>1. PICK n \in Nat : n = buffer + 1
      BY <1>0
    <3>2. n <= MaxEvents
      <4>1. PICK q \in Seq(Emitted) : Queued(q) /\ (Carried(sent) \o Tokens(buffer)) \o q = emitted
        BY <2>1 DEF WholeInv, Flowing
      <4>2. q # <<>>
        BY <2>1, <4>1, HeadOfTheQueue
      <4>3. PICK c \in Seq(Emitted) : c = Carried(sent)
        BY <1>0
      <4>4. PICK b \in Nat : b = buffer
        BY <1>0
      <4>5. Len((c \o Tokens(b)) \o q) = Len(c) + b + Len(q) /\ Len(c) \in Nat
        BY ForwardedIsBounded
      <4>6. (c \o Tokens(b)) \o q = emitted
        BY <4>1, <4>3, <4>4
      <4>7. Len(q) \in Nat \ {0}
        BY <4>2, EmptySeq
      <4>8. Len(emitted) <= MaxEvents /\ Len(emitted) \in Nat
        BY LenProperties DEF WholeInv, Bounded
      <4>9. QED
        BY <3>1, <4>4, <4>5, <4>6, <4>7, <4>8, MaxEventsIsNatural
    <3>3. "token" \in FrameKinds
      BY DEF FrameKinds
    <3>4. PICK s \in Seq([kind : FrameKinds, n : 0..MaxEvents]) : s = Append(sent, Frame("token", n))
      <4>1. Frame("token", n) \in [kind : FrameKinds, n : 0..MaxEvents]
        BY <3>2, <3>3 DEF Frame
      <4>2. QED
        BY <1>0, <4>1, AppendProperties
    <3>5. Carried(s) = Carried(sent) \o Tokens(n) /\ Carried(s) \in Seq(Emitted)
      BY <1>0, <3>3, <3>4, FrameCarries
    <3>6. Carried(s) \o Tokens(0) = a
      BY <2>2, <3>1, <3>5, OneMoreToken, ConcatEmptySeq
    <3>7. ~Shows(s, "answer")
      <4>1. Frame("token", n) \in Frames /\ Frame("token", n).kind = "token"
        BY <3>3 DEF Frame, Frames
      <4>2. QED
        BY <1>0, <1>00, <2>1, <3>4, <4>1, AppendShows
    <3>8. sent' = s /\ buffer' \in Nat /\ Carried(s) \o Tokens(buffer') = a
      BY <2>5, <3>1, <3>4, <3>6
    <3>9. QED
      BY <2>1, <2>3, <3>5, <3>7, <3>8, TakingKeepsWhole
  <2>6. QED
    BY <1>2, <2>4, <2>5 DEF TakeToken
<1>3. CASE TakeMeta
  <2>1. /\ gen = "loop" /\ gen' = gen /\ UNCHANGED <<late, pipe, emitted>> /\ buffer' = 0
        /\ queue # <<>> /\ Head(queue) = "meta" /\ queue' = Tail(queue) /\ "meta" \in Emitted
        /\ sent' = Append(Flushed, Frame("meta", 0))
    BY <1>3 DEF TakeMeta, pipeVars, Emitted
  <2>2. /\ Flushed \in Seq(Frames) /\ Carried(Flushed) \in Seq(Emitted)
        /\ Carried(Flushed) = Carried(sent) \o Tokens(buffer)
        /\ Flushed \in Seq([kind : FrameKinds, n : 0..MaxEvents])
    BY FlushedCarries DEF StreamInv, WholeInv
  <2>3. "meta" \in FrameKinds
    BY DEF FrameKinds
  <2>4. PICK s \in Seq([kind : FrameKinds, n : 0..MaxEvents]) : s = Append(Flushed, Frame("meta", 0))
    <3>1. Frame("meta", 0) \in [kind : FrameKinds, n : 0..MaxEvents]
      BY <2>3, MaxEventsIsNatural DEF Frame
    <3>2. QED
      BY <2>2, <3>1, AppendProperties
  <2>5. Carried(s) = Append(Carried(Flushed), "meta") /\ Carried(s) \in Seq(Emitted)
    BY <2>2, <2>3, <2>4, FrameCarries
  <2>6. Carried(s) \o Tokens(0) = Append(Carried(sent) \o Tokens(buffer), Head(queue))
    BY <2>1, <2>2, <2>5, OneMoreToken, ConcatEmptySeq
  <2>7. ~Shows(s, "answer")
    <3>1. Frame("meta", 0) \in Frames /\ Frame("meta", 0).kind = "meta"
      BY <2>3 DEF Frame, Frames
    <3>2. \A kind : Shows(s, kind) => Shows(sent, kind) \/ kind \in {"token", "meta"}
      BY <2>4, <3>1, FlushThenShows DEF StreamInv
    <3>3. QED
      BY <1>00, <2>1, <3>2
  <2>8. sent' = s /\ buffer' \in Nat
    BY <2>1, <2>4
  <2>9. QED
    BY <2>1, <2>5, <2>6, <2>7, <2>8, TakingKeepsWhole
<1>4. CASE TakeTerminal
  BY <1>4, LastFrameKeepsWhole DEF TakeTerminal, pipeVars, Leave
<1>5. CASE SeeDeadline
  <2> DEFINE event == IF queue = <<>> THEN "__timeout__" ELSE Head(queue)
  <2>1. /\ gen = "loop" /\ gen' = "closing" /\ UNCHANGED <<late, pipe, emitted>> /\ buffer' = 0
        /\ sent' = Append(Flushed, TerminalFrame(event))
    BY <1>5 DEF SeeDeadline, pipeVars, Leave
  <2>2. event = "__done__" => queue # <<>> /\ Head(queue) = event
    OBVIOUS
  <2> HIDE DEF event
  <2>3. QED
    BY <2>1, <2>2, LastFrameKeepsWhole
<1>6. CASE CloseAtAck \/ SeeDisconnect \/ StopWaiting \/ TeardownCommit \/ TeardownReturn
             \/ TeardownFails \/ TeardownCancelled
  <2>1. UNCHANGED <<queue, buffer, sent, emitted, late, pipe>> /\ gen' \notin {"none", "ack", "loop"}
    BY <1>6 DEF CloseAtAck, SeeDisconnect, StopWaiting, TeardownCommit, TeardownReturn,
       TeardownFails, TeardownCancelled, pipeVars, Leave
  <2>2. QED
    BY <1>0, <2>1, QuietKeepsWhole
<1>7. QED
  BY <1>1, <1>2, <1>3, <1>4, <1>5, <1>6 DEF Generate

\* The invariant holds at every step of the request.
LEMMA WholeInvIsInductive == RequestInv /\ WholeInv /\ [NextEntry]_allVars => WholeInv'
<1> SUFFICES ASSUME RequestInv, WholeInv, [NextEntry]_allVars
             PROVE  WholeInv'
  OBVIOUS
<1>0. StreamInv /\ late \in BOOLEAN
  BY DEF RequestInv, WholeInv, Bounded
<1>1. CASE UNCHANGED vars
  BY <1>0, <1>1, QuietKeepsWhole DEF vars
<1>2. CASE Reserve \/ OpenStream \/ AnswerJson \/ RefuseJson
  <2>1. UNCHANGED <<queue, buffer, sent, emitted, late, pipe>> /\ (gen' = gen \/ gen' = "ack")
    BY <1>2 DEF Reserve, OpenStream, AnswerJson, RefuseJson, Settles, genVars
  <2>2. gen' = "ack" => gen \in {"none", "ack"}
    BY <1>2, <2>1 DEF Reserve, OpenStream, AnswerJson, RefuseJson, Settles, genVars, Enters, At,
       RequestInv, TurnFits
  <2>3. QED
    BY <1>0, <2>1, <2>2, QuietKeepsWhole
<1>3. CASE gen # "none" /\ Next
  <2>1. CASE RunPipe
    BY <1>0, <1>3, <2>1, PipeKeepsWhole
  <2>2. CASE Generate
    BY <1>0, <1>3, <2>2, GenerateKeepsWhole
  <2>3. CASE CancelScope \/ Disconnect \/ DeadlinePasses
    BY <1>0, <2>3, QuietKeepsWhole DEF CancelScope, Disconnect, DeadlinePasses, pipeVars
  <2>4. QED
    BY <1>3, <2>1, <2>2, <2>3 DEF Next
<1>4. QED
  <2>1. CASE Authorize \/ Preflight \/ Scope \/ ResolveRole \/ CheckQueries \/ CheckMints
               \/ RunJson \/ PipelineEnds \/ CutJson \/ NextWindow
    BY <1>1, <2>1 DEF Authorize, Preflight, Scope, ResolveRole, CheckQueries, CheckMints, CheckWindow,
       RunJson, PipelineEnds, CutJson, NextWindow, Goes
  <2>2. ASSUME NEW k \in Kinds, Neighbour(k)
        PROVE  WholeInv'
    BY <1>1, <2>2 DEF Neighbour
  <2>3. CASE UNCHANGED allVars
    BY <1>1, <2>3 DEF allVars
  <2>4. QED
    BY <1>2, <1>3, <2>1, <2>2, <2>3 DEF NextEntry, Enter

\* The stream the client concatenates is the whole answer, every event in its
\* place and nothing after it, for any number of events and of tokens held back.
THEOREM AnswersAreWhole == SpecEntry => []AnswerIsWhole
<1>1. InitEntry => WholeInv
  <2> SUFFICES ASSUME InitEntry
               PROVE  WholeInv
    OBVIOUS
  <2>1. Bounded
    <3>1. late = FALSE /\ buffer = 0 /\ sent = <<>> /\ emitted = <<>>
      BY DEF InitEntry, Init
    <3>2. Carried(sent) = <<>> /\ Len(emitted) = 0 /\ <<>> \in Seq(Emitted)
      BY <3>1, CarriedByNone
    <3>3. sent \in Seq([kind : FrameKinds, n : 0..MaxEvents])
      BY <3>1, EmptySeq, Zenon
    <3>4. 0 <= MaxEvents
      BY MaxEventsIsNatural
    <3>5. late \in BOOLEAN /\ buffer <= MaxEvents /\ Len(emitted) <= MaxEvents
      BY <3>1, <3>2, <3>4
    <3>6. emitted \in Seq(Emitted) /\ Carried(sent) \in Seq(Emitted)
      BY <3>1, <3>2
    <3>7. QED
      BY <3>3, <3>5, <3>6 DEF Bounded
  <2>2. Flowing /\ AllIsTold
    BY EmptyHolds DEF InitEntry, Init, Flowing, AllIsTold
  <2>3. QED
    BY <2>1, <2>2 DEF WholeInv
<1>2. RequestInv /\ WholeInv => AnswerIsWhole
  <2> SUFFICES ASSUME RequestInv, WholeInv
               PROVE  AnswerIsWhole
    OBVIOUS
  <2>1. TypeOK
    BY MaxEventsIsNatural DEF RequestInv, StreamInv, StreamTypes, WholeInv, Bounded, TypeOK, Events
  <2>2. Sent("answer") <=> Shows(sent, "answer")
    BY DEF Sent, Shows
  <2>3. QED
    BY <2>1, <2>2 DEF WholeInv, AllIsTold, AnswerIsWhole
<1>3. QED
  BY <1>1, <1>2, WholeInvIsInductive, RequestInvHolds, PTL DEF SpecEntry

-------------------------------------------------------------------------------
(***************************************************************************)
(* The contexts of the conversations.                                      *)
(***************************************************************************)

Reviews == {"unset", "yes", "no"}

\* A context whose history agrees with its counters: it asked as often as it
\* counts, turns since are turns since, and a given phone means it was handed over.
SoundContexts ==
  {c \in [state : States, phone : BOOLEAN, reviewed : Reviews, useful : 0..3, since : 0..2,
          shown : 0..AskMax, asks : Nat, gap : Nat, wrong : BOOLEAN] :
     c.asks = c.shown /\ c.gap = c.since /\ ~c.wrong /\ (c.phone => c.state = "handoff_done")}

Entries == [key : Keys, id : Ids]

Caches ==
  {s \in Seq(Entries) :
     /\ Len(s) <= SessionsMax
     /\ \A i, j \in 1..Len(s) : s[i].key = s[j].key => i = j}

MemoryFits(m) ==
  /\ {"cache", "heap"} \subseteq DOMAIN m
  /\ m.cache \in Caches /\ m.heap \in [Ids -> SoundContexts]

KeepsPhones(h, g, S) == \A i \in S : h[i].phone => g[i].phone

\* The contexts that the memory and the turns refer to.
Used(m) == Ids \cap InUse(m.cache, turn)

\* A turn that waits for the model took the phone from the context it holds.
TurnHolds(t, h) ==
  /\ t.step \in {"idle", "extract", "inner"}
  /\ t.step # "idle" => t.key \in Keys
  /\ t.ctx \in Ids \cup {0}
  /\ t.step = "extract" => /\ t.ctx \in Ids /\ t.slots.phone \in BOOLEAN /\ t.slots.reviewed \in Reviews
                           /\ t.slots.phone => h[t.ctx].phone

TalkInv ==
  /\ MemoryFits(Memory)
  /\ DOMAIN turn = Workers
  /\ \A w \in Workers : TurnHolds(turn[w], heap)

LEMMA CountsAreNumbers ==
  /\ SessionsMax \in Nat \ {0} /\ AskMax \in Nat
  /\ Cardinality(Workers) \in Nat /\ IsFiniteSet(Workers) /\ 1 \in Ids
<1>1. Cardinality(Workers) \in Nat
  BY WorkersAreFinite, FS_CardinalityType
<1>2. QED
  BY <1>1, CapacityIsPositive, AsksAreCounted, WorkersAreFinite DEF Ids

LEMMA CachedEntries ==
  ASSUME NEW entries \in Caches
  PROVE  /\ DOMAIN entries = 1..Len(entries) /\ Len(entries) \in Nat
         /\ \A i \in DOMAIN entries : entries[i].key \in Keys /\ entries[i].id \in Ids
<1>1. entries \in Seq(Entries)
  BY DEF Caches
<1>2. \A i \in DOMAIN entries : entries[i] \in Entries
  BY <1>1
<1>3. QED
  BY <1>1, <1>2 DEF Entries

\* There are more ids than the cache and the turns can refer to.
LEMMA SomeIdIsFree ==
  ASSUME NEW entries \in Caches, NEW served
  PROVE  Ids \ InUse(entries, served) # {}
<1>1. /\ DOMAIN entries = 1..Len(entries) /\ Len(entries) \in Nat /\ Len(entries) <= SessionsMax
  BY DEF Caches
<1> DEFINE A == {entries[i].id : i \in DOMAIN entries}
           B == {served[w].ctx : w \in Workers}
           f == [i \in DOMAIN entries |-> entries[i].id]
           g == [w \in Workers |-> served[w].ctx]
<1>2. /\ IsFiniteSet(DOMAIN entries) /\ Cardinality(DOMAIN entries) = Len(entries)
  <2>1. /\ IsFiniteSet(1..Len(entries))
        /\ Cardinality(1..Len(entries)) = IF 1 > Len(entries) THEN 0 ELSE Len(entries) - 1 + 1
    BY <1>1, FS_Interval
  <2>2. QED
    BY <1>1, <2>1
<1>3. f \in Surjection(DOMAIN entries, A)
  BY DEF Surjection
<1>4. g \in Surjection(Workers, B)
  BY DEF Surjection
<1>5. IsFiniteSet(A) /\ Cardinality(A) <= Len(entries)
  <2> HIDE DEF A, f
  <2> QED
    BY <1>2, <1>3, FS_Surjection
<1>6. IsFiniteSet(B) /\ Cardinality(B) <= Cardinality(Workers)
  <2> HIDE DEF B, g
  <2> QED
    BY <1>4, CountsAreNumbers, FS_Surjection
<1>7. InUse(entries, served) = A \cup (B \ {0})
  BY DEF InUse
<1> HIDE DEF A, B, f, g
<1>8. /\ IsFiniteSet(A \cup B) /\ Cardinality(A \cup B) \in Nat
      /\ Cardinality(A \cup B) <= SessionsMax + Cardinality(Workers)
  <2>1. /\ IsFiniteSet(A \cup B)
        /\ Cardinality(A \cup B) = Cardinality(A) + Cardinality(B) - Cardinality(A \cap B)
    BY <1>5, <1>6, FS_Union
  <2>2. IsFiniteSet(A \cap B)
    BY <1>5, FS_Subset
  <2>3. /\ Cardinality(A \cup B) \in Nat /\ Cardinality(A \cap B) \in Nat
        /\ Cardinality(A) \in Nat /\ Cardinality(B) \in Nat
    BY <1>5, <1>6, <2>1, <2>2, FS_CardinalityType
  <2>4. QED
    BY <1>1, <1>5, <1>6, <2>1, <2>3, CountsAreNumbers
<1>9. Cardinality(Ids) = SessionsMax + Cardinality(Workers) + 1
  <2>1. /\ 1 \in Int /\ SessionsMax + Cardinality(Workers) + 1 \in Int
        /\ ~(1 > SessionsMax + Cardinality(Workers) + 1)
    BY CountsAreNumbers
  <2>2. QED
    BY <2>1, FS_Interval, CountsAreNumbers DEF Ids
<1>10. SUFFICES ASSUME Ids \subseteq A \cup B
                PROVE  FALSE
  BY <1>7
<1>11. Ids \in SUBSET (A \cup B)
  BY <1>10
<1>12. Cardinality(Ids) <= Cardinality(A \cup B)
  BY <1>8, <1>11, FS_Subset
<1>13. QED
  BY <1>8, <1>9, <1>12, CountsAreNumbers

\* Reading changes the order only.
LEMMA TouchKeepsCache ==
  ASSUME NEW entries \in Caches, NEW key
  PROVE  /\ Touch(entries, key) \in Caches
         /\ Cached(entries, key) # {} => Cached(Touch(entries, key), key) # {}
<1>1. CASE Cached(entries, key) = {}
  BY <1>1 DEF Touch
<1>2. CASE Cached(entries, key) # {}
  <2>1. /\ entries \in Seq(Entries) /\ Len(entries) \in Nat /\ DOMAIN entries = 1..Len(entries)
        /\ Len(entries) <= SessionsMax
        /\ \A i, j \in 1..Len(entries) : entries[i].key = entries[j].key => i = j
        /\ \A i \in 1..Len(entries) : entries[i] \in Entries
    BY DEF Caches
  <2>2. Place(entries, key) \in Cached(entries, key)
    BY <1>2 DEF Place
  <2>3. PICK p : p = Place(entries, key)
    OBVIOUS
  <2>4. p \in 1..Len(entries) /\ entries[p].key = key
    BY <2>1, <2>2, <2>3 DEF Cached
  <2> DEFINE g == [j \in 1..Len(entries) |-> IF j < p THEN entries[j]
                     ELSE IF j < Len(entries) THEN entries[j + 1] ELSE entries[p]]
             from == [j \in 1..Len(entries) |-> IF j < p THEN j ELSE IF j < Len(entries) THEN j + 1 ELSE p]
  <2>5. Touch(entries, key) = g
    BY <1>2, <2>1, <2>3 DEF Touch, Entry
  <2>6. /\ from \in [1..Len(entries) -> 1..Len(entries)]
        /\ \A i, j \in 1..Len(entries) : from[i] = from[j] => i = j
        /\ from[Len(entries)] = p
    <3>1. Len(entries) \in Nat /\ p \in 1..Len(entries)
      BY <2>1, <2>4
    <3>2. \A j \in 1..Len(entries) : from[j] = IF j < p THEN j ELSE IF j < Len(entries) THEN j + 1 ELSE p
      OBVIOUS
    <3>3. DOMAIN from = 1..Len(entries) /\ from = [j \in 1..Len(entries) |-> from[j]]
      OBVIOUS
    <3> HIDE DEF from, g
    <3>4. \A j \in 1..Len(entries) : from[j] \in 1..Len(entries)
      BY <3>1, <3>2
    <3>5. from \in [1..Len(entries) -> 1..Len(entries)]
      BY <3>3, <3>4
    <3>6. \A i, j \in 1..Len(entries) : from[i] = from[j] => i = j
      BY <3>1, <3>2
    <3>7. from[Len(entries)] = p
      BY <3>1, <3>2
    <3>8. QED
      BY <3>5, <3>6, <3>7
  <2>7. \A j \in 1..Len(entries) : g[j] = entries[from[j]]
    OBVIOUS
  <2>8. DOMAIN g = 1..Len(entries) /\ g = [j \in 1..Len(entries) |-> g[j]]
    OBVIOUS
  <2> HIDE DEF g, from
  <2>9. g \in Seq(Entries) /\ Len(g) = Len(entries)
    <3>1. \A j \in 1..Len(entries) : g[j] \in Entries
      BY <2>1, <2>6, <2>7
    <3>2. g \in [1..Len(entries) -> Entries]
      BY <2>8, <3>1
    <3>3. QED
      BY <2>1, <3>2
  <2>10. \A i, j \in 1..Len(g) : g[i].key = g[j].key => i = j
    <3>1. SUFFICES ASSUME NEW i \in 1..Len(entries), NEW j \in 1..Len(entries), g[i].key = g[j].key
                   PROVE  i = j
      BY <2>9
    <3>2. /\ from[i] \in 1..Len(entries) /\ from[j] \in 1..Len(entries)
          /\ entries[from[i]].key = entries[from[j]].key
      BY <2>6, <2>7, <3>1
    <3>3. from[i] = from[j]
      BY <2>1, <3>2
    <3>4. QED
      BY <2>6, <3>3
  <2>11. Cached(g, key) # {}
    <3>1. Len(entries) \in 1..Len(entries)
      BY <2>4, <2>1
    <3>2. Len(entries) \in DOMAIN g /\ g[Len(entries)].key = key
      BY <2>4, <2>6, <2>7, <2>8, <3>1
    <3>3. QED
      BY <3>2 DEF Cached
  <2>12. QED
    BY <2>1, <2>5, <2>9, <2>10, <2>11 DEF Caches
<1>3. QED
  BY <1>1, <1>2

\* A context that is put is found, and the capacity is kept.
LEMMA PutKeepsCache ==
  ASSUME NEW entries \in Caches, NEW e \in Entries
  PROVE  Put(entries, e) \in Caches /\ Cached(Put(entries, e), e.key) # {}
<1>1. /\ entries \in Seq(Entries) /\ Len(entries) \in Nat /\ DOMAIN entries = 1..Len(entries)
      /\ Len(entries) <= SessionsMax /\ SessionsMax \in Nat \ {0}
      /\ \A i, j \in 1..Len(entries) : entries[i].key = entries[j].key => i = j
      /\ \A i \in 1..Len(entries) : entries[i] \in Entries
  BY CountsAreNumbers DEF Caches
<1>2. CASE Cached(entries, e.key) = {}
  <2>1. \A i \in 1..Len(entries) : entries[i].key # e.key
    BY <1>1, <1>2 DEF Cached
  <2>2. PICK l : l = Append(entries, e)
    OBVIOUS
  <2>3. /\ l \in Seq(Entries) /\ Len(l) = Len(entries) + 1 /\ l[Len(entries) + 1] = e
        /\ \A i \in 1..Len(entries) : l[i] = entries[i]
    BY <1>1, <2>2
  <2>4. \A i, j \in 1..Len(l) : l[i].key = l[j].key => i = j
    BY <1>1, <2>1, <2>3
  <2>5. Put(entries, e) = IF Len(l) > SessionsMax THEN Tail(l) ELSE l
    BY <1>2, <2>2 DEF Put
  <2>6. CASE Len(l) > SessionsMax
    <3>1. PICK t : t = Tail(l)
      OBVIOUS
    <3>2. /\ t \in Seq(Entries) /\ Len(t) = Len(entries) /\ \A i \in 1..Len(t) : t[i] = l[i + 1]
      BY <2>3, <3>1
    <3>3. \A i, j \in 1..Len(t) : t[i].key = t[j].key => i = j
      <4>1. SUFFICES ASSUME NEW i \in 1..Len(t), NEW j \in 1..Len(t), t[i].key = t[j].key
                     PROVE  i = j
        OBVIOUS
      <4>2. i + 1 \in 1..Len(l) /\ j + 1 \in 1..Len(l) /\ l[i + 1].key = l[j + 1].key
        BY <1>1, <2>3, <3>2, <4>1
      <4>3. i + 1 = j + 1
        BY <2>4, <4>2
      <4>4. QED
        BY <1>1, <3>2, <4>3
    <3>4. Len(entries) \in DOMAIN t /\ t[Len(entries)] = e
      BY <1>1, <2>3, <2>6, <3>2
    <3>5. Cached(t, e.key) # {}
      BY <3>4 DEF Cached
    <3>6. t \in Caches
      BY <1>1, <3>2, <3>3 DEF Caches
    <3>7. QED
      BY <2>5, <2>6, <3>1, <3>5, <3>6
  <2>7. CASE ~(Len(l) > SessionsMax)
    <3>1. Len(entries) + 1 \in DOMAIN l
      BY <1>1, <2>3
    <3>2. Cached(l, e.key) # {}
      BY <2>3, <3>1 DEF Cached
    <3>3. l \in Caches
      BY <1>1, <2>3, <2>4, <2>7 DEF Caches
    <3>4. QED
      BY <2>5, <2>7, <3>2, <3>3
  <2>8. QED
    BY <2>6, <2>7
<1>3. CASE Cached(entries, e.key) # {}
  <2>1. PICK l : l = [i \in DOMAIN entries |-> IF entries[i].key = e.key THEN e ELSE entries[i]]
    OBVIOUS
  <2>2. /\ l \in Seq(Entries) /\ Len(l) = Len(entries)
        /\ \A i \in 1..Len(entries) : l[i] = IF entries[i].key = e.key THEN e ELSE entries[i]
    <3>1. l \in [1..Len(entries) -> Entries]
      BY <1>1, <2>1
    <3>2. QED
      BY <1>1, <2>1, <3>1
  <2>3. \A i \in 1..Len(entries) : l[i].key = entries[i].key
    BY <2>2
  <2>4. l \in Caches
    BY <1>1, <2>2, <2>3 DEF Caches
  <2>5. Cached(l, e.key) # {}
    <3>1. PICK i \in DOMAIN entries : entries[i].key = e.key
      BY <1>3 DEF Cached
    <3>2. i \in DOMAIN l /\ l[i].key = e.key
      BY <1>1, <2>1, <2>3, <3>1
    <3>3. QED
      BY <3>2 DEF Cached
  <2>6. Put(entries, e) = l
    <3>1. Put(entries, e) = IF Len(l) > SessionsMax THEN Tail(l) ELSE l
      BY <1>3, <2>1 DEF Put
    <3>2. QED
      BY <1>1, <2>2, <3>1
  <2>7. QED
    BY <2>4, <2>5, <2>6
<1>4. QED
  BY <1>2, <1>3

LEMMA FreshIsSound == Fresh \in SoundContexts
BY CountsAreNumbers DEF Fresh, SoundContexts, Reviews, States

\* What GetContext gives: the context the cache has, or a fresh one under an id that
\* nobody refers to.  A key that is cached and not old gets no new one.
LEMMA ContextIsGot ==
  ASSUME NEW m, MemoryFits(m), NEW key \in Keys, NEW old \in BOOLEAN
  PROVE  LET g == GetContext(m, key, old) IN
         /\ MemoryFits(g) /\ g.id \in Ids /\ Cached(g.cache, key) # {}
         /\ KeepsPhones(m.heap, g.heap, Used(m))
         /\ Cached(m.cache, key) # {} /\ ~old => g.heap = m.heap
<1> DEFINE touched == Touch(m.cache, key)
           id == CHOOSE i \in Ids \ InUse(m.cache, turn) : TRUE
<1>1. touched \in Caches /\ (Cached(m.cache, key) # {} => Cached(touched, key) # {})
  BY TouchKeepsCache DEF MemoryFits
<1>2. id \in Ids \ InUse(m.cache, turn)
  BY SomeIdIsFree DEF MemoryFits
<1>3. CASE Cached(touched, key) # {} /\ ~old
  <2>1. GetContext(m, key, old) = [cache |-> touched, heap |-> m.heap, id |-> Entry(touched, key).id]
    BY <1>3 DEF GetContext
  <2>2. Entry(touched, key).id \in Ids
    <3>1. Place(touched, key) \in DOMAIN touched
      BY <1>3 DEF Place, Cached
    <3>2. \A i \in DOMAIN touched : touched[i] \in Entries
      BY <1>1 DEF Caches
    <3>3. QED
      BY <3>1, <3>2 DEF Entry, Entries
  <2> HIDE DEF touched
  <2>3. QED
    BY <1>1, <1>3, <2>1, <2>2 DEF MemoryFits, KeepsPhones
<1>4. CASE ~(Cached(touched, key) # {} /\ ~old)
  <2> DEFINE e == [key |-> key, id |-> id]
  <2>1. GetContext(m, key, old) = [cache |-> Put(touched, e), heap |-> [m.heap EXCEPT ![id] = Fresh], id |-> id]
    BY <1>4 DEF GetContext
  <2>2. ~(Cached(m.cache, key) # {} /\ ~old)
    BY <1>1, <1>4
  <2> HIDE DEF touched, id
  <2>3. e \in Entries /\ e.key = key
    BY <1>2 DEF Entries
  <2>4. Put(touched, e) \in Caches /\ Cached(Put(touched, e), key) # {}
    BY <1>1, <2>3, PutKeepsCache
  <2> HIDE DEF e
  <2>5. PICK h : h = [m.heap EXCEPT ![id] = Fresh]
    OBVIOUS
  <2>6. m.heap \in [Ids -> SoundContexts]
    BY DEF MemoryFits
  <2>7. h \in [Ids -> SoundContexts]
    BY <1>2, <2>5, <2>6, FreshIsSound
  <2>8. KeepsPhones(m.heap, h, Used(m))
    BY <1>2, <2>5, <2>6 DEF KeepsPhones, Used
  <2>9. QED
    BY <1>2, <2>1, <2>2, <2>4, <2>5, <2>7, <2>8 DEF MemoryFits
<1>5. QED
  BY <1>3, <1>4

-------------------------------------------------------------------------------
(***************************************************************************)
(* What is written to a context.                                           *)
(***************************************************************************)

\* A written context is sound and has not forgotten the phone.
Improves(c, d) == d \in SoundContexts /\ (c.phone => d.phone)

LEMMA StatesAreStates ==
  ASSUME NEW c \in SoundContexts, NEW intent, NEW slot, NEW afford
  PROVE  /\ NextState(c, intent, slot, afford) \in States
         /\ c.state = "handoff_done" => NextState(c, intent, slot, afford) = "handoff_done"
<1>1. c.state \in States
  BY DEF SoundContexts
<1>2. CASE intent \in SideTracks \/ c.state = "handoff_done"
  <2>1. NextState(c, intent, slot, afford) = c.state
    BY <1>2, Zenon DEF NextState
  <2>2. QED
    BY <1>1, <2>1
<1>3. CASE ~(intent \in SideTracks \/ c.state = "handoff_done")
  <2>1. NextState(c, intent, slot, afford) =
           IF afford THEN "recommend"
           ELSE IF slot \/ (c.useful >= 3 /\ ~c.phone)
                THEN IF c.state \in {"recommend", "nurture"}
                     THEN IF slot THEN "recommend" ELSE "nurture"
                     ELSE "qualify"
                ELSE c.state
    BY <1>3, Zenon DEF NextState
  <2>2. QED
    BY <1>1, <1>3, <2>1 DEF States
<1>4. QED
  BY <1>2, <1>3

LEMMA TransitionImproves ==
  ASSUME NEW c \in SoundContexts, NEW q
  PROVE  Improves(c, Transition(c, q))
<1>1. PICK s : s = NextState(c, q.intent, q.slot, q.budget \/ q.intent = "price")
  OBVIOUS
<1>2. s \in States /\ (c.state = "handoff_done" => s = "handoff_done")
  BY <1>1, StatesAreStates
<1>3. PICK n : n = UpTo(c.since + 1, 2)
  OBVIOUS
<1>4. n \in 0..2 /\ n \in Nat /\ c.gap = c.since
  BY <1>3 DEF UpTo, SoundContexts
<1>5. Transition(c, q) = [c EXCEPT !.state = s, !.since = n, !.gap = n]
  BY <1>1, <1>3, <1>4 DEF Transition, SoundContexts
<1>6. PICK d : d = [c EXCEPT !.state = s, !.since = n, !.gap = n]
  OBVIOUS
<1>7. d \in [state : States, phone : BOOLEAN, reviewed : Reviews, useful : 0..3, since : 0..2,
             shown : 0..AskMax, asks : Nat, gap : Nat, wrong : BOOLEAN]
  BY <1>2, <1>4, <1>6, Zenon DEF SoundContexts
<1>8. /\ d.state = s /\ d.gap = n /\ d.since = n /\ d.phone = c.phone
      /\ d.asks = c.asks /\ d.shown = c.shown /\ d.wrong = c.wrong
  BY <1>6 DEF SoundContexts
<1>9. QED
  BY <1>2, <1>5, <1>6, <1>7, <1>8 DEF Improves, SoundContexts

LEMMA MergingImproves ==
  ASSUME NEW c \in SoundContexts, NEW slots,
         slots.phone \in BOOLEAN, slots.reviewed \in Reviews, slots.phone => c.phone
  PROVE  Improves(c, Merged(c, slots))
<1>1. PICK r : r = IF slots.reviewed = "unset" THEN c.reviewed ELSE slots.reviewed
  OBVIOUS
<1>2. r \in Reviews
  BY <1>1 DEF SoundContexts
<1>3. (c.phone \/ slots.phone) = c.phone
  BY DEF SoundContexts
<1>4. Merged(c, slots) = [c EXCEPT !.phone = c.phone, !.reviewed = r]
  BY <1>1, <1>3 DEF Merged
<1>5. QED
  BY <1>2, <1>4 DEF Improves, SoundContexts

LEMMA HintImproves ==
  ASSUME NEW c \in SoundContexts, NEW reviewed
  PROVE  Improves(c, Hinted(c, reviewed))
<1>1. CASE ~MayAsk(c, reviewed)
  BY <1>1 DEF Hinted, Improves
<1>2. CASE MayAsk(c, reviewed)
  <2>1. /\ ~c.phone /\ c.since >= 2 /\ c.shown < AskMax
        /\ c.shown \in 0..AskMax /\ c.asks = c.shown /\ c.gap = c.since /\ ~c.wrong /\ c.wrong \in BOOLEAN
        /\ c.since \in 0..2
    BY <1>2 DEF MayAsk, SoundContexts
  <2>2. PICK n : n = c.shown + 1
    OBVIOUS
  <2>3. n \in 0..AskMax /\ n \in Nat /\ UpTo(c.asks + 1, AskMax + 1) = n
    BY <2>1, <2>2, CountsAreNumbers DEF UpTo
  <2>4. (c.wrong \/ c.phone \/ c.gap < 2) = FALSE
    BY <2>1
  <2>5. PICK d : d = [c EXCEPT !.asks = n, !.gap = 0, !.wrong = FALSE]
    OBVIOUS
  <2>6. Seen(c) = d
    BY <2>3, <2>4, <2>5 DEF Seen
  <2>7. d.shown = c.shown /\ Asked(c) = [d EXCEPT !.shown = n, !.since = 0]
    BY <2>2, <2>5, <2>6 DEF Asked, SoundContexts
  <2>8. 0 \in Nat /\ 0 \in 0..2
    OBVIOUS
  <2>9. PICK a : a = [c EXCEPT !.asks = n, !.gap = 0, !.wrong = FALSE, !.shown = n, !.since = 0]
    OBVIOUS
  <2>10. a = [d EXCEPT !.shown = n, !.since = 0]
    BY <2>5, <2>9 DEF SoundContexts
  <2>11. a \in [state : States, phone : BOOLEAN, reviewed : Reviews, useful : 0..3, since : 0..2,
               shown : 0..AskMax, asks : Nat, gap : Nat, wrong : BOOLEAN]
    BY <2>3, <2>8, <2>9, Zenon DEF SoundContexts
  <2>12. /\ a.asks = n /\ a.shown = n /\ a.gap = 0 /\ a.since = 0 /\ a.wrong = FALSE
         /\ a.phone = c.phone
    BY <2>9 DEF SoundContexts
  <2>13. Improves(c, a)
    BY <2>1, <2>11, <2>12 DEF Improves, SoundContexts
  <2>14. QED
    BY <1>2, <2>7, <2>10, <2>13 DEF Hinted
<1>3. QED
  BY <1>1, <1>2

LEMMA NoteImproves ==
  ASSUME NEW c \in SoundContexts, NEW clean \in BOOLEAN
  PROVE  LET d == [c EXCEPT !.reviewed = IF clean THEN "no" ELSE "yes"] IN
         Improves(c, IF clean THEN NoteUseful(d) ELSE d)
<1>1. PICK r : r = IF clean THEN "no" ELSE "yes"
  OBVIOUS
<1>2. PICK d : d = [c EXCEPT !.reviewed = r]
  OBVIOUS
<1>3. d \in SoundContexts /\ d.phone = c.phone
  BY <1>1, <1>2 DEF SoundContexts, Reviews
<1>4. PICK n : n = UpTo(d.useful + 1, 3)
  OBVIOUS
<1>5. n \in 0..3
  BY <1>3, <1>4 DEF UpTo, SoundContexts
<1>6. NoteUseful(d) = [d EXCEPT !.useful = n]
  BY <1>4 DEF NoteUseful
<1>7. NoteUseful(d) \in SoundContexts /\ NoteUseful(d).phone = d.phone
  BY <1>3, <1>5, <1>6 DEF SoundContexts
<1>8. QED
  BY <1>1, <1>2, <1>3, <1>7 DEF Improves

LEMMA PhoneImproves ==
  ASSUME NEW c \in SoundContexts
  PROVE  Improves(c, PhoneGiven(c))
BY DEF Improves, PhoneGiven, SoundContexts, States

\* Writing one context to the memory.
LEMMA WithKeeps ==
  ASSUME NEW m, MemoryFits(m), NEW id \in Ids, NEW d, Improves(m.heap[id], d)
  PROVE  /\ MemoryFits(With(m, id, d)) /\ With(m, id, d).cache = m.cache
         /\ KeepsPhones(m.heap, With(m, id, d).heap, Ids)
         /\ With(m, id, d).heap[id] = d
<1>1. PICK h : h = [m.heap EXCEPT ![id] = d]
  OBVIOUS
<1>2. /\ With(m, id, d) = [m EXCEPT !.heap = h]
      /\ m.heap \in [Ids -> SoundContexts] /\ {"cache", "heap"} \subseteq DOMAIN m
  BY <1>1 DEF With, MemoryFits
<1>3. /\ With(m, id, d).cache = m.cache /\ With(m, id, d).heap = h
      /\ {"cache", "heap"} \subseteq DOMAIN With(m, id, d)
  BY <1>2
<1>4. h \in [Ids -> SoundContexts] /\ KeepsPhones(m.heap, h, Ids) /\ h[id] = d
  BY <1>1, <1>2 DEF KeepsPhones, Improves
<1>5. QED
  BY <1>3, <1>4 DEF MemoryFits

-------------------------------------------------------------------------------
(***************************************************************************)
(* What a turn does to the memory between two awaits.  A key that is       *)
(* cached and not old gets no new context, so that no id is given away.    *)
(***************************************************************************)

Keeping(m, n, key, old) ==
  /\ MemoryFits(n)
  /\ KeepsPhones(m.heap, n.heap, Used(m))
  /\ Cached(m.cache, key) # {} /\ ~old => KeepsPhones(m.heap, n.heap, Ids)

LEMMA WritingKeeps ==
  ASSUME NEW m, MemoryFits(m), NEW key \in Keys, NEW old \in BOOLEAN,
         NEW g, g = GetContext(m, key, old), NEW d, Improves(g.heap[g.id], d)
  PROVE  Keeping(m, With(g, g.id, d), key, old) /\ Cached(With(g, g.id, d).cache, key) # {}
<1>1. /\ MemoryFits(g) /\ g.id \in Ids /\ Cached(g.cache, key) # {}
      /\ KeepsPhones(m.heap, g.heap, Used(m))
      /\ Cached(m.cache, key) # {} /\ ~old => g.heap = m.heap
  BY ContextIsGot
<1>2. PICK n : n = With(g, g.id, d)
  OBVIOUS
<1>3. MemoryFits(n) /\ n.cache = g.cache /\ KeepsPhones(g.heap, n.heap, Ids)
  BY <1>1, <1>2, WithKeeps
<1>4. KeepsPhones(m.heap, n.heap, Used(m))
  BY <1>1, <1>3 DEF KeepsPhones, Used
<1>5. QED
  BY <1>1, <1>2, <1>3, <1>4 DEF Keeping

LEMMA NotingKeeps ==
  ASSUME NEW m, MemoryFits(m), NEW key \in Keys, NEW clean \in BOOLEAN, NEW old \in BOOLEAN
  PROVE  Keeping(m, Noted(m, key, clean, old), key, old)
<1>1. PICK g : g = GetContext(m, key, old)
  OBVIOUS
<1>2. PICK d : d = LET c == [g.heap[g.id] EXCEPT !.reviewed = IF clean THEN "no" ELSE "yes"] IN
                   IF clean THEN NoteUseful(c) ELSE c
  OBVIOUS
<1>3. g.heap[g.id] \in SoundContexts
  BY <1>1, ContextIsGot DEF MemoryFits
<1>4. Improves(g.heap[g.id], d)
  BY <1>2, <1>3, NoteImproves
<1>5. Noted(m, key, clean, old) = With(g, g.id, d)
  BY <1>1, <1>2 DEF Noted
<1>6. QED
  BY <1>1, <1>4, <1>5, WritingKeeps

LEMMA AskingKeeps ==
  ASSUME NEW m, MemoryFits(m), NEW t, t.key \in Keys, NEW old \in BOOLEAN
  PROVE  /\ Keeping(m, AskingContext(m, t, old), t.key, old)
         /\ Cached(AskingContext(m, t, old).cache, t.key) # {}
<1>1. PICK o \in BOOLEAN : o = (old /\ \A i \in Cached(m.cache, t.key) : m.cache[i].id # t.ctx)
  OBVIOUS
<1>2. PICK g : g = GetContext(m, t.key, o)
  OBVIOUS
<1>3. PICK d : d = Hinted(g.heap[g.id], g.heap[t.ctx].reviewed)
  OBVIOUS
<1>4. g.heap[g.id] \in SoundContexts
  BY <1>2, ContextIsGot DEF MemoryFits
<1>5. Improves(g.heap[g.id], d)
  BY <1>3, <1>4, HintImproves
<1>6. AskingContext(m, t, old) = With(g, g.id, d)
  BY <1>1, <1>2, <1>3 DEF AskingContext
<1>7. Keeping(m, With(g, g.id, d), t.key, o) /\ Cached(With(g, g.id, d).cache, t.key) # {}
  BY <1>2, <1>5, WritingKeeps
<1>8. ~old => ~o
  BY <1>1
<1>9. QED
  BY <1>6, <1>7, <1>8 DEF Keeping

\* The memory that the rest of start_conv leaves.
Routed(t, m, old) ==
  LET merged == With(m, t.ctx, Transition(Merged(m.heap[t.ctx], t.slots), t.question))
      asked == AskingContext(merged, t, old) IN
  IF t.foreign THEN Noted(asked, t.key, TRUE, FALSE) ELSE asked

LEMMA RoutingKeeps ==
  ASSUME NEW m, MemoryFits(m), NEW t, NEW old \in BOOLEAN,
         t.key \in Keys, t.ctx \in Ids, t.slots.phone \in BOOLEAN, t.slots.reviewed \in Reviews,
         t.slots.phone => m.heap[t.ctx].phone
  PROVE  Keeping(m, Routed(t, m, old), t.key, old)
<1>1. PICK c : c = m.heap[t.ctx]
  OBVIOUS
<1>2. c \in SoundContexts
  BY <1>1 DEF MemoryFits
<1>3. PICK d : d = Merged(c, t.slots)
  OBVIOUS
<1>4. Improves(c, d)
  BY <1>1, <1>2, <1>3, MergingImproves
<1>5. PICK e : e = Transition(d, t.question)
  OBVIOUS
<1>6. Improves(d, e)
  BY <1>4, <1>5, TransitionImproves DEF Improves
<1>7. PICK merged : merged = With(m, t.ctx, e)
  OBVIOUS
<1>8. /\ MemoryFits(merged) /\ merged.cache = m.cache
      /\ KeepsPhones(m.heap, merged.heap, Ids)
  BY <1>1, <1>4, <1>6, <1>7, WithKeeps DEF Improves
<1>9. PICK asked : asked = AskingContext(merged, t, old)
  OBVIOUS
<1>10. Keeping(merged, asked, t.key, old) /\ Cached(asked.cache, t.key) # {}
  BY <1>8, <1>9, AskingKeeps
<1>11. Keeping(m, asked, t.key, old)
  BY <1>8, <1>10 DEF Keeping, KeepsPhones, Used
<1>12. PICK n : n = Noted(asked, t.key, TRUE, FALSE)
  OBVIOUS
<1>13. Keeping(asked, n, t.key, FALSE)
  BY <1>10, <1>12, NotingKeeps DEF Keeping
<1>14. MemoryFits(n) /\ KeepsPhones(asked.heap, n.heap, Ids)
  BY <1>10, <1>13 DEF Keeping
<1>15. Keeping(m, n, t.key, old)
  BY <1>11, <1>14 DEF Keeping, KeepsPhones, Used
<1>16. Routed(t, m, old) = IF t.foreign THEN n ELSE asked
  BY <1>1, <1>3, <1>5, <1>7, <1>9, <1>12 DEF Routed
<1>17. QED
  BY <1>11, <1>15, <1>16

-------------------------------------------------------------------------------
(***************************************************************************)
(* The steps of the turns.                                                 *)
(***************************************************************************)

\* What an await leaves to the others: every phone of a context in use.
PhonesStay ==
  \A i \in InUse(cache, turn) \cap InUse(cache', turn') :
     heap[i].phone => heap'[i].phone /\ heap'[i].state = "handoff_done"

LEMMA BecomingKeeps ==
  ASSUME TalkInv, NEW m, MemoryFits(m), KeepsPhones(heap, m.heap, Used(Memory)),
         NEW served, DOMAIN served = Workers, Become(m, served),
         \A w \in Workers : served[w] = turn[w] \/ TurnHolds(served[w], m.heap)
  PROVE  TalkInv' /\ PhonesStay
<1>1. /\ cache' = m.cache /\ turn' = served
      /\ heap' = [i \in Ids |-> IF i \in InUse(m.cache, served) THEN m.heap[i] ELSE Fresh]
  BY DEF Become
<1>2. /\ m.cache \in Caches /\ m.heap \in [Ids -> SoundContexts]
      /\ heap \in [Ids -> SoundContexts] /\ cache \in Caches
  BY DEF TalkInv, MemoryFits, Memory
<1>3. MemoryFits(Memory)'
  BY <1>1, <1>2, FreshIsSound DEF MemoryFits, Memory
<1>4. \A w \in Workers : turn[w].ctx \in Ids \cup {0}
  BY DEF TalkInv, TurnHolds
<1>5. \A w \in Workers : served[w].ctx \in Ids \cup {0}
  BY <1>4 DEF TurnHolds
<1>6. InUse(cache, turn) \subseteq Ids
  <2>1. \A i \in DOMAIN cache : cache[i].id \in Ids
    BY <1>2, CachedEntries
  <2>2. {cache[i].id : i \in DOMAIN cache} \subseteq Ids
    BY <2>1
  <2>3. {turn[w].ctx : w \in Workers} \ {0} \subseteq Ids
    BY <1>4
  <2>4. QED
    BY <2>2, <2>3 DEF InUse
<1>7. \A i \in Ids \cap InUse(cache, turn) : heap[i].phone => m.heap[i].phone
  BY DEF KeepsPhones, Used, Memory
<1>8. \A i \in Ids \cap InUse(m.cache, served) : heap'[i] = m.heap[i]
  BY <1>1
<1>9. \A w \in Workers : TurnHolds(served[w], heap')
  <2>1. SUFFICES ASSUME NEW w \in Workers
                 PROVE  TurnHolds(served[w], heap')
    OBVIOUS
  <2>2. served[w].step = "extract" => served[w].ctx \in Ids \cap InUse(m.cache, served)
    <3>1. served[w].ctx \in {served[v].ctx : v \in Workers}
      OBVIOUS
    <3>2. served[w].step = "extract" => served[w].ctx \in Ids
      BY DEF TalkInv, TurnHolds
    <3>3. QED
      BY <3>1, <3>2 DEF InUse, Ids
  <2>3. CASE served[w] = turn[w]
    <3>1. TurnHolds(served[w], heap)
      BY <2>3 DEF TalkInv
    <3>2. turn[w].step = "extract" => turn[w].ctx \in Ids \cap InUse(cache, turn)
      <4>1. turn[w].ctx \in {turn[v].ctx : v \in Workers}
        OBVIOUS
      <4>2. turn[w].step = "extract" => turn[w].ctx \in Ids
        BY DEF TalkInv, TurnHolds
      <4>3. QED
        BY <4>1, <4>2 DEF InUse, Ids
    <3>3. QED
      BY <1>7, <1>8, <2>2, <2>3, <3>1, <3>2 DEF TurnHolds
  <2>4. CASE TurnHolds(served[w], m.heap)
    BY <1>8, <2>2, <2>4 DEF TurnHolds
  <2>5. QED
    BY <2>3, <2>4
<1>10. TalkInv'
  BY <1>1, <1>3, <1>9 DEF TalkInv
<1>11. PhonesStay
  <2>1. SUFFICES ASSUME NEW i \in InUse(cache, turn) \cap InUse(cache', turn'), heap[i].phone
                 PROVE  heap'[i].phone /\ heap'[i].state = "handoff_done"
    BY DEF PhonesStay
  <2>2. i \in Ids /\ m.heap[i].phone /\ heap'[i] = m.heap[i]
    BY <1>1, <1>6, <1>7, <1>8, <2>1
  <2>3. QED
    BY <1>2, <2>2 DEF SoundContexts
<1>12. QED
  BY <1>10, <1>11

LEMMA IdleTurnsHold ==
  ASSUME NEW h
  PROVE  /\ TurnHolds(NoTurn, h)
         /\ \A key \in Keys : TurnHolds([NoTurn EXCEPT !.step = "inner", !.key = key], h)
BY DEF TurnHolds, NoTurn

LEMMA KeysAreKeys == \A c \in Callers : ContextKey(c) \in Keys
<1> SUFFICES ASSUME NEW c \in Callers
             PROVE  ContextKey(c) \in Keys
  OBVIOUS
<1> DEFINE s == IF c.session = NoSession THEN "anon" ELSE c.session
<1>1. c.device \in {d.device : d \in Callers}
  OBVIOUS
<1>2. s \in {d.session : d \in Callers} \cup {"anon"}
  OBVIOUS
<1>3. ContextKey(c) = <<c.device, s>>
  BY DEF ContextKey
<1> HIDE DEF s
<1>4. QED
  BY <1>1, <1>2, <1>3 DEF Keys

\* The rest of start_conv, by whatever memory and turn it is reached.
LEMMA RouteKeepsTalk ==
  ASSUME TalkInv, NEW w \in Workers, NEW m, MemoryFits(m), NEW t, NEW old \in BOOLEAN,
         t.key \in Keys, t.ctx \in Ids, t.slots.phone \in BOOLEAN, t.slots.reviewed \in Reviews,
         t.slots.phone => m.heap[t.ctx].phone,
         KeepsPhones(heap, m.heap, Used(Memory)),
         m = Memory \/ (Cached(m.cache, t.key) # {} /\ ~old),
         Route(w, t, m, old)
  PROVE  TalkInv' /\ PhonesStay
<1>1. PICK n : n = Routed(t, m, old)
  OBVIOUS
<1>2. Keeping(m, n, t.key, old)
  BY <1>1, RoutingKeeps
<1>3. MemoryFits(n) /\ KeepsPhones(heap, n.heap, Used(Memory))
  <2>1. CASE m = Memory
    BY <1>2, <2>1 DEF Keeping, Memory
  <2>2. CASE Cached(m.cache, t.key) # {} /\ ~old
    BY <1>2, <2>2 DEF Keeping, KeepsPhones, Used
  <2>3. QED
    BY <2>1, <2>2
<1>4. PICK u : u = IF t.foreign THEN NoTurn ELSE [NoTurn EXCEPT !.step = "inner", !.key = t.key]
  OBVIOUS
<1>5. PICK served : served = [turn EXCEPT ![w] = u]
  OBVIOUS
<1>6. Become(n, served)
  BY <1>1, <1>4, <1>5 DEF Route, Routed
<1>7. TurnHolds(u, n.heap)
  BY <1>4, IdleTurnsHold
<1>8. DOMAIN served = Workers /\ \A v \in Workers : served[v] = turn[v] \/ TurnHolds(served[v], n.heap)
  BY <1>5, <1>7 DEF TalkInv
<1>9. QED
  BY <1>3, <1>6, <1>8, BecomingKeeps

LEMMA StartKeepsTalk ==
  ASSUME TalkInv, NEW w \in Workers, NEW c \in Callers, NEW q \in Questions,
         NEW foreign \in BOOLEAN, NEW old \in BOOLEAN, Start(w, c, q, foreign, old)
  PROVE  TalkInv' /\ PhonesStay
<1>1. PICK key : key = ContextKey(c)
  OBVIOUS
<1>2. key \in Keys
  BY <1>1, KeysAreKeys
<1>3. PICK got : got = GetContext(Memory, key, old)
  OBVIOUS
<1>4. MemoryFits(Memory)
  BY DEF TalkInv
<1>5. /\ MemoryFits(got) /\ got.id \in Ids /\ Cached(got.cache, key) # {}
      /\ KeepsPhones(heap, got.heap, Used(Memory))
  <2>1. Memory.heap = heap
    BY DEF Memory
  <2>2. QED
    BY <1>2, <1>3, <1>4, <2>1, ContextIsGot
<1>6. got.heap[got.id] \in SoundContexts
  BY <1>5 DEF MemoryFits
<1>7. PICK t : t = [step |-> "extract", key |-> key, ctx |-> got.id,
                    slots |-> [phone |-> got.heap[got.id].phone, reviewed |-> got.heap[got.id].reviewed],
                    question |-> q, foreign |-> foreign]
  OBVIOUS
<1>8. /\ t.step = "extract" /\ t.key = key /\ t.ctx = got.id
      /\ t.slots.phone = got.heap[got.id].phone /\ t.slots.reviewed = got.heap[got.id].reviewed
  BY <1>7
<1>9. /\ t.key \in Keys /\ t.ctx \in Ids /\ t.slots.phone \in BOOLEAN /\ t.slots.reviewed \in Reviews
      /\ t.slots.phone => got.heap[t.ctx].phone
  BY <1>2, <1>5, <1>6, <1>8 DEF SoundContexts
<1>10. CASE q.long
  <2>1. PICK served : served = [turn EXCEPT ![w] = t]
    OBVIOUS
  <2>2. Become(got, served)
    BY <1>1, <1>3, <1>7, <1>10, <2>1 DEF Start
  <2>3. TurnHolds(t, got.heap)
    BY <1>8, <1>9 DEF TurnHolds
  <2>4. DOMAIN served = Workers /\ \A v \in Workers : served[v] = turn[v] \/ TurnHolds(served[v], got.heap)
    BY <2>1, <2>3 DEF TalkInv
  <2>5. QED
    BY <1>5, <2>2, <2>4, BecomingKeeps
<1>11. CASE ~q.long
  <2>1. Route(w, t, got, FALSE)
    BY <1>1, <1>3, <1>7, <1>11 DEF Start
  <2>2. QED
    BY <1>5, <1>8, <1>9, <2>1, RouteKeepsTalk
<1>12. QED
  BY <1>10, <1>11

LEMMA ExtractedKeepsTalk ==
  ASSUME TalkInv, NEW w \in Workers, NEW old \in BOOLEAN, Extracted(w, old)
  PROVE  TalkInv' /\ PhonesStay
<1>1. turn[w].step = "extract" /\ TurnHolds(turn[w], heap) /\ Route(w, turn[w], Memory, old)
  BY DEF Extracted, TalkInv
<1>2. MemoryFits(Memory) /\ Memory.heap = heap /\ KeepsPhones(heap, Memory.heap, Used(Memory))
  BY DEF TalkInv, Memory, KeepsPhones
<1>3. /\ turn[w].key \in Keys /\ turn[w].ctx \in Ids /\ turn[w].slots.phone \in BOOLEAN
      /\ turn[w].slots.reviewed \in Reviews
      /\ turn[w].slots.phone => Memory.heap[turn[w].ctx].phone
  BY <1>1, <1>2 DEF TurnHolds
<1>4. PICK t : t = turn[w]
  OBVIOUS
<1>5. QED
  BY <1>1, <1>2, <1>3, <1>4, RouteKeepsTalk

\* The end of a turn: the memory may be written, the turn is over.
LEMMA EndKeepsTalk ==
  ASSUME TalkInv, NEW w \in Workers, NEW n, MemoryFits(n), KeepsPhones(heap, n.heap, Used(Memory)),
         Become(n, [turn EXCEPT ![w] = NoTurn])
  PROVE  TalkInv' /\ PhonesStay
<1>1. PICK served : served = [turn EXCEPT ![w] = NoTurn]
  OBVIOUS
<1>2. DOMAIN served = Workers /\ \A v \in Workers : served[v] = turn[v] \/ TurnHolds(served[v], n.heap)
  BY <1>1, IdleTurnsHold DEF TalkInv
<1>3. QED
  BY <1>1, <1>2, BecomingKeeps

LEMMA AnsweredKeepsTalk ==
  ASSUME TalkInv, NEW w \in Workers, NEW clean \in BOOLEAN, NEW old \in BOOLEAN, Answered(w, clean, old)
  PROVE  TalkInv' /\ PhonesStay
<1>1. PICK n : n = Noted(Memory, turn[w].key, clean, old)
  OBVIOUS
<1>2. /\ turn[w].key \in Keys /\ MemoryFits(Memory) /\ Memory.heap = heap
      /\ Become(n, [turn EXCEPT ![w] = NoTurn])
  BY <1>1 DEF Answered, TalkInv, TurnHolds, Memory
<1>3. Keeping(Memory, n, turn[w].key, old)
  BY <1>1, <1>2, NotingKeeps
<1>4. QED
  BY <1>2, <1>3, EndKeepsTalk DEF Keeping

LEMMA UnansweredKeepsTalk ==
  ASSUME TalkInv, NEW w \in Workers, Unanswered(w)
  PROVE  TalkInv' /\ PhonesStay
<1>1. /\ MemoryFits(Memory) /\ KeepsPhones(heap, Memory.heap, Used(Memory))
      /\ Become(Memory, [turn EXCEPT ![w] = NoTurn])
  BY DEF Unanswered, TalkInv, Memory, KeepsPhones
<1>2. QED
  BY <1>1, EndKeepsTalk

LEMMA PhoneGivenKeepsTalk ==
  ASSUME TalkInv, NEW c \in Callers, NEW old \in BOOLEAN, MarkPhoneGiven(c, old)
  PROVE  TalkInv' /\ PhonesStay
<1>1. PICK key : key = ContextKey(c)
  OBVIOUS
<1>2. key \in Keys /\ MemoryFits(Memory) /\ Memory.heap = heap
  BY <1>1, KeysAreKeys DEF TalkInv, Memory
<1>3. PICK got : got = GetContext(Memory, key, old)
  OBVIOUS
<1>4. got.heap[got.id] \in SoundContexts
  BY <1>2, <1>3, ContextIsGot DEF MemoryFits
<1>5. PICK d : d = PhoneGiven(got.heap[got.id])
  OBVIOUS
<1>6. Improves(got.heap[got.id], d)
  BY <1>4, <1>5, PhoneImproves
<1>7. PICK n : n = With(got, got.id, d)
  OBVIOUS
<1>8. Keeping(Memory, n, key, old)
  BY <1>2, <1>3, <1>6, <1>7, WritingKeeps
<1>9. Become(n, turn)
  BY <1>1, <1>3, <1>5, <1>7 DEF MarkPhoneGiven
<1>10. DOMAIN turn = Workers
  BY DEF TalkInv
<1>11. PICK served : served = turn
  OBVIOUS
<1>12. QED
  BY <1>2, <1>8, <1>9, <1>10, <1>11, BecomingKeeps DEF Keeping

LEMMA TalkInvHoldsAtFirst == ConvInit => TalkInv
<1> SUFFICES ASSUME ConvInit
             PROVE  TalkInv
  OBVIOUS
<1>1. cache \in Caches
  BY CountsAreNumbers DEF ConvInit, Caches
<1>2. heap \in [Ids -> SoundContexts]
  BY FreshIsSound DEF ConvInit
<1>3. DOMAIN turn = Workers /\ \A w \in Workers : TurnHolds(turn[w], heap)
  BY IdleTurnsHold DEF ConvInit
<1>4. QED
  BY <1>1, <1>2, <1>3 DEF TalkInv, MemoryFits, Memory

LEMMA StepKeepsTalk ==
  ASSUME TalkInv, [ConvNext]_convVars
  PROVE  TalkInv' /\ [PhonesStay]_convVars
<1>1. CASE UNCHANGED convVars
  BY <1>1 DEF TalkInv, convVars, MemoryFits, Memory
<1>2. CASE ConvNext
  <2>1. PICK old \in BOOLEAN : \/ \E w \in Workers : Turn(w, old)
                               \/ \E c \in Callers : MarkPhoneGiven(c, old)
    BY <1>2 DEF ConvNext
  <2>2. CASE \E w \in Workers : Turn(w, old)
    BY <2>2, StartKeepsTalk, ExtractedKeepsTalk, AnsweredKeepsTalk, UnansweredKeepsTalk DEF Turn
  <2>3. CASE \E c \in Callers : MarkPhoneGiven(c, old)
    BY <2>3, PhoneGivenKeepsTalk
  <2>4. QED
    BY <2>1, <2>2, <2>3
<1>3. QED
  BY <1>1, <1>2

\* A context asks for the phone at most AskMax times, never twice within two turns
\* and never after the phone was given, and the cache keeps its capacity, however
\* turns overlap and outlive their contexts, for any turns, callers and capacity.
THEOREM PhonesAreAskedSparingly == ConvSpec => []AskedSparingly
<1>1. TalkInv => AskedSparingly
  <2> SUFFICES ASSUME TalkInv
               PROVE  AskedSparingly
    OBVIOUS
  <2>1. cache \in Caches /\ heap \in [Ids -> SoundContexts]
    BY DEF TalkInv, MemoryFits, Memory
  <2>2. \A i \in Ids : heap[i].asks <= AskMax /\ ~heap[i].wrong
    BY <2>1, CountsAreNumbers DEF SoundContexts
  <2>3. \A i \in Ids : LET c == heap[i] IN
           /\ c.state \in States
           /\ c.useful \in 0..3 /\ c.shown \in 0..AskMax /\ c.since \in 0..2
           /\ c.phone \in BOOLEAN /\ c.reviewed \in {"unset", "yes", "no"}
    BY <2>1 DEF SoundContexts, Reviews
  <2>4. /\ Len(cache) <= SessionsMax
        /\ \A i \in DOMAIN cache :
              /\ cache[i].key \in Keys /\ cache[i].id \in Ids
              /\ \A j \in DOMAIN cache : cache[i].key = cache[j].key => i = j
    <3>1. /\ Len(cache) <= SessionsMax
          /\ \A i, j \in 1..Len(cache) : cache[i].key = cache[j].key => i = j
      BY <2>1 DEF Caches
    <3>2. QED
      BY <2>1, <3>1, CachedEntries
  <2>5. \A w \in Workers :
           /\ turn[w].step \in {"idle", "extract", "inner"}
           /\ turn[w].step # "idle" => turn[w].key \in Keys
           /\ turn[w].step = "extract" => turn[w].ctx \in Ids
    BY DEF TalkInv, TurnHolds
  <2>6. QED
    BY <2>1, <2>2, <2>3, <2>4, <2>5 DEF AskedSparingly, ConvTypeOK
<1>2. QED
  BY <1>1, TalkInvHoldsAtFirst, StepKeepsTalk, PTL DEF ConvSpec

\* A context that knows the phone of its customer keeps it and stays handed over, as
\* long as the cache or a turn refers to it, whatever is written to it late.
THEOREM PhonesAreKept == ConvSpec => PhoneIsKept
<1>1. [PhonesStay]_convVars =>
        [\A i \in InUse(cache, turn) \cap InUse(cache', turn') :
            heap[i].phone => heap'[i].phone /\ heap'[i].state = "handoff_done"]_convVars
  BY DEF PhonesStay
<1>2. QED
  BY <1>1, TalkInvHoldsAtFirst, StepKeepsTalk, PTL DEF ConvSpec, PhoneIsKept
===============================================================================
