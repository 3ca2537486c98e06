------------------------------- MODULE SseStream -------------------------------
(***************************************************************************)
(* One event stream of POST /query (_sse_stream): the pipeline task that   *)
(* produces events and settles the reserved turn, the generator that       *)
(* forwards them as frames until a terminal event, the deadline or a       *)
(* disconnect, and its teardown.  They share the queue, the flag           *)
(* turn_released and the reservation row.                                  *)
(*                                                                         *)
(* An await is where the other side may run: a store call is in flight     *)
(* between its start, its commit and its return.                           *)
(***************************************************************************)
EXTENDS Naturals, Sequences, SequencesExt

CONSTANT MaxEvents   \* bound: events the pipeline emits before it ends

ASSUME MaxEventsIsNatural == MaxEvents \in Nat

VARIABLES
    conn,       \* is the client connected?
    late,       \* did the total deadline elapse?
    pipe,       \* control state of run_pipe
    end,        \* the terminal event run_pipe is about to queue
    queue,      \* events not taken by the generator yet
    gen,        \* control state of the generator
    buffer,     \* tokens held back by the coalescer
    sent,       \* frames yielded so far
    cancelled,  \* did the generator cancel the task?
    scoped,     \* did the server cancel the generator itself?
    released,   \* turn_released
    res,        \* the turn and its reservation row: none, held, charged, released
    fault,      \* history: a store call of this turn raised and was swallowed
    emitted     \* history: the events of the pipeline, in order

vars == <<conn, late, pipe, end, queue, gen, buffer, sent, cancelled, scoped,
          released, res, fault, emitted>>

Terminals == {"__done__", "__rejected__", "__crashed__"}
Emitted == {"token", "meta"}

\* A token frame carries the n tokens the coalescer had gathered.
Frame(kind, n) == [kind |-> kind, n |-> n]
FrameKinds == {"ack", "token", "meta", "answer", "rejected", "internal", "timeout"}

\* Control states, queue and frames keep their types.
TypeOK ==
    /\ {conn, late, cancelled, scoped, released, fault} \subseteq BOOLEAN
    /\ pipe \in {"idle", "work", "finalize", "finalized", "refund", "refunded", "ended"}
    /\ end \in Terminals \cup {"none"}
    /\ queue \in Seq(Emitted \cup Terminals)
    /\ gen \in {"none", "ack", "loop", "closing", "refund", "refunded", "closed"}
    /\ buffer \in 0..MaxEvents
    /\ sent \in Seq([kind : FrameKinds, n : 0..MaxEvents])
    /\ res \in {"none", "held", "charged", "released"}
    /\ emitted \in Seq(Emitted)
    /\ Len(emitted) <= MaxEvents

\* Before the response: no generator and no turn reserved (QueryEntry).
Init ==
    /\ conn = TRUE
    /\ late = FALSE
    /\ pipe = "idle"
    /\ end = "none"
    /\ queue = <<>>
    /\ gen = "none"
    /\ buffer = 0
    /\ sent = <<>>
    /\ cancelled = FALSE
    /\ scoped = FALSE
    /\ released = FALSE
    /\ res = "none"
    /\ fault = FALSE
    /\ emitted = <<>>

-------------------------------------------------------------------------------
(***************************************************************************)
(* The environment.                                                        *)
(***************************************************************************)

Disconnect ==
    /\ conn
    /\ conn' = FALSE
    /\ UNCHANGED <<late, pipe, end, queue, gen, buffer, sent, cancelled, scoped,
                   released, res, fault, emitted>>

\* Heartbeats never move the deadline, so they need no step.
DeadlinePasses ==
    /\ gen = "loop"
    /\ ~late
    /\ late' = TRUE
    /\ UNCHANGED <<conn, pipe, end, queue, gen, buffer, sent, cancelled, scoped,
                   released, res, fault, emitted>>

-------------------------------------------------------------------------------
(***************************************************************************)
(* run_pipe.                                                               *)
(***************************************************************************)

genVars == <<gen, buffer, sent, cancelled, scoped>>

\* on_event
Emit(event) ==
    /\ pipe = "work"
    /\ Len(emitted) < MaxEvents
    /\ emitted' = Append(emitted, event)
    /\ queue' = Append(queue, event)
    /\ UNCHANGED <<conn, late, pipe, end, genVars, released, res, fault>>

\* The task ends by queueing its terminal event.
Report(event) ==
    /\ pipe' = "ended"
    /\ queue' = Append(queue, event)

\* The answer is complete.  A turn that was already released is not finalized.
Succeed ==
    /\ pipe = "work"
    /\ end' = "__done__"
    /\ IF released
       THEN Report("__done__")
       ELSE pipe' = "finalize" /\ UNCHANGED queue
    /\ UNCHANGED <<conn, late, genVars, released, res, fault, emitted>>

\* Faulty: the error is reported and the turn kept.
FailUnpaid(event) ==
    /\ pipe = "work"
    /\ end' = event
    /\ Report(event)
    /\ released' = TRUE
    /\ UNCHANGED <<conn, late, genVars, res, fault, emitted>>

\* QueryRejected, or any other exception.
Fail(event) ==
    /\ pipe = "work"
    /\ end' = event
    /\ IF released
       THEN Report(event)
       ELSE pipe' = "refund" /\ UNCHANGED queue
    /\ UNCHANGED <<conn, late, genVars, released, res, fault, emitted>>

\* The DELETE, or the refund transaction: a no-op without the reservation row,
\* and not called for a member of staff, who has none.
Settled(r) == IF res = "held" THEN r ELSE res

CommitFinalize ==
    /\ pipe = "finalize"
    /\ pipe' = "finalized"
    /\ res' = Settled("charged")
    /\ UNCHANGED <<conn, late, end, queue, genVars, released, fault, emitted>>

CommitRefund ==
    /\ pipe = "refund"
    /\ pipe' = "refunded"
    /\ res' = Settled("released")
    /\ UNCHANGED <<conn, late, end, queue, genVars, released, fault, emitted>>

\* Only after the call returned is the flag set and the terminal event queued.
Return ==
    /\ pipe \in {"finalized", "refunded"}
    /\ released' = TRUE
    /\ Report(end)
    /\ UNCHANGED <<conn, late, end, genVars, res, fault, emitted>>

\* Faulty: the flag stays down when the store failed.
StoreFailsUnnoticed ==
    /\ pipe \in {"finalize", "refund"}
    /\ fault' = TRUE
    /\ Report(end)
    /\ UNCHANGED <<conn, late, end, genVars, released, res, emitted>>

\* The gate swallows a store failure: the flag is set all the same.
StoreFails ==
    /\ pipe \in {"finalize", "refund"}
    /\ released' = TRUE
    /\ fault' = TRUE
    /\ Report(end)
    /\ UNCHANGED <<conn, late, end, genVars, res, emitted>>

\* CancelledError at whatever await the task is in; no handler catches it.
CancelTask ==
    /\ cancelled
    /\ pipe \notin {"idle", "ended"}
    /\ pipe' = "ended"
    /\ UNCHANGED <<conn, late, end, queue, genVars, released, res, fault, emitted>>

-------------------------------------------------------------------------------
(***************************************************************************)
(* The generator.                                                          *)
(***************************************************************************)

pipeVars == <<pipe, end, res, fault, emitted>>

\* The ack is yielded first; the task starts when the client side resumes.
Ack ==
    /\ gen = "ack"
    /\ gen' = "loop"
    /\ sent' = <<Frame("ack", 0)>>
    /\ pipe' = "work"
    /\ UNCHANGED <<conn, late, end, queue, buffer, cancelled, scoped, released, res,
                   fault, emitted>>

\* Closed at the ack, before the try block: nothing refunds.
CloseAtAck ==
    /\ gen = "ack"
    /\ ~conn
    /\ gen' = "closed"
    /\ UNCHANGED <<conn, late, pipeVars, queue, buffer, sent, cancelled, scoped, released>>

\* Faulty: held-back tokens are dropped.
FlushedNothing == sent

\* What the coalescer still holds goes out before any other frame.
Flushed == IF buffer > 0 THEN Append(sent, Frame("token", buffer)) ELSE sent

\* An error frame stands for the error and the empty done that follows it.
TerminalFrame(event) ==
    CASE event = "__done__" -> Frame("answer", 0)
      [] event = "__rejected__" -> Frame("rejected", 0)
      [] event = "__crashed__" -> Frame("internal", 0)
      [] OTHER -> Frame("timeout", 0)

\* The loop is left; the finally block cancels the task of a gone client.
Leave(cancel) ==
    /\ gen' = "closing"
    /\ cancelled' = (cancelled \/ cancel \/ ~conn)

TakeToken ==
    /\ gen = "loop" /\ ~late
    /\ queue # <<>> /\ Head(queue) = "token"
    /\ queue' = Tail(queue)
    /\ \/ /\ buffer' = buffer + 1          \* span not due
          /\ UNCHANGED sent
       \/ /\ buffer' = 0
          /\ sent' = Append(sent, Frame("token", buffer + 1))
    /\ UNCHANGED <<conn, late, pipeVars, gen, cancelled, scoped, released>>

TakeMeta ==
    /\ gen = "loop" /\ ~late
    /\ queue # <<>> /\ Head(queue) = "meta"
    /\ queue' = Tail(queue)
    /\ buffer' = 0
    /\ sent' = Append(Flushed, Frame("meta", 0))
    /\ UNCHANGED <<conn, late, pipeVars, gen, cancelled, scoped, released>>

TakeTerminal ==
    /\ gen = "loop" /\ ~late
    /\ queue # <<>> /\ Head(queue) \in Terminals
    /\ queue' = Tail(queue)
    /\ buffer' = 0
    /\ sent' = Append(Flushed, TerminalFrame(Head(queue)))
    /\ Leave(FALSE)
    /\ UNCHANGED <<conn, late, pipeVars, scoped, released>>

\* is_disconnected() at the top of the loop.
SeeDisconnect ==
    /\ gen = "loop"
    /\ ~conn
    /\ Leave(TRUE)
    /\ UNCHANGED <<conn, late, pipeVars, queue, buffer, sent, scoped, released>>

\* Faulty: the deadline only honours a finished pipeline.
SeeDeadlineIfDone ==
    /\ gen = "loop"
    /\ late
    /\ queue # <<>> /\ Head(queue) \in Terminals
    /\ queue' = Tail(queue)
    /\ sent' = Append(Flushed, TerminalFrame(Head(queue)))
    /\ buffer' = 0
    /\ Leave(TRUE)
    /\ UNCHANGED <<conn, late, pipeVars, scoped, released>>

\* The deadline looks at the head of the queue only: a terminal event found
\* there is honoured, anything else is dropped and the client gets a timeout.
SeeDeadline ==
    /\ gen = "loop"
    /\ late
    /\ LET event == IF queue = <<>> THEN "__timeout__" ELSE Head(queue) IN
        sent' = Append(Flushed, TerminalFrame(event))
    /\ queue' = IF queue = <<>> THEN queue ELSE Tail(queue)
    /\ buffer' = 0
    /\ Leave(TRUE)
    /\ UNCHANGED <<conn, late, pipeVars, scoped, released>>

\* The server cancels the generator of a gone client at any of its awaits; the
\* teardown's own awaits may be cancelled again.
CancelScope ==
    /\ gen \in {"loop", "closing", "refund", "refunded"}
    /\ ~conn
    /\ ~scoped
    /\ scoped' = TRUE
    /\ gen' = IF gen = "loop" THEN "closing" ELSE gen
    /\ cancelled' \in {cancelled, TRUE}
    /\ UNCHANGED <<conn, late, pipeVars, queue, buffer, sent, released>>

\* Faulty: only a cancelled task is refunded.
StopWaitingEarly ==
    /\ gen = "closing"
    /\ gen' = IF released \/ conn THEN "closed" ELSE "refund"
    /\ UNCHANGED <<conn, late, pipeVars, queue, buffer, sent, cancelled, scoped, released>>

\* The task ended, or two seconds passed.
StopWaiting ==
    /\ gen = "closing"
    /\ gen' = IF released THEN "closed" ELSE "refund"
    /\ UNCHANGED <<conn, late, pipeVars, queue, buffer, sent, cancelled, scoped, released>>

TeardownCommit ==
    /\ gen = "refund"
    /\ gen' = "refunded"
    /\ res' = Settled("released")
    /\ UNCHANGED <<conn, late, pipe, end, queue, buffer, sent, cancelled, scoped,
                   released, fault, emitted>>

TeardownReturn ==
    /\ gen = "refunded"
    /\ gen' = "closed"
    /\ released' = TRUE
    /\ UNCHANGED <<conn, late, pipeVars, queue, buffer, sent, cancelled, scoped>>

TeardownFails ==
    /\ gen = "refund"
    /\ gen' = "closed"
    /\ released' = TRUE
    /\ fault' = TRUE
    /\ UNCHANGED <<conn, late, pipe, end, res, queue, buffer, sent, cancelled, scoped,
                   emitted>>

TeardownCancelled ==
    /\ scoped
    /\ gen \in {"refund", "refunded"}
    /\ gen' = "closed"
    /\ UNCHANGED <<conn, late, pipeVars, queue, buffer, sent, cancelled, scoped, released>>

-------------------------------------------------------------------------------
RunPipe ==
    \/ \E event \in Emitted : Emit(event)
    \/ Succeed
    \/ \E event \in {"__rejected__", "__crashed__"} : Fail(event)
    \/ CommitFinalize
    \/ CommitRefund
    \/ Return
    \/ StoreFails
    \/ CancelTask

Generate ==
    \/ Ack
    \/ CloseAtAck
    \/ TakeToken
    \/ TakeMeta
    \/ TakeTerminal
    \/ SeeDisconnect
    \/ SeeDeadline
    \/ StopWaiting
    \/ TeardownCommit
    \/ TeardownReturn
    \/ TeardownFails
    \/ TeardownCancelled

Next == RunPipe \/ Generate \/ CancelScope \/ Disconnect \/ DeadlinePasses

-------------------------------------------------------------------------------
(***************************************************************************)
(* Properties.                                                             *)
(***************************************************************************)

Sent(kind) == \E i \in 1..Len(sent) : sent[i].kind = kind

Errors == {"rejected", "internal", "timeout"}

Tokens(n) == [i \in 1..n |-> "token"]

\* A token frame is n tokens; the ack and the answer carry no event.
Extended(events, f) ==
    CASE f.kind = "token" -> events \o Tokens(f.n)
      [] f.kind = "meta" -> Append(events, "meta")
      [] OTHER -> events

\* The events the frames stand for, frame after frame.
Carried(frames) ==
    LET upTo[k \in 0..Len(frames)] ==
            IF k = 0 THEN <<>> ELSE Extended(upTo[k - 1], frames[k])
    IN upTo[Len(frames)]

\* The stream the client concatenates is the whole answer: when the answer
\* frame went out, every event of the pipeline had reached the client, the
\* tokens not reordered with the metadata frames, and nothing follows it.
\* Task, generator, queue and frames keep their types.
AnswerIsWhole ==
    /\ TypeOK
    /\ Sent("answer") => Last(sent).kind = "answer" /\ Carried(sent) = emitted

\* A turn whose answer was delivered is never given back, also when its
\* finalization failed and the teardown runs afterwards; and a client that was
\* told the request failed does not pay for it.
ClientPaysForAnswers ==
    /\ Sent("answer") => res \in {"none", "charged"} \/ (fault /\ res = "held")
    /\ Sent("rejected") \/ Sent("internal") => res \in {"none", "released"} \/ fault

\* Every stream that got past its ack settles its reservation before it is
\* closed, unless a store call failed or the server cancelled the teardown.
ClosedIsSettled ==
    gen = "closed" /\ Sent("ack") /\ ~fault /\ ~scoped => res # "held"

\* A client that stays gets a terminal frame.
ClientIsAnswered ==
    gen = "ack" ~> (~conn \/ \E kind \in Errors \cup {"answer"} : Sent(kind))
===============================================================================
