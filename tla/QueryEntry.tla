------------------------------- MODULE QueryEntry -------------------------------
(***************************************************************************)
(* POST /query from the request to the response: who calls, the training   *)
(* preflight, the scope, the quota gate with its windows per address, and  *)
(* then either the event stream (SseStream) or a JSON answer.  One request *)
(* is followed; others from its address come and go at the gate.           *)
(***************************************************************************)
EXTENDS SseStream

CONSTANTS
    Limit,     \* per window and address: queries, identities minted
    MaxTick    \* bound: windows that begin while the request is at the gate

ASSUME LimitsArePositive == Limit.query \in Nat \ {0} /\ Limit.mint \in Nat \ {0}

VARIABLES
    entry,     \* the request: what it presents, how far it got
    window,    \* the counters of the address in the current window
    admitted,  \* history: how many of its requests were let through in it
    tick       \* windows that began

entryVars == <<entry, window, admitted, tick>>
allVars == <<vars, entryVars>>

Kinds == {"query", "mint"}
Empty == [k \in Kinds |-> 0]

Bearers == {"none", "roleless", "customer", "sales", "admin"}

\* secret: a signing secret is set, without which nobody anonymous is counted;
\* store: PostgreSQL was reachable at startup, or the process counts alone;
\* free: the gate let it through without a turn.
InitEntry ==
    /\ Init
    /\ \E mode \in {"normal", "training"}, bearer \in Bearers,
          token, sse, secret, store \in BOOLEAN :
          entry = [step |-> "auth", mode |-> mode, bearer |-> bearer, token |-> token,
                   sse |-> sse, secret |-> secret, store |-> store, free |-> FALSE]
    /\ window = Empty
    /\ admitted = Empty
    /\ tick = 0

-------------------------------------------------------------------------------
(***************************************************************************)
(* Before the gate: nothing that is refused here has cost anything.        *)
(***************************************************************************)

At(step) == entry.step = step

\* The answer of a step that leaves stream, turn and windows alone.
Goes(step) ==
    /\ entry' = [entry EXCEPT !.step = step]
    /\ UNCHANGED <<vars, window, admitted, tick>>

\* The mapping of a broker is read, at every question anew: it may be missing,
\* or the read may fail.
MappingReads == {"active", "missing", "unavailable"}

\* require_training_sales: only a broker with an active row trains.
Authorize ==
    /\ At("auth")
    /\ \/ entry.mode = "normal" /\ Goes("scope")
       \/ /\ entry.mode = "training" /\ entry.bearer = "sales"
          /\ \E read \in MappingReads : Goes(IF read = "active" THEN "preflight" ELSE "refused")
       \/ entry.mode = "training" /\ entry.bearer # "sales" /\ Goes("refused")

\* _validate_training_request: its session is bound, or the request is refused
\* (the binding itself is ChatHistory's).
Preflight == At("preflight") /\ \E next \in {"scope", "refused"} : Goes(next)

\* A training question is in no project; any other must resolve to one.
Scope ==
    /\ At("scope")
    /\ \E next \in {"role"} \cup (IF entry.mode = "normal" THEN {"refused"} ELSE {}) : Goes(next)

\* The bearer is verified again.  One that is refused now, as it is expired or
\* the keys cannot be had, makes an ordinary caller; a broker is looked up again.
ResolveRole ==
    /\ At("role")
    /\ \/ entry.secret /\ Goes("window")
       \/ entry.bearer = "customer" /\ Goes("reserve")
       \/ /\ ~entry.secret \/ entry.bearer \in {"admin", "sales"}
          /\ entry' = [entry EXCEPT !.step = "open", !.free = TRUE]
          /\ UNCHANGED <<vars, window, admitted, tick>>
       \/ entry.bearer = "sales" /\ Goes("refused")

-------------------------------------------------------------------------------
(***************************************************************************)
(* The windows.                                                            *)
(***************************************************************************)

\* Faulty: one more than the limit.
AllowedOneMore(k) == window[k] <= Limit[k]

\* The counter after the upsert is within the limit.
Allowed(k) == window[k] < Limit[k]

\* A denied request counts in the table, not in the process.
CountedIn(k) == IF entry.store \/ Allowed(k) THEN window[k] + 1 ELSE window[k]

Count(k) ==
    /\ window' = [window EXCEPT ![k] = CountedIn(k)]
    /\ admitted' = [admitted EXCEPT ![k] = IF Allowed(k) THEN @ + 1 ELSE @]

\* A store that cannot be reached refuses, whether it counted or not.
CheckWindow(step, k, next) ==
    /\ At(step)
    /\ \/ Count(k) /\ entry' = [entry EXCEPT !.step = IF Allowed(k) THEN next ELSE "refused"]
       \/ /\ entry.store
          /\ entry' = [entry EXCEPT !.step = "refused"]
          /\ window' \in {window, [window EXCEPT ![k] = @ + 1]}
          /\ UNCHANGED admitted
    /\ UNCHANGED <<vars, tick>>

\* A token that does not verify is replaced, for which the address pays.
CheckQueries == CheckWindow("window", "query", IF entry.token THEN "reserve" ELSE "mint")
CheckMints == CheckWindow("mint", "mint", "reserve")

\* Another request of the address, or GET /api/anon/token.  Bound: counters stop
\* one above the limit.
Neighbour(k) ==
    /\ entry.step \in {"window", "mint"} /\ window[k] <= Limit[k]
    /\ Count(k)
    /\ UNCHANGED <<vars, entry, tick>>

NextWindow ==
    /\ entry.step \in {"window", "mint"} /\ tick < MaxTick
    /\ window' = Empty /\ admitted' = Empty /\ tick' = tick + 1
    /\ UNCHANGED <<vars, entry>>

-------------------------------------------------------------------------------
(***************************************************************************)
(* The turn and the response.                                              *)
(***************************************************************************)

\* consume_turn: reserved, exhausted, or the store failed, before the commit or
\* after it.
Reserve ==
    /\ At("reserve")
    /\ \/ res' = "held" /\ fault' = fault /\ entry' = [entry EXCEPT !.step = "open"]
       \/ res' = res /\ fault' = fault /\ entry' = [entry EXCEPT !.step = "refused"]
       \/ res' \in {res, "held"} /\ fault' = TRUE /\ entry' = [entry EXCEPT !.step = "refused"]
    /\ UNCHANGED <<conn, late, pipe, end, queue, genVars, released, emitted, window, admitted, tick>>

\* Past the gate only the kind of the answer and the caller's standing matter.
Enters(step) ==
    /\ At("open")
    /\ entry' = [step |-> step, mode |-> "normal", bearer |-> "none", token |-> FALSE,
                 sse |-> entry.sse, secret |-> FALSE, store |-> FALSE, free |-> entry.free]
    /\ window' = Empty /\ admitted' = Empty /\ tick' = 0

OpenStream ==
    /\ entry.sse /\ Enters("stream")
    /\ gen' = "ack"
    /\ UNCHANGED <<conn, late, pipe, end, queue, buffer, sent, cancelled, scoped, released, res,
                   fault, emitted>>

RunJson == ~entry.sse /\ Enters("run") /\ UNCHANGED vars

\* The answer is built, stored in the history as far as that works, and its turn
\* settled; a rejection or any exception on the way gives the turn back.
PipelineEnds ==
    /\ At("run")
    /\ \E next \in {"finalize", "refund"} : Goes(next)

\* Faulty: a turn that failed is kept.
SettledAnyway(step, r, next) ==
    /\ At(step)
    /\ entry' = [entry EXCEPT !.step = next]
    /\ res' = Settled("charged")
    /\ UNCHANGED <<conn, late, pipe, end, queue, genVars, released, fault, emitted, window, admitted, tick>>

\* The gate swallows a failure of the store; the call may have been applied.
Settles(step, r, next) ==
    /\ At(step)
    /\ entry' = [entry EXCEPT !.step = next]
    /\ \/ res' = Settled(r) /\ fault' = fault
       \/ res' \in {res, Settled(r)} /\ fault' = TRUE
    /\ UNCHANGED <<conn, late, pipe, end, queue, genVars, released, emitted, window, admitted, tick>>

AnswerJson == Settles("finalize", "charged", "answered")
RefuseJson == Settles("refund", "released", "failed")

\* The server goes down; no handler catches a cancellation.
CutJson == entry.step \in {"run", "finalize", "refund"} /\ Goes("cut")

-------------------------------------------------------------------------------
Enter ==
    \/ Authorize \/ Preflight \/ Scope \/ ResolveRole
    \/ CheckQueries \/ CheckMints \/ Reserve
    \/ OpenStream \/ RunJson \/ PipelineEnds \/ AnswerJson \/ RefuseJson \/ CutJson

NextEntry ==
    \/ Enter
    \/ \E k \in Kinds : Neighbour(k)
    \/ NextWindow
    \/ gen # "none" /\ Next /\ UNCHANGED entryVars

SpecEntry == InitEntry /\ [][NextEntry]_allVars

\* The event loop runs the generator and time passes.  Nothing is assumed of
\* the pipeline, which may hang at any await, nor of the client.
FairSpec ==
    /\ SpecEntry
    /\ WF_allVars(Generate /\ UNCHANGED entryVars)
    /\ WF_allVars(DeadlinePasses /\ UNCHANGED entryVars)

-------------------------------------------------------------------------------
(***************************************************************************)
(* Properties.                                                             *)
(***************************************************************************)

\* Who gets an answer, as a stream or as JSON, has a turn that is charged for it
\* or was let through without; who is refused or fails, at whatever step, has none left; and an
\* address gets no more through in a window than its limits.  A store call that
\* failed may leave the turn held.
AccessIsPaidFor ==
    /\ ClientPaysForAnswers
    /\ At("refused") => res = "none" \/ fault
    /\ At("answered") => res = (IF entry.free THEN "none" ELSE "charged") \/ fault
    /\ At("failed") => res \in {"none", "released"} \/ fault
    /\ entry.step \in {"stream", "run"} => (res = "none" <=> entry.free)
    /\ \A k \in Kinds : admitted[k] <= Limit[k]

\* One turn of one account, which has one turn: what the request does to it are
\* steps of the ledger.
Ledger == INSTANCE TurnLedger WITH
    Accounts <- {"caller"},
    Turns <- {"turn"},
    Nobody <- "nobody",
    BaseLimit <- [a \in {"caller"} |-> 1],
    Raises <- {},
    status <- [t \in {"turn"} |-> IF res = "none" THEN "new" ELSE res],
    account <- [t \in {"turn"} |-> IF res = "none" THEN "nobody" ELSE "caller"],
    limit <- [a \in {"caller"} |-> 1]

\* Whatever the stream, its teardown, the JSON handlers and a failing store do to
\* the turn of a request, and in whatever order: it is held at most once, and what
\* was settled stays as it was settled.
ImplementsLedger == Ledger!LedgerSpec
===============================================================================
