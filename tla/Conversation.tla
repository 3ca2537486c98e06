------------------------------ MODULE Conversation ------------------------------
(***************************************************************************)
(* The conversations of the chat: the contexts that live in the memory of  *)
(* the process, and the turns that use them around the answer pipeline.    *)
(*                                                                         *)
(* A context is an object.  The cache maps the key of a conversation to    *)
(* one, drops the least recently used when it is full and makes a new one  *)
(* for a key whose context is missing or two hours old.  A turn gets the   *)
(* object, awaits a model that fills the slots, and then writes to the     *)
(* object it got, which by then may no longer be the one in the cache.     *)
(* Other turns and a lead of the same customer run meanwhile.              *)
(*                                                                         *)
(* A question is reduced to what the code reads of it; names of projects   *)
(* are sets, the texts and the values of the slots are left out.           *)
(***************************************************************************)
EXTENDS Naturals, Sequences, FiniteSets

CONSTANTS
    Workers,      \* turns that may run at once
    Callers,      \* records [session, device] of the clients
    NoSession,    \* the session of a client that sends none
    NoDevice,     \* the device of a client that sends none
    Projects,     \* keys of the registry
    Seeds,        \* the projects the code knows without the registry
    Questions,    \* records: see QuestionType
    SessionsMax,  \* capacity of the cache
    AskMax,       \* requests for the phone that a context may make
    MaxTurns      \* bound on the turns of all conversations

ASSUME CapacityIsPositive == SessionsMax \in Nat \ {0}
ASSUME AsksAreCounted == AskMax \in Nat
ASSUME WorkersAreFinite == IsFiniteSet(Workers)
ASSUME CallersAreRecords == \A c \in Callers : {"session", "device"} \subseteq DOMAIN c

VARIABLES
    cache,   \* sequence of [key, id], least recently used first
    heap,    \* id -> context; ids of no use are free and fresh
    turn,    \* worker -> the turn it serves
    turns    \* turns started

convVars == <<cache, heap, turn, turns>>

Training == "_training"
Intents == {"legal", "other", "location", "closure", "price", "company", "handoff"}
States == {"greet", "qualify", "recommend", "nurture", "handoff_done"}
NoProject == "none"
Scopes == Projects \cup {Training, NoProject}

\* budget, slot: the rules find a budget, some slot; long: the model is asked for
\* the others; names: the projects it mentions; project: the one it asks in.
QuestionType == [intent : Intents, budget : BOOLEAN, slot : BOOLEAN, long : BOOLEAN,
                 names : SUBSET Projects, project : Scopes]

ASSUME QuestionsAreTyped == Questions \subseteq QuestionType

UpTo(n, max) == IF n < max THEN n ELSE max

\* useful: the useful turns, three and more are one; since: the turns since
\* last_cta_turn, two and more, or none yet, are two; shown: cta_shown_count.
\* History: the requests for the phone (asks, all above the maximum are one), the turns
\* since the last (gap), and whether one came too early or too late (wrong).
Fresh == [state |-> "greet", phone |-> FALSE, reviewed |-> "unset",
          useful |-> 0, since |-> 2, shown |-> 0,
          asks |-> 0, gap |-> 2, wrong |-> FALSE]

\* slots: the copy of the slots that the turn took before it waited.
NoTurn == [step |-> "idle", key |-> <<NoDevice, NoSession>>, ctx |-> 0,
           slots |-> [phone |-> FALSE, reviewed |-> "unset"],
           question |-> CHOOSE q \in Questions : TRUE, foreign |-> FALSE]

\* Besides those in the cache and those held by turns one is made at a time.
Ids == 1..(SessionsMax + Cardinality(Workers) + 1)

Keys == {<<d, s>> : d \in {c.device : c \in Callers}, s \in {c.session : c \in Callers} \cup {"anon"}}

\* Contexts, turns and the cache keep their types; the cache holds at most one
\* context of a key and no more than its capacity.
ConvTypeOK ==
    /\ Len(cache) <= SessionsMax
    /\ \A i \in DOMAIN cache :
          /\ cache[i].key \in Keys /\ cache[i].id \in Ids
          /\ \A j \in DOMAIN cache : cache[i].key = cache[j].key => i = j
    /\ DOMAIN heap = Ids
    /\ \A i \in Ids :
          LET c == heap[i] IN
          /\ c.state \in States
          /\ c.useful \in 0..3 /\ c.shown \in 0..AskMax /\ c.since \in 0..2
          /\ c.phone \in BOOLEAN /\ c.reviewed \in {"unset", "yes", "no"}
    /\ \A w \in Workers :
          /\ turn[w].step \in {"idle", "extract", "inner"}
          /\ turn[w].step # "idle" => turn[w].key \in Keys
          /\ turn[w].step = "extract" => turn[w].ctx \in Ids

-------------------------------------------------------------------------------
(***************************************************************************)
(* The cache.  Operators take and return the pair of cache and heap, since *)
(* the calls of one step follow each other without an await.               *)
(***************************************************************************)

Memory == [cache |-> cache, heap |-> heap]

\* A turn without a session uses the session "anon".
ContextKey(c) == <<c.device, IF c.session = NoSession THEN "anon" ELSE c.session>>

Cached(entries, key) == {i \in DOMAIN entries : entries[i].key = key}

Place(entries, key) == CHOOSE i \in Cached(entries, key) : TRUE

Entry(entries, key) == entries[Place(entries, key)]

\* Reading makes the key the most recently used: its entry goes to the end and
\* those behind it move up.
Touch(entries, key) ==
    IF Cached(entries, key) = {} THEN entries
    ELSE [j \in DOMAIN entries |->
             IF j < Place(entries, key) THEN entries[j]
             ELSE IF j < Len(entries) THEN entries[j + 1] ELSE Entry(entries, key)]

\* The new context takes the place of an old one of the key; a cache that is too
\* long then drops its first entry.
Put(entries, e) ==
    LET longer == IF Cached(entries, e.key) = {} THEN Append(entries, e)
                  ELSE [i \in DOMAIN entries |-> IF entries[i].key = e.key THEN e ELSE entries[i]] IN
    IF Len(longer) > SessionsMax THEN Tail(longer) ELSE longer

InUse(entries, served) ==
    {entries[i].id : i \in DOMAIN entries} \cup ({served[w].ctx : w \in Workers} \ {0})

\* old: two hours have passed since the context of the key was last updated.
GetContext(m, key, old) ==
    LET touched == Touch(m.cache, key)
        id == CHOOSE i \in Ids \ InUse(m.cache, turn) : TRUE IN
    IF Cached(touched, key) # {} /\ ~old
    THEN [cache |-> touched, heap |-> m.heap, id |-> Entry(touched, key).id]
    ELSE [cache |-> Put(touched, [key |-> key, id |-> id]),
          heap |-> [m.heap EXCEPT ![id] = Fresh], id |-> id]

With(m, id, context) == [m EXCEPT !.heap[id] = context]

-------------------------------------------------------------------------------
(***************************************************************************)
(* The funnel: state, slots and the request for a phone number.            *)
(***************************************************************************)

SideTracks == {"legal", "other", "location", "closure"}

\* The state a question leads to.
NextState(c, intent, slot, afford) ==
    CASE intent \in SideTracks \/ c.state = "handoff_done" -> c.state
      [] OTHER ->
           IF afford THEN "recommend"
           ELSE IF slot \/ (c.useful >= 3 /\ ~c.phone)
                THEN IF c.state \in {"recommend", "nurture"}
                     THEN IF slot THEN "recommend" ELSE "nurture"
                     ELSE "qualify"
                ELSE c.state

Transition(c, q) ==
    [c EXCEPT !.state = NextState(c, q.intent, q.slot, q.budget \/ q.intent = "price"),
              !.since = UpTo(@ + 1, 2), !.gap = UpTo(@ + 1, 2)]

\* Faulty: the slots are replaced by those the turn read before it waited.
MergedOver(c, slots) == [c EXCEPT !.phone = slots.phone, !.reviewed = slots.reviewed]

\* The slots the turn read, with what it found, are written over those of the
\* context: a slot the turn did not read stays, one that it read is reset.
Merged(c, slots) ==
    [c EXCEPT !.phone = @ \/ slots.phone,
              !.reviewed = IF slots.reviewed = "unset" THEN @ ELSE slots.reviewed]

MayAsk(c, reviewed) ==
    /\ c.useful >= 1
    /\ ~c.phone
    /\ c.since >= 2
    /\ reviewed # "yes"
    /\ c.shown < AskMax

\* History: what the customer sees of a request.
Seen(c) ==
    [c EXCEPT !.asks = UpTo(@ + 1, AskMax + 1), !.gap = 0, !.wrong = @ \/ c.phone \/ c.gap < 2]

\* Faulty: the request is not recorded as the last.
AskedUnnoted(c) == [Seen(c) EXCEPT !.shown = @ + 1]

Asked(c) == [Seen(c) EXCEPT !.shown = @ + 1, !.since = 0]

Hinted(c, reviewed) == IF MayAsk(c, reviewed) THEN Asked(c) ELSE c

NoteUseful(c) == [c EXCEPT !.useful = UpTo(@ + 1, 3)]

\* A lead of the customer: the phone is given and the conversation handed over.
PhoneGiven(c) == [c EXCEPT !.phone = TRUE, !.state = "handoff_done"]

-------------------------------------------------------------------------------
(***************************************************************************)
(* The project of a question.                                              *)
(***************************************************************************)

\* A project the client names must be active; else there must be just one.  A
\* registry that fails answers with no project.
ResolveProject(requested, active) ==
    IF requested # NoProject THEN active \cap {requested}
    ELSE IF Cardinality(active) = 1 THEN active ELSE {}

\* Without an answer of the registry the projects of the seed are known.
KnownProjects(active) == IF active = {} THEN Seeds ELSE active

ScopesOf(q) ==
    IF q.project = Training THEN {Training}
    ELSE UNION {ResolveProject(q.project, active) : active \in SUBSET Projects}

\* Some known project other than the one asked in is named.
NamesForeign(q, project, known) == q.names \cap (known \ {project}) # {}

\* A broker in training may name any project.
IsRedirected(q, project, known) == project # Training /\ NamesForeign(q, project, known)

-------------------------------------------------------------------------------
(***************************************************************************)
(* The turns.                                                              *)
(***************************************************************************)

ConvInit ==
    /\ cache = <<>> /\ heap = [i \in Ids |-> Fresh]
    /\ turn = [w \in Workers |-> NoTurn]
    /\ turns = 0

\* A context that neither the cache nor a turn refers to is gone.
Become(m, served) ==
    /\ cache' = m.cache
    /\ turn' = served
    /\ heap' = [i \in Ids |-> IF i \in InUse(m.cache, served) THEN m.heap[i] ELSE Fresh]

\* The answer is finished: its review status and value are noted in the context
\* the cache now has for the key.
Noted(m, key, clean, old) ==
    LET now == GetContext(m, key, old)
        c == [now.heap[now.id] EXCEPT !.reviewed = IF clean THEN "no" ELSE "yes"] IN
    With(now, now.id, IF clean THEN NoteUseful(c) ELSE c)

\* The phone is asked for by the context the cache has now; whether the previous
\* answer was under review is read from the one the turn holds, which was updated just now.
AskingContext(m, t, old) ==
    LET now == GetContext(m, t.key, old /\ \A i \in Cached(m.cache, t.key) : m.cache[i].id # t.ctx) IN
    With(now, now.id, Hinted(now.heap[now.id], now.heap[t.ctx].reviewed))

\* The rest of start_conv, without an await: slots, transition, request for the
\* phone, redirect.  A turn that is redirected ends here, without retrieval.
Route(w, t, m, old) ==
    LET merged == With(m, t.ctx, Transition(Merged(m.heap[t.ctx], t.slots), t.question))
        asked == AskingContext(merged, t, old) IN
    Become(IF t.foreign THEN Noted(asked, t.key, TRUE, FALSE) ELSE asked,
           [turn EXCEPT ![w] = IF t.foreign THEN NoTurn
                                ELSE [NoTurn EXCEPT !.step = "inner", !.key = t.key]])

\* A question is accepted for its project; the turn gets the context and
\* copies its slots.  The registry is read twice, for the project and for those
\* it is compared with.
Start(w, c, q, foreign, old) ==
    LET key == ContextKey(c)
        got == GetContext(Memory, key, old)
        before == got.heap[got.id]
        t == [step |-> "extract", key |-> key, ctx |-> got.id,
              slots |-> [phone |-> before.phone, reviewed |-> before.reviewed],
              question |-> q, foreign |-> foreign] IN
    /\ turn[w].step = "idle"
    /\ turns < MaxTurns /\ turns' = turns + 1
    /\ \E p \in ScopesOf(q), known \in SUBSET Projects :
          foreign = IsRedirected(q, p, KnownProjects(known))
    /\ \/ q.long /\ Become(got, [turn EXCEPT ![w] = t])
       \/ ~q.long /\ Route(w, t, got, FALSE)

\* The model that fills the slots has answered, or failed.
Extracted(w, old) ==
    /\ turn[w].step = "extract"
    /\ Route(w, turn[w], Memory, old)
    /\ UNCHANGED turns

\* The pipeline ended with an answer that needs no review, or with one that does:
\* a weak one, or the part of one that was sent before the pipeline failed.
Answered(w, clean, old) ==
    /\ turn[w].step = "inner"
    /\ Become(Noted(Memory, turn[w].key, clean, old), [turn EXCEPT ![w] = NoTurn])
    /\ UNCHANGED turns

\* The question was rejected, the pipeline failed before it sent anything or the
\* client left: nothing is noted.
Unanswered(w) ==
    /\ turn[w].step # "idle"
    /\ Become(Memory, [turn EXCEPT ![w] = NoTurn])
    /\ UNCHANGED turns

\* A lead is taken; a client without a session is not marked.
MarkPhoneGiven(c, old) ==
    LET got == GetContext(Memory, ContextKey(c), old) IN
    /\ c.session # NoSession
    /\ Become(With(got, got.id, PhoneGiven(got.heap[got.id])), turn)
    /\ UNCHANGED turns

Turn(w, old) ==
    \/ \E c \in Callers, q \in Questions, foreign \in BOOLEAN : Start(w, c, q, foreign, old)
    \/ Extracted(w, old)
    \/ \E clean \in BOOLEAN : Answered(w, clean, old)
    \/ Unanswered(w)

ConvNext ==
    \E old \in BOOLEAN :
        \/ \E w \in Workers : Turn(w, old)
        \/ \E c \in Callers : MarkPhoneGiven(c, old)

ConvSpec == ConvInit /\ [][ConvNext]_convVars

-------------------------------------------------------------------------------
(***************************************************************************)
(* Properties.                                                             *)
(***************************************************************************)

\* A context that was told the phone of its customer never forgets it, nor that
\* it was handed over, whatever turns that read it before write to it after.
PhoneIsKept ==
    [][\A i \in InUse(cache, turn) \cap InUse(cache', turn') :
          heap[i].phone => heap'[i].phone /\ heap'[i].state = "handoff_done"]_convVars

\* However turns overlap, are cut off or outlive their context, a context asks
\* for the phone at most AskMax times, never twice within two turns and never
\* after the phone was given.  The cache holds one context of a key and no more
\* than its capacity.
AskedSparingly == ConvTypeOK /\ \A i \in Ids : heap[i].asks <= AskMax /\ ~heap[i].wrong
===============================================================================
