---------------------------- MODULE AnswerPipeline ----------------------------
(***************************************************************************)
(* One run of the pipeline that answers a question: input guard, router,   *)
(* three retrieval legs side by side, merge, generation, output guard.     *)
(*                                                                         *)
(* Every call outside has a budget and may fail or be late; a failing leg  *)
(* is replaced by an empty result and a flag.  The client may leave at any *)
(* await.  Texts are left out: a question is what the rules find in it, an *)
(* answer the claims it makes, where a claim is a block of evidence or is  *)
(* Invented.                                                               *)
(***************************************************************************)
EXTENDS StructuredQuery, Imagery

CONSTANTS
    Questions,   \* records: see QuestionType
    Proposals,   \* what the model that routes may say: see ProposalType
    Statements,  \* what the model that writes SQL may say
    Chunks,      \* chunks of documents the retrieval may return
    Places,      \* how many places there are around a project
    Invented     \* a claim that is no evidence

Training == "_training"
Nothing == [kind |-> "nothing", claims |-> {}]
Fallback == [kind |-> "fallback", claims |-> {}]

Scopes == {r.project : r \in Facts \cup Offers \cup Estimates}

\* project, context: where it is asked, and for a training turn in which project.
\* history, screen: the rules reject a turn of the history, the question.
\* aggregate, budget, relational, stakes, prices, all: what the words say; units: those it names.
QuestionType ==
    [project : Scopes \cup {Training, NoProject}, context : Scopes \cup {NoProject},
     history : BOOLEAN, screen : BOOLEAN, day : Nat, aggregate : BOOLEAN, budget : Nat,
     relational : BOOLEAN, stakes : BOOLEAN, places : BOOLEAN, prices : BOOLEAN, all : BOOLEAN,
     units : SUBSET UNION {i.unit : i \in Images}]

Paths == {"spec", "nl2sql", "affordability", "none"}

ASSUME QuestionsAreTyped == Questions \subseteq QuestionType
ASSUME ProposalsAreTyped == \A p \in Proposals : p.path \in Paths /\ p.sql \in BOOLEAN
ASSUME ChunksAreFinite == IsFiniteSet(Chunks)

\* Every block of evidence the legs may find.
Evidence ==
    {Block("facts", r) : r \in Facts}
    \cup {Block(leg, o) : leg \in {"v_unit_offers", "nl2sql"}, o \in Offers}
    \cup {Block("cash", [e EXCEPT !.floor = i]) : e \in Estimates, i \in 1..TopFloor}
    \cup {Block(leg, e) : leg \in {"loan", "board"}, e \in Estimates}

ASSUME InventedIsNoEvidence == Invented \notin Evidence

VARIABLES
    question,
    stage,    \* guard, route, legs, merge, generate, verify, or how the run ended
    legs,     \* rag, sql, geo -> waiting, done or failed
    flags,    \* how the run is degraded
    route,    \* what the router decided
    found,    \* what the legs found: chunks, blocks, places
    merged,   \* what was merged: facts, strong chunks, confidence inputs
    shown,    \* sources, facts and images the client was sent before the answer
    answer,   \* claims of the generated answer
    verdict,  \* confidence of the output guard
    token,    \* the answer the client was sent
    audits    \* rows written to the audit

pipelineVars == <<question, stage, legs, flags, route, found, merged, shown, answer, verdict, token, audits>>

Ended == {"answered", "rejected", "failed", "left"}

NoRoute == [path |-> "none", sql |-> FALSE, geo |-> FALSE, spec |-> NoSpec, budget |-> 0]
NothingFound == [chunks |-> {}, blocks |-> {}, places |-> 0]
NotShown == [facts |-> {}, sources |-> {}, images |-> {}]
NotMerged == [facts |-> {}, rows |-> 0, strong |-> 0, approx |-> FALSE, flags |-> {}]

\* The project whose data a run reads: a training turn reads that of its context.
RetrievalScope(q) == IF q.project = Training THEN q.context ELSE q.project

Unresolved(q) == q.project = Training /\ q.context = NoProject

PipelineInit ==
    /\ question \in Questions
    /\ stage = "guard"
    /\ legs = [l \in {"rag", "sql", "geo"} |-> "waiting"]
    /\ flags = {} /\ route = NoRoute /\ found = NothingFound /\ merged = NotMerged
    /\ shown = NotShown /\ answer = {} /\ verdict = "none" /\ token = Nothing /\ audits = 0

-------------------------------------------------------------------------------
(***************************************************************************)
(* Input guard and router.                                                 *)
(***************************************************************************)

\* What the classifier says of a question, if there is one.
Classifier == {"passes", "rejects", "unavailable", "late"}

\* The rules are followed by a classifier, if there is one: it rejects, passes
\* or cannot be asked.  Out of time, the question passes unread.
GuardInput(classifier) ==
    CASE classifier = "late" -> "unread"
      [] classifier # "late" /\ (question.screen \/ classifier = "rejects") -> "rejected"
      [] OTHER -> IF classifier = "passes" THEN "clean" ELSE "unread"

\* A row of the audit, unless it cannot be written.
Audited == {audits, audits + 1}

\* A history the rules reject ends the run before its question is read.
Guard(classifier) ==
    /\ stage = "guard"
    /\ IF question.history
       THEN stage' = "rejected" /\ UNCHANGED <<flags, audits>>
       ELSE IF GuardInput(classifier) = "rejected"
       THEN stage' = "rejected" /\ audits' \in Audited /\ UNCHANGED flags
       ELSE /\ stage' = "route"
            /\ flags' = flags \cup (IF GuardInput(classifier) = "clean" THEN {} ELSE {"guard"})
            /\ UNCHANGED audits
    /\ UNCHANGED <<question, legs, route, found, merged, shown, answer, verdict, token>>

\* An amount below the floor counts something else.
BudgetOf(q) == IF q.budget >= BudgetFloor THEN q.budget ELSE 0

BudgetOnly(spec) ==
    /\ spec.source = "v_unit_offers" /\ Len(spec.filters) = 1
    /\ spec.filters[1].field = "required_down_payment_vnd" /\ spec.filters[1].op \in {"<", "<="}

\* The words decide on SQL by a model, and on affordability when a budget is named;
\* a spec of an unknown source is none.
Normalized(q, p) ==
    LET spec == IF p.spec.source \in {"facts", "v_unit_offers"} THEN p.spec ELSE NoSpec
        fallen == IF spec # NoSpec THEN "spec" ELSE "none"
        first == IF p.path = "nl2sql" /\ ~q.aggregate THEN fallen
                 ELSE IF q.aggregate /\ p.sql THEN "nl2sql" ELSE p.path
        sql == IF first = "nl2sql" THEN TRUE
               ELSE IF p.path = "nl2sql" /\ fallen = "none" THEN FALSE ELSE p.sql
        forced == /\ BudgetOf(q) > 0 /\ first # "nl2sql"
                  /\ ~q.aggregate /\ ~q.stakes /\ ~q.relational
                  /\ spec = NoSpec \/ BudgetOnly(spec)
        path == IF forced THEN "affordability" ELSE IF first = "affordability" THEN fallen ELSE first IN
    [path |-> path, spec |-> IF forced THEN BudgetSpec ELSE spec,
     sql |-> forced \/ (sql /\ ~(first = "affordability" /\ fallen = "none")),
     budget |-> IF forced THEN BudgetOf(q) ELSE 0,
     flags |-> IF path = p.path THEN {} ELSE {"router"}]

\* The router decides, or is late or failing and only documents are searched.  Places
\* are looked for when the words ask for them, or when a router that answered does.
Route ==
    /\ stage = "route" /\ stage' = "legs"
    /\ \/ /\ route' = [NoRoute EXCEPT !.geo = question.places] /\ flags' = flags \cup {"router"}
       \/ \E p \in Proposals, geo \in {question.places, TRUE} :
             LET r == Normalized(question, p) IN
             /\ route' = [path |-> r.path, sql |-> r.sql, geo |-> geo, spec |-> r.spec, budget |-> r.budget]
             /\ flags' = flags \cup r.flags \cup (IF r.path = "affordability" THEN {"router"} ELSE {})
    /\ UNCHANGED <<question, legs, found, merged, shown, answer, verdict, token, audits>>

-------------------------------------------------------------------------------
(***************************************************************************)
(* The legs.                                                               *)
(***************************************************************************)

\* Faulty: the flags of the others are lost.
FlaggedOver(raised) == raised

\* Flags are added to those of the others.
Flagged(raised) == flags \cup raised

\* Only chunks of a registered document of the project, published and in force, stay.
PostFiltered(hits, q) ==
    {c \in hits : c.id /\ OfScope(c, RetrievalScope(q)) /\ c.status = "published" /\ InForce(c, q.day)}

\* Faulty: a leg of tables that is not needed reports nothing.
FinishNeeded(leg, how) ==
    /\ stage = "legs" /\ legs[leg] = "waiting" /\ (leg = "sql" => route.sql)
    /\ legs' = [legs EXCEPT ![leg] = how]
    /\ UNCHANGED <<question, stage, route, merged, shown, answer, verdict, token, audits>>

Finish(leg, how) ==
    /\ stage = "legs" /\ legs[leg] = "waiting"
    /\ legs' = [legs EXCEPT ![leg] = how]
    /\ UNCHANGED <<question, stage, route, merged, shown, answer, verdict, token, audits>>

\* A leg that fails or is late is empty and flagged.
Fail(leg) == Finish(leg, "failed") /\ flags' = Flagged({leg}) /\ UNCHANGED found

\* Retrieval returns whatever it likes; initialisation, the query (asked twice
\* when late), the filter or the whole leg may fail.
RagLeg ==
    \/ Fail("rag")
    \/ /\ ~Unresolved(question) /\ Finish("rag", "done")
       /\ \E hits \in SUBSET Chunks :
             LET kept == PostFiltered(hits, question) IN
             /\ found' = [found EXCEPT !.chunks = kept]
             /\ flags' = Flagged(IF kept = hits THEN {} ELSE {"rag"})

\* The results the SQL leg may have; a spec that is missing is invalid.
SqlResults ==
    LET scope == RetrievalScope(question)
        limit == EffectiveLimit(route.spec, question.all) IN
    CASE route.path = "nl2sql" -> UNION {RunNl2Sql(s, question.day) : s \in Statements}
      [] route.path = "affordability" -> RunAffordability(route.budget, limit, scope)
      [] OTHER -> RunSpec(route.spec, limit, scope, question.day)

SqlLeg ==
    \/ ~route.sql /\ Finish("sql", "done") /\ UNCHANGED <<found, flags>>
    \/ route.sql /\ Fail("sql")
    \/ /\ route.sql /\ ~Unresolved(question)
       /\ \E r \in SqlResults \ {Failure} :
             Finish("sql", "done") /\ found' = [found EXCEPT !.blocks = r.blocks] /\ UNCHANGED flags

\* Places around the project of the run, as many as the map knows.
PlacesAround == 0..Places

\* A route that asks for places looks for them, in a project.
GeoLeg ==
    LET needed == route.geo /\ ~Unresolved(question) IN
    \/ ~needed /\ Finish("geo", "done") /\ UNCHANGED <<found, flags>>
    \/ needed /\ Fail("geo")
    \/ /\ needed /\ Finish("geo", "done") /\ UNCHANGED flags
       /\ \E n \in PlacesAround : found' = [found EXCEPT !.places = n]

-------------------------------------------------------------------------------
(***************************************************************************)
(* Merge, generation and output guard.                                     *)
(***************************************************************************)

\* The documents of the chunks, unless the registry cannot be read.
Sources(chunks) == {{}, {c.doc : c \in chunks}}

\* The images of the project, unless they cannot be read.
Pictures == {{}, ImagesFor(RetrievalScope(question), question.units, question.prices /\ question.all)}

\* The chunks are scored anew and some are strong; a reranker that is late or
\* failing leaves the scores of the retrieval, and a flag.
Rescored(chunks) ==
    [strong : 0..Cardinality(chunks), flags : IF chunks = {} THEN {{}} ELSE {{}, {"rerank"}}]

\* Once all legs are done their results are scored and merged, and the client is
\* sent sources, facts and images.
Merge ==
    /\ stage = "legs" /\ \A l \in DOMAIN legs : legs[l] # "waiting"
    /\ stage' = "generate"
    /\ \E scored \in Rescored(found.chunks) :
          /\ flags' = flags \cup scored.flags
          /\ merged' = [facts |-> found.blocks, rows |-> Cardinality(found.blocks), strong |-> scored.strong,
                        approx |-> \E b \in found.blocks : b.approx, flags |-> flags']
    /\ \E sources \in Sources(found.chunks), images \in Pictures :
          shown' = [facts |-> found.blocks, sources |-> sources, images |-> images]
    /\ UNCHANGED <<question, legs, route, found, answer, verdict, token, audits>>

\* Without a fact a question for prices is given the board of its project, if it can be read.
Hydrated ==
    LET board == BoardOf(RetrievalScope(question)) IN
    {merged} \cup
    (IF merged.facts = {} /\ RetrievalScope(question) # NoProject /\ question.prices /\ board # {}
     THEN {[merged EXCEPT !.facts = board, !.rows = Cardinality(board), !.approx = TRUE]} ELSE {})

\* All tokens have come; the answer quotes evidence, perhaps of its own making.
Generate ==
    /\ stage = "generate" /\ stage' = "verify"
    /\ merged' \in Hydrated
    /\ answer' \in {{}, merged'.facts, merged'.facts \cup {Invented}, {Invented}}
    /\ UNCHANGED <<question, legs, flags, route, found, shown, verdict, token, audits>>

\* The model failed or was silent for too long, or the run took its three minutes.
GenerationFails ==
    /\ stage \in {"legs", "generate"} /\ stage' = "failed"
    /\ UNCHANGED <<question, legs, flags, route, found, merged, shown, answer, verdict, token, audits>>

\* Faulty: any citation will do.
GroundedLoosely(claims, facts) == claims = {} \/ facts # {}

\* Every amount and every citation is one of the evidence.
Grounded(claims, facts) == claims \subseteq facts

\* Places outrank missing evidence; high needs two strong chunks or a row of the
\* tables, nothing degraded and nothing approximate.
Confidence(claims, m, places) ==
    IF ~Grounded(claims, m.facts) THEN "LOW"
    ELSE IF places >= 1 THEN "MEDIUM"
    ELSE IF m.rows = 0 /\ m.strong = 0 THEN "LOW"
    ELSE IF (m.rows >= 1 \/ m.strong >= 2) /\ m.flags = {} /\ ~m.approx THEN "HIGH"
    ELSE "MEDIUM"

\* The answer is sent if the guard ran and trusts it, else the fallback is; then
\* the audit is written, or fails.
OutputGuard(ran) ==
    /\ stage = "verify" /\ stage' = "answered"
    /\ verdict' = IF ran THEN Confidence(answer, merged, found.places) ELSE "LOW"
    /\ token' = IF verdict' # "LOW" THEN [kind |-> "answer", claims |-> answer] ELSE Fallback
    /\ audits' \in Audited
    /\ UNCHANGED <<question, legs, flags, route, found, merged, shown, answer>>

\* The client leaves, or its stream is out of time, at an await.
Leave ==
    /\ stage \notin Ended /\ stage' = "left"
    /\ UNCHANGED <<question, legs, flags, route, found, merged, shown, answer, verdict, token, audits>>

Work ==
    \/ \E c \in Classifier : Guard(c)
    \/ Route \/ RagLeg \/ SqlLeg \/ GeoLeg \/ Merge \/ Generate
    \/ \E ran \in BOOLEAN : OutputGuard(ran)

PipelineNext == Work \/ GenerationFails \/ Leave

PipelineSpec == PipelineInit /\ [][PipelineNext]_pipelineVars /\ WF_pipelineVars(Work)

-------------------------------------------------------------------------------
(***************************************************************************)
(* Properties.                                                             *)
(***************************************************************************)

\* Every part of a run keeps its type, an answer ends a run and a run that was
\* rejected or left before it was verified sent none.
PipelineTypeOK ==
    /\ question \in Questions
    /\ stage \in {"guard", "route", "legs", "generate", "verify"} \cup Ended
    /\ legs \in [{"rag", "sql", "geo"} -> {"waiting", "done", "failed"}]
    /\ flags \subseteq {"guard", "router", "rag", "sql", "geo", "rerank"}
    /\ route.path \in Paths
    /\ found.chunks \subseteq Chunks
    /\ (token # Nothing) = (stage = "answered")
    /\ verdict \in {"none", "LOW", "MEDIUM", "HIGH"}
    /\ audits \in 0..1

\* Whatever the models say and whichever legs fail, every claim an answer makes to
\* the client rests on a row of the project it was asked in (but for rows that
\* SQL written by a model selects), a fact in force on the day asked for, from a
\* published document in force, or an estimate the budget reaches.  A training turn
\* that is in no project claims nothing.  So do the sources and the images it shows:
\* those are published, public and of an embedding that can be compared.  A run
\* that was rejected or left before it was verified sent nothing.
AnswerRestsOnItsProject ==
    LET scope == RetrievalScope(question) IN
    /\ PipelineTypeOK
    /\ \A i \in shown.images :
          i.project = scope /\ i.served /\ Public(i) /\ (question.units = {} => i.space \/ i.kind = "banggia")
    /\ \A d \in shown.sources : \E c \in Chunks : c.doc = d /\ OfScope(c, scope)
    /\ \A c \in token.claims :
        /\ c # Invented /\ ~Unresolved(question)
        /\ c.leg # "nl2sql" => OfScope(c.row, scope)
        /\ c.leg = "facts" => /\ InForce(c.row, question.day) /\ InForce(c.row.doc, question.day)
                              /\ c.row.doc.status = "published"
        /\ c.leg = "cash" => FloorPrice(c.row.min, c.row.floor) <= question.budget
        /\ c.leg = "loan" => c.row.min > question.budget /\ c.row.deposit # {}

\* High confidence is earned: no leg of the run failed, whatever order they ended
\* in, nothing shown is approximate, and the evidence found is enough.
HighIsEarned ==
    verdict = "HIGH" =>
        /\ \A l \in DOMAIN legs : legs[l] = "done"
        /\ \A b \in merged.facts : ~b.approx
        /\ found.blocks # {} \/ Cardinality(found.chunks) >= 2

\* Every run ends.
EveryRunEnds == <>(stage \in Ended)
===============================================================================
