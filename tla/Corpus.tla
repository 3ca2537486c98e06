--------------------------------- MODULE Corpus ---------------------------------
(***************************************************************************)
(* The corpus that answers are made from: documents in the registry with   *)
(* their chunks and facts, the vectors LightRAG keeps of the chunks, and    *)
(* the captions of images with theirs.  A load replaces a document in one  *)
(* transaction and then brings LightRAG after it; the migration to another *)
(* embedding model copies what the old model embedded, batch by batch,     *)
(* with a checkpoint file beside the database.                             *)
(*                                                                         *)
(* A text is named by what it is the text of: document, version, position, *)
(* and the facts it has tokens for.  A row of vectors has the text that    *)
(* its vector is of.  All documents are of one workspace.  The registry is *)
(* what retrieval joins: a chunk it does not know is not shown.            *)
(***************************************************************************)
EXTENDS Integers, FiniteSets

CONSTANTS
    Docs,
    Loaded,      \* documents that were loaded before the model was changed
    SeedOf,      \* document -> key of the fact seeded for it, or NoKey
    Carriers,    \* documents whose driver preserves their seeds
    Keys,        \* keys of facts: subject, fact_key, policy_key
    MaxChunks,   \* bound: document -> sections it may be loaded with
    OldChunks,   \* sections of those that were loaded before
    Blank,       \* texts of the old model's rows that are blank
    ImageIds, MaxCaption, \* bound: captions of an image, numbered
    Batch,       \* texts of one embedding request
    Loaders,     \* processes that load documents
    Shifts,      \* the kinds of operations that meet in one behaviour
    MaxMoves,    \* bound: operations that start
    Idle, NoKey, Seed

ASSUME CorpusBounds ==
    Loaded \subseteq Docs /\ MaxChunks \in [Docs -> Nat \ {0}] /\ Batch \in Nat \ {0} /\ OldChunks \in Nat
\* The table's facts_no_overlap holds of the seeds as of all facts.
ASSUME SeedsDiffer ==
    \A d, e \in Docs : SeedOf[d] = SeedOf[e] => d = e \/ SeedOf[d] = NoKey

VARIABLES
    version,     \* document -> its version, 0 before it is loaded
    chunks,      \* rows of document_chunks: id and text
    facts,       \* rows of facts that are in effect: key, document, chunk
    replaced,    \* history: documents loaded without preserve_seed_facts
    index,       \* chunk vectors of the current model: id and text
    oldIndex,    \* those of the model before, which nothing writes any more
    caption,     \* image -> its caption
    embedded,    \* rows of image_embeddings: image, caption_hash, current model or not
    pending,     \* captions that the ingest of images has still to embed
    checkpoint,  \* keys the checkpoint file gives back to the next run
    usable,      \* the header of the checkpoint file is of the current model
    load,        \* loader -> the load it is at
    run,         \* the run of the migration
    whole,       \* documents whose newest load reported success
    shift, moves

registry == <<version, chunks, facts, replaced, whole>>
images == <<caption, embedded, pending>>
file == <<checkpoint, usable>>
vars == <<registry, index, oldIndex, images, file, load, run, shift, moves>>

\* K: keys of the facts whose tokens are put before the text.
Text(d, v, i, K) == [doc |-> d, version |-> v, at |-> i, names |-> K]

\* Faulty: ids that stay the same from version to version.
ChunkIdPlain(d, v, i) == <<d, 1, i>>

ChunkId(d, v, i) == <<d, v, i>>

Row(d, v, i, K) == [id |-> ChunkId(d, v, i), text |-> Text(d, v, i, K)]
ChunksOf(d) == {c \in chunks : c.text.doc = d}

\* Vectors that the registry lets through.
Shown == {r \in index : \E c \in chunks : c.id = r.id}

\* Keys of tables are keys, steps are steps.
TypeOK ==
    /\ version \in [Docs -> Nat]
    /\ \A table \in {chunks, index, oldIndex} : \A r, s \in table : r.id = s.id => r = s
    /\ \A e, f \in embedded : e.image = f.image /\ e.hash = f.hash => e = f
    /\ \A l \in Loaders : load[l] = Idle \/ load[l].step \in {"delete", "insert"}
    /\ run = Idle \/ run.step \in {"embed", "commit", "mark", "ended"}
    /\ whole \subseteq Docs

Init ==
    /\ version = [d \in Docs |-> IF d \in Loaded THEN 1 ELSE 0]
    /\ chunks = {Row(d, 1, i, {}) : d \in Loaded, i \in 1..OldChunks}
    /\ facts = {[key |-> SeedOf[d], doc |-> d, chunk |-> Seed] : d \in {e \in Docs : SeedOf[e] # NoKey}}
    /\ replaced = {}
    /\ index = {}
    /\ oldIndex = chunks
    /\ caption = [i \in ImageIds |-> 1]
    /\ \E H \in {{1}, {1, 2}} :
          embedded = {[image |-> i, hash |-> h, current |-> FALSE] : i \in ImageIds, h \in H}
    /\ pending = {}
    /\ checkpoint = {}
    /\ usable \in BOOLEAN
    /\ load = [l \in Loaders |-> Idle]
    /\ run = Idle
    /\ whole = {}
    /\ shift \in Shifts
    /\ moves = 0

Begins(kind) == kind \in shift /\ moves < MaxMoves /\ moves' = moves + 1

Put(table, row) == {r \in table : r.id # row.id} \cup {row}

-------------------------------------------------------------------------------
(***************************************************************************)
(* Load of a document: parsed, facts extracted, registry replaced, LightRAG *)
(* brought after it.                                                       *)
(***************************************************************************)

\* Faulty: seeded facts go with the facts of the version before.
KeptNoSeed(d, preserve) == {f \in facts : f.doc # d}

\* All facts of the document go, or, where the load preserves seeds, those that
\* hang on a chunk.
Kept(d, preserve) == {f \in facts : f.doc # d \/ (preserve /\ f.chunk = Seed)}

\* Faulty: chunks of the version before stay in the registry.
RemainingAll(d) == chunks

Remaining(d) == chunks \ ChunksOf(d)

FactOf(k, d, v, i) == [key |-> k, doc |-> d, chunk |-> ChunkId(d, v, i)]

\* A fact goes to the first chunk its span is in; one whose span is nowhere is
\* dropped, and none were found where the extraction failed.
Placed(d, v, where) ==
    {FactOf(k, d, v, where[k]) : k \in {j \in Keys : where[j] > 0}}

Sections(d, v, n, where) == {Row(d, v, i, {k \in Keys : where[k] = i}) : i \in 1..n}

\* One transaction; facts that overlap with kept ones roll it back.  The driver of
\* a carrier preserves its seeds and extracts nothing; all other loads, those of a
\* directory whatever the document, do neither.
Replace(l, d, preserve) ==
    /\ Begins("load") /\ load[l] = Idle
    /\ preserve => d \in Carriers
    /\ \E n \in 1..MaxChunks[d] : \E where \in [Keys -> 0..(IF preserve THEN 0 ELSE n)] :
          LET v == version[d] + 1
              new == Placed(d, v, where)
              rows == Sections(d, v, n, where)
          IN /\ \A f \in Kept(d, preserve), g \in new : f.key # g.key
             /\ facts' = Kept(d, preserve) \cup new
             /\ chunks' = Remaining(d) \cup rows
             /\ version' = [version EXCEPT ![d] = v]
             /\ load' = [load EXCEPT ![l] =
                           [doc |-> d, version |-> v, rows |-> rows,
                            doomed |-> {c.id : c \in ChunksOf(d)},
                            step |-> IF ChunksOf(d) = {} THEN "insert" ELSE "delete"]]
    /\ replaced' = IF preserve THEN replaced ELSE replaced \cup {d}
    /\ whole' = whole \ {d}
    /\ UNCHANGED <<index, oldIndex, images, file, run, shift>>

\* The chunks of the version before, one call each.  Only vectors of the
\* current model are found.
DeleteChunk(l) ==
    /\ load[l] # Idle /\ load[l].step = "delete"
    /\ \E id \in load[l].doomed :
          /\ index' = {r \in index : r.id # id}
          /\ load' = [load EXCEPT ![l].doomed = @ \ {id},
                                  ![l].step = IF load[l].doomed = {id} THEN "insert" ELSE "delete"]
    /\ UNCHANGED <<registry, oldIndex, images, file, run, shift, moves>>

InsertChunk(l) ==
    /\ load[l] # Idle /\ load[l].step = "insert"
    /\ \E r \in load[l].rows :
          /\ index' = Put(index, r)
          /\ load' = [load EXCEPT ![l].rows = @ \ {r}]
    /\ UNCHANGED <<registry, oldIndex, images, file, run, shift, moves>>

\* lightrag_doc_id is returned: the driver reports the document as ingested.
Report(l) ==
    /\ load[l] # Idle /\ load[l].step = "insert" /\ load[l].rows = {}
    /\ whole' = IF version[load[l].doc] = load[l].version THEN whole \cup {load[l].doc} ELSE whole
    /\ load' = [load EXCEPT ![l] = Idle]
    /\ UNCHANGED <<version, chunks, facts, replaced, index, oldIndex, images, file, run, shift, moves>>

\* LightRAG failed, which is logged and reported as a document that is to be
\* loaded again; or the process died.
LeaveIncomplete(l) ==
    /\ load[l] # Idle
    /\ load' = [load EXCEPT ![l] = Idle]
    /\ UNCHANGED <<registry, index, oldIndex, images, file, run, shift, moves>>

-------------------------------------------------------------------------------
(***************************************************************************)
(* Captions of images.                                                     *)
(***************************************************************************)

\* Registration writes the caption only; the ingest embeds it afterwards.
SetCaption(i, c) ==
    /\ Begins("caption")
    /\ caption' = [caption EXCEPT ![i] = c]
    /\ pending' \in {pending, pending \cup {<<i, c>>}}
    /\ UNCHANGED <<registry, index, oldIndex, embedded, file, load, run, shift>>

\* A row that is there is left, whichever model it is of.
EmbedCaption(i, c) ==
    /\ <<i, c>> \in pending
    /\ pending' = pending \ {<<i, c>>}
    /\ embedded' = IF \E e \in embedded : e.image = i /\ e.hash = c THEN embedded
                   ELSE embedded \cup {[image |-> i, hash |-> c, current |-> TRUE]}
    /\ UNCHANGED <<registry, index, oldIndex, caption, file, load, run, shift, moves>>

\* The request for the embeddings failed, or the process died.
DropCaptions ==
    /\ pending # {} /\ pending' = {}
    /\ UNCHANGED <<registry, index, oldIndex, caption, embedded, file, load, run, shift, moves>>

-------------------------------------------------------------------------------
(***************************************************************************)
(* The migration to the current embedding model.                           *)
(***************************************************************************)

\* Old rows that are not in the current table, and are not blank.
ChunkPlan ==
    {[kind |-> "chunks", key |-> r.id, row |-> r] :
        r \in {o \in oldIndex : o.text \notin Blank /\ \A c \in index : c.id # o.id}}

\* Rows of another model, each with the caption its image has now.
ImagePlan ==
    {[kind |-> "images", key |-> e.image, stale |-> e.hash, hash |-> caption[e.image]] :
        e \in {f \in embedded : ~f.current}}

Recorded(item) == usable /\ <<item.kind, item.key>> \in checkpoint

BeginRun ==
    /\ Begins("migrate") /\ (run # Idle => run.step = "ended")
    /\ LET plan == ChunkPlan \cup ImagePlan
       IN run' = [step |-> "embed", planned |-> plan, todo |-> {t \in plan : ~Recorded(t)},
                  batch |-> {}, vectors |-> {}, failed |-> FALSE]
    /\ UNCHANGED <<registry, index, oldIndex, images, file, load, shift>>

\* Faulty: the checkpoint is written ahead of the commit.
FollowingAhead(step) == CASE step = "embed" -> "mark" [] step = "mark" -> "commit" [] step = "commit" -> "embed"

Following(step) == CASE step = "embed" -> "commit" [] step = "commit" -> "mark" [] step = "mark" -> "embed"

\* Faulty: a response is taken of whatever length, and in whatever order.
VectorsAsTheyCome(items) ==
    {V \in SUBSET [item : items, of : items] : \A p, q \in V : p.item = q.item => p = q}

\* One vector for each text, ordered by index, or an error.
Vectors(items) == {{[item |-> t, of |-> t] : t \in items}}

\* Batches of one kind, chunks first.
Batches ==
    LET kind == IF \E t \in run.todo : t.kind = "chunks" THEN "chunks" ELSE "images"
        rest == {t \in run.todo : t.kind = kind}
        size == IF Cardinality(rest) < Batch THEN Cardinality(rest) ELSE Batch
    IN {B \in SUBSET rest : Cardinality(B) = size}

At(step) == run # Idle /\ run.step = step

\* Retries and halves of a batch are within one step.  A batch that fails in
\* the end is counted, and the next one is tried.
Embed ==
    /\ At("embed") /\ run.todo # {}
    /\ \E B \in Batches :
          \/ \E V \in Vectors(B) :
                run' = [run EXCEPT !.step = Following("embed"), !.batch = B, !.vectors = V, !.todo = @ \ B]
          \/ run' = [run EXCEPT !.failed = TRUE, !.todo = @ \ B]
    /\ UNCHANGED <<registry, index, oldIndex, images, file, load, shift, moves>>

Refreshed(rows) == {e \in embedded : \A r \in rows : <<r.image, r.hash>> # <<e.image, e.hash>>} \cup rows

\* One transaction for a batch.
Commit ==
    /\ At("commit")
    /\ LET rows == {[id |-> p.item.key, text |-> p.of.row.text] :
                       p \in {q \in run.vectors : q.item.kind = "chunks"}}
           shots == {[image |-> p.item.key, hash |-> p.item.hash, current |-> TRUE] :
                        p \in {q \in run.vectors : q.item.kind = "images"}}
       IN /\ index' = {r \in index : \A s \in rows : r.id # s.id} \cup rows
          /\ embedded' = Refreshed(shots)
    /\ run' = [run EXCEPT !.step = Following("commit"), !.vectors = {}]
    /\ UNCHANGED <<registry, oldIndex, caption, pending, file, load, shift, moves>>

BatchKeys == {<<t.kind, t.key>> : t \in run.batch}

Mark ==
    /\ At("mark")
    /\ checkpoint' = checkpoint \cup BatchKeys
    /\ run' = [run EXCEPT !.step = Following("mark"), !.batch = {}]
    /\ UNCHANGED <<registry, index, oldIndex, images, usable, load, shift, moves>>

EndRun ==
    /\ At("embed") /\ run.todo = {}
    /\ run' = [step |-> "ended", planned |-> run.planned, failed |-> run.failed]
    /\ UNCHANGED <<registry, index, oldIndex, images, file, load, shift, moves>>

\* Too many answers of 429, or a crash: while the checkpoint is written, some
\* of its lines are there and the last one may be torn, which is read as none.
AbortRun ==
    /\ run # Idle /\ run.step # "ended"
    /\ run' = Idle
    /\ IF run.step = "mark"
       THEN \E K \in SUBSET BatchKeys : checkpoint' = checkpoint \cup K
       ELSE UNCHANGED checkpoint
    /\ UNCHANGED <<registry, index, oldIndex, images, usable, load, shift, moves>>

-------------------------------------------------------------------------------
Next ==
    \/ \E l \in Loaders : \/ \E d \in Docs, preserve \in BOOLEAN : Replace(l, d, preserve)
                          \/ DeleteChunk(l) \/ InsertChunk(l) \/ Report(l) \/ LeaveIncomplete(l)
    \/ \E i \in ImageIds, c \in 1..MaxCaption : SetCaption(i, c) \/ EmbedCaption(i, c)
    \/ DropCaptions
    \/ BeginRun \/ Embed \/ Commit \/ Mark \/ EndRun \/ AbortRun

Spec == Init /\ [][Next]_vars

-------------------------------------------------------------------------------
\* The registry has chunks of the newest version of a document only, and a vector
\* it lets through is of the text it has: not of a version before that a load or
\* the migration left in LightRAG, nor of another text of a batch.  Tables hold one
\* row of a key.
VisibleIsCurrent ==
  /\ TypeOK
  /\ \A c \in chunks : c.text.version = version[c.text.doc]
  /\ Shown \subseteq chunks

\* A document reported as ingested can be found by all of its chunks, also
\* where loads of it overlapped each other and the migration.
IngestedIsIndexed ==
    \A d \in whole : ChunksOf(d) \subseteq index

\* A fact that a load made hangs on a chunk of its document's current version that
\* has a token for it; a token in the registry or in what it lets through has its
\* fact; a key has one fact in effect; and a seed stays until its own document is
\* loaded without preserve_seed_facts, whatever else is loaded.
FactsAreAnchored ==
    /\ \A f \in facts : f.chunk = Seed \/ \E c \in ChunksOf(f.doc) : c.id = f.chunk /\ f.key \in c.text.names
    /\ \A r \in chunks \cup Shown, k \in Keys :
          k \in r.text.names => \E f \in facts : f.key = k /\ f.doc = r.text.doc /\ f.chunk = r.id
    /\ \A f, g \in facts : f.key = g.key => f = g
    /\ \A d \in Docs \ replaced : SeedOf[d] # NoKey => [key |-> SeedOf[d], doc |-> d, chunk |-> Seed] \in facts

\* A run that reports no failure has left no chunk of its plan behind that is
\* still of the current version, whatever runs were cut off before it.
MigrationIsComplete ==
    run # Idle /\ run.step = "ended" /\ ~run.failed =>
        \A t \in run.planned : t.kind = "chunks" /\ t.row \in chunks => t.row \in index

===============================================================================
