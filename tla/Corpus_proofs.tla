----------------------------- MODULE Corpus_proofs -----------------------------
(***************************************************************************)
(* Theorems about the corpus and about the answers that are drawn from it. *)
(* Of the corpus, for any documents, loaders, versions, chunks and images: *)
(* what is visible is current, what was reported as ingested is indexed,   *)
(* facts are anchored, and a run of the migration that reports no failure  *)
(* left nothing behind.  Of the run of the pipeline that answers a         *)
(* question, for any rows, models and limits: what it claims and shows     *)
(* rests on the project of the question, and high confidence is earned.    *)
(***************************************************************************)
EXTENDS Corpus, AnswerPipeline, FiniteSetTheorems, WellFoundedInduction, TLAPS

Rows == {Row(d, v, i, K) : d \in Docs, v \in Nat, i \in Nat, K \in SUBSET Keys}
Ids == {r.id : r \in Rows}

\* A row that is or was in the registry.
Known(r) == r \in Rows /\ r.text.version <= version[r.text.doc]

\* What is current of it can be found.
Moved(r) == r \in chunks => r \in index

\* It is in a table, is still to be inserted, or is in the plan of a run.
Held(r) ==
    \/ r \in chunks \cup index \cup oldIndex
    \/ \E l \in Loaders : load[l] # Idle /\ r \in load[l].rows
    \/ run # Idle /\ \E t \in run.planned : t.kind = "chunks" /\ t.row = r

\* Rows that differ only in their text are never about at the same time: an id is
\* given once, and what is held of it is of one text.
HeldHolds ==
    /\ \A r : Held(r) => Known(r)
    /\ \A r, s : Held(r) /\ Held(s) /\ r.id = s.id => r = s

\* The registry holds the current versions.
RegistryHolds ==
    /\ version \in [Docs -> Nat]
    /\ whole \subseteq Docs
    /\ \A c \in chunks : c.text.version = version[c.text.doc]

LoadTypes ==
    load \in [Loaders -> [doc : Docs, version : Nat, rows : SUBSET Rows, doomed : SUBSET Ids,
                          step : {"delete", "insert"}] \cup {Idle}]

\* What a load will delete is of an older version than the registry's.
DoomsTheOld(l) ==
    \A id \in load[l].doomed : \E r \in Rows :
        r.id = id /\ r.text.doc = load[l].doc /\ r.text.version < version[load[l].doc]

\* The load of the current version has inserted what it has not still to insert.
BringsTheNew(l) ==
    /\ load[l].version <= version[load[l].doc]
    /\ load[l].version = version[load[l].doc] =>
          ChunksOf(load[l].doc) \subseteq index \cup load[l].rows

LoadsHold == \A l \in Loaders : load[l] # Idle => DoomsTheOld(l) /\ BringsTheNew(l)

\* A vector of a caption is of one image and one caption.
CaptionsHold == \A e, f \in embedded : e.image = f.image /\ e.hash = f.hash => e = f

Running == {"embed", "commit", "mark"}
ChunkItem(t) == t.kind = "chunks" => Known(t.row) /\ t.key = t.row.id
Arrived(t) == t.kind = "chunks" => Moved(t.row)

\* A run's records; what it has of the plan is left to do, is in the batch that
\* is not committed, has arrived, or was counted as failed.
RunTypes ==
    run # Idle =>
        /\ run.failed \in BOOLEAN
        /\ \/ run = [step |-> "ended", planned |-> run.planned, failed |-> run.failed]
           \/ /\ run = [step |-> run.step, planned |-> run.planned, todo |-> run.todo,
                        batch |-> run.batch, vectors |-> run.vectors, failed |-> run.failed]
              /\ run.step \in Running
        /\ \A t \in run.planned : ChunkItem(t)

RunHolds ==
    run # Idle =>
        /\ run.step = "ended" /\ ~run.failed => \A t \in run.planned : Arrived(t)
        /\ run.step \in Running =>
              /\ \A t \in run.planned :
                    Arrived(t) \/ t \in run.todo \/ (run.step = "commit" /\ t \in run.batch) \/ run.failed
              /\ run.todo \cup run.batch \subseteq run.planned
        /\ run.step = "commit" => run.vectors = {[item |-> t, of |-> t] : t \in run.batch}
        /\ run.step = "mark" => \A t \in run.batch : Arrived(t)

\* What the checkpoint gives back has arrived.
CheckpointHolds ==
    \A r \in Rows : <<"chunks", r.id>> \in checkpoint => Known(r) /\ Moved(r)

\* Facts hang on chunks of the registry, and tokens there have their facts.
FactsHold ==
    /\ \A f \in facts : f.chunk = Seed \/ \E c \in ChunksOf(f.doc) : c.id = f.chunk /\ f.key \in c.text.names
    /\ \A r \in chunks, k \in Keys :
          k \in r.text.names => \E f \in facts : f.key = k /\ f.doc = r.text.doc /\ f.chunk = r.id
    /\ \A f, g \in facts : f.key = g.key => f = g
    /\ \A d \in Docs \ replaced : SeedOf[d] # NoKey => [key |-> SeedOf[d], doc |-> d, chunk |-> Seed] \in facts

CorpusInv ==
    /\ RegistryHolds /\ HeldHolds /\ LoadTypes /\ LoadsHold /\ CaptionsHold
    /\ RunTypes /\ RunHolds /\ CheckpointHolds
    /\ IngestedIsIndexed /\ FactsHold

-------------------------------------------------------------------------------
\* An id names the document and the version, not the text.
LEMMA IdsNameVersions ==
    /\ \A r \in Rows : r.text.doc \in Docs /\ r.text.version \in Nat
    /\ \A r, s \in Rows : r.id = s.id => r.text.doc = s.text.doc /\ r.text.version = s.text.version
    /\ \A d \in Docs, v \in Nat, i \in Nat, K \in SUBSET Keys :
          /\ Row(d, v, i, K) \in Rows
          /\ Row(d, v, i, K).text.doc = d /\ Row(d, v, i, K).text.version = v
          /\ Row(d, v, i, K).text.names = K
          /\ Row(d, v, i, K).id = ChunkId(d, v, i)
<1>1. ASSUME NEW r \in Rows
      PROVE  \E d \in Docs, v \in Nat, i \in Nat :
                r.id = <<d, v, i>> /\ r.text.doc = d /\ r.text.version = v
  BY DEF Rows, Row, Text, ChunkId
<1>2. ASSUME NEW d \in Docs, NEW v \in Nat, NEW i \in Nat, NEW K \in SUBSET Keys
      PROVE  /\ Row(d, v, i, K) \in Rows
             /\ Row(d, v, i, K).text.doc = d /\ Row(d, v, i, K).text.version = v
             /\ Row(d, v, i, K).text.names = K
             /\ Row(d, v, i, K).id = ChunkId(d, v, i)
  <2>1. Row(d, v, i, K) \in Rows
    BY DEF Rows
  <2>2. Row(d, v, i, K) = [id |-> ChunkId(d, v, i), text |-> [doc |-> d, version |-> v, at |-> i, names |-> K]]
    BY DEF Row, Text
  <2>3. QED
    BY <2>1, <2>2
<1>3. ASSUME NEW r \in Rows, NEW s \in Rows, r.id = s.id
      PROVE  r.text.doc = s.text.doc /\ r.text.version = s.text.version
  <2>1. PICK d \in Docs, v \in Nat, i \in Nat : r.id = <<d, v, i>> /\ r.text.doc = d /\ r.text.version = v
    BY <1>1
  <2>2. PICK e \in Docs, w \in Nat, j \in Nat : s.id = <<e, w, j>> /\ s.text.doc = e /\ s.text.version = w
    BY <1>1
  <2>3. <<d, v, i>> = <<e, w, j>>
    BY <1>3, <2>1, <2>2
  <2>4. d = e /\ v = w
    BY <2>3
  <2>5. QED
    BY <2>1, <2>2, <2>4
<1>4. QED
  BY <1>1, <1>2, <1>3

LEMMA CorpusInvHoldsAtFirst == Init => CorpusInv
<1> SUFFICES ASSUME Init
             PROVE  CorpusInv
  OBVIOUS
<1>1. \A d \in Loaded, i \in 1..OldChunks :
         LET r == Row(d, 1, i, {})
         IN r \in Rows /\ r.text.doc = d /\ r.text.version = 1 /\ r.text.names = {}
  <2>1. \A d \in Loaded, i \in 1..OldChunks : d \in Docs /\ i \in Nat
    BY CorpusBounds
  <2>2. 1 \in Nat /\ {} \in SUBSET Keys
    OBVIOUS
  <2>3. QED
    BY <2>1, <2>2, IdsNameVersions
<1>2. RegistryHolds /\ HeldHolds
  <2>1. \A c \in chunks : c \in Rows /\ c.text.version = 1 /\ c.text.doc \in Loaded
    BY <1>1 DEF Init
  <2>2. version \in [Docs -> Nat] /\ \A d \in Loaded : version[d] = 1
    BY CorpusBounds DEF Init
  <2>3. RegistryHolds /\ \A r \in chunks : Known(r)
    BY <2>1, <2>2 DEF Init, RegistryHolds, Known
  <2>4. \A r : Held(r) => r \in chunks
    BY DEF Init, Held
  <2>5. \A r, s \in chunks : r.id = s.id => r = s
    <3>1. \A r \in chunks : \E d \in Loaded, i \in 1..OldChunks : r = Row(d, 1, i, {}) /\ r.id = <<d, 1, i>>
      BY DEF Init, Row, ChunkId
    <3>2. SUFFICES ASSUME NEW r \in chunks, NEW s \in chunks, r.id = s.id
                   PROVE  r = s
      OBVIOUS
    <3>3. PICK d \in Loaded, i \in 1..OldChunks : r = Row(d, 1, i, {}) /\ r.id = <<d, 1, i>>
      BY <3>1
    <3>4. PICK e \in Loaded, j \in 1..OldChunks : s = Row(e, 1, j, {}) /\ s.id = <<e, 1, j>>
      BY <3>1
    <3>5. d = e /\ i = j
      BY <3>2, <3>3, <3>4
    <3>6. QED
      BY <3>3, <3>4, <3>5
  <2>6. QED
    BY <2>3, <2>4, <2>5 DEF HeldHolds
<1>3. LoadTypes /\ LoadsHold
  BY DEF Init, LoadTypes, LoadsHold
<1>4. CaptionsHold
  <2>1. PICK H \in {{1}, {1, 2}} :
          embedded = {[image |-> i, hash |-> h, current |-> FALSE] : i \in ImageIds, h \in H}
    BY DEF Init
  <2>2. \A e \in embedded : e = [image |-> e.image, hash |-> e.hash, current |-> FALSE]
    BY <2>1
  <2>3. QED
    BY <2>2 DEF CaptionsHold
<1>5. RunTypes /\ RunHolds /\ CheckpointHolds /\ IngestedIsIndexed
  BY DEF Init, RunTypes, RunHolds, CheckpointHolds, IngestedIsIndexed
<1>6. FactsHold
  <2>1. \A r \in chunks : r.text.names = {}
    BY <1>1 DEF Init
  <2>2. QED
    BY <2>1, SeedsDiffer DEF Init, FactsHold
<1>7. QED
  BY <1>2, <1>3, <1>4, <1>5, <1>6 DEF CorpusInv

-------------------------------------------------------------------------------
(***************************************************************************)
(* Steps that leave the registry alone.                                    *)
(***************************************************************************)

\* What holds of facts, checkpoint, reports and run goes on while the index grows
\* by what is held.
LEMMA GrowthKeeps ==
  ASSUME CorpusInv, UNCHANGED <<version, chunks, facts, replaced, whole>>, \A r : Held(r)' => Held(r),
         \A c \in chunks : c \in index => c \in index'
  PROVE  /\ RegistryHolds' /\ HeldHolds' /\ IngestedIsIndexed' /\ FactsHold'
         /\ UNCHANGED run => RunTypes' /\ RunHolds'
         /\ UNCHANGED checkpoint => CheckpointHolds'
<1>1. \A r : Moved(r) => Moved(r)'
  BY DEF Moved
<1>2. \A r : Known(r)' <=> Known(r)
  BY DEF Known
<1>3. \A t : (Arrived(t) => Arrived(t)') /\ (ChunkItem(t)' <=> ChunkItem(t))
  BY <1>1, <1>2 DEF Arrived, ChunkItem
<1>4. RegistryHolds' /\ HeldHolds'
  BY <1>2 DEF CorpusInv, RegistryHolds, HeldHolds
<1>5. IngestedIsIndexed'
  BY DEF CorpusInv, IngestedIsIndexed, ChunksOf
<1>6. FactsHold'
  BY DEF CorpusInv, FactsHold, ChunksOf
<1>7. ASSUME UNCHANGED run
      PROVE  RunTypes' /\ RunHolds'
  BY <1>3, <1>7 DEF CorpusInv, RunTypes, RunHolds
<1>8. ASSUME UNCHANGED checkpoint
      PROVE  CheckpointHolds'
  BY <1>1, <1>2, <1>8 DEF CorpusInv, CheckpointHolds
<1>9. QED
  BY <1>4, <1>5, <1>6, <1>7, <1>8

\* The chunks of the version before are deleted.
LEMMA DeleteKeeps ==
  ASSUME CorpusInv, NEW l \in Loaders, DeleteChunk(l)
  PROVE  CorpusInv'
<1>1. PICK id \in load[l].doomed :
        /\ index' = {r \in index : r.id # id}
        /\ load' = [load EXCEPT ![l].doomed = @ \ {id},
                                ![l].step = IF load[l].doomed = {id} THEN "insert" ELSE "delete"]
  BY DEF DeleteChunk
<1>2. /\ load[l] # Idle /\ load[l].step = "delete"
      /\ UNCHANGED <<version, chunks, facts, replaced, whole, oldIndex, caption, embedded, pending,
                     checkpoint, usable, run>>
  BY DEF DeleteChunk, registry, images, file
<1>3. load[l] \in [doc : Docs, version : Nat, rows : SUBSET Rows, doomed : SUBSET Ids,
                   step : {"delete", "insert"}]
  BY <1>2 DEF CorpusInv, LoadTypes
<1>4. \A c \in chunks : c.id # id
  <2>1. PICK r \in Rows : r.id = id /\ r.text.doc = load[l].doc /\ r.text.version < version[load[l].doc]
    BY <1>1, <1>2 DEF CorpusInv, LoadsHold, DoomsTheOld
  <2>2. \A c \in chunks : c \in Rows /\ c.text.version = version[c.text.doc]
    BY DEF CorpusInv, RegistryHolds, HeldHolds, Held, Known
  <2>3. QED
    BY <1>3, <2>1, <2>2, IdsNameVersions DEF CorpusInv, RegistryHolds
<1>5. \A c \in chunks : c \in index => c \in index'
  BY <1>1, <1>4
<1>6. /\ load' \in [Loaders -> [doc : Docs, version : Nat, rows : SUBSET Rows, doomed : SUBSET Ids,
                                step : {"delete", "insert"}] \cup {Idle}]
      /\ \A k \in Loaders \ {l} : load'[k] = load[k]
      /\ load'[l].doc = load[l].doc /\ load'[l].version = load[l].version
      /\ load'[l].rows = load[l].rows /\ load'[l].doomed \subseteq load[l].doomed
  BY <1>1, <1>3 DEF CorpusInv, LoadTypes
<1>7. \A r : Held(r)' => Held(r)
  BY <1>1, <1>2, <1>6 DEF Held
<1>8. RegistryHolds' /\ HeldHolds' /\ IngestedIsIndexed' /\ FactsHold' /\ RunTypes' /\ RunHolds' /\ CheckpointHolds'
  BY <1>2, <1>5, <1>7, GrowthKeeps
<1>9. LoadsHold'
  BY <1>2, <1>5, <1>6 DEF CorpusInv, LoadsHold, DoomsTheOld, BringsTheNew, ChunksOf
<1>10. QED
  BY <1>2, <1>6, <1>8, <1>9 DEF CorpusInv, LoadTypes, CaptionsHold

\* A chunk is inserted; a row of its id is the same row.
LEMMA InsertKeeps ==
  ASSUME CorpusInv, NEW l \in Loaders, InsertChunk(l)
  PROVE  CorpusInv'
<1>1. PICK r \in load[l].rows :
        index' = Put(index, r) /\ load' = [load EXCEPT ![l].rows = @ \ {r}]
  BY DEF InsertChunk
<1>2. /\ load[l] # Idle
      /\ UNCHANGED <<version, chunks, facts, replaced, whole, oldIndex, caption, embedded, pending,
                     checkpoint, usable, run>>
  BY DEF InsertChunk, registry, images, file
<1>3. load[l] \in [doc : Docs, version : Nat, rows : SUBSET Rows, doomed : SUBSET Ids,
                   step : {"delete", "insert"}]
  BY <1>2 DEF CorpusInv, LoadTypes
<1>4. r \in index' /\ \A c \in chunks : c \in index => c \in index'
  <2>1. Held(r) /\ \A c \in index : Held(c)
    BY <1>2 DEF Held
  <2>2. QED
    BY <1>1, <2>1 DEF Put, CorpusInv, HeldHolds
<1>5. /\ load' \in [Loaders -> [doc : Docs, version : Nat, rows : SUBSET Rows, doomed : SUBSET Ids,
                                step : {"delete", "insert"}] \cup {Idle}]
      /\ \A k \in Loaders \ {l} : load'[k] = load[k]
      /\ load'[l].doc = load[l].doc /\ load'[l].version = load[l].version
      /\ load'[l].rows = load[l].rows \ {r} /\ load'[l].doomed = load[l].doomed
  BY <1>1, <1>3 DEF CorpusInv, LoadTypes
<1>6. \A s : Held(s)' => Held(s)
  <2>1. \A s \in index' : s \in index \/ s = r
    BY <1>1 DEF Put
  <2>2. QED
    BY <1>1, <1>2, <1>5, <2>1 DEF Held
<1>7. RegistryHolds' /\ HeldHolds' /\ IngestedIsIndexed' /\ FactsHold' /\ RunTypes' /\ RunHolds' /\ CheckpointHolds'
  BY <1>2, <1>4, <1>6, GrowthKeeps
<1>8. LoadsHold'
  BY <1>2, <1>4, <1>5 DEF CorpusInv, LoadsHold, DoomsTheOld, BringsTheNew, ChunksOf
<1>9. QED
  BY <1>2, <1>5, <1>7, <1>8 DEF CorpusInv, LoadTypes, CaptionsHold

\* A load that inserted all its rows made the document whole, if its version is
\* still the current one; a load that is left promises nothing.
LEMMA LoadEnds ==
  ASSUME CorpusInv, NEW l \in Loaders, Report(l) \/ LeaveIncomplete(l)
  PROVE  CorpusInv'
<1>1. /\ load' = [load EXCEPT ![l] = Idle] /\ load[l] # Idle
      /\ UNCHANGED <<version, chunks, facts, replaced, index, oldIndex, caption, embedded, pending,
                     checkpoint, usable, run>>
      /\ whole' = whole \/ (/\ load[l].rows = {} /\ whole' = whole \cup {load[l].doc}
                            /\ version[load[l].doc] = load[l].version)
  BY DEF Report, LeaveIncomplete, registry, images, file
<1>2. load[l].doc \in Docs
  BY <1>1 DEF CorpusInv, LoadTypes
<1>3. LoadTypes' /\ load'[l] = Idle /\ \A k \in Loaders \ {l} : load'[k] = load[k]
  BY <1>1 DEF CorpusInv, LoadTypes
<1>4. LoadsHold'
  BY <1>1, <1>3 DEF CorpusInv, LoadsHold, DoomsTheOld, BringsTheNew, ChunksOf
<1>5. IngestedIsIndexed'
  BY <1>1 DEF CorpusInv, LoadsHold, BringsTheNew, IngestedIsIndexed, ChunksOf
<1>6. RegistryHolds' /\ FactsHold' /\ CaptionsHold'
  BY <1>1, <1>2 DEF CorpusInv, RegistryHolds, FactsHold, ChunksOf, CaptionsHold
<1>7. HeldHolds'
  <2>1. \A r : Held(r)' => Held(r)
    BY <1>1, <1>3 DEF Held
  <2>2. QED
    BY <1>1, <2>1 DEF CorpusInv, HeldHolds, Known
<1>8. RunTypes' /\ RunHolds' /\ CheckpointHolds'
  BY <1>1 DEF CorpusInv, RunTypes, RunHolds, CheckpointHolds, Arrived, ChunkItem, Moved, Known
<1>9. QED
  BY <1>3, <1>4, <1>5, <1>6, <1>7, <1>8 DEF CorpusInv

-------------------------------------------------------------------------------
(***************************************************************************)
(* The replacement of a document.                                          *)
(***************************************************************************)

\* The rows of the next version have ids that nothing held has: what had arrived has,
\* and facts hang on them or on what stays.
LEMMA ReplaceKeeps ==
  ASSUME CorpusInv, NEW l \in Loaders, NEW d \in Docs, NEW preserve \in BOOLEAN, Replace(l, d, preserve)
  PROVE  CorpusInv'
<1>1. PICK v \in Nat : v = version[d] + 1
  BY DEF CorpusInv, RegistryHolds
<1>2. PICK n \in 1..MaxChunks[d] :
      \E where \in [Keys -> 0..(IF preserve THEN 0 ELSE n)] :
         /\ \A f \in Kept(d, preserve), g \in Placed(d, v, where) : f.key # g.key
         /\ facts' = Kept(d, preserve) \cup Placed(d, v, where)
         /\ chunks' = Remaining(d) \cup Sections(d, v, n, where)
         /\ version' = [version EXCEPT ![d] = v]
         /\ load' = [load EXCEPT ![l] =
                       [doc |-> d, version |-> v, rows |-> Sections(d, v, n, where),
                        doomed |-> {c.id : c \in ChunksOf(d)},
                        step |-> IF ChunksOf(d) = {} THEN "insert" ELSE "delete"]]
  BY <1>1 DEF Replace
<1>3. PICK where \in [Keys -> 0..(IF preserve THEN 0 ELSE n)] :
         /\ \A f \in Kept(d, preserve), g \in Placed(d, v, where) : f.key # g.key
         /\ facts' = Kept(d, preserve) \cup Placed(d, v, where)
         /\ chunks' = Remaining(d) \cup Sections(d, v, n, where)
         /\ version' = [version EXCEPT ![d] = v]
         /\ load' = [load EXCEPT ![l] =
                       [doc |-> d, version |-> v, rows |-> Sections(d, v, n, where),
                        doomed |-> {c.id : c \in ChunksOf(d)},
                        step |-> IF ChunksOf(d) = {} THEN "insert" ELSE "delete"]]
  BY <1>2
<1> DEFINE new == Sections(d, v, n, where)
           doomed == {c.id : c \in ChunksOf(d)}
           next == [doc |-> d, version |-> v, rows |-> new, doomed |-> doomed,
                    step |-> IF ChunksOf(d) = {} THEN "insert" ELSE "delete"]
<1>4. /\ chunks' = (chunks \ ChunksOf(d)) \cup new /\ load' = [load EXCEPT ![l] = next]
      /\ version' = [version EXCEPT ![d] = v] /\ whole' = whole \ {d} /\ load[l] = Idle
      /\ replaced' = IF preserve THEN replaced ELSE replaced \cup {d}
      /\ UNCHANGED <<index, oldIndex, caption, embedded, pending, checkpoint, usable, run>>
  BY <1>3 DEF Replace, images, file, Remaining
<1>5. /\ version[d] \in Nat
      /\ \A e \in Docs : version'[e] = IF e = d THEN v ELSE version[e]
      /\ version' \in [Docs -> Nat]
  BY <1>4 DEF CorpusInv, RegistryHolds
<1>6. /\ \A r \in new : /\ r \in Rows /\ r.text.doc = d /\ r.text.version = v
                         /\ \E i \in 1..n : r = Row(d, v, i, {k \in Keys : where[k] = i})
      /\ \A i \in 1..n : LET r == Row(d, v, i, {k \in Keys : where[k] = i})
                          IN r \in new /\ r.id = ChunkId(d, v, i) /\ r.text.names = {k \in Keys : where[k] = i}
  <2>1. \A i \in 1..n : i \in Nat /\ {k \in Keys : where[k] = i} \in SUBSET Keys
    BY CorpusBounds
  <2>2. ASSUME NEW r \in new
        PROVE  /\ r \in Rows /\ r.text.doc = d /\ r.text.version = v
               /\ \E i \in 1..n : r = Row(d, v, i, {k \in Keys : where[k] = i})
    <3>1. PICK i \in 1..n : r = Row(d, v, i, {k \in Keys : where[k] = i})
      BY DEF Sections
    <3>2. PICK K \in SUBSET Keys : K = {k \in Keys : where[k] = i}
      OBVIOUS
    <3>3. r \in Rows /\ r.text.doc = d /\ r.text.version = v
      BY <2>1, <3>1, <3>2, IdsNameVersions
    <3>4. QED
      BY <3>1, <3>3
  <2>3. ASSUME NEW i \in 1..n
        PROVE  LET r == Row(d, v, i, {k \in Keys : where[k] = i})
               IN r \in new /\ r.id = ChunkId(d, v, i) /\ r.text.names = {k \in Keys : where[k] = i}
    <3>1. Row(d, v, i, {k \in Keys : where[k] = i}) \in new
      BY DEF Sections
    <3>2. QED
      BY <2>1, <3>1, IdsNameVersions
  <2>4. QED
    BY <2>2, <2>3
<1>7. \A r, s \in new : r.id = s.id => r = s
  <2>1. SUFFICES ASSUME NEW r \in new, NEW s \in new, r.id = s.id
                 PROVE  r = s
    OBVIOUS
  <2>2. PICK i \in 1..n : r = Row(d, v, i, {k \in Keys : where[k] = i})
    BY <1>6
  <2>3. PICK j \in 1..n : s = Row(d, v, j, {k \in Keys : where[k] = j})
    BY <1>6
  <2>4. i = j
    BY <2>1, <2>2, <2>3 DEF Row, ChunkId
  <2>5. QED
    BY <2>2, <2>3, <2>4
<1>8. \A c \in ChunksOf(d) : c \in Rows /\ c.text.doc = d /\ c.text.version = version[d]
  BY DEF ChunksOf, CorpusInv, RegistryHolds, HeldHolds, Held, Known
<1>9. doomed \subseteq Ids /\ new \subseteq Rows
  BY <1>6, <1>8 DEF Ids
<1>10. next \in [doc : Docs, version : Nat, rows : SUBSET Rows, doomed : SUBSET Ids,
                 step : {"delete", "insert"}]
  BY <1>9
<1>11. /\ next.doc = d /\ next.version = v /\ next.rows = new /\ next.doomed = doomed
  OBVIOUS
<1> HIDE DEF new, doomed, next
<1>12. \A r : Known(r) => Known(r)' /\ r \notin new /\ \A s \in new : s.id # r.id
  <2>1. SUFFICES ASSUME NEW r, Known(r)
                 PROVE  Known(r)' /\ \A s \in new : s.id # r.id
    OBVIOUS
  <2>2. /\ r \in Rows /\ r.text.doc \in Docs /\ r.text.version \in Nat
        /\ r.text.version <= version[r.text.doc] /\ version[r.text.doc] \in Nat
    BY <2>1, IdsNameVersions DEF Known, CorpusInv, RegistryHolds
  <2>3. version[r.text.doc] <= version'[r.text.doc]
    BY <1>1, <1>5, <2>2
  <2>4. version'[r.text.doc] \in Nat
    BY <1>5, <2>2
  <2>5. Known(r)'
    BY <2>2, <2>3, <2>4 DEF Known
  <2>6. \A s \in new : s.id # r.id
    <3>1. ASSUME NEW s \in new, s.id = r.id
          PROVE  FALSE
      <4>1. s \in Rows /\ s.text.doc = d /\ s.text.version = v
        BY <1>6
      <4>2. r.text.doc = d /\ r.text.version = v
        BY <2>2, <3>1, <4>1, IdsNameVersions
      <4>3. QED
        BY <1>1, <1>5, <2>2, <4>2
    <3>2. QED
      BY <3>1
  <2>7. QED
    BY <2>5, <2>6
<1>13. \A r : Known(r) /\ Moved(r) => Moved(r)'
  BY <1>4, <1>12 DEF Moved
<1>14. load'[l] = next /\ (\A k \in Loaders \ {l} : load'[k] = load[k]) /\ LoadTypes'
  BY <1>4, <1>10 DEF CorpusInv, LoadTypes
<1>15. HeldHolds'
  <2>1. \A r : Held(r)' => Held(r) \/ r \in new
    BY <1>4, <1>11, <1>14 DEF Held
  <2>2. \A r \in new : Known(r)'
    BY <1>5, <1>6 DEF Known
  <2>3. \A r : Held(r)' => Known(r)'
    BY <1>12, <2>1, <2>2 DEF CorpusInv, HeldHolds
  <2>4. \A r, s : Held(r)' /\ Held(s)' /\ r.id = s.id => r = s
    BY <1>7, <1>12, <2>1 DEF CorpusInv, HeldHolds
  <2>5. QED
    BY <2>3, <2>4 DEF HeldHolds
<1>16. RegistryHolds'
  <2>1. \A c \in chunks' : c.text.version = version'[c.text.doc]
    <3>1. ASSUME NEW c \in chunks, c \notin ChunksOf(d)
          PROVE  c.text.version = version'[c.text.doc]
      <4>1. c.text.doc \in Docs /\ c.text.doc # d
        BY <3>1, IdsNameVersions DEF ChunksOf, CorpusInv, HeldHolds, Held, Known
      <4>2. QED
        BY <1>5, <4>1 DEF CorpusInv, RegistryHolds
    <3>2. \A c \in new : c.text.version = version'[c.text.doc]
      BY <1>5, <1>6
    <3>3. QED
      BY <1>4, <3>1, <3>2
  <2>2. QED
    BY <1>4, <1>5, <2>1 DEF CorpusInv, RegistryHolds
<1>17. \A e \in Docs : ChunksOf(e)' = IF e = d THEN new ELSE ChunksOf(e)
  BY <1>4, <1>6 DEF ChunksOf
<1>18. LoadsHold'
  <2>1. DoomsTheOld(l)' /\ BringsTheNew(l)'
    <3>1. \A id \in doomed : \E r \in Rows : r.id = id /\ r.text.doc = d /\ r.text.version < version'[d]
      BY <1>1, <1>5, <1>8 DEF doomed
    <3>2. BringsTheNew(l)'
      BY <1>5, <1>11, <1>14, <1>17 DEF BringsTheNew
    <3>3. QED
      BY <1>11, <1>14, <3>1, <3>2 DEF DoomsTheOld
  <2>2. ASSUME NEW k \in Loaders \ {l}, load'[k] # Idle
        PROVE  DoomsTheOld(k)' /\ BringsTheNew(k)'
    <3>1. load[k] \in [doc : Docs, version : Nat, rows : SUBSET Rows, doomed : SUBSET Ids,
                       step : {"delete", "insert"}]
      BY <1>14, <2>2 DEF CorpusInv, LoadTypes
    <3>2. DoomsTheOld(k) /\ BringsTheNew(k)
      BY <1>14, <2>2 DEF CorpusInv, LoadsHold
    <3>3. /\ version[load[k].doc] \in Nat /\ version'[load[k].doc] \in Nat
          /\ version'[load[k].doc] >= version[load[k].doc]
      BY <1>1, <1>5, <3>1 DEF CorpusInv, RegistryHolds
    <3>4. load[k].doc = d => load[k].version # version'[load[k].doc]
      BY <1>1, <1>5, <3>1, <3>2 DEF BringsTheNew
    <3>5. DoomsTheOld(k)'
      <4>1. ASSUME NEW id \in load[k].doomed
            PROVE  \E r \in Rows : /\ r.id = id /\ r.text.doc = load[k].doc
                                   /\ r.text.version < version'[load[k].doc]
        <5>1. PICK r \in Rows : /\ r.id = id /\ r.text.doc = load[k].doc
                               /\ r.text.version < version[load[k].doc]
          BY <3>2 DEF DoomsTheOld
        <5>2. r.text.version \in Nat
          BY IdsNameVersions
        <5>3. QED
          BY <3>3, <5>1, <5>2
      <4>2. QED
        BY <1>14, <4>1 DEF DoomsTheOld
    <3>6. BringsTheNew(k)'
      <4>1. PICK e \in Docs : e = load[k].doc
        BY <3>1
      <4>2. load[k].version <= version'[e]
        BY <3>1, <3>2, <3>3, <4>1 DEF BringsTheNew
      <4>3. ASSUME load[k].version = version'[e]
            PROVE  ChunksOf(e)' \subseteq index \cup load[k].rows
        <5>1. e # d
          BY <3>4, <4>1, <4>3
        <5>2. version'[e] = version[e] /\ ChunksOf(e)' = ChunksOf(e)
          BY <1>5, <1>17, <5>1
        <5>3. QED
          BY <3>2, <4>1, <4>3, <5>2 DEF BringsTheNew
      <4>4. QED
        BY <1>4, <1>14, <4>1, <4>2, <4>3 DEF BringsTheNew
    <3>7. QED
      BY <3>5, <3>6
  <2>3. QED
    BY <2>1, <2>2 DEF LoadsHold
<1>19. IngestedIsIndexed'
  BY <1>4, <1>17 DEF CorpusInv, RegistryHolds, IngestedIsIndexed
<1>20. FactsHold'
  <2>1. /\ Kept(d, preserve) \subseteq facts
        /\ \A f \in Kept(d, preserve) : f.doc # d \/ f.chunk = Seed
        /\ \A f \in facts : f.doc # d => f \in Kept(d, preserve)
    BY DEF Kept
  <2>2. \A k \in Keys : where[k] \in 1..n =>
           [key |-> k, doc |-> d, chunk |-> ChunkId(d, v, where[k])] \in Placed(d, v, where)
    BY DEF Placed, FactOf
  <2>3. \A g \in Placed(d, v, where) :
           \E k \in Keys : where[k] \in 1..n /\ g = [key |-> k, doc |-> d, chunk |-> ChunkId(d, v, where[k])]
    BY DEF Placed, FactOf
  <2>4. \A f \in facts' : f.chunk = Seed \/ \E c \in ChunksOf(f.doc)' : c.id = f.chunk /\ f.key \in c.text.names
    <3>1. ASSUME NEW f \in Kept(d, preserve), f.chunk # Seed
          PROVE  \E c \in ChunksOf(f.doc)' : c.id = f.chunk /\ f.key \in c.text.names
      <4>1. f.doc # d /\ f \in facts
        BY <2>1, <3>1
      <4>2. PICK c \in ChunksOf(f.doc) : c.id = f.chunk /\ f.key \in c.text.names
        BY <3>1, <4>1 DEF CorpusInv, FactsHold
      <4>3. c \in ChunksOf(f.doc)'
        BY <1>4, <4>1, <4>2 DEF ChunksOf
      <4>4. QED
        BY <4>2, <4>3
    <3>2. ASSUME NEW g \in Placed(d, v, where)
          PROVE  \E c \in ChunksOf(g.doc)' : c.id = g.chunk /\ g.key \in c.text.names
      <4>1. PICK k \in Keys : where[k] \in 1..n /\ g = [key |-> k, doc |-> d, chunk |-> ChunkId(d, v, where[k])]
        BY <2>3
      <4>2. PICK c \in new : c.id = ChunkId(d, v, where[k]) /\ c.text.names = {j \in Keys : where[j] = where[k]}
        BY <1>6, <4>1
      <4>3. c.id = g.chunk /\ g.key \in c.text.names /\ g.doc = d
        BY <4>1, <4>2
      <4>4. QED
        BY <1>17, <4>3
    <3>3. QED
      BY <1>3, <3>1, <3>2
  <2>5. \A r \in chunks', k \in Keys :
           k \in r.text.names => \E f \in facts' : f.key = k /\ f.doc = r.text.doc /\ f.chunk = r.id
    <3>1. ASSUME NEW r \in chunks, r \notin ChunksOf(d), NEW k \in Keys, k \in r.text.names
          PROVE  \E f \in facts' : f.key = k /\ f.doc = r.text.doc /\ f.chunk = r.id
      <4>1. PICK f \in facts : f.key = k /\ f.doc = r.text.doc /\ f.chunk = r.id
        BY <3>1 DEF CorpusInv, FactsHold
      <4>2. QED
        BY <1>3, <2>1, <3>1, <4>1 DEF ChunksOf
    <3>2. ASSUME NEW r \in new, NEW k \in Keys, k \in r.text.names
          PROVE  \E f \in facts' : f.key = k /\ f.doc = r.text.doc /\ f.chunk = r.id
      <4>1. PICK i \in 1..n : r = Row(d, v, i, {j \in Keys : where[j] = i})
        BY <1>6
      <4>2. r.id = ChunkId(d, v, i) /\ r.text.names = {j \in Keys : where[j] = i}
        BY <1>6, <4>1
      <4>3. where[k] = i /\ r.text.doc = d
        BY <1>6, <3>2, <4>2
      <4>4. [key |-> k, doc |-> d, chunk |-> ChunkId(d, v, where[k])] \in facts'
        BY <1>3, <2>2, <4>3
      <4>5. QED
        BY <4>2, <4>3, <4>4
    <3>3. QED
      BY <1>4, <3>1, <3>2
  <2>6. \A f, g \in facts' : f.key = g.key => f = g
    BY <1>3, <2>1, <2>3 DEF CorpusInv, FactsHold
  <2>7. \A e \in Docs \ replaced' : SeedOf[e] # NoKey => [key |-> SeedOf[e], doc |-> e, chunk |-> Seed] \in facts'
    <3>1. ASSUME NEW e \in Docs \ replaced', SeedOf[e] # NoKey
          PROVE  [key |-> SeedOf[e], doc |-> e, chunk |-> Seed] \in Kept(d, preserve)
      <4>1. e \notin replaced /\ (e = d => preserve)
        BY <1>4, <3>1
      <4>2. [key |-> SeedOf[e], doc |-> e, chunk |-> Seed] \in facts
        BY <3>1, <4>1 DEF CorpusInv, FactsHold
      <4>3. QED
        BY <4>1, <4>2 DEF Kept
    <3>2. QED
      BY <1>3, <3>1
  <2>8. QED
    BY <2>4, <2>5, <2>6, <2>7 DEF FactsHold
<1>21. RunTypes' /\ RunHolds'
  <2>1. \A t : ChunkItem(t) => ChunkItem(t)' /\ (Arrived(t) => Arrived(t)')
    BY <1>12, <1>13 DEF ChunkItem, Arrived
  <2>2. RunTypes'
    BY <1>4, <2>1 DEF CorpusInv, RunTypes
  <2>3. RunHolds'
    BY <1>4, <2>1 DEF CorpusInv, RunTypes, RunHolds, Running
  <2>4. QED
    BY <2>2, <2>3
<1>22. CheckpointHolds'
  BY <1>4, <1>12, <1>13 DEF CorpusInv, CheckpointHolds
<1>23. QED
  BY <1>4, <1>14, <1>15, <1>16, <1>18, <1>19, <1>20, <1>21, <1>22 DEF CorpusInv, CaptionsHold

-------------------------------------------------------------------------------
(***************************************************************************)
(* Captions and the migration.                                             *)
(***************************************************************************)

LEMMA CaptionsKeep ==
  ASSUME CorpusInv, (\E i \in ImageIds, c \in 1..MaxCaption : SetCaption(i, c) \/ EmbedCaption(i, c)) \/ DropCaptions
  PROVE  CorpusInv'
<1>1. UNCHANGED <<version, chunks, facts, replaced, whole, index, oldIndex, checkpoint, usable, load, run>>
  BY DEF SetCaption, EmbedCaption, DropCaptions, registry, file
<1>2. CaptionsHold'
  <2>1. CASE UNCHANGED embedded
    BY <2>1 DEF CorpusInv, CaptionsHold
  <2>2. ASSUME NEW i \in ImageIds, NEW c \in 1..MaxCaption, EmbedCaption(i, c)
        PROVE  CaptionsHold'
    <3> DEFINE row == [image |-> i, hash |-> c, current |-> TRUE]
    <3>1. CASE \E e \in embedded : e.image = i /\ e.hash = c
      BY <2>2, <3>1 DEF EmbedCaption, CorpusInv, CaptionsHold
    <3>2. CASE ~\E e \in embedded : e.image = i /\ e.hash = c
      <4>1. embedded' = embedded \cup {row} /\ row.image = i /\ row.hash = c
        BY <2>2, <3>2 DEF EmbedCaption
      <4> HIDE DEF row
      <4>2. QED
        BY <3>2, <4>1 DEF CorpusInv, CaptionsHold
    <3>3. QED
      BY <3>1, <3>2
  <2>3. QED
    BY <2>1, <2>2 DEF SetCaption, DropCaptions
<1>3. LoadTypes' /\ LoadsHold'
  BY <1>1 DEF CorpusInv, LoadTypes, LoadsHold, DoomsTheOld, BringsTheNew, ChunksOf
<1>4. \A r : Held(r)' => Held(r)
  BY <1>1 DEF Held
<1>5. RegistryHolds' /\ HeldHolds' /\ IngestedIsIndexed' /\ FactsHold' /\ RunTypes' /\ RunHolds' /\ CheckpointHolds'
  BY <1>1, <1>4, GrowthKeeps
<1>6. QED
  BY <1>2, <1>3, <1>5 DEF CorpusInv

\* A run begins with a plan of rows that were in the registry, less what has
\* arrived already.
LEMMA BeginKeeps ==
  ASSUME CorpusInv, BeginRun
  PROVE  CorpusInv'
<1> DEFINE plan == ChunkPlan \cup ImagePlan
           todo == {t \in plan : ~Recorded(t)}
<1>1. /\ UNCHANGED <<version, chunks, facts, replaced, whole, index, oldIndex, caption, embedded, pending,
                     checkpoint, usable, load>>
      /\ run' = [step |-> "embed", planned |-> plan, todo |-> todo, batch |-> {}, vectors |-> {},
                 failed |-> FALSE]
  BY DEF BeginRun, registry, images, file
<1>2. \A t \in plan : ChunkItem(t) /\ (t.kind = "chunks" => t.row \in oldIndex)
  BY DEF ChunkPlan, ImagePlan, ChunkItem, CorpusInv, HeldHolds, Held
<1>3. \A t \in plan : t \in todo \/ Arrived(t)
  BY <1>2 DEF Recorded, ChunkItem, Arrived, Known, CorpusInv, CheckpointHolds
<1> HIDE DEF plan, todo
<1>4. todo \subseteq plan
  BY DEF todo
<1>5. \A t : (ChunkItem(t)' <=> ChunkItem(t)) /\ (Arrived(t)' <=> Arrived(t))
  BY <1>1 DEF ChunkItem, Arrived, Known, Moved
<1>6. RunTypes'
  BY <1>1, <1>2, <1>5 DEF RunTypes, Running
<1>7. RunHolds'
  BY <1>1, <1>3, <1>4, <1>5 DEF RunHolds, Running
<1>8. \A r : Held(r)' => Held(r)
  BY <1>1, <1>2 DEF Held
<1>9. QED
  BY <1>1, <1>6, <1>7, <1>8, GrowthKeeps DEF CorpusInv, LoadTypes, LoadsHold, DoomsTheOld,
     BringsTheNew, ChunksOf, CaptionsHold

\* A step of the run that writes nothing but itself.
LEMMA RunAloneKeeps ==
  ASSUME CorpusInv, RunTypes', RunHolds', run' # Idle => run # Idle /\ run'.planned = run.planned,
         UNCHANGED <<version, chunks, facts, replaced, whole, index, oldIndex, embedded, checkpoint, load>>
  PROVE  CorpusInv'
<1>1. \A r : Held(r)' => Held(r)
  BY DEF Held
<1>2. QED
  BY <1>1, GrowthKeeps DEF CorpusInv, LoadTypes, LoadsHold, DoomsTheOld, BringsTheNew,
     ChunksOf, CaptionsHold

\* A batch is embedded, or failed and is counted.
LEMMA EmbedKeeps ==
  ASSUME CorpusInv, Embed
  PROVE  CorpusInv'
<1>1. /\ run # Idle /\ run.step = "embed"
      /\ UNCHANGED <<version, chunks, facts, replaced, whole, index, oldIndex, embedded, checkpoint, load>>
  BY DEF Embed, At, registry, images, file
<1>2. PICK B \in SUBSET run.todo :
        \/ run' = [run EXCEPT !.step = "commit", !.batch = B,
                              !.vectors = {[item |-> t, of |-> t] : t \in B}, !.todo = @ \ B]
        \/ run' = [run EXCEPT !.failed = TRUE, !.todo = @ \ B]
  BY DEF Embed, Batches, Vectors, Following
<1>3. /\ run = [step |-> run.step, planned |-> run.planned, todo |-> run.todo,
                batch |-> run.batch, vectors |-> run.vectors, failed |-> run.failed]
      /\ run.failed \in BOOLEAN
      /\ \A t \in run.planned : ChunkItem(t)
      /\ \A t \in run.planned : Arrived(t) \/ t \in run.todo \/ run.failed
      /\ run.todo \cup run.batch \subseteq run.planned
  BY <1>1 DEF CorpusInv, RunTypes, RunHolds, Running
<1>4. \A t : (ChunkItem(t)' <=> ChunkItem(t)) /\ (Arrived(t)' <=> Arrived(t))
  BY <1>1 DEF ChunkItem, Arrived, Known, Moved
<1>5. \/ run' = [step |-> "commit", planned |-> run.planned, todo |-> run.todo \ B, batch |-> B,
                 vectors |-> {[item |-> t, of |-> t] : t \in B}, failed |-> run.failed]
      \/ run' = [step |-> "embed", planned |-> run.planned, todo |-> run.todo \ B, batch |-> run.batch,
                 vectors |-> run.vectors, failed |-> TRUE]
  BY <1>1, <1>2, <1>3
<1>6. RunTypes'
  <2>1. run'.failed \in BOOLEAN /\ run'.planned = run.planned /\ run'.step \in Running
    <3>1. run'.planned = run.planned /\ run'.step \in Running
      BY <1>5 DEF Running
    <3>2. run'.failed = run.failed \/ run'.failed = TRUE
      BY <1>5
    <3>3. run'.failed \in BOOLEAN
      BY <1>3, <3>2, Zenon
    <3>4. QED
      BY <3>1, <3>3
  <2>2. run' = [step |-> run'.step, planned |-> run'.planned, todo |-> run'.todo,
                batch |-> run'.batch, vectors |-> run'.vectors, failed |-> run'.failed]
    BY <1>5
  <2>3. QED
    BY <1>3, <1>4, <2>1, <2>2 DEF RunTypes
<1>7. RunHolds'
  BY <1>2, <1>3, <1>4, <1>5 DEF RunHolds, Running
<1>8. run'.planned = run.planned
  BY <1>5
<1>9. QED
  BY <1>1, <1>6, <1>7, <1>8, RunAloneKeeps

\* The vectors of a batch are committed: what they are of has arrived.
LEMMA CommitKeeps ==
  ASSUME CorpusInv, Commit
  PROVE  CorpusInv'
<1> DEFINE rows == {[id |-> p.item.key, text |-> p.of.row.text] :
                       p \in {q \in run.vectors : q.item.kind = "chunks"}}
           shots == {[image |-> p.item.key, hash |-> p.item.hash, current |-> TRUE] :
                        p \in {q \in run.vectors : q.item.kind = "images"}}
<1>1. /\ run # Idle /\ run.step = "commit"
      /\ index' = {r \in index : \A s \in rows : r.id # s.id} \cup rows
      /\ embedded' = Refreshed(shots)
      /\ run' = [run EXCEPT !.step = "mark", !.vectors = {}]
      /\ UNCHANGED <<version, chunks, facts, replaced, whole, oldIndex, checkpoint, load>>
  BY DEF Commit, At, Following, registry, file
<1>2. /\ run = [step |-> run.step, planned |-> run.planned, todo |-> run.todo,
                batch |-> run.batch, vectors |-> run.vectors, failed |-> run.failed]
      /\ run.failed \in BOOLEAN
      /\ \A t \in run.planned : ChunkItem(t)
      /\ \A t \in run.planned : Arrived(t) \/ t \in run.todo \/ t \in run.batch \/ run.failed
      /\ run.todo \cup run.batch \subseteq run.planned
      /\ run.vectors = {[item |-> t, of |-> t] : t \in run.batch}
  BY <1>1 DEF CorpusInv, RunTypes, RunHolds, Running
<1>3. rows = {t.row : t \in {u \in run.batch : u.kind = "chunks"}}
  <2>1. \A t \in run.batch : t.kind = "chunks" => [id |-> t.key, text |-> t.row.text] = t.row
    <3>1. SUFFICES ASSUME NEW t \in run.batch, t.kind = "chunks"
                   PROVE  [id |-> t.key, text |-> t.row.text] = t.row
      OBVIOUS
    <3>2. t.row \in Rows /\ t.key = t.row.id
      BY <1>2, <3>1 DEF ChunkItem, Known
    <3>3. t.row = [id |-> t.row.id, text |-> t.row.text]
      BY <3>2 DEF Rows, Row
    <3>4. QED
      BY <3>2, <3>3
  <2>2. ASSUME NEW p \in run.vectors, p.item.kind = "chunks"
        PROVE  \E t \in run.batch : t.kind = "chunks" /\ [id |-> p.item.key, text |-> p.of.row.text] = t.row
    <3>1. PICK t \in run.batch : p = [item |-> t, of |-> t]
      BY <1>2
    <3>2. p.item = t /\ p.of = t
      BY <3>1
    <3>3. QED
      BY <2>1, <2>2, <3>2
  <2>3. ASSUME NEW t \in run.batch, t.kind = "chunks"
        PROVE  t.row \in rows
    <3>1. PICK p \in run.vectors : p = [item |-> t, of |-> t]
      BY <1>2
    <3>2. p.item = t /\ p.of = t
      BY <3>1
    <3>3. QED
      BY <2>1, <2>3, <3>2
  <2>4. \A r \in rows : \E t \in run.batch : t.kind = "chunks" /\ r = t.row
    BY <2>2
  <2> HIDE DEF rows
  <2>5. QED
    BY <2>3, <2>4
<1>4. \A s \in rows : Held(s)
  BY <1>1, <1>2, <1>3 DEF Held
<1>5. \A c \in chunks : c \in index => c \in index'
  <2>1. \A c \in index : Held(c)
    BY DEF Held
  <2>2. QED
    BY <1>1, <1>4, <2>1 DEF CorpusInv, HeldHolds
<1>6. RegistryHolds' /\ HeldHolds' /\ IngestedIsIndexed' /\ FactsHold' /\ CheckpointHolds'
  <2>1. run'.planned = run.planned
    BY <1>1, <1>2
  <2>2. \A r : Held(r)' => Held(r)
    BY <1>1, <1>4, <2>1 DEF Held
  <2>3. QED
    BY <1>1, <1>5, <2>2, GrowthKeeps
<1>7. LoadTypes' /\ LoadsHold'
  BY <1>1, <1>5 DEF CorpusInv, LoadTypes, LoadsHold, DoomsTheOld, BringsTheNew, ChunksOf
<1>8. CaptionsHold'
  <2>1. \A e \in shots : e = [image |-> e.image, hash |-> e.hash, current |-> TRUE]
    OBVIOUS
  <2> HIDE DEF shots
  <2>2. \A e, f \in shots : e.image = f.image /\ e.hash = f.hash => e = f
    BY <2>1
  <2>3. QED
    BY <1>1, <2>2 DEF Refreshed, CorpusInv, CaptionsHold
<1>9. /\ \A t : (ChunkItem(t)' <=> ChunkItem(t)) /\ (Arrived(t) => Arrived(t)')
      /\ \A t \in run.batch : Arrived(t)'
  <2>1. \A r : (Known(r)' <=> Known(r)) /\ (Moved(r) => Moved(r)')
    BY <1>1, <1>5 DEF Known, Moved
  <2>2. \A t \in run.batch : t.kind = "chunks" => t.row \in index'
    BY <1>1, <1>3
  <2>3. QED
    BY <2>1, <2>2 DEF ChunkItem, Arrived, Moved
<1>10. run' = [step |-> "mark", planned |-> run.planned, todo |-> run.todo, batch |-> run.batch,
               vectors |-> {}, failed |-> run.failed]
  BY <1>1, <1>2
<1>11. RunTypes'
  BY <1>2, <1>9, <1>10 DEF RunTypes, Running
<1>12. RunHolds'
  BY <1>2, <1>9, <1>10 DEF RunHolds, Running
<1>13. QED
  BY <1>6, <1>7, <1>8, <1>11, <1>12 DEF CorpusInv

\* What is recorded of a batch that was committed has arrived.
LEMMA RecordedHasArrived ==
  ASSUME CorpusInv, run # Idle, run.step = "mark", UNCHANGED <<version, chunks, index>>,
         NEW K \in SUBSET BatchKeys, checkpoint' = checkpoint \cup K
  PROVE  CheckpointHolds'
<1>1. \A t \in run.batch : ChunkItem(t) /\ Arrived(t)
  BY DEF CorpusInv, RunTypes, RunHolds, Running
<1>2. ASSUME NEW r \in Rows, <<"chunks", r.id>> \in K
      PROVE  Known(r) /\ Moved(r)
  <2>1. PICK t \in run.batch : t.kind = "chunks" /\ t.key = r.id
    BY <1>2 DEF BatchKeys
  <2>2. Known(t.row) /\ t.row.id = r.id /\ Moved(t.row)
    BY <1>1, <2>1 DEF ChunkItem, Arrived
  <2>3. Known(r)
    BY <2>2, IdsNameVersions DEF Known
  <2>4. Held(t.row)
    BY <2>1 DEF Held, CorpusInv, RunHolds, Running
  <2>5. r \in chunks => r = t.row
    BY <2>2, <2>4 DEF CorpusInv, HeldHolds, Held
  <2>6. QED
    BY <2>2, <2>3, <2>5 DEF Moved
<1>3. QED
  BY <1>2 DEF CorpusInv, CheckpointHolds, Known, Moved

LEMMA MarkKeeps ==
  ASSUME CorpusInv, Mark
  PROVE  CorpusInv'
<1>1. /\ run # Idle /\ run.step = "mark" /\ checkpoint' = checkpoint \cup BatchKeys
      /\ run' = [run EXCEPT !.step = "embed", !.batch = {}]
      /\ UNCHANGED <<version, chunks, facts, replaced, whole, index, oldIndex, embedded, load>>
  BY DEF Mark, At, Following, registry, images
<1>2. /\ run = [step |-> run.step, planned |-> run.planned, todo |-> run.todo,
                batch |-> run.batch, vectors |-> run.vectors, failed |-> run.failed]
      /\ run.failed \in BOOLEAN
      /\ \A t \in run.planned : ChunkItem(t)
      /\ \A t \in run.planned : Arrived(t) \/ t \in run.todo \/ run.failed
      /\ run.todo \subseteq run.planned
  BY <1>1 DEF CorpusInv, RunTypes, RunHolds, Running
<1>3. CheckpointHolds'
  BY <1>1, RecordedHasArrived
<1>4. \A t : (ChunkItem(t)' <=> ChunkItem(t)) /\ (Arrived(t)' <=> Arrived(t))
  BY <1>1 DEF ChunkItem, Arrived, Known, Moved
<1>5. run' = [step |-> "embed", planned |-> run.planned, todo |-> run.todo, batch |-> {},
              vectors |-> run.vectors, failed |-> run.failed]
  BY <1>1, <1>2
<1>6. RunTypes' /\ RunHolds'
  BY <1>2, <1>4, <1>5 DEF RunTypes, RunHolds, Running
<1>7. \A r : Held(r)' => Held(r)
  BY <1>1, <1>5 DEF Held
<1>8. QED
  BY <1>1, <1>3, <1>6, <1>7, GrowthKeeps DEF CorpusInv, LoadTypes, LoadsHold, DoomsTheOld,
     BringsTheNew, ChunksOf, CaptionsHold

\* The run ends with nothing left to do, or is cut off.
LEMMA RunEnds ==
  ASSUME CorpusInv, EndRun \/ AbortRun
  PROVE  CorpusInv'
<1>1. CASE EndRun
  <2>1. /\ run # Idle /\ run.step = "embed" /\ run.todo = {}
        /\ run' = [step |-> "ended", planned |-> run.planned, failed |-> run.failed]
        /\ UNCHANGED <<version, chunks, facts, replaced, whole, index, oldIndex, embedded, checkpoint, load>>
    BY <1>1 DEF EndRun, At, registry, images, file
  <2>2. /\ run.failed \in BOOLEAN
        /\ \A t \in run.planned : ChunkItem(t) /\ (Arrived(t) \/ run.failed)
    BY <2>1 DEF CorpusInv, RunTypes, RunHolds, Running
  <2>3. \A t : (ChunkItem(t)' <=> ChunkItem(t)) /\ (Arrived(t)' <=> Arrived(t))
    BY <2>1 DEF ChunkItem, Arrived, Known, Moved
  <2>4. RunTypes' /\ RunHolds'
    BY <2>1, <2>2, <2>3 DEF RunTypes, RunHolds, Running
  <2>5. run'.planned = run.planned
    BY <2>1
  <2>6. QED
    BY <2>1, <2>4, <2>5, RunAloneKeeps
<1>2. CASE AbortRun
  <2>1. /\ run # Idle /\ run' = Idle
        /\ UNCHANGED <<version, chunks, facts, replaced, whole, index, oldIndex, embedded, load>>
    BY <1>2 DEF AbortRun, registry, images
  <2>2. CheckpointHolds'
    <3>1. CASE run.step = "mark"
      BY <1>2, <2>1, <3>1, RecordedHasArrived DEF AbortRun
    <3>2. CASE run.step # "mark"
      BY <1>2, <2>1, <3>2 DEF AbortRun, CorpusInv, CheckpointHolds, Known, Moved
    <3>3. QED
      BY <3>1, <3>2
  <2>3. RunTypes' /\ RunHolds'
    BY <2>1 DEF RunTypes, RunHolds
  <2>4. \A r : Held(r)' => Held(r)
    BY <2>1 DEF Held
  <2>5. QED
    BY <2>1, <2>2, <2>3, <2>4, GrowthKeeps DEF CorpusInv, LoadTypes, LoadsHold, DoomsTheOld,
       BringsTheNew, ChunksOf, CaptionsHold
<1>3. QED
  BY <1>1, <1>2

LEMMA CorpusInvIsInductive == CorpusInv /\ [Next]_vars => CorpusInv'
<1> SUFFICES ASSUME CorpusInv, [Next]_vars
             PROVE  CorpusInv'
  OBVIOUS
<1>1. CASE UNCHANGED vars
  <2>1. UNCHANGED <<version, chunks, facts, replaced, whole, index, oldIndex, embedded, checkpoint, load, run>>
    BY <1>1 DEF vars, registry, images, file
  <2>2. RunTypes' /\ RunHolds'
    BY <2>1, GrowthKeeps DEF Held
  <2>3. QED
    BY <2>1, <2>2, RunAloneKeeps
<1>2. QED
  BY <1>1, ReplaceKeeps, DeleteKeeps, InsertKeeps, LoadEnds, CaptionsKeep, BeginKeeps, EmbedKeeps,
     CommitKeeps, MarkKeeps, RunEnds DEF Next

LEMMA CorpusInvHolds == Spec => []CorpusInv
BY CorpusInvHoldsAtFirst, CorpusInvIsInductive, PTL DEF Spec

-------------------------------------------------------------------------------
\* The registry has chunks of the newest version only, and a vector it lets through is
\* of the text it has, whatever loads and the migration left in LightRAG; tables hold
\* one row of a key: for any documents, loaders, versions and facts.
THEOREM WhatIsShownIsCurrent == Spec => []VisibleIsCurrent
<1>1. CorpusInv => VisibleIsCurrent
  <2> SUFFICES ASSUME CorpusInv
               PROVE  VisibleIsCurrent
    OBVIOUS
  <2>1. \A r \in chunks \cup index \cup oldIndex : Held(r)
    BY DEF Held
  <2>2. \A l \in Loaders : load[l] = Idle \/ load[l].step \in {"delete", "insert"}
    BY DEF CorpusInv, LoadTypes
  <2>3. run = Idle \/ run.step \in {"embed", "commit", "mark", "ended"}
    BY DEF CorpusInv, RunTypes, Running
  <2>4. TypeOK
    BY <2>1, <2>2, <2>3 DEF CorpusInv, RegistryHolds, HeldHolds, CaptionsHold, TypeOK
  <2>5. Shown \subseteq chunks
    BY <2>1 DEF CorpusInv, HeldHolds, Shown
  <2>6. QED
    BY <2>4, <2>5 DEF CorpusInv, RegistryHolds, VisibleIsCurrent
<1>2. QED
  BY <1>1, CorpusInvHolds, PTL

\* A document reported as ingested is found by all its chunks, however loads of it
\* overlapped each other and the migration.
THEOREM IngestedStaysIndexed == Spec => []IngestedIsIndexed
<1>1. CorpusInv => IngestedIsIndexed
  BY DEF CorpusInv
<1>2. QED
  BY <1>1, CorpusInvHolds, PTL

\* Facts hang on current chunks that have a token for them or are seeds, tokens have
\* their facts, a key has one fact in effect, and a seed stays until its own document
\* is loaded without preserve_seed_facts: for any documents, keys and loads.
THEOREM FactsStayAnchored == Spec => []FactsAreAnchored
<1>1. CorpusInv => FactsAreAnchored
  <2> SUFFICES ASSUME CorpusInv
               PROVE  FactsAreAnchored
    OBVIOUS
  <2>1. Shown \subseteq chunks
    BY DEF CorpusInv, HeldHolds, Held, Shown
  <2>2. QED
    BY <2>1 DEF CorpusInv, FactsHold, FactsAreAnchored
<1>2. QED
  BY <1>1, CorpusInvHolds, PTL

\* A run of the migration that reports no failure left no chunk of its plan behind,
\* whatever runs were cut off before it and whatever was loaded meanwhile.
THEOREM MigrationLeavesNothing == Spec => []MigrationIsComplete
<1>1. CorpusInv => MigrationIsComplete
  BY DEF CorpusInv, RunTypes, RunHolds, Arrived, Moved, MigrationIsComplete
<1>2. QED
  BY <1>1, CorpusInvHolds, PTL

-------------------------------------------------------------------------------
(***************************************************************************)
(* What evidence rests on.                                                 *)
(***************************************************************************)

\* A block is of the project of the question, in force and within its budget.
Rests(b, q) ==
  /\ b \in Evidence /\ ~Unresolved(q)
  /\ b.leg # "nl2sql" => OfScope(b.row, RetrievalScope(q))
  /\ b.leg = "facts" => /\ InForce(b.row, q.day) /\ InForce(b.row.doc, q.day)
                        /\ b.row.doc.status = "published"
  /\ b.leg = "cash" => FloorPrice(b.row.min, b.row.floor) <= q.budget
  /\ b.leg = "loan" => b.row.min > q.budget /\ b.row.deposit # {}

LEMMA BlockHas == \A leg, row : Block(leg, row).leg = leg /\ Block(leg, row).row = row
BY DEF Block

LEMMA FactsRest ==
  ASSUME NEW q, ~Unresolved(q), NEW r \in Visible(RetrievalScope(q), q.day)
  PROVE  Rests(Block("facts", r), q)
<1>1. /\ r \in Facts /\ InForce(r, q.day) /\ OfScope(r, RetrievalScope(q))
      /\ r.doc.status = "published" /\ InForce(r.doc, q.day)
  BY DEF Visible
<1>2. Block("facts", r) \in Evidence
  BY <1>1 DEF Evidence
<1>3. QED
  BY <1>1, <1>2, BlockHas DEF Rests

LEMMA OffersRest ==
  ASSUME NEW q, ~Unresolved(q), NEW o \in Offers, NEW leg \in {"v_unit_offers", "nl2sql"},
         leg # "nl2sql" => OfScope(o, RetrievalScope(q))
  PROVE  Rests(Block(leg, o), q)
<1>1. Block(leg, o) \in Evidence
  BY DEF Evidence
<1>2. QED
  BY <1>1, BlockHas DEF Rests

\* A non-empty set of numbers has a least one.
LEMMA LeastNumber ==
  ASSUME NEW T, T \subseteq Nat, T # {}
  PROVE  \E x \in T : \A y \in T : x <= y
<1>1. PICK x \in T : \A y \in T : <<y, x>> \notin OpToRel(<, Nat)
  <2>1. IsWellFoundedOn(OpToRel(<, Nat), Nat)
    BY NatLessThanWellFounded
  <2>2. QED
    BY <2>1, WFMin
<1>2. \A y \in T : ~(y < x)
  BY <1>1 DEF OpToRel
<1>3. QED
  BY <1>2

LEMMA PricesAreNumbers ==
  ASSUME NEW base \in Nat, NEW floor \in Nat
  PROVE  FloorPrice(base, floor) \in Int /\ (floor = 1 => FloorPrice(base, floor) = base)
<1>1. PICK n \in Int : n = 75 * base * (floor - 1)
  OBVIOUS
<1>2. FloorPrice(base, floor) = base + (n + 10500) \div 21000
  BY <1>1 DEF FloorPrice
<1>3. (n + 10500) \div 21000 \in Int
  OBVIOUS
<1>4. ASSUME floor = 1
      PROVE  FloorPrice(base, floor) = base
  <2>1. n = 0
    BY <1>1, <1>4
  <2>2. (0 + 10500) \div 21000 = 0
    OBVIOUS
  <2>3. QED
    BY <1>2, <2>1, <2>2
<1>5. QED
  BY <1>2, <1>3, <1>4

\* The highest floor within a budget exists and is within it.
LEMMA ReachIsWithin ==
  ASSUME NEW e \in Estimates, e.priced, NEW budget \in Nat, e.min <= budget
  PROVE  Reach(e, budget) \in 1..TopFloor /\ FloorPrice(e.min, Reach(e, budget)) <= budget
<1>1. e.min \in Nat /\ TopFloor \in Nat /\ TopFloor >= 1
  BY EstimatesArePriced, LimitsAreNumbers
<1> DEFINE T == {i \in 1..TopFloor : i = 1 \/ FloorPrice(e.min, i) <= budget}
           D == {k \in Nat : TopFloor - k \in T}
<1>2. TopFloor - 1 \in D
  <2>1. 1 \in T /\ TopFloor - 1 \in Nat /\ TopFloor - (TopFloor - 1) = 1
    BY <1>1
  <2> HIDE DEF T
  <2>2. QED
    BY <2>1
<1>3. PICK k \in D : \A j \in D : k <= j
  <2>1. D \subseteq Nat
    OBVIOUS
  <2> HIDE DEF D
  <2>2. QED
    BY <1>2, <2>1, LeastNumber
<1>4. PICK i \in T : i = TopFloor - k
  OBVIOUS
<1>5. i = TopFloor \/ FloorPrice(e.min, i + 1) > budget
  <2> SUFFICES ASSUME i # TopFloor
               PROVE  FloorPrice(e.min, i + 1) > budget
    OBVIOUS
  <2>1. i + 1 \in 1..TopFloor /\ i + 1 # 1 /\ k \in Nat /\ k - 1 \in Nat /\ TopFloor - (k - 1) = i + 1
    BY <1>1, <1>4
  <2>2. k - 1 \notin D
    BY <1>3, <2>1
  <2>3. i + 1 \notin T
    BY <2>1, <2>2
  <2>4. FloorPrice(e.min, i + 1) \in Int
    BY <1>1, <2>1, PricesAreNumbers
  <2>5. QED
    BY <2>1, <2>3, <2>4
<1>6. PICK r : r = Reach(e, budget)
  OBVIOUS
<1>7. /\ r \in 1..TopFloor
      /\ r = 1 \/ FloorPrice(e.min, r) <= budget
      /\ r = TopFloor \/ FloorPrice(e.min, r + 1) > budget
  <2>1. i \in 1..TopFloor /\ (i = 1 \/ FloorPrice(e.min, i) <= budget)
    OBVIOUS
  <2>2. QED
    BY <1>5, <1>6, <2>1 DEF Reach
<1>8. QED
  BY <1>1, <1>6, <1>7, PricesAreNumbers

LEMMA CashRests ==
  ASSUME NEW q, ~Unresolved(q), NEW e \in Estimates, OfScope(e, RetrievalScope(q)),
         q.budget \in Nat, e.priced, e.min <= q.budget
  PROVE  Rests(Block("cash", [e EXCEPT !.floor = Reach(e, q.budget)]), q)
<1>1. PICK i \in 1..TopFloor : i = Reach(e, q.budget) /\ FloorPrice(e.min, i) <= q.budget
  BY ReachIsWithin
<1>2. PICK row : row = [e EXCEPT !.floor = i]
  OBVIOUS
<1>3. row.project = e.project /\ row.min = e.min /\ row.floor = i
  BY <1>2, EstimatesArePriced
<1>4. Block("cash", row) \in Evidence
  BY <1>2 DEF Evidence
<1>5. OfScope(row, RetrievalScope(q))
  BY <1>3 DEF OfScope
<1>6. Rests(Block("cash", row), q)
  BY <1>1, <1>3, <1>4, <1>5, BlockHas DEF Rests
<1>7. QED
  BY <1>1, <1>2, <1>6

LEMMA LoanRests ==
  ASSUME NEW q, ~Unresolved(q), NEW e \in Estimates, OfScope(e, RetrievalScope(q)),
         e.min > q.budget, e.deposit # {}
  PROVE  Rests(Block("loan", e), q)
<1>1. Block("loan", e) \in Evidence
  BY DEF Evidence
<1>2. QED
  BY <1>1, BlockHas DEF Rests

LEMMA BoardRests ==
  ASSUME NEW q, RetrievalScope(q) # NoProject, NEW b \in BoardOf(RetrievalScope(q))
  PROVE  Rests(b, q) /\ b.approx
<1>1. ~Unresolved(q)
  BY DEF Unresolved, RetrievalScope
<1>2. PICK e \in Estimates : OfScope(e, RetrievalScope(q)) /\ b = Block("board", e)
  BY DEF BoardOf, Cheapest
<1>3. Block("board", e) \in Evidence
  BY DEF Evidence
<1>4. b.approx
  BY <1>2 DEF Block
<1>5. QED
  BY <1>1, <1>2, <1>3, <1>4, BlockHas DEF Rests

-------------------------------------------------------------------------------
(***************************************************************************)
(* What the SQL leg finds.                                                 *)
(***************************************************************************)

AllRest(blocks, q) == \A b \in blocks : Rests(b, q)

LEMMA SpecResultsRest ==
  ASSUME NEW q, ~Unresolved(q), NEW spec, NEW limit,
         NEW r \in RunSpec(spec, limit, RetrievalScope(q), q.day)
  PROVE  AllRest(r.blocks, q)
<1>1. CASE r = Failure
  BY <1>1 DEF Failure, AllRest
<1>2. CASE r # Failure
  <2>1. /\ Valid(spec, limit)
        /\ \E rows \in Cuts(Superset(spec, RetrievalScope(q), q.day), limit) :
              r = Found(spec.source, Exact(spec, rows))
    BY <1>2 DEF RunSpec
  <2>2. PICK rows \in Cuts(Superset(spec, RetrievalScope(q), q.day), limit) :
           r = Found(spec.source, Exact(spec, rows))
    BY <2>1
  <2>3. rows \subseteq Superset(spec, RetrievalScope(q), q.day)
    BY DEF Cuts
  <2>4. Exact(spec, rows) \subseteq rows
    BY DEF Exact
  <2>5. spec.source \in {"facts", "v_unit_offers"}
    <3>1. CASE spec.source \notin {"facts", "v_unit_offers"}
      <4>1. FieldsOf(spec.source) = {}
        BY <3>1, Zenon DEF FieldsOf
      <4>2. QED
        BY <2>1, <4>1 DEF Valid
    <3>2. QED
      BY <3>1
  <2>6. ASSUME NEW b \in r.blocks
        PROVE  Rests(b, q)
    <3>1. PICK row \in Exact(spec, rows) : b = Block(spec.source, row)
      BY <2>2 DEF Found
    <3>2. row \in Superset(spec, RetrievalScope(q), q.day)
      BY <2>3, <2>4
    <3>3. CASE spec.source = "facts"
      BY <3>1, <3>2, <3>3, FactsRest DEF Superset
    <3>4. CASE spec.source = "v_unit_offers"
      BY <3>1, <3>2, <3>4, OffersRest DEF Superset
    <3>5. QED
      BY <2>5, <3>3, <3>4
  <2>7. QED
    BY <2>6 DEF AllRest
<1>3. QED
  BY <1>1, <1>2

LEMMA Nl2SqlResultsRest ==
  ASSUME NEW q, ~Unresolved(q), NEW statement, NEW r \in RunNl2Sql(statement, q.day)
  PROVE  AllRest(r.blocks, q)
<1>1. CASE r = Failure
  BY <1>1 DEF Failure, AllRest
<1>2. CASE r # Failure
  <2>1. PICK rows \in SUBSET Offers : r = Found("nl2sql", rows)
    BY <1>2 DEF RunNl2Sql
  <2>2. ASSUME NEW b \in r.blocks
        PROVE  Rests(b, q)
    <3>1. PICK o \in rows : b = Block("nl2sql", o)
      BY <2>1 DEF Found
    <3>2. o \in Offers
      BY <2>1
    <3>3. QED
      BY <3>1, <3>2, OffersRest
  <2>3. QED
    BY <2>2 DEF AllRest
<1>3. QED
  BY <1>1, <1>2

LEMMA AffordabilityResultsRest ==
  ASSUME NEW q, ~Unresolved(q), q.budget \in Nat, NEW limit,
         NEW r \in RunAffordability(q.budget, limit, RetrievalScope(q))
  PROVE  AllRest(r.blocks, q)
<1>1. CASE r = Failure
  BY <1>1 DEF Failure, AllRest
<1>2. CASE r # Failure
  <2> DEFINE rows == Priced(RetrievalScope(q))
             cash == Cheapest(limit, CashLeg(rows, q.budget))
             loan == Cheapest(limit - Cardinality(cash), LoanLeg(rows, q.budget))
  <2>1. r = [blocks |-> {Block("cash", [e EXCEPT !.floor = Reach(e, q.budget)]) : e \in cash}
                          \cup {Block("loan", e) : e \in loan},
             degraded |-> FALSE]
    BY <1>2 DEF RunAffordability
  <2>2. \A e \in cash : e \in Estimates /\ OfScope(e, RetrievalScope(q)) /\ e.priced /\ e.min <= q.budget
    BY DEF Cheapest, CashLeg, Priced
  <2>3. \A e \in loan : e \in Estimates /\ OfScope(e, RetrievalScope(q)) /\ e.min > q.budget /\ e.deposit # {}
    BY DEF Cheapest, LoanLeg, Priced, Deposit
  <2> HIDE DEF rows, cash, loan
  <2>4. ASSUME NEW b \in r.blocks
        PROVE  Rests(b, q)
    <3>1. CASE b \in {Block("cash", [e EXCEPT !.floor = Reach(e, q.budget)]) : e \in cash}
      <4>1. PICK e \in cash : b = Block("cash", [e EXCEPT !.floor = Reach(e, q.budget)])
        BY <3>1
      <4>2. QED
        BY <2>2, <4>1, CashRests
    <3>2. CASE b \in {Block("loan", e) : e \in loan}
      <4>1. PICK e \in loan : b = Block("loan", e)
        BY <3>2
      <4>2. QED
        BY <2>3, <4>1, LoanRests
    <3>3. QED
      BY <2>1, <3>1, <3>2
  <2>5. QED
    BY <2>4 DEF AllRest
<1>3. QED
  BY <1>1, <1>2

-------------------------------------------------------------------------------
(***************************************************************************)
(* Which images a question is shown.                                       *)
(***************************************************************************)

Fits(i, project, units) ==
  i.project = project /\ i.served /\ Public(i) /\ (units = {} => i.space \/ i.kind = "banggia")

LEMMA FirstAreRows ==
  ASSUME NEW n, NEW rows, NEW Before(_, _)
  PROVE  First(n, rows, Before) \subseteq rows
BY DEF First

LEMMA RelevantFit ==
  ASSUME NEW project, NEW i \in Relevant(project)
  PROVE  Public(i) /\ i.project = project /\ i.space
BY DEF Relevant, Neighbours, First

LEMMA RescuedFit ==
  ASSUME NEW project, NEW unit, NEW i \in Rescued(project, unit)
  PROVE  Public(i) /\ i.project = project
<1> DEFINE rows == {j \in Images : Public(j) /\ j.project = project /\ unit \in j.unit}
<1>1. rows # {} /\ i = CHOOSE j \in rows : TRUE
  BY DEF Rescued
<1>2. i \in rows
  BY <1>1
<1>3. QED
  BY <1>2

LEMMA ImagesFit ==
  ASSUME NEW project, NEW units, NEW board, NEW i \in ImagesFor(project, units, board)
  PROVE  Fits(i, project, units)
<1>1. CASE i \in BoardPages(project)
  BY <1>1 DEF BoardPages, Served, Public, Fits
<1>2. CASE units = {} /\ i \in ByCaption(project)
  <2>1. i \in Relevant(project) /\ i.served
    BY <1>2 DEF ByCaption, First, Served
  <2>2. QED
    BY <2>1, RelevantFit DEF Fits
<1>3. CASE units # {} /\ i \in ByUnit(project, units)
  <2> DEFINE near == Relevant(project)
             hit == {j \in near : j.unit \cap units # {}}
             rescued == UNION {Rescued(project, u) : u \in units \ UNION {j.unit : j \in hit}}
  <2>1. i \in near \cup (hit \cup rescued) /\ i.served
    BY <1>3 DEF ByUnit, Served, First
  <2>2. CASE i \in near
    BY <1>3, <2>1, <2>2, RelevantFit DEF Fits
  <2>3. CASE i \in rescued
    BY <1>3, <2>1, <2>3, RescuedFit DEF Fits
  <2>4. QED
    BY <2>1, <2>2, <2>3
<1>4. QED
  BY <1>1, <1>2, <1>3 DEF ImagesFor

-------------------------------------------------------------------------------
(***************************************************************************)
(* The invariant of a run.                                                 *)
(***************************************************************************)

Legs == {"rag", "sql", "geo"}
Stages == {"guard", "route", "legs", "generate", "verify"} \cup Ended
Flags == {"guard", "router", "rag", "sql", "geo", "rerank"}

PipelineTypes ==
  /\ question \in Questions
  /\ stage \in Stages
  /\ legs \in [Legs -> {"waiting", "done", "failed"}]
  /\ flags \subseteq Flags
  /\ route.path \in Paths
  /\ DOMAIN found = {"chunks", "blocks", "places"} /\ found.chunks \subseteq Chunks
  /\ DOMAIN merged = {"facts", "rows", "strong", "approx", "flags"}
  /\ verdict \in {"none", "LOW", "MEDIUM", "HIGH"}

\* Nothing is sent or noted before the run is verified, and only then an answer.
Silent ==
  /\ token # Nothing <=> stage = "answered"
  /\ verdict # "none" => stage = "answered"
  /\ audits \in 0..1
  /\ stage \notin Ended => audits = 0

\* Only an affordable question has a budget, and that is its own.
BudgetIsTheirs == route.path = "affordability" => route.budget = question.budget

\* What was found and merged rests on the project of the question, and so does
\* what of it was sent.
Resting ==
  /\ AllRest(found.blocks, question)
  /\ \A c \in found.chunks : OfScope(c, RetrievalScope(question))
  /\ AllRest(merged.facts, question)
  /\ \A c \in token.claims : Rests(c, question)
  /\ \A i \in shown.images : Fits(i, RetrievalScope(question), question.units)
  /\ \A d \in shown.sources : \E c \in Chunks : c.doc = d /\ OfScope(c, RetrievalScope(question))

\* A failed leg has its flag, and once the legs were merged none is waiting and
\* the merged flags are all there were; evidence that is not approximate is what
\* the legs found.
Honest ==
  /\ \A l \in Legs : legs[l] = "failed" => l \in flags
  /\ stage \in {"generate", "verify", "answered"} =>
        /\ \A l \in Legs : legs[l] # "waiting" /\ (legs[l] = "failed" => l \in merged.flags)
        /\ merged.approx \/ /\ merged.facts = found.blocks
                            /\ merged.rows = Cardinality(found.blocks)
                            /\ \A b \in found.blocks : ~b.approx
        /\ merged.strong \in 0..Cardinality(found.chunks)

PipelineInv == PipelineTypes /\ Silent /\ BudgetIsTheirs /\ Resting /\ Honest /\ HighIsEarned

LEMMA QuestionsHaveBudgets == \A q \in Questions : q.budget \in Nat
BY QuestionsAreTyped DEF QuestionType

LEMMA PipelineInvHoldsAtFirst == PipelineInit => PipelineInv
<1> SUFFICES ASSUME PipelineInit
             PROVE  PipelineInv
  OBVIOUS
<1>1. PipelineTypes
  BY DEF PipelineInit, PipelineTypes, Legs, Stages, Flags, NoRoute, Paths, NothingFound, NotMerged
<1>2. Silent /\ BudgetIsTheirs
  BY DEF PipelineInit, Silent, BudgetIsTheirs, Ended, NoRoute, Nothing
<1>3. Resting
  BY DEF PipelineInit, Resting, AllRest, NothingFound, NotMerged, NotShown, Nothing
<1>4. Honest /\ HighIsEarned
  BY DEF PipelineInit, Honest, HighIsEarned, Legs
<1>5. QED
  BY <1>1, <1>2, <1>3, <1>4 DEF PipelineInv

\* The input guard.
LEMMA GuardKeepsRun ==
  ASSUME PipelineInv, NEW c \in Classifier, Guard(c)
  PROVE  PipelineInv'
<1>1. /\ stage = "guard" /\ stage' \in {"route", "rejected"} /\ audits' \in {audits, audits + 1}
      /\ flags' = flags \/ flags' = flags \cup {"guard"} \/ flags' = flags \cup {}
      /\ stage' = "route" => audits' = audits
      /\ UNCHANGED <<question, legs, route, found, merged, shown, answer, verdict, token>>
  BY DEF Guard, Audited
<1>2. PipelineTypes'
  BY <1>1 DEF PipelineInv, PipelineTypes, Flags, Stages, Ended
<1>3. Silent'
  BY <1>1 DEF PipelineInv, Silent, Ended
<1>4. Resting' /\ Honest' /\ BudgetIsTheirs' /\ HighIsEarned'
  BY <1>1 DEF PipelineInv, Resting, AllRest, Honest, BudgetIsTheirs, HighIsEarned
<1>5. QED
  BY <1>2, <1>3, <1>4 DEF PipelineInv

\* What the router makes of a proposal.
LEMMA NormalizedIsRoute ==
  ASSUME NEW q \in Questions, NEW p \in Proposals
  PROVE  LET r == Normalized(q, p) IN
         /\ r.path \in Paths /\ r.flags \subseteq {"router"}
         /\ r.path = "affordability" => r.budget = q.budget
<1>1. p.path \in Paths
  BY ProposalsAreTyped
<1>2. BudgetOf(q) > 0 => BudgetOf(q) = q.budget
  BY DEF BudgetOf
<1>3. QED
  BY <1>1, <1>2 DEF Normalized, Paths

LEMMA RouteKeepsRun ==
  ASSUME PipelineInv, Route
  PROVE  PipelineInv'
<1>1. /\ stage = "route" /\ stage' = "legs"
      /\ UNCHANGED <<question, legs, found, merged, shown, answer, verdict, token, audits>>
  BY DEF Route
<1>2. /\ route'.path \in Paths /\ (route'.path = "affordability" => route'.budget = question.budget)
      /\ flags \subseteq flags' /\ flags' \subseteq flags \cup {"router"}
  <2>1. CASE route' = [NoRoute EXCEPT !.geo = question.places] /\ flags' = flags \cup {"router"}
    <3>1. route'.path = "none"
      BY <2>1 DEF NoRoute
    <3>2. QED
      BY <2>1, <3>1 DEF Paths
  <2>2. ASSUME NEW p \in Proposals, NEW geo \in {question.places, TRUE},
               route' = [path |-> Normalized(question, p).path, sql |-> Normalized(question, p).sql,
                         geo |-> geo, spec |-> Normalized(question, p).spec, budget |-> Normalized(question, p).budget],
               flags' = flags \cup Normalized(question, p).flags
                          \cup (IF Normalized(question, p).path = "affordability" THEN {"router"} ELSE {})
        PROVE  /\ route'.path \in Paths /\ (route'.path = "affordability" => route'.budget = question.budget)
               /\ flags \subseteq flags' /\ flags' \subseteq flags \cup {"router"}
    <3>1. question \in Questions
      BY DEF PipelineInv, PipelineTypes
    <3>2. QED
      BY <2>2, <3>1, NormalizedIsRoute
  <2>3. QED
    BY <2>1, <2>2 DEF Route
<1>3. PipelineTypes'
  BY <1>1, <1>2 DEF PipelineInv, PipelineTypes, Flags, Stages
<1>4. Silent' /\ BudgetIsTheirs'
  BY <1>1, <1>2 DEF PipelineInv, Silent, Ended, BudgetIsTheirs
<1>5. Resting' /\ Honest' /\ HighIsEarned'
  BY <1>1, <1>2 DEF PipelineInv, Resting, AllRest, Honest, HighIsEarned
<1>6. QED
  BY <1>3, <1>4, <1>5 DEF PipelineInv

\* A leg ends: with a result that rests on the project, or flagged.
LEMMA LegKeepsRun ==
  ASSUME PipelineInv, NEW leg \in Legs, NEW how \in {"done", "failed"}, Finish(leg, how),
         flags \subseteq flags', flags' \subseteq flags \cup {leg}, how = "failed" => leg \in flags',
         DOMAIN found' = DOMAIN found, found'.chunks \subseteq Chunks,
         AllRest(found'.blocks, question),
         \A c \in found'.chunks : OfScope(c, RetrievalScope(question))
  PROVE  PipelineInv'
<1>1. /\ stage = "legs" /\ legs' = [legs EXCEPT ![leg] = how]
      /\ UNCHANGED <<question, stage, route, merged, shown, answer, verdict, token, audits>>
  BY DEF Finish
<1>2. PipelineTypes'
  BY <1>1 DEF PipelineInv, PipelineTypes, Flags, Legs
<1>3. Silent' /\ BudgetIsTheirs'
  BY <1>1 DEF PipelineInv, Silent, BudgetIsTheirs
<1>4. Resting'
  BY <1>1 DEF PipelineInv, Resting, AllRest
<1>5. verdict = "none"
  BY <1>1 DEF PipelineInv, Silent
<1>6. Honest' /\ HighIsEarned'
  BY <1>1, <1>5 DEF PipelineInv, PipelineTypes, Honest, HighIsEarned
<1>7. QED
  BY <1>2, <1>3, <1>4, <1>6 DEF PipelineInv

LEMMA LegsKeepRun ==
  ASSUME PipelineInv, RagLeg \/ SqlLeg \/ GeoLeg
  PROVE  PipelineInv'
<1>0. /\ DOMAIN found = {"chunks", "blocks", "places"} /\ found.chunks \subseteq Chunks
      /\ AllRest(found.blocks, question) /\ question \in Questions
      /\ \A c \in found.chunks : OfScope(c, RetrievalScope(question))
  BY DEF PipelineInv, PipelineTypes, Resting
<1>1. ASSUME NEW leg \in Legs, Fail(leg)
      PROVE  PipelineInv'
  BY <1>0, <1>1, LegKeepsRun DEF Fail, Flagged
<1>2. ASSUME NEW hits \in SUBSET Chunks, Finish("rag", "done"),
             found' = [found EXCEPT !.chunks = PostFiltered(hits, question)],
             flags' = Flagged(IF PostFiltered(hits, question) = hits THEN {} ELSE {"rag"})
      PROVE  PipelineInv'
  <2>1. /\ found'.chunks = PostFiltered(hits, question) /\ found'.blocks = found.blocks
        /\ DOMAIN found' = DOMAIN found
    BY <1>0, <1>2
  <2>2. \A c \in PostFiltered(hits, question) : c \in Chunks /\ OfScope(c, RetrievalScope(question))
    BY DEF PostFiltered
  <2>3. flags \subseteq flags' /\ flags' \subseteq flags \cup {"rag"} /\ "rag" \in Legs
    BY <1>2 DEF Flagged, Legs
  <2>4. QED
    BY <1>0, <1>2, <2>1, <2>2, <2>3, LegKeepsRun
<1>3. ASSUME NEW leg \in Legs, Finish(leg, "done"), UNCHANGED <<found, flags>>
      PROVE  PipelineInv'
  BY <1>0, <1>3, LegKeepsRun
<1>4. ASSUME ~Unresolved(question), NEW r \in SqlResults, Finish("sql", "done"),
             found' = [found EXCEPT !.blocks = r.blocks], UNCHANGED flags
      PROVE  PipelineInv'
  <2>1. AllRest(r.blocks, question)
    <3>1. CASE route.path = "nl2sql"
      <4>1. SqlResults = UNION {RunNl2Sql(s, question.day) : s \in Statements}
        BY <3>1, Zenon DEF SqlResults
      <4>2. QED
        BY <1>4, <4>1, Nl2SqlResultsRest
    <3>2. CASE route.path = "affordability"
      <4>1. SqlResults = RunAffordability(route.budget, EffectiveLimit(route.spec, question.all),
                                          RetrievalScope(question))
        BY <3>2, Zenon DEF SqlResults
      <4>2. route.budget = question.budget /\ question.budget \in Nat
        BY <1>0, <3>2, QuestionsHaveBudgets DEF PipelineInv, BudgetIsTheirs
      <4>3. QED
        BY <1>4, <4>1, <4>2, AffordabilityResultsRest
    <3>3. CASE route.path \notin {"nl2sql", "affordability"}
      <4>1. SqlResults = RunSpec(route.spec, EffectiveLimit(route.spec, question.all),
                                 RetrievalScope(question), question.day)
        BY <3>3, Zenon DEF SqlResults
      <4>2. QED
        BY <1>4, <4>1, SpecResultsRest
    <3>4. QED
      BY <3>1, <3>2, <3>3
  <2>2. found'.blocks = r.blocks /\ found'.chunks = found.chunks /\ DOMAIN found' = DOMAIN found
    BY <1>0, <1>4
  <2>3. "sql" \in Legs
    BY DEF Legs
  <2>4. QED
    BY <1>0, <1>4, <2>1, <2>2, <2>3, LegKeepsRun
<1>5. ASSUME NEW n \in PlacesAround, Finish("geo", "done"), UNCHANGED flags,
             found' = [found EXCEPT !.places = n]
      PROVE  PipelineInv'
  <2>1. /\ found'.blocks = found.blocks /\ found'.chunks = found.chunks /\ DOMAIN found' = DOMAIN found
        /\ "geo" \in Legs
    BY <1>0, <1>5 DEF Legs
  <2>2. QED
    BY <1>0, <1>5, <2>1, LegKeepsRun
<1>6. CASE RagLeg
  BY <1>1, <1>2, <1>6 DEF RagLeg, Legs
<1>7. CASE SqlLeg
  BY <1>1, <1>3, <1>4, <1>7 DEF SqlLeg, Legs
<1>8. CASE GeoLeg
  BY <1>1, <1>3, <1>5, <1>8 DEF GeoLeg, Legs
<1>9. QED
  BY <1>6, <1>7, <1>8

\* The legs are merged, and what they found is shown.
LEMMA MergeKeepsRun ==
  ASSUME PipelineInv, Merge
  PROVE  PipelineInv'
<1>0. stage = "legs" /\ stage' = "generate"
      /\ UNCHANGED <<question, legs, route, found, answer, verdict, token, audits>>
  BY DEF Merge
<1>1. PICK scored \in Rescored(found.chunks) :
         /\ flags' = flags \cup scored.flags
         /\ merged' = [facts |-> found.blocks, rows |-> Cardinality(found.blocks), strong |-> scored.strong,
                       approx |-> \E b \in found.blocks : b.approx, flags |-> flags']
  BY DEF Merge
<1>2. scored.strong \in 0..Cardinality(found.chunks) /\ scored.flags \subseteq {"rerank"}
  BY DEF Rescored
<1>3. /\ merged'.facts = found.blocks /\ merged'.rows = Cardinality(found.blocks)
      /\ merged'.strong = scored.strong /\ merged'.flags = flags'
      /\ merged'.approx \/ \A b \in found.blocks : ~b.approx
      /\ DOMAIN merged' = {"facts", "rows", "strong", "approx", "flags"}
  BY <1>1
<1>4. PipelineTypes'
  BY <1>0, <1>1, <1>2, <1>3 DEF PipelineInv, PipelineTypes, Stages, Flags
<1>5. Silent' /\ BudgetIsTheirs'
  BY <1>0 DEF PipelineInv, Silent, BudgetIsTheirs, Ended
<1>6. Resting'
  <2>1. PICK sources \in Sources(found.chunks), pictures \in Pictures :
           shown' = [facts |-> found.blocks, sources |-> sources, images |-> pictures]
    BY DEF Merge
  <2>2. \A i \in pictures : Fits(i, RetrievalScope(question), question.units)
    BY ImagesFit DEF Pictures
  <2>3. \A d \in sources : \E c \in Chunks : c.doc = d /\ OfScope(c, RetrievalScope(question))
    BY DEF Sources, PipelineInv, PipelineTypes, Resting
  <2>4. QED
    BY <1>0, <1>3, <2>1, <2>2, <2>3 DEF PipelineInv, Resting, AllRest
<1>7. Honest'
  <2>1. \A l \in Legs : legs[l] # "waiting" /\ (legs[l] = "failed" => l \in flags')
    BY <1>1 DEF Merge, PipelineInv, PipelineTypes, Honest
  <2>2. QED
    BY <1>0, <1>2, <1>3, <2>1 DEF Honest
<1>8. HighIsEarned'
  BY <1>0 DEF PipelineInv, Silent, Ended, HighIsEarned
<1>9. QED
  BY <1>4, <1>5, <1>6, <1>7, <1>8 DEF PipelineInv

\* An answer is generated, perhaps over the board of estimates.
LEMMA GenerateKeepsRun ==
  ASSUME PipelineInv, Generate
  PROVE  PipelineInv'
<1>0. stage = "generate" /\ stage' = "verify" /\ merged' \in Hydrated
      /\ UNCHANGED <<question, legs, flags, route, found, shown, verdict, token, audits>>
  BY DEF Generate
<1>1. /\ AllRest(merged'.facts, question)
      /\ DOMAIN merged' = DOMAIN merged /\ merged'.strong = merged.strong /\ merged'.flags = merged.flags
      /\ merged'.approx \/ merged' = merged
  <2>1. CASE merged' = merged
    BY <2>1 DEF PipelineInv, Resting
  <2>2. ASSUME RetrievalScope(question) # NoProject,
               merged' = [merged EXCEPT !.facts = BoardOf(RetrievalScope(question)),
                                        !.rows = Cardinality(BoardOf(RetrievalScope(question))),
                                        !.approx = TRUE]
        PROVE  /\ AllRest(merged'.facts, question)
               /\ DOMAIN merged' = DOMAIN merged /\ merged'.strong = merged.strong
               /\ merged'.flags = merged.flags /\ merged'.approx
    <3>1. /\ merged'.facts = BoardOf(RetrievalScope(question)) /\ merged'.approx = TRUE
          /\ DOMAIN merged' = DOMAIN merged /\ merged'.strong = merged.strong /\ merged'.flags = merged.flags
      BY <2>2 DEF PipelineInv, PipelineTypes
    <3>2. AllRest(BoardOf(RetrievalScope(question)), question)
      BY <2>2, BoardRests DEF AllRest
    <3>3. QED
      BY <3>1, <3>2
  <2>3. QED
    BY <1>0, <2>1, <2>2 DEF Hydrated
<1>2. PipelineTypes'
  BY <1>0, <1>1 DEF PipelineInv, PipelineTypes, Stages
<1>3. Silent' /\ BudgetIsTheirs'
  BY <1>0 DEF PipelineInv, Silent, BudgetIsTheirs, Ended
<1>4. Resting'
  BY <1>0, <1>1 DEF PipelineInv, Resting, AllRest
<1>5. Honest'
  BY <1>0, <1>1 DEF PipelineInv, Honest
<1>6. HighIsEarned'
  BY <1>0 DEF PipelineInv, Silent, Ended, HighIsEarned
<1>7. QED
  BY <1>2, <1>3, <1>4, <1>5, <1>6 DEF PipelineInv

\* High confidence is given to enough evidence of a whole run only.
LEMMA HighMeansEnough ==
  ASSUME PipelineInv, stage = "verify", NEW claims, NEW places, Confidence(claims, merged, places) = "HIGH"
  PROVE  /\ \A l \in Legs : legs[l] = "done"
         /\ \A b \in merged.facts : ~b.approx
         /\ found.blocks # {} \/ Cardinality(found.chunks) >= 2
<1>1. (merged.rows >= 1 \/ merged.strong >= 2) /\ merged.flags = {} /\ ~merged.approx
  BY DEF Confidence
<1>2. /\ \A l \in Legs : legs[l] # "waiting" /\ legs[l] # "failed"
      /\ merged.facts = found.blocks /\ merged.rows = Cardinality(found.blocks)
      /\ \A b \in found.blocks : ~b.approx
      /\ merged.strong \in 0..Cardinality(found.chunks)
  BY <1>1 DEF PipelineInv, Honest
<1>3. found.blocks # {} \/ ~(merged.rows >= 1)
  BY <1>2, FS_EmptySet
<1>4. Cardinality(found.chunks) \in Nat
  BY ChunksAreFinite, FS_Subset, FS_CardinalityType DEF PipelineInv, PipelineTypes
<1>5. merged.strong >= 2 => Cardinality(found.chunks) >= 2
  BY <1>2, <1>4
<1>6. \A l \in Legs : legs[l] = "done"
  BY <1>2 DEF PipelineInv, PipelineTypes
<1>7. QED
  BY <1>1, <1>2, <1>3, <1>5, <1>6

\* The output guard sends the answer or the fallback.
LEMMA OutputGuardKeepsRun ==
  ASSUME PipelineInv, NEW ran \in BOOLEAN, OutputGuard(ran)
  PROVE  PipelineInv'
<1>0. /\ stage = "verify" /\ stage' = "answered" /\ audits' \in {audits, audits + 1}
      /\ verdict' = IF ran THEN Confidence(answer, merged, found.places) ELSE "LOW"
      /\ token' = IF verdict' # "LOW" THEN [kind |-> "answer", claims |-> answer] ELSE Fallback
      /\ UNCHANGED <<question, legs, flags, route, found, merged, shown, answer>>
  BY DEF OutputGuard, Audited
<1>1. Confidence(answer, merged, found.places) \in {"LOW", "MEDIUM", "HIGH"}
  BY DEF Confidence
<1>2. PipelineTypes'
  BY <1>0, <1>1 DEF PipelineInv, PipelineTypes, Stages, Ended
<1>3. token' # Nothing
  BY <1>0 DEF Nothing, Fallback
<1>4. Silent' /\ BudgetIsTheirs'
  BY <1>0, <1>3 DEF PipelineInv, Silent, BudgetIsTheirs, Ended
<1>5. \A c \in token'.claims : Rests(c, question)
  <2>1. CASE verdict' = "LOW"
    BY <1>0, <2>1 DEF Fallback
  <2>2. CASE verdict' # "LOW"
    <3>1. answer \subseteq merged.facts
      BY <1>0, <2>2 DEF Confidence, Grounded
    <3>2. token'.claims = answer
      BY <1>0, <2>2
    <3>3. QED
      BY <3>1, <3>2 DEF PipelineInv, Resting, AllRest
  <2>3. QED
    BY <2>1, <2>2
<1>6. Resting'
  BY <1>0, <1>5 DEF PipelineInv, Resting, AllRest
<1>7. Honest'
  BY <1>0 DEF PipelineInv, Honest
<1>8. HighIsEarned'
  BY <1>0, HighMeansEnough DEF HighIsEarned, PipelineInv, PipelineTypes
<1>9. QED
  BY <1>2, <1>4, <1>6, <1>7, <1>8 DEF PipelineInv

\* The run ends without an answer.
LEMMA EndingKeepsRun ==
  ASSUME PipelineInv, GenerationFails \/ Leave
  PROVE  PipelineInv'
<1>0. /\ stage \notin Ended /\ stage' \in {"failed", "left"}
      /\ UNCHANGED <<question, legs, flags, route, found, merged, shown, answer, verdict, token, audits>>
  BY DEF GenerationFails, Leave, Ended
<1>1. PipelineTypes' /\ BudgetIsTheirs' /\ Resting' /\ Honest' /\ HighIsEarned'
  BY <1>0 DEF PipelineInv, PipelineTypes, BudgetIsTheirs, Resting, AllRest, Honest, HighIsEarned, Stages, Ended
<1>2. Silent'
  BY <1>0 DEF PipelineInv, Silent, Ended
<1>3. QED
  BY <1>1, <1>2 DEF PipelineInv

LEMMA PipelineInvIsInductive == PipelineInv /\ [PipelineNext]_pipelineVars => PipelineInv'
<1> SUFFICES ASSUME PipelineInv, [PipelineNext]_pipelineVars
             PROVE  PipelineInv'
  OBVIOUS
<1>1. CASE Work
  BY <1>1, GuardKeepsRun, RouteKeepsRun, LegsKeepRun, MergeKeepsRun, GenerateKeepsRun,
     OutputGuardKeepsRun DEF Work
<1>2. CASE GenerationFails \/ Leave
  BY <1>2, EndingKeepsRun
<1>3. CASE UNCHANGED pipelineVars
  BY <1>3 DEF pipelineVars, PipelineInv, PipelineTypes, Silent, BudgetIsTheirs, Resting, AllRest, Honest, HighIsEarned
<1>4. QED
  BY <1>1, <1>2, <1>3 DEF PipelineNext

LEMMA PipelineInvHolds == PipelineSpec => []PipelineInv
BY PipelineInvHoldsAtFirst, PipelineInvIsInductive, PTL DEF PipelineSpec

-------------------------------------------------------------------------------
\* Whatever models, retrieval and database return and however the legs end, what
\* an answer claims and shows rests on the project of its question, for any rows,
\* questions, proposals and statements and all limits.
THEOREM AnswersRestOnTheirProject == PipelineSpec => []AnswerRestsOnItsProject
<1>1. PipelineInv => AnswerRestsOnItsProject
  <2> SUFFICES ASSUME PipelineInv
               PROVE  AnswerRestsOnItsProject
    OBVIOUS
  <2>1. PipelineTypeOK
    BY DEF PipelineInv, PipelineTypes, Silent, Stages, Flags, Legs, PipelineTypeOK
  <2>2. ASSUME NEW c \in token.claims
        PROVE  /\ c # Invented /\ ~Unresolved(question)
               /\ c.leg # "nl2sql" => OfScope(c.row, RetrievalScope(question))
               /\ c.leg = "facts" => /\ InForce(c.row, question.day) /\ InForce(c.row.doc, question.day)
                                     /\ c.row.doc.status = "published"
               /\ c.leg = "cash" => FloorPrice(c.row.min, c.row.floor) <= question.budget
               /\ c.leg = "loan" => c.row.min > question.budget /\ c.row.deposit # {}
    <3>1. Rests(c, question)
      BY DEF PipelineInv, Resting
    <3>2. QED
      BY <3>1, InventedIsNoEvidence DEF Rests
  <2>3. QED
    BY <2>1, <2>2 DEF PipelineInv, Resting, Fits, AnswerRestsOnItsProject
<1>2. QED
  BY <1>1, PipelineInvHolds, PTL

\* High confidence is given only to a run none of whose legs failed, to evidence
\* that is not approximate, and to enough of it, in whatever order the legs end.
THEOREM HighStaysEarned == PipelineSpec => []HighIsEarned
<1>1. PipelineInv => HighIsEarned
  BY DEF PipelineInv
<1>2. QED
  BY <1>1, PipelineInvHolds, PTL
===============================================================================
