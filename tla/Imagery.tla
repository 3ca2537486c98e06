-------------------------------- MODULE Imagery --------------------------------
(***************************************************************************)
(* The images that go with an answer: the pages of the price board when    *)
(* all of it is asked for, the images of the units a question names, or    *)
(* those whose captions are near to it.  Operators only.  The distance of  *)
(* a caption to the question is a number of its row.                       *)
(***************************************************************************)
EXTENDS Integers, FiniteSets

CONSTANTS
    Images,       \* rows of images with their embedding
    TopK,         \* images of an answer
    Pool,         \* neighbours that are looked at
    FloorScore,   \* project -> least score of an image
    SameWindow,   \* distance to the best image of its kind
    CrossWindow   \* distance to the best image of another kind

First(n, rows, Before(_, _)) == {i \in rows : Cardinality({j \in rows : Before(j, i)}) < n}

Nearer(i, j) == i.score > j.score \/ (i.score = j.score /\ i.id < j.id)

\* Published, and no legal paper or list of questions.
Public(i) == i.status = "published" /\ i.kind \notin {"phaply", "qna"}

\* The vector pass, over rows of the project that the active model embedded.
Neighbours(project) ==
    First(Pool, {i \in Images : Public(i) /\ i.project = project /\ i.space}, Nearer)

Relevant(project) == {i \in Neighbours(project) : i.score >= FloorScore[project]}

\* Rows whose address is of an origin configured for the project.
Served(rows) == {i \in rows : i.served}

\* Without a unit: what lies in the window of its kind below the best.
ByCaption(project) ==
    LET near == Relevant(project)
        best == CHOOSE i \in near : \A j \in near : ~Nearer(j, i)
        kept == {i \in near : best.score - i.score <= IF i.kind = best.kind THEN SameWindow ELSE CrossWindow} IN
    IF near = {} THEN {} ELSE First(TopK, Served(kept), Nearer)

\* A unit whose image is not among the neighbours is looked up by its key.
Rescued(project, unit) ==
    LET rows == {i \in Images : Public(i) /\ i.project = project /\ unit \in i.unit} IN
    IF rows = {} THEN {} ELSE {CHOOSE i \in rows : TRUE}

\* With units: theirs first, then those of their type, then the others.
ByUnit(project, units) ==
    LET near == Relevant(project)
        hit == {i \in near : i.unit \cap units # {}}
        exact == hit \cup UNION {Rescued(project, u) : u \in units \ UNION {i.unit : i \in hit}}
        alike == {i \in near \ exact : i.type \cap UNION {j.type : j \in exact} # {}}
        Rank(i) == IF i \in exact THEN 0 ELSE IF i \in alike THEN 1 ELSE 2
        Ahead(i, j) == Rank(i) < Rank(j) \/ (Rank(i) = Rank(j) /\ Nearer(i, j)) IN
    Served(First(TopK, near \cup exact, Ahead))

\* Every page of the price board.
BoardPages(project) ==
    Served({i \in Images : i.status = "published" /\ i.kind = "banggia" /\ i.project = project})

\* A run that has no project is shown none.
ImagesFor(project, units, board) ==
    IF project \notin DOMAIN FloorScore THEN {}
    ELSE IF board THEN BoardPages(project)
    ELSE IF units = {} THEN ByCaption(project) ELSE ByUnit(project, units)
===============================================================================
