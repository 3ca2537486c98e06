------------------------------ MODULE LeadMirror ------------------------------
(***************************************************************************)
(* The Firestore copy of the leads: every change of a row is pushed after  *)
(* its commit, the outcome is kept in mirror_status, and a sweep pushes    *)
(* again what is pending or failed.                                        *)
(*                                                                         *)
(* The content of a row is its version, the number of its changes.  A push *)
(* carries the row it was given, not the row as it is when it arrives.     *)
(***************************************************************************)
EXTENDS Naturals, FiniteSets, Sequences

CONSTANTS
    Leads,      \* ids of leads
    Workers,    \* requests that may be pushing at the same time
    Sweeper,    \* the reconciliation loop
    MaxVersion, \* bound on the changes of each lead
    Batch,      \* lead_mirror_stale_batch_limit
    Rejected,   \* leads whose document Firestore never accepts
    Nobody      \* no lead

Paths == {"board", "crm"}
Pushers == Workers \cup {Sweeper}

ASSUME SweeperIsNoWorker == Sweeper \notin Workers
ASSUME BoundsArePositive == MaxVersion \in [Leads -> Nat \ {0}] /\ Batch \in Nat \ {0}
ASSUME RejectedAreLeads == Rejected \subseteq Leads
ASSUME NobodyIsNoLead == Nobody \notin Leads

VARIABLES
    row,    \* lead -> version committed in PostgreSQL, 0 before it is inserted
    flag,   \* lead -> mirror_status
    doc,    \* lead -> version in Firestore, 0 for no document
    made,   \* the leads in the order of created_at
    sync,   \* pusher -> the push it is making
    sweep,  \* the rows the sweep read and has not pushed yet
    astray  \* history: the leads whose last change no push is sure to carry

vars == <<row, flag, doc, made, sync, sweep, astray>>

Quiet == [lead |-> Nobody, version |-> 0, path |-> "crm", stage |-> "idle"]

\* Rows, flags, documents and pushes keep their types.
\* "push": before the PATCH   "mark": it was accepted   "flag": it was not
TypeOK ==
    /\ row \in [Leads -> Nat]
    /\ \A l \in Leads : row[l] <= MaxVersion[l] /\ doc[l] <= row[l]
    /\ flag \in [Leads -> {"pending", "done", "failed"}]
    /\ doc \in [Leads -> Nat]
    /\ made \in Seq(Leads)
    /\ sync \in [Pushers -> [lead : Leads \cup {Nobody}, version : Nat, path : Paths,
                             stage : {"idle", "push", "mark", "flag"}]]
    /\ sweep \subseteq [lead : Leads, version : Nat]
    /\ astray \subseteq Leads

Init ==
    /\ row = [l \in Leads |-> 0]
    /\ flag = [l \in Leads |-> "pending"]
    /\ doc = [l \in Leads |-> 0]
    /\ made = <<>>
    /\ sync = [p \in Pushers |-> Quiet]
    /\ sweep = {}
    /\ astray = {}

Pushed(l) ==
    \/ \E p \in Pushers : sync[p].stage # "idle" /\ sync[p].lead = l
    \/ \E r \in sweep : r.lead = l

Push(p, l, v, path) ==
    sync' = [sync EXCEPT ![p] = [lead |-> l, version |-> v, path |-> path, stage |-> "push"]]

-------------------------------------------------------------------------------
(***************************************************************************)
(* Changes of a row, each with the push that follows it.                   *)
(***************************************************************************)

\* A lead is inserted, and routed, before its first push; its status starts
\* as the column's default.
Submit(w, l) ==
    /\ row[l] = 0
    /\ sync[w].stage = "idle"
    /\ row' = [row EXCEPT ![l] = 1]
    /\ made' = Append(made, l)
    /\ Push(w, l, 1, "crm")
    /\ UNCHANGED <<flag, doc, sweep, astray>>

\* Faulty: the CRM update leaves the status alone.
MarkedNever(path, old) == old

\* update_lead_crm_state and the consent withdrawal mark the row with the
\* change; update_lead and assign_lead do not.
Marked(path, old) == IF path = "crm" THEN "pending" ELSE old

\* A lead that changes while an older row of it is pushed may go astray: the
\* older push may arrive last, and be marked last.
Change(w, l, path) ==
    /\ row[l] \in 1..(MaxVersion[l] - 1)
    /\ sync[w].stage = "idle"
    /\ row' = [row EXCEPT ![l] = @ + 1]
    /\ flag' = [flag EXCEPT ![l] = Marked(path, @)]
    /\ Push(w, l, row[l] + 1, path)
    /\ astray' = IF Pushed(l) THEN astray \cup {l} ELSE astray \ {l}
    /\ UNCHANGED <<doc, made, sweep>>

-------------------------------------------------------------------------------
(***************************************************************************)
(* sync_lead_mirror_after_commit.                                          *)
(***************************************************************************)

AtStage(p, stage) == sync[p].stage = stage

Goes(p, stage) == sync' = [sync EXCEPT ![p].stage = stage]

\* One of the attempts is accepted.
Accept(p, l) ==
    /\ AtStage(p, "push") /\ sync[p].lead = l /\ l \notin Rejected
    /\ doc' = [doc EXCEPT ![l] = sync[p].version]
    /\ Goes(p, "mark")
    /\ UNCHANGED <<row, flag, made, sweep, astray>>

\* The retries are used up; one of them may have been applied all the same.
Fail(p) ==
    /\ AtStage(p, "push")
    /\ \/ UNCHANGED doc
       \/ /\ sync[p].lead \notin Rejected
          /\ doc' = [doc EXCEPT ![sync[p].lead] = sync[p].version]
    /\ Goes(p, "flag")
    /\ UNCHANGED <<row, flag, made, sweep, astray>>

Mark(p) ==
    /\ AtStage(p, "mark")
    /\ flag' = [flag EXCEPT ![sync[p].lead] = "done"]
    /\ sync' = [sync EXCEPT ![p] = Quiet]
    /\ UNCHANGED <<row, doc, made, sweep, astray>>

\* Marking raised: the push counts as failed.
MarkFails(p) ==
    /\ AtStage(p, "mark")
    /\ Goes(p, "flag")
    /\ UNCHANGED <<row, flag, doc, made, sweep, astray>>

FailureFlag == "failed"

Flag(p) ==
    /\ AtStage(p, "flag")
    /\ flag' = [flag EXCEPT ![sync[p].lead] = FailureFlag]
    /\ sync' = [sync EXCEPT ![p] = Quiet]
    /\ UNCHANGED <<row, doc, made, sweep, astray>>

\* The worker dies, or the status cannot be written.  A row changed by the
\* broker board is not marked, so nothing pushes it again.
Drop(p) ==
    /\ ~AtStage(p, "idle")
    /\ sync' = [sync EXCEPT ![p] = Quiet]
    /\ astray' = IF sync[p].path = "board" THEN astray \cup {sync[p].lead} ELSE astray
    /\ UNCHANGED <<row, flag, doc, made, sweep>>

-------------------------------------------------------------------------------
(***************************************************************************)
(* sweep_stale_lead_mirrors_once.                                          *)
(***************************************************************************)

\* Faulty: only failed rows are looked for.
StaleFailed(l) == flag[l] = "failed"

Stale(l) == flag[l] \in {"pending", "failed"}

\* The batch: rows as they are now, of the oldest leads.  That a lead is older
\* than lead_mirror_stale_after_minutes is not modelled.
BatchOf(ls) ==
    LET stale == {i \in 1..Len(ls) : Stale(ls[i])}
        oldest == {i \in stale : Cardinality({j \in stale : j < i}) < Batch} IN
    {[lead |-> ls[i], version |-> row[ls[i]]] : i \in oldest}

Sweep ==
    /\ sweep = {} /\ AtStage(Sweeper, "idle")
    /\ BatchOf(made) # {}
    /\ sweep' = BatchOf(made)
    /\ UNCHANGED <<row, flag, doc, made, sync, astray>>

\* The rows are pushed one after the other, the oldest lead first.
SweepNext ==
    /\ AtStage(Sweeper, "idle")
    /\ \E i \in 1..Len(made) : \E r \in sweep :
          /\ r.lead = made[i]
          /\ \A j \in 1..(i - 1) : \A other \in sweep : other.lead # made[j]
          /\ Push(Sweeper, r.lead, r.version, "crm")
          /\ sweep' = sweep \ {r}
    /\ UNCHANGED <<row, flag, doc, made, astray>>

-------------------------------------------------------------------------------
Step(p) ==
    \/ \E l \in Leads : Accept(p, l)
    \/ Fail(p)
    \/ Mark(p)
    \/ MarkFails(p)
    \/ Flag(p)
    \/ Drop(p)

Next ==
    \/ \E w \in Workers, l \in Leads : Submit(w, l) \/ \E path \in Paths : Change(w, l, path)
    \/ \E p \in Pushers : Step(p)
    \/ Sweep
    \/ SweepNext

Spec == Init /\ [][Next]_vars

AcceptSome(l) == \E p \in Pushers : Accept(p, l)
MarkSome(l) == \E p \in Pushers : sync[p].lead = l /\ Mark(p)

\* A push that goes on is answered, the loop runs for ever, and a document
\* that is pushed again and again gets through, and is marked, at last.
FairSpec ==
    /\ Spec
    /\ \A p \in Pushers : WF_vars(Step(p))
    /\ WF_vars(Sweep) /\ WF_vars(SweepNext)
    /\ \A l \in Leads \ Rejected : SF_vars(AcceptSome(l)) /\ SF_vars(MarkSome(l))

-------------------------------------------------------------------------------
(***************************************************************************)
(* Properties.                                                             *)
(***************************************************************************)

\* A document that differs from its row is about to be pushed with that row,
\* or its row says so to the sweep, unless it went astray.  Rows, flags and
\* pushes keep their types.
NothingIsForgotten ==
  /\ TypeOK
  /\ \A l \in Leads :
        doc[l] # row[l] =>
            \/ flag[l] \in {"pending", "failed"}
            \/ \E p \in Pushers :
                  /\ sync[p].lead = l
                  /\ sync[p].stage = "flag"
                     \/ (sync[p].stage = "push" /\ sync[p].version = row[l])
            \/ l \in astray

\* When the changes end, every document that Firestore accepts and that did not
\* go astray converges to its row.
Converges == \A l \in Leads \ Rejected : <>[](doc[l] = row[l] \/ l \in astray)
===============================================================================
