--------------------------- MODULE LeadMirror_proofs ---------------------------
(***************************************************************************)
(* Theorems about the mirror, for any leads, requests, changes and batch:  *)
(* a document that differs from its row is not forgotten.                  *)
(***************************************************************************)
EXTENDS LeadMirror, SequenceTheorems, TLAPS

Busy(p, l) == sync[p].stage # "idle" /\ sync[p].lead = l
Owed(l) == doc[l] = row[l] \/ flag[l] \in {"pending", "failed"}

\* Only a lead that was inserted is pushed, with a row it had.
Known ==
    /\ \A i \in 1..Len(made) : row[made[i]] > 0
    /\ \A p \in Pushers : sync[p].stage # "idle" =>
          sync[p].lead \in Leads /\ row[sync[p].lead] > 0 /\ sync[p].version <= row[sync[p].lead]
    /\ \A r \in sweep : row[r.lead] > 0 /\ r.version <= row[r.lead]
    /\ \A l \in Leads : row[l] = 0 => flag[l] = "pending"

\* A lead that did not go astray is pushed with its row, and only with it.
CarriesTheRow(l) ==
    /\ \A p \in Pushers : Busy(p, l) => sync[p].version = row[l]
    /\ \A r \in sweep : r.lead = l => r.version = row[l]

\* What was accepted is the row.
AcceptedIsTheRow(l) ==
    \A p \in Pushers : Busy(p, l) /\ sync[p].stage = "mark" => doc[l] = row[l]

\* A push that may be dropped without a trace is not needed.
NotNeeded(l) ==
    /\ \A p \in Pushers : Busy(p, l) /\ sync[p].path = "crm" => Owed(l)
    /\ \A r \in sweep : r.lead = l => Owed(l)

\* Somebody will push the row.
Remembered(l) ==
    \/ Owed(l)
    \/ \E p \in Pushers : Busy(p, l) /\ sync[p].stage \in {"flag", "push"}

MirrorInv ==
    /\ TypeOK
    /\ Known
    /\ \A l \in Leads \ astray :
          CarriesTheRow(l) /\ AcceptedIsTheRow(l) /\ NotNeeded(l) /\ Remembered(l)

-------------------------------------------------------------------------------
LEMMA MirrorInvHoldsAtFirst == Init => MirrorInv
<1> SUFFICES ASSUME Init
             PROVE  MirrorInv
  OBVIOUS
<1>1. TypeOK
  BY EmptySeq, BoundsArePositive DEF Init, TypeOK, Quiet, Paths
<1>2. QED
  BY <1>1 DEF Init, MirrorInv, Known, CarriesTheRow, AcceptedIsTheRow, NotNeeded, Remembered,
     Owed, Busy, Quiet

\* A new lead is pushed with the row it has.
LEMMA SubmitKeeps ==
  ASSUME MirrorInv, NEW w \in Workers, NEW l \in Leads, Submit(w, l)
  PROVE  MirrorInv'
<1> DEFINE new == [lead |-> l, version |-> 1, path |-> "crm", stage |-> "push"]
<1>1. /\ w \in Pushers /\ row[l] = 0 /\ row' = [row EXCEPT ![l] = 1]
      /\ made' = Append(made, l) /\ sync' = [sync EXCEPT ![w] = new]
      /\ sync[w].stage = "idle" /\ UNCHANGED <<flag, doc, sweep, astray>>
  BY DEF Submit, Push, Pushers
<1>2. TypeOK'
  <2>1. made' \in Seq(Leads)
    BY <1>1 DEF MirrorInv, TypeOK
  <2>2. row' \in [Leads -> Nat] /\ \A k \in Leads : row'[k] <= MaxVersion[k] /\ doc'[k] <= row'[k]
    <3>1. \A k \in Leads : row'[k] = (IF k = l THEN 1 ELSE row[k]) /\ doc'[k] = doc[k]
      BY <1>1 DEF MirrorInv, TypeOK
    <3>2. \A k \in Leads : row[k] \in Nat /\ doc[k] \in Nat /\ MaxVersion[k] \in Nat \ {0}
                            /\ row[k] <= MaxVersion[k] /\ doc[k] <= row[k]
      BY BoundsArePositive DEF MirrorInv, TypeOK
    <3>3. row' \in [Leads -> Nat]
      BY <1>1 DEF MirrorInv, TypeOK
    <3>4. QED
      BY <1>1, <3>1, <3>2, <3>3
  <2>3. sync' \in [Pushers -> [lead : Leads \cup {Nobody}, version : Nat, path : Paths,
                               stage : {"idle", "push", "mark", "flag"}]]
    BY <1>1 DEF MirrorInv, TypeOK, Paths
  <2>4. QED
    BY <1>1, <2>1, <2>2, <2>3 DEF MirrorInv, TypeOK
<1>3. \A p \in Pushers : ~Busy(p, l)
  BY <1>1 DEF MirrorInv, Known, Busy
<1>4. \A r \in sweep : r.lead # l
  BY <1>1 DEF MirrorInv, Known
<1>5. Known'
  <2>1. \A i \in 1..Len(made') : made'[i] = l \/ \E j \in 1..Len(made) : made'[i] = made[j]
    <3>1. /\ Len(made') = Len(made) + 1 /\ Len(made) \in Nat /\ made'[Len(made) + 1] = l
          /\ \A i \in 1..Len(made) : made'[i] = made[i]
      BY <1>1 DEF MirrorInv, TypeOK
    <3>2. \A i \in 1..Len(made') : i \in 1..Len(made) \/ i = Len(made) + 1
      BY <3>1
    <3>3. QED
      BY <3>1, <3>2
  <2>2. \A k \in Leads : row'[k] = IF k = l THEN 1 ELSE row[k]
    BY <1>1 DEF MirrorInv, TypeOK
  <2>3. \A i \in 1..Len(made) : made[i] \in Leads
    BY DEF MirrorInv, TypeOK
  <2>4. \A i \in 1..Len(made') : row'[made'[i]] > 0
    BY <2>1, <2>2, <2>3 DEF MirrorInv, Known
  <2>5. \A p \in Pushers : sync'[p] = IF p = w THEN new ELSE sync[p]
    BY <1>1 DEF MirrorInv, TypeOK
  <2>6. QED
    BY <1>1, <2>2, <2>4, <2>5 DEF MirrorInv, TypeOK, Known
<1>6. ASSUME NEW k \in Leads \ astray'
      PROVE  (CarriesTheRow(k) /\ AcceptedIsTheRow(k) /\ NotNeeded(k) /\ Remembered(k))'
  <2>1. \A p \in Pushers : sync'[p] = IF p = w THEN new ELSE sync[p]
    BY <1>1 DEF MirrorInv, TypeOK
  <2>2. row'[k] = IF k = l THEN 1 ELSE row[k]
    BY <1>1 DEF MirrorInv, TypeOK
  <2>3. flag'[l] = "pending" /\ flag' = flag /\ doc' = doc /\ sweep' = sweep /\ k \in Leads \ astray
    BY <1>1 DEF MirrorInv, Known
  <2>4. QED
    BY <1>1, <1>3, <1>4, <2>1, <2>2, <2>3 DEF MirrorInv, CarriesTheRow, AcceptedIsTheRow, NotNeeded,
       Remembered, Owed, Busy
<1>7. QED
  BY <1>2, <1>5, <1>6 DEF MirrorInv

\* A changed lead is pushed with the row it has now, or went astray.
LEMMA ChangeKeeps ==
  ASSUME MirrorInv, NEW w \in Workers, NEW l \in Leads, NEW path \in Paths, Change(w, l, path)
  PROVE  MirrorInv'
<1> DEFINE new == [lead |-> l, version |-> row[l] + 1, path |-> path, stage |-> "push"]
<1>1. /\ w \in Pushers /\ row[l] \in 1..(MaxVersion[l] - 1) /\ row' = [row EXCEPT ![l] = @ + 1]
      /\ flag' = [flag EXCEPT ![l] = Marked(path, @)] /\ sync' = [sync EXCEPT ![w] = new]
      /\ sync[w].stage = "idle" /\ UNCHANGED <<doc, made, sweep>>
      /\ astray' = IF Pushed(l) THEN astray \cup {l} ELSE astray \ {l}
  BY DEF Change, Push, Pushers
<1>2. /\ \A k \in Leads : row'[k] = IF k = l THEN row[l] + 1 ELSE row[k]
      /\ \A k \in Leads \ {l} : flag'[k] = flag[k]
      /\ flag'[l] = (IF path = "crm" THEN "pending" ELSE flag[l])
      /\ \A p \in Pushers : sync'[p] = IF p = w THEN new ELSE sync[p]
  BY <1>1 DEF MirrorInv, TypeOK, Marked
<1>3. TypeOK'
  <2>1. \A k \in Leads : row[k] \in Nat /\ doc[k] \in Nat /\ MaxVersion[k] \in Nat \ {0}
                         /\ row[k] <= MaxVersion[k] /\ doc[k] <= row[k]
    BY BoundsArePositive DEF MirrorInv, TypeOK
  <2>2. row' \in [Leads -> Nat] /\ \A k \in Leads : row'[k] <= MaxVersion[k] /\ doc'[k] <= row'[k]
    BY <1>1, <1>2, <2>1 DEF MirrorInv, TypeOK
  <2>3. sync' \in [Pushers -> [lead : Leads \cup {Nobody}, version : Nat, path : Paths,
                               stage : {"idle", "push", "mark", "flag"}]]
    BY <1>1, <2>1 DEF MirrorInv, TypeOK
  <2>4. flag' \in [Leads -> {"pending", "done", "failed"}]
    BY <1>1 DEF MirrorInv, TypeOK, Marked
  <2>5. astray' \subseteq Leads
    BY <1>1 DEF MirrorInv, TypeOK
  <2>6. QED
    BY <1>1, <2>2, <2>3, <2>4, <2>5 DEF MirrorInv, TypeOK
<1>4. Known'
  <2>1. \A i \in 1..Len(made) : made[i] \in Leads
    BY DEF MirrorInv, TypeOK
  <2>2. \A k \in Leads : row[k] \in Nat
    BY DEF MirrorInv, TypeOK
  <2>3. \A r \in sweep : r.lead \in Leads /\ r.version \in Nat
    BY DEF MirrorInv, TypeOK
  <2>4. \A p \in Pushers : sync[p].version \in Nat
    BY DEF MirrorInv, TypeOK
  <2>5. \A i \in 1..Len(made') : row'[made'[i]] > 0
    BY <1>1, <1>2, <2>1, <2>2 DEF MirrorInv, Known
  <2>6. \A r \in sweep' : row'[r.lead] > 0 /\ r.version <= row'[r.lead]
    BY <1>1, <1>2, <2>2, <2>3 DEF MirrorInv, Known
  <2>7. \A p \in Pushers : sync'[p].stage # "idle" =>
          sync'[p].lead \in Leads /\ row'[sync'[p].lead] > 0 /\ sync'[p].version <= row'[sync'[p].lead]
    BY <1>1, <1>2, <2>2, <2>4 DEF MirrorInv, Known
  <2>8. \A k \in Leads : row'[k] = 0 => flag'[k] = "pending"
    BY <1>1, <1>2, <2>2 DEF MirrorInv, Known
  <2>9. QED
    BY <2>5, <2>6, <2>7, <2>8 DEF Known
<1>5. ASSUME NEW k \in Leads \ astray'
      PROVE  (CarriesTheRow(k) /\ AcceptedIsTheRow(k) /\ NotNeeded(k) /\ Remembered(k))'
  <2>1. CASE k = l
    <3>1. (\A p \in Pushers : ~Busy(p, l)) /\ \A r \in sweep : r.lead # l
      BY <1>1, <2>1 DEF Pushed, Busy
    <3>2. QED
      BY <1>1, <1>2, <2>1, <3>1 DEF CarriesTheRow, AcceptedIsTheRow, NotNeeded, Remembered, Owed, Busy
  <2>2. CASE k # l
    <3>1. k \in Leads \ astray
      BY <1>1, <2>2
    <3>2. QED
      BY <1>1, <1>2, <2>2, <3>1 DEF MirrorInv, CarriesTheRow, AcceptedIsTheRow, NotNeeded,
         Remembered, Owed, Busy
  <2>3. QED
    BY <2>1, <2>2
<1>6. QED
  BY <1>3, <1>4, <1>5 DEF MirrorInv

\* A push that goes on is still a push.
LEMMA RestagedPushes ==
  ASSUME TypeOK, NEW p \in Pushers, NEW s \in {"idle", "push", "mark", "flag"},
         sync' = [sync EXCEPT ![p].stage = s]
  PROVE  sync' \in [Pushers -> [lead : Leads \cup {Nobody}, version : Nat, path : Paths,
                                stage : {"idle", "push", "mark", "flag"}]]
<1>1. [sync[p] EXCEPT !.stage = s] \in [lead : Leads \cup {Nobody}, version : Nat, path : Paths,
                                        stage : {"idle", "push", "mark", "flag"}]
  BY DEF TypeOK
<1>2. QED
  BY <1>1 DEF TypeOK

\* An attempt is accepted: the document is what the push carried, whether or not
\* the retries end well.
LEMMA AttemptKeeps ==
  ASSUME MirrorInv, NEW p \in Pushers, (\E l \in Leads : Accept(p, l)) \/ Fail(p)
  PROVE  MirrorInv'
<1> DEFINE l == sync[p].lead
<1>1. /\ sync[p].stage = "push" /\ UNCHANGED <<row, flag, made, sweep, astray>>
      /\ \/ doc' = [doc EXCEPT ![l] = sync[p].version] /\ sync' = [sync EXCEPT ![p].stage = "mark"]
         \/ doc' \in {doc, [doc EXCEPT ![l] = sync[p].version]} /\ sync' = [sync EXCEPT ![p].stage = "flag"]
  BY DEF Accept, Fail, AtStage, Goes
<1>2. l \in Leads /\ sync[p].version <= row[l] /\ sync[p].version \in Nat /\ row[l] > 0
  BY <1>1 DEF MirrorInv, Known, TypeOK
<1>3. TypeOK'
  <2>1. \A k \in Leads : row[k] \in Nat /\ doc[k] \in Nat /\ doc[k] <= row[k]
    BY DEF MirrorInv, TypeOK
  <2>2. \A k \in Leads : doc'[k] \in {doc[k], sync[p].version} /\ (doc'[k] # doc[k] => k = l)
    BY <1>1, <1>2 DEF MirrorInv, TypeOK
  <2>3. doc' \in [Leads -> Nat] /\ \A k \in Leads : doc'[k] <= row[k]
    BY <1>1, <1>2, <2>1, <2>2 DEF MirrorInv, TypeOK
  <2>4. sync' \in [Pushers -> [lead : Leads \cup {Nobody}, version : Nat, path : Paths,
                               stage : {"idle", "push", "mark", "flag"}]]
    BY <1>1, RestagedPushes DEF MirrorInv, TypeOK
  <2>5. QED
    BY <1>1, <2>3, <2>4 DEF MirrorInv, TypeOK
<1>4. /\ \A q \in Pushers : /\ sync'[q].lead = sync[q].lead /\ sync'[q].version = sync[q].version
                            /\ sync'[q].path = sync[q].path
                            /\ q # p => sync'[q].stage = sync[q].stage
      /\ sync'[p].stage \in {"mark", "flag"}
  BY <1>1 DEF MirrorInv, TypeOK
<1>5. Known'
  BY <1>1, <1>2, <1>4 DEF MirrorInv, Known
<1>6. ASSUME NEW k \in Leads \ astray'
      PROVE  (CarriesTheRow(k) /\ AcceptedIsTheRow(k) /\ NotNeeded(k) /\ Remembered(k))'
  <2>1. /\ k \in Leads \ astray /\ CarriesTheRow(k) /\ AcceptedIsTheRow(k)
        /\ NotNeeded(k) /\ Remembered(k)
    BY <1>1 DEF MirrorInv
  <2>2. /\ \A q \in Pushers : Busy(q, k)' <=> Busy(q, k)
        /\ Busy(p, k) <=> k = l
    BY <1>1, <1>4 DEF Busy
  <2>3. /\ doc'[k] = doc[k] \/ (k = l /\ doc'[k] = row[k])
        /\ k = l => (sync'[p].stage = "mark" => doc'[k] = row[k])
    BY <1>1, <1>2, <1>4, <2>1, <2>2 DEF MirrorInv, TypeOK, CarriesTheRow
  <2>4. doc[k] = row[k] => doc'[k] = row'[k]
    BY <1>1, <2>3
  <2>5. Owed(k) => Owed(k)'
    BY <1>1, <2>4 DEF Owed
  <2>6. CarriesTheRow(k)'
    BY <1>1, <1>4, <2>1, <2>2 DEF CarriesTheRow
  <2>7. AcceptedIsTheRow(k)'
    BY <1>1, <1>4, <2>1, <2>2, <2>3, <2>4 DEF AcceptedIsTheRow
  <2>8. NotNeeded(k)'
    BY <1>1, <1>4, <2>1, <2>2, <2>5 DEF NotNeeded
  <2>9. Remembered(k)'
    BY <1>1, <1>4, <2>1, <2>2, <2>3, <2>5 DEF Remembered, Owed
  <2>10. QED
    BY <2>6, <2>7, <2>8, <2>9
<1>7. QED
  BY <1>3, <1>5, <1>6 DEF MirrorInv

\* The outcome is written: what is marked is the row, what is flagged is pushed again.
LEMMA OutcomeKeeps ==
  ASSUME MirrorInv, NEW p \in Pushers, Mark(p) \/ Flag(p)
  PROVE  MirrorInv'
<1> DEFINE l == sync[p].lead
<1>1. /\ UNCHANGED <<row, doc, made, sweep, astray>> /\ sync' = [sync EXCEPT ![p] = Quiet]
      /\ \/ sync[p].stage = "mark" /\ flag' = [flag EXCEPT ![l] = "done"]
         \/ sync[p].stage = "flag" /\ flag' = [flag EXCEPT ![l] = "failed"]
  BY DEF Mark, Flag, FailureFlag, AtStage
<1>2. l \in Leads /\ row[l] > 0 /\ row[l] \in Nat
  BY <1>1 DEF MirrorInv, Known, TypeOK
<1>3. /\ \A q \in Pushers : sync'[q] = IF q = p THEN Quiet ELSE sync[q]
      /\ \A k \in Leads \ {l} : flag'[k] = flag[k]
      /\ flag'[l] \in {"done", "failed"} /\ (flag'[l] = "done" => sync[p].stage = "mark")
  BY <1>1, <1>2 DEF MirrorInv, TypeOK
<1>4. TypeOK'
  BY <1>1, <1>2 DEF MirrorInv, TypeOK, Quiet, Paths
<1>5. Known'
  BY <1>1, <1>2, <1>3 DEF MirrorInv, Known, Quiet
<1>6. ASSUME NEW k \in Leads \ astray'
      PROVE  (CarriesTheRow(k) /\ AcceptedIsTheRow(k) /\ NotNeeded(k) /\ Remembered(k))'
  <2>1. /\ k \in Leads \ astray /\ CarriesTheRow(k) /\ AcceptedIsTheRow(k)
        /\ NotNeeded(k) /\ Remembered(k)
    BY <1>1 DEF MirrorInv
  <2>2. \A q \in Pushers : Busy(q, k)' <=> q # p /\ Busy(q, k)
    BY <1>3 DEF Busy, Quiet
  <2>3. k = l => Owed(k)'
    BY <1>1, <1>3, <2>1 DEF Owed, AcceptedIsTheRow, Busy
  <2>4. Owed(k) => Owed(k)'
    BY <1>1, <1>3, <2>3 DEF Owed
  <2>5. k # l => ~Busy(p, k)
    BY DEF Busy
  <2>6. QED
    BY <1>1, <1>3, <2>1, <2>2, <2>3, <2>4, <2>5 DEF CarriesTheRow, AcceptedIsTheRow, NotNeeded, Remembered
<1>7. QED
  BY <1>4, <1>5, <1>6 DEF MirrorInv

\* The document may differ after all: the push counts as failed.
LEMMA MarkFailsKeeps ==
  ASSUME MirrorInv, NEW p \in Pushers, MarkFails(p)
  PROVE  MirrorInv'
<1>1. /\ sync[p].stage = "mark" /\ UNCHANGED <<row, flag, doc, made, sweep, astray>>
      /\ sync' = [sync EXCEPT ![p].stage = "flag"]
  BY DEF MarkFails, AtStage, Goes
<1>2. TypeOK'
  BY <1>1, RestagedPushes DEF MirrorInv, TypeOK
<1>3. /\ \A q \in Pushers : /\ sync'[q].lead = sync[q].lead /\ sync'[q].version = sync[q].version
                            /\ sync'[q].path = sync[q].path
                            /\ q # p => sync'[q].stage = sync[q].stage
      /\ sync'[p].stage = "flag"
  BY <1>1 DEF MirrorInv, TypeOK
<1>4. Known'
  BY <1>1, <1>3 DEF MirrorInv, Known
<1>5. QED
  BY <1>1, <1>2, <1>3, <1>4 DEF MirrorInv, CarriesTheRow, AcceptedIsTheRow, NotNeeded, Remembered,
     Owed, Busy

\* A push of the broker board that is dropped leads its lead astray; any other is
\* not needed.
LEMMA DropKeeps ==
  ASSUME MirrorInv, NEW p \in Pushers, Drop(p)
  PROVE  MirrorInv'
<1>1. /\ sync[p].stage # "idle" /\ UNCHANGED <<row, flag, doc, made, sweep>>
      /\ sync' = [sync EXCEPT ![p] = Quiet] /\ sync[p].lead \in Leads
      /\ astray' = IF sync[p].path = "board" THEN astray \cup {sync[p].lead} ELSE astray
  BY DEF Drop, AtStage, MirrorInv, Known
<1>2. \A q \in Pushers : sync'[q] = IF q = p THEN Quiet ELSE sync[q]
  BY <1>1 DEF MirrorInv, TypeOK
<1>3. TypeOK'
  BY <1>1 DEF MirrorInv, TypeOK, Quiet, Paths
<1>4. Known'
  BY <1>1, <1>2 DEF MirrorInv, Known, Quiet
<1>5. ASSUME NEW k \in Leads \ astray'
      PROVE  (CarriesTheRow(k) /\ AcceptedIsTheRow(k) /\ NotNeeded(k) /\ Remembered(k))'
  <2>1. /\ k \in Leads \ astray /\ CarriesTheRow(k) /\ AcceptedIsTheRow(k)
        /\ NotNeeded(k) /\ Remembered(k)
    BY <1>1 DEF MirrorInv
  <2>2. \A q \in Pushers : Busy(q, k)' <=> q # p /\ Busy(q, k)
    BY <1>2 DEF Busy, Quiet
  <2>3. Owed(k)' <=> Owed(k)
    BY <1>1 DEF Owed
  <2>4. Busy(p, k) => Owed(k)
    <3>1. sync[p].path \in {"board", "crm"}
      BY DEF MirrorInv, TypeOK, Paths
    <3>2. QED
      BY <1>1, <2>1, <3>1 DEF NotNeeded, Busy
  <2>5. QED
    BY <1>1, <1>2, <2>1, <2>2, <2>3, <2>4 DEF CarriesTheRow, AcceptedIsTheRow, NotNeeded, Remembered
<1>6. QED
  BY <1>3, <1>4, <1>5 DEF MirrorInv

\* The sweep reads rows as they are, of leads whose status says so.
LEMMA SweepKeeps ==
  ASSUME MirrorInv, Sweep
  PROVE  MirrorInv'
<1>1. /\ UNCHANGED <<row, flag, doc, made, sync, astray>>
      /\ \A r \in sweep' : \E i \in 1..Len(made) :
            Stale(made[i]) /\ r = [lead |-> made[i], version |-> row[made[i]]]
  BY DEF Sweep, BatchOf
<1>2. \A i \in 1..Len(made) : made[i] \in Leads /\ row[made[i]] \in Nat
  BY DEF MirrorInv, TypeOK
<1>3. \A r \in sweep' : /\ r \in [lead : Leads, version : Nat] /\ Stale(r.lead)
                        /\ r.version = row[r.lead] /\ row[r.lead] > 0
  BY <1>1, <1>2 DEF MirrorInv, Known
<1>4. TypeOK' /\ Known'
  BY <1>1, <1>3 DEF MirrorInv, TypeOK, Known
<1>5. QED
  BY <1>1, <1>3, <1>4 DEF MirrorInv, CarriesTheRow, AcceptedIsTheRow, NotNeeded, Remembered, Owed,
     Busy, Stale

\* A row that was read is pushed.
LEMMA SweepNextKeeps ==
  ASSUME MirrorInv, SweepNext
  PROVE  MirrorInv'
<1>1. PICK r \in sweep :
        /\ UNCHANGED <<row, flag, doc, made, astray>> /\ sweep' = sweep \ {r}
        /\ sync[Sweeper].stage = "idle"
        /\ sync' = [sync EXCEPT ![Sweeper] =
                      [lead |-> r.lead, version |-> r.version, path |-> "crm", stage |-> "push"]]
  BY DEF SweepNext, Push, AtStage
<1>2. \A q \in Pushers : sync'[q] = IF q = Sweeper
          THEN [lead |-> r.lead, version |-> r.version, path |-> "crm", stage |-> "push"] ELSE sync[q]
  BY <1>1 DEF MirrorInv, TypeOK
<1>3. r.lead \in Leads /\ r.version \in Nat /\ Sweeper \in Pushers
  BY DEF MirrorInv, TypeOK, Pushers
<1>4. TypeOK'
  BY <1>1, <1>3 DEF MirrorInv, TypeOK, Paths
<1>5. Known'
  BY <1>1, <1>2, <1>3 DEF MirrorInv, Known
<1>6. QED
  BY <1>1, <1>2, <1>3, <1>4, <1>5 DEF MirrorInv, CarriesTheRow, AcceptedIsTheRow, NotNeeded,
     Remembered, Owed, Busy

LEMMA MirrorInvIsInductive == MirrorInv /\ [Next]_vars => MirrorInv'
<1> SUFFICES ASSUME MirrorInv, [Next]_vars
             PROVE  MirrorInv'
  OBVIOUS
<1>1. CASE UNCHANGED vars
  BY <1>1 DEF vars, MirrorInv, TypeOK, Known, CarriesTheRow, AcceptedIsTheRow, NotNeeded, Remembered,
     Owed, Busy
<1>2. QED
  BY <1>1, SubmitKeeps, ChangeKeeps, AttemptKeeps, OutcomeKeeps, MarkFailsKeeps, DropKeeps,
     SweepKeeps, SweepNextKeeps DEF Next, Step

-------------------------------------------------------------------------------
\* A document that differs from its row is about to be pushed with that row, or
\* its row says so to the sweep, unless it went astray, for any leads, requests
\* and changes and any size of the batch.
THEOREM DifferencesAreRemembered == Spec => []NothingIsForgotten
<1>1. MirrorInv => NothingIsForgotten
  BY DEF MirrorInv, CarriesTheRow, Remembered, Owed, Busy, NothingIsForgotten
<1>2. QED
  BY <1>1, MirrorInvHoldsAtFirst, MirrorInvIsInductive, PTL DEF Spec
===============================================================================
