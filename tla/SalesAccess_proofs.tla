-------------------------- MODULE SalesAccess_proofs --------------------------
(***************************************************************************)
(* Theorems about the access of a broker.  For any requests that overlap,  *)
(* fail and die, and any bound on their failing calls: access is whole or  *)
(* absent wherever the undoing is made for what went wrong, and a success  *)
(* is what was asked for.  For any emails and rows and any number of runs  *)
(* of the provisioning script: what a run that reports success leaves      *)
(* behind.                                                                 *)
(***************************************************************************)
EXTENDS SalesAccess, Provisioning, TLAPS

(***************************************************************************)
(* The admin requests.                                                     *)
(***************************************************************************)
Records == [op : Ops, step : Running \cup Ended, call : Calls, undoing : BOOLEAN, prev : Profiles,
            faults : 0..MaxFaults, alone : BOOLEAN, useful : BOOLEAN]

Whole == IF pg = "active" THEN Open ELSE Shut

\* The provisioner runs for the request or takes back what the request did.
Ordered(q) ==
    /\ q.step \in Running \ {"look"} =>
          q.call = IF q.undoing <=> q.op = "deactivate" THEN "provision" ELSE "revoke"
    /\ q.step \in {"look", "store"} => ~q.undoing
    /\ q.step = "reset" => q.op = "activate"

\* The gates after one of its writes, and after both.
Passed(q) ==
    /\ q.step = "two" => IF q.call = "provision" THEN claim ELSE profile = "inactive"
    /\ q.step = "store" => IF q.call = "provision" THEN Open ELSE Shut

\* Where nothing went wrong but at most one call that was not applied: what was
\* read tells the row, and what is taken back was done.
Recoverable(q) ==
    /\ q.useful => (q.op = "deactivate" <=> pg = "active")
    /\ q.faults > 0 => q.useful
    /\ q.undoing \/ q.step \in {"undo1", "undo2", "reset"} => q.faults > 0
    /\ q.step \in {"undo1", "undo2"} => ~q.undoing
    /\ q.step = "look" \/ (q.step \in {"read", "one"} /\ ~q.undoing) => Whole
    /\ q.step \in {"one", "two", "store", "undo1", "undo2"} /\ ~q.undoing =>
          (q.prev = "active" <=> pg = "active")
    /\ q.step = "undo2" => (profile = "active" <=> pg = "active")
    /\ q.step = "reset" => pg # "active" /\ Shut

Holds(q) ==
    q.step \in Running => /\ Ordered(q)
                          /\ q.alone \/ ~trouble => Passed(q)
                          /\ ~trouble => Recoverable(q)

\* Requests that overlap are not alone, and no undoing is made for that.
Apart ==
    \A r, s \in Requests :
        r # s /\ {req[r].step, req[s].step} \subseteq Running => trouble /\ ~req[r].alone

AccessInv ==
    /\ TypeOK /\ Apart /\ \A r \in Requests : Holds(req[r])
    /\ Quiet /\ ~trouble => Whole

-------------------------------------------------------------------------------
LEMMA AccessInvHoldsAtFirst == Init => AccessInv
<1> SUFFICES ASSUME Init PROVE AccessInv
  OBVIOUS
<1>1. NoRequest \in Records
  BY FaultsAreNatural DEF NoRequest, Records, Ops, Running, Ended, Calls, Profiles
<1>2. \A r \in Requests : req[r].step = "none"
  BY DEF Init, NoRequest
<1>3. TypeOK
  BY <1>1 DEF Init, TypeOK, Records, Profiles
<1>4. QED
  BY <1>2, <1>3 DEF AccessInv, Apart, Holds, Running, Quiet, Whole, Shut, Init

\* A request goes on.  The others, if any is under way, are not alone and know
\* of the trouble: all that must hold of them is the order of their calls.
LEMMA RequestGoesOn ==
  ASSUME AccessInv, NEW r \in Requests, req[r].step \in Running,
         NEW q \in Records, Becomes(r, q), q.alone = req[r].alone,
         pg' \in {"none", "active", "inactive"}, claim' \in BOOLEAN, profile' \in Profiles,
         trouble' \in BOOLEAN,
         trouble => trouble' \/ (q.alone /\ q.step \in Ended),
         Holds(q)',
         q.step \in Ended /\ ~trouble' => Whole'
  PROVE  AccessInv'
<1>1. /\ TypeOK /\ req \in [Requests -> Records] /\ req' \in [Requests -> Records]
      /\ req'[r] = q /\ \A s \in Requests \ {r} : req'[s] = req[s]
  BY DEF AccessInv, TypeOK, Becomes, Records
<1>2. TypeOK'
  BY <1>1 DEF TypeOK, Records
<1>3. ASSUME NEW s \in Requests \ {r}, req[s].step \in Running
      PROVE  trouble' /\ ~req[s].alone /\ ~q.alone
  <2>1. trouble /\ ~req[s].alone /\ ~req[r].alone
    BY <1>3 DEF AccessInv, Apart
  <2>2. QED
    BY <2>1
<1>4. Apart'
  <2> SUFFICES ASSUME NEW x \in Requests, NEW y \in Requests, x # y,
                      req'[x].step \in Running, req'[y].step \in Running
               PROVE  trouble' /\ ~req'[x].alone
    BY DEF Apart
  <2>1. CASE x = r
    BY <2>1, <1>1, <1>3
  <2>2. CASE x # r
    BY <2>2, <1>1, <1>3
  <2>3. QED
    BY <2>1, <2>2
<1>5. ASSUME NEW s \in Requests
      PROVE  Holds(req[s])'
  <2>1. CASE s = r
    BY <2>1, <1>1
  <2>2. CASE s # r
    <3>1. PICK p : p = req[s]
      OBVIOUS
    <3>2. Holds(p)
      BY <3>1 DEF AccessInv
    <3>3. p.step \in Running => trouble' /\ ~p.alone
      BY <2>2, <1>3, <3>1
    <3>4. Holds(p)'
      BY <3>2, <3>3 DEF Holds, Ordered
    <3>5. QED
      BY <3>4, <3>1, <2>2, <1>1
  <2>3. QED
    BY <2>1, <2>2
<1>6. (Quiet /\ ~trouble => Whole)'
  BY <1>1 DEF Quiet
<1>7. QED
  BY <1>2, <1>4, <1>5, <1>6 DEF AccessInv

\* A call fails and leads to f.
LEMMA FailureKeeps ==
  ASSUME AccessInv, NEW r \in Requests, req[r].step \in Running, NEW f \in Records,
         f.faults = req[r].faults, f.alone = req[r].alone, f.useful = req[r].useful,
         f.op = req[r].op, f.prev = req[r].prev,
         FailsWith(r, f),
         pg' \in {"none", "active", "inactive"}, claim' \in BOOLEAN, profile' \in Profiles,
         f.step \in {"undo1", "read", "reset", "failed"},
         Ordered(f), f.step = "read" => f.undoing,
         req[r].useful /\ ~trouble /\ req[r].faults = 0 =>
            /\ f.step = "failed" => Whole
            /\ f.step = "reset" => pg # "active" /\ Shut
            /\ f.step = "undo1" => ~f.undoing /\ (f.prev = "active" <=> pg = "active")
  PROVE  AccessInv'
<1>1. /\ TypeOK /\ req[r] \in Records /\ MaxFaults \in Nat
  BY FaultsAreNatural DEF AccessInv, TypeOK, Records
<1>2. PICK g \in Records :
        /\ Becomes(r, g) /\ g.step = f.step /\ g.op = f.op /\ g.call = f.call /\ g.prev = f.prev
        /\ g.undoing = f.undoing /\ g.alone = f.alone /\ g.useful = f.useful
        /\ g.faults = f.faults + 1
  <2>1. PICK g : g = [f EXCEPT !.faults = @ + 1]
    OBVIOUS
  <2>2. f.faults + 1 \in 0..MaxFaults
    BY <1>1 DEF FailsWith, Records
  <2>3. g \in Records
    BY <2>1, <2>2 DEF Records
  <2>4. Becomes(r, g)
    BY <2>1 DEF FailsWith
  <2>5. QED
    BY <2>1, <2>3, <2>4 DEF Records
<1>3. /\ trouble' \in BOOLEAN /\ (trouble => trouble')
      /\ ~trouble' => ~trouble /\ req[r].faults = 0 /\ req[r].useful /\ UNCHANGED systems
  <2>1. trouble' = (trouble \/ req[r].faults > 0 \/ ~req[r].useful \/ systems' # systems)
    BY DEF FailsWith
  <2>2. trouble' \in BOOLEAN /\ (trouble => trouble')
    BY <2>1
  <2>3. ~trouble' => ~trouble /\ ~(req[r].faults > 0) /\ req[r].useful /\ UNCHANGED systems
    BY <2>1, Zenon
  <2>4. req[r].faults \in Nat
    BY <1>1 DEF Records
  <2>5. QED
    BY <2>2, <2>3, <2>4
<1>4. ~trouble' => /\ g.step = "failed" => Whole'
                   /\ g.step = "reset" => (pg # "active" /\ Shut)'
                   /\ g.step = "undo1" => ~g.undoing /\ (g.prev = "active" <=> pg' = "active")
  BY <1>2, <1>3 DEF systems, Whole, Open, Shut
<1>5. g.faults > 0 /\ g.step \notin {"two", "store", "look", "one", "undo2"}
  BY <1>1, <1>2 DEF Records
<1>6. Ordered(g)'
  BY <1>2 DEF Ordered
<1>7. ~trouble' => (g.op = "deactivate" <=> pg' = "active") /\ g.useful
  <2>1. Holds(req[r])
    BY DEF AccessInv
  <2>2. QED
    BY <2>1, <1>2, <1>3 DEF Holds, Recoverable, systems
<1>8. Holds(g)'
  <2>1. Passed(g)'
    BY <1>5 DEF Passed
  <2>2. ~trouble' => Recoverable(g)'
    BY <1>2, <1>4, <1>5, <1>7 DEF Recoverable
  <2>3. QED
    BY <2>1, <2>2, <1>6 DEF Holds
<1>9. g.step \in Ended /\ ~trouble' => Whole'
  BY <1>2, <1>4 DEF Ended
<1>10. QED
  BY <1>2, <1>3, <1>8, <1>9, RequestGoesOn

\* What is left of a request that goes to a step.
SameBut(q, p) ==
    /\ q.op = p.op /\ q.prev = p.prev /\ q.faults = p.faults
    /\ q.alone = p.alone /\ q.useful = p.useful

LEMMA GoesChangesTheStep ==
  ASSUME NEW p \in Records, NEW step \in Running \cup Ended
  PROVE  /\ Goes(p, step) \in Records /\ SameBut(Goes(p, step), p)
         /\ Goes(p, step).step = step /\ Goes(p, step).call = p.call
         /\ Goes(p, step).undoing = p.undoing
BY DEF Goes, Records, SameBut

LEMMA UndoneTurnsRound ==
  ASSUME NEW p \in Records
  PROVE  /\ Undone(p) \in Records /\ SameBut(Undone(p), p)
         /\ Undone(p).step = "read" /\ Undone(p).undoing
         /\ Undone(p).call = IF p.op = "deactivate" THEN "provision" ELSE "revoke"
BY DEF Undone, Records, SameBut, Running, Calls

\* How a request goes on, case by case.
LEMMA AfterIs ==
  ASSUME NEW p \in Records, NEW result \in {"ok", "refused", "broken"},
         NEW f, f = After(p, result)
  PROVE  /\ f \in Records /\ SameBut(f, p)
         /\ p.undoing \/ result # "broken" \/ p.op = "create" =>
               f.call = p.call /\ f.undoing = p.undoing
         /\ ~p.undoing /\ result = "broken" /\ p.op # "create" => f = Undone(p)
         /\ result = "ok" /\ ~p.undoing => f.step = "store"
         /\ result = "refused" \/ (result = "ok" /\ p.undoing) =>
               f.step = IF p.op = "activate" THEN "reset" ELSE "failed"
         /\ result = "broken" /\ (p.undoing \/ p.op = "create") =>
               f.step = "failed"
<1>1. /\ "store" \in Running \cup Ended /\ "reset" \in Running \cup Ended
      /\ "failed" \in Running \cup Ended
  BY DEF Running, Ended
<1>2. CASE p.undoing
  <2>1. PICK step \in Running \cup Ended :
          /\ step = IF p.op = "activate" /\ result # "broken" THEN "reset" ELSE "failed"
          /\ f = Goes(p, step)
    BY <1>1, <1>2 DEF After
  <2>2. /\ Goes(p, step) \in Records /\ SameBut(Goes(p, step), p)
        /\ Goes(p, step).step = step /\ Goes(p, step).call = p.call
        /\ Goes(p, step).undoing = p.undoing
    BY GoesChangesTheStep
  <2>3. QED
    BY <1>2, <2>1, <2>2
<1>3. CASE ~p.undoing /\ result = "ok"
  <2>1. f = Goes(p, "store")
    BY <1>3 DEF After
  <2>2. /\ Goes(p, "store") \in Records /\ SameBut(Goes(p, "store"), p)
        /\ Goes(p, "store").step = "store" /\ Goes(p, "store").call = p.call
        /\ Goes(p, "store").undoing = p.undoing
    BY <1>1, GoesChangesTheStep
  <2>3. QED
    BY <1>3, <2>1, <2>2
<1>4. CASE ~p.undoing /\ result = "refused"
  <2>1. PICK step \in Running \cup Ended :
          /\ step = IF p.op = "activate" THEN "reset" ELSE "failed"
          /\ f = Goes(p, step)
    BY <1>1, <1>4 DEF After
  <2>2. /\ Goes(p, step) \in Records /\ SameBut(Goes(p, step), p)
        /\ Goes(p, step).step = step /\ Goes(p, step).call = p.call
        /\ Goes(p, step).undoing = p.undoing
    BY GoesChangesTheStep
  <2>3. QED
    <3>1. result = "refused" /\ step = IF p.op = "activate" THEN "reset" ELSE "failed"
      BY <1>4, <2>1
    <3>2. f = Goes(p, step)
      BY <2>1
    <3>3. /\ f \in Records /\ SameBut(f, p)
          /\ f.step = IF p.op = "activate" THEN "reset" ELSE "failed"
          /\ f.call = p.call /\ f.undoing = p.undoing
      BY <2>2, <3>1, <3>2, Zenon
    <3>4. QED
      BY <3>1, <3>3
<1>5. CASE ~p.undoing /\ result = "broken"
  <2>1. f = IF p.op = "create" THEN Goes(p, "failed") ELSE Undone(p)
    BY <1>5 DEF After
  <2>2. QED
    <3>1. CASE p.op = "create"
      <4>1. /\ Goes(p, "failed") \in Records /\ SameBut(Goes(p, "failed"), p)
            /\ Goes(p, "failed").step = "failed" /\ Goes(p, "failed").call = p.call
            /\ Goes(p, "failed").undoing = p.undoing
        BY <1>1, GoesChangesTheStep
      <4>2. f = Goes(p, "failed")
        BY <2>1, <3>1
      <4>3. /\ f \in Records /\ SameBut(f, p)
            /\ f.step = "failed"
            /\ f.call = p.call /\ f.undoing = p.undoing
        BY <4>1, <4>2, Zenon
      <4>4. QED
        BY <1>5, <3>1, <4>3
    <3>2. CASE p.op # "create"
      BY <1>5, <2>1, <3>2, UndoneTurnsRound
    <3>3. QED
      BY <3>1, <3>2
<1>6. QED
  BY <1>2, <1>3, <1>4, <1>5

LEMMA RequestIsKnown ==
  ASSUME AccessInv, NEW r \in Requests
  PROVE  /\ req[r] \in Records /\ Holds(req[r])
         /\ pg \in {"none", "active", "inactive"} /\ claim \in BOOLEAN /\ profile \in Profiles
         /\ trouble \in BOOLEAN
BY DEF AccessInv, TypeOK, Records

\* A request comes.  If others are under way, none of them is alone any more.
LEMMA StartKeeps ==
  ASSUME AccessInv, NEW r \in Requests, NEW op \in Ops, Start(r, op)
  PROVE  AccessInv'
<1> DEFINE now == [NoRequest EXCEPT !.op = op, !.step = "look", !.alone = Quiet,
                                    !.useful = (op = "deactivate") <=> (pg = "active")]
<1>1. PICK q \in Records :
        /\ q = now /\ q.step = "look" /\ ~q.undoing /\ q.faults = 0 /\ q.op = op
        /\ q.alone = Quiet /\ (q.useful <=> (op = "deactivate" <=> pg = "active"))
  <2>1. Quiet \in BOOLEAN /\ ((op = "deactivate") <=> (pg = "active")) \in BOOLEAN
    BY DEF Quiet
  <2>2. 0 \in 0..MaxFaults
    BY FaultsAreNatural
  <2>3. now \in Records
    BY <2>1, <2>2 DEF Records, NoRequest, Running, Ended, Calls, Profiles
  <2>4. /\ now.step = "look" /\ ~now.undoing /\ now.faults = 0 /\ now.op = op
        /\ now.alone = Quiet /\ (now.useful <=> (op = "deactivate" <=> pg = "active"))
    BY DEF NoRequest
  <2> HIDE DEF now
  <2>5. QED
    BY <2>3, <2>4
<1>2. /\ req[r].step \in Ended /\ trouble' = (trouble \/ ~Quiet) /\ UNCHANGED <<pg, claim, profile>>
      /\ req' = [x \in Requests |-> IF x = r THEN q ELSE [req[x] EXCEPT !.alone = FALSE]]
  BY <1>1 DEF Start, systems
<1> HIDE DEF now
<1>3. ASSUME NEW s \in Requests \ {r}
      PROVE  /\ req'[s] \in Records /\ ~req'[s].alone /\ req'[s].step = req[s].step
             /\ req'[s].op = req[s].op /\ req'[s].call = req[s].call
             /\ req'[s].undoing = req[s].undoing
             /\ req[s].step \in Running => trouble'
  <2>1. req'[s] = [req[s] EXCEPT !.alone = FALSE]
    BY <1>2
  <2>2. req[s] \in Records
    BY RequestIsKnown
  <2>3. req[s].step \in Running => ~Quiet
    BY DEF Quiet, Running, Ended
  <2>4. QED
    BY <1>2, <2>1, <2>2, <2>3 DEF Records
<1>4. req'[r] = q
  BY <1>2
<1>5. TypeOK'
  <2>1. req' \in [Requests -> Records]
    BY <1>2, <1>3, <1>4
  <2>2. trouble' \in BOOLEAN
    BY <1>2
  <2>3. QED
    BY <1>2, <2>1, <2>2 DEF AccessInv, TypeOK, Records
<1>6. Apart'
  <2> SUFFICES ASSUME NEW x \in Requests, NEW y \in Requests, x # y,
                      req'[x].step \in Running, req'[y].step \in Running
               PROVE  trouble' /\ ~req'[x].alone
    BY DEF Apart
  <2>1. CASE x = r
    <3>1. req[y].step \in Running
      BY <2>1, <1>3
    <3>2. ~Quiet
      BY <3>1 DEF Quiet, Running, Ended
    <3>3. QED
      BY <3>2, <2>1, <1>1, <1>2, <1>4
  <2>2. CASE x # r
    BY <2>2, <1>3
  <2>3. QED
    BY <2>1, <2>2
<1>7. ASSUME NEW s \in Requests
      PROVE  Holds(req[s])'
  <2>1. CASE s = r
    <3>1. Ordered(q)' /\ Passed(q)'
      BY <1>1 DEF Ordered, Passed
    <3>2. ~trouble' => Whole'
      BY <1>2 DEF AccessInv, Whole, Open, Shut
    <3>3. ~trouble' => Recoverable(q)'
      BY <3>2, <1>1, <1>2 DEF Recoverable
    <3>4. Holds(q)'
      BY <3>1, <3>3 DEF Holds
    <3>5. QED
      BY <3>4, <2>1, <1>4
  <2>2. CASE s # r
    <3>1. PICK p, q2 : p = req[s] /\ q2 = req'[s]
      OBVIOUS
    <3>2. Holds(p)
      BY <3>1 DEF AccessInv
    <3>3. Holds(q2)'
      BY <2>2, <3>1, <3>2, <1>3 DEF Holds, Ordered
    <3>4. QED
      BY <3>1, <3>3
  <2>3. QED
    BY <2>1, <2>2
<1>8. ~Quiet'
  BY <1>1, <1>4 DEF Quiet, Ended
<1>9. QED
  BY <1>5, <1>6, <1>7, <1>8 DEF AccessInv

LEMMA LookKeeps ==
  ASSUME AccessInv, NEW r \in Requests, Look(r)
  PROVE  AccessInv'
<1>1. PICK p \in Records : p = req[r] /\ Holds(p) /\ p.step = "look"
  BY RequestIsKnown DEF Look, At
<1>2. PICK q \in Records :
        /\ Becomes(r, q) /\ SameBut(q, p) /\ q.undoing = p.undoing
        /\ \/ q.step = "none"
           \/ q.step = "read" /\ q.call = IF p.op = "deactivate" THEN "revoke" ELSE "provision"
  <2>1. CASE Becomes(r, Goes(p, "none"))
    <3>1. "none" \in Running \cup Ended
      BY DEF Ended
    <3>2. QED
      BY <2>1, <3>1, GoesChangesTheStep
  <2>2. CASE Becomes(r, [p EXCEPT !.step = "read",
                                  !.call = IF p.op = "deactivate" THEN "revoke" ELSE "provision"])
    <3>1. PICK q : q = [p EXCEPT !.step = "read",
                             !.call = IF p.op = "deactivate" THEN "revoke" ELSE "provision"]
      OBVIOUS
    <3>2. /\ q \in Records /\ SameBut(q, p) /\ q.undoing = p.undoing /\ q.step = "read"
          /\ q.call = IF p.op = "deactivate" THEN "revoke" ELSE "provision"
      BY <3>1 DEF Records, SameBut, Running, Calls
    <3>3. QED
      BY <2>2, <3>1, <3>2
  <2>3. QED
    BY <1>1, <2>1, <2>2 DEF Look
<1>3. UNCHANGED <<pg, claim, profile, trouble>>
  BY DEF Look, systems
<1>4. Ordered(p) /\ (~trouble => Recoverable(p))
  BY <1>1 DEF Holds, Running
<1>5. Holds(q)'
  <2>1. q.step = "read" => Ordered(q)' /\ Passed(q)'
    BY <1>1, <1>2, <1>4 DEF Ordered, Passed, SameBut
  <2>2. ~trouble' => Whole'
    BY <1>1, <1>3, <1>4 DEF Recoverable, Whole, Open, Shut
  <2>3. ~trouble' /\ q.step = "read" => Recoverable(q)'
    BY <1>1, <1>2, <1>3, <1>4, <2>2 DEF Recoverable, SameBut, Ordered
  <2>4. QED
    BY <1>2, <2>1, <2>3 DEF Holds, Running
<1>6. q.step \in Ended /\ ~trouble' => Whole'
  BY <1>1, <1>3, <1>4 DEF Recoverable, Whole, Open, Shut
<1>7. req[r].step \in Running /\ q.alone = req[r].alone
  BY <1>1, <1>2 DEF Running, SameBut
<1>8. /\ pg' \in {"none", "active", "inactive"} /\ claim' \in BOOLEAN /\ profile' \in Profiles
      /\ trouble' \in BOOLEAN /\ (trouble => trouble')
  BY <1>3, RequestIsKnown
<1>9. QED
  BY <1>2, <1>5, <1>6, <1>7, <1>8, RequestGoesOn

LEMMA DieKeeps ==
  ASSUME AccessInv, NEW r \in Requests, Die(r)
  PROVE  AccessInv'
<1>1. "dead" \in Running \cup Ended /\ "dead" \notin Running
  BY DEF Ended, Running
<1>2. PICK q \in Records : Becomes(r, q) /\ q.step = "dead" /\ q.alone = req[r].alone
  BY <1>1, RequestIsKnown, GoesChangesTheStep DEF Die, SameBut
<1>3. Holds(q)'
  BY <1>1, <1>2 DEF Holds
<1>4. /\ pg' \in {"none", "active", "inactive"} /\ claim' \in BOOLEAN /\ profile' \in Profiles
      /\ trouble' /\ trouble' \in BOOLEAN /\ req[r].step \in Running
  BY RequestIsKnown DEF Die, systems
<1>5. QED
  BY <1>2, <1>3, <1>4, RequestGoesOn

\* A call of the provisioner that fails, seen by the request.
LEMMA FailedIsOrdered ==
  ASSUME NEW p \in Records, p.step \in Running \ {"look"}, Ordered(p),
         NEW result \in {"refused", "broken"}, NEW f, f = After(p, result)
  PROVE  /\ f \in Records /\ SameBut(f, p)
         /\ f.step \in {"read", "reset", "failed"}
         /\ Ordered(f)
         /\ f.step = "read" => f.undoing
         /\ f.step = "reset" => p.op = "activate"
         /\ result = "refused" =>
               f.step = IF p.op = "activate" THEN "reset" ELSE "failed"
<1>1. result \in {"ok", "refused", "broken"}
  OBVIOUS
<1>2. /\ f \in Records /\ SameBut(f, p)
      /\ p.undoing \/ result # "broken" \/ p.op = "create" =>
            f.call = p.call /\ f.undoing = p.undoing
      /\ ~p.undoing /\ result = "broken" /\ p.op # "create" => f = Undone(p)
      /\ result = "refused" => f.step = IF p.op = "activate" THEN "reset" ELSE "failed"
      /\ result = "broken" /\ (p.undoing \/ p.op = "create") => f.step = "failed"
  <2>1. /\ f \in Records /\ SameBut(f, p)
        /\ p.undoing \/ result # "broken" \/ p.op = "create" =>
              f.call = p.call /\ f.undoing = p.undoing
        /\ ~p.undoing /\ result = "broken" /\ p.op # "create" => f = Undone(p)
        /\ result = "ok" /\ ~p.undoing => f.step = "store"
        /\ result = "refused" \/ (result = "ok" /\ p.undoing) =>
              f.step = IF p.op = "activate" THEN "reset" ELSE "failed"
        /\ result = "broken" /\ (p.undoing \/ p.op = "create") => f.step = "failed"
    BY <1>1, AfterIs, Zenon
  <2>2. QED
    BY <2>1
<1>3. CASE f = Undone(p)
  <2>1. /\ f.step = "read" /\ f.undoing /\ f.op = p.op
        /\ f.call = IF p.op = "deactivate" THEN "provision" ELSE "revoke"
    BY <1>3, UndoneTurnsRound DEF SameBut
  <2>2. Ordered(f)
    BY <2>1 DEF Ordered
  <2>3. QED
    BY <1>2, <2>1, <2>2
<1>4. CASE f # Undone(p)
  <2>1. f.call = p.call /\ f.undoing = p.undoing /\ f.op = p.op
    BY <1>2, <1>4 DEF SameBut
  <2>2. f.step \in {"reset", "failed"} /\ (f.step = "reset" => p.op = "activate")
    BY <1>2, <1>4
  <2>3. Ordered(f)
    BY <2>1, <2>2 DEF Ordered
  <2>4. QED
    BY <1>2, <2>2, <2>3
<1>5. QED
  BY <1>3, <1>4

\* A call of the provisioner fails and the request learns of it.
LEMMA RefusalKeeps ==
  ASSUME AccessInv, NEW r \in Requests, req[r].step \in Running \ {"look"},
         NEW result \in {"refused", "broken"}, FailsWith(r, After(req[r], result)),
         pg' = pg, claim' \in BOOLEAN, profile' \in Profiles,
         req[r].step \in {"undo1", "undo2"} \/ req[r].undoing \/ req[r].step = "read"
  PROVE  AccessInv'
<1>1. PICK p \in Records : p = req[r] /\ Ordered(p) /\ (~trouble => Recoverable(p))
  BY RequestIsKnown DEF Holds
<1>2. PICK f \in Records :
        /\ f = After(p, result) /\ SameBut(f, p) /\ f.step \in {"read", "reset", "failed"}
        /\ Ordered(f) /\ (f.step = "read" => f.undoing)
        /\ (f.step = "reset" => p.op = "activate")
  BY <1>1, FailedIsOrdered
<1>3. p.useful /\ ~trouble /\ p.faults = 0 =>
        /\ f.step = "failed" => Whole
        /\ f.step = "reset" => pg # "active" /\ Shut
  BY <1>1, <1>2 DEF Recoverable, Whole
<1>4. FailsWith(r, f) /\ pg' \in {"none", "active", "inactive"} /\ req[r].step \in Running
  BY <1>1, <1>2, RequestIsKnown
<1>5. /\ f.faults = p.faults /\ f.alone = p.alone /\ f.useful = p.useful /\ f.op = p.op
      /\ f.prev = p.prev
  BY <1>2 DEF SameBut
<1>6. QED
  BY <1>1, <1>2, <1>3, <1>4, <1>5, FailureKeeps

\* A write to the gates fails and the provisioner begins to put them back.
LEMMA HalfWayKeeps ==
  ASSUME AccessInv, NEW r \in Requests, req[r].step \in {"one", "two"},
         FailsWith(r, Goes(req[r], "undo1")),
         pg' = pg, claim' \in BOOLEAN, profile' \in Profiles
  PROVE  AccessInv'
<1>1. PICK p \in Records :
        p = req[r] /\ p.step \in {"one", "two"} /\ Ordered(p) /\ (~trouble => Recoverable(p))
  BY RequestIsKnown DEF Holds, Running
<1>2. "undo1" \in Running \cup Ended
  BY DEF Running
<1>3. PICK f \in Records :
        /\ f = Goes(p, "undo1") /\ SameBut(f, p) /\ f.step = "undo1" /\ f.call = p.call
        /\ f.undoing = p.undoing
  BY <1>2, GoesChangesTheStep
<1>4. Ordered(f)
  BY <1>1, <1>3 DEF Ordered, SameBut, Running
<1>5. p.useful /\ ~trouble /\ p.faults = 0 => ~f.undoing /\ (f.prev = "active" <=> pg = "active")
  BY <1>1, <1>3 DEF Recoverable, SameBut
<1>6. FailsWith(r, f) /\ pg' \in {"none", "active", "inactive"} /\ req[r].step \in Running
  BY <1>1, <1>3, RequestIsKnown DEF Running
<1>7. /\ f.faults = p.faults /\ f.alone = p.alone /\ f.useful = p.useful /\ f.op = p.op
      /\ f.prev = p.prev
  BY <1>3 DEF SameBut
<1>8. QED
  BY <1>1, <1>3, <1>4, <1>5, <1>6, <1>7, FailureKeeps

LEMMA ReadKeeps ==
  ASSUME AccessInv, NEW r \in Requests, Read(r)
  PROVE  AccessInv'
<1>1. PICK p \in Records : p = req[r] /\ Holds(p) /\ p.step = "read"
  BY RequestIsKnown DEF Read, At
<1>2. /\ UNCHANGED <<pg, claim, profile>> /\ p.step \in Running \ {"look"}
      /\ pg \in {"none", "active", "inactive"} /\ claim \in BOOLEAN /\ profile \in Profiles
      /\ trouble \in BOOLEAN
  BY <1>1, RequestIsKnown DEF Read, systems, Running
<1>3. CASE Becomes(r, [p EXCEPT !.step = "one", !.prev = profile]) /\ UNCHANGED trouble
  <2>1. PICK q \in Records :
          /\ Becomes(r, q) /\ q.step = "one" /\ q.prev = profile /\ q.op = p.op
          /\ q.faults = p.faults /\ q.alone = p.alone /\ q.useful = p.useful
          /\ q.call = p.call /\ q.undoing = p.undoing
    <3>1. PICK q : q = [p EXCEPT !.step = "one", !.prev = profile]
      OBVIOUS
    <3>2. /\ q \in Records /\ q.step = "one" /\ q.prev = profile /\ q.op = p.op
          /\ q.faults = p.faults /\ q.alone = p.alone /\ q.useful = p.useful
          /\ q.call = p.call /\ q.undoing = p.undoing
      BY <1>2, <3>1 DEF Records, Running
    <3>3. QED
      BY <1>3, <3>1, <3>2
  <2>2. Ordered(p) /\ (~trouble => Recoverable(p))
    BY <1>1, <1>2 DEF Holds
  <2>3. Ordered(q)' /\ Passed(q)'
    BY <1>1, <1>2, <2>1, <2>2 DEF Ordered, Passed, Running
  <2>4. ~trouble' => Recoverable(q)'
    BY <1>1, <1>2, <1>3, <2>1, <2>2 DEF Recoverable, Whole, Open, Shut
  <2>5. Holds(q)' /\ q.step \notin Ended
    BY <2>1, <2>3, <2>4 DEF Holds, Ended
  <2>6. QED
    BY <1>1, <1>2, <1>3, <2>1, <2>5, RequestGoesOn
<1>4. ASSUME NEW result \in {"refused", "broken"}, FailsWith(r, After(req[r], result))
      PROVE  AccessInv'
  BY <1>1, <1>2, <1>4, RefusalKeeps
<1>5. QED
  BY <1>1, <1>3, <1>4 DEF Read

LEMMA GrantClaimKeeps ==
  ASSUME AccessInv, NEW r \in Requests, GrantClaim(r)
  PROVE  AccessInv'
<1>1. PICK p \in Records : p = req[r] /\ Holds(p) /\ p.step = "one" /\ p.call = "provision"
  BY RequestIsKnown DEF GrantClaim, Calling, At
<1>2. /\ p.step \in Running \ {"look"} /\ pg' = pg /\ claim' \in BOOLEAN /\ profile' \in Profiles
      /\ pg \in {"none", "active", "inactive"} /\ trouble \in BOOLEAN
  BY <1>1, RequestIsKnown DEF GrantClaim, Write, Running
<1>3. CASE profile' = profile /\ claim' = TRUE /\ Becomes(r, Goes(p, "two")) /\ UNCHANGED trouble
  <2>1. PICK q \in Records :
          /\ Becomes(r, q) /\ SameBut(q, p) /\ q.step = "two" /\ q.call = p.call
          /\ q.undoing = p.undoing
    <3>1. "two" \in Running \cup Ended
      BY DEF Running
    <3>2. QED
      BY <1>3, <3>1, GoesChangesTheStep
  <2>2. Ordered(p) /\ (~trouble => Recoverable(p))
    BY <1>1, <1>2 DEF Holds
  <2>3. Ordered(q)' /\ Passed(q)'
    BY <1>1, <1>2, <1>3, <2>1, <2>2 DEF Ordered, Passed, SameBut, Running
  <2>4. ~trouble' => Recoverable(q)'
    BY <1>1, <1>2, <1>3, <2>1, <2>2 DEF Recoverable, SameBut
  <2>5. Holds(q)' /\ q.step \notin Ended /\ q.alone = p.alone
    BY <2>1, <2>3, <2>4 DEF Holds, Ended, SameBut
  <2>6. QED
    BY <1>1, <1>2, <1>3, <2>1, <2>5, RequestGoesOn
<1>4. CASE FailsWith(r, Goes(p, "undo1"))
  BY <1>1, <1>2, <1>4, HalfWayKeeps
<1>5. QED
  BY <1>1, <1>3, <1>4 DEF GrantClaim, Write

LEMMA CloseProfileKeeps ==
  ASSUME AccessInv, NEW r \in Requests, CloseProfile(r)
  PROVE  AccessInv'
<1>1. PICK p \in Records : p = req[r] /\ Holds(p) /\ p.step = "one" /\ p.call = "revoke"
  BY RequestIsKnown DEF CloseProfile, Calling, At
<1>2. /\ p.step \in Running \ {"look"} /\ pg' = pg /\ claim' \in BOOLEAN /\ profile' \in Profiles
      /\ pg \in {"none", "active", "inactive"} /\ trouble \in BOOLEAN
  BY <1>1, RequestIsKnown DEF CloseProfile, Write, Running, Profiles
<1>3. CASE profile' = "inactive" /\ claim' = claim /\ Becomes(r, Goes(p, "two"))
           /\ UNCHANGED trouble
  <2>1. PICK q \in Records :
          /\ Becomes(r, q) /\ SameBut(q, p) /\ q.step = "two" /\ q.call = p.call
          /\ q.undoing = p.undoing
    <3>1. "two" \in Running \cup Ended
      BY DEF Running
    <3>2. QED
      BY <1>3, <3>1, GoesChangesTheStep
  <2>2. Ordered(p) /\ (~trouble => Recoverable(p))
    BY <1>1, <1>2 DEF Holds
  <2>3. Ordered(q)' /\ Passed(q)'
    BY <1>1, <1>2, <1>3, <2>1, <2>2 DEF Ordered, Passed, SameBut, Running
  <2>4. ~trouble' => Recoverable(q)'
    BY <1>1, <1>2, <1>3, <2>1, <2>2 DEF Recoverable, SameBut
  <2>5. Holds(q)' /\ q.step \notin Ended /\ q.alone = p.alone
    BY <2>1, <2>3, <2>4 DEF Holds, Ended, SameBut
  <2>6. QED
    BY <1>1, <1>2, <1>3, <2>1, <2>5, RequestGoesOn
<1>4. CASE FailsWith(r, Goes(p, "undo1"))
  BY <1>1, <1>2, <1>4, HalfWayKeeps
<1>5. QED
  BY <1>1, <1>3, <1>4 DEF CloseProfile, Write

\* The second write of a call that returns.
LEMMA ReturnKeeps ==
  ASSUME AccessInv, NEW r \in Requests, req[r].step = "two", Becomes(r, After(req[r], "ok")),
         UNCHANGED <<pg, trouble>>, claim' \in BOOLEAN, profile' \in Profiles,
         req[r].alone \/ ~trouble => IF req[r].call = "provision" THEN Open' ELSE Shut'
  PROVE  AccessInv'
<1>1. PICK p \in Records : p = req[r] /\ Holds(p) /\ p.step = "two"
  BY RequestIsKnown
<1>2. /\ p.step \in Running \ {"look"} /\ p.step \in Running
      /\ pg' \in {"none", "active", "inactive"} /\ trouble \in BOOLEAN /\ trouble' \in BOOLEAN
  BY <1>1, RequestIsKnown DEF Running
<1>3. Ordered(p) /\ (~trouble => Recoverable(p))
  BY <1>1, <1>2 DEF Holds
<1>4. PICK q \in Records :
        /\ Becomes(r, q) /\ SameBut(q, p) /\ q.call = p.call /\ q.undoing = p.undoing
        /\ ~p.undoing => q.step = "store"
        /\ p.undoing => q.step = IF p.op = "activate" THEN "reset" ELSE "failed"
  <2>1. PICK q : q = After(p, "ok")
    OBVIOUS
  <2>2. Becomes(r, q)
    BY <1>1, <2>1
  <2>3. QED
    BY <2>1, <2>2, AfterIs
<1>5. Ordered(q)
  BY <1>2, <1>3, <1>4 DEF Ordered, SameBut
<1>6. q.alone \/ ~trouble' => Passed(q)'
  BY <1>1, <1>4 DEF Passed, SameBut
<1>7. p.undoing /\ ~trouble =>
        /\ p.op = "activate" => pg # "active" /\ Shut'
        /\ Whole'
  BY <1>1, <1>2, <1>3 DEF Ordered, Recoverable, Whole
<1>8. ~trouble' => Recoverable(q)'
  BY <1>1, <1>2, <1>3, <1>4, <1>7 DEF Recoverable, SameBut
<1>9. Holds(q)' /\ q.alone = p.alone
  BY <1>4, <1>5, <1>6, <1>8 DEF Holds, Ordered, SameBut
<1>10. q.step \in Ended /\ ~trouble' => Whole'
  BY <1>4, <1>7 DEF Ended
<1>11. QED
  BY <1>1, <1>2, <1>4, <1>9, <1>10, RequestGoesOn

LEMMA OpenProfileKeeps ==
  ASSUME AccessInv, NEW r \in Requests, OpenProfile(r)
  PROVE  AccessInv'
<1>1. PICK p \in Records : p = req[r] /\ Holds(p) /\ p.step = "two" /\ p.call = "provision"
  BY RequestIsKnown DEF OpenProfile, Calling, At
<1>2. pg' = pg /\ claim' \in BOOLEAN /\ profile' \in Profiles
  BY RequestIsKnown DEF OpenProfile, Write, Profiles
<1>3. CASE profile' = "active" /\ claim' = claim /\ Becomes(r, After(p, "ok")) /\ UNCHANGED trouble
  <2>1. p.alone \/ ~trouble => Open'
    BY <1>1, <1>3 DEF Holds, Passed, Running, Open
  <2>2. QED
    BY <1>1, <1>2, <1>3, <2>1, ReturnKeeps
<1>4. CASE FailsWith(r, Goes(p, "undo1"))
  BY <1>1, <1>2, <1>4, HalfWayKeeps
<1>5. QED
  BY <1>1, <1>3, <1>4 DEF OpenProfile, Write

LEMMA DropClaimKeeps ==
  ASSUME AccessInv, NEW r \in Requests, DropClaim(r)
  PROVE  AccessInv'
<1>1. PICK p \in Records : p = req[r] /\ Holds(p) /\ p.step = "two" /\ p.call = "revoke"
  BY RequestIsKnown DEF DropClaim, Calling, At
<1>2. pg' = pg /\ claim' \in BOOLEAN /\ profile' \in Profiles
  BY RequestIsKnown DEF DropClaim, Write
<1>3. CASE profile' = profile /\ claim' = FALSE /\ Becomes(r, After(p, "ok")) /\ UNCHANGED trouble
  <2>1. p.alone \/ ~trouble => Shut'
    BY <1>1, <1>3 DEF Holds, Passed, Running, Shut
  <2>2. QED
    BY <1>1, <1>2, <1>3, <2>1, ReturnKeeps
<1>4. CASE FailsWith(r, Goes(p, "undo1"))
  BY <1>1, <1>2, <1>4, HalfWayKeeps
<1>5. QED
  BY <1>1, <1>3, <1>4 DEF DropClaim, Write

\* What was open before the call is open again; then the claim follows.
LEMMA PutBackProfileKeeps ==
  ASSUME AccessInv, NEW r \in Requests, PutBackProfile(r)
  PROVE  AccessInv'
<1> DEFINE back(p) == IF p.prev # "absent" THEN p.prev
                      ELSE IF p.call = "provision" THEN "inactive" ELSE "active"
<1>1. PICK p \in Records : p = req[r] /\ Holds(p) /\ p.step = "undo1"
  BY RequestIsKnown DEF PutBackProfile, At
<1>2. /\ p.step \in Running \ {"look"} /\ pg' = pg /\ claim' \in BOOLEAN /\ profile' \in Profiles
      /\ pg \in {"none", "active", "inactive"} /\ trouble \in BOOLEAN
  <2>1. back(p) \in Profiles
    BY DEF Records, Profiles
  <2>2. profile' \in {profile, back(p)} /\ claim' = claim /\ pg' = pg
    BY <1>1 DEF PutBackProfile, Write
  <2> HIDE DEF back
  <2>3. QED
    BY <1>1, <2>1, <2>2, RequestIsKnown DEF Running
<1>3. CASE profile' = back(p) /\ claim' = claim /\ Becomes(r, Goes(p, "undo2")) /\ UNCHANGED trouble
  <2>1. PICK q \in Records :
          /\ Becomes(r, q) /\ SameBut(q, p) /\ q.step = "undo2" /\ q.call = p.call
          /\ q.undoing = p.undoing
    <3>1. "undo2" \in Running \cup Ended
      BY DEF Running
    <3>2. QED
      BY <1>3, <3>1, GoesChangesTheStep
  <2>2. Ordered(p) /\ (~trouble => Recoverable(p))
    BY <1>1, <1>2 DEF Holds
  <2>3. Ordered(q)' /\ Passed(q)'
    BY <1>1, <1>2, <1>3, <2>1, <2>2 DEF Ordered, Passed, SameBut, Running
  <2>4. ~trouble => (profile' = "active" <=> pg' = "active")
    BY <1>1, <1>2, <1>3, <2>2 DEF Recoverable, Ordered
  <2>5. ~trouble' => Recoverable(q)'
    BY <1>1, <1>2, <1>3, <2>1, <2>2, <2>4 DEF Recoverable, SameBut
  <2>6. Holds(q)' /\ q.step \notin Ended /\ q.alone = p.alone
    BY <2>1, <2>3, <2>5 DEF Holds, Ended, SameBut
  <2>7. QED
    BY <1>1, <1>2, <1>3, <2>1, <2>6, RequestGoesOn
<1>4. CASE FailsWith(r, After(p, "refused"))
  BY <1>1, <1>2, <1>4, RefusalKeeps
<1>5. QED
  BY <1>1, <1>3, <1>4 DEF PutBackProfile, Write

LEMMA PutBackClaimKeeps ==
  ASSUME AccessInv, NEW r \in Requests, PutBackClaim(r)
  PROVE  AccessInv'
<1>1. PICK p \in Records : p = req[r] /\ Holds(p) /\ p.step = "undo2"
  BY RequestIsKnown DEF PutBackClaim, At
<1>2. PICK c \in BOOLEAN :
        /\ c = (p.call = "revoke" \/ p.prev = "active")
        /\ Write(r, profile, c, After(p, "refused"), After(p, "refused"))
  BY <1>1 DEF PutBackClaim
<1>3. /\ p.step \in Running \ {"look"} /\ pg' = pg /\ claim' \in BOOLEAN /\ profile' \in Profiles
      /\ pg \in {"none", "active", "inactive"} /\ trouble \in BOOLEAN
  BY <1>1, <1>2, RequestIsKnown DEF Write, Running
<1>4. CASE profile' = profile /\ claim' = c /\ Becomes(r, After(p, "refused")) /\ UNCHANGED trouble
  <2>1. PICK q \in Records :
          /\ Becomes(r, q) /\ SameBut(q, p) /\ q.call = p.call /\ q.undoing = p.undoing
          /\ q.step = IF p.op = "activate" THEN "reset" ELSE "failed"
    BY <1>4, AfterIs
  <2>2. Ordered(p) /\ (~trouble => Recoverable(p))
    BY <1>1, <1>3 DEF Holds
  <2>3. Ordered(q)' /\ Passed(q)'
    BY <1>1, <1>3, <2>1, <2>2 DEF Ordered, Passed, SameBut, Running
  <2>4. ~trouble => /\ p.useful /\ ~p.undoing /\ p.faults > 0
                    /\ (p.op = "deactivate" <=> pg = "active")
                    /\ (p.prev = "active" <=> pg = "active")
                    /\ (profile = "active" <=> pg = "active")
    BY <1>1, <2>2 DEF Recoverable
  <2>5. ~trouble => Whole' /\ (p.op = "activate" => pg' # "active" /\ Shut')
    <3>1. ASSUME ~trouble, p.op = "deactivate"
          PROVE  Open' /\ pg' = "active"
      BY <1>2, <1>3, <1>4, <2>2, <2>4, <3>1, <1>1 DEF Ordered, Open
    <3>2. ASSUME ~trouble, p.op # "deactivate"
          PROVE  Shut' /\ pg' # "active"
      BY <1>2, <1>3, <1>4, <2>2, <2>4, <3>2, <1>1 DEF Ordered, Shut
    <3>3. QED
      BY <3>1, <3>2 DEF Whole
  <2>6. ~trouble' => Recoverable(q)'
    BY <1>3, <1>4, <2>1, <2>4, <2>5 DEF Recoverable, SameBut
  <2>7. Holds(q)' /\ q.alone = p.alone
    BY <2>1, <2>3, <2>6 DEF Holds, SameBut
  <2>8. q.step \in Ended /\ ~trouble' => Whole'
    BY <1>4, <2>5
  <2>9. QED
    BY <1>1, <1>3, <1>4, <2>1, <2>7, <2>8, RequestGoesOn
<1>5. CASE FailsWith(r, After(p, "refused"))
  BY <1>1, <1>3, <1>5, RefusalKeeps
<1>6. QED
  BY <1>2, <1>4, <1>5 DEF Write

LEMMA ResetKeeps ==
  ASSUME AccessInv, NEW r \in Requests, Reset(r)
  PROVE  AccessInv'
<1>1. PICK p \in Records : p = req[r] /\ Holds(p) /\ p.step = "reset"
  BY RequestIsKnown DEF Reset, At
<1>2. "failed" \in Running \cup Ended /\ "failed" \notin Running
  BY DEF Running, Ended
<1>3. PICK q \in Records :
        /\ q = Goes(p, "failed") /\ SameBut(q, p) /\ q.step = "failed"
  BY <1>2, GoesChangesTheStep
<1>4. /\ p.step \in Running /\ claim' \in BOOLEAN /\ profile' \in Profiles
      /\ pg' \in {"none", "active", "inactive"} /\ trouble \in BOOLEAN
      /\ UNCHANGED <<claim, profile>>
  BY <1>1, RequestIsKnown DEF Reset, Running
<1>5. ~trouble => Recoverable(p)
  BY <1>1, <1>4 DEF Holds
<1>6. CASE pg' = "inactive" /\ Becomes(r, q) /\ UNCHANGED trouble
  <2>1. Holds(q)' /\ q.alone = p.alone
    BY <1>2, <1>3 DEF Holds, SameBut
  <2>2. ~trouble' => Whole'
    BY <1>1, <1>4, <1>5, <1>6 DEF Recoverable, Whole, Shut
  <2>3. QED
    BY <1>1, <1>4, <1>6, <2>1, <2>2, RequestGoesOn
<1>7. CASE FailsWith(r, q)
  <2>1. ~(p.useful /\ ~trouble /\ p.faults = 0)
    BY <1>1, <1>5 DEF Recoverable
  <2>2. Ordered(q)
    BY <1>2, <1>3 DEF Ordered, Running
  <2>3. /\ q.faults = p.faults /\ q.alone = p.alone /\ q.useful = p.useful /\ q.op = p.op
        /\ q.prev = p.prev
    BY <1>3 DEF SameBut
  <2>4. QED
    BY <1>1, <1>3, <1>4, <1>7, <2>1, <2>2, <2>3, FailureKeeps
<1>8. QED
  BY <1>1, <1>3, <1>6, <1>7 DEF Reset

LEMMA StoreKeeps ==
  ASSUME AccessInv, NEW r \in Requests, Store(r)
  PROVE  AccessInv'
<1>1. PICK p \in Records : p = req[r] /\ Holds(p) /\ p.step = "store"
  BY RequestIsKnown DEF Store, At
<1>2. PICK row \in {"active", "inactive"} :
        /\ row = IF p.op = "deactivate" THEN "inactive" ELSE "active"
        /\ \/ /\ pg' = row
              /\ Becomes(r, Goes(p, "done"))
              /\ trouble' = (trouble /\ ~p.alone)
           \/ /\ pg' \in {pg, row}
              /\ FailsWith(r, IF p.op = "create" /\ p.prev = "active" THEN Goes(p, "failed")
                              ELSE Undone(p))
  BY <1>1 DEF Store
<1>3. /\ p.step \in Running /\ claim' \in BOOLEAN /\ profile' \in Profiles
      /\ pg \in {"none", "active", "inactive"} /\ pg' \in {"none", "active", "inactive"}
      /\ trouble \in BOOLEAN /\ UNCHANGED <<claim, profile>>
  BY <1>1, <1>2, RequestIsKnown DEF Store, Running
<1>4. Ordered(p) /\ (p.alone \/ ~trouble => Passed(p)) /\ (~trouble => Recoverable(p))
  BY <1>1, <1>3 DEF Holds
<1>5. "done" \in Running \cup Ended /\ "failed" \in Running \cup Ended
      /\ "done" \notin Running /\ "failed" \notin Running
  BY DEF Running, Ended
<1>6. CASE pg' = row /\ Becomes(r, Goes(p, "done")) /\ trouble' = (trouble /\ ~p.alone)
  <2>1. PICK q \in Records : Becomes(r, q) /\ q.step = "done" /\ q.alone = p.alone
    BY <1>5, <1>6, GoesChangesTheStep DEF SameBut
  <2>2. Holds(q)' /\ q.step \in Ended
    BY <1>5, <2>1 DEF Holds
  <2>3. ~trouble' => Whole'
    BY <1>1, <1>2, <1>3, <1>4, <1>6 DEF Ordered, Passed, Whole, Open, Shut, Running
  <2>4. trouble' \in BOOLEAN /\ (trouble => trouble' \/ (q.alone /\ q.step \in Ended))
    BY <1>6, <2>1, <2>2 DEF Records
  <2>5. QED
    BY <1>1, <1>3, <2>1, <2>2, <2>3, <2>4, RequestGoesOn
<1>7. CASE FailsWith(r, IF p.op = "create" /\ p.prev = "active" THEN Goes(p, "failed")
                        ELSE Undone(p))
  <2>1. CASE p.op = "create" /\ p.prev = "active"
    <3>1. PICK q \in Records : q = Goes(p, "failed") /\ SameBut(q, p) /\ q.step = "failed"
      BY <1>5, GoesChangesTheStep
    <3>2. ~(p.useful /\ ~trouble /\ p.faults = 0)
      BY <1>1, <1>4, <2>1 DEF Recoverable, Ordered
    <3>3. Ordered(q)
      BY <1>5, <3>1 DEF Ordered
    <3>4. /\ q.faults = p.faults /\ q.alone = p.alone /\ q.useful = p.useful /\ q.op = p.op
          /\ q.prev = p.prev /\ FailsWith(r, q)
      BY <1>7, <2>1, <3>1 DEF SameBut
    <3>5. QED
      BY <1>1, <1>3, <3>1, <3>2, <3>3, <3>4, FailureKeeps
  <2>2. CASE ~(p.op = "create" /\ p.prev = "active")
    <3>1. PICK q \in Records :
            /\ q = Undone(p) /\ SameBut(q, p) /\ q.step = "read" /\ q.undoing
            /\ q.call = IF p.op = "deactivate" THEN "provision" ELSE "revoke"
      BY UndoneTurnsRound
    <3>2. Ordered(q)
      BY <3>1 DEF Ordered, SameBut
    <3>3. /\ q.faults = p.faults /\ q.alone = p.alone /\ q.useful = p.useful /\ q.op = p.op
          /\ q.prev = p.prev /\ FailsWith(r, q)
      BY <1>7, <2>2, <3>1 DEF SameBut
    <3>4. QED
      BY <1>1, <1>3, <3>1, <3>2, <3>3, FailureKeeps
  <2>3. QED
    BY <2>1, <2>2
<1>8. QED
  BY <1>2, <1>6, <1>7

-------------------------------------------------------------------------------
LEMMA StepKeepsAccessInv == AccessInv /\ [Next]_vars => AccessInv'
<1> SUFFICES ASSUME AccessInv, [Next]_vars PROVE AccessInv'
  OBVIOUS
<1>1. ASSUME NEW r \in Requests, Provisioner(r)
      PROVE  AccessInv'
  BY <1>1, ReadKeeps, GrantClaimKeeps, OpenProfileKeeps, CloseProfileKeeps, DropClaimKeeps,
     PutBackProfileKeeps, PutBackClaimKeeps DEF Provisioner
<1>2. ASSUME NEW r \in Requests, Serve(r)
      PROVE  AccessInv'
  BY <1>1, <1>2, LookKeeps, StoreKeeps, ResetKeeps, DieKeeps DEF Serve
<1>3. ASSUME NEW r \in Requests, NEW op \in Ops, Start(r, op)
      PROVE  AccessInv'
  BY <1>3, StartKeeps
<1>4. CASE UNCHANGED vars
  BY <1>4 DEF vars, systems, AccessInv, TypeOK, Apart, Holds, Ordered, Passed, Recoverable, Whole,
     Quiet, Open, Shut
<1>5. QED
  BY <1>2, <1>3, <1>4 DEF Next

LEMMA AccessInvAlwaysHolds == Spec => []AccessInv
BY AccessInvHoldsAtFirst, StepKeepsAccessInv, PTL DEF Spec

\* When no request is being served, the broker has all of the access or none,
\* unless since the last success requests overlapped, died, or failed in a way
\* the undoing is not made for.
THEOREM UndoingIsEnough == Spec => []AccessIsWhole
<1>1. AccessInv => AccessIsWhole
  BY DEF AccessInv, AccessIsWhole, Whole
<1>2. QED
  BY <1>1, AccessInvAlwaysHolds, PTL

LEMMA StepOfSuccess ==
  AccessInv /\ [Next]_vars =>
    [\A r \in Requests :
          At(r, "store") /\ req[r].alone /\ req'[r].step = "done" =>
              IF req[r].op = "deactivate" THEN pg' = "inactive" /\ Shut'
              ELSE pg' = "active" /\ Open']_vars
<1> SUFFICES ASSUME AccessInv, Next, NEW r \in Requests,
                    At(r, "store"), req[r].alone, req'[r].step = "done"
             PROVE  IF req[r].op = "deactivate" THEN pg' = "inactive" /\ Shut'
                    ELSE pg' = "active" /\ Open'
  OBVIOUS
<1>1. PICK p \in Records : p = req[r] /\ p.step = "store" /\ Ordered(p) /\ Passed(p)
  BY RequestIsKnown DEF Holds, At, Running
<1>2. ASSUME NEW s \in Requests \ {r}
      PROVE  ~Serve(s) /\ \A op \in Ops : ~Start(s, op)
  <2>1. req[s].step \notin Running
    BY <1>1 DEF AccessInv, Apart, Running
  <2>2. ~Serve(s)
    BY <2>1 DEF Serve, Look, Store, Reset, Die, Provisioner, Read, GrantClaim, OpenProfile,
       CloseProfile, DropClaim, PutBackProfile, PutBackClaim, Calling, At, Running
  <2>3. ASSUME NEW op \in Ops, Start(s, op)
        PROVE  FALSE
    <3>1. req'[r] = [req[r] EXCEPT !.alone = FALSE]
      BY <2>3 DEF Start
    <3>2. req'[r].step = "store"
      BY <1>1, <3>1 DEF Records
    <3>3. QED
      BY <3>2
  <2>4. QED
    BY <2>2, <2>3
<1>3. Serve(r)
  <2>1. \A op \in Ops : ~Start(r, op)
    BY <1>1 DEF Start, Ended
  <2>2. QED
    BY <1>2, <2>1 DEF Next
<1>4. Store(r)
  <2>1. ~Die(r)
    <3>1. ASSUME Die(r)
          PROVE  req'[r].step = "dead"
      <4>1. "dead" \in Running \cup Ended
        BY DEF Ended
      <4>2. req'[r] = Goes(p, "dead")
        BY <1>1, <3>1 DEF Die, Becomes, AccessInv, TypeOK
      <4>3. QED
        BY <4>1, <4>2, GoesChangesTheStep
    <3>2. QED
      BY <3>1
  <2>2. QED
    BY <1>1, <1>3, <2>1 DEF Serve, Look, Reset, Provisioner, Read, GrantClaim, OpenProfile,
       CloseProfile, DropClaim, PutBackProfile, PutBackClaim, Calling, At
<1>5. pg' = IF p.op = "deactivate" THEN "inactive" ELSE "active"
  <2>1. ASSUME NEW f \in Records, f.step # "done", FailsWith(r, f)
        PROVE  FALSE
    <3>1. req'[r] = [f EXCEPT !.faults = @ + 1]
      BY <2>1 DEF FailsWith, Becomes, AccessInv, TypeOK
    <3>2. req'[r].step = f.step
      BY <3>1 DEF Records
    <3>3. QED
      BY <2>1, <3>2
  <2>2. /\ Goes(p, "failed") \in Records /\ Goes(p, "failed").step # "done"
        /\ Undone(p) \in Records /\ Undone(p).step # "done"
    <3>1. "failed" \in Running \cup Ended
      BY DEF Ended
    <3>2. QED
      BY <3>1, GoesChangesTheStep, UndoneTurnsRound
  <2>3. QED
    BY <1>1, <1>4, <2>1, <2>2 DEF Store
<1>6. UNCHANGED <<claim, profile>>
  BY <1>4 DEF Store
<1>7. p.call = IF p.op = "deactivate" THEN "revoke" ELSE "provision"
  BY <1>1 DEF Ordered, Running
<1>8. QED
  BY <1>1, <1>5, <1>6, <1>7 DEF Passed, Open, Shut

\* A request that ran alone and is answered with 200 left the row and both gates
\* as it was asked to.
THEOREM SuccessLeavesItWhole == Spec => SuccessIsWhole
BY AccessInvAlwaysHolds, StepOfSuccess, PTL DEF Spec, SuccessIsWhole

-------------------------------------------------------------------------------
(***************************************************************************)
(* The provisioning script.                                                *)
(***************************************************************************)
Uids == 1..created
Steps == {"delete", "clear", "signup", "update", "verify", "map", "profile", "probe"} \cup Ends

\* A uid is given once; rows, claims and documents may keep one whose account
\* is gone.
ScriptTypes ==
    /\ created \in Nat /\ database \in BOOLEAN
    /\ account \in [Emails -> Uids \cup {0}]
    /\ mapped \in [SalesRows -> Uids \cup {0}]
    /\ granted \subseteq Uids /\ documents \subseteq Uids
    /\ script \in [mode : {"provision", "reprovision"}, email : Emails, row : SalesRows,
                   old : Uids \cup {0}, uid : Uids \cup {0}, step : Steps, bare : BOOLEAN,
                   runs : Nat]

Reprovisions == script.mode = "reprovision"

Stands(steps) == script.step \in steps

\* Steps a run of each kind takes.
OrderHolds ==
    /\ Reprovisions => script.old # 0 /\ ~Stands({"verify", "probe"})
    /\ ~Reprovisions => ~Stands({"delete", "clear"})

\* The account that is replaced is gone first, then its document; the account of
\* the run was made after, or is that of another email, and so is not the old one.
OldIsGone ==
    Reprovisions =>
        /\ Stands({"clear", "signup", "update", "profile", "map", "ok"}) => ~Live(script.old)
        /\ Stands({"signup", "update", "profile", "map", "ok"}) => script.old \notin documents

\* The run's account is there from the sign-up on, with the claim from the update on.
AccountIsThere ==
    /\ Stands({"update", "verify", "map", "profile", "probe", "ok"}) =>
          script.uid # 0 /\ account[script.email] = script.uid
    /\ Stands({"verify", "map", "profile", "probe", "ok"}) => script.uid \in granted

\* The document is written last but the probe, or last but the row.
DocumentIsWritten ==
    /\ Stands({"ok"}) \/ Stands({"probe"}) \/ (Reprovisions /\ Stands({"map"})) =>
          script.bare \/ script.uid \in documents
    /\ Reprovisions /\ Stands({"map"}) => ~script.bare

RowHasAccount ==
    \/ ~Reprovisions /\ Stands({"profile", "probe", "ok"})
    \/ Reprovisions /\ Stands({"ok"}) /\ ~script.bare
    => \A n \in SalesRows : mapped[n] = script.uid <=> n = script.row

ScriptInv ==
    ScriptTypes /\ OrderHolds /\ OldIsGone /\ AccountIsThere /\ DocumentIsWritten /\ RowHasAccount

\* A run that has not begun claims nothing.
LEMMA ScriptInvHoldsAtFirst == InitScript => ScriptInv
<1> SUFFICES ASSUME InitScript
             PROVE  ScriptInv
  OBVIOUS
<1>1. PICK e \in Emails, n \in SalesRows :
        script = [mode |-> "provision", email |-> e, row |-> n, old |-> 0, uid |-> 0,
                  step |-> "failed", bare |-> FALSE, runs |-> 0]
  BY SomebodyIsNamed DEF InitScript, NoScript
<1>2. ScriptTypes
  <2>1. 0 \in Uids \cup {0} /\ 0 \in Nat /\ "failed" \in Steps /\ FALSE \in BOOLEAN
    BY DEF Steps, Ends
  <2>2. script \in [mode : {"provision", "reprovision"}, email : Emails, row : SalesRows,
                    old : Uids \cup {0}, uid : Uids \cup {0}, step : Steps, bare : BOOLEAN,
                    runs : Nat]
    BY <1>1, <2>1, Zenon
  <2>3. QED
    BY <2>2 DEF InitScript, ScriptTypes
<1>3. QED
  BY <1>1, <1>2 DEF ScriptInv, OrderHolds, OldIsGone, AccountIsThere, DocumentIsWritten,
     RowHasAccount, Reprovisions, Stands

\* A run begins.
LEMMA BeginningKeeps ==
  ASSUME ScriptInv, NEW e \in Emails, NEW n \in SalesRows,
         RunProvision(e, n) \/ \E u \in 1..created : RunReprovision(e, n, u)
  PROVE  ScriptInv'
<1> DEFINE Begun(mode, step, u) ==
             [mode |-> mode, email |-> e, row |-> n, old |-> u, uid |-> 0,
              step |-> step, bare |-> FALSE, runs |-> script.runs + 1]
<1>1. PICK mode \in {"provision", "reprovision"}, step \in {"signup", "delete"}, u \in 0..created :
        /\ script' = Begun(mode, step, u)
        /\ IF mode = "provision" THEN step = "signup" ELSE step = "delete" /\ u # 0
  <2>1. CASE RunProvision(e, n)
    <3>1. script' = Begun("provision", "signup", 0)
      BY <2>1 DEF RunProvision, NoScript
    <3>2. 0 \in 0..created
      BY DEF ScriptInv, ScriptTypes
    <3> HIDE DEF Begun
    <3>3. QED
      BY <3>1, <3>2
  <2>2. ASSUME NEW u \in 1..created, RunReprovision(e, n, u)
        PROVE  u \in 0..created /\ u # 0 /\ script' = Begun("reprovision", "delete", u)
    <3>1. script' = Begun("reprovision", "delete", u)
      BY <2>2 DEF RunReprovision, NoScript
    <3>2. u \in 0..created /\ u # 0
      BY DEF ScriptInv, ScriptTypes
    <3>3. QED
      BY <3>1, <3>2
  <2> HIDE DEF Begun
  <2>3. QED
    BY <2>1, <2>2
<1>2. UNCHANGED <<cloud, mapped>>
  BY DEF RunProvision, RunReprovision
<1>3. ScriptTypes'
  <2>1. /\ script.runs + 1 \in Nat /\ u \in Uids \cup {0} /\ 0 \in Uids \cup {0}
        /\ step \in Steps /\ FALSE \in BOOLEAN
    BY DEF Steps, ScriptInv, ScriptTypes, Uids
  <2>2. script' \in [mode : {"provision", "reprovision"}, email : Emails, row : SalesRows,
                     old : Uids \cup {0}, uid : Uids \cup {0}, step : Steps, bare : BOOLEAN,
                     runs : Nat]
    BY <1>1, <2>1, Zenon
  <2>3. QED
    BY <1>2, <2>2 DEF cloud, ScriptInv, ScriptTypes, Uids
<1>4. QED
  BY <1>1, <1>3 DEF ScriptInv, OrderHolds, OldIsGone, AccountIsThere, DocumentIsWritten,
     RowHasAccount, Reprovisions, Stands

\* The account a reprovision replaces is deleted with its claim, then its document.
LEMMA DeletionKeeps ==
  ASSUME ScriptInv, DeleteAccount \/ DeleteProfile
  PROVE  ScriptInv'
<1> USE DEF ScriptInv, ScriptTypes, OrderHolds, OldIsGone, AccountIsThere, DocumentIsWritten,
            RowHasAccount, Reprovisions, Stands, Live, Steps, Ends, Uids, Moves, Following
<1>1. CASE DeleteAccount
  BY <1>1 DEF DeleteAccount
<1>2. CASE DeleteProfile
  BY <1>2 DEF DeleteProfile
<1>3. QED
  BY <1>1, <1>2

\* The account is signed up, or is there already; it is not the one that is gone.
LEMMA SignUpKeeps ==
  ASSUME ScriptInv, SignUp
  PROVE  ScriptInv'
<1> DEFINE uid == IF account[script.email] # 0 THEN account[script.email] ELSE created + 1
<1>1. script.email \in Emails /\ account[script.email] \in 0..created /\ created \in Nat
  BY DEF ScriptInv, ScriptTypes, Uids
<1>2. /\ script.step = "signup" /\ UNCHANGED <<granted, documents, database, mapped>>
      /\ script' = [script EXCEPT !.uid = uid, !.step = "update"]
      /\ created' \in {created, created + 1} /\ uid \in 1..created'
      /\ \A e \in Emails : account'[e] = IF e = script.email THEN uid ELSE account[e]
      /\ account' \in [Emails -> (1..created') \cup {0}]
  <2>1. script.step = "signup" /\ Following("signup") = "update"
    BY DEF SignUp, Following, ScriptInv, ScriptTypes
  <2>2. account \in [Emails -> (1..created) \cup {0}]
    BY DEF ScriptInv, ScriptTypes, Uids
  <2>3. CASE account[script.email] # 0
    <3>1. /\ created' = created /\ account' = account /\ uid = account[script.email]
          /\ UNCHANGED <<granted, documents, database, mapped>>
          /\ script' = [script EXCEPT !.uid = account[script.email], !.step = Following("signup")]
      BY <2>3 DEF SignUp
    <3>2. account' \in [Emails -> (1..created') \cup {0}] /\ uid \in 1..created'
      BY <1>1, <2>2, <2>3, <3>1
    <3> HIDE DEF uid
    <3>3. QED
      BY <2>1, <2>3, <3>1, <3>2
  <2>4. CASE account[script.email] = 0
    <3>1. /\ created' = created + 1 /\ account' = [account EXCEPT ![script.email] = created + 1]
          /\ UNCHANGED <<granted, documents, database, mapped>>
          /\ script' = [script EXCEPT !.uid = created + 1, !.step = Following("signup")]
      BY <2>4 DEF SignUp
    <3>2. uid = created + 1 /\ uid \in 1..created'
      BY <1>1, <2>4, <3>1
    <3> HIDE DEF uid
    <3>3. /\ account' \in [Emails -> (1..created') \cup {0}]
          /\ \A e \in Emails : account'[e] = IF e = script.email THEN uid ELSE account[e]
      BY <1>1, <2>2, <3>1, <3>2
    <3>4. QED
      BY <2>1, <3>1, <3>2, <3>3
  <2>5. QED
    BY <2>3, <2>4
<1>3. ScriptTypes'
  <2>1. uid \in Uids' \cup {0} /\ script.old \in Uids' \cup {0} /\ Uids \subseteq Uids' /\ created' \in Nat
    BY <1>1, <1>2 DEF ScriptInv, ScriptTypes, Uids
  <2> HIDE DEF uid
  <2>2. /\ account' \in [Emails -> Uids' \cup {0}] /\ mapped' \in [SalesRows -> Uids' \cup {0}]
        /\ granted' \subseteq Uids' /\ documents' \subseteq Uids'
    BY <1>2, <2>1 DEF ScriptInv, ScriptTypes, Uids
  <2>3. script' \in [mode : {"provision", "reprovision"}, email : Emails, row : SalesRows,
                     old : Uids' \cup {0}, uid : Uids' \cup {0}, step : Steps, bare : BOOLEAN,
                     runs : Nat]
    BY <1>2, <2>1 DEF ScriptInv, ScriptTypes, Steps
  <2>4. QED
    BY <1>2, <2>1, <2>2, <2>3 DEF ScriptInv, ScriptTypes
<1>4. Reprovisions => ~(Live(script.old)')
  BY <1>1, <1>2 DEF ScriptInv, ScriptTypes, OrderHolds, OldIsGone, Reprovisions, Stands, Live, Uids
<1>5. account'[script'.email] = uid /\ script'.uid = uid /\ script'.step = "update"
  BY <1>1, <1>2 DEF ScriptInv, ScriptTypes
<1>6. QED
  BY <1>2, <1>3, <1>4, <1>5 DEF ScriptInv, ScriptTypes, OrderHolds, OldIsGone, AccountIsThere,
     DocumentIsWritten, RowHasAccount, Reprovisions, Stands

\* The claim is given and read back.
LEMMA ClaimKeeps ==
  ASSUME ScriptInv, UpdateAccount \/ VerifyClaim
  PROVE  ScriptInv'
<1> USE DEF ScriptInv, ScriptTypes, OrderHolds, OldIsGone, AccountIsThere, DocumentIsWritten,
            RowHasAccount, Reprovisions, Stands, Live, Steps, Ends, Uids, Moves, Following
<1>1. CASE UpdateAccount
  BY <1>1 DEF UpdateAccount
<1>2. CASE VerifyClaim
  BY <1>2 DEF VerifyClaim, cloud
<1>3. QED
  BY <1>1, <1>2

\* The row is mapped, or another row has the account; a document is written, or
\* there is no database.
LEMMA RecordKeeps ==
  ASSUME ScriptInv, MapUid \/ WriteProfile
  PROVE  ScriptInv'
<1>1. CASE MapUid
  BY <1>1 DEF MapUid, cloud, ScriptInv, ScriptTypes, OrderHolds, OldIsGone, AccountIsThere,
     DocumentIsWritten, RowHasAccount, Reprovisions, Stands, Live, Steps, Ends, Uids, Moves, Following
<1>2. CASE WriteProfile
  <2>1. /\ script.step = "profile" /\ UNCHANGED <<account, granted, database, created, mapped>>
        /\ script.uid \in Uids /\ documents' \subseteq Uids
        /\ documents' = IF database THEN documents \cup {script.uid} ELSE documents
    BY <1>2 DEF WriteProfile, ScriptInv, ScriptTypes, AccountIsThere, Stands, Uids
  <2>2. PICK step \in {"map", "probe", "ok"} :
          /\ script' = [script EXCEPT !.bare = ~database, !.step = step]
          /\ step = "map" => Reprovisions /\ database
          /\ step = "probe" => ~Reprovisions
          /\ step = "ok" => Reprovisions /\ ~database
    BY <1>2, <2>1 DEF WriteProfile, Following, Reprovisions, ScriptInv, ScriptTypes
  <2>3. /\ script'.step = step /\ script'.bare = ~database /\ script'.mode = script.mode
        /\ script'.email = script.email /\ script'.row = script.row /\ script'.uid = script.uid
        /\ script'.old = script.old
    BY <2>2 DEF ScriptInv, ScriptTypes
  <2>4. ScriptTypes'
    BY <2>1, <2>2 DEF ScriptInv, ScriptTypes, Steps, Ends, Uids
  <2>5. OrderHolds' /\ OldIsGone'
    <3>1. Reprovisions => ~Live(script.old) /\ script.old # script.uid
      BY <2>1 DEF ScriptInv, OldIsGone, AccountIsThere, Stands, Live, ScriptTypes
    <3>2. Reprovisions => script.old \notin documents /\ script.old # 0
      BY <2>1 DEF ScriptInv, OldIsGone, OrderHolds, Stands
    <3>3. QED
      BY <2>1, <2>2, <2>3, <3>1, <3>2 DEF OrderHolds, OldIsGone, Stands, Live, Reprovisions
  <2>6. AccountIsThere' /\ DocumentIsWritten'
    <3>1. script.uid # 0 /\ account[script.email] = script.uid /\ script.uid \in granted
      BY <2>1 DEF ScriptInv, AccountIsThere, Stands
    <3>2. AccountIsThere'
      BY <2>1, <2>3, <3>1 DEF AccountIsThere
    <3>3. ~database \/ script.uid \in documents'
      BY <2>1
    <3>4. DocumentIsWritten'
      BY <2>2, <2>3, <3>3 DEF DocumentIsWritten, Stands, Reprovisions
    <3>5. QED
      BY <3>2, <3>4
  <2>7. RowHasAccount'
    BY <2>1, <2>2, <2>3 DEF ScriptInv, RowHasAccount, Stands, Reprovisions
  <2>8. QED
    BY <2>4, <2>5, <2>6, <2>7 DEF ScriptInv
<1>3. QED
  BY <1>1, <1>2

\* Steps that write nothing, and the operator.
LEMMA RestKeeps ==
  ASSUME ScriptInv, ProbeDatabases \/ Fail \/ CreateDatabase \/ UNCHANGED scriptVars
  PROVE  ScriptInv'
<1> USE DEF ScriptInv, ScriptTypes, OrderHolds, OldIsGone, AccountIsThere, DocumentIsWritten,
            RowHasAccount, Reprovisions, Stands, Live, Steps, Ends, Uids, Moves, Following, cloud
<1>1. CASE ProbeDatabases
  BY <1>1 DEF ProbeDatabases
<1>2. CASE Fail
  BY <1>2 DEF Fail
<1>3. CASE CreateDatabase
  BY <1>3 DEF CreateDatabase
<1>4. CASE UNCHANGED scriptVars
  BY <1>4 DEF scriptVars
<1>5. QED
  BY <1>1, <1>2, <1>3, <1>4

LEMMA ScriptInvIsInductive == ScriptInv /\ [NextScript]_scriptVars => ScriptInv'
BY BeginningKeeps, DeletionKeeps, SignUpKeeps, ClaimKeeps, RecordKeeps, RestKeeps DEF NextScript

\* A run that exits with 0 left the configured email with a live account that has
\* the claim, its row and a document, and nothing of the account it replaced, for
\* any emails and rows and however many runs failed before it.
THEOREM SuccessIsUsable == SpecScript => []ExitZeroIsUsable
<1>1. ScriptInv => ExitZeroIsUsable
  BY DEF ScriptInv, ScriptTypes, OldIsGone, AccountIsThere, DocumentIsWritten, RowHasAccount,
     Reprovisions, Stands, ExitZeroIsUsable
<1>2. QED
  BY <1>1, ScriptInvHoldsAtFirst, ScriptInvIsInductive, PTL DEF SpecScript
===============================================================================
