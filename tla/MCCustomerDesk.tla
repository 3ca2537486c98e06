----------------------------- MODULE MCCustomerDesk -----------------------------
(* Two customers, the first with two leads that brokers own apart, three     *)
(* projects, two requests.    A behaviour starts operations of the kinds of  *)
(* one shift: kinds of different shifts share only rows none of them writes. *)
EXTENDS CustomerDesk, TLC

CONSTANTS c1, c2, s1, s2, p1, p2, p3, t1, t2, t3, i1, i2, r1, r2

TwoSales == {s1, s2}
ThreeProjects == {p1, p2, p3}
ThreeTokens == {t1, t2, t3}
TwoIdentities == {i1, i2}
TwoRequests == {r1, r2}
FourLeads == 1..4
ThreeLeads == 1..3
Owners == (1 :> c1) @@ (2 :> c1) @@ (3 :> c2) @@ (4 :> c1)
Bands == ({1, 2, 4} \X ThreeProjects) \cup {<<3, p1>>}
Ranks == [d \in {c1, c2} \X ThreeProjects |-> IF d[1] = c1 THEN 0 ELSE 1]

Offers == {"run", "withdraw", "assign", "status", "insert"}
Reveals == {"reveal", "assign"}
Reading == {"walk", "mark", "assign", "insert"}
Pushes == {"register", "remove", "push"}
AllShifts == {Offers, Reveals, Reading, Pushes}
PushShift == {Pushes}

Alike == Permutations(Requests) \cup Permutations(Sales) \cup Permutations({p2, p3})
===============================================================================
