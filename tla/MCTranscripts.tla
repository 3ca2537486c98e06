------------------------------ MODULE MCTranscripts ------------------------------
(* One session id that everybody presents, in three turns that meet in every   *)
(* way; a second session beside it, with a request that reads; or a lead whose *)
(* conversation is read while its session is swept and taken again.           *)
EXTENDS Transcripts, TLC

CONSTANTS c1, c2, d1, d2, u1, b1, b2, p1, p2, q1, q2, t1, t2, t3, l1, r1, admin

What(kind, s, who, p, q) ==
    [kind |-> kind, session |-> s, who |-> who, project |-> p, question |-> q]

Customers == {What("customer", c1, d, p1, q1) : d \in {d1, d2}}
Global == {What("global", c1, d, "_global", q1) : d \in {d1, d2}}
Training == {What("training", c1, b1, p1, q) : q \in {q1, q2}}
            \cup {What("training", c1, b2, p1, q1), What("training", c1, b1, p2, q1)}
Everything == Customers \cup Global \cup Training

Written == Customers \cup {What("global", c1, d1, "_global", q1)}
           \cup {What("training", s, b1, p1, q1) : s \in {c1, c2}}

Read == {What(k, c1, d1, p1, q1) : k \in {"customer", "staff", "list", "hint"}}
        \cup {What("customer", c1, d2, p1, q1)}
        \cup {What(k, c1, u1, "_global", q1) : k \in {"global", "globals"}}
        \cup {What("training", c1, b, p1, q1) : b \in {b1, b2}}
        \cup {What("lead", l1, b1, p1, q1)}
        \cup {What("walk", c1, b1, p1, q1), What("walk", c1, admin, Nobody, q1)}

Anything == Everything \cup Written

Writing == [asked |-> Everything, wanted |-> {}, requests |-> 3]
Mixed == [asked |-> Written, wanted |-> Read, requests |-> 3]
Calling == [asked |-> Customers, wanted |-> {What("lead", l1, b1, p1, q1)}, requests |-> 4]
ThreeLoads == {Writing, Mixed, Calling}

Alike == Permutations(Turns)

Claimed == {[session |-> c1, device |-> d1, project |-> p] : p \in {p1, p2}}
===============================================================================
