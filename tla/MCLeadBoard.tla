------------------------------ MODULE MCLeadBoard ------------------------------
(* Small instances of LeadBoard.  Leads meet only in the brokers' stamps,  *)
(* so one lead shows every race on a row and two show every race of two    *)
(* routing decisions.                                                      *)
EXTENDS LeadBoard, TLC

CONSTANTS l1, l2, s1, s2, s3, r1, r2, r3

OneLead == {l1}
TwoLeads == {l1, l2}
OneRequest == {r1}
TwoRequests == {r1, r2}
ThreeRequests == {r1, r2, r3}
OneSales == {s1}
TwoSales == {s1, s2}
ThreeSales == {s1, s2, s3}
None == {}
RankTwo == (s1 :> 0) @@ (s2 :> 1)
RankThree == (s1 :> 0) @@ (s2 :> 1) @@ (s3 :> 2)

Board == {"board"} \X BoardActions
NoAnswerOnly == {<<"board", "no_answer">>}
PatchCalledOnly == {<<"patch", "called">>}
CalledOrBooked == {<<"board", "called">>, <<"board", "booked">>}
CrmAfterBooked == {<<"board", "booked">>, <<"crm", "callback_required">>}
Mixed == Board \cup {<<"patch", "called">>, <<"patch", "lost">>}
         \cup {<<"call", "started">>, <<"crm", "called">>, <<"crm", "callback_required">>, <<"crm", "booked">>}

RequestSymmetry == Permutations(Requests)
===============================================================================
