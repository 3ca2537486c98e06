----------------------------- MODULE MCLeadMirror -----------------------------
(* Small instances of LeadMirror: documents meet only in the batches of    *)
(* the sweep, so few leads and versions show every order of two pushes.    *)
EXTENDS LeadMirror

CONSTANTS l1, l2, w1, w2

OneLead == {l1}
TwoLeads == {l1, l2}
TwoWorkers == {w1, w2}
NoLead == {}
First == {l1}
Three == [l \in OneLead |-> 3]
OneAndThree == [l \in TwoLeads |-> IF l = l1 THEN 1 ELSE 3]
===============================================================================
