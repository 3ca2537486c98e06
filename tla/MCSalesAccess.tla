----------------------------- MODULE MCSalesAccess -----------------------------
(* Small instances of SalesAccess and of Provisioning.  A worker serves one    *)
(* request after the other for ever; two workers show every overlap of two     *)
(* requests.  A behaviour is of the admin requests or of the script: the model *)
(* of each has the systems they share as its own variables.                    *)
EXTENDS SalesAccess, Provisioning

CONSTANTS r1, r2, e1, e2, n1, n2

VARIABLE part

TwoRequests == {r1, r2}

InitEither == Init /\ InitScript /\ part \in {"requests", "script"}

NextEither ==
    \/ part = "requests" /\ Next /\ UNCHANGED <<scriptVars, part>>
    \/ part = "script" /\ NextScript /\ UNCHANGED <<vars, part>>

SpecEither == InitEither /\ [][NextEither]_<<vars, scriptVars, part>>
===============================================================================
