------------------------------ MODULE LeadCustody ------------------------------
(***************************************************************************)
(* What the broker board promises about who holds a lead, without rows,    *)
(* locks, requests or transactions.                                        *)
(*                                                                         *)
(* A lead is offered to one broker.  Its holder may give it up: in that    *)
(* very step another broker, who never held it, holds it, or the lead is   *)
(* declared exhausted because no broker who is always there is left.       *)
(* Nobody else takes a lead away.  LeadBoard is shown to implement this    *)
(* module.                                                                 *)
(***************************************************************************)
CONSTANTS
    Leads,      \* ids of leads
    Brokers,    \* ids of brokers
    Steady,     \* the brokers who are always there
    Nobody      \* the holder of a lead before it is offered

VARIABLES
    holder,     \* lead -> the broker who holds it
    gaveUp,     \* lead -> the brokers known to have given it up
    exhausted   \* leads that were declared exhausted once

custodyVars == <<holder, gaveUp, exhausted>>

Had(l) == gaveUp[l] \cup ({holder[l]} \ {Nobody})

CustodyInit ==
    /\ holder = [l \in Leads |-> Nobody]
    /\ gaveUp = [l \in Leads |-> {}]
    /\ exhausted = {}

Offer(l, s) ==
    /\ Had(l) = {}
    /\ holder' = [holder EXCEPT ![l] = s]
    /\ UNCHANGED <<gaveUp, exhausted>>

\* Giving up and being recorded as having given up are one step.
PassOver(l, s) ==
    /\ holder[l] # Nobody
    /\ s \notin Had(l)
    /\ holder' = [holder EXCEPT ![l] = s]
    /\ gaveUp' = [gaveUp EXCEPT ![l] = Had(l)]
    /\ UNCHANGED exhausted

\* Nobody is left; the last holder, if any, stays on record.  An admin may
\* reopen the lead, so this may happen to it again.
Exhaust(l) ==
    /\ Steady \subseteq Had(l)
    /\ gaveUp' = [gaveUp EXCEPT ![l] = Had(l)]
    /\ exhausted' = exhausted \cup {l}
    /\ UNCHANGED holder

CustodyNext ==
    \/ \E l \in Leads, s \in Brokers : Offer(l, s) \/ PassOver(l, s)
    \/ \E l \in Leads : Exhaust(l)

CustodySpec == CustodyInit /\ [][CustodyNext]_custodyVars

\* Who gave a lead up and holds it still is its last holder, and the lead was
\* exhausted: a lead is not left with a broker who gave it up for any other reason.
HolderWants == \A l \in Leads : holder[l] \in gaveUp[l] => l \in exhausted
===============================================================================
