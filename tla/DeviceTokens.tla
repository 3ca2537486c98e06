------------------------------ MODULE DeviceTokens ------------------------------
(***************************************************************************)
(* The push tokens of brokers and customers: a registration inserts its    *)
(* row and evicts the oldest rows of its identity under an advisory lock,  *)
(* a push resolves the enabled tokens, sends to each once within a budget, *)
(* and disables the tokens the push service calls dead.                    *)
(*                                                                         *)
(* now() is the begin of a transaction, and a registration begins before   *)
(* it waits for the lock: beginning and the locked body are two actions.   *)
(***************************************************************************)
EXTENDS Naturals, FiniteSets

CONSTANTS
    Identities,  \* firebase uids of staff, subjects of customers
    Tokens,      \* registration tokens
    MaxTokens,   \* MAX_TOKENS_PER_IDENTITY
    Requests     \* requests and their background tasks

ASSUME MaxTokensIsPositive == MaxTokens \in Nat \ {0}

VARIABLES
    device,  \* identity, token -> its row; seen 0 before there is one
    now,     \* transactions begun
    req      \* request -> what it does and how far it got

Idle == [kind |-> "idle"]
At(r, kind, step) == req[r].kind = kind /\ req[r].step = step
Becomes(r, next) == req' = [req EXCEPT ![r] = next]
Ends(r) == Becomes(r, Idle)

Enabled(i, rows) == {t \in Tokens : rows[<<i, t>>].on}

\* The limit newest of a set of tokens, by last_seen_at.
Newest(S, i, rows, limit) ==
    {t \in S : Cardinality({u \in S : rows[<<i, u>>].seen > rows[<<i, t>>].seen}) < limit}

\* Faulty: one row too many is kept.
RetainedMore(i, t, rows) == {t} \cup Newest(Enabled(i, rows), i, rows, MaxTokens + 1)

\* The fresh row is kept wherever its last_seen_at puts it.
Retained(i, t, rows) == {t} \cup Newest(Enabled(i, rows), i, rows, MaxTokens)

BeginRegister(r, i, t) ==
    /\ now' = now + 1
    /\ Becomes(r, [kind |-> "register", step |-> "lock", who |-> i, token |-> t, time |-> now + 1])
    /\ UNCHANGED device

\* The transaction body: the advisory lock makes it one step for other
\* registrations, which see its rows once it committed.
Register(r) ==
    /\ At(r, "register", "lock")
    /\ LET i == req[r].who
           t == req[r].token
           rows == [device EXCEPT ![<<i, t>>] = [on |-> TRUE, seen |-> req[r].time]]
           kept == Retained(i, t, rows)
       IN device' = [x \in DOMAIN rows |->
                       IF x[1] = i /\ rows[x].on /\ x[2] \notin kept
                       THEN [on |-> FALSE, seen |-> 0] ELSE rows[x]]
    /\ Ends(r)
    /\ UNCHANGED now

\* Only the caller's own row of the token.
RemoveToken(i, t) ==
    /\ device' = [device EXCEPT ![<<i, t>>].on = FALSE]
    /\ UNCHANGED <<now, req>>

\* The tokens are resolved before the response, the sends run after it.
BeginPush(r, i) ==
    /\ Enabled(i, device) # {}
    /\ Becomes(r, [kind |-> "push", step |-> "send", left |-> Enabled(i, device), dead |-> {}])
    /\ UNCHANGED <<device, now>>

\* One attempt for each token; a token that is called dead is to be pruned.
Send(r, t) ==
    /\ At(r, "push", "send") /\ t \in req[r].left
    /\ \E dead \in {{}, {t}} :
          req' = [req EXCEPT ![r].left = @ \ {t}, ![r].dead = @ \cup dead]
    /\ UNCHANGED <<device, now>>

\* A dead token is disabled for every identity; that may fail.
Prune(r, t) ==
    /\ At(r, "push", "send") /\ t \in req[r].dead
    /\ \/ device' = [x \in DOMAIN device |->
                       IF x[2] = t THEN [device[x] EXCEPT !.on = FALSE] ELSE device[x]]
       \/ UNCHANGED device
    /\ req' = [req EXCEPT ![r].dead = @ \ {t}]
    /\ UNCHANGED now

\* Everything is sent, or the budget of the fan-out is over and cancels the rest.
EndPush(r) ==
    /\ At(r, "push", "send")
    /\ Ends(r)
    /\ UNCHANGED <<device, now>>

-------------------------------------------------------------------------------
\* Registrations that overlap leave an identity with at most one token above
\* the cap: the row of one that began early and got the lock late is kept
\* beside the newest ones.
TokensAreCapped == \A i \in Identities : Cardinality(Enabled(i, device)) <= MaxTokens + 1

===============================================================================
