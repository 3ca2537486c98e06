# A TLA+ development of the real-estate chatbot backend

The repository is a chatbot for apartment projects: a FastAPI backend (`src/api`)
over PostgreSQL and Firestore, a React client (`src/apps/web`), offline ingest
(`src/ingest`), operator scripts (`src/scripts`) and SQL migrations (`src/db`).
Customers ask questions without an account, a bounded number of times; those who
leave a phone number become leads that are routed to brokers; admins manage brokers
and re-engage lost customers. What a language model says is not deterministic, and
here it may say anything. What is stated and checked is everything around it: who
pays for a turn, what an answer may claim, who owns a lead, what the realtime copy
shows, whose history a session is, who has access, what is in the corpus.

## Inventory

| Component | State | Operations | Hard behaviour | What makes it correct |
| --- | --- | --- | --- | --- |
| Turn quota (`postgres_quota.py`, `quota_service.py`, `query_quota_gate.py`) | `anon_quota` rows, `quota_reservations`, `identity_links`, `quota_grant_audit` | consume, finalize, refund, bonus, grant, link, purge | turns race for the last slot; lost finalize or refund; a link while turns run | a counter counts the turns held or charged, a failed turn is given back, the allowance is never passed, the bonus is paid once |
| Entry of `POST /query` (`main.create_app`, `deps/admin.py`, `anon_identity.py`, `anon_routes.py`) | `ip_rate_limit` windows or a dictionary of the process | authorize, preflight, scope, gate, JSON answer | two verifications of one bearer, a store that fails at any call, neighbours of an address | nobody passes unpaid, nobody refused pays, no window admits more than its limit |
| SSE stream (`main._sse_stream`, `token_coalescer.py`) | queue, pipeline task, deadline, `turn_released`, reservation | emit, forward, flush, time out, disconnect, settle | callbacks and cancellation at any await | the answer a client got and the settlement of its turn agree; a client that stays is answered |
| Conversation (`conv_state.py`, `conv_slots.py`, `conv_workflow.py`) | LRU of contexts with a TTL | get, fill slots, redirect, hint, hand over | a context held across awaits and evicted | a phone that was given is not asked for again |
| Answer pipeline (`workflow.py`, `sql_leg.py`, `rag_leg.py`, `merge.py`, `guard_*.py`, `image_search.py`) | one workflow context | guard, route, three legs, merge, generate, verify, audit | legs end in any order, fail or time out; a model that invents | a claim rests on a row of the project in force; high confidence is earned; every run ends |
| Lead intake and routing (`lead_service.py`, `postgres_leads.py`, `lead.py`, `sales.py`) | `leads`, `sales`, `sales_assignment_log` | insert, assign, called, no_answer, callback, booked, lost, expire | stale reads, two routing transactions, crashes between statements | a broker gets a lead once, only the owner acts on it, a hand-over is logged, expired means everyone was tried |
| CRM, call-started push (`crm_customer_service.py`, `crm_routes.py`, `call_started_notification.py`) | the same rows, `call_started_notified_at` | set status, stamp, push | three ways to announce a call: a broker's action, the CRM, the tel link | the customer is told once |
| Lead mirror (`lead_mirror_service.py`, `lead_mirror_reconciliation.py`) | `mirror_status`, Firestore documents, the sweep's batch | push, mark, sweep | lost, repeated and reordered pushes; crashes | a difference is never forgotten; documents converge |
| Chat history (`postgres_chat_history.py`, `sessions.py`) | `chat_sessions`, `chat_messages` | append, bind, hand over, re-key, sweep, read, page | one session id presented by several callers; retries; reads in two statements | messages stay with their owner and are counted right; a transcript is its reader's; a walk skips nothing that stood still |
| Re-engagement (`reengage_workflow.py`, `firestore_reengage_queue_store.py`) | queue documents, consent columns | match, save, cancel | counts and consent read long before they are used | attempts per customer; nobody is eligible after withdrawing |
| Phone reveal (`phone_reveal_rate_limit.py`, `phone_reveal_audit.py`) | windows of the process, audit rows | check, reveal, record | check and record separated by awaits | no number without its record |
| Notifications and device tokens (`postgres_sales_notifications.py`, `postgres_fcm_tokens.py`, `firebase_fcm.py`) | read marks, tokens | page, mark, register, remove, push, prune | a filter after the page was cut, overlapping registrations | no lead skipped, read stays read, a cap of tokens |
| Broker access (`admin_routes.py`, `firebase_sales_provisioner.py`, `scripts/provision_sales_user.py`) | `sales.is_active`, role claim, Firestore profile | create, activate, deactivate, compensations; provision, reprovision, probe | three systems without a transaction, lost replies | all of the access or none; exit code 0 is an account that works |
| Corpus (`ingest/load.py`, `images_ingest.py`, `scripts/reembed_embeddings.py`) | registry, chunks, facts, LightRAG vectors, captions, checkpoint | load, retire, describe, migrate | an index written after the commit; a migration beside loads, cut off and run again | a visible chunk has the text of the current version, an ingested document is indexed, facts hang on the chunk they were found in, a finished migration is complete |
| Web client, evaluation, deployment, shipped documents | - | - | - | - |

How they interact: `POST /query` passes its entry, reserves a turn (gate -> ledger),
runs a pipeline in a task, streams its events and settles the turn (stream -> ledger),
and stores the turn (stream -> history). The pipeline reads the corpus; the
conversation wraps it. `POST /lead` inserts and routes a lead (intake -> board), pushes
its document (board -> mirror), hands the session over (intake -> history), pays the
bonus (intake -> ledger) and marks the conversation (intake -> context). `/sales` and
`/crm` change the lead and push it again. Linking a device to an account re-keys ledger
and history in one transaction. PROJECT.json lists every component with its status, and
every hazard at its line.

## Modules

| Module | Models | State and actions against the code |
| --- | --- | --- |
| `TurnLedger` | what a turn quota promises | turns are held, then charged or released once, and never above a limit that only rises; the abstract specification of `QuotaRecordStore` |
| `AnonQuota` | the quota tables and the requests that use them | `quota`, `slot`, `link`, `audit` are the four tables, `turn` the request. Each store function is one action because it is one SQL transaction whose first statement locks the row; `link_identity_atomically` reads rows it does not lock and is two (`StartLink`, `CommitLink`). `FinalizeLost`, `RefundLost`, `Cancel`, `Abandon` are what happens between two calls |
| `SseStream` | one stream of `POST /query` | `pipe` is the control state of `run_pipe`, `gen` that of the generator; a store call has a start, a commit and a return so that a cancellation can fall between them |
| `QueryEntry` (extends `SseStream`) | the request around that stream | `entry.step` follows the handler from its dependency to its response; `window` holds the two counters of the address, `Neighbour` and `NextWindow` are what else happens to them. Behind the gate the presented credentials and the windows are forgotten: nothing reads them again |
| `Conversation` | contexts of conversations | `heap` holds the context objects, `cache` maps keys to them; a turn gets an object, awaits, and writes to the object it got |
| `StructuredQuery` | the SQL leg as operators | validation of a proposed spec, the rows the SQL selects and the exact filter on them, the affordability and estimate paths; `Collation` is the order the database gives to names |
| `Imagery` | the image pass as operators | vector, unit and board passes with their windows and limits |
| `AnswerPipeline` (extends both) | one run of the workflow | a step of the workflow is an action; the router may ask for places that the question does not name (`route.geo`); the three legs end in any order, each may fail or be late; a model returns any claim, real or invented |
| `LeadCustody` | what the board promises about who holds a lead | a lead is offered, passed over or declared exhausted, and each of the three records who had it; the abstract specification of `assign_lead` and its callers |
| `LeadBoard` | the life of a lead in PostgreSQL | an SQL statement is an action; a request reads (`Act`, `Crm`), writes (`Write`, `CrmWrite`) and logs (`WriteLog`); a routing transaction picks (`Begin`) and commits (`Commit`) |
| `LeadMirror` | the Firestore copy | a row is its version; `sync` is a running `sync_lead_mirror_after_commit`, `sweep` the batch of the reconciliation loop |
| `ChatHistory` | sessions and messages | an append is one transaction whose upsert locks the session row; a training turn reads first and is two actions |
| `Transcripts` (extends it) | reads of that history | a statement is an action; a transcript is found by one and read by the next; the walk over the training pages keeps its cursor |
| `DeviceTokens` | FCM registrations and pushes | a registration begins (its `now()`) and then does its body under the lock |
| `CustomerDesk` (extends it) | staff around a customer | runs, withdrawals, reveals, pages and marks; each SQL statement and each Firestore call is an action |
| `SalesAccess` | one broker in three systems | every remote call is an action, can fail, and can fail after it was applied; `After` is how the admin request goes on |
| `Provisioning` | the provisioning script | a run is a chain of remote calls; `Fail` ends it at any of them, applied or not |
| `Corpus` | documents, facts, vectors and captions | a load is a transaction (`Replace`, with or without `preserve_seed_facts`), then a delete and an insert in LightRAG; a row is an id and a text, which are set apart, so that a vector can be of another text than its row's; `replaced` is the history of the loads that took the seeds; `run` is the migration with its plan, batches and checkpoint |
| `MC*` | small instances | constants; `MCSalesAccess` also lets a behaviour be one of the admin API or one of the script, which share no state |
| `*_proofs` | theorems | see below |

Every definition that models code is mapped to its lines in PROJECT.json. Operators
introduced by "Faulty:" are plausible bugs of that code; no specification uses
them. Each property is shown to fail when a definition is replaced by one of them.

Data is abstracted to what the properties tell apart: a message is the turn and role
that wrote it, a question the flags the code reads of it, a lead document its version, a
text the document, version and position it is the text of and the facts it has tokens for,
amounts small numbers, a phone
nothing at all. Time is abstracted to what may happen: a reservation may be old enough to
be purged, a deadline may pass, a session may be idle long enough to be swept. The first
conjunct `TypeOK` (`PipelineTypeOK`, `ConvTypeOK`) of one property of each module is its
type invariant.

## Runs

Passing runs (all properties hold in every reachable state):

- `quota_ledger`: one device, four turns, cap 1, bonus 1, one grant of one or two
  turns. Four turns are one more than cap, bonus and half a grant admit, so every
  refusal and every class of allowance occurs, with lost replies, cancelled tasks,
  late refunds and purges at every point. `UsedCountsTurns`, `NoOverspending`,
  `FailedTurnIsGivenBack`, `GrantsAreNotMultiplied`, and the ledger implements
  `TurnLedger` (`ImplementsLedger`).
- `quota_link`: two devices, two users, two turns, every order of links:
  `BonusIsOneTime`, `LinkMovesUsage`.
- `sse_stream`: one request, its two windows with a limit of two queries and one
  identity, and up to three events, a client that may leave, a deadline that may pass at
  any await, failing store calls, a cancelled teardown. `AnswerIsWhole` and
  `AccessIsPaidFor` relate what the client got to what became of its turn, as a stream
  and as JSON; `ClosedIsSettled` says that the teardown settles; `ClientIsAnswered` that
  a hanging pipeline is not a hanging client. Three events are a token queued behind
  another and a terminal event behind both; two queries are the least where a neighbour
  takes all but one.
- `conversation`: two turns at a time of a client with a session and one without, a
  cache of one context, two requests for the phone, three kinds of question, two
  projects, four turns. One place is the least where a context is evicted while it is
  held. `AskedSparingly`, `PhoneIsKept`.
- `answer`: five facts, two offers, four estimates, three chunks and a few images of two
  projects, of which some are drafts, expired or ranges; questions of every kind and a
  model that may propose a filter of every form. `AnswerRestsOnItsProject`,
  `HighIsEarned`, `EveryRunEnds`.
- `lead_board`: one lead, three brokers (one may be deactivated, one is preferred),
  three requests: `RoutedOnceEach`, `ExpiredMeansTried`, `CallIsAnnouncedOnce`,
  `FormerOwnersAreInert`, and the refinement of `LeadCustody` (`ImplementsCustody`).
  Three brokers are the least with a hand-over and a choice; three requests cover every pair that races plus a third
  that profits from it. `Act`, `Crm` and the tel link (`CallStarted`) lead to
  `Announce`, each with its own read before it.
- `mirror`: lead `l1` is never accepted by Firestore and has one version, lead `l2` has
  three; two workers whose pushes overlap and may die, and the sweep.
  `NothingIsForgotten` and `Converges` except for a lead that went astray: the history
  variable `astray` is set when a lead changes while an older row of it is pushed, or
  when the worker of a broker action dies before its push.
- `chat_history`: two session ids, two devices, an account, two brokers, two projects,
  two questions, up to three turns, a hand-over, a link, sweeps and a reader; `load`
  says in the initial state what a behaviour may consist of, so that parts that do not
  meet do not multiply. `GuardedTurnsAreOwned`, `QuestionIsStoredOnce` (only attempts
  that read at the same time store a question twice, and the count is exact),
  `TranscriptIsTheReaders`, `WalkIsComplete`.
- `desk`: two customers, four leads of which one is inserted later, two brokers, three
  projects, two requests, a page of one, one reveal per window, one token per identity
  and four operations of one kind of shift. `OptOutHolds`, `AttemptsAreCapped`,
  `RevealsAreAccounted`, `WalkIsComplete`, `TokensAreCapped`, `ReadsOnlyDeepen`. Every
  limit is one so that two overlapping requests are already too many.
- `corpus`: two documents that may both have the one key of facts. The first was loaded
  with three sections before the model changed and has a seeded fact that its own driver
  preserves and the ingest of a directory deletes; it is loaded again with one section,
  the second with one or two. Two loaders, an image with two captions, batches of two and
  three operations: two loads, with or without the seeds, beside a migration that is cut
  off and run again. Three old texts are the least with two batches of which one can have
  its vectors exchanged. `VisibleIsCurrent` (chunks in the registry, and the texts of the
  vectors that it lets through, are of the newest version), `IngestedIsIndexed`,
  `FactsAreAnchored` (facts against the tokens of the texts, in both directions, and the
  seeds), `MigrationIsComplete`.
- `access`: two workers whose requests for one broker may overlap, three failing calls
  in each request, of which some were applied, and workers that die; and three runs of
  the provisioning script over two emails and two rows. `SuccessIsWhole` (a request
  that ran alone and answered 200 left row, claim and profile as it asked, whatever
  went wrong before it), `AccessIsWhole` (one failing call is undone),
  `ExitZeroIsUsable`. The history variable `trouble` and the fields `alone` and `useful`
  of a request say to which requests the first two apply.

A violation: the run checks one sentence of the repository, and TLC finds a behaviour of
the code that contradicts it; PROJECT.json "findings" quotes the sentence.

- `chat_owner`: a customer turn is stored in the session of another device.

Bounds are constants of the instances: the sets of turns, requests, leads, brokers and
sessions, `MaxEvents`, `MaxTick`, `MaxFaults`, `Batch`, `MaxVersion` (a number of
versions for each lead), `MaxTurns`, `MaxMoves`, `MaxRuns`, `MaxUid`, `Loads`, `Shifts`.
`CHECK_DEADLOCK FALSE` is set where every request can be over.

## What the code does not do

Met while modelling; the properties above are stated so that these are not claimed.

- Quota: a link deletes the row of the device although a turn may have been counted on
  it since the link read it (`postgres_quota.py:208-224`), and turns that run across a
  link are settled under a key that has no row, so a refund of one is lost.
  `quota_service.py:303` says that linking changes no quota state. A turn paid from a
  grant lowers `granted_turns` and raises `used_turns` as well (`postgres_quota.py:47-57`),
  so a grant of n turns admits fewer than n; the request id of a grant is unique over all
  users (`postgres_quota.py:246`). A purge gives back answered turns whose finalize was
  lost; it has no caller outside the tests, nor has `grant_turns`.
- Entry: a verified caller without a role is a customer to `deps/admin.py:157` and
  anonymous to the gate. A bearer that expires between the two verifications makes a
  training turn one of an anonymous identity. The limiter of the process does not count
  denied attempts, the one in the table does. The gate passes the address as it is; one
  that is no IP fails the upsert and is a 503. A store failure while a customer reserves
  is not caught and is a 500; a lost reply of any reserve leaves the turn held, and so
  does a JSON request that is cancelled (`main.py:1207`).
- Stream: at the deadline only the head of the queue is looked at: a finished answer
  behind a queued event becomes a timeout error and its turn is charged
  (`main.py:596-613`).
- Conversation: slots are merged from a copy, which resets `last_answer_reviewed` of a
  turn in between (`conv_slots.py:177-187`). A context that is evicted or two hours old
  takes the phone with it. Clients without a session share the context "anon".
- Answers: SQL written by a model is not bound to the project, and the day only to the
  first use of a table (`nl2sql_guard.py:154`). `between` on facts does not need a
  `fact_key`. Filters on subject and policy drop range facts; LIMIT cuts before the
  exact filter; half-open ranges match in the filter and not in the SQL. An ordering of a
  name over a range row raises and the leg is degraded. Estimates that stand in fill the
  facts after the frame of facts was sent. A run that its history rejects is not
  audited, and an audit that fails is only logged.
- Leads: a lead stays `new` when its worker dies between the insert and the routing
  (`lead_service.py:200`), and `called` by PATCH is only passed on for leads that have no
  owner (`sales.py:233`). A broker action that read the lead before another request
  closed it opens it again (`lead_service.py:345`). The CRM update repeats no status
  predicate (`postgres_leads.py:725-753`). Two leads routed at once get the same broker.
  Leads of a broker who is disabled stay with that broker.
- Mirror: a push of an older row marks the lead done (`lead_mirror_service.py:148`), and a
  worker of a broker action that dies before its push leaves no mark: the sweep never
  repairs either. A sweep whose batch is full of rejected leads reaches no other lead.
- Chat: a training question is stored twice when two attempts read before either writes
  (`postgres_chat_history.py:459`), where the comment at `postgres_chat_history.py:440-443`
  says that a turn is never duplicated. A turn in flight when its device is linked stores its
  session under the key of the device; the sessions of a customer who is linked or signed
  in carry the key of the account, which `GET /sessions` compares with the subject of the
  token, so they are not listed any more. `persist_global_turn` and the reads of the
  global assistant have no route. A session that is swept and taken again by another
  device between the check of a hand-over and its mark is handed to the lead of the first
  (`postgres_chat_history.py:323`); the history variable `missed` takes it out of
  `TranscriptIsTheReaders`. The claims of a lead (session, device) are not verified.
- Desk: overlapping reveals pass the limit by as many (`crm_routes.py:342`); so do
  overlapping runs the cap of attempts, where `reengage_workflow.py:44-46` says "never
  matched again", and overlapping registrations the cap of tokens, which the comment at
  `postgres_fcm_tokens.py:25-29` says can never be exceeded. The unread view filters a page
  after it was cut (`sales_notification_service.py:157`); the walk is without that filter.
  Counts and cancels read one page of 300 documents.
  Consent withdrawn between the load and the save of a run still queues. Nothing in the
  API sets `consent_marketing` to true. Pruning may disable a token that was registered
  again meanwhile.
- Access: activating a broker that is active already, with one failing call, resets the
  row and not the rest (`admin_routes.py:310-313`). Overlapping admin requests, lost
  replies and dead workers leave row, claim and profile split until the next request
  that succeeds. `reprovision` without a Firestore database exits with 0 and leaves the
  row mapped to the deleted account.
- Corpus: a failed delete in LightRAG is not tried again and overlapping loads leave
  orphans, which the registry join hides; a document that is loaded again after the model
  changed leaves old rows that the migration copies back, hidden in the same way. A
  failed insert leaves a version unindexed although the report of a directory says
  success. A directory ingest of a document with seeded facts deletes them
  (`load.py:257`, `load.py:441`); only its own driver keeps them. A stale image vector is
  not renewed: the row of the old hash stays, `ON
  CONFLICT DO NOTHING` keeps the old model's, and a checkpoint skips the image.

## Fairness

- `QueryEntry`: weak fairness of the generator (the event loop runs a ready task) and
  of the clock. Nothing is assumed of the pipeline, which may hang, nor of the client.
- `AnswerPipeline`: weak fairness of the steps of a run. Every leg, model call and read
  has a budget, after which it fails, and the workflow a time limit of 180 seconds, so
  that a step is always taken in the end.
- `LeadMirror`: weak fairness of the steps of a push and of the sweep, which loops for
  ever with a sleep; strong fairness of the acceptance of a document that is pushed
  again and again and is not one that is always rejected, and of marking it.

The other modules state safety only: their requests may die at every step.

## Proofs

`AnonQuota_proofs`, checked by TLAPS for every value of the constants that the named
assumptions of `AnonQuota` allow:

- `TypeCorrect`: `Spec => []TypeOK`, links included.
- `BonusIsAddedOnce`: `BonusIsOneTime`, links included. The invariant `BonusInv` says
  of every row, and of every row an open link has read, that its bonus is at most one
  `Bonus` and is zero unless the flag is set; a merge takes the larger of two bonuses
  and the disjunction of two flags, so it keeps it.
- Under `Linkable = {}` (no device is linked; across a link the claims are false, see
  above): `CountersAreExact`, `PhasesAreConsistent`, `FailuresAreRefunded`,
  `AllowanceIsRespected`. The counters alone are not inductive: `LedgerInv` adds that an
  open reservation points to the account that counts its turn and that the phase of the
  request and the row of the reservation agree. `CountAdds` and `CountRemoves` are the
  two facts about cardinalities that every operation reduces to; a purge releases a set
  at once.
- `TheLedgerIsImplemented`, under `Linkable = {}` too: `ImplementsLedger`, step by step.
  The mapped ledger holds the open rows and charges the spent turns (`SlotHolds`,
  `FinalizeCharges`, `RefundReleases`); a limit stays while a granted turn moves from the
  granted to the spent ones (`LimitGivesBack`); a purge gives back all that the account
  held, because no row is at zero while it has an open reservation (`PurgeGivesBackAll`).
  `MapInv` adds what the mapping needs: a new turn has no account, and the payer of a
  turn is the account of its slot.
- `GrantsAreSpentOnce`, under `Linkable = {}`: `GrantsAreNotMultiplied`. What an account
  holds or spent of grants (`GrantHeld`) is its limit less cap and bonus, so it stays in
  every step that the refinement shows to leave the limit; `GrantIsApplied` is about the
  sum over the audit rows. `GrantInv` also says that finitely many requests were applied,
  without which the sum has no meaning.
- `LinkingMovesUsage`, links included: the action property `LinkMovesUsage`, under
  `KeysAreFinite` (devices, users and projects are finitely many). `UsageInv` says that a
  row that is not in the table counts nothing, because a merge skips it;
  `TotalStaysWhenMerged` goes through the projects one by one.

The sums of the last two are recursive functions (`SumFunctionOnSet`). The library's
induction theorems cannot be used, but induction over a *set* of numbers can be derived
from well-foundedness (`SetInduction`, `SubsetInduction`); from it follow that the sum
exists, that the order of adding does not matter (`SumsSplit`) and what moving a value
from one element to another does (`TotalStaysWhenMoved`).

`QueryEntry_proofs`, under the assumption that the limits are positive, for any number of
events and windows:

- `AnsweredMeansPaid`: `AccessIsPaidFor`, and `ClosedStreamsAreSettled`: `ClosedIsSettled`.
  Their invariant `RequestInv` has four parts. `StreamInv` says where a turn can stand at
  each step of task and generator: before the ack nothing has happened (`Beginning`);
  what the task reports is what it asked the store for (`Asking`); while the generator
  forwards, only the task settles, and a terminal event is queued after that
  (`Forwarding`); once a terminal frame was sent, the flag is up and the task has ended,
  so that nothing touches the turn any more (`Told`); and a raised flag means a settled
  turn, unless the store failed (`Settling`). The property alone is not inductive: it
  speaks of frames that were sent, and a frame is right because of what the queue held
  before. `TurnFits` says the same of the steps of the handler, `WindowsHold` that no
  more are let through than are counted, nor than the limit.
- `AnswersAreWhole`: `AnswerIsWhole`. `WholeInv` says that, while the generator forwards,
  what the frames carry, then the tokens held back, then the events of the queue are the
  events of the pipeline in their order (`Flowing`), and that a terminal event can only be
  the last of the queue; so the frame of `__done__` finds nothing left behind it
  (`Answered`). `Carried` is defined by recursion over the frames: the least number for
  which a claim fails takes the place of an induction (`CarryExists`, `CarryAgrees`), and
  `CarriedByAppend` is what the steps then use.
- `TurnIsATurnOfTheLedger`: `ImplementsLedger`, the refinement of `TurnLedger` by one
  request, whose account has one turn. `TurnMoves` lists what a step may do to the turn:
  nothing, take it, settle it. Only `Reserve` takes it, and `TurnFits` says that there is
  none before; everything else that touches it goes through `Settled`, which does nothing to
  a turn that is settled already (`SettlingMoves`). So the task and the teardown, which may
  both ask the store, cannot settle twice or differently. `AnonQuota` implements the same
  module from the side of the store. No run lists this refinement; TLC agreed with it on
  the instance of `sse_stream`.

The same module holds the theorems of `Conversation`, for any callers and questions, any
finite set of turns at a time and any positive capacity of the cache:

- `PhonesAreAskedSparingly`: `AskedSparingly`; `PhonesAreKept`: the action property
  `PhoneIsKept`. They share `TalkInv`: in every context the requests made are those that
  are counted, the turns since the last are those the context notes, and a given phone means
  a conversation handed over (`SoundContexts`); a turn that waits for the model copied
  nothing that its context does not have, so writing the copy back gives no phone away or
  back (`TurnHolds`, `MergingImproves`). A new context never takes an id that the cache or
  a turn refers to; that one is free is a count (`SomeIdIsFree`). Between two awaits a turn
  looks its context up more than once; `Keeping` says that a key that is cached and not old
  gets no second one, so that at most one context is dropped by a step.

`LeadMirror_proofs`, for any leads, requests, versions and size of the batch:

- `DifferencesAreRemembered`: `NothingIsForgotten`, with `TypeOK`. A push that is dropped
  leaves no trace, so `MirrorInv` adds, of a lead that did not go astray: a push of it
  carries the row (`CarriesTheRow`), what was accepted is the row (`AcceptedIsTheRow`),
  and a push that is not the broker board's finds the status stale or the document right
  already (`NotNeeded`), which is why losing it loses nothing.

`LeadBoard_proofs`, for any leads, brokers, priorities, requests and preferred broker,
where `Nobody` is no request and no broker, the admin is no broker, and ranks are distinct
numbers:

- `NobodyIsRoutedTwice`: `RoutedOnceEach`; `HandOversLeaveATrace`: `HandOversAreLogged`, a
  part of the invariant;
  `ExpiryComesLast`: `ExpiredMeansTried`; `CallsAreAnnouncedOnce`: `CallIsAnnouncedOnce`;
  `FormerOwnersStayInert`: the action property `FormerOwnersAreInert`. They share
  `BoardInv`. A routing transaction picks a broker and commits later; that the one picked
  is still untried (`DecisionsHold`) holds because the row lock keeps every other step
  from the route of that lead, and the owner who asked for the hand-over is still the
  owner for the same reason. A log row names a broker who had the lead (`LogsHold`), so a
  request that is about to log did the write as the owner (`RequestsHold`), and a lead
  whose intake has not routed it has no route (`RoutesHold`). That every pick is defined
  is a lemma (`LeastRecent`): stamps and ranks are numbers.
- `CustodyIsImplemented`: the refinement of `LeadCustody`. The holder is the owner of the
  row, who gave the lead up is who logged a no_answer, and a lead is exhausted once its log
  says so. In every state the brokers who had the lead, in the sense of `LeadCustody`, are
  those of its route (`HadIsTheRoute`); a commit records all of them (`CommitRecords`), so
  it is an `Offer`, a `PassOver` or an `Exhaust`, by who was picked and who held the lead
  (`CommitIsCustody`), and every other step leaves the three as they are.
- `WhoGaveUpHoldsNoLead`: `HolderWants` of `LeadCustody`, an invariant of the custody alone,
  which the board inherits by the refinement: who logged a no_answer and still owns the
  lead owns one that ran out of brokers.

`SalesAccess_proofs`, for any finite set of requests and any bound on failing calls, and
for any emails and rows that are not empty sets and any number of runs of the script:

- `UndoingIsEnough`: `AccessIsWhole`; `SuccessLeavesItWhole`: the action property
  `SuccessIsWhole`. Whether access is whole is known only when nobody is served, so
  `AccessInv` says what holds in between: requests that overlap know of it (`Apart`); a
  request makes the call that its operation and its undoing ask for (`Ordered`); the gates
  stand as its writes left them (`Passed`), if it is alone; and where nothing went wrong
  but one call that was not applied, what the request read still tells the row, and what
  it takes back is what it did (`Recoverable`).
- `SuccessIsUsable`: `ExitZeroIsUsable`. `ScriptInv` says for each step of a run what the
  steps before it have established, by the order of the calls in each mode: the old
  account and document are gone (`OldIsGone`), the new one is there with its claim
  (`AccountIsThere`), a document was written (`DocumentIsWritten`), the row has the
  account (`RowHasAccount`). A uid is given once, so no later account is the old one.

`Transcripts_proofs`, for any sessions, devices, turns, leads and readers, any request
they may make and any size of a page. Turns and hand-overs are assumed to name sessions
that are among those modelled; sessions are finitely many.

- `GuardedTurnsStayOwned`: `GuardedTurnsAreOwned`; `QuestionsAreStoredOnce`:
  `QuestionIsStoredOnce`; each with and without the readers. `ChatInv` says of every
  message that its turn was stored in that session and is still bound to it
  (`MessagesHold`); a training turn between its statements is bound too (`Sound`), which
  needs that training sessions are neither swept nor handed over; a turn has compared its
  question with all that were stored when it read (`Compared`). A customer's turn is not
  in it: that claim is false (see above).
- `TranscriptsStayTheReaders`: `TranscriptIsTheReaders`. The messages are read by id one
  statement after the session was found; `ReadInv` says that the session found belongs to
  the reader until it is swept (`Belongs`), and of a lead that its mark was compared with
  what it claims (`ClaimsHold`). No statement changes whose a session is
  (`WritersKeepReaders`): each of them is shown to keep owner, project and kind.
- `WalksAreComplete`: `WalkIsComplete`. What was listed is at or above the cursor, what
  is still due is below (`WalkHolds`); a write moves a session above every cursor. A page
  is defined by counting the newer rows; `NewestAreAbove` derives from that its order, and
  that it is not empty, from facts about cardinalities.

`Corpus_proofs`, for any documents, versions, loaders, keys and sizes of batches, under
`CorpusBounds` (batches and documents are not empty) and `SeedsDiffer` (two seeded facts
never share a key: the table's exclusion constraint, `db/schema.sql:185`):

- `WhatIsShownIsCurrent`: `VisibleIsCurrent`; `IngestedStaysIndexed`: `IngestedIsIndexed`;
  `FactsStayAnchored`: `FactsAreAnchored`; `MigrationLeavesNothing`: `MigrationIsComplete`.
  They share `CorpusInv`, because loads and the migration write the same vectors. A vector
  that is shown has an id of the registry, and its text need not be that chunk's: that it
  is, follows from what is *held* anywhere, in the registry, the two tables of vectors, the
  rows a load has still to store and the rows of a run's plan (`Held`). All that is held is
  of a version the document has had, and no two texts are held under one id (`HeldHolds`);
  a load brings ids of a version that nothing held has yet (`ReplaceKeeps`), and the
  migration stores a vector with the item it was asked for (`RunHolds`). The registry has
  the newest version only (`RegistryHolds`), so the vectors a load has doomed are of older
  ones and deleting them late takes nothing that is shown (`DoomsTheOld`); the load that
  brought the current version has stored its vectors or still holds what it has to store
  (`BringsTheNew`). `FactsHold` says which fact a token has and which token a fact: the
  facts of a chunk go in the transaction that takes the chunk, whether seeds are preserved
  or not. What a checkpoint gives back to a resumed run has arrived in the table
  (`CheckpointHolds`); and a row of a plan is still to do, in the batch, arrived or counted
  as failed (`RunHolds`), which is what an exit without failures then means.

The same module holds the theorems of `AnswerPipeline`, for any questions, chunks, offers,
facts, pictures and proposals of the router, under `QuestionsAreTyped`, `ProposalsAreTyped`
(what the structured output of a model is parsed into), `LimitsAreNumbers`,
`EstimatesArePriced`, `ChunksAreFinite` and `InventedIsNoEvidence`:

- `AnswersRestOnTheirProject`: `AnswerRestsOnItsProject`; `HighStaysEarned`: `HighIsEarned`.
  They share `PipelineInv`. What is sent rests on the project because what was merged and
  found does, and an affordability route has the budget of the question (`Resting`,
  `BudgetIsTheirs`). Confidence is decided two steps after the legs, from what the merge
  kept of them: the flag of a leg that failed is among those that were merged, and evidence that is not approximate is what the legs found (`Honest`). The
  budget search returns the offer with the highest floor within reach; that it exists is
  `ReachIsWithin`.

`CustomerDesk_proofs`, for any customers, brokers, projects, devices and any finite sets of
leads and requests, under `RevealsAreLimited`, `LeadsAreNumbered`, `SizesArePositive` and
`MaxTokensIsPositive` (limits and page sizes are positive, leads are numbered in their order):

- `OptOutsHold`: `OptOutHolds`. An opt-out takes the consent of all rows of a customer in
  one statement and no later statement gives it back: intake writes a row without consent
  (`ConsentHolds`). Of a run it says that whoever it is about to save had not opted out
  when it read the leads; whom a withdrawal overtakes is not covered, by the code neither.
- `RevealsStayAccounted`: `RevealsAreAccounted`. The check of the window and the count in
  it are awaits apart, so the bound is not inductive by itself: `RevealsHold` counts the
  reveals in the window and the requests on their way together (`OnTheirWay`); each of
  those adds one when it counts, and leaves.
- `ReadingsOnlyDeepen`: `ReadsOnlyDeepen`, from `ReadTypes` and what the upsert of a mark
  keeps of an older reading (`MarkWrites`).

- `AttemptsStayCapped`: `AttemptsAreCapped`, if one list shows the whole queue (`QueueFits`;
  beyond a page of 300 documents the counts are too low and the claim is not made). A run
  counts the entries long before it saves one, so the cap alone is not inductive:
  `AttemptInv` counts a customer's entries and the runs that may still save one together
  (`Pending`). A run that starts finds the customer below the cap, and then all requests
  may be pending at most, or at the cap, and then it does not join them.
- `TokensStayCapped`: `TokensAreCapped`. An eviction keeps the newest `MaxTokens` rows and
  the fresh one. That the newest n are n at most (`NewestAreFew`) holds because no two rows
  were seen at the same time, which is `TokenInv`: `now()` is taken once by a registration,
  at its begin, so a registration that waits for the lock has a time that no row has and no
  other waits with (`TimesAreApart`, `WaitersAreApart`).
- `WalksAreComplete`: `WalkIsComplete`. `Cut` says of a walk that the cursor parts what was
  shown (at or above it) from what is owed (below it), and that without a cursor nothing was
  shown yet or nothing is owed any more. That a page keeps this needs three lemmas about
  `FirstOf`, which counts newer leads: a page is closed upwards, it is not empty, and one
  that is not full shows everything, so that reading one row more than a page tells whether
  there is a next one.

Only liveness is model-checked and not proved (`ClientIsAnswered`, `EveryRunEnds`,
`Converges`): the proof system has no rules for fairness. So is the claim a run finds
violated, of course: it is false.

## Not modelled, and why

Generated text, prompts, ranking and embeddings (any outcome is allowed instead);
request validation, wording and layout; token formats, signatures and key caches; reads
that only project rows; the removal of mirror documents of the old layout;
`bind_admin_sales_firebase_uid`, one UPDATE that a conflict refuses; the web client,
evaluation and deployment; the texts of the shipped documents (`soleil_docs.py`,
`camellia_docs.py`), which are data of the loader. Functions without a caller in the
source are left out: `_evict_expired`, `register_interest`, `resolve_global_project`,
`candidates_for`, `known_projects_payload`.

`Corpus` assumes one LightRAG workspace and does not inspect the result of a delete, as
the code does not; a load with an explicit project key goes to another workspace than one
by convention, and those two do not meet.

## Plan

Built in this order: the ledger with its proofs; stream, board, mirror, history and
access; conversation, answer, desk and corpus; the readers of the history, the
provisioning script and the entry of a request. `QueryEntry` and `AnonQuota` implement the
same `TurnLedger`, one from the side of the request and one from the side of the store. What
would come next: several requests of one account over the rows of `AnonQuota` in one
specification; an atomic access switch that `SalesAccess` implements while requests do not
overlap.
