# Uniplain: TLA+ models, model checks and proofs

Uniplain pulls orders and advertising metrics out of a merchant's platforms into one table of
*envelope rows*, restates a row when the platform corrects itself, and tells the customer about
the restatement by webhook. This directory holds TLA+ modules that model the parts of it where
the order of events decides what is true afterwards, TLC configurations that check them on small
instances, and TLAPS proofs that hold for every value of the constants.

Paths below are relative to `src/`; `M/` stands for `supabase/migrations/`.

Contents

1. Inventory of the system
2. What each module models
3. What each run checks, and what it shows
4. Bounds, and why they are enough
5. Fairness, and why the code justifies it
6. What is proved
7. What is only model-checked
8. Disagreements between the code and what is said of it
9. What is not modelled, and why
10. Plan
11. Running it

## 1. Inventory of the system

Three kinds of process act on one Postgres database. *Workers* (Cloudflare, `apps/api-edge`) serve
the API and run crons; the *web application* (`apps/web`, Next.js) serves people; *operators* run
`scripts/`. Workers and web never share memory: everything that two of them agree on is a row, and
nearly every rule about a row is a `security definer` function, a trigger or a constraint in
`M/`. So the concurrency of the system is: atomic database statements, interleaved with
multi-step programs that call them, any of which may stop between two calls.

| component | state | operations | interacts with |
|---|---|---|---|
| Connection leases and watermark: `M/20260908001000_scheduler.sql`, `M/20260913000100_ingest_watermark.sql`, `packages/store/src/scheduler.ts` | per connection: `claimed_at`, `claimed_by`, `last_backfill_at`, `ingest_checkpoint` | `due_connections`, `claim_connection`, `record_backfill` | the sweep calls all three |
| Scheduled sweep: `apps/api-edge/src/scheduled-ingest.ts` | a list, the watermark it read, the run in progress | `sweepDueConnections`, `pullOne` | scheduler store, connection store, the ingest run |
| Ingest run: `apps/api-edge/src/ingest.ts`, `packages/store/src/ingest.ts` | the pinned `until`, the last chunk read in full, counts | `runIngest`, `writeBatch` | connectors, the envelope writer |
| WooCommerce connector: `packages/connectors/src/sources/woocommerce` | chunk, stack of windows, page, ids seen | `runWooBackfill`, `fetchOrdersWindow`, `fetchOrdersPages` | the merchant's store, which is being edited |
| Loyverse connector | chunk, cursor, request budget | chunk walk, cursor walk | Loyverse's API |
| Envelope rows and outbox: `M/20260908001100_envelope_rows.sql`, `M/20260912000200_position.sql`, `M/20260912000300_ingest_entry_point.sql` | a row per key, with its restatement window; a `restatement_events` row per correction | `ingest_envelope_rows` (a page, one transaction), `upsert_envelope_row`, trigger `record_restatement` | ingest runs write, delivery and readers read |
| Webhook delivery: `M/20260908001200_webhook_delivery.sql`, `packages/webhooks`, `apps/api-edge/src/webhooks.ts` | per event: attempts, next attempt, lease, outcome; per drain: its batch | `due_restatement_events`, `deliverBatch`, `record_delivery`, `prune_restatement_events` | the customer's endpoint |
| Connecting a provider: `packages/oauth`, `apps/api-edge/src/oauth-connect.ts`, `connect.ts`, `apps/web/app/connections`, `M/20260913000400_oauth_pending.sql` | a pending row per flow, one context cookie per browser, a sealed credential per connection | start, return, redeem, exchange, insert; paste a credential | the provider, the vault, the browser |
| Membership, invitations, erasure: `M/20260908000900_signup.sql`, `M/20260913000600_membership_guards.sql`, `M/20260913000700_erasure.sql` | members and roles, invitations, the security trail | invite, withdraw, accept, change, remove, delete organisation | each other, inside transactions |
| API keys and metering: `M/20260908000800_api_key_verification.sql`, `M/20260911000200_credits_need_the_key.sql` | keys, credits of a period | verify, consume | every API request |
| Billing: `apps/web/app/api/stripe/webhook`, `apps/web/app/_billing`, `M/20260912000600_billing.sql` | a subscription row per organisation | the Stripe webhook; cancel, resume | Stripe, which repeats and reorders; the erasure, which trusts the row |
| Reading rows: `apps/api-edge/src/performance.ts`, `packages/store/src/performance.ts`, `cursor.ts` | none; a cursor in the caller's hand | keyset pages, each authenticated anew | rows written meanwhile; the key's end |

The hard behaviours, component by component, and what makes each component correct:

* **Leases and sweep.** A Worker may die between any two calls, and a call it sent may execute
  after it died. Two sweeps may overlap. The watermark is read before the claim is made. A run may
  fail partway, and its progress is kept. *Correct* means: two live sweeps never pull one
  connection; a lease is never freed by somebody who does not hold it; the watermark never moves
  back and never passes an order that was not read; the day is ticked off only for a complete run;
  and every connection that can be pulled is pulled again and again.
* **WooCommerce walk.** OFFSET paging over a set that is edited while it is read, ordered by a
  column of whole seconds whose ties the store breaks as it likes; windows halved when they cost too
  much; an end pinned to a second that is still running; headers a proxy strips; filters of which nobody
  knows whether they take in their ends. *Correct* means: an order behind the watermark is in the envelope
  in its present version, or its second was passed in one of few ways that can be named, and every run ends.
* **Outbox and delivery.** Drains overlap, crash, and lose the record of what they did; the endpoint
  answers slowly, wrongly or not at all; the prune runs meanwhile; and a full batch takes longer than its
  lease lasts, so drains that overlap on one event are a part of the design. *Correct* means: a claim never
  hands out an event that another drain has and has not outstayed; outcomes are true; a recorded delivery
  survives whatever an overlapping drain records; and every event is settled as long as its endpoint is active.
* **Envelope rows.** Runs may overlap (the operator's `POST /v1/ingest/run` takes no lease, and a call
  lands after its sender died); each page is a transaction that locks rows in the platform's order.
  A scheduled run reads only what was modified after the watermark, so what a stale page overwrites behind
  the watermark is not read again. *Correct* means: who replays the events holds the figures of the rows; the
  watermark leaves no row in an old version behind it but one an older page has overwritten; and a row of a
  source with a window becomes final, as long as it goes on being read.
* **Reading.** *Correct* means: pages neither skip nor repeat a row that is there throughout, and end.
* **OAuth.** A pending flow is redeemed once before the steps that can fail; two tabs share one cookie;
  every answer may be lost. *Correct* means: a code is presented once, no connection is filed
  under the account of another flow, and what the screen said is what happened.
* **Membership.** Policies on a statement's snapshot and triggers that count rows, at READ COMMITTED.
  *Correct* means: an organisation keeps an owner, owners fall only by owners, a link admits one
  person, the trail replays to the members, and an owner can erase the account.
* **Billing.** Duplicated, reordered and lost deliveries to a route that reads in one call and writes in
  another, in invocations that overlap and die between any two of their calls. *Correct* means: a write moves the
  row back only over what its invocation was not shown; the row is at the newest event once all are answered,
  unless such a write set it back; and an account is erased while Stripe collects only if the row cannot tell.

`PROJECT.json` lists the components with their status, and under `hazards` each place in the code
where one of these behaviours bites, with the properties that would notice.

The parts interact in one pipeline. `INGEST_CRON` starts a sweep; the sweep leases connections
(**IngestSweep**) in an order that rotates (**SweepRotation**); a leased connection is walked
(**WooWalk**); each page is upserted (**EnvelopeRows**), and an upsert that changes a metric appends to
the outbox; `DELIVER_CRON` starts drains that empty it (**WebhookDelivery**); customers page through the
rows (**PerformanceRead**). Beside it stand the accounts: how a connection comes to be
(**Connecting**), who may do what (**Membership**), and what they pay (**Billing**). The modules
cut the pipeline at its narrow places, and each states what it takes from its neighbour:

* IngestSweep abstracts a chunk read by the connector to "every instant of the chunk is covered";
  that a chunk read in full covers its span, and which seconds of it may be in doubt, is what WooWalk checks.
* WooWalk takes one run at a time; that two sweeps are not on one connection is what IngestSweep
  proves (`LeaseExclusion`). EnvelopeRows does without that: its runs overlap.
* SweepRotation takes one sweep a night and a lease that is over by the next; IngestSweep has the
  lease itself.
* WebhookDelivery's producer is the upsert of one row; EnvelopeRows has the many writers of many
  rows and takes the delivery of their events to be in order.
* PerformanceRead takes from EnvelopeRows that rows appear, are updated outside their key columns,
  and are never deleted.
* Membership's erasure takes "no live subscription" from Billing, which has the row that is asked.

Two components have an *abstract specification* of what they promise, which the detailed module is
checked, and proved, to implement under a refinement mapping (`ImplementsContract`):

* **PullContract**, implemented by IngestSweep: a pull of a connection begins only while nobody pulls
  it, only the pull in progress stores, and the watermark advances only over what is stored. The
  map takes the live sweeps that have a connection open (`Pullers`), `covered`, and `checkpoint`.
  Lists, leases, clocks, closes in flight and the deaths between them are what it hides.
* **OutboxContract**, implemented by WebhookDelivery: an endpoint takes an event only while it is
  queued, or while a drain has it that kept it past its claim (`late`); it is delivered only once taken, and
  that is not taken back; a dead letter is queued again only by such a late drain; and an event leaves only with an
  outcome. The map takes the status of each outbox row, `accepted` and `late`. Batches, leases, attempts,
  backoff and the two-statement failure are what it hides.

## 2. What each module models

### IngestSweep

State: the database clock `now`; the row of each connection (`condition`, `claimedAt`,
`claimedBy`, `lastBackfill`, `checkpoint`); `covered`, a ghost that says which instants of a
connection have all their orders in the envelope; and `sweep`, the local state of each invocation.

| action | code |
|---|---|
| `StartSweep` | `handleScheduled` and `due_connections` (`M/20260908001000_scheduler.sql:68-111`); `DueLists` has the whole `where`, `order by` and `limit` |
| `SkipConnection` | the two `continue`s before the claim (`scheduled-ingest.ts:138-168`) |
| `ReadWatermark` | `connections.read` (`:150-160`), *before* the claim |
| `ClaimGranted`, `ClaimRefused` | `claim_connection` (`scheduler.sql:120-145`), at any time after it was sent |
| `RunRefused`, `StartRun` | `runIngest` up to the pinned `until` (`ingest.ts:361-512`) |
| `PullChunk` | one chunk of `runWooBackfill`, read and written |
| `CompleteRun`, `FailRun` | the return of `runIngest`, and `IngestRunFailure` with the last chunk read in full |
| `RecordBackfill`, `RecordNotOwner`, `RecordRaises` | the three outcomes of `record_backfill` (`ingest_watermark.sql:114-188`) |
| `Die`, `Tick` | an uncaught store error or a crash; time, and the platform's wall clock |
| `Withdraw` | a connection is revoked, expires, or its workspace is deleted |

A call that is in flight outlives its sender: `Remains` keeps `claiming` and `closing` of a dead
sweep, and `Resume` ignores the answer.

Clocks. Every database function reads `now`. A Worker pins `until` to its own clock, which
is at most `Behind` behind `now` and at most `Ahead` ahead of it. `PullChunk` covers the instants *strictly before* `now`: an order may
still be modified within the present instant.

### WebhookDelivery

State: `metric`, one metric of one envelope row (`NoRow`, `Absent` for null, or a value); `outbox`,
a row per event; `active`, the endpoint; `accepted`, a ghost with the events the endpoint took; and
`worker`, a drain's batch, event in hand and answer. The history variable `late` collects each event whose
claim ran out while a drain still had it to do, until no drain has it any more (`Overstay`). Times are kept
as what is left of them (`wait`, `lease`, `keep`, `left`), so the state space is finite without a bound on
the clock.

| action | code |
|---|---|
| `Upsert` | `upsert_envelope_row` with its trigger (`M/20260912000200_position.sql:126-277`) |
| `Claim` | `due_restatement_events` (`webhook_delivery.sql:138-206`) |
| `Refuse`, `Post` | `safeParse` of the payload, then `send` (`delivery.ts:106-142`) |
| `RecordLost` | `record` throws; the drain goes on (`:144-153`) |
| `RecordSuccess` | the guarded update of `p_ok` (`webhook_delivery.sql:236-246`) |
| `FailureRead`, `FailureWrite` | the failure branch's *two* statements (`:248-271`), between which others may act |
| `Crash` | an invocation that is gone |
| `Prune` | `prune_restatement_events`, row by row (`:314-339`) |
| `Switch` | an endpoint disabled or enabled |
| `Tick` | time; a live drain is done with an event within `EventTime` |

`FailureWrite` has the two surprises of that statement: it updates by id alone, so it may act on an
event another drain settled meanwhile, and the constraint
`restatement_events_not_both_outcomes` refuses it when it would put a dead letter over a delivery.

### SweepRotation

State: which connections exist, `stamped` (those with a `last_backfill_at`, oldest first: the order
is all `due_connections` uses), `pulledToday`, `behind` (chunks between watermark and present),
and the list, budget and liveness of tonight's sweep. The actions are the outcomes one connection
of the list may have: `Decline` (skipped or refused before the first page), `Complete`,
`FailPartway`, `Killed` (the walk does not fit in what is left of the invocation, so no close is
sent); `NextDay` puts every watermark one chunk further behind.

### WooWalk

State: the store's clock in whole seconds, `stamp` (`date_modified` of each order), `stored` (orders
whose *present* version the envelope has), the `checkpoint`, and `walk`, the locals of the three
nested generators: the stack of windows `pending`, the budget, the page, what page 1 counted, the
ids `seen` and the `batch` in hand. `inclusive` says whether the store's `modified_after` and
`modified_before` take in their own second; it is fixed from the start, to any of the four readings. The history
variable `doubt` has the seconds the walk has passed without proof that it read them, and `loose` says that the
count of page 1 proves nothing about the window being read.

| action | code |
|---|---|
| `Modify`, `Trash`, `Tick` | the merchant's store (external): every edit stamps the order and makes our copy, stored or in hand, an old one |
| `StartRun`, `CloseChunk`, `CompleteRun` | `runIngest` and `runWooBackfill` with `wooBackfillChunks` |
| `Split`, `CloseWindow` | `bisect` (`client.ts:531-602`), depth first |
| `FirstPage`, `NextPage` | `fetchOrdersPages` (`:390-470`); page 1 comes with both pagination headers, with either, or with none |
| `WritePage` | the page's upsert, before the next page is asked for |
| `FailRun`, `Kill` | a failure that reports the last whole chunk; an invocation that reports nothing |

`PageOf` is what OFFSET paging may answer: `PageSize` of the selected orders after the first
`(n - 1) * PageSize` by stamp, ties broken anew for every request. `FailRun` is possible at every
step: besides a failed request or write it stands for each refusal of the walk (budget spent, one
second too large, headers missing, count short).

`doubt` grows in four places, each a way in which the code passes a second it has no proof of: `Modify` stamps an order
in a second the walk has passed, or in the window being read after it was counted (which makes the window loose);
`FirstPage` with several pages and no `X-WP-Total` leaves the window loose; and `Close` puts in doubt the whole of a loose
window, and of any other the ends that the store's filters leave out. A later window that asks for such a second,
and whose count holds, takes it out again.

### EnvelopeRows

State: `reported`, the platform's present version of each key; `rows`; `ahead`, the keys modified after the
watermark, which is all of the watermark that rows depend on; and `run`, per ingest run whether it is scheduled
or the operator's, its page, what is left to read, what was modified after the end it pinned (`later`), the age of its
`fetched_at`, what its open transaction has written and which of that leaves an event or is new (`shown`). Two
history variables are read by the properties only: `told`, the figure a consumer holds who saw the row when it
was inserted and replayed every event since; and `overwritten`, the keys whose row an older page has
replaced, until it is written in its present version again. Times are distances from now, so the clock has no bound.

| action | code |
|---|---|
| `Start` | `runIngest`: `fetched_at` and `until` pinned once. A scheduled run selects at least what was modified after the watermark, and more when it read the watermark before another run moved it (`ingest.ts:470,642,714`); `POST /v1/ingest/run` selects the span the operator names |
| `ReadPage` | a page as the platform answers it, and the call that writes it |
| `Complete`, `Record` | the return of a scheduled run, and `record_backfill`: the watermark becomes the pinned end |
| `Answer` | the report to the operator, which records nothing |
| `WriteRow` | one turn of the loop of `ingest_envelope_rows` (`ingest_entry_point.sql:98-135`): `upsert_envelope_row` under the row's lock |
| `Commit` | the end of that transaction: rows and the trigger's events appear together |
| `DeadlockVictim` | two calls that wait for each other; PostgreSQL rolls one back |
| `Fail` | a refused page, or a Worker that dies, with its call on the way (`landing`) or before a complete run is recorded |
| `RecordPart` | the part of both: the checkpoint of a scheduled run that failed, anything up to what it read and wrote |
| `Restate`, `Tick` | the platform (external), which takes the key out of the window of every scheduled run; time |

`Inserted` and `Updated` are the two branches of the upsert: the second replaces the figure, keeps
`restates_until`, and derives `is_provisional` from the kept window. `Restated` is the trigger's
`is distinct from`, judged at the upsert against the row it found.

### PerformanceRead

State: `table`, `keyState` and `lastUsed` of the API key, `client` (limit, cursor), and two ghosts:
the rows there when the first page was read, and how often each row was handed out.

| action | code |
|---|---|
| `Authenticate` | `createApiKeyAuthenticator` and `verify_api_key`, for every page |
| `ReadPage` | `createPerformanceStore.query`: the order, the keyset predicate (`AfterCursor`), `limit + 1`, PostgREST's cap, the boundary row |
| `PageLost` | an upstream error or a lost answer: the client asks with the cursor it has |
| `Insert`, `KeyEnds` | a run's new row; `revokeApiKey` or `expires_at` |

### Membership

The trail starts from what it cannot know: the trigger files an event for an update or a removal
(`M/20260913001600_wire_membership_trail.sql:102`), not for a join, so a replay takes the role a member joined with
from the row's insertion (`Join`).

Each call is a PostgreSQL transaction at READ COMMITTED, so each is several steps: `txn[u]` is
how far the transaction of user `u` is. A policy is judged on the snapshot its statement began with,
a trigger sees its own writes and what has been committed, a row lock lasts to the end, and
one of those that wait for each other is rolled back (`DeadlockVictim`).

| action | code |
|---|---|
| `Ask`, `Write`, `Count`, `CommitChange` | `manageMembership`: the policy; lock and `assert_owner_changed_only_by_owner`; `assert_organisation_keeps_an_owner`; the trail's event and the commit |
| `Invite`, `Withdraw`, `Expire` | `createInvitation`, its withdrawal, `expires_at` |
| `Accept`, `Join` | `accept_invitation`: `select .. for update`; its other statements |
| `CheckErase`, `Erase`, `EraseMember`, `CommitErase` | `delete_organisation`: its checks, the delete, the cascade row by row with the members' triggers |

### Billing

State: `stripe` (each subscription as Stripe has it), `event` (what it emitted), `answered`, `row` (the
event the row of `public.subscriptions` was written from), `newest` (history: the latest second the row has held),
`route` (per invocation the event it is about, the row it has read, and whether it has read, has died with its upsert
on the way, or has written), `org`, and `refused`, which says that a call to the database failed and was
ignored.

| action | code |
|---|---|
| `Checkout`, `Payment`, `ChangePrice` | Stripe and its customer (external) |
| `SetCancelling` | `cancelSubscription`, `resumeSubscription` (`_billing/actions.ts`), by the subscription the row names |
| `Deliver`, `DeliverBlind` | `apply` up to its read of `stripe_event_at`; the read fails unnoticed |
| `Upsert`, `UpsertRefused` | the upsert (`route.ts:165`), of an invocation that may be dead by then; refused, which the route does not look at |
| `Answer`, `Die` | the 2xx (`:83`); a throw or a death before the upsert was sent, after it, or after it has landed |
| `Erase` | `delete_organisation`, the check for live billing (`erasure.sql:103`) |

### Connecting

State: `pending` (when each row of `oauth_authorizations` was written), `cookie` (the one context
cookie), `asked` (the account each flow was started for), `consent` (each flow at the provider), `req`
(requests at the edge), `exchanges`, `conn` (each account's connection), `told` (what the screen
said), `writable` (the customer's right to write) and the clock.

| action | code |
|---|---|
| `Start`, `Leave`, `Consent` | `beginAuthorization`, `handleOAuthStart`, `start_oauth_authorization` with its sweep of old rows; the cookie and the redirect; the consent screen |
| `Return` | the callback route: `callbackDecision`, and `back`, which deletes the cookie on every path |
| `Redeem`, `RedeemUnanswered` | `redeem_oauth_authorization` (`delete .. returning`) and `verifyCallback`; the same with its answer lost |
| `Exchange` | `exchangeCode` and the checks before the seal |
| `Paste` | `createConnection`, `handleConnect`: the other door to the same insert |
| `Insert`, `InsertUnanswered` | the insert, its policy and its unique key; the same with its answer lost |
| `HangUp`, `Regrant`, `CookieExpires`, `Tick` | the web's call times out or the edge dies; the grant comes and goes; time |

## 3. What each run checks, and what it shows

Passing runs. Each property has a mutant in `PROJECT.json`: a plausible bug of the code,
written next to the definition it replaces (`(* Mutant: ... *)`), under which TLC finds the
property violated.

**ingest_sweep** (`MCIngestSweep.cfg`, about 2.46 million states)
- `LeaseExclusion`: no two live sweeps pull one connection. The mutant makes a lease stealable at
  the instant it runs out.
- `NoHole`: every instant behind a watermark is covered. The mutant closes with the instant of the
  close instead of the pinned end.
- `LeaseIsKept`: a lease changes hands only after it ran out or by its holder's close. The mutant
  drops the `claimed_by` check of `record_backfill`.
- `WatermarkNeverRegresses`: the mutant replaces `greatest()` by assignment.
- `StampOnlyCompleteRuns`: the day is ticked off only for a run that read its whole span. The mutant
  reports a partial run as a success.
- `TypeOK`: types, and that a lease's stamp and holder come and go together.
- `ImplementsContract`: every step is a step of PullContract or changes nothing it sees. The mutant
  lets `claim_connection` grant a lease over a live one.

**ingest_sweep_ahead** (`MCIngestSweepAhead.cfg`, about 120,000 states)
- `CheckpointNotAhead`: with a Worker clock that is ahead or behind, and closes that execute late, no
  watermark ever lies in the database's future. The mutant lets a mark one instant ahead pass.
  This run is also the one in which `record_backfill` raises and a sweep ends with its lease taken.

**webhook_delivery** (`MCWebhookDelivery.cfg`, about 670,000 states; liveness). A batch takes longer than its lease
lasts, as shipped, so drains do overlap on an event in this run.
- `OneWorkerPerEvent`: two drains have one event to do only when one of them still had it when its claim ran
  out; a claim by itself never hands an event out twice. The mutant ignores the lease.
- `NeverPostSettled`: an event whose outcome is written is posted only from a batch that has outlived its
  lease. The mutant claims dead letters again.
- `OutcomeIsTrue`: *delivered* means the endpoint took it; *failed* means every attempt was spent. The mutant gives up
  one attempt early.
- `OutcomeIsFinal`: a delivery survives whatever an overlapping drain records after it; a dead letter is queued again
  only by a drain that has outstayed its claim; and the prune takes only what has an outcome. One mutant lets a
  failure clear the outcome it finds, the other prunes by age alone.
- `EveryEventSettles`: if the endpoint stays active from some point on, every queued event is
  delivered, dead-lettered, or pruned after that. The mutant never treats a claim as abandoned, so a
  crash strands its batch.
- `ImplementsContract`: every step is a step of OutboxContract or changes nothing it sees. The
  mutant claims dead letters again, so an endpoint takes an event after its outcome.

**sweep_rotation** (`MCSweepRotation.cfg`, about 30,000 states; liveness)
- `EveryWalkableIsPulled`: each connection a sweep can pull is pulled again and again, although
  others cannot be, and although stores fail partway.
  The mutant sorts the newest first. That a connection passed over because it was pulled today misses no order
  (`StampedIsCurrent`) is proved for every constant and is not repeated here.

**woo_walk** (`MCWooWalk.cfg`, about 1.8 million states; liveness). All four readings of the store's bounds, and an
end pinned to the second in progress.
- `NothingBehindTheMark`: an order that no later run asks for is in the envelope in its present version, or its second
  is in `doubt`: an order was stamped in it after the window was counted or behind the walk, or the window had several pages
  and no `X-WP-Total`, or it is an end of a window that the store's filters leave out, and no later window has made up for
  it. It relates the store, the envelope and the position of three nested loops, under edits between any two
  steps. The mutant drops the count check (`incomplete_window`): halving and pinning alone do not make OFFSET paging
  safe.
- `RunEnds`: every run ends, however the store is edited. The mutant asks for one page for ever.
- `TypeOK` also says that the windows left tile what is left of the chunk: each starts one
  second after the one before it. The mutant leaves the middle second out of both halves.

**envelope_rows** (`MCEnvelopeRows.cfg`, about 1.06 million states; liveness)
- `ConsumerKeepsUp`: a consumer that replays the events in the order they were committed holds the
  figure of the row, whichever runs overlapped, were rolled back or landed late. Without the row lock until the commit
  (one mutant) two transactions compare with the same row and the second event is missing; the other mutant compares
  metrics with `<>`, so a figure that is restated to null leaves no event.
- `NothingStaleBehindTheMark`: a row is in the version the platform reports, or was modified after the watermark, or
  a page read before the one it held has overwritten it; nothing else puts it where no scheduled run looks
  again. The mutant makes the watermark the time the run ended.
- `FinalityClears`: a row of a source with a window that goes on being read is final for good some time. The
  mutant takes the window anew from every fetch.
- `RowsCatchUp`: as long as scheduled runs are recorded complete, every row that is not overwritten arrives at the
  platform's last version. In the mutant a conflict does nothing.
- `TypeOK` also says that a row of a source without a window is never final.

**performance_read** (`MCPerformanceRead.cfg`, about 75,000 states; liveness)
- `NothingSkipped`: a client that is told there is no more holds every row of its span that was there
  when it read the first page. The mutant compares a null window plainly.
- `NothingTwice`: no row is handed out twice. The mutant compares the entity without pinning the account
  above it.
- `PagingEnds`: paging ends, however many rows are inserted meanwhile. The mutant's predicate has "at
  or after".
- `TypeOK` also says that a client that is not at the start and not done has a cursor.

**membership** (`MCMembership.cfg`, about 1.3 million states up to symmetry)
- `LinkAdmitsOnce`: a link admits one person, and nobody once it is withdrawn. The mutant reads the
  invitation without `for update`.
- `TrailTellsRoles`: who replays the security trail arrives at the role every member has. The mutant
  leaves removals out of the trigger.
- `OwnersFallByOwners`: an owner is demoted or removed only by somebody who was an owner while doing
  it. The mutant compares with `<>`, which a person removed meanwhile, whose role is null, gets past.
- `TypeOK` also says that an erased organisation leaves no member behind.

**billing** (`MCBilling.cfg`, about 7.9 million states up to symmetry). Two invocations that overlap.
- `BackOnlyOverUnread`: a write moves the row back a second only over a row its invocation has not read: another's
  upsert came between its read and its own, or its read failed. The mutant drops the guard.
- `RowCatchesUp`: once every event is answered and no call was refused, the row is at the last second that had
  one, unless a write has set it back behind a second it held. The mutant's conflict does nothing.
- `ErasedOnlyUnpaid`: an account is erased while Stripe goes on collecting only when the row cannot tell: an event
  is unanswered or a call was refused, the row was set back, a price or a second subscription is unknown to it, or two
  events share a second. The mutant forgets the statuses of a failing card.
- `TypeOK` also says that a row has one of our prices, and an organisation.

**connecting** (`MCConnecting.cfg`, about 2.8 million states up to symmetry)
- `FiledAsAsked`: a connection is filed under the account its customer named when they started that
  very flow, whatever two tabs did to their cookie. The mutant takes whatever cookie there is.
- `ToldTruth`: after "connected" the connection is there and is this flow's; a flow that was only ever
  told "nothing" left nothing. The mutant has the upsert the connection store's name promises.
- `TypeOK` also says that a code is presented to the provider once. The mutant redeems with a
  `select`.

Violation runs are in section 8.

## 4. Bounds, and why they are enough

Every bound is a constant of the module with "model checking only" in its comment, or a
constant of the code scaled down with its comparisons kept.

| run | bound | why it is enough |
|---|---|---|
| ingest_sweep | 2 connections: one walked, one windowed; both sealed | the windowed one is claimed and refused, so a list has a connection before or after the walked one; the skipped kinds are reached through `Withdraw` and in SweepRotation. More connections are the proofs' |
| | 2 sweeps | every hazard is between a sweep and one that displaces it; a third displaces the second in the same way |
| | `Lease = WallClock = 1`, `Day = 2`, `ChunkSpan = 1`, `MaxTime = 4` | the code has lease = wall clock (fifteen minutes), the tightest case. Four units fit a lease that runs out, a second sweep, a midnight, and runs of several chunks |
| | `Behind = 1`, `Ahead = 0` | a Worker clock may be behind by as much as a run takes, and is never ahead: the condition of the proofs |
| ingest_sweep_ahead | 1 connection, 2 sweeps, `Behind = 1`, `Ahead = 1` | one unit of skew is as long as a run; one connection has one watermark |
| webhook_delivery | `Batch * EventTime = 2 > Lease = 1` | the shipped proportion: fifty events of up to ten seconds under two minutes (`webhook_delivery.sql:125,140,165`, `delivery.ts:101`). The tail of a batch is claimed again while its drain is alive |
| | 2 attempts, `Mishaps = 1` | one retry and one dead letter; one crash or lost record leaves what a second would start from |
| | 2 events, 2 values | an event waits while another is sent; a value restated to null and back |
| sweep_rotation | 5 connections, list of 3, budget 3, `MaxBehind = 3` | 2 unpullable (one per reason) < list length < connections. `MaxBehind <= NightBudget` says a walk fits in a night; section 8 is without it |
| woo_walk | 3 orders, pages of 1, 2 pages a window | three orders make a window too large, two make it two pages: an order can slip between pages while a third keeps the count |
| | `MaxWindows = 3`, `ChunkSpan = 2`, `MaxTime = 3` | one split and both halves, budget exhaustion, two chunks in a run, two runs |
| | `Lag = 0`, `inclusive` any of four | the pinned second is in progress, as in `ingest.ts:455-459`; neither bound is known (`client.ts:515-521`) |
| envelope_rows | 2 runs, 2 keys | a deadlock needs two rows in two orders; a stale page needs one run behind another; a run that is recorded needs one that read the old watermark beside it |
| | `MaxRun = 1`, one window of 1, one `Unknown` | a run's end may lie behind the end of the window, and before it; a row whose source never closes |
| | versions: a figure restated to null, and one never restated | null on one side of the trigger's comparison |
| performance_read | 7 rows, limit 1 to 2, `MaxRows = 3` | two pairs tie in every column but one, a null and two labels among ties, an entity order that differs across accounts, one row outside the span; the cap is one above the greatest limit, as in the code (999 and 1000) |
| membership | 3 users, roles `owner` and `admin`, 1 link | two who act and one who is acted on; `analyst` and `viewer` may do nothing here and are left out. Users are interchangeable |
| billing | 2 subscriptions, 3 events, 2 invocations | one is read, a second read and written, and the first written: three events are enough for a row that goes back, comes on again, and is trusted. Two subscriptions make the row ambiguous |
| connecting | 2 flows, 2 requests, 2 accounts | two tabs, a reload beside a first return, and the account of the other flow |
| | `TTL = 0`, `SweepAge = 0`, `MaxTime = 1`, `Drift = {-1, 0}` | a flow is in time at its own instant and late one after; an age below zero |

Three of these are conditions the code does not enforce: no Worker clock ahead of the database's in ingest_sweep
(`Ahead = 0`), and in sweep_rotation a backlog that fits in a night (`MaxBehind <= NightBudget`) with fewer unpullable
connections than `SweepLimit`. Section 8 says what happens without them. The other runs take the code's own proportions.

## 5. Fairness, and why the code justifies it

- IngestSweep, Membership, Billing and Connecting state none: they have safety only. Nor does a violation run need any.
- WebhookDelivery: weak fairness of each drain's next step (`DELIVER_CRON` starts one every
  minute, and a live drain goes on: each step is bounded by the POST's timeout) and of `Tick`.
  Nothing is assumed of the endpoint, of crashes or of upserts. A drain that may always crash is
  kept from doing so for ever by `Mishaps`, the only use of that bound in the liveness check.
- SweepRotation: weak fairness of the sweep (`INGEST_CRON` fires daily), and strong fairness of
  `Complete(c)`: a store that can be read in full infinitely often is some time read in full. That
  is an assumption about the merchant's store, not the scheduler; `FailPartway` may otherwise win
  every night.
- WooWalk: weak fairness of the run's own step while it is under way. Nothing makes a run start, and
  the store may be edited for ever between two steps.
- EnvelopeRows states none. Its two liveness properties say themselves what they need to happen again and again: that
  scheduled runs are recorded complete (`KeepsPulling`), or that a row goes on being written while time passes
  (`KeepsWriting`, `TimePasses`).
- PerformanceRead: weak fairness of `Authenticate`, since the client goes on, and strong fairness of `ReadPage`: not
  every page is lost.

## 6. What is proved

Eight modules hold the theorems, one per component; `tlapm` checks each to the last leaf. All are for every
value of the constants that meets the `ASSUME` of the component's module; where a theorem needs more, it says
so as its own hypothesis, and section 8 says what the code does when the hypothesis fails. Four do: the two that need
`Ahead = 0`, `RowsMoveForward` and `OnlyOverlapUnseatsTheLast`.

### Leases and the watermark

`IngestSweepProofs.tla`, checked by `tlapm` to the last leaf, for any sets of connections and
sweeps, any `SweepLimit`, chunk and day, an unbounded clock and any lease with
`WallClock <= Lease`. That inequality is `SweepAssumption`, and is what
`apps/api-edge/src/scheduled.ts:33-46` records about the platform.

| theorem | says | rests on |
|---|---|---|
| `TypeCorrect` | `Spec => []TypeOK` | `Typed`: `TypeOK`, and a sweep with a call or run under way has a connection in hand (`HandsFull`); without the latter `Head(todo)` has no type |
| `LeaseExcludes` | `Spec => []LeaseExclusion` | `LeaseInv` |
| `LeaseChangesHandsLawfully` | `Spec => LeaseIsKept` | `Typed` and the guards of claim and close |
| `WatermarkNotAhead` | `Spec => []CheckpointNotAhead`: a watermark is never ahead of the database's clock, for any `Behind` and `Ahead` | `Typed`; the guard of `record_backfill` |
| `WatermarkMovesForward` | `Spec => WatermarkNeverRegresses`, for any `Behind` and `Ahead` | `SealedRuns` |
| `NoHoleBehindTheWatermark` | with `Ahead = 0` and any `Behind`, `Spec => []NoHole` | `SealedRuns`, `GaplessRuns` |
| `DayIsEarned` | `Spec => StampOnlyCompleteRuns` | `HonestCloses` |
| `SweepsImplementContract` | with the same, `Spec => ImplementsContract`: the sweeps implement PullContract | `LeaseInv`, `SealedRuns`, `GaplessRuns` |
| `PulledTodayIsCurrent` | of SweepRotation, for any connections, `SweepLimit`, budget and `MaxBehind`: `Spec => []StampedIsCurrent` | `Counted` |

The invariants, none of which a run's property says by itself:

* `LeaseExclusion` is not inductive: from it alone a claim might be granted over a live holder.
  `LeaseInv` adds why it cannot be. `Young`: a live sweep is no older than the wall clock.
  `Holder`: while a live sweep has a connection open, it is the row's `claimed_by` and the claim
  is no older than the sweep. So the age of a live holder's claim is at most `WallClock <= Lease`,
  the lease clause of `claim_connection` is false for it (`HeldIsNotFree`), and as a row has one
  `claimed_by`, there is one holder.
* `SealedRuns`: a sweep beyond its read of the watermark works on a sealed connection. Hence
  a close never gives a first watermark to a connection that has none.
* `GaplessRuns`: the `since` of a sweep, the `reached` of a run and the `mark` of a close each lie
  behind a prefix of `covered` without a gap. `PullChunk` extends such a prefix, because the run's
  end was pinned to a clock that is not ahead: this is the one place that needs `Ahead = 0`. A clock that is
  behind only makes the run end earlier, and the next one starts from there.
  `covered` only grows (`CoverageGrows`), so what a displaced sweep, or one that read a stale
  watermark, knows stays true. That is why the stale read before the claim is harmless.
* `HonestCloses`: a close that says it succeeded carries the pinned end of a span that was
  read whole.
* The refinement. A pull goes on from before or begins with a claim that is granted (`PullsBegin`), and at that
  moment nobody else pulls the connection, or the claim's holder would not be live (`HeldIsNotFree`): a
  `Begin` of the contract. A chunk that is stored is stored by the one puller. A close that moves the watermark
  moves it over what is covered (`GaplessRuns`, `NoHole'`): an `Advance`, and the only place that
  needs `Ahead = 0`. Every other step of the sweeps, a death at any point included, does no more than
  end pulls (`EndsAreStops`).
* The order of a night's sweep. `StampedIsCurrent` says of a connection that is passed over as "pulled today" that
  nothing is left to pull. `Counted` is that with the types it takes: only `Complete` stamps, and it leaves no chunk;
  a connection that falls behind does so at midnight, which clears the stamps of the day.

Frame lemmas (`LeaseFrame`, `NextConnectionIdle`, `Growth`, `OthersStay`, `BusyMoves`) say once what most
of the twenty actions leave alone, so that each invariant's proof is about the few that disturb it.

### Webhook delivery

`WebhookDeliveryProofs.tla`, for any finite non-empty set of events, any
values and drains, any batch, lease and schedule of delays, and any number of crashes and lost
records:

| theorem | says | rests on |
|---|---|---|
| `TypeCorrect` | `Spec => []TypeOK` | `Typed`: a live drain's hand is in its batch (`Handed`); an event without an outcome has an attempt left (`Unspent`), or its attempts would outgrow their type |
| `OneDrainPerEvent` | `Spec => []OneWorkerPerEvent` | `Exclusive` |
| `SettledIsNotPosted` | `Spec => []NeverPostSettled` | `Exclusive`, `Handed` |
| `OutcomesAreTrue` | `Spec => []OutcomeIsTrue` | `Truthful` |
| `OutcomesAreFinal` | `Spec => OutcomeIsFinal` | `Exclusive`, `FailureSparesDelivery` |
| `DrainsImplementContract` | `Spec => ImplementsContract`: the drains implement OutboxContract | `Exclusive`, `Truthful`, `Filed` |

None of them assumes a proportion between batch, time and lease: the shipped constants let a drain outstay its
claims, so the theorems say what that does and what it cannot do.

* `OneWorkerPerEvent` is not inductive: two batches are disjoint because the second claim was made
  when nothing of the first was due. `Holds(w)` says of every event in `w`'s batch that is not `late` that it is
  queued, has `w` in `claimed_by`, and has lease to go. A claim establishes it and takes from no other drain
  (`ClaimHolds`: what is held in time is not due); when time runs a lease out, the event becomes late in that very step
  (`TickHolds`); and a drain that goes on to its next event has touched at most the row in hand, which another drain has
  too only if one of them was late with it (`GoOnHolds`). An event in two batches in time would have two values in one
  `claimed_by`.
* `OutcomesAreFinal`: the failure branch writes by id alone, over whatever became of the row since it was read. That it
  spares a delivery is the constraint `restatement_events_not_both_outcomes`, for the dead letter, and that its other write
  touches no outcome of a delivered event (`FailureSparesDelivery`): no lease is needed. That it spares a dead letter is the lease:
  only a late drain's failure finds one, and then puts it back in the queue.
* `Truthful` adds to `OutcomeIsTrue` that a drain with a 2xx in hand has an event the endpoint accepted.
* The refinement: each step writes one row of the outbox (`OneRowMoves`) or none the contract sees
  (`NoRowMoves`). That a POST, an acknowledgement and a dead letter find their row queued, or late, is `Exclusive`; that a
  delivery was accepted first is `Truthful`; that nothing is late before it was filed is `Filed`.

### Envelope rows

`EnvelopeRowsProofs.tla`, for any keys, windows and histories, any number of overlapping runs and
any length of a run:

| theorem | says | rests on |
|---|---|---|
| `EnvelopeTypes` | `Spec => []TypeOK` | `Typed`: a page lists versions of its keys, and a run holds rows only while a call is under way (`Orderly`) |
| `ConsumerInStep` | `Spec => []ConsumerKeepsUp` | `Locks`, `Judged` |
| `NothingStaleIsBehind` | `Spec => []NothingStaleBehindTheMark` | `Past`, `Fresh`, `Covered` |
| `WindowsAreFixed` | a row that has a restatement window never gets another; time only runs it down | `Kept` |
| `NoRowIsFinalEarly` | `Spec => []NeverFinalEarly`: a row that is not provisional has a window, and it is over | `Dated` |
| `FinalityLasts` | `Spec => [][FinalityKept]_vars`: what is final, with a window that was over for `MaxRun`, stays final | `Dated`, `Kept` |
| `RowsMoveForward` | `Spec /\ []OneCall => RowsOnlyForward`: no row goes back to an earlier version while no two calls are between the read of a page and its commit | `Forward` |

`ConsumerKeepsUp` says nothing of open transactions, and a commit replaces rows by what a transaction
wrote some time ago. `Locks`: no two open transactions have written the same row. `Judged`: where an upsert left no event, the
row it will replace still has its figure. `Kept`: it still has its window. They hold because the lock of the upsert
lasts to the commit, and are what makes the row that the trigger compared with the row that the commit replaces.
They say nothing of which figure that is: a stale page still writes a stale figure, and the consumer follows it.

`NothingStaleBehindTheMark` speaks of a watermark and of rows; between them stand the runs. `Past`: nobody holds, and no
row has, a version that was never reported. `Fresh`: what a scheduled run holds of a key nobody modified after the
end it pinned is the platform's version. `Covered`: each key reported and not modified after that end is unread, or held by
the run, or settled, that is in the envelope or overwritten by an older page. A run that is recorded complete has nothing unread and
holds nothing, and one that is recorded in part leaves both out (`Banked`), so in either case what falls behind the
watermark is settled. Any number of runs may have started from the same watermark: each has its own `later`, and a
key modified under one is in `ahead` until a run that has read it since is recorded.

`Dated` is about `is_provisional` before it is committed: a row a transaction holds is provisional exactly if the
fetch of its run came before the end of its window. The age of the fetch and the distance to that end recede together
(`CloserDated`), so it stays true for as long as the transaction is open. The margin `MaxRun` in `FinalityKept` is
needed: TLC shows that a run that fetched before the end of the window, and lands after another has made the row final,
makes it provisional again.

`RowsMoveForward` is the condition under which the documentation's word about two simultaneous runs is
true (section 8). `Forward`: what a page holds, and what is written of it, lies between the version of the row and the
version the platform now reports. A commit of another call in between is all that could break the lower bound. Runs
as such may overlap, die and be rolled back.

### Reading

`PerformanceReadProofs.tla`, for any finite set of keys, with ties in any columns and any nulls, and any
limits below the cap:

| theorem | says | rests on |
|---|---|---|
| `ReadTypes` | `Spec => []TypeOK` | by itself |
| `KeysetSkipsNothing` | `Spec => []NothingSkipped` | `UpToCursor` |
| `KeysetRepeatsNothing` | `Spec => []NothingTwice` | `UpToCursor` |
| `PagesRunOut` | `Spec => [][CursorAdvances]_vars`: no step brings a passed key back, and every answered page is the last or passes at least `limit` keys | `PageIsPrefix` |

Three facts about the operators carry it. The order of the page is strict, transitive and *total* on the key
columns, a null window included (`BeforeIsTotal`). The keyset predicate is exactly "after
the cursor" in that order (`AfterCursorIsAfter`): the `or(...)` that `performance.ts` builds column by column
is neither wider nor narrower. A page is a prefix of what is after the cursor, of the length it should have,
and is short only when nothing is left (`PageIsPrefix`), which goes back to the least element of a finite set under
a strict total order (`LeastElement`, by well-foundedness of strict inclusion). `UpToCursor` is then inductive:
what has been handed out lies up to the cursor, and the rows of the first page's instant that lie there have been
handed out. `MaxLimit < MaxRows` is used where the probe row must survive PostgREST's cap.

`PagesRunOut` is the safety part of `PagingEnds`: there is a finite set of keys ahead of the cursor, it never grows,
and each page that is answered takes from it. What is left to TLC is the step of fairness, that a page is
answered in the end.

### Connecting

`ConnectingProofs.tla`, for any flows, requests and accounts, any lifetimes and any drift of the edge's
clock:

| theorem | says | rests on |
|---|---|---|
| `ConnectingTypes` | `Spec => []TypeOK`, which has that a code is presented at most once | `Redemptions`, `Exchanged` |
| `ConnectionsFiledAsAsked` | `Spec => []FiledAsAsked` | `Requests`, `Filed` |
| `ScreensTellTheTruth` | `Spec => []ToldTruth` | `Requests`, `Filed`, `Claimed` |
| `ConnectionsRestOnAGrant` | `Spec => []GrantsEarned`: a connection filed by a flow rests on the one exchange of its code | `Earned` |

`Redemptions`: a request that has redeemed a flow and not yet exchanged its code is the only one, and the flow's
row is gone. `Exchanged`: after the exchange the row stays gone. Without these the type of `exchanges` is not
inductive. `Requests`: a request carries the account its flow was started for, because the cookie of another flow
is refused, and when nobody listens to it any more the screen has said that nobody knows. `Filed` and
`Claimed` relate a connection to the flow that inserted it and to what that flow's screen said; the second
needs that `None` and `Pasted` are no flows (`ConnectingAssumption`). `Earned` carries what the customer decided from
the return to the insert: a request posted for a declined consent says so, one that redeemed is for a consent that was
given, and one with something to store has exchanged the code. So no consent that was declined, or is still on
the screen, has led to a connection, whichever returns were repeated or hung up on.

### Membership

`MembershipProofs.tla`, for any users, roles and links:

| theorem | says | rests on |
|---|---|---|
| `MembershipTypes` | `Spec => []TypeOK`, which has that an erased organisation has no member | `NothingUnderWay` |
| `LinksAdmitOnce` | `Spec => []LinkAdmitsOnce` | `LinksExclusive`, `LinksUsed` |
| `TheTrailTellsRoles` | `Spec => []TrailTellsRoles`, from the role a member joined with, since the trigger files no join | `RowsExclusive`, `RowsRead` |
| `OwnersFallOnlyByOwners` | `Spec => OwnersFallByOwners` | `RowsRead` |
| `OnlyOverlapUnseatsTheLast` | `Spec /\ []OneUnseats => []KeepsAnOwner` | `CountHolds`, `RowsExclusive` |
| `SoleOwnersErasureGoesThrough` | the guard never refuses an erasure by the only owner | the cascade's own check |

The invariant is what the row locks promise. `RowsExclusive`: a member's row has one holder.
`RowsRead`: a row held for a change still is a member's, and an owner's only if the actor has been an owner meanwhile:
the trigger judged it when the row was locked, and nobody else can have changed it since. `OneErases` and
`LinksExclusive` say the same of the organisation and of an invitation; `NothingUnderWay`, that the
cascade of an erasure waited for every open change and admission.

Two statements of the migrations are false (section 8), and two theorems say when they are true. "An organisation must
keep at least one owner": `OneUnseats` says that no two changes that each take an owner away have both passed the
count and not committed. As long as that is so, the owner a change counted is an owner still when it commits
(`CountHolds`), because the only rows that move meanwhile are not owners' or stay owners'. So the overlap of the
violation run is the only way to lose the last owner. Nor may the guard refuse an erasure of its owner: the only
owner is never refused, whatever order the cascade takes; the refusal needs the row of a second one, deleted after the
actor's own.

### Billing

`BillingProofs.tla`, for any subscriptions and any number of events:

| theorem | says | rests on |
|---|---|---|
| `BillingTypes` | `Spec => []TypeOK`, for any number of overlapping invocations | `RouteKnown` |
| `TheRowCatchesUp` | `Spec => []RowCatchesUp` | `Fresh` |
| `TheRowMovesForwards` | `Spec => BackOnlyOverUnread` | `Known` |
| `OnlyUnpaidIsErased` | `Spec => ErasedOnlyUnpaid` | `Known`, `RowCatchesUp` |

None assumes anything about how invocations overlap. `Known`: Stripe's seconds do not go back along `event` (`InOrder`), a
subscription at Stripe is as its last event shows it (`LastTells`), what is about to be written is at a price of ours and no
older than the row its invocation has read (`RoutesOk`), and the row is no newer than what it has held (`NewestHeld`). So a
write that moves the row back covers one it was not shown. `Fresh`: while no call was refused, the row has at some time
held a second no smaller than that of any event of ours that was answered, or written and not yet answered (`Reached`). When
every event is answered that second is the last one, and the row is at it unless it was set back. Repetition, loss and
reordering of deliveries and deaths anywhere need nothing more: the 2xx comes after the write, so an event whose
write did not land is not answered.

### The WooCommerce walk

`WooWalkProofs.tla`, for any finite set of orders, any page size, budgets and chunk span, any difference of the two
clocks and either reading of each bound:

| theorem | says | rests on |
|---|---|---|
| `WalkTypes` | `Spec => []TypeOK`: the windows that are left tile what is left of the chunk | by itself |
| `NoOrderIsMissed` | `Spec => []NothingBehindTheMark` | `Marks`, `Counted`, `InHand` |
| `MeasuresEnd` | `IsWellFoundedOn(Less, Measures)` | the library's lemma on lexicographic products |
| `RunsShrink` | `Spec => [][RunShrinks]_vars` | `Open` |

The argument is about a set nobody computes. As long as nothing is stamped into the window being read, an edit only
takes orders out of it. So there is a set `S` of as many orders as page 1 counted that contains every order
the window has yielded and every one it still selects (`Counted`); when the ids seen are as many as the count, they are
`S`, whatever slipped between two pages, and everything the window selects is written or in hand. Where that fails, because an order is
stamped into the window after the count, or nothing was counted, the window is `loose`, and closing it puts its seconds in
`doubt`. `Marks` carries the result from window to window: an order before the window being read, behind the
last chunk or behind the watermark is in the envelope, or its second is in doubt. What the store's filters leave out at the
two ends of a window is in doubt from the close; the second two chunks share is asked for by the later one if the
filters include their start, and is therefore behind the mark only if they do not (`Behind`).

`RunsShrink` is the safety part of `RunEnds`. `Measure` is, in this order: the seconds up to the pinned end, the
sub-windows the chunk may still visit, the windows left of it, the pages left of the window being read, and whether a
page is in hand. Every step of a run that does not end it lowers the first component in which it changes anything,
and no edit of the store and no tick touches it; by `MeasuresEnd` there is no endless descent. What is left to
TLC is that a run that can step does.

## 7. What is only model-checked

* Liveness, and ENABLED: `EveryEventSettles`, `EveryWalkableIsPulled`, `RunEnds`, `FinalityClears`, `RowsCatchUp`,
  `PagingEnds`. The proof system has no reasoning about `ENABLED` and fairness. Of `RunEnds` and `PagingEnds` the
  descent is proved (`RunsShrink`, `PagesRunOut`), and of `FinalityClears` that finality lasts (`FinalityLasts`).
* SweepRotation's type invariant. It says that the queue and the list name a connection once, and they are built with
  `SetToSortSeq` and `SelectSeq`, which the library defines by recursion over the sequence: what they return for every
  input is an induction over data, out of the provers' reach. `StampedIsCurrent` does not need it, is proved for every
  constant, and is not checked by a run.
* What happens where a theorem's hypothesis fails: section 8 has the configuration with `Ahead = 1`, and the run
  `membership_last_owner` is the overlap that `OnlyOverlapUnseatsTheLast` names.

## 8. Disagreements between the code and what is said of it

Two have a violation run of one property; `PROJECT.json` quotes the lines.

| run | what happens |
|---|---|
| membership_last_owner | Two owners who step down, leave or are removed in overlapping transactions: the trigger of each counts the other, whose change it cannot see yet, and locks nothing. The organisation keeps no owner. |
| webhook_appearing_metric | A metric that was null and appears yields `revised_from: {m: null}`, which the contract refuses: the event is dead-lettered without a POST. |

Six are in passing runs: what is said is false of the code, and the property of the run says what is true instead.

| run, property | what is said | what happens |
|---|---|---|
| webhook_delivery, `OneWorkerPerEvent`, `NeverPostSettled` | "A lease, so two workers cannot deliver the same event twice" (`M/20260908001100_envelope_rows.sql:276`) | Fifty events of up to ten seconds are claimed under two minutes (`webhook_delivery.sql:125,140,165`, `delivery.ts:101`). The next minute's drains claim the tail of a batch that is still being worked through, post it again, and may post what the first has settled by then. No crash is needed. The property says that nothing else leads there. |
| woo_walk, `NothingBehindTheMark` | Halves at `mid` and `mid + 1 s` make "the partition exact whichever way that turns out" and "no second falls between them" (`client.ts:515-521`) | Only under inclusive bounds. If `modified_before` leaves out its second, `mid` is in neither half; if `modified_after` does, `mid + 1` is. The count of each half agrees with itself. `backfill.ts:151-160` is right about consecutive *chunks* when one bound is exclusive, and not when both are. |
| woo_walk, `NothingBehindTheMark` | A boundary re-evaluated per request would let orders modified during the run "land in neither this run nor the next" (`ingest.ts:455-459`); pinned, it would not | The pinned second is in progress: an edit and a new order within it, after page 1 was counted, hide an unread order behind a count that agrees, and an order placed in it after the last page is behind an exclusive mark. |
| woo_walk, `NothingBehindTheMark` | Without a count the walk "read one short page and stopped" (`client.ts:458-459`) | Not when a proxy strips `X-WP-Total` alone: `X-WP-TotalPages` still drives the loop through several pages and the check at `:460` is skipped. |
| envelope_rows, `NothingStaleBehindTheMark`, `RowsCatchUp` | Of two simultaneous runs: "the upsert makes that harmless rather than wrong" (`docs/marketplane/52-ingest-runtime.md:253-255`) | A slow page puts an older version over a newer one (`RowsOnlyForward`, as a `PROPERTY`, is violated), and a restatement event says so to the customer. The order is behind the watermark by then, so no scheduled run reads it again: the row stays wrong until the platform modifies that order once more or an operator re-reads the span. |
| billing, `BackOnlyOverUnread` | The write "compares `stripe_event_at` and refuses to move state backwards" (`route.ts:23-26`) | It compares in one call and writes in another (`:155-165`): of two invocations that overlap, the one that read first may write last, and the row goes back. So it does when the read fails, which is not looked at. An erasure may then trust a row that was set back. |

The others are shown by one change to a passing run's configuration, checking the property named.

| configuration | change | property violated | what happens, and what is said |
|---|---|---|---|
| MCIngestSweep | `Ahead = 1` | `NoHole` | The guard against a checkpoint in the future (`ingest_watermark.sql:141`) compares with the instant of the *close*. A Worker clock that is ahead by no more than the run takes passes it, and leaves the hole that lines 138-140 say it is for. |
| MCSweepRotation | `SweepLimit = 2` | `EveryWalkableIsPulled` | The filter on `INGEST_SOURCES` (`scheduled-ingest.ts:141`) runs after the limit, and what it skips sorts first for ever: `SWEEP_LIMIT` such connections starve the rest. |
| MCSweepRotation | `MaxBehind = 4` | `EveryWalkableIsPulled` | A checkpoint leaves a run only when it returns or throws (`:241`); a walk longer than an invocation is killed each night, starts over each night, and takes the night with it. |
| MCMembership | `PROPERTY ErasureGoesThrough` | | The erasure's cascade deletes the acting owner's own row before another owner's: the guard of that one (`membership_guards.sql:134`) then sees an actor without a role and refuses the whole erasure. Lines 69-71 say that refusing the cascade "would make an organisation undeletable". |
| MCConnecting | `INVARIANT RetryIsPossible` | | "The authorisation itself is unharmed; retry" (`oauth-connect.ts:642`) is also the answer when the call that failed is the redemption, which may have deleted the row, or the insert after it. |

Met while modelling, without a property:

* `UpsertRefused` is answered 200 (`route.ts:165`), and Stripe does not deliver that event again: `RowCatchesUp`
  has "no call was refused" as a premise for this reason, and `RowCannotTell` has a refused call among the ways in which an
  account is erased while Stripe collects.
* `is_provisional` is derived when a row is upserted, and at no other time (`position.sql:161-162`). "`is_provisional` eventually
  clears" (there, and `envelope_rows.sql:565`) is therefore said of rows that go on being read: a row of a walked source that
  nobody modifies after its window stays provisional. The sources `runIngest` pulls today have a null window
  (`packages/contract/src/restatement.ts:96-104`), and their rows are never final by design; `FinalityClears` has
  `KeepsWriting(k)` as a premise.
* `back` deletes the context cookie, whichever flow it is for: "The flow is over"
  (`connections/callback/route.ts:54-57`). A second tab's flow, still on the consent screen, is refused when it returns.
* An edge clock behind the database's makes the age of a fresh flow negative, and `verifyCallback` refuses
  it as expired (`packages/oauth/src/flow.ts:128`).
* "Nothing was stored rather than something partial" (`connect.ts:594`) is also said when the insert landed
  and only its answer was lost; trying again then says `already_connected`. In the model that message is `retry`, of
  which `ToldTruth` claims nothing.
* `FailureWrite` of a late drain clears the `failed_at` another drain wrote, and so puts a dead letter back in the queue:
  it takes three drains with one event in hand in one instant, more than the run has, and is what `OutcomeIsFinal`
  and the contract allow for `late` events. That nothing else does it is proved for any number of drains.

## 9. What is not modelled, and why

* *Data of rows*: field mapping, currencies, redaction, signatures, envelope metrics beyond one,
  the encoding of a cursor. No property of these modules tells two payloads apart.
* *Search Console and Loyverse*: Search Console is modelled as what the sweep makes of it, a refusal
  (`Windowed`). Loyverse is a watermark-driven walk like WooCommerce's and is `Walked` in
  IngestSweep; its own walk, with chunks that share their ends and a request budget over a sliding
  window, would be a module of WooWalk's kind.
* *Extract planning, retries, capacity*: functions of one invocation that nothing interleaves with.
* *Metering*: no request the repository serves consumes a credit; `consume_credits` has no caller.
* *Sealing a connection* (`scripts/seal-connection.ts`): an operator's act; the sweep modules have the
  sealed connections as a constant.
* *Tie-breaks by id* in IngestSweep's list are nondeterministic: an id says nothing about a row.
  SweepRotation has them as they are.
* *Reads of the connection row that fail*: `Die` (the error is not caught).
* *Of connecting*: `recordFailure` and `openCredential`, whose effect on a row is IngestSweep's
  `Withdraw`; the cryptography of PKCE and of the vault.
* *Of membership*: creating an organisation (it is the initial state), roles without rights, grants on
  single workspaces.
* *Of billing*: the customer-link row and the fallback that finds an organisation by it, invoices, and
  entitlements read from the row.
* *Insights, FX, e-mail, payload storage, web pages, brand, tokens, linters*: transformations of
  one request or of the repository, without shared state. They are most of the repository's lines.

## 10. Plan

Every safety property of the passing runs is a theorem, but for SweepRotation's type invariant, and where section 8 says
that a statement of the code's is false, a theorem says when it is true or what is true instead. What is left:

1. **Loyverse's walk**, as a module of WooWalk's kind: chunks that share their ends, and a request budget over a
   sliding window. It is the second connector that is driven by the watermark.
2. **The lease and the upsert in one module**: `RowsMoveForward` takes that calls exclude each other, and
   IngestSweep proves that live sweeps do. What is `overwritten` is then the work of an operator's run or of a call that
   lands after its sender's death; a composition would say so of the rows themselves.
3. **A watermark with a clock ahead**: what `NoHole` still promises when a Worker's clock may be ahead. The hole of one run
   is no wider than `Ahead`, but the holes of successive runs may adjoin, so the statement is about each run, not
   about the watermark.

## 11. Running it

    tlc -workers 2 -config MCIngestSweep.cfg MCIngestSweep
    tlc -workers 2 -config MCWebhookDelivery.cfg MCWebhookDelivery
    tlc -workers 2 -config MCSweepRotation.cfg MCSweepRotation
    tlc -workers 2 -config MCWooWalk.cfg MCWooWalk
    tlc -workers 2 -config MCEnvelopeRows.cfg MCEnvelopeRows
    tlc -workers 2 -config MCPerformanceRead.cfg MCPerformanceRead
    tlc -workers 2 -config MCMembership.cfg MCMembership
    tlc -workers 2 -config MCBilling.cfg MCBilling
    tlc -workers 2 -config MCConnecting.cfg MCConnecting
    tlapm IngestSweepProofs.tla
    tlapm WebhookDeliveryProofs.tla
    tlapm EnvelopeRowsProofs.tla
    tlapm PerformanceReadProofs.tla
    tlapm ConnectingProofs.tla
    tlapm MembershipProofs.tla
    tlapm BillingProofs.tla
    tlapm WooWalkProofs.tla

Each `MC*.tla` extends its module with the definitions its configurations name. `MCIngestSweepAhead.cfg`
is a second passing run; `MCMembershipLastOwner.cfg` and `MCWebhookDeliveryAppearing.cfg` are the violation runs. `CHECK_DEADLOCK FALSE` stands where the system may stop: the
sweeps of IngestSweep are finitely many, the clocks of WooWalk and Connecting and the events of Billing are
bounded, a reader is done, and an organisation is erased.
