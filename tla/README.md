# Railguard CDP: a TLA+ model

Railguard pays invoices. A payment intent is prepared for an approved invoice,
executed through the Coinbase Developer Platform (CDP) under a spending guard,
verified on the chain, and recorded in a hash-chained audit log. Money moves once, in
a system none of whose multi-step operations is a transaction: HTTP handlers
with twenty awaits, cron jobs that work on snapshots, queues that deliver more than
once, a provider whose answers get lost, nodes that lag, a chain that takes its time and
sometimes takes a block back.

This directory models that system, model-checks it with TLC, and proves its most
important safety properties with TLAPS. All paths below are relative to `src/`.

## 1. Inventory

| Component | Code | State | Operations | Makes it correct |
|---|---|---|---|---|
| Payment execution | `apps/api/api.ts` (`executePaymentIntent`), `cdpRecoveryScenario.ts`, `executionAttempts.ts`, `packages/kernel/src/{lifecycle,correlation,cdpDriver}.ts` | `payment_intents`, `execution_attempts` | claim, submit, verify, commit, confirm, and the catch block | one transfer per intent; a record that agrees with the chain; correlation kept |
| Reconciliation | `apps/api/reconcile.ts`, `packages/kernel/src/reconciliation.ts` | `payment_intents`, a snapshot of rows | sweep every five minutes | convergence; no double commit or release |
| Settlement verification | `apps/api/providers.ts`, `packages/settlement/src/{index,evm-rpc}.ts` | none (reads the chain) | `verifySettlement`, `verifyEvmChainTx` | CONFIRMED only for what is on the chain as expected, deep enough |
| Other settlement chains | `packages/settlement/src/{chains,base-sepolia,arbitrum-sepolia,stellar-testnet}.ts` | none | fetch and verify, search for recent transfers | the search misses no block |
| Guard, durable | `vendor/x402-guard/packages/policy`, `apps/api/{x402Guard,x402GuardDbStore}.ts` | `x402_guard_replays`, `_budget_authorizations`, `_spends` | claim replay, reserve, commit, release | budgets never exceeded; an authorization resolved once; a payment authorized once per TTL |
| Guard, library | `vendor/x402-guard/packages/{middleware,receipts}` | memory: claims, reservations, receipts | `withSpendingPolicy`, `evaluate`, `recordSettlement` | what moved money is in the budget; a call settles its own reservation |
| Audit log | `api.ts` (`appendAudit`), `packages/audit` | `audit_events`, `audit_chain_heads` | append | one chain per organization, append-only |
| Invoices, approvals, policy | `api.ts`, `policySnapshot.ts`, `packages/policy` | `invoices`, `policy_runs`, `approvals` | policy run, approve, `ensurePayable` | a fact that changed voids the approval (INV-006) |
| Purchases, outbox | `purchaseService.ts`, `fulfilmentService.ts`, `purchaseFulfilment.ts`, `outbox*.ts` | `purchases`, `quotes`, `fulfilments`, `outbox_events` | quote, mark paid, fulfil, publish | one active quote; announced once and only when paid |
| Reorg rescan | `reorgRescan.ts`, `blockAnchor.ts`, `packages/settlement/src/reorg.ts` | block anchors in `execution_attempts` | rescan every ten minutes | a reorganized payment is looked at again, no other is |
| Financial intents (v5) | `v5*.ts`, `packages/kernel/src/{v5Actions,intent,authority}.ts` | `financial_intents` | create, authorize, link, execute, sync, evidence | mirror and evidence agree with the payment |
| Queues | `api.ts`, `infrastructure.ts` | `invoice_uploads`, `audit_exports`, a bucket, topics | at-least-once deliveries | no duplicate slips through; a download has its file; an export ends |
| Safety limits | `executionSafety*.ts` | process memory | `assertExecutionAllowed` | the hourly cap |
| Web session | `apps/web/lib/{api,auth}.ts`, `auth.ts`, `providers.ts` | `localStorage`, promises in a tab, WorkOS | sign in and out, refresh, retry | a retry carries a new token |
| Kernel drivers, evidence | `packages/kernel/src/*` | none | the settlement rail's `observe` | evidence is about a mined transfer |
| Clients | `packages/{sdk,cli,mcp,integrations}`, web pages, `examples`, `services`, `scripts` | none of the system's | requests | out of scope (section 5) |

How they interact. A client calls `execute`; the handler asks the safety limits, looks the intent up
twice (by key, by id), asks the guard for an authorization, claims the row with
`UPDATE ... WHERE status = 'prepared'`, has the provider make the transfer under
a provider key stored in `execution_attempts`, stores the hash, verifies the
settlement, commits the authorization, and confirms row, invoice and purchase.
The catch block picks up from anywhere. Independently the reconciliation job reads
candidates with a hash and redoes verification, commit or release, and the
confirmation, and anchors what it confirms in its block; the rescan compares the anchors with
the chain. All of them share the database rows and nothing else: a statement
is atomic, a handler is not. `appendAudit` is called all along the way, and is a
transaction of its own. Queues deliver uploads and exports to handlers that
write invoices and files; the v5 layer mirrors payment intents; the web application
holds a session and calls all of it.

What is hard. Calls that race, and losers that *join* the winner's execution
under the same key; unconditional updates from verdicts taken earlier; a sweep
that works on rows as they were; a crash between the transfer and its record; an
answer lost by the network; verification that times out or sees a lagging node, or
reads receipt and height on both sides of a reorganization;
reservations, replay claims and windows that age while requests run; appends
that become visible in another order than their timestamps; messages handled twice, and
handlers overtaken by their own repetition; tabs that renew a session under each other.
`PROJECT.json` lists each hazard at its line with the properties that watch it.

## 2. Modules

| Module | What it is |
|---|---|
| `PaymentContract` | abstract specification: what executing a payment promises |
| `GuardStore` | abstract specification: what the guard asks of a store of its state |
| `PaymentExecution` | the handler, the cron job, the guard's authorizations, provider and chain |
| `BudgetGuard` | the guard's durable state against a clock: replays, windows, authorizations, spends |
| `ApprovalPolicy` | invoices, decisions, intents and the gate in front of a payment, read by read, while facts are edited |
| `AuditChain` | `appendAudit`, many writers, many organizations |
| `ReorgRescan` | block anchors, the rescan and the sweep, over a chain that reorganizes |
| `Purchases` | purchases, quotes, fulfilment and the outbox |
| `Deliveries` | uploads, extraction, notifications and audit exports under at-least-once delivery |
| `FinancialIntents` | the v5 layer: the mirror of a payment and its evidence |
| `GuardMiddleware` | the guard as a library around a payment callback |
| `SettlementFacts` | what a verdict is made of, read by read |
| `TransferDiscovery` | the backward search for transfers, and evidence from its result |
| `ExecutionLimits` | the limits in front of an execution, per process |
| `AuthSession` | the web application's session over several tabs, and the backend's part of it |
| `PaymentExecutionProofs`, `PaymentBudgetProofs`, `PaymentContractProofs` | theorems about `PaymentExecution`, each module on top of the one before |
| `BudgetGuardProofs`, `ApprovalPolicyProofs` | theorems about these modules |
| `BackgroundProofs`, `EdgeProofs` | theorems about the modules of `MCBackground` and of `MCEdges`, one by one and side by side |
| `SumLemmas` | sums over finite sets, for the proofs about budgets; sets of at most one element |
| `MCPaymentExecution`, `MCBudgetGuard`, `MCApprovalPolicy` | symmetry and constants for TLC |
| `MCPaymentModes` | `PaymentExecution` in both of its modes, live with the guard and demo without it |
| `MCBackground` | `ReorgRescan`, `Purchases`, `Deliveries` for TLC |
| `MCEdges` | `AuditChain`, `FinancialIntents`, `GuardMiddleware`, `SettlementFacts`, `TransferDiscovery`, `ExecutionLimits`, `AuthSession` for TLC |

Which module composes which. `PaymentExecution` implements `PaymentContract` (INSTANCE with a
refinement mapping) and takes the outcomes of its neighbours as choices each neighbour's module justifies: a gate that may refuse
(`ApprovalPolicy`), a budget that may be refused (`BudgetGuard`), a
verdict (`SettlementFacts`). `BudgetGuard`, `GuardMiddleware` and `PaymentExecution` each implement `GuardStore`, the interface
`GuardStateStore` the Postgres store and the store in memory share. `MCBackground` and `MCEdges` run modules side by
side, each behaviour in one of them (`part`), which loses nothing because they share no table.

Statements are the unit everywhere: one action is the code between two awaits that touch shared
state, so that every interleaving of statements is a behaviour; an early return or a throw is a
disjunct of the step it happens in. A process that dies takes no further step, or an explicit crash action
ends it where its locals matter.

### PaymentExecution

Each call of the endpoint is a process with a program counter (`req`), each cron
instance another (`sweep`).

| Variable | Code |
|---|---|
| `row[i]` | the columns of `payment_intents` that execution and reconciliation write |
| `attempt[e]` | `execution_attempts.status` of execution `e` |
| `auth[q]` | status of the budget authorization reserved by call `q` |
| `replay[i, k]` | the replay claim; its fingerprint covers the intent's URL and the key |
| `chain[e]` | fate of the transfer with `e`'s provider key: pending, success, mismatch (executed, but not as expected), reverted |
| `invoice`, `fulfilled` | the invoice's status, the intents with a fulfilment |
| `req[q]`, `sweep[s]` | locals: position, execution id, `broadcastedTxHash`, verdict; the rows read and not yet dealt with |
| `faultsLeft` | bound on injected faults |

An execution id is the call that claimed it, and stands for the provider key
minted for it and for the hash the provider derives from it. This is what the
code ensures: `executionId` is fresh, `execution_attempts.execution_id` is
unique, and an existing attempt's provider key is reused. An authorization id is
the call that reserved it.

| Actions | Code |
|---|---|
| `LookupKey`, `LookupIntent` | `api.ts` 845-883; `ensurePayable` and the separation of duties may refuse at any time |
| `GuardClaim`, `GuardReserve` | `claimReplay`, `reserveBudget`; the windows may refuse at any time (`BudgetGuard` says when) |
| `Claim`, `Reread` | `api.ts` 943-990, with the unique index on the key |
| `Attempt`, `Transfer`, `Record*` | `submitPersistedCdpTransferCore` and `executeCdpTransfer` |
| `MarkSubmitted` ... `Fulfil` | `api.ts` 1013-1084 |
| `RescueDropped`, `RescueBroadcast`, `RescueRelease`, `MarkFailed` | the catch block, 1137-1211 |
| `SweepStart` ... `SweepFulfil` | `reconcileSubmittedPayments`, `reconcilePaymentIntentRow` |
| `StoreFault`, `CrashRequest`, `CrashSweep`, `Mine`, `ReplayExpires` | the environment |

Fault kinds, each enabled per run: `crash`, `provider_reject`, `lost_response`
(the network loses the answer to an accepted transfer), `dropped_response` (the
hook's `CDP_RESPONSE_DROPPED`), `store_fault` (a statement throws without effect),
`rpc_timeout`, `lagging_rpc` (PENDING although mined), `replay_expiry`.

### BudgetGuard

`PaymentExecution` does not say when budget is refused; `BudgetGuard` does, for one
agent. `authorizePayment` reads the clock once, and every later statement uses
that reading however late it runs. The windows are added up one by one
under `pg_advisory_xact_lock`, the reservation inserted and the lock dropped by
the commit of the transaction; `Commit` and `Release` take no lock. A claim over
an expired replay row may succeed or collide, because the statement's DELETE and
INSERT are unordered.

`SettleWithin` bounds, in `Tick`, how long a call runs and a reservation waits.
It is an assumption of the `budget` run: the code has no such bound, and
`budget_aging` shows what happens without it.

### ApprovalPolicy

What `PaymentExecution` takes for a refusal that may come at any time. A payment
passes `ensurePayable` twice, when its intent is prepared and when it is executed. This gate reads
five facts (`Aspects`: vendor, wallets, duplicate, workspace, average), each with a statement of its own, for the
snapshot; then reads all five again for the policy; then looks the
newest approval up; and an execution looks it up once more for its approver. All of
these are steps, so that edits, decisions and newly received duplicates fall between any two of
them. A snapshot hash is the record it is computed from; the average is in it only through the
rule it triggers.

| Variable | Code |
|---|---|
| `vendor`, `wallets`, `workspace` | `vendors.status`, the vendor's approved wallets, `organizations` |
| `invoice[i]`, `approvals[i]` | status and document; decisions in order of `created_at` |
| `intent[k]` | `payment_intents` by idempotency key; execution itself is `PaymentExecution` |
| `call[c]` | locals: operation, facts read so far, snapshot, status to write |
| `held[c]` | history, not in the code: every value the facts had while call `c` was at its gate |

Receiving an invoice and evaluating one run the policy only to choose a status that
nothing reads; there the facts are taken at one moment.

### AuditChain

`created_at` is the start of the transaction, so a writer that waited for the
lock commits a row older than its predecessor. `Previous` is the recorded head
and, before there is one, the newest row, as migration 005 left existing
organizations. An event's hash covers its id and the previous hash; equal hashes mean equal
events (SHA-256), so the id stands for the hash.

### ReorgRescan

The canonical chain is the sequence of the forks its blocks were produced on, so that a height and
a fork are a block hash. `Reorganize` replaces all blocks from a height on; a transfer of theirs is
mined again or waits. Sweep and rescan anchor a transfer in two steps, the receipt read and the
UPDATE, and the chain may move in between. `updated` is the order by
`execution_attempts.updated_at`, which the query of the rescan sorts by: marking an attempt moves it to the
end, and this is what makes the next rescan come to another one after an exception ended this one.
The rescan's batch is a set of rows that carry their `place` in that order, and are taken by it.
`RewindPayment` has no effect but the exception: the statement names a column that does not exist.

### Purchases

`Begin` to `Prepare` are `createPaymentIntent` past its gate, `MarkPaid` to `EnqueueFulfilled` are
`purchaseFulfilment.ts`, run by the handler and by the cron job for the same payment. What guards the rows are unique indexes; the INSERT that loses throws
and ends its call. `PollOutbox` changes nothing: `fetchPendingOutboxEvents` calls `map` on what `db.query` returns, an asynchronous
generator without that method (`outboxService.ts:35`, `:49`; elsewhere the code takes `queryAll` for an array), so that the poller throws before
it marks an event. `published_at` stays null, and the model has no such column.

### Deliveries

A topic is the set of messages that are not acknowledged. `Deliver` takes any of them at any time, also one another delivery has in hand (a
repetition, bounded by `MaxTroubles`); a handler that throws or dies leaves its message where it is. `Catch` is an exception inside a handler's try, which marks the job failed, `Reject`
one outside. An upload stands for its document's hash; extraction
picks a vendor, the same one each time only where the upload names it or the heuristic reads it.

### FinancialIntents

`intent[k]` is the row of `financial_intents` under key `k`. The six operations (create,
authorize, the bridge at the end of `createPaymentIntent`, execute, sync, evidence) are sequences of statements over it, and none
of their writes looks at the status it overwrites. The sync reads the newest mirror of a payment and then
settles every row linked to the payment by then; evidence is built from one reading and stored over whatever the row
is by then. `executions` numbers execution ids, which are fresh.

### GuardMiddleware

One agent, one window. What a method of the in-memory store does under its promise chain is one step; the wrapper awaits
between claim, reservation, receipt, callback and commit. `pending` is `authorizationByReceipt`: a receipt's authorization is
looked up by the call's own receipt. The fallback of `commitAllowedSpend` does nothing, because the store in memory has no
`recordSpend` (`storage.ts:42`). `CallbackThrows` may or may not have moved money. `moved` is history.

### SettlementFacts and TransferDiscovery

`SettlementFacts` is one transaction and any number of verifications, each a read of the receipt and a read of the latest
block, from a node that is up to date or a block behind, over a chain that grows and reorganizes. A verification
that waits (`verifySettlement`) has seen its depth before it reads the latest block; one that does not takes the blocks as they
are. `Fails` starts over with the next URL. `stale` is history: the block of the receipt was replaced after the read.

`TransferDiscovery` is the search as a state machine, one window of blocks a step, so that its end (the first window with a log, or
the lookback) is a property of reachable states. The code for Base and Arbitrum Sepolia is the same.

### ExecutionLimits

The settings a process started with, and its timestamps per organization. `Restart` forgets them. `answered` is the last answer.

### AuthSession

A pair of tokens is a number. Tabs share `session` (`localStorage`) and nothing else; a tab's calls share `flight`, the promise
`refreshInFlight`. `fetching` is a call of `apiFetch`: refresh early, send, be refused, refresh, send again. WorkOS may or may
not use a refresh token up (`Issue`), and the backend refreshes once more in the background to bind the session to the organization (`Bind`),
which takes the client's new token with it. `Stuck` is a `refreshInFlight` that never ends: without a stored session
the function returns before the `try` whose end would clear it (`web/lib/api.ts:52`).

## 3. Runs

| Run | Instance | Shows |
|---|---|---|
| `execution_guarded` | 2 intents, 2 keys, 2 calls, 1 sweep; live, guard on; crash, refusal, timeout, dropped answer, 2 faults; fair | types; no release while on the chain; the contract is implemented; what has a recorded hash converges, unless it or an older payment is stranded for ever |
| `execution_settlement` | live with the guard: 1 intent, 3 calls; demo without it: 2 intents, 2 calls; 2 keys, 2 sweeps, every fault but `replay_expiry`, 2 of them | executions owned; a spend is a settled transfer's and the intent's only one; labels tell the truth |
| `execution_unreliable` | 1 intent, 2 keys, 3 calls, 1 sweep; live, guard on; all faults, 2 of them | at most one transfer; nothing confirmed, executed or fulfilled without settlement; the guard's store used as its interface has it; correlation durable |
| `execution_lost_response` | 1 intent, 1 call; live, guard on; one lost answer | **violated**: `NoReleaseWhileOnChain` |
| `execution_stranded` | 1 intent, 1 call, 1 sweep; live, guard on; one crash; fair | **violated**: `RecordedConverges` |
| `budget` | 3 calls, 2 fingerprints, amounts 1-2, windows (1, 2) and (2, 3), clock 0-4 | windows, replay, ledger |
| `budget_aging` | one window of 2 ticks, settlement within 3 | **violated**: `HeldBudgetCounts` |
| `approval` | 2 invoices, 2 documents, 1 wallet, 2 users, 2 workspaces, 1 key, 2 calls at a time; 5 calls and edits altogether; the vendor starts with its wallet approved (`OnboardedSpec`) | no blocked payment; a steady gate is sound; executor and approver differ; an intent keeps its invoice |
| `approval_race` | the same, with the wallet approved or not at first | **violated**: `ChangeVoidsApproval` |
| `background`, reorg | 2 transfers, 1 rescan, the sweep, height 2, 1 reorganization, 1 outage; fair | an attempt is marked only if it was orphaned; every lost anchor is marked |
| `background`, purchases | 1 key, 2 calls, handler and cron job, 1 stop | one active quote; one announcement, of a settled payment |
| `background`, deliveries | 2 uploads (one with a hint), 1 export, 2 vendors, 2 deliveries at a time, 1 job, 2 troubles; fair | no two payable duplicates; no download without its file; every export ends |
| `reorg_rewind` | the reorg part without outages | **violated**: `ReorgRewinds` |
| `edges`, audit | 3 writers, 2 organizations, one with two earlier events, clock 0-2 | one chain, head at its tip, append-only |
| `edges`, financial | 2 keys, 2 payments, 3 calls; guard on or off | a settled mirror and verified evidence are of a confirmed payment |
| `edges`, guard | 3 calls of 4 payments (one blocked, one in need of a mandate), budget 3, 1 recorded settlement | paid within budget; a reservation tells what its call did |
| `edges`, facts | 1 verification, depths 1 and 2, height 2, 1 reorganization, 2 URLs | verdicts are true |
| `edges`, discovery | heights 0-6 with any set of transfers, lookbacks 0, 3, 9, windows of 1-3 | the search finds the newest transfer |
| `edges`, limits | 1 process, 2 organizations, cap 2, an hour of 2 ticks, clock 0-2, 1 restart, any settings | the hourly cap |
| `edges`, session | 2 tabs, 2 calls, 2 token pairs, organization known or not | a retry carries a new token |

Why the bounds are enough. The races are between two calls for one intent (same
key or different keys), a call and a sweep, and two intents for one key; a third call
lets a late comer meet both a finished and a running one. Two faults allow a fault during the
handling of a fault. One sweep suffices for a handler and a sweep with a stale row;
`execution_settlement` has two, both able to hold a stale copy of the one intent.
The windows of `budget` differ so that either may be the one without room, and
three calls with amounts up to two exceed both. `Todo` keeps the rows a sweep
has not dealt with, so the batch bound needs only as many intents as are modelled;
starvation beyond `LIMIT 50` is not checked.

Calls, keys and sweeps are interchangeable, and where a run checks safety only TLC's symmetry makes use of it. `execution_guarded` checks
liveness, for which symmetry is not sound; there the call that starts first and the key it uses have fixed names (`OrderedNext`). Every behaviour
is one of these up to the names, and since only starting a call is restricted, of which no fairness is assumed, the fair ones stay fair.

Calls and edits of `approval` share one bound: five allow an
invoice to be received, decided on, prepared and executed with one edit anywhere, or to be received and
prepared with three edits during the gate. Two workspaces make an
amount ask for a review or exceed the cap; the second invoice can be a duplicate of the first,
or make its average.

In the background, one reorganization of two blocks can take both transfers from their blocks, and with an
exception after the first mark the second needs another rescan. Two callers of one key and two settlers are the
races the unique indexes decide. One job with two troubles is handled twice at a time, or again after a
crash, with an exception on the way. In the edges, three audit writers
are a holder, a waiter and one that arrives after; three financial calls are a sync or a reader of evidence, a link that overtakes it, and a
third that relinks; the guard's budget of three lets two calls pay but not three; heights up to six have
three windows of two with a remainder; `HourlyCap` meets the boundary of the hour at the second tick; two pairs let one
tab renew while the other waits.

Fairness. `FairSpec` of `PaymentExecution`: a running handler goes on, because Node's event loop
resumes it when its awaited call answers or throws; the cron job fires every
five minutes; a broadcast transaction is mined one way or the other. Clients are
not assumed to retry and faults stop after `MaxFaults`, so a behaviour does not
converge because a client happened to call again. In the background: a rescan that runs goes on and the schedule starts the next one; a delivery that runs
goes on, and a message nobody handles is delivered, which is what at-least-once means. Nothing is assumed of
clients, of the chain, or of the step between an upload's row and its message: a crash there leaves it queued for ever.

What is violated, and what it means:

* `execution_lost_response`. An exception of the provider call is taken for a
  refusal: the guard is released and the intent failed with its transfer on
  the chain, against INV-001 (`docs/INVARIANTS.md:7`). A
  statement that throws in `updateAfterBroadcast` has the same effect, because the
  handler learns the hash only after it.
* `execution_stranded`. A sweep commits the authorization and dies before its UPDATE (`reconcile.ts:102`, `:128`; the handler may as well, `api.ts:1057`, `:1063`). The
  authorization is committed, and the row is a candidate whose label does not say so. `alreadyCommitted` is that label (`reconcile.ts:90`): every later
  sweep commits again, the store throws (`postgresStore.ts:96`), and the exception leaves the loop (`reconcile.ts:197`). The payment is on the chain, is never
  confirmed, and keeps the sweep from those behind it, against INV-004 (`docs/INVARIANTS.md:10`: "Process crash may delay convergence but cannot
  alter the eventual financial outcome.").
* `approval_race`. The gate's two readings of the facts are not one. A decision
  approves an invoice while it is blocked (`decideApproval` takes it whatever the
  policy says); an edit that unblocks the invoice falls between the readings; the
  approval is compared with the facts before the edit and the policy is run on
  those after it. `SteadyGateIsSound` says that this needs an edit during the gate.
* `budget_aging`. A reservation older than the window is not counted any more
  while it is still held.
* `reorg_rewind`. The rescan marks the attempt and then throws, because its UPDATE of `payment_intents` sets
  `updated_at`, a column no migration creates (`reorgRescan.ts:66`). The payment stays confirmed, although
  the job is titled "Detect EVM reorgs and rewind payment state" (`reorgRescan.ts:117`).

How far INV-004 goes. `RecordedConverges` is what the document promises of a payment whose hash is recorded, and it fails wherever a commit and its label can come apart:
by a crash or a failing statement between the two, by a late PENDING verdict that overwrites `confirmed` and its label (`lagging_rpc`), and when a second call has joined
over an authorization of its own (`replay_expiry`). `ConvergesOrStrands` says that this is the only way: a payment with a recorded hash gets the status the chain
decided, or from some moment on it, or one before it in the sweep's order, is `Stranded` for ever: committed, not so labelled, and nobody at work who would label it. A row
that throws at every sweep for another reason, a status no sweep selects, or a row that starves behind one that is not stranded would violate it.
Without the guard nothing is committed, nothing strands, and `RecordedConverges` holds in demo mode under every fault (two intents, two calls, two faults).

One more fact the module shows when asked, and no run lists. `PROPERTY Converges` under a crash fault fails: a crash between the transfer and
the UPDATE that stores its hash leaves the intent `executing` for ever, also against INV-004, though no
transfer is repeated.

Which fault breaks what. Each fault alone, twice at most, with one intent, two keys
and two calls, live and with the guard:

| Property | Kept under | Broken by |
|---|---|---|
| `AtMostOneTransfer`, `ExecutionOwned`, `ConfirmedIsSettled`, `KeepsToStore`, `CorrelationDurable`, `ConvergesOrStrands` | every fault, and all together | none |
| `RecordedConverges` | `provider_reject`, `lost_response`, `dropped_response`, `rpc_timeout`, each alone | `crash`, `store_fault`, `lagging_rpc`, `replay_expiry` |
| `SpendIsSettledOnce`, `GuardLabelTrue` | every fault but one, and all those together | `replay_expiry` |
| `NoReleaseWhileOnChain` | `crash`, `provider_reject`, `dropped_response`, `rpc_timeout`, `lagging_rpc`, `replay_expiry`, each alone | `lost_response`, `store_fault` |
| `ImplementsContract` | `crash`, `provider_reject`, `dropped_response`, `rpc_timeout`, and all four together | `lost_response`, `store_fault`, `lagging_rpc`, `replay_expiry` |

The runs of INV-001 and of the contract therefore leave the faults of the last column out. `replay_expiry` takes
a call that stalls for the 300 seconds of the claim's TTL between its lookups
and its own claim, while another call for the same payment is still executing: it then joins that
execution with an authorization of its own, and both are committed. One transfer
is made all the same, because the claim of the row and the provider's key do
not age.

What the properties of the other modules leave open, because the code does:

* `ReorgRescan`: rows found in order keep their place in the rescan's order, so more than a hundred of them starve newer ones; a receipt lookup that throws
  ends the loop over missing anchors (`reorgRescan.ts:98`). The rescan's node is up to date: one that still serves a branch
  that was replaced can have it mark an attempt whose block is canonical, against `MarkedOnlyIfOrphaned`.
* `Purchases`: `addQuote` sets QUOTED whatever the status is and can overwrite PAID (`purchaseService.ts:89`); a crash between
  row and event loses the event; no event is ever published, because the poller throws (`outboxService.ts:49`).
* `Deliveries`: an upload without a hint may be extracted for two vendors, and then its two invoices are not duplicates; extraction sets
  a vendor that exists back to `pending`; a delivery that started earlier can turn a completed export into a failed one.
* `FinancialIntents`: the cron job confirms payments without syncing their mirror; the reservation of `authorizeStoredIntent` is never resolved; the bridge links an intent
  although the guard denied it (`v5Bridge.ts:50`); stored evidence of an earlier execution is served for a relinked row.
* `GuardMiddleware`: a callback that throws keeps its reservation; an escalation that is approved asks the rules again and escalates again; the
  fingerprint leaves the mandate out.
* `SettlementFacts`: the registry's verification asks one URL only; a reorganization between the two reads overstates the confirmations, and so does
  a node that still serves the receipt of a replaced block (a lagging node of the model is one block behind and serves none); with nothing expected any successful receipt is CONFIRMED.
* `ExecutionLimits`: the cap is per process and forgotten by a restart; a retry of an executed intent counts (`api.ts:835`).
* `AuthSession`: of two tabs that renew one token the loser's 401 clears the winner's session (`web/lib/api.ts:126`); a refresh under way writes the session back after
  a sign-out (`:65`); the background binding uses up the client's refresh token (`api.ts:1344`).

Each property of a passing run has a mutant of the code it depends on
(`PROJECT.json`), an operator that stands next to the original in its module:
`ClaimableAgain`, `JoinedOwn`, `LockIgnored`, `TouchedNever`, `TokenOfFirst` and so on.

## 4. Proofs

Every theorem is for any value of its module's constants. They rest on the named assumptions of the modules (what `None` is not,
that intents are numbered by age, that sets of processes are disjoint, that times and amounts are natural numbers, that the callers of the
in-memory guard are finitely many) and on no bound of the size of any set. Five theorems have a hypothesis besides, on the faults that
occur; it is their `ASSUME`, and the table of section 3 shows what happens without it.

| Module | Theorems |
|---|---|
| `PaymentExecutionProofs` | `TypeCorrect` (`TypeOK`), `ExecutionsOwned` (`ExecutionOwned`), `NoSecondTransfer` (`AtMostOneTransfer`, INV-003), `ConfirmationsSettled` (`ConfirmedIsSettled`), `CorrelationKept` (`CorrelationDurable`), `AuthorizationsFinal` (`AuthorizationFinal`, INV-005) |
| `PaymentBudgetProofs` | `BudgetSpentOnce` (`SpendIsSettledOnce`) and `LabelsTrue` (`GuardLabelTrue`), under `SteadyGuard`; `StoreKept` (`KeepsToStore`) under every fault |
| `PaymentContractProofs` | `HeldWhileOnChain` (`NoReleaseWhileOnChain`, INV-001) under `AnswersKept`, `KeepsContract` (`ImplementsContract`) and `ClosedBooksAreTrue` under `Reliable`; `ContractPromises`, of the contract alone |
| `BudgetGuardProofs` | `LedgerTyped` (`TypeOK`), `AuthorizationsApart` (`ReplayWindow`), `LedgerAgrees` (`SpendsMatchCommits`), `WindowsAreCapped` (`WindowGrantsCapped`), `ResolvedOnce` (`AuthorizationFinal`), `StoreIsAtomic` (`ImplementsStore`) |
| `ApprovalPolicyProofs` | `PolicyTyped` (`TypeOK`), `BlockedIsNotPaid` (`NoBlockedPayment`, INV-006), `SteadyGateDecides` (`SteadyGateIsSound`), `DutiesAreSeparate` (`ExecutorNotAlone`), `IntentsKept` (`IntentKept`) |
| `BackgroundProofs` | `OnlyOrphansAreMarked`, `OneQuoteIsActive`, `OneCompletion`, `DuplicatesAreCaught`, `DownloadsExist`, `BackgroundWellTyped` (`BackgroundTypeOK`) |
| `EdgeProofs` | `NoFork`, `HeadIsAlwaysTip`, `AppendOnly`, `MirrorIsTrue`, `EvidenceIsTrue`, `VerdictsTrue`, `NewestIsFound`, `OwnReservationSettled`, `BudgetBoundsPayments`, `RateIsCapped`, `RetryIsNew`, `MemoryStoreKept` (`MiddlewareKeepsToStore`), `EdgesWellTyped` (`EdgesTypeOK`) |
| `SumLemmas` | no theorem: what `SumFunctionOnSet` adds up to, and that a set of one element has cardinality one |

### The payment

The hypotheses, each the one before and more:

* `SteadyGuard`: the guard is on, and no replay claim expires while calls run. Where it expires, a second call joins an execution with an
  authorization of its own and both are committed (section 3).
* `AnswersKept`: besides, no answer of the provider is lost and no statement of the handler throws. `execution_lost_response` shows
  that INV-001 fails otherwise, so that the hypothesis is what the code needs and not what the proof needs.
* `Reliable`: besides, no node lags. A late PENDING takes a confirmed row back, which the contract does not allow.

All other faults (crashes, refusals, dropped answers, time-outs) may occur any number of times, and the theorems of
`PaymentExecutionProofs` hold under every fault and in either mode.

The invariants are layers, each inductive given the ones below:

1. `IInv`. `AtMostOneTransfer` is not inductive: it does not say why a second
   transfer cannot be under way. `IInv` adds `ExecutionOwned` (whatever a running call
   does, it does for the execution its intent is claimed for, under the key
   recorded there), `Started` (calls that have left `idle` have an intent and a
   key), `Early` (calls before the claim have no execution, and no row carries
   their id: so a claim never re-uses an execution id), `NotYetReserved` (a call that has not reached the budget has
   no authorization) and `SweepHasWork` (a sweep in the middle of a batch has a row left and
   its row a hash; without it `Current` chooses from an empty set). The
   batch's least row exists because intents are natural numbers (`WellFoundedInduction`).
2. `OutcomesTrue`, for `ConfirmedIsSettled`: what calls and sweeps believe of the chain is so. The hash a call knows is its
   execution's and on the chain (`CallTrue`); a verdict in anybody's hands is what the chain decided; the snapshot of a sweep may be stale in
   its statuses, never in its hashes (`SeenTrue`). Outcomes are final, which is why a verdict may be acted on late.
3. `GuardTrue`, for the spends and labels: one call at most is past the guard for an intent and a key (`ReplayTrue`); a call executes
   for itself over a reservation of its own, which is spent only when its transfer has settled (`CallGuarded`); a row's authorization
   is that of the call it is claimed by (`RowGuarded`); a sweep's stale copy has the row's authorization (`SweepGuarded`). Layers 1 to 3 are `Truth`.
4. `HoldsTrue`, for INV-001: a call that knows no hash is the only one to resolve its reservation, and gives it back only when nothing was sent.
5. `WorksTrue`, for the contract: while a call executes its row says `executing`, and what a closed row says is so, of
   the chain and of the budget. Layers 1 to 5 are `Agreement`.

`KeepsContract` is the refinement proper: under `Agreement` the initial state maps to the contract's, and every step of a call, of a sweep or of
the environment changes at most one of the three things the mapping shows of a payment (`TransferOf`, `BooksOf`,
`HoldOf`), in a way the contract has an action for, or is a stutter.

What the contract is worth is a theorem of `PaymentContract` alone, `ContractPromises`: closed books are true (`BooksTrue`: confirmed
is paid and, if there is a guard, over a spent budget; reverted gave the budget back; failed never sent anything), and they stay closed, with the transfer and the hold
as they are (`ClosedForGood`). `KeepsContract` hands both on to the system, `ClosedBooksAreTrue`: INV-002 and INV-005 of a payment that is over,
in one statement. The proof's invariant is `Promise`: what a hold says of the transfer (`HoldLeads`), and that closed books leave no hold behind (`BooksClosed`).

The steps are grouped by what they disturb: lemmas such as `RequestEffect`, `RowEffect`,
`ChainEffect`, `AuthEffect` and `ChainWriters` say once what a step may do to a variable, and the preservation lemmas cite them.

### The guard's ledger

`ReplayWindow` speaks of authorizations, which come several statements after their claim; `BudgetInv`
therefore speaks of every call that holds a claim (`Claimed`): the row's expiry lies a TTL behind the clock reading of each of them (`ClaimsLast`),
so that a call that may replace it reads the clock a TTL after all of them (`ClaimsApart`).

`WindowGrantsCapped` says that what is granted inside any stretch of a window's length is within its limit. The holder of the lock has seen
room in each window it has checked, and `WindowInv` says that the room is still there (`RoomSeen`): meanwhile no one reserves, a release only makes
room, and a commit moves an amount from the reservations to the spends since the same cutoff (the spends
add up to the committed authorizations, `SumRenamed`). The new grant lies at the call's own clock reading, whatever the clock shows by then,
and in no stretch that its cutoff leaves out.

Sums. `SumFunctionOnSet` folds over a set in an order `CHOOSE` fixes. `SumLemmas` shows that the order does not
matter and what adding, removing, renaming and comparing do to a sum. The induction on the size of the set
is by a minimal counterexample (`WFMin`) and stated with sets, since no prover instantiates a theorem over an operator.

### The guard's store

`GuardStore` has three fields: the fingerprints with a live claim, the stage of each call's authorization (`new`, `claimed`, `refused`, `reserved`,
`committed`, `released`) and the fingerprint it is for. Its promises are those the guard's own code relies on, whichever store it gets: a live claim is
refused to everyone else, a reservation follows a claim, and it is resolved once and one way. Three modules implement it, each with its own mapping:

* `StoreIsAtomic`: in `BudgetGuard` the interface's atomic steps are several statements. A claim is live until its expiry, so time passing is `Lapse`;
  the claim takes effect at its one upsert, the reservation at the insertion under the lock, and all statements between are stutters. A call that was slow
  may insert a claim that has lapsed by then, which is why `ClaimReplay` need not leave one behind. `BudgetInv` says at which
  places a call has an authorization.
* `MemoryStoreKept`: `GuardMiddleware` over the store in memory, with the middleware's rules and callback around it; a call that is blocked or escalated
  never asks the store, and one whose callback threw keeps its reservation.
* `StoreKept`: `PaymentExecution`, where an authorization outlives its call: a sweep commits or releases it, perhaps from a stale row, and a handler that died
  leaves it. It needs no hypothesis on the faults, because every commit and release is of a row still `reserved`; `AuthorizationFinal` follows from it and has a theorem of its own.
  It is also the one of the three a run checks (`execution_unreliable`).

### The gate

`NoBlockedPayment`: a gate reads four facts that block, one
statement after the other, and the property speaks of the end only. `GateInv` carries the reading: at a gate the history has the present facts
(`Present`), what the policy run has read so far each was so at some moment of it (`ReadIn`), and once the run ended without a block these moments
are the four existentials (`ClearIn`), which nothing takes back. `Bystander` says what any other call's step or edit leaves, `Outside` and `Within` what the call's own
step may bring.

`SteadyGateIsSound` and `ExecutorNotAlone`: `SteadyInv` says what the locals of a call mean if the facts have been `f` and nothing else since it came to its
gate (`Knows`): all read so far are those of `f`, the snapshot is that of `f`, and past the gate the invoice is payable under `f`, with an
approval by another member where `f` asks for one. A second value in the history makes the claim empty, which is the race `approval_race` shows.

`TypeOK` needs `TypedInv`: what a statement uses of a call's locals is filled in by then (`CallTyped`), and the
invoices received so far are finitely many, so that the vendor's average is a number.

### The background

* `OnlyOrphansAreMarked`: `Seen` holds of every anchor in the table and in the hands of a job, between read and write too: the block is still the
  transfer's, or was taken from it. A row that is being marked belongs to a transfer that lost its block.
* `OneQuoteIsActive`: `VersionsInOrder`. A caller's version is never beyond the next one; if it is the next one when it inserts, nobody inserted since it
  superseded, and no quote is active. The unique index does the rest.
* `OneCompletion`: `FulfilInv`. A settler between a fulfilment's row and its event is the only one there for the purchase, and the event is not out yet.
* `DuplicatesAreCaught`: `OnePasses` counts an invoice as passing from the verdict on, before the UPDATE that stores it.
* `DownloadsExist`: `Uploaded`. The key of an export is written by a delivery that put the object there, and objects stay.

### The edges

* Audit log: only the holder of the lock is between its read and its append, and what it read is still the tip. The head's
  first use is covered by `LegacyAssumption`: the newest of the rows from before migration 005 is the end of their chain.
* Financial intents: `RowsTrue` is the two properties, `RequestsTrue` what calls
  under way carry with them: a sync's payment is confirmed, a snapshot's envelope is true although its row may be another one's by now.
* Guard as a library: `Tells` gives for each stage of a call the state of its reservation, its receipt and the money; `GrantsInv` that the calls holding a
  reservation or a commit add up to no more than the budget and include all that moved money.
* Settlement: `ReceiptCurrent`. The receipt a verification holds is the transaction's
  present inclusion, unless it is marked stale. The depth follows because a node that lags only makes the confirmations fewer.
* Discovery: `Searched`. Every transfer above the
  end of the next window lies before the search's start, and evidence is only sought for a transaction with a transfer of its own.
* Limits: `Capped`, of every execution as the first of an hour. The new one is the latest, and it is let in when the hour that ends with it has room.
* Session: `AnswersAreNew`, an answer on its way to a tab is a pair that is not stored,
  that no call carries and no other tab waits for; `RefusedIsGone`, a call about to be sent again carries a token that is not the stored one.

### Types

`TypeOK` of the three large modules is proved with their invariants. The small modules' are `BackgroundTypeOK` and `EdgesTypeOK`, of the
parts side by side: a behaviour of `MCEdges` or `MCBackground` moves one part and leaves the others as they started, so it is a behaviour of each
part (`EachPart`, `PartsKeepToThemselves`), whose own typing then applies.

Few of these types are inductive. They say of sets that they hold one element at most, of a list that it has each element once, of what a job holds that it came
from a row; the proofs say so first:

* `OrderKept`: the rescan's list of updates has every attempt once, so that the place of a row exists (`PlaceOf`) and moving it to the end leaves a list of the same
  kind. `ChainBounded` relates the heights of anchors and blocks, `HandsBounded` the rows in the hands of a job.
* `PurchaseShape` adds little: what `OneQuoteIsActive` and `OneCompletion` need of the workers is their type already.
* `NumbersReal`, `HandReal`: a message that is no upload and no export is the number of an invoice that was inserted, in the topic and in the hands of a
  delivery, which holds one message at most; who publishes one has an invoice of its own.

### Only model-checked

* Liveness (`ConvergesOrStrands`, `LostAnchorsAreMarked`, `ExportsEnd`), which is out of the prover's reach.
* The properties the violation runs refute, which no theorem could state.

## 5. Not modelled

* The audit entries the handler appends along the way and the receipts it records: a failing append inside the try block has
  the effect of a `store_fault` at the same place, and after the confirmation none, as the catch
  block's update does not match a confirmed row. `x402Guard.ts:63` keeps one `lastReceipt` for all calls, so that an audit entry may carry another call's receipt hash.
* `reconciliation_attempts`, `failure_reason` and timestamps nothing orders by.
* In `PaymentExecution` fulfilment is one step; `Purchases` has its statements. The block anchor is in `ReorgRescan`, the mirror in `FinancialIntents`; the three are
  not composed with `PaymentExecution`, whose state space is at its limit.
* `executed`, the legacy status nothing writes to an intent. A failed intent's `guard_status` stays `reserved` (`api.ts:1190`).
* In `ApprovalPolicy`: several vendors, token and chain, risk scores, confidences
  and missing numbers (rules of the shape of the modelled ones), approvals from
  before migration 007 (without a hash, always refused), purchase and quote of an intent.
* Stellar: one HTTP query of one transaction, without state. The kernel's rails other than settlement are stubs that answer at once; its budget functions have no caller.
* Posture counts and listings of v5; hashing of receipts; the guard's HTTP adapters.
* `encoreGuardSqlAdapter.ts`, which routes the guard's SQL by its text: the statements themselves are in `BudgetGuard`.
* Roles, memberships and the demo login: lookups without a protocol.
* `waitForTransferConfirmation` and `buildExpectedUsdcFromTx`, which nothing calls.
* SDK, CLI, MCP server, integrations: each function is one HTTP request. Web pages render what they fetch; the invoice page makes a fresh
  idempotency key per click (`page.tsx:109`), for the model a client with any key. Scripts, examples, the gateway and the demo agent drive the
  API from outside and keep no state of the system.

## 6. Plan

Done: the core (`PaymentExecution`, `BudgetGuard`, `ApprovalPolicy`, `AuditChain`), everything around it (the
modules of `MCBackground` and `MCEdges`), and a theorem for every safety property of the passing runs. Left, in this order:

1. Composition: the confirmation in `PaymentExecution` with the mirror's sync and the anchor, on an instance with one call and one sweep.
2. `ApprovalPolicy` with two vendors.
