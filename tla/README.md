# Safety Net: a TLA+ model of the backend

Safety Net watches DeFi positions of its users, warns them, and -- with
autopilot -- repays a loan for them before it is liquidated. It is an async Rust
service (tokio, axum) around PostgreSQL, Redis and an Ethereum node. This
directory holds TLA+ modules for the parts whose correctness depends on the order
of awaits, on concurrent tasks and on what fails in between, TLC configurations
that check them on small instances, and TLAPS proofs for all values of the
constants. Paths below are relative to the crate's own `src/` directory,
except `migrations/`.

## 1. Inventory

### 1.1 What is started, and what is only there

`main.rs` builds the database pool, Redis, an empty `PositionStore`, `WsState`, the
`AlertService`, the simulator, the `HealthMonitor`, the `BlockSubscriber` (if
`ETH_RPC_WS` is set), the GraphQL schema, the auth routes and the WebSocket
route. It starts neither the orchestrator with its `GuardianSigner` and
`TxSubmitter`, nor the LP and drawdown monitors, the position indexer, the rate
limiter or `X402Client`. Those are complete parts with an interface of their own, and are
modelled as what they do when they are called, by any callers at any time.

### 1.2 Components

| Component (code) | State it keeps | Operations | Model |
|---|---|---|---|
| Autopilot pipeline (`executor/orchestrator.rs`, `signer.rs`, `submitter.rs`, `simulator.rs`) | none of its own: `transactions`, `guardian_signers`, the autopilot columns of `users`; the chain | `execute_autopilot_action`, `check_authorization`, `submit_public`, `wait_for_confirmation` | `AutopilotPipeline`, `TxLifecycle` |
| `TxState` (`executor/tx_state.rs`) | -- | the table of transitions | `TxState` |
| WebSocket hub (`api/ws.rs`) | broadcast channel, map of user channels, two tasks per connection | `handle_socket`, `register_user`, `unregister_user`, `broadcast`, `send_to_user` | `WsHub` |
| Rate limiter (`api/rate_limit.rs`) | a Redis counter with an expiry per key | `check` | `RateLimiter` |
| Block subscriber, health monitor (`indexer/block_subscriber.rs`, `monitors/health_monitor.rs`) | loop state, block number, shutdown channel | `run`, `on_new_block`, `check_all_positions`, `check_position`, `handle_low_health_factor` | `HealthMonitor` |
| Authentication (`api/auth.rs`, the GraphQL handler of `main.rs`) | sessions in Redis (7 days), `users` | `connect_wallet`, `get_session`, `verify_token`, `graphql_handler` | `Sessions` |
| Billing (`billing/*.rs`) | tier and stream in `users`; charges | subscriptions; charges, fees | `Accounts` (subscriptions) |
| Alert service (`alerter/*.rs`) | none; `alerts`, the settings in `users` | `send_health_factor_alert`, `send_out_of_range_alert`, `send_drawdown_alert` | `AlertService`; one action of `HealthMonitor` |
| Drawdown monitor (`monitors/drawdown_monitor.rs`) | through store and `token_watchlist` | `check_all_tokens`, `update_price` | `Watchlist` |
| Position indexer (`indexer/position_indexer.rs`) | `lending_positions`, `lp_positions`, active wallets | `index_user`, `index_user_stub` | `PositionIndexer` |
| LP monitor (`monitors/lp_monitor.rs`) | through the store | `check_all_positions` | `LpMonitor` |
| Position store (`data/store.rs`) | lending and LP positions, watches, per-user indexes, last block, wallets | insert, update, snapshot | by part, in the module of its user |
| Database (`data/db.rs`, `migrations/`) | the tables | one statement per function, no transactions | the statements of the modelled handlers |
| GraphQL (`api/graphql.rs`) | none | settings, signers, snooze, watchlist, subscription, queries | the mutations |
| Protocol adapters (`protocols/*.rs`) | -- | contract reads, `is_in_range` | the order of reads in `PositionIndexer`; `is_in_range` in `LpMonitor` |
| Calldata, decoding, repay and fee formulas, test doubles | -- | -- | not modelled (section 6) |

### 1.3 How they interact

Block -> `BlockSubscriber` -> all checks of a block at once -> `alerts` row ->
`Simulator` (reads) -> `AlertService` (push, Telegram, mail, then
`WsState::broadcast`) -> `alerts` row resolved -> `WsState::send_to_user` -> history.
A call of the pipeline reads `guardian_signers` and `users` twice, writes its
`transactions` row before and after talking to the node, and tells the user's
channel after each acknowledged write. The indexer writes the position tables from
the chain; the LP and drawdown monitors work on what the store holds. A login leaves
a session in Redis, through which later GraphQL requests find their user. GraphQL
mutations write the same rows from other tasks. Everything is shared by `Arc` and by
row id; there are no database transactions, and no UPDATE of `db.rs` has a condition
other than the id.

### 1.4 What is hard

- **Interleavings.** Each await of the pipeline lets a revocation, a new budget or
  another call in; all checks of a block run at once; a connection has two tasks,
  one aborting the other; requests of one client share a counter; two first logins of
  a wallet race; calls of `index_user` overlap for one user; nothing keeps two rounds of a monitor apart.
- **Stale copies.** The monitors work on rows copied one by one, and the drawdown monitor writes
  such a copy back, over what a feed or another round has stored meanwhile; a delivery goes by settings it read awaits ago; a wallet's tokens are read by index
  while tokens come and go.
- **Partial failure.** A call makes up to five writes and two node calls, each of which may
  fail, or succeed without its answer arriving; the error branches then overwrite rows. One
  check, one channel, one read of several fails.
- **Crashes.** Nothing resumes a call or an alert: what the tables say at the
  crash is what remains.
- **Order.** Record before broadcast; deliver before resolve; tell after write.
- **Two clocks.** A session has a date of its own and a lifetime in Redis.
- **Edges.** A reference price of 0, a price without a value, a change too large for its column, the health
  factor of a user without debt or with next to none, both ends of a tick range.
- **Eventually.** Calls return, records settle, blocks end, a refused client recovers,
  tasks of a closed connection go.

### 1.5 What makes each part correct

- Pipeline: write-ahead of the broadcast; confirmed only with a receipt; broadcast
  only what a signer of that user allowed; revocation effective up to the second check;
  the user never told more than the table holds; every call returns and settles
  its record; the record leaves `TxState`'s table in two known places only, and what the user is told never does.
- Hub: a user's live receivers are on the channel that is in the map (which is not to say that anybody reads them, see section 5); lagging is
  recovered from; no task outlives its connection.
- Limiter: the excess over the limit is bounded by what is in flight and what failed; no key
  without an expiry; refusals do not lock out.
- Monitor: every position of a snapshot is served or its own failure is the reason;
  an alert leaves the user's list only after it went out, and goes out once; blocks end; a shutdown that was received works.
- Sessions: one user per wallet; a token works from the moment it is handed out until its date,
  and never past it, for its owner only.
- Subscriptions: tier and stream of a row belong together and to the row's user.
- Alert service: nothing is sent without leave; one channel's failure is no other's; every
  alert reaches the clients, once.
- Drawdown: a round serves every watch it collected and alerts for exactly the falls it saw, whatever other rounds do;
  store and table agree after it on what nobody else wrote; removal is final.
- Indexer: a row was true while its writer ran, and is not undone by a call that had ended before; the enumeration
  misses no token that stayed, as long as none left meanwhile; failing reads cost no monitoring.
- LP monitor and index: each round tells of every position stored while it ran, with a range it had; the user's list holds an entry for each insert.

## 2. Modules

| Module | What it is |
|---|---|
| `TxLifecycle` | abstract: what the `transactions` table and the chain promise about a transaction |
| `TxState` | the table of transitions |
| `AlertLifecycle` | abstract: what the `alerts` table and the clients are promised about an alert |
| `AutopilotPipeline` | the pipeline, the settings around it, faults; implements `TxLifecycle`, departs from `TxState` in two places |
| `RateLimiter` | `RateLimiter::check` for one key |
| `WsHub` | `WsState` and `handle_socket` |
| `HealthMonitor` | the loop, the checks, the alert's delivery; implements `AlertLifecycle` |
| `Sessions` | logins, sessions, the verification of requests |
| `Accounts` | the subscription mutations of verified requests; extends `Sessions` |
| `AlertService` | deliveries with settings and channels, snoozes; implements `AlertLifecycle` |
| `Watchlist` | watches in table and store, price feed, drawdown rounds |
| `PositionIndexer` | `index_user` over the chain, with the tables it writes |
| `LpMonitor` | LP positions of the store, their list by user, the rounds |
| `AutopilotPipelineProofs`, `ApiProofs` (limiter and hub), `HealthMonitorProofs`, `AccountsProofs`, `AlertServiceProofs`, `WatchlistProofs`, `PositionIndexerProofs`, `LpMonitorProofs` | the theorems about them |
| `MC*` | instances for TLC: model values, small sets, symmetry |

Definitions marked `Mutant:` stand beside the action they vary. They are not part of
any specification: each is a plausible slip in that code, under which TLC finds one
of the properties violated.

Statements fail in the same two ways everywhere: *refused* has no effect, *lost* has its effect
without its acknowledgement. `Faults` says which of them a run allows.

### 2.1 AutopilotPipeline, TxLifecycle, TxState

One action per await of `execute_autopilot_action`; `pc[p]` is the await call `p`
stands at.

| Code | Action |
|---|---|
| calldata, before any await (a rebalance is refused here) | `Start` |
| `simulate_repay` (reads only) | `Simulate` |
| `create_transaction` | `CreateTransaction` |
| `check_authorization`, read of the signer, then of the user; in the orchestrator and again in `execute_autopilot` | `ReadSigner`, `ReadBudget` |
| `submit_public`: UPDATE, `eth_sendRawTransaction`, UPDATE | `MarkSubmitted`, `SendRawTransaction`, `StoreHash` |
| `wait_for_confirmation`: receipt, UPDATE either way | `GetReceipt`, `ConfirmTransaction`, `ReceiptMissing` |
| error branches | `MarkFailed` |
| `update_autopilot`, `create_guardian_signer`, `revoke_guardian_signer` | `SetAutopilot`, `CreateSigner`, `RevokeSigner` |

`Write` is one statement on the call's row. A notification belongs to the step of the write it follows
(nothing awaits in between). `chain[p]` is external: a pooled transaction is executed,
reverted or dropped, whenever the chain decides. The signed bytes of the code are a
placeholder, so that the node's answer is left open. The 300 s timeout of the wait
does not matter to the model: the receipt is asked for once.

`TxState!CanTransitionTo` is `can_transition_to` with the states' data left out. The executor does not
consult it. `FollowsTable` asks of every single step of a record to be in the table, and names the two that are not
(`Departs`): pending to submitted, which leaves out the states in between, and confirmed to failed after the
acknowledgement of the confirming UPDATE was lost. Of what the user is told it allows no departure.

### 2.2 RateLimiter

`Get` and `Reject` are the GET with its decision, `Incr` the atomic INCR and EXPIRE.
Failing calls of Redis are ignored by the code: a failed GET counts as 0, a failed
INCR admits uncounted. Each failure is counted in `failures`, so that the bounds can say what it
costs. Time is a `Tick`; `recent` remembers the admissions of the last
window, each with its age and a number within its tick. Both serve the properties, the code keeps neither.
`Incr` may come ticks after its `Get`.

### 2.3 WsHub

`Authenticate`, `Subscribe`, `Register`, `Abort`, `Leave` are the steps of `handle_socket`;
`Forward` and `Unregister` those of the send task; `Cancel` is the abort taking effect,
which may come before, or after, the cleanup. A broadcast channel is a
count of messages with a position per receiver: what the properties ask is which
receiver has seen how much. Of a user's channel they ask only which one it is: `_user_rx` is never read. Each registration under the write lock is one action.

### 2.4 HealthMonitor

`OnNewBlock` takes the snapshot and starts a check per active position; each await of a check that
changes something is an action (`CreateAlert`, `SimulateRepay`, `AttachSimulation`,
`Deliver`, `ResolveAlert`, `SendAlertToUser`, `InsertHealthHistory`); `Join` ends the block.
Health factors are three levels: unknown (0), low, safe. An alert is identified by
position and block, since a check inserts at most one. Around the loop the store is
written (`InsertPosition`, `UpdateHealthFactor`), users snooze (`SnoozeAlert`), and a
shutdown is sent. In `main.rs` nobody fills the store; the model lets it be written as
its interface allows.

To `AlertLifecycle` an alert is a position and a block, stored when its row is inserted, simulated when
the simulation is attached, shown when it is broadcast (`broadcast` counts, so that a second time would be seen), settled when `resolved_at` is set.

### 2.5 Sessions and Accounts

| Code | Action |
|---|---|
| `connect_wallet` with a verified signature | `Connect` |
| `get_user_by_wallet` | `Lookup` |
| `update_user_last_seen`, its error ignored | `TouchUser` |
| `create_user`, on a table where `wallet_address` is UNIQUE | `CreateUser` |
| SETEX of the session | `StoreSession` |
| `graphql_handler`, `verify_token`, `get_session`, `is_expired` | `Verify` |
| `start_subscription`, `cancel_subscription`, in GraphQL and `X402Client` | `StartSubscription`, `CancelSubscription` |
| `ctx.data::<Uuid>()?` without a user | `RejectAnonymous` |

A token is the attempt that made it. `session[a].expires` is the date the session carries,
`until[a]` the time Redis drops the key: the second is counted from a later moment. A request
that was verified carries out its operation any time later, also after the session is over.

### 2.6 AlertService

`Fire` is a monitor's INSERT with the call that follows it; `GetUser` the read of the settings, an error of
which is taken for nobody to notify; `SendToToken`, `SendToChat`, `SendAlertWithActions`, `SendMail`
are the channels, each asked once, in the order of `Place`, and its answer dropped; `todo` is what is left to ask; `BroadcastAlert` and `ResolveAlert`
end the delivery. `ToAsk` are the channels the settings allow and a delivery of that kind has. Users change settings and
snooze. `allowed` is history: the channels that were on at some time during the delivery; `shown` counts the broadcasts.
To `AlertLifecycle` an alert is its number; simulations are not this module's. A snooze is a flag: its time, and the
list the user sees, are read by queries only.

### 2.7 Watchlist

| Code | Action |
|---|---|
| `add_to_watchlist`, `remove_from_watchlist` | `AddTokenWatch`, `RemoveTokenWatch` |
| `insert_token_watch`, `remove_token_watch` of the store | `LoadWatch`, `DropWatch` |
| `update_price`: copy, store, table | `FeedRead`, `FeedStore`, `FeedTable` |
| `get_all_token_watches`, one entry after the other | `BeginRound`, `Collect` |
| `check_token` up to its first await, without prices and with them; UPDATE; INSERT of the alert; delivery | `Skip`, `Check`, `Update`, `Create`, `Deliver` |

Prices are whole numbers and changes whole percents; `FitsColumn` is the range of the DECIMAL(5,2)
column. `None` as a fed price is a float that is not a number. The two writes go through
`UpdateTokenPrice`, which like `get_mut` and `WHERE id` changes nothing that is gone. `check_all_tokens` and
`update_price` take `&self` without a lock: any number of rounds (`Rounds`) and feeds (`Feeders`) overlap, each a task that
may call again. `touched[r]` is history: the watches whose row a user, a feed or another round wrote since `r` began.

### 2.8 PositionIndexer

One action per await of `index_user` and of the adapters it calls: `ReadAccount`, `UpsertLending`, `ReadBalance`,
`ReadToken`, `ReadPosition`, `UpsertLp`, `AddWallet`; `index_user_stub` is a call that begins at `AddWallet`, and
`RemoveWallet` is `remove_active_wallet`. Of a health factor it matters whether it is no Decimal (`NoDebt`), a Decimal that its
column cannot hold (`TooLarge`), or an ordinary one. The chain moves between any two (`ChangeAccount`,
`ReceiveToken`, `SendToken`, `Withdraw`): when a token leaves a wallet, the last takes its index. Reads
are of the latest block, and an index past the end reverts. `seen`, `kept`, `moved`, `before` and `erred` are
history the properties speak of.

### 2.9 LpMonitor

`Insert` and `Push` are the two accesses of `insert_lp_position`, `UpdateRange` is `update_lp_range_status` with
`is_in_range`'s answer. Any number of rounds overlap, since nothing keeps them apart. `Collect` copies entries one by one while others write; `Check` tells the clients.
`handle_out_of_range` has no action: its condition compares a value with itself.

## 3. Runs

| Run | Instance | Properties |
|---|---|---|
| `PipelineFaults` | 2 calls of 1 user, 2 signers, 2 permissions, all faults | `TypeOK`, `BroadcastIsRecorded`, `ConfirmedIsOnChain`, `ToldIsRecorded`, `RevocationStops`, `FollowsTable` |
| `PipelineUsers` | 1 call, 2 users, 2 signers, 3 permissions, 2 budgets, 4 requests, faults of the node, fair | `BroadcastIsAuthorized`, `ImplementsLifecycle`, `CallsSettle` |
| `RateLimitWindow` | 3 requests, limit 4, window 4 ticks, 2 failing calls, fair | `CounterBound`, `WindowBound`, `NoImmortalKey`, `NeverLockedOut` |
| `HubConnections` | 2 connections (anonymous or of a user), 2 channels, capacity 1, 3 broadcasts, fair | `ReceiverIsRegistered`, `CatchesUp`, `ConnectionEnds` |
| `HealthFaults` | 2 positions, a plain and a sampled block, 1 snooze, all faults | `UndeliveredStaysPending`, `BlockIsComplete` |
| `HealthLiveness` | 1 position, 3 blocks, 1 snooze, failing statements, fair | `ImplementsAlertLifecycle`, `BlocksEnd`, `ShutdownStops` |
| `Accounts` | 2 attempts, 2 wallets, 2 rows, 3 requests, 3 points in time, all faults | `TypeOK`, `LoginsAgree`, `SessionLastsItsTime`, `SubscriptionIsWhole`, `OnlyOwnersSubscribe` |
| `Alerts` | 2 alerts of any kinds, all channels, 2 changes of settings, all faults, fair | `ImplementsAlertLifecycle`, `OnlyAllowedChannels`, `DeliveryIsComplete`, `AlertsReachClients` |
| `Drawdown` | 2 rounds, 2 watches, prices 80, 2000 and no number, references 0 and 100, 4 edits, 2 feeds, all faults | `TypeOK`, `RoundAlertsTheDue`, `RoundAligns`, `RemovedStaysRemoved` |
| `Indexing` | 2 calls for 1 user, 2 tokens, 2 health factors, none and one too large, 4 events on the chain, all faults | `TypeOK`, `RowIsOfItsTime`, `ListIsComplete`, `ReadErrorsAreSurvived` |
| `LpRounds` | 2 rounds, 2 positions of one of 2 users, ticks at and beyond both ends of the range, 4 writes | `ListedAsInserted`, `RoundTellsAll` |
| `PipelineOkExecuted` | 1 call, no fault | `OkIsExecuted`, violated |

What each property says is written above its definition. The types of limiter, hub, health monitor, alert
service and LP monitor are not checked in a run but proved (section 4).

`PipelineOkExecuted` ends in a counterexample. `orchestrator.rs:73` calls `TxResult` the "Result of a
successfully executed transaction"; but a reverted transaction has a receipt, is confirmed and returned
as a result (`submitter.rs:168`), and so is one without a receipt, whose record is `failed`
(`submitter.rs:194`).

### 3.1 Bounds, and why they are enough

- Calls of the pipeline share nothing but settings, which any number of steps can
  change between two of their steps. Two calls, and one call with two users and two signers, meet
  every pair of a step and a change. `PipelineUsers` leaves out the faults of the database: a lost
  acknowledgement lets the error branch overwrite `confirmed` (section 5), and a refused UPDATE in an error
  branch leaves the record unsettled, which is what `CallsSettle` excludes by "as long as the database answers".
- `MaxRequests`, `Window`, three requests and two failures give an excess of up to four, and a window in which
  admissions of several lives of the key can meet. `Burst` and `MaxCount` are 10, above the 8 the
  bounds allow, so that they cut off no violation.
- In the hub two connections of one user are what registration and cleanup race
  about; capacity 1 with 3 messages makes a receiver lag; two channels let an entry be
  created anew.
- In the health monitor `SampleEvery = 2` stands for 10, so that two or three blocks hold
  plain and sampled ones. A snooze matters in that it competes with the delivery for the row; one is enough to come
  before or after each of its statements.
- Two attempts race for one wallet or log into two; `Ttl = 1` with three points in time lets a SETEX come a
  tick after the session's date was set, and a request before, at and after its end. Three requests start,
  cancel and start again.
- Two alerts of any kinds are delivered at once; two changes switch a channel on and off under a delivery.
- Two watches let one check fail before or after the other; two rounds let one write back what it read before the
  other, or a feed, wrote. 80 is at the threshold of -20 %, 2000 a change that does not fit the column, and what is no number
  is stored as 0, a price without a value; four edits add and load two watches, or add, load, remove and add again.
- Two calls overlap or follow each other; four events give the wallet two tokens, move one and
  change the account, to no debt or next to none among others.
- Four writes insert a position twice and move it out of and into its range, under two rounds of which each may begin,
  end and begin again at any time.

`HubConnections`, `Accounts`, `Alerts` and `Indexing` do not check for deadlock: messages, attempts,
alerts and events are bounded and may all have happened. The pipeline's settings, the limiter's clock,
the health alerts' store and the drawdown and LP rounds keep the other systems going.

### 3.2 Fairness

Weak fairness of a task's step says that the tokio runtime polls a task that can run, and
that a statement or a call it awaits is answered or fails. The latter is the
weaker assumption of the two: PostgreSQL and the HTTP clients are used with their
default timeouts, and a server that accepts a connection and never answers is outside
the runs of liveness (the clients of the alerter, e.g. at `email.rs:78`, have no timeout). Where it matters:

- `PipelineUsers`: `WF` of each call's `Step`; nothing of users, caller or chain.
- `RateLimitWindow`: time passes, and a request that was let through goes on.
- `HubConnections`: both tasks of a connection are polled, an abort takes effect. A client
  need not leave, and messages need not come.
- `HealthLiveness`: ticks come, checks are polled. `Stop` is strongly fair: `tokio::select!`
  picks among ready branches at random, and the branch is ready whenever the loop is idle.
- `Alerts`: each delivery goes on, so that each request to a channel is answered or fails. That is an assumption about the
  servers, since the clients have no timeout; and the process goes on, as a crash is `HealthMonitor`'s matter.

The other runs are about safety and assume nothing.

## 4. Proofs

TLAPS proves the theorems below for any sets of users, signers, calls, positions, connections, watches, feeds and rounds, any
finite sets of requests and tokens, any permissions, prices, thresholds and budgets, and any values of the bounds. They rest on the assumptions
`ConstantsAssumption`, `LimiterAssumption`, `HubAssumption`, `MonitorAssumption`, `SessionsAssumption`,
`WatchlistAssumption`, `AlertAssumption`, `IndexerAssumption`, `LpAssumption` and on `NoneAssumption` of two modules,
which TLC evaluates in the runs.

| Theorem | States |
|---|---|
| `AutopilotPipelineProofs!TypeCorrect` | `Spec => []TypeOK` |
| `WriteAhead` | `Spec => []BroadcastIsRecorded` |
| `Confirmation` | `Spec => []ConfirmedIsOnChain` |
| `Authorization` | `Spec => []BroadcastIsAuthorized` |
| `Notification` | `Spec => []ToldIsRecorded` |
| `Revocation` | `Spec => RevocationStops` |
| `Refinement` | `Spec => ImplementsLifecycle`, provided `"db_lost"` is not among `Faults` |
| `TableDepartures` | `Spec => FollowsTable`, lost acknowledgements included |
| `ApiProofs!LimiterTypes` | `LimiterSpec => []LimiterTypeOK` |
| `CountBounded` | `LimiterSpec => []CounterBound`, Redis failing or not |
| `WindowBounded` | `LimiterSpec => []WindowBound`, Redis failing or not |
| `KeysExpire` | `LimiterSpec => []NoImmortalKey` |
| `HubTypes` | `Spec => []TypeOK`, of the hub |
| `ReceiversRegistered` | `Spec => []ReceiverIsRegistered` |
| `HealthMonitorProofs!TypeCorrect` | `Spec => []TypeOK` |
| `Delivery` | `Spec => []UndeliveredStaysPending` |
| `Completeness` | `Spec => []BlockIsComplete` |
| `AlertRefinement` | `Spec => ImplementsAlertLifecycle` |
| `AlertServiceProofs!AlertTypes` | `Spec => []TypeOK` |
| `ChannelsAllowed` | `Spec => []OnlyAllowedChannels` |
| `Delivered` | `Spec => []DeliveryIsComplete` |
| `DeliveryRefinement` | `Spec => ImplementsAlertLifecycle` |
| `AccountsProofs!TypeCorrect` | `Spec => []TypeOK` |
| `Logins` | `Spec => []LoginsAgree` |
| `Lifetimes` | `Spec => []SessionLastsItsTime` |
| `Subscriptions` | `Spec => []SubscriptionIsWhole` |
| `Owners` | `Spec => OnlyOwnersSubscribe` |
| `WatchlistProofs!TypeCorrect` | `Spec => []TypeOK` |
| `Removal` | `Spec => RemovedStaysRemoved` |
| `RoundsServe` | `Spec => []RoundAlertsTheDue` |
| `Alignment` | `Spec => []RoundAligns` |
| `PositionIndexerProofs!IndexerTypes` | `Spec => []TypeOK` |
| `Rows` | `Spec => []RowIsOfItsTime` |
| `Errors` | `Spec => []ReadErrorsAreSurvived` |
| `ListsAreComplete` | `Spec => []ListIsComplete` |
| `LpMonitorProofs!LpTypes` | `Spec => []TypeOK` |
| `Listed` | `Spec => []ListedAsInserted` |
| `RoundsTell` | `Spec => []RoundTellsAll` |

### 4.1 Why the invariants need strengthening

- *Pipeline.* `BroadcastIsRecorded` says nothing of where the call stands, so it is not
  preserved by `SendRawTransaction` alone. The inductive invariant ties `pc` to the
  record: which statuses and hashes are possible at each await, that nothing is
  broadcast before `"send"`, that a call at `"confirm"` has a receipt, and that a call
  past `"signer1"` has `seen` a signer row of its user that permits the request. The
  last part is stable because rows are never given another owner or permission, only
  revoked.
- *Refinement.* Each step of the pipeline maps to a step of `TxLifecycle` or a
  stutter; the invariant supplies the abstract guards, e.g. that
  `MarkFailed` runs on a record that is not yet confirmed -- which is exactly what a lost
  acknowledgement of the confirming UPDATE breaks.
- *Table.* Which status a record has at each await (`RecordInv`) says where an UPDATE finds it, and `ToldInv` what its user
  has heard by then: so each step is one of the table, or one of the two departures. The theorem covers lost
  acknowledgements, unlike the refinement.
- *Limiter.* Count plus requests between GET and INCR stays below the limit plus
  their number plus the failures: a request enters the interval only when the count is below the limit,
  or by a failure that was counted. The bound on a window lives longer than a key does: `WindowInv` keeps that what
  was admitted in the window is no more than the count and the failures together, which a tick preserves because the
  key outlives what it counts -- when it expires, all that is left of the window was admitted since its last write
  (`Unpaid`), and so without being counted, by a failure.
- *Hub.* `ReceiverIsRegistered` needs that a connection has no receiver before it
  registers: otherwise setting its user could break it.
- *Health monitor.* For a check past `Deliver` its alert is in `broadcast`; past
  `SendAlertToUser`, in `direct`; a check that is done has both if its row was low; keys
  of later blocks are untouched.
- *Life cycle of an alert.* Both refinements need the converse of what the safety properties say: not that what must
  have happened has, but that what comes next has not happened yet. `LifeInv` says that a check before
  `Deliver` finds its alert shown no time yet, and that no later block has alerts; so that the count of the
  broadcasts, which the abstract `Show` lets become one and no more, stays at one.
- *Alert service.* `DeliveryInv` ties the count `shown` and `todo` to the await; `RowOf` says that what a call has asked and
  has yet to ask together are `ToAsk` of the settings it read, for every kind of alert, and lie within `allowed`, which also
  contains what the user allows now, as long as the call runs: so a change of settings before `GetUser` is
  remembered by the time it is read.
- *Accounts.* `SessionInv` says at which awaits an attempt has a session and what of it is stored; `LifetimeInv`
  that a session is dated no later than a lifetime from now when SETEX runs, so that Redis keeps it long
  enough; `RequestInv` that a request's user came through a session that was stored, and a stored session
  no longer changes. That two users of one wallet cannot come about is the guard of the UNIQUE constraint in
  `CreateUser`, and that `Lookup` and `CreateUser` are two statements costs the second login its answer, no more.
- *Watchlist.* `AtInv` places the check a round has under way and keeps what it has decided about its copy; `ServedInv`
  divides the watches of a round into those to come, the one being checked and those served. Both speak of one
  round's own variables, so a step of another round leaves them alone. `AlignInv` follows a watch nobody else writes from the
  store's write to the table's; a write of another round puts the watch into `touched`, and so out of it.
- *Indexer.* `CallInv` ties what a call is about to store to what it has seen; `WriterInv` says of
  each row that its writer is a call for that user past its statement; `LaterInv` is the second half
  of the property, and holds since a call that has ended writes no more. For the errors, the invariant says that a call
  which came to its statement with a factor the column cannot hold has read it from the account.
- *List of tokens.* `ScanOf` says where each token to be stored stands: at an index still to be read, or
  among those found, or in hand. A token that arrives is appended behind them; one that leaves sets `moved`
  for every call that may miss another. Behind the enumeration, what was found is in `lp` or still to be written. That the list of a
  wallet is injective is part of the invariant, and so the count of indexes never exceeds the number of tokens.
- *LP list.* Entries of a position on its user's list are a set of indexes (`Entries`), which `Push` extends by one new
  index; the lists of other users keep none, since `Push` appends to the owner's only.
- *LP rounds.* While a round runs, `held` contains what the store holds and what was copied of it (`SnapInv`), and
  what is no longer to be told of has been told as it was copied (`ToldInv`), for each round by itself; a write of the store
  is added to what every running round holds.

### 4.2 Only model-checked

Liveness (`CallsSettle`, `NeverLockedOut`, `CatchesUp`, `ConnectionEnds`, `BlocksEnd`, `ShutdownStops`, `AlertsReachClients`)
is beyond the prover, which does not reason about fairness. Every invariant and every action property of the
passing runs has a theorem. `LpMonitor!TypeOK` and the like are proved for all constants and need no run.

## 5. Disagreements and surprises

Besides the run of section 3, these were met while modelling; the models do what the code does.

Pipeline:

- "Check daily spending limit" (`signer.rs:86`) compares with a sum nobody increases:
  `signer.rs:127` says "Would be done in submitter after confirmation", and is not. Two calls within the budget each are
  both broadcast.
- `autopilot_enabled` is read by nothing in the pipeline: `check_authorization` looks at the
  budget only, and `orchestrator.rs:305-306` has an `is_autopilot_enabled` nobody calls.
- When the acknowledgement of the confirming UPDATE is lost, the error branch overwrites
  `confirmed` with `failed`; `tx_state.rs:112` says "Terminal states cannot transition".
  This is why the refinement leaves `"db_lost"` out; `FollowsTable` names it as one of two departures.
- The row goes from `pending` to `submitted`. The table lets only a signed transaction be submitted (`tx_state.rs:117`),
  and its test asserts the step is forbidden ("Can't skip states", `tx_state.rs:240-242`). The other departure.
- An error in the first authorization check, after the row was inserted, returns without
  settling it; the row stays `pending`.
- Nothing prevents two transactions for one alert (`orchestrator.rs:163`).
- What is signed is 32 zero bytes, whatever the calldata (`orchestrator.rs:263-291`).
- `add_guardian_signer` slices 20 bytes of a UUID's 16 and panics (`graphql.rs:628`).

Hub, limiter, health monitor:

- A shutdown sent before `run()` subscribes (`block_subscriber.rs:49`) finds no receiver and is lost, without an error.
- `send_to_user` is the "Send message to a specific user" (`ws.rs:43`), but the receiver each connection
  registers is `_user_rx` (`ws.rs:119`) and never read: no such message reaches a client.
- A user's channel stays in the map when the send task is aborted before its
  cleanup, which `ws.rs:61` would have removed.
- `max_requests` is "Max requests per window" (`rate_limit.rs:15`); GET and INCR are two calls, and
  requests that read a count together are admitted together.
- Each admitted request restarts the expiry, so that a client which stays below the
  limit in every window may be refused.
- A position that stays low fires a new alert every block (`health_monitor.rs:78`).
- Delivering an alert resolves it, so that a snooze does not show (`GqlAlert` looks at
  `resolved_at` first), and resolved alerts are in no list.

Accounts and alerts:

- A start of a subscription overwrites the stream of one that runs, and nobody stops the old one. Nothing enforces
  `tier`, and `is_subscription_active` answers true.
- Charges are inserted with `intervention_id` NULL whatever they are for, and a retried charge adds another row.
- An error of `get_user` in a delivery means that nobody is notified, and the alert is resolved as
  "notified" all the same.
- The status filter of the list works on what the LIMIT left (`graphql.rs:524`): newer snoozed alerts use it up, and push
  pending ones off the list of pending alerts.

Monitors and indexer:

- A watch added through the API has a reference price of 0 and never alerts. Adding a watched token again replaces
  the reference and keeps the price and change that went with the old one.
- `remove_from_watchlist` deletes the row; the store's copy goes on being checked.
- A price of 0 is a missing one. A change of 1000 % or more does not fit its column, and fails the check before
  the clients are told.
- `lp_monitor.rs:61` compares a value with itself: the out-of-range alert never fires. A position whose range is
  unknown is told as in range, and inserting it again forgets the range.
- Rounds may overlap: one that copied a price or a range earlier may write it back, or tell the clients of it, after one that
  copied a newer one; a feed and a round overwrite each other in the same way.
- A position inserted twice is on its user's list twice (`store.rs:107`).
- `is_in_range` includes the upper tick, `uniswap_v3.rs:204` treats it as outside.
- `is_health_factor_max` (`aave_v3.rs:135-139`) has no caller outside its test, so that the
  indexer formats the maximal factor of a user without debt and gives up on parsing it
  (`position_indexer.rs:62`), before their LP positions and their wallet. A dust debt ends the call at the next
  statement: a factor of 10^6 or more overflows `health_factor DECIMAL(10, 4)` (`002_positions.sql:12`).
- "Update in-memory store" (`position_indexer.rs:117`) adds the wallet and no position; "Syncs with database
  periodically" (`store.rs:8`) has no code behind it.
- The row of a token that was sold or emptied stays active: nothing sets `is_active` to false.
- Reads are of the latest block, whatever block the call was given and stores. Of two overlapping calls the later
  statement wins, whichever has read the newer state. A token that takes the index of one that left is missed.

## 6. Not modelled

- Signatures, key handling, ABI encoding and decoding, HTTP routing and GraphQL
  resolution: input and output without protocol state. The calldata does not reach the node at all.
- `submit_private`, `invalidate_session`, `X402Client`'s charges and the fee formulas: called by nobody. The
  charges are single INSERTs of rows nobody reads back.
- Repay amounts, status thresholds, liquidity estimates: floating-point formulas whose
  results are stored and displayed, and decide nothing in the executor. Money is a natural number in the pipeline: amounts
  are compared, not computed.
- The daily reset of the spent amount (`migrations/005_executor_state.sql`): a database
  function nobody calls, so that the model covers one budget day.
- The lists by user of lending positions and watches in the store: read by nobody. Statistics, price history,
  billing events and the lists of alerts: only inserted, or only read.
- The crash of the process in the monitors nobody starts, and during a delivery of `AlertService`: the tables keep what they
  had, and the variables of the rounds go. `AutopilotPipeline` and `HealthMonitor` have it as an action.
- Test doubles.

## 7. Plan

Done: all modules of section 2 with their runs; a theorem for every invariant, action property and refinement of the
passing runs.

What is left, in order of what it would add:

1. An abstract hub (each client sees the broadcasts in order, with gaps only where it lagged), implemented by
   `WsHub`, as a theorem.
2. What `AlertLifecycle` and `TxLifecycle` promise, as theorems about them, so that the safety properties of their
   implementations follow from the refinements.
3. A refinement for the sessions: what a login promises to the requests that use its token.
4. Composition of `HealthMonitor` and `WsHub`: from a low factor to the client, across a reconnect.
5. The formulas of section 6 over bounded inputs, against a reference in whole numbers.
