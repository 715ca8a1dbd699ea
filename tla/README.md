# Formal models of kombat-backend

kombat-backend is the server of a betting product on Sui. Users stake on the
outcome of esports matches in parimutuel pools, or bet one against one in
wagers; two Move contracts hold the money, and a Rust server (axum, Postgres)
indexes the contracts, follows the match providers, settles the off-chain books
and serves the app. This directory holds TLA+ models of it, their TLC
configurations, and theorems checked by TLAPS.

    tlc -workers 2 -config StakingPool.cfg MCStakingPool     # a run
    tlapm StakingPoolProofs.tla                              # the proofs of a module

## 1. The system

| Component | State | Operations | Talks to |
| --- | --- | --- | --- |
| Staking pool contract (`sui/sources/tournament_staking.move`) | `TournamentPool` (status, winning outcome, deadline, totals, vault), `StakeReceipt`, `ReceiptListing` | `create_pool`, `stake`, `resolve`, `cancel`, `claim`, `refund`, `list_receipt`, `buy_receipt`, `cancel_receipt_listing` | accounts; its events feed the stake index |
| Wager contract (`sui/sources/wager.move`, also packaged in `sui-wager/`) | `Wager` (participants, resolver, stake, expiry, status, winner, vault) | `create_wager`, `accept_wager`, `resolve_wager`, `cancel_wager` | accounts, the platform signer |
| Match settlement (`db.rs`, `handlers/tournament.rs`) | `matches.status`, `match_opponents.is_winner`, `pool_stakes` | `upsert_match`, `place_stake`, `record_indexed_pool_stake`, `resolve_match`, `cancel_match` | request handlers, workers, one Postgres |
| Stake placement and indexing | `pool_stakes`, the contract's events | `place_stake`, `run_stake_sync` every 120 s | Sui RPC |
| Pool backfill | `matches.sui_pool_object_id`, pools on chain | `run_pool_backfill` every 5 min and on webhooks, `configure_match_pool` | Sui RPC, platform signer |
| Match sync workers (`main.rs`) | `matches`, `match_opponents` | `run_pandascore_sync` (10 min), live poller (60 s), webhooks | PandaScore, GRID, settlement |
| Wager index (`handlers/wager.rs`) | table `wagers` | create, accept, cancel, decline, set status, declare winner, dispute | the wager contract, user statistics |
| Receipt market (`handlers/market.rs`) | `receipt_market_listings` | draft, activate, mark sold | the pool contract's listings |
| Payment intents (`handlers/payment.rs`) | `payment_intents` | create, refresh funding, build the stake | Sui balances |
| Outcome proposals, agent pipeline, result webhooks | `outcome_proposals`, `agent_runs`, `matches.result_status` | create, verify, review | settlement, on approval |
| Organizers and KYC (`handlers/organizer.rs`) | `organizer_profiles`, `organizer_tournaments` | apply, start KYC, review, create tournament and match | proposals |
| Users, notifications, idempotency keys, Walrus, ramps, uploads | tables of their own | reads and single-row writes | - |

### What is hard, and what must hold

* **Contracts.** Transactions are atomic, but any account sends any of them in
  any order: stakes race with the resolution, receipts are given away, sold and
  shown to the wrong pool, payouts round down. What must hold: the vault covers
  every receipt not yet redeemed, a winner gets its share of the pot whatever
  the order of claims, money leaves only after one irrevocable settlement, a
  wager moves one stake from the loser to the winner and nothing else.
* **Match settlement.** Several workers and handlers run over one Postgres at
  READ COMMITTED. `resolve_match` is one transaction that sums the pool, sums
  the winner's side and lists the winners in three statements; `cancel_match`
  is three statements without a transaction; `place_stake` and the indexer
  check and then insert; providers report again and again, also about settled
  matches. What must hold: a settlement is as if atomic, a settled stake stays
  settled, payouts are covered by stakes, every stake is settled at last.
* **Wager index.** Every handler reads the row, checks it and writes it in
  statements of their own, and clients repeat and overtake requests. What must
  hold: the row claims nothing the chain has not done, the platform pays only
  what both participants declared, two declarations that agree are noticed
  however they interleave.
* **Pool backfill and stake index.** An effect on chain and the row that records
  it are two steps; nothing is unique but a column of the match. What must
  hold: a match gets no more pools than backfills that overlap or fail explain,
  its pool is not replaced under the stakes, a sync adds one row of a stake at
  most, and every stake reaches the index.
* **Match feed.** Two workers, a webhook and administrators apply reports that
  may be older than the row, statement by statement, and `completed` is stored
  before the stakes are settled; administrators settle and cancel as they like,
  also a match that its provider goes on reporting. What must hold: winners are
  those who backed the provider's winner, a match closes only when its provider
  or an administrator ends it, and a failed settlement is made up for.
* **Receipt market.** The server advertises on-chain listings it never looks at.
  Drafts, activations and sales are reported by clients, late and repeatedly,
  while the receipt is listed, sold and listed again. What must hold: a row that
  says sold was bought as it says, an open row is the owner's.
* **Payment intents.** A balance is read, then a row written, then the client
  answered; requests on one row overtake each other, and the client uses the
  answer when it likes. What must hold: what was promised fits the wallet, the
  user hears that the intent is ready, and the row is right in the end.
* **Outcome proposals.** Results come from organizers, agents, webhooks and
  others; approvals of organizers are given and withdrawn while their requests
  are under way, and any client may call itself an agent. What must hold:
  nothing but an administrator's approval or own decision settles a match,
  nothing but the approval of the organizer lets it create, and an approval
  either closes the match or breaks off and can be given again.

`PROJECT.json` lists the hazards one by one, at their lines, each with the
properties that would catch it, or the reason why none does.

## 2. Modules

| Module | What it is |
| --- | --- |
| `UnitSum` | sums over finite sets, defined by counting units so that no recursion is needed |
| `Escrow` | abstract: an account opens, takes money in, is settled or voided once, and then gives money out, never more than came in |
| `StakingPool` | the pool contract, receipts and listings included; implements `Escrow` |
| `WagerEscrow` | the wager contract; implements `Escrow` |
| `BetLedger` | abstract: bets of one match are placed once and all the open ones are settled in one step |
| `MatchSettlement` | one match and its stakes in the database, statement by statement; implements `BetLedger` as long as nobody cancels |
| `WagerIndex` | a row of table `wagers`, the requests that change it statement by statement, and `WagerEscrow` as the chain beside it |
| `PoolIndex` | the pool of one match from backfill to registration, and the sync of its stakes into `pool_stakes` |
| `MatchFeed` | the row of one match, the reports of its provider, and the workers and handlers that apply them |
| `ReceiptMarket` | the rows of `receipt_market_listings`, and `StakingPool` with one receipt as the chain beside them |
| `PaymentIntents` | the intents of one wallet, its balance, and what the client does with the answers |
| `OutcomeProposals` | an organizer, its match, and the proposals and reviews of its result |
| `MC...` | sets and symmetries for TLC |
| `UnitSumProofs`, `StakingPoolProofs`, `WagerEscrowProofs`, `MatchSettlementProofs`, `WagerIndexProofs`, `PaymentIntentsProofs` | lemmas, theorems and proofs about the module of that name |
| `StakeTablesProofs` | those about `PoolIndex` and `ReceiptMarket` |
| `MatchResultProofs` | those about `OutcomeProposals` and `MatchFeed` |

A definition named `XFaulty` (or `ClaimPayoutRoundedUp`, `ClaimPayoutCoarse`,
`PayoutOfLosers`) stands before the definition `X` it is a plausible mistake for. No
specification uses it; each property has been seen to fail when one of them
takes the place of its `X`.

`ReceiptMarket` and `MatchFeed` call their `Init`, `Next` and `Spec`
`MarketInit`, `FeedInit` and so on, because they share a proof module with
another specification.

### Contracts

An entry function is one action. An aborted `assert!` leaves the state as it
was, so it is a guard; so is an arithmetic abort (`Pot(p) + a <= MaxU64`, the
cast of a payout). Objects are functions over ids (`Pools`, `Receipts`,
`Wagers`); who owns an object is a field. `AdminCap` has no `store` and no
function moves it, so `Admin` is a constant. A receipt has `store`, so
`PublicTransfer` (not in the module's source, but in its type) may give it to
anyone without touching its `owner` field. `match_id`, names and timestamps are
left out; no function decides on them. `Tick` moves the clock.

### Match settlement

A step is one SQL statement, or a read with the decision on it. `lock` is the
row lock that `SELECT ... FOR UPDATE` takes on the match: another
`resolve_match`, an `UPDATE` of the row and the insert of a stake (whose
foreign key takes a key-share lock) wait for it; an `UPDATE` of stakes does
not. The writes of a transaction and its commit are one step, because a
concurrent update of the same stakes waits for the commit (or is aborted as a
deadlock). A stake is a request (`CheckStake`, `CheckIndexed`), then a row
(`InsertStake`). `ProviderReport` is `upsert_match` with the decision to
resolve that follows a finished match; `CallResolve` is the administrator's
endpoint or the approval of a proposal. `Abort` is a failing statement: the
transaction is rolled back, what `cancel_match` had committed stays.

### Wager index

One row, one wager. `WagerIndex` instantiates `WagerEscrow` with a single wager
(`Chain`), whose entry functions are the steps of the clients and, for
`resolve_wager`, of the platform. A request of `handlers/wager.rs` is a record
with the name of its next statement (`pc`) and what it has read: receiving it
stands for the read and the checks at its start, and each statement after that
is a step (`WriteStatus`, `StoreDeclaration`, `CompareDeclarations`,
`ResolveRow`, `CountWin`, `CountLoss`, `Pay`, `MarkAttempt`). `Fail` is a
statement that fails or a client that hangs up: what was written stays. `Pay`
may be refused by the contract, and its answer may be lost (`PayUnheard`).

Clients are outside the repository. They are taken to do what its documents ask
of them: create, accept and cancel on chain first, then report it, naming the
participants as they are on chain; but reports may come late, twice and in any
order. `POST /status` is modelled for every status it takes; the run sends
`expired`, because with `active` or `cancelled` any client could make the row
say what it likes, and `RowFollowsChain` would be about that client.
`said` and `agreed` are history: nothing reads them but the properties.

### Pool backfill and stake index

One match with two slots. `position + 1 = outcome` ties a row of
`match_opponents` to an outcome on chain, so both are a slot. Reports overwrite
the opponents one by one (`StartIngest`, `StoreOpponent`). A backfill is
`ListMissing`, `ReadOpponents`, `CreatePool`, `RegisterPool`; several may run
(scheduler, webhook, administrator). `log` is the package's `StakePlaced`
events, stakes in pools of other matches included (`Foreign`), and `EventsOf`
is what `suix_queryEvents` with a limit and the filter by pool leave of it: the
places of these events in the log, of which a sync takes the latest first. A
sync is `StartSync`, `ReadEvents`, then for each event the SELECT
(`CheckIndexed`) and the INSERT (`InsertIndexed`) of
`record_indexed_pool_stake`. Odds, amounts and the provenance archive are left
out. An administrator may register any object id (`ConfigurePool`), a pool of
the match or one that is not (`Mistyped`); which pool a new one is, is not told
apart (`NewPool`). `Crews` says which backfillers and syncers are at work
together. `byHand` (a pool was registered by hand) and `crossed` (a backfill took
the match up while another had it) are history.

### Match feed

What a provider has said about the match is the sequence `published`; its last
element is the truth, and a webhook or a late page may apply any earlier one.
A report goes through `pandascore_match_from_value` or `grid_match_from_value`
(opponents still to be decided are dropped and the rest move up; Central Data
has no status, so that it is guessed from the schedule), then `UpsertMatch`,
`StoreOpponent` for each position, `FindWinner` and `resolve_match`, one
statement or one transaction per step, with `FailTask` after any of them.
An administrator enters the match in any status (`CreateTournament`) or a report
of his own (`SyncTournament`), settles it for either opponent
(`resolve_tournament`), also after it was cancelled, and cancels it
(`cancel_tournament`), also after it was completed. `Settings` fixes which feed
the match comes from, how the provider may list the opponents (in place, with
one still to be decided, or moved) and which workers and handlers are at work.
The steps inside a settlement, a cancellation, a backfill and an insert of a
stake are those of `MatchSettlement` and `PoolIndex`; here each is one. Stakes
are placed by `place_stake` as long as the row is open (it looks at no deadline)
and indexed by syncs whatever its status; `active` keeps, by position, the teams
that the open ones were placed on. History: `won`, the stakes paid as winners;
`renamed`, positions that came to show another team under stakes or under a
settlement that had chosen them; `named`, positions an administrator made win
although the provider names no winner or another; `byHand`, that an administrator
ended the match as its provider had not.

### Receipt market

`ReceiptMarket` instantiates `StakingPool` with one pool and one receipt
(`Chain`). The server's requests are statements (`ReceiveCreate`,
`InsertDraft`, `ReceiveActivate`, `Activate`, `ReceiveSold`, `MarkSold`); the
clients list, cancel and buy on chain with transactions built from the rows
(`ListOnChain`, `GetBuyPtb`). They are outside the repository and follow its
integration guide: activate what was listed, report what was bought; but late,
more than once, in any order, and with a purchase that may be sent long after it
was fetched. `listed` and `bought` record what happened on chain, `overlapped`
that two drafts were created at the same moment (the check and the insert are
two statements and no index is unique), and `resent` that an activation was sent
out of turn: again, before an earlier one was answered, or of an older listing
than one before. The handler takes such activations, whatever the status of the
row, so that both properties are promised only until one of the two happens.

### Payment intents

A request reads the balance (`ReadBalance`), stores what follows from it
(`CreateIntent`, `UpdateFunding`) and answers (`NotifyCreated`, `NotifyReady`,
`OpenSession`, `BuildPlan`). Between and after these the wallet receives,
spends, pays a session or sends a plan. `fresh`, kept with what was read, says
that nothing has left the wallet since; `told` is what the user was last told.
Amounts are in USDC; sums saturate or fail at `MaxI64` as the code's do.

### Outcome proposals

One organizer, one match. A proposal is an `INSERT`, an update of the match's
`result_status`, and for agents and webhooks the verdict and the run; a review
stores the proposal, then the match, then resolves. `Scenarios` says what
clients and administrators do in a behaviour, so that one run can explore
several situations without their product. A client that proposes chooses the
source, `agent` and `organizer_webhook` included; only `organizer` is gated. The
match is also settled without a proposal (`ResolveTournament`) and cancelled
(`CancelTournament`). `decision`, `cleared`, `allowedOnce`, `made` (proposals of
the pipeline itself), `approvals`, `ruled` (winners an administrator has named),
`interrupted` and `halted` (proposals whose insertion or review broke off) are
history. `FitsColumn` is the length of `verification_status`.

## 3. Runs

| Run | Question | Bounds | Distinct states |
| --- | --- | --- | --- |
| `StakingPool` | is the arithmetic of settlement right? `Solvent`, `PaidFairShare`, `DustBound`, `LastQuoteHonoured` | 1 account, 1 pool, 3 receipts, amounts 0-3, u64 = 0..7 | 222,993 |
| `StakingMarket` | do the books survive gifts, sales and wrong pools? `BooksBalance`, `SellerIsOwner`, `ImplementsEscrow` | 2 accounts, 2 pools, 2 receipts, amounts 0-1 | 53,307 |
| `WagerEscrow` | is a wager zero-sum? `ZeroSum`, `ImplementsEscrow` | 3 accounts, 2 wagers, amounts 0-2 | 42,986 |
| `MatchSettlement` | is settling as if atomic? `PayoutsCovered`, `ImplementsLedger` | 3 stakes of 1-2, 2 tasks, 1 failure, no cancelling task | 109,968 |
| `MatchCancellation` | what does a cancellation in between leave standing, and is every stake settled at last? `WinnersNeverLose`, `SettledStaysSettled`, `EveryStakeSettles` | 2 stakes of 1-2, 2 tasks, one of which cancels, 1 failure | 150,984 |
| `WagerIndex` | does the row stay behind the chain, and the payment behind the declarations? `RowFollowsChain`, `PaidAsDeclared`, `AgreementNoticed`, `NobodyWinsAndLoses`, `FailureIsShown` | 3 wallets, 4 requests, 1 failure | 36,419 |
| `PoolIndex` | how many pools and rows, are the stakes in the registered pool, and is every stake indexed at last? `RowsPerSyncer`, `StakesInRegisteredPool`, `PoolsPerBackfiller`, `StakesReachIndex` | 2 backfillers, or 1 and 1 administrator; 3 pools, 2 stakes, 2 events, a window of 2, 1 failure | 1,041,240 |
| `MatchFeed` | does the match follow its provider? `WinnersBackedWinner`, `ClosedByProvider`, `StakesSettle`, `LobbyCatchesUp` | 2 teams, 3 reports, 2 pages of which 1 is read, 7 settings | 178,397 |
| `ReceiptMarket` | do the rows tell the truth about sales and owners? `SoldRowWasBought`, `OpenRowIsOwners` | 2 wallets, 2 rows, 3 listings of one receipt, 5 requests, 1 failure | 211,500 |
| `PaymentIntents` | is an intent right, in the end and when it is used? `ReadyIsNoticed`, `ReserveKept`, `SessionFundsIntent`, `ReadyAtLast` | 1 intent, 2 requests at a time, amounts 1 and 3, balance and i64 up to 3 | 400,254 |
| `OutcomeProposals` | who decides? `HumanApproves`, `CreatedWhenAllowed`, `AgentHasRun`, `ApprovalSettles` | 2 requests at a time, 2 proposals, 1 KYC session, 4 scenarios | 565,370 |
| `OutcomeWebhook` | does a webhook's proposal get its run? `WebhookHasRun`, violated | 1 request, 1 proposal | - |

The type invariants are theorems of section 4, for every instance, and are not
repeated in the runs.

Why the bounds are enough: rounding, one-sidedness and overflow all occur with
three stakes of at most three units and a `MaxU64` of seven (a third stake that
does not fit is refused); resale needs two accounts and a redemption at the
wrong pool two pools; a wager needs its two participants and an outsider. The
races of the settlement are between two tasks and a stake that comes too late:
two resolutions with three stakes, so that both sides can be backed before and
after, or a resolution and a cancellation with two, one of each side.
Four requests are two declarations and two of anything else, or three
declarations after which someone repeats or changes his mind; three wallets let
an outsider accept what was named to nobody, or try to. Two stakes are enough
for two rows of one and for a transaction with both; three pools for one of each
backfiller and one that a failure left behind. Three listings of a receipt let
it be relisted after a cancellation and after a sale; five requests are a draft,
its activation, a second activation, a sale and one more. Two requests on the
one intent overlap in every order, and the intent is asked for with an amount
that the wallet can reach and with one that together with the reserve exceeds
the largest integer, so that it is always refused. Three reports are an
announcement, a start and a result, each with the opponents as the setting lets
the provider list them by then; every older one may still be applied, and the
settings pair workers that fetch with handlers that are late and with
administrators who close the match by hand. The scenarios of
`OutcomeProposals` are an organizer suspended and verified again while it
creates, an agent beside clients and an administrator who settles without them,
the webhook, and two proposals of clients that may both be approved while the
match may be cancelled.
`CHECK_DEADLOCK FALSE` stands where the system may stop: with all ids used, all
receipts redeemed, all requests answered or all reports published nothing is
left to do.

One run states what a document of the repository says and the code does not do,
and TLC finds the counterexample. `OutcomeWebhook`: a match has a verification
status `<source>_<status>` (`docs/AGENT_OUTCOME_FE_GUIDE.md:62`), but the column
is a `VARCHAR(30)` (`017_create_organizer_tournaments_and_outcomes.sql:39`) and
`organizer_webhook_pending_review` has 32 characters. The update fails after the
proposal was stored, the webhook answers with an error, and no run is recorded.

Other differences were met while modelling. They follow from a single line, a
bound or a known race, and have no run of their own. In the settlement and the
indexes:

* "cancelled: match cancelled, stakes refunded" (`009_create_matches.sql:54`),
  but a match the provider canceled keeps its stakes active.
* `cancel_match` "returns the list of refund entries" (`db.rs:2935`), but a
  `resolve_match` between its statements settles stakes of that list.
* An error in the row calls for escalation (`FRONTEND_INTEGRATION.md:664`), but
  two declarations that both see the agreement both pay, and the refusal of the
  second is what stays in the row.
* "already-indexed stakes are skipped" (`tournament.rs:752`), but two syncs that
  overlap insert a stake twice.
* "live: staking locked" (`009_create_matches.sql:52`), but `place_stake`
  accepts stakes on a live match; "completed: match finished, payouts done"
  (line 53), but a match that finished without a winner keeps its stakes open.
* A declined wager is to be reclaimed with `cancel-ptb` and `/cancel`
  (`FRONTEND_INTEGRATION.md:652`), but both refuse what is not open.
* Wins "reflect wager outcomes" (`docs/MOBILE_API_REFERENCE.md:761`), but every
  declaration that finds the two equal counts again; and a repeated
  `POST /api/wagers` resets the winner of a row that was paid.
* A backfill creates "a pool for each" match without one (`tournament.rs:520`),
  but backfills that overlap create one each (`PoolsPerBackfiller` bounds them),
  and the one that registers last replaces the pool under the stakes of the
  other: `StakesInRegisteredPool` excuses what was `crossed` or done by hand.
* Aggregates "reflect on-chain reality" (`tournament.rs:748`), but a report that
  turns the opponents round renames the sides of an existing pool
  (`upsert_match_opponent`, `db.rs:1140`, keys them by position), so that rows are
  then inserted on the wrong side and nothing is promised of sides; a match that
  is completed is not synced any more, one that is not among the 40 earliest open
  ones (`db.rs:2039`) not yet, a stake outside the latest events is never read,
  and of two stakes in one transaction only one is inserted. `StakesReachIndex`
  is checked for a window that fits all events, for open matches and per
  transaction.
* `accept_wager` writes back the row it read: a decline or a resolution in
  between is lost. And an error may stay in the row of a wager that was paid, if
  a repeated payment is refused after it.

In the match feed:

* The scheduler's comment (`main.rs:561`) says that the configured statuses
  include `past`, which "advances stale rows", but their default
  (`pandascore.rs:30`) is `upcoming,running`: only the live poller sees a match
  end, and only the 50 matches of `past` that changed last.
* The `CASE` of `upsert_match` keeps `completed` and `cancelled` but not
  `refunded`: a later report reopens a refunded match. And `resolve_match`
  refuses only `completed` (`db.rs:2806`): a match that an administrator has
  cancelled is completed by a later "finished" of its provider.
* `completed` is stored before the resolution of the same report; a finished
  match without a winner keeps its stakes open.
* GRID's Central Data has no results, so a match of that feed never finishes but
  by hand. The numeric ids of GRID and PandaScore share one UNIQUE column.
* A pool created after the scheduled start gets a window of 72 hours, a deadline
  is not moved when the match is, and `place_stake` (`db.rs:2586`) looks at no
  deadline at all: stakes are taken as long as the row is open, also once the
  result is known elsewhere.
* Opponents still to be decided are dropped and rows are keyed by position: if a
  provider lists A alone at first and then B before A, or moves an opponent, a
  row is renamed under its stakes, and those on the wrong side are paid.
  `WinnersBackedWinner` excuses exactly such positions (`renamed`).
* `create_tournament` takes any status, and `resolve_tournament` and
  `cancel_tournament` ask for none: an administrator closes a match whatever its
  provider says, which `ClosedByProvider` allows (`byHand`).
* `sync_tournament` upserts the match of its body and resolves that of its path;
  an error on any page drops the whole cycle of a worker.

In the market, the intents and the proposals:

* "Draft, sold, cancelled, and expired listings should not be shown as buyable"
  (`docs/frontend-integration-guide.md:570`), and they are not, but no statement
  ever sets `cancelled` or `expired`: an abandoned draft counts as open and
  blocks the receipt.
* `activate_receipt_listing` has no guard on the status: an activation that is
  sent again makes a sold row active, and one that comes late shows an object
  that is no longer for sale. `SoldRowWasBought` and `OpenRowIsOwners` are
  promised until then (`resent`).
* One intent may be staked twice, `expires_at` is enforced nowhere, and an
  intent that becomes ready in an onramp or PTB request is never announced.
* "approving settles the match" (`docs/AGENT_OUTCOME_FE_GUIDE.md:289`), but a
  proposal with a winner's name only is approved without settling; and when
  the resolution fails the approval stands, the match is open, and nothing in the
  code tries again until somebody approves once more. `ApprovalSettles` is about
  approvals that did not break off.
* A late proposal or verification overwrites `result_status` after an approval;
  only the source `organizer` requires an approved organizer, and a client may
  send any (`tournament.rs:1085`), so that a proposal of source `agent` need not
  be an agent's: `AgentHasRun` is about the proposals of the agent endpoint. An
  approval withdrawn between the check and the insert of an organizer's request
  still lets it through (`CreatedWhenAllowed` says "once"). A review does not
  say which KYC session it is about; an organizer's match may be left with
  fewer than two opponents (`db.rs:1494`), because its inserts are not one
  transaction.

`SettledStaysSettled` allows one change of a settled stake, from refunded to
won: `resolve_match` updates the winners it listed by id, and a cancellation
may have refunded them since. Without cancellations `ImplementsLedger` excludes
it.

### Fairness

Nothing is assumed of failures but that they do not hit the same statement for
ever (where they are not finite by a bound), and of people only what is said
here.

* `MatchSettlement`: `TaskFairness` is strong fairness of each task's
  statements: a statement sent to Postgres waits for a lock and gets it, and it
  is not overtaken for ever. Strong, because the row is locked and released
  again and again while it waits. `Reported` is strong fairness of the
  provider's reports: the sync workers of `main.rs` poll in an endless loop, and
  a provider that has decided a match keeps reporting that decision.
* `PoolIndex`: `ReconcilerStep` is weakly fair: `spawn_stake_reconciler` runs a
  sync after the other for ever, and no step of one waits for anybody. That it
  comes to this match assumes that the match is among the 40 open ones it takes
  (`db.rs:2039`). A match that ends is not assumed to wait for it, so
  `StakesReachIndex` promises nothing once the match is closed.
* `MatchFeed`: the live poller fetches for ever (weak), and its statements are
  not the ones that fail every time (strong, one per statement). A match that
  has just changed is on the first page it reads.
* `PaymentIntents`: statements of a request end (weak); a client polls its
  intents, as the integration guide asks, and its polls do not all fail at the
  same statement (strong).

## 4. Proofs

`UnitSumProofs` derives from the cardinality theorems of the library how a sum
changes when an element is added, removed or changed.

`StakingPoolProofs`: for all accounts, pools, receipts, amounts and bounds,

* `TypeCorrect`: `Spec => []TypeOK`;
* `ListingsAreOwned`: `Spec => []SellerIsOwner`;
* `PoolImplementsEscrow`: `Spec => ImplementsEscrow`.

The inductive invariant is `TypeOK /\ SellerIsOwner /\ PoolBooks`; `PoolBooks`
says what the refinement needs and `TypeOK` does not give: the vault never
holds more than the pot, a pool that was not created has no pot, and exactly a
resolved pool has a winning outcome.

On top of it stand `BooksAlwaysBalance`,
`AlwaysSolvent`, `SharesAreFair`, `DustIsBounded` and `LastQuoteIsPaid`, for all
amounts and any number of receipts. The invariant `Money` says of each pool that
totals and vault are sums over receipts (`SideSum`, `VaultSum`) and that
redeemed receipts were paid fairly. What it must also know is that the rounded
shares of all winners add up to at most the pot, and to less than one unit per
winner below it. That is a fact about a sum of quotients, and would be an
induction over the winners. Instead the invariant carries it while the
receipts arrive: `SharesBounded` states it for *every* pot `t` and side total
`w`, each stake adds one quotient to it, and at the settlement it is used for
the `t` and `w` of that moment.

`WagerEscrowProofs`: for all accounts, wagers and amounts, `TypeCorrect`,
`VaultCorrect`, `WagerIsZeroSum`, `WagerHasTwoParticipants` and
`WagerImplementsEscrow`. The properties are proved together: that the prize is
two stakes needs the vault, and that the loser is one stake down needs that the
participants are two accounts.

`MatchSettlementProofs`: `TypeCorrect`, for all stakes, amounts and tasks,
cancelling ones included. The type of a payout is the point: it is a division
by a winner pool read two statements earlier. The inductive invariant adds that
the lock is held by exactly the task inside its transaction (`LockHeld`), that
requests are for rows that do not exist (`Pending`), that a task which shares
the pool has seen a positive winner pool (`SharesPool`), and that listed rows
exist (`Listed`).

`WinnersAreCovered` (`Spec => []WinnersNeverLose`) and `SettledForGood`
(`Spec => SettledStaysSettled`) hold with cancellations at any moment. They need
`Settling`: what a transaction has read may have been refunded since, but
neither settled nor grown, so the total it divides by the winner's pool is at
least that pool. `PayoutsAreCovered` and `SettlementIsAtomic`
(`Spec => ImplementsLedger`) assume `Cancellers = {}`. Then `Exact` holds: under
the lock, what a transaction has read is the pool as it stands. `SharesFit` is
the bound on the sum of shares, again for every pot and every divisor, and the
last statement of the transaction maps to the one settling step of `BetLedger`
while all others map to a placed bet or a stutter.

`WagerIndexProofs`: for all wallets and requests, `TypeCorrect`,
`PaymentAsDeclared` (`Spec => []PaidAsDeclared`) and `RowNeverAhead`
(`Spec => []RowFollowsChain`). The last one assumes `ModestClients`: no client
sends `active` or `cancelled` to `POST /status`. What makes it hard is that a
request acts on what it read some statements ago, so the inductive invariant
says for every request what it relies on (`RequestSound`): an acceptance, that
the contract was accepted by that wallet; a resolution and a payment, that both
participants have declared that winner; a status, that the chain has done what
it claims. None of this can be undone, which is `Advances`: a challenger stays,
an accepted or cancelled wager stays so, and declarations are never forgotten.
`FrameRequest` proves that a step that advances leaves every other request
sound, so each action has only its own request and row to argue about.
`AgreementIsNoticed` and `WinnersDoNotLose` need a second invariant on top,
`FollowUp`: while the row's declarations agree without having been acted on, some
request is still to compare them (`Noticing`), and a loss is counted against a
wallet other than the winner (`Duel`). `FailureShows` adds `Shown` and the
assumption `NoReopening`: no client sends `open` to `POST /status`.

`PaymentIntentsProofs`: for all intents, requests, amounts and any `MaxI64`,
`TypeCorrect`, `UserIsTold`, `ReserveStays` and `SessionSuffices`. The invariant
says of every request that what it has read, if nothing has left the wallet
since, still fits the intent (`RequestSound`), the same of the plan and the
session the client holds (`ClientSound`), that creations are of different rows
(`Exclusive`), and who has yet to hear of a ready intent (`ReadyNoticed`,
`Untold`). `RequestStep` proves once that a step of one request leaves the
others sound.

`MatchResultProofs`, first part: for all requests, proposals, KYC sessions and
scenarios, `TypeCorrect`, `ApprovedByHumans`, `OrganizersAllowed`,
`AgentsRecorded` and `ApprovalsSettle`. The invariant adds to these properties
that rows are numbered without gaps (`Filled`), that the profile's standing is
what administrators have decided (`Standing`), that one request at most builds
the match (`Builders`), and that what a request has checked stays true until it
acts (`RequestSound`). Rows, their sources and winners, approvals and
`allowedOnce` are never taken back (`Advances`), which frames every other
request.

Second part, the match feed: for all settings, line-ups and any number of
reports, `FeedTypeCorrect`, `ProviderCloses` (`[]ClosedByProvider`) and
`OnlyWinnersPaid` (`[]WinnersBackedWinner`). A task may carry a report that is
older than the row, so the invariant `FeedInv` says what age cannot change: only
the last word of the provider is final (`EndsLog`), hence a task whose report
says "finished", "canceled" or who won says what the provider still says, unless
an administrator entered it, and then history has it (`SoundTasks`). `StakesKept`
is what ties stakes to opponents through every reordering: the stakes that are
open at a position were placed on the team it shows now, unless it is `renamed`;
and a task that is about to settle for a position found the winner there, unless
it is `renamed` or `named`.

`StakeTablesProofs`, first part, `PoolIndex`: for all stakes, pools, backfillers,
administrators, crews and windows,

* `IndexTypeCorrect`: `Spec => []TypeOK`;
* `OneRowPerSyncer`: `Spec => []RowsPerSyncer`. What is inductive counts the rows
  of a stake together with the syncers that found it missing and are about to
  insert it (`RowsBounded`);
* `StakesStayInPool`: `Spec => []StakesInRegisteredPool`, from `PoolInv`: until
  backfills cross one of them at most is at work (`OneBackfill`); unless somebody
  registers by hand, it rests once there is a pool (`PoolKept`), and a stake needs
  one that is registered;
* `FewPools`: `Spec => []PoolsPerBackfiller`, also when backfills cross. What is
  inductive (`PoolsCounted`) tells two phases apart: while the match has no pool,
  each pool created is still to be registered or was lost to a failure; once it
  has one, no backfill starts any more, and the pools together with the backfills
  that have yet to create theirs are bounded by the backfillers and the failures.

Second part, `ReceiptMarket`: for all wallets, rows, listings and requests,
`MarketTypeCorrect`, `SoldRowsWereBought` and `OpenRowsAreOwners`. The invariant
`MarketInv`, which holds until an activation is sent out of turn, has three
layers. `ChainInv` is what the clients may rely on of the contract: a receipt is
escrowed exactly while it is listed. `Tables` relates rows, requests and the
contract's listings: what was activated was listed for that row, in order.
`Serial` holds until two drafts of the receipt overlap: one row at most is open
(`OneOpen`), a pending listing, purchase or report belongs to it, and what is
sold was bought. `MarketTypeCorrect` holds without any of that, so it has an
invariant of its own (`MarketTypeInv`): every listing is of a row that exists, and
so is what a request is about to update.

The assumptions are those each module names in its `ASSUME`: sentinels are
outside their sets, amounts are naturals, the sets that are summed over are
finite. TLC evaluates them in the runs.

### Model-checked only

Liveness, which needs fairness and `ENABLED` (`EveryStakeSettles`,
`StakesReachIndex`, `StakesSettle`, `LobbyCatchesUp`, `ReadyAtLast`). Every
safety property that a passing run checks is also a theorem; of
`RowFollowsChain`, `FailureIsShown`, `PayoutsCovered` and `ImplementsLedger` under
the condition named above, which the instance of the run satisfies.

## 5. Not modelled, and why

Providers' formats, building and signing transactions, Walrus, ramps and
uploads: I/O and encoding. Users and notifications: single-row writes on which
no other component decides; where a notification is the point (payment intents)
it is a step of the model. The idempotency keys: their three functions have no
caller. The resolution of a pool on chain is an administrator's transaction:
nothing in the server sends it, so the books of the server and of the contract
meet only through the stake index. Of the match feed, tournaments, leagues,
streams and images are left out: nothing is decided on them.

## 6. What is left

A `PoolIndex` whose window loses events, and a match that shares its workers
with another one.
