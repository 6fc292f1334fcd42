# Kael in TLA+

Kael swaps assets between two EVM chains without a custodian: each party locks
its side in a hashed-timelock contract (HTLC) under the same SHA-256 hashlock,
the taker reveals the preimage by redeeming the maker's side, and the maker
uses it to redeem the taker's. This directory holds a model of the contracts, of
the wallet that drives them and of the services around it, what TLC checks of it
and what TLAPS proves.

Paths are relative to the root of the repository.

## Inventory

| part | state | operations | interacts with |
|---|---|---|---|
| HashedTimelock (`contracts/src/HashedTimelock.sol`) | `swaps`, its coins and tokens | `newSwap`, `redeem`, `refund` | called by accounts and by Settlement; calls tokens and recipients |
| OrderLib (`contracts/src/Order.sol`) | none | `hash`, `verify` | used by Settlement |
| Settlement (`contracts/src/Settlement.sol`) | `consumedNonce`, `legs` | `authorizeLeg`, `settleLeg`, `refundLeg`, `receive` | calls HashedTimelock and tokens within one transaction |
| verifier (`swapkit/src/verify.rs`) | none | `verify_counterparty_leg` | used by the state machine |
| state machine (`swapkit/src/sm.rs`) | none (pure) | `next_action`, `advance` | used by the executor |
| executor (`swapkit/src/exec`) | state, context, own contract id, two observers | `step`, `run` | reads both chains, sends to both contracts |
| observer and RPC verifier (`swapkit/src/exec/observe.rs`, `chain.rs`) | a tracker, `next_block` | `poll`, `discover_contract_id`, `observe`, `observe_lock`, `confirmations` | reads one chain for the executor |
| tracker and watcher (`maestro/src`) | legs and preimage per hashlock | `on_new_swap`, `on_redeem`, `on_refund`, `correlated`, `timed_out` | fed from logs by observers and watchdog |
| watchdog (`maestro/src/bin/maestro.rs`) | a tracker, two cursors | one loop | polls two chains, logs correlated and expired legs |
| handshake (`swapkit/src/handshake.rs`) | none | `assign_role`, `derive_context` | makes the executor's context from two orders |
| order book (`orderbook/src/book.rs`, `matching.rs`) | orders, hashes seen | `submit`, `matches_for`, `best_match_for`, `find_match` | behind the service |
| order book service (`orderbook/src/server.rs`, `wire.rs`) | the book under a lock | `POST /orders`, `GET` matches | concurrent HTTP requests |
| preflight (`swapkit/src/bin/closed-testnet-preflight.rs`) | none | checks of contracts, chains, balances | reads both chains before a run |
| runner (`swapkit/src/bin/closed-testnet-swap.rs`) | two executors, a step counter | checks, then steps both in turn | both chains |
| signer, scripts, forge-std | configuration | key handling, test support | |

What is hard here:

* **Interleaving.** A step of an executor waits for the chain six or more
  times; blocks, time, the counterparty and third parties go on meanwhile. The
  world that was verified is not the world the transaction is mined in.
* **Publication before effect.** A redeem shows the preimage when it is sent,
  not when it succeeds.
* **Deadlines.** Two timelocks, a margin, a clock, and comparisons that must be
  exact at their boundary.
* **Partial failure.** A transaction may be mined and its receipt lost, or be
  mined and revert. `refundLeg` is two nested calls that must agree. Any read of
  an endpoint may fail, and ends the step, the runner or the watchdog.
* **Reorganisations.** A depth is put together from several reads of a chain
  that may drop blocks in between; the cursor never goes back.
* **Open entry points.** Anybody may lock under a known hashlock, redeem for the
  recipient, refund a leg of Settlement for its maker, spend a signed order's
  nonce through `authorizeLeg`, send an order again.
* **Widths.** A swap's timelock and amount are `uint256` in the contract and `u64`
  and `u128` in the programs that read its logs.
* **Calls back.** `newSwap` calls the token before it writes the record, and
  there is no re-entrancy lock.
* **Shared pots.** HashedTimelock pays all swaps from one balance.

What makes each part correct: HashedTimelock stays solvent, also in the middle
of nested calls, and an ended swap is final; Settlement and the HTLC agree on
each leg, a nonce settles once, funds return to the maker who paid; the taker's
secret is only given away against a leg that pays; the maker is paid if its leg
was taken; a wallet that has locked ends with its leg back or with the other
one; what an observer confirms is final, and it misses nothing; the watchdog
warns of every expired leg and of no other; the book takes an order once and
serves what it ranks, and two makers that match derive contexts that fit; OK
from the runner means swapped, and its stop leaves everybody a way out that the
preflight has made sure can be paid for.

## Modules

| module | models | role |
|---|---|---|
| `Htlc` | the revert conditions and writes of `newSwap`, `redeem`, `refund` | operators shared by the state machines |
| `HashedTimelock` | the contract: `swaps`, balances, `block.timestamp` | state machine |
| `HtlcCallbacks` | the same with tokens and recipients that call back | state machine over `HashedTimelock` |
| `Settlement` | `authorizeLeg`, `settleLeg`, `refundLeg`, `receive` over HashedTimelock | composed state machine |
| `Escrow` | what both contracts promise together | abstract specification |
| `Widths` | `u64::MAX`, `u128::MAX`, which legs fit | constants and an operator |
| `Verify` | `verify_counterparty_leg` with its saturating sums | operators |
| `SwapMachine` | `next_action`, `advance` | operators |
| `Tracker` | `SwapTracker` and `poll_into_tracker` | operators |
| `WalletSwap` | two executors, two HTLCs, time | composed state machine |
| `Observer` | a wallet's observer and its RPC verifier on a chain that reorganises | state machine over `Tracker` |
| `Maestro` | the watchdog on two chains | state machine over `Tracker` |
| `Matching` | compatibility, ranking, `matches_for`, `find_match` | operators |
| `Handshake` | `assign_role`, `derive_context` | operators |
| `OrderBook` | the service's requests and book, and what two makers derive | composed state machine |
| `Preflight` | the configuration checks of preflight and runner | operators |
| `Runner` | the runner over `WalletSwap`, with gas | composed state machine |
| `HashedTimelockProofs` | `HashedTimelock` and `HtlcCallbacks` | theorems |
| `SettlementProofs` | `Settlement`, over `HashedTimelockProofs` | theorems |
| `WalletSwapProofs` | `WalletSwap` | theorems |
| `RunnerProofs` | `Runner`, over `WalletSwapProofs` | theorems |
| `TrackerProofs` | `Tracker` | lemmas the next two share |
| `ObserverProofs`, `MaestroProofs` | `Observer`, `Maestro` | theorems |
| `OrderBookProofs` | `OrderBook` and `Matching` | theorems |
| `MCHtlcCallbacks`, `MCSettlement`, `MCWalletSwap`, `MCObserver`, `MCMaestro`, `MCOrderBook`, `MCRunner` | | instances for TLC |

**Contracts.** The EVM runs one transaction at a time, so an action is a whole
transaction with the calls nested in it, and a transaction that reverts is a
stuttering step. The keccak256 id of a swap is the record of its six parameters,
SHA-256 is a constructor: both are injective. Native coin and plain ERC-20
tokens are balances; approvals and `msg.value` are left out, a caller pays what
it must or the call reverts. Amounts are natural numbers: the contracts compare
and copy them and never add two of them. In `Settlement`, `order.sellAmount`,
the id and the refund record are kept apart as in the code, so that they can
disagree. `lockedBy` is a history variable: which order an id was locked for.
`nowTs` of `authorizeLeg` is any time, as its caller may pass any.

**Calls back.** `HtlcCallbacks` cuts `newSwap`, `redeem` and `refund` of a token
that calls back, and every native payout, where the foreign code runs: `Begin`
(checks, and in redeem and refund the write), `MoveUnits`, `Return` (in `newSwap`
the write). Any function may be called in between, up to `MaxDepth` deep; time
stands still until the outermost call has returned. A swap of a token that calls
back may be opened a second time by a `newSwap` nested in its own: the outer one
resets the record when it returns, and the contract then holds two deposits for
one record. `SolventInCalls` (the contract holds at least what it owes) allows
for that, and `FinalDespiteCallbacks` is about the swaps of all other tokens.

**Logs that do not fit.** `poll_into_tracker` converts the timelock and the amount of
every `LogNewSwap` with `to::<u64>()` and `to::<u128>()` (watcher.rs:42-43), which
panic when the value does not fit. `Fits` says which legs do, `AllDecode` that a
poll gets through the logs it has fetched. `Observer`, `Maestro` and `WalletSwap`
have an action for a poll that does not (`ReadLogsPanics`, `PollPanics`, `Panic`):
no cursor moves, and the next process begins at block 0 and meets the same log. In
`Runner` such a step ends the run (`ReadFails`), as any failed read does.

**Wallet.** One `step()` of the executor is cut where it awaits:

    idle -ReadClock-> observe -Plan-> reread -ReadClock-> reobserve -Send-> sent -Mine-> idle

`observe` is where the chains are read (after the clock, as in
`refresh_observations`) and `next_action` is asked. Lock and redeem go through
the second observation (`reverified_action`), a refund does not, as in the code.
`Send` includes the simulation that precedes a broadcast: the call must succeed
in the latest block. `Mine` executes it later, when it may revert, and advances
the executor as the code does, without a look at the receipt's status.
`LoseReceipt` is the same with the receipt lost: the state stays as it was.
(`get_receipt` may also fail while the transaction is still pending. That is not
modelled: how long a transaction may stay pending is nowhere bounded, and every
deadline here rests on a step that is mined within `Lag`.)
Nothing reads both chains for one decision (the taker's decisions read the
maker's chain, the maker's read the taker's for `Start` and its own after that),
so reading them at one instant loses no behaviour. `first` is what
`discover_contract_id` returns: the first leg of the hashlock in the order of
the events, and `depth` is the depth of that leg, the only one whose depth is asked
for. Every `refresh_observations` polls both chains, so a log that does not fit
on either ends the step before anything is decided (`Readable`, `Observed`), and
this wallet takes no other (`Panicked`). Legs under other hashlocks are left out:
to this swap they differ from those under its own by nothing but being ignored,
or by not fitting, for which one under its own will do. `secretPublic` is true from the broadcast of a redeem. Parties not
in `honest` do anything the contracts allow, and so do third parties; any leg
may be refunded by anyone, because Settlement allows that. Both chains and both
wallets share one clock. Chains do not reorganise in `WalletSwap`: that a
confirmed leg stays is what `Observer` shows.

**Observer.** `observe()` is cut at each of its calls: head, logs, `getSwap`,
head again, creation block. Between any two of them blocks are mined and up to
`MaxReorg` of the last ones dropped. `ReadFails` ends `observe()` where it
stands, `Restart` starts over with an empty tracker at block 0. `peak`, `late`
and `confirmed` are history: the greatest height, the heights that were mined
again below the cursor, and what was ever confirmed. A reorganisation may drop a log
that does not fit; the next poll then succeeds.

**Watchdog.** One round is head A, head B, poll A, poll B, report; a failed call
ends the process (`Restart`). Chains only grow here. `alarms` holds what the
report just made warned of.

**Order book.** A POST reads the clock, stamps `created_at` and only then waits
for the write lock: `Arrive` is up to there, `Submit` is under the lock. Matches
are functions of the book and the clock. `created_at` is neither signed nor
served, so two makers may see other stamps than the service, and derive the
same role: that is what `DivergenceNeverReveals` is about.

**Runner.** The preflight (run or not), the runner's own checks, then the steps
of the two executors of `WalletSwap` in turn, the taker first, until both have
redeemed, a step returns an error or `max_steps` is reached. Broadcasts cost gas
and units on the chain of the endpoint they go to, also if that is the wrong
one. The endpoints' answers do not change between preflight and run, except by
what is spent.

## Runs

| run | instance | shows |
|---|---|---|
| `settlement` | 2 makers, 6 orders, 8 ids, time 0..2, 1 unit each; fair | the two contracts agree, nonces settle once, ended swaps are final, no leg is stuck, nothing stays in Settlement, `ImplementsEscrow`, every leg ends |
| `htlc_callbacks` | 2 accounts, coin, plain token, token that calls back, 7 ids, depth 3, time 0..2 | solvent in the middle of any nest of calls; ended swaps of other tokens stay ended |
| `wallet` | taker and maker, or either alone; 6 other legs; lost receipts; time up to 10 | the secret is safe, a maker that is not stopped is paid, reports are true, margins hold at broadcast and at lock |
| `wallet_live` | 4 other legs, fair wallets | funds come back or the opposite leg pays, unless a log that does not fit stops the wallet |
| `observer` | 3 legs, 2 confirmations, reorganisations of 1, height 4; fair | what is confirmed is final, the cursor misses nothing, a lock that stays is confirmed if every log fits |
| `maestro` | 4 legs, one id on two chains, 3 events a chain, time 0..2; fair | alarms and correlations are exact for the polled blocks; an expired leg alarms if every log fits |
| `order_book` | 4 orders, one forged and one unreadable POST, 2 requests at a time, time 0..2 | taken once, served as ranked, deals fit, divergence reveals nothing |
| `runner` | 14 configurations, 6 worlds, 3 legs of a third party's, 6 steps | OK means swapped, a stop loses nothing, the preflight funds the swap and foretells the runner |
| `order_binding` | **violation** | a signed order does not bind recipient, hashlock and timelock |
| `lock_reverts` | **violation** | a reverted lock counts as confirmed |
| `lost_receipt` | **violation** | a lost receipt of a lock leaves it unrefunded |
| `no_hashlock` | **violation** | a taker without a hashlock never generates its secret |

`TypeOK` of each module apart, every property relates two contracts, two
chains, or a state to an earlier one. Each has a mutant of the code (`Mut...`, in
the module it mutates) that TLC catches with it.

**Bounds.** In `Settlement`, two makers with the same order in all but the maker
reach the same id; two orders of one maker share a nonce and differ in the
token; one order is for another chain, one is not signed, one token has no
code, one amount is zero, and the expiry of all of them lies within the
clock's range. Timelocks are 1 and 2, so that redeem, refund and the next lock
meet at the same second. With one unit of supply per account, a payment made
from somebody else's deposit shows at once. In `HtlcCallbacks`, depth 3 lets a
call nested in a call meet a third, and the ids include swaps that pay the
contract itself. In `WalletSwap` the timelocks are 9 and 5, the margin 4 and a
step at most 2 time units, so a leg is at, above and one below each boundary of
`check_timelock_gap`; two confirmations let a leg be seen too early. The other
legs are one of the taker's that is one second short of the margin, two of the
maker's that expire too soon or pay too little, a third party's decoy under the
same hashlock that pays itself, and one like it that lasts as long as the taker's
leg, so that the preimage may show late; and one whose timelock does not fit, on the
taker's chain, which both wallets poll. In `WalletSwap`, `Observer` and `Maestro` that
leg (`Wide`) lasts one longer than `MaxU64`, 7 or 15 there, which is clear of every
other number of the instance; in `Runner` it is the amount that is one above
`MaxU128`. The clock runs one past the last
timelock, after which only refunds are left. In `Observer` one block may go and
two confirmations are asked for, the least that is enough, and one block less is
not; four blocks hold a lock, its loss, its return and its end. In `Maestro` three
events on each chain hold a swap's leg, its end and one leg more. In `OrderBook`
one order has two partners of equal price and one of a better price that expires,
and two slots let requests overtake each other. In `Runner` every configuration
but one has one defect, and so has every world; six steps let the swap end and
let it be cut short.
`CHECK_DEADLOCK FALSE` where the clock ends, and with it the system; `observer`,
`maestro` and `order_book` are checked for deadlock.

**Timing.** `Lag` bounds how long a wallet that runs takes for a step, from its
first look at the clock until its transaction is mined, and how long it pauses
before the next one (`age`, in the guard of `Tick`). `Responsive` demands
`2 * Lag <= MinGap`: the maker may have just looked when the preimage appears,
and needs that step and one more. This is what `min_gap` is for; the code states
no bound of its own. `Skew` bounds how far apart the two parties of a match
derive their contexts: a divergence of roles is harmless only below `min_gap`,
and a deal is sound only if the locks leave room for it (`Policy`), which
`derive_context` does not check.

**Fairness.** `Settlement!FairSpec`: time passes and somebody calls `refundLeg`
when it would succeed, which anybody may (Settlement.sol:193). `WalletSwap!FairSpec`:
blocks and time go on and each wallet is stepped again, also after an error. That
is up to the caller of `step()`: `run()` and the closed-testnet runner stop at an
error and after `max_steps`, and the liveness properties say nothing of a wallet
that is not driven. `Observer!FairSpec` and `Maestro!FairSpec`: the wallet keeps
stepping and the watchdog is started again, and a call that is made again and
again does not fail every time; calls that fail and restarts come back to the
beginning, so this is strong fairness of each read. It is no promise that a poll gets
past a log that does not fit: `ReadLogs` and `Poll` are disabled while one is among
the logs they fetch, and the step that is then taken is the panic. Nothing is assumed of
counterparties and third parties: they lock, redeem and refund whatever they have
or do not, such legs included. What they can take away by that is in the properties:
`TakerEnds` and `MakerEnds` except a wallet that has panicked, which no
fairness makes step again; `SettledLockIsConfirmed` is about a chain that in the end
holds no such log; `ExpiredLegAlarms` excepts the time after one was locked on either
chain, since one process polls both.

## Findings

* `order_binding`: SECURITY_INVARIANTS.md:16-17 and ARCHITECTURE.md:28-29 say an
  order binds recipient, hashlock and timelock. The order has no such fields;
  `settleLeg` takes them from its caller, who must be the maker.
* `lock_reverts`: `tx::lock` does not look at the receipt's status. A lock that
  is mined at its own timelock reverts, and the wallet is in `WaitingForSecret`
  without a leg. `ReportsAreTrue` shows that redeem and refund cost nobody
  anything for the same omission as long as steps take less than the margin: a
  wallet whose leg is out reports only payments it got. The condition is needed.
  A maker whose lock reverted, or whose refund's receipt was lost, keeps waiting
  past its timelock; if a third party's leg under the hashlock then shows the
  preimage, it sends a redeem that may revert and reports `CounterpartyRedeemed`.
  Its own leg is not out, so it has lost nothing.
* `lost_receipt`: `own_contract_id` is set after `get_receipt`, though it is known
  before the broadcast. If the receipt is lost, the leg is locked, every retry
  reverts, and nothing ever refunds it. For the same reason `MakerPaid` is about
  makers that know their contract id: one that lost the receipt does not look for
  the preimage. (It also rests on `Responsive`: a maker that is not stepped in time,
  or that a log stops for good, is not in it.)
* `no_hashlock`: `refresh_observations` asks for the hashlock before
  `GenerateSecret` can set it. A taker works only if it is given its secret and
  hashlock, as the runner and the tests do.

Met while modelling, and not contradicted by a document:

* **A log that does not fit stops everybody.** `newSwap` asks of a timelock only that
  it is ahead and of an amount only that it is not zero (HashedTimelock.sol:73-75), so
  that anybody may lock a leg whose timelock is above `u64::MAX`. Its log panics every
  poll of that chain (watcher.rs:42-43), whatever its hashlock: in the watchdog, which
  then warns of no leg of either chain, and in every wallet, which then neither
  redeems nor refunds. The panic comes before the cursor moves, and a restart scans
  from block 0. `observe_lock` has errors for such values (chain.rs:185-187), but the
  poll comes first. The funds can be refunded by hand. Of the safety properties
  only `MakerPaid` is touched: a maker that is stopped after its leg was taken
  may miss the preimage. `TakerEnds`, `MakerEnds`, `SettledLockIsConfirmed`,
  `ExpiredLegAlarms` and `MakerPaid` are stated with that exception, and without it
  TLC finds each of them violated by such a leg.

* `poll` reads no block twice: an event of a block that was replaced after the
  cursor had passed it is not seen (`NothingMissed` exempts those heights) until
  the wallet is restarted.
* Only the preflight asks for gas on both chains; the runner does not repeat that
  check, so `StopLosesNothing` is about runs that a preflight came before.
* With the defaults the runner makes 120 steps of at least 12 seconds, about 24
  minutes, and stops before the maker's lock of an hour expires: refunds are then
  made by hand, or by another run.
* `PreflightFundsTheSwap` and `StopLosesNothing` rest on two signers that differ and on
  a `min_gas` that covers three transactions (`ConfigsGiveTheLegs`). Neither binary
  checks that.
* The book compares hashes and not nonces: two orders under one nonce both enter,
  and Settlement lets one of them through. It also matches two orders of one maker.

## Proofs

Eight modules, about 9600 obligations. Every safety property of the passing runs,
invariant, action property or refinement, is a theorem: it holds for any
accounts, tokens, legs, orders and bounds within the named assumptions.

**Induction over data.** Sums over sets, folds over sequences of logs, a sort and
a flattening of sequences come from the community modules, and the provers do not
instantiate an induction theorem with a formula. Where it is needed, the proofs take
the least counterexample: the set of the numbers (lengths, cardinalities) for
which a fact fails is a set like any other, `LeastNat` gives its least element,
and the fact for one less contradicts it. The recursive function inside a fold is
a CHOOSE, so that it exists is proved first, in the same way (`FoldExists`,
`ScanExists`, `FlatExists`). What a fold computes is then stated as a run, one step
per element (`PollRuns`).

**`HashedTimelockProofs`**, from `HtlcConstants` and `CallbackConstants` (ids are
records of the right types; the contract is no account; the tokens that call back
are tokens): `HtlcTypeCorrect`, `EndedSwapsAreFinal` and `HtlcIsSolvent` of the
contract on its own; `CallbackTypeCorrect`, `SolventDespiteCallbacks` and
`FinalDespiteCalls` with calls back, for any depth. `TransferType` says that a
transfer its payer can afford keeps all balances natural numbers; `RecordWrites`
that the three writes stay within the four stages. The sums are over the finite
set of open swaps, `Open(t)`, which need not be a subset of a finite set of ids:
`OwedAfterLock` and `OwedAfterEnd` say by how much a lock and an end change them. With calls back, `SolventInCalls` counts with each call in progress
what it has moved in and not yet recorded (`Taken`) or recorded as paid and not
yet moved (`Due`); with the types it is inductive (`CInv`).

**`SettlementProofs`**, from these and `SettlementConstants` (the contracts' addresses
differ and are no accounts; `NoOne` is no address and `NoOrder` no order):

* `IInvCorrect`: `IInv == TypeOK /\ LegMatchesSwap /\ OneLegPerNonce` is an
  inductive invariant of Settlement with HashedTimelock, and from it
  `TypeCorrect`, `LegsMatchSwaps`, `NoncesSettleOnce`.
* `LegOwnersAreFixed` and `SettlementKeepsNothing`, the action properties.
* `BothContractsAreSolvent`: `IInv` with solvency; and from it
  `UnredeemedLegsAreRefundable`.
* `ContractsImplementEscrow`: the refinement.

`IdFields` says that a swap of Settlement's is no account's. `OthersKeepLegs` is the
frame: only `settleLeg` and `refundLeg` change legs, because `refund` demands the
id's own sender. A `settleLeg` that succeeds finds its id unused in the HTLC, and
by `LegMatchesSwap` also without a maker: this is why the id need not contain the
maker, and why `LegOwnerIsFixed` is not inductive without `LegMatchesSwap`. A
nonce it spends is fresh, so by `OneLegPerNonce` no earlier leg was locked under
it. `refundLeg` succeeds if the HTLC can pay, and an open swap is one summand of
what the HTLC is solvent for. Each transaction is mapped to one step of `Escrow`:
what a leg gives, to whom, and out of whose deposit; a redeem by anyone and a
refund by anyone are the same two steps of it.

**`WalletSwapProofs`**, from `AgreedTerms` (the two legs and their margin),
`WalletConstants` (types; both own legs fit; the clock is clear of `u64::MAX`) and `Responsive`:
`TypeCorrect`, `SecretIsSafe`, `RevealsLeaveRoom`, `MakerLocksAreSafe`,
`MakerIsPaid`, `ReportsHold`. `SecretSafe` is not inductive: it says nothing of the
steps before the broadcast. `IInv` adds

* `StepsAreRuns`: a party in a step, or one that has panicked in a step, is one that
  ran, and with a plan that step can have;
* `ClockIsRecent`: the clock a step works with is at most as old as the step;
* `RedeemsArePublic`: while the taker has shown nothing, no leg is redeemed;
* `RevealPays`: once it has, the leg is redeemed, or locked with
  `clock + Lag < timelock + age`: what is left of the step fits before the
  timelock.

`TakerRedeemsSafe` takes from `next_action` that a redeem was verified;
`ClockIsRecent` and the window of `check_timelock_gap` give `RevealPays` at the
broadcast, with `Lag <= MinGap`; the guard of `Tick` keeps it until the block;
refunds come too late and another redeem serves the same recipient. For the
maker's lock, the invariant `LockIsSafe` carries the verified leg from the
broadcast to the block: it cannot be taken back, since its timelock is a margin
after the maker's own, which has not passed if the lock succeeds.

For the maker, `MInv` says where it may be with and without a contract id
(`MakerStages`), that a redeem it has planned has its preimage on the chain
(`MakerKnows`), that its leg answers one with the agreed terms and the margin
(`Answered`), that a refund under way is due (`RefundsAreDue`), and, unless it has
panicked, `MakerInTime`: while its leg is out and the opposite one unpaid, an idle maker's last step began
before its timelock, and one in a step began at most `Lag` after it. When its leg
has been taken, the step after that finds the preimage; with `2 * Lag <= MinGap`
its redeem is mined before the opposite timelock.

**`RunnerProofs`**, from these, `ConfigsGiveTheLegs` (the configuration describes the
legs of the swap, and asks for the gas of three transactions), `OneRunner` (the
runner drives both parties and hands the taker its secret) and `RunnerNumbers` (types;
`max_steps` may be 0): `PreflightForetells`, for every configuration and every
answer; `RunnerDrivesTheSwap`, every step of the runner is one of `WalletSwap` or
leaves it alone, so that `IInv` and `MInv` hold, and nobody is ever left in `Panicked`
(`NobodyPanics`), as the process ends; `RunnerTypeCorrect`, `OkIsSwapped`,
`PreflightFundsAll`, `StopsLoseNothing`. The invariant `RInv` adds to the wallets'

* `TakerStages`, `AnswersHold`, `LockInTime`: what the swap keeps with both parties
  driven, also of a maker whose lock reverted;
* `TurnsHold`, `WaitsInTime`: one party steps at a time, and a maker that waits
  for the secret looks for it in time for a redeem;
* `MakerGot`: a maker that reports its redeem was paid, with or without a leg of
  its own. In `WalletSwap` that does not hold (see `lock_reverts`); the runner
  gives each party its turn, and so it does here;
* `LocksAreKnown`: only the last step of a run may lock and not know it;
* `BudgetInv`: after a preflight each signer has, on each chain, the gas and units
  of every broadcast that is still before it. That check and spending meet here:
  each of the calls of a step is paid from what the preflight counted for it.

**`ObserverProofs`**, from `ObserverConstants` and `DeeperThanReorgs`
(`MinConf > MaxReorg`): `ConfirmedIsFinalForever`, `ObserverTypeCorrect`,
`CursorMissesNothing`. For the first, the invariant adds that no head the observer
holds is above the greatest height there was; blocks that deep below such a head
are final, however old the head is. For the last, `CursorInv` adds that the chain
keeps the contract's rules through reorganisations (an end comes after its lock, an
id is locked once), and reads `NothingMissed` as what the tracker has heard
(`Heard`): each log adds to that, no log takes from it, and a reorganisation puts
the heights it drops below the cursor into `late`.

**`MaestroProofs`**, from `MaestroConstants` (legs are on the two chains under known
hashlocks, `NoPreimage` is no preimage): `MaestroTypeCorrect`, `WatchdogIsExact`,
`CorrelationIsExact`. The invariant `WatchInv` says what the tracker holds in terms
of the set of logs below the cursors (`Exact`): legs and their marks both ways, the
locks, the preimages; and that nothing ends before it was locked, without which a
redeem or a refund would come before its leg and be dropped. `TrackerProofs` gives
the effect of each kind of log on the legs held under a hashlock.

**`OrderBookProofs`**, from `BookConstants`, `DigestsDiffer` and `Policy`:
`OrdersAreUnique` (with the types, `BookTypeCorrect`, the invariant), `DealsAreSound`,
`DivergenceIsHarmless` and `MatchesAreServedAsRanked`. Different orders have different
digests, so `assign_role` is antisymmetric even with equal stamps; the saturating
sums do not saturate; two equal locks that differ by less than the margin fail the
gap in either role. For the ranking: `cmp_makers_for_taker` with ties broken by the
place in the book is a strict total order (`SortsBeforeIsTotal`); the scan ends with
the least candidate of it (`BestIsLeast`); every set of candidates can be sorted, the
best before the sorted rest, and the sorted sequence holds all of them
(`SortedExists`, `CandidatesAreSorted`); in the flattened answer each pair is behind
nothing but what precedes it (`FlattenLists`); and `compatible` is symmetric.

Only model-checked: all liveness (`LegEnds`, `TakerEnds`, `MakerEnds`,
`SettledLockIsConfirmed`, `ExpiredLegAlarms`), which is out of the prover's reach
under fairness, and the four violations.

## Not modelled

* Tokens that take fees or rebase; gas prices; approvals, except as a cost of the
  runner's locks. Settlement's tokens do not call back, and it is not in
  `HtlcCallbacks`.
* RPC errors of a wallet other than a lost receipt end a step that has changed
  nothing; they are actions in `Observer` and `Runner`, where they matter.
* Wallets whose clocks differ from the chains', and chains whose clocks differ
  from each other. Reorganisations in `WalletSwap` and `Maestro`.
* Persistence: the executor has none, and a restarted wallet starts a new swap.
* EIP-712 bytes, signatures and their recovery, in both languages: which fields are
  signed and what is accepted is modelled, and the repository's test vectors
  compare the bytes. Key parsing, JSON shapes, HTTP routes.
* `saturating_add` at `u64::MAX`, which the assumptions exclude and `Verify` has.
* A transaction that is still pending when its receipt is given up, in a wallet or at
  the stop of a runner.
* Scripts, CI and forge-std: no logic of the protocol's.

## Plan

1. An abstract atomic swap that `WalletSwap` implements, the taker's and the
   maker's proofs as its refinement.
2. Settlement over `HtlcCallbacks`.
