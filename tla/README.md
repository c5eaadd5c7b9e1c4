# TLA+ models of Scorum

Scorum is a delegated proof-of-stake blockchain node in C++. This directory holds
TLA+ modules of its core, TLC configurations that check them on small instances,
and TLAPS proofs of what can be proved for every instance. Paths below are under
`src/`.

To check a run: `tlc -config MCBetting.cfg MCBetting`; to check the proofs of a
module: `tlapm GenericIndexProofs.tla`.

## 1. The system

### Parts, their state and their operations

| Part | Source | State | Operations | What makes it correct |
|---|---|---|---|---|
| undo stack of an index | `libraries/chainbase/include/chainbase/generic_index.hpp` | objects by id, next id, stack of differences, revision | create, modify, remove; start, undo, squash, commit, undo_all, set_revision | undo gives back exactly what the session found, whatever was squashed and committed |
| locks of the database | `libraries/chainbase/include/chainbase/database_guard.hpp` | a ring of ten reader/writer mutexes, the current one | with_read_lock, with_write_lock, the move to the next mutex | nobody waits for ever, also when a mutex in use is made anew |
| chain database | `libraries/chain/database/database.cpp` | head, last irreversible block, known transactions, pending transactions | push_block, pop_block, apply_block, push_transaction, open, close, reindex, generate_block | an irreversible block stays; a stop at any moment can be recovered; a switch that fails is taken back whole |
| fork database | `libraries/chain/database/fork_database.cpp` | recent blocks with weak links, head, window | push, remove, fetch branches, set_head, set_max_size | holds every block the chain may still need |
| block log | `libraries/chain/block_log.cpp` | file of blocks, file of positions, head | append, flush, read, open with repair | flushed blocks are there after every crash |
| account balances | `libraries/chain/services/account.cpp` | balance, scorumpower, circulating capital | transfer, increase, decrease, burn | no money is made or destroyed |
| escrow | `libraries/chain/evaluators/scorum_evaluators.cpp` | escrows with approvals, deadlines, dispute | transfer, approve, reject, dispute, release, expire | each amount and fee is paid once, to somebody entitled to it |
| atomic swap | `libraries/chain/services/atomicswap.cpp` | contracts with secret, deadline, amount | initiate, redeem, refund, expire | the initiator's money is locked for the time the other side counts on |
| betting | `libraries/chain/betting/`, game evaluators | games, pending and matched bets, volumes | create, move, change markets, results, cancel; post and cancel bets; match, resolve, expire | every stake is returned or won once; games are started, resolved and expired on time |
| committees and proposals | `libraries/chain/services/proposal*.cpp` | members, quorums, proposals with votes | create, vote, execute, expire | a decision has the quorum that its kind requires |
| witness votes, proxies | `libraries/chain/services/account.cpp`, `witness_vote.cpp` | votes, proxies, proxied power by distance | vote, set proxy, change of power, decline voting rights | what a witness got is the sum of its voters' power, each counted once; proxies never form a loop |
| scorumpower | `libraries/chain/database/block_tasks/process_vesting_withdrawals.cpp`, evaluators | power, withdrawals with rate and routes, delegations and their time in limbo | transfer to power, withdraw, route, delegate, instalments | power is conserved; no more is withdrawn than asked for; delegated power stays |
| budgets, auction, rewards | `libraries/chain/services/budgets.cpp`, `database/block_tasks/process_funds.cpp` | budgets with balance and per-block share, pending payouts, balancers | create, close, allocate, auction, cash out | what a budget got is spent or given back; totals agree with what they count |
| comments | `libraries/chain/evaluators/`, `database/block_tasks/comments_cashout_impl.cpp` | comments with sums of votes and curators, the tree of replies | post, reply, delete, options, vote, payout | the sums a payout divides by are those of the votes; what is passed up the tree balances |
| accounts, recovery | `libraries/chain/services/account.cpp`, `libraries/plugins/account_by_key` | authorities, their history, requests for recovery, keys | create, update, request and carry out recovery, change the partner | a stolen account can be recovered; a partner changes only after the period |
| registration pool | `libraries/chain/evaluators/registration_pool_evaluator.cpp`, `services/registration_*.cpp` | balance, schedule of bonuses, what each member may still spend | register with a bonus, return of a bonus | bonuses follow their schedule and never exceed the pool |
| witness schedule | `libraries/chain/database/database_witness_schedule.cpp` | virtual times and positions, the round | update schedule, adjust votes | every voted witness gets its turn, also when virtual time overflows |
| block production, hardforks | `libraries/plugins/witness/witness_plugin.cpp`, `database.cpp` | slots, missed blocks, participation, versions and hardfork votes | production loop, header checks, hardfork | own blocks are accepted; a hardfork needs its quorum and its time |
| transactions | `libraries/app/api.cpp`, `database.cpp` | pending transactions, callbacks, bandwidth, expirations | broadcast, push, generate, apply, answer | applied once; clients are told the truth once |
| authorities | `libraries/protocol/sign_state.cpp`, `transaction.cpp` | none: a search | check and minimise signatures | granted exactly to who holds the keys, within the depth |
| history plugin | `libraries/plugins/blockchain_history` | operations by account, progress of withdrawals | record, page | each operation once for each account, status of a withdrawal is right |
| network: synchronisation | `libraries/net/node.cpp` | per peer: ids, requests, inventory; the backlog | synopsis, ids, fetch, process, terminate | every block asked for once, handed over in order; the node catches up |
| network: connections | `libraries/net/node.cpp`, `peer_connection.cpp`, `stcp_socket.cpp` | peers by state of their handshake, known endpoints, queues | dial, accept, hello, reject, close; queue, write, read | one connection per peer; messages whole and in order |
| NFT, genesis, wallet, other plugins, support code | see `components` in `PROJECT.json` | | | |

### How they interact

Blocks and transactions come from the network or from the witness plugin into
`database::push_block` and `push_transaction`, under one write lock. `push_block`
asks the fork database whether the block extends the chain, is only to be stored,
or makes another branch the longer one. A block is applied in an undo session:
each transaction's operations go to their evaluators, which read and change
indices through the services; then block tasks run (expirations, funds, bets,
withdrawals) and the last irreversible block is computed from what the witnesses
have confirmed. What becomes irreversible is committed (its undo states are
dropped) and appended to the block log. Evaluators see the time of the block
before, block tasks the time of the block itself: most deadlines are decided by
that difference.

### What is hard

* Blocks of several branches in every order, twice, late; blocks that fail before
  or after the head moved; failures in the middle of a switch.
* The death of the process between two writes: chainbase is a mapped file that
  keeps everything, the block log has two buffered streams.
* Undo by differences: sessions in sessions, squashed and committed in any order.
* Money in several places at once, moved by operations and by time. Deadlines are
  compared with `<`, `<=` and `>=` in different places.
* Bets matched in parts with rounding, put together again when a game moves.
* Sums kept by differences (votes through proxies, curators, budgets, statistics)
  that nobody ever adds up again.
* Fibers of the network that give way in the middle of a handler, while requests
  are outstanding; both ends of a connection that act at once.

The list, with lines, is `hazards` in `PROJECT.json`.

## 2. Modules

| Module | Models | Composes |
|---|---|---|
| `UndoStack` | what chainbase promises: a stack of saved copies | |
| `GenericIndex` | `generic_index` and its undo states | refines `UndoStack` |
| `ChainDatabase` | `database`, `fork_database`, the block log as a sequence of blocks | uses the promise of `UndoStack` |
| `BlockLog` | `block_log` with both files and their streams | |
| `Balances` | account balances, transfer, clock of the chain | |
| `Escrow`, `AtomicSwap` | the two kinds of contracts | over `Balances` |
| `Contracts` | both kinds on the same balances, with blocks | `Escrow`, `AtomicSwap` |
| `BettingMatcher` | odds, stakes and matching as operators | |
| `Betting` | games, bets and the block tasks for them | `Balances`, `BettingMatcher` |
| `Committees` | committees, proposals and the executor | |
| `WitnessVotes` | votes for witnesses, proxies, voting rights | |
| `Vesting` | scorumpower: withdrawals, routes, delegations, bonuses | |
| `Funds` | budgets, auction, rewards of a block | |
| `Comments` | comments, votes and their payout | |
| `Accounts` | authorities over time, recovery, the index of keys | |
| `Registration` | the registration pool and its schedule | |
| `WitnessSchedule` | virtual time and the round of witnesses | |
| `BlockProduction` | slots, production, participation, hardforks | |
| `BlockSync` | synchronisation with peers | |
| `Connections` | dialling, handshake, closing between several nodes | |
| `MessageConnection` | queue, socket and reading loop of one connection | |
| `DatabaseGuard` | the ring of mutexes of a database | |
| `Transactions` | transactions from a client into a block and back | |
| `Authorities` | the search for authorities, the wallet's choice of keys | |
| `History` | the history plugin and its pages | |
| `MCLedger` | one run for `Committees`, `WitnessVotes`, `Vesting`, `Funds`, `Comments`, `Accounts`, `Registration` | all of these |
| `MCNode` | one run for `BlockSync`, `WitnessSchedule`, `BlockProduction`, `BlockLog` | all of these |
| `MCServices` | one run for `Connections`, `MessageConnection`, `DatabaseGuard`, `GenericIndex`, `Transactions`, `Authorities`, `History` | all of these |
| other `MC*` | instances for TLC | |
| `SumTheorems` | sums and folds over finite sets; induction and recursion; quotients | |
| `*Proofs` | proofs about the modules they are named after; `ServicesProofs` about `Connections`, `MessageConnection`, `History` and `Transactions`, `NodeProofs` about `WitnessSchedule`, `BlockLog`, `WitnessVotes` and `BlockProduction`, `LedgerProofs` about `Accounts`, `Vesting` and `Registration` | |

The parts that `MCLedger`, `MCNode` and `MCServices` put together share no state
in the model. Such a run picks one of them at the start (`part`) and explores every
interleaving of its actions; the others stay as they began. What they exchange in
the code arrives as inputs: a committee's decision is an operation of the pool in
`Vesting`, a change of a witness's votes is one call in `WitnessSchedule`.

### State and actions against the code

**GenericIndex.** `indices`, `next_id`, `stack` and `revision` are `_indices`,
`_next_id`, `_stack` and `_revision`. An object is a unique secondary key and the
rest of its value, because undo treats everything else alike. `OnCreate`,
`OnModify` and `OnRemove` are the methods of the same names, `Merge` is the loop
body of `squash`. `undo` has two actions: it runs to its end, or one of its
`FC_ASSERT`s throws. `modify` has two: it succeeds, or `boost::multi_index` erases
the element that collides and an exception follows. `MutableKey` says whether the
users of the index modify unique keys at all: among the chain's indices few do
(`nft_index` by name). A modifier that throws loses its element like one that
collides and is not modelled apart.

**ChainDatabase.** A block id is a hash over the previous id, so it stands for its
history: `Path`. The object database is a record of what block processing reads
back (`StateRecord`); `whole` is a history bit that is false while a block is half
applied. `push_block` holds the write lock, so nothing interleaves with it but the
death of the process: it is cut into `PushBlock` (four outcomes of the fork
database), `PopBlock`, `BeginBlock` (up to the commit in
`update_last_irreversible_block`), `AppendBlock` (one block to the log) and
`EndBlock`. An exception goes through `ApplyFails`, which is the `catch` of the
direct path, of the switch, or of taking the switch back. The weak pointers of the
fork database are modelled (`linked`, `DropDeadLinks`), since a pop follows them.
At the end of every call `RestorePending` pushes the transactions of popped blocks and
the pending ones again and drops those that fail, as `Validates` decides from the head
and from what is in the chain and pending by then.

**BlockLog.** The files are sequences of words; a block packs into `Parts` words
followed by its position. Streams hold back what they have not written, `Crash`
keeps any first part of each, `OpenLog` compares the last words and rebuilds the
index when they differ.

**Balances, Escrow, AtomicSwap, Contracts.** Objects have the fields of
`escrow_object` and `atomicswap_contract_object`. An evaluator is an action; the
end of a block runs `expire_escrow_ratification` and
`process_contracts_expiration` in the order of `_apply_block`. A block's time may
pass several deadlines at once (missed slots).

**Betting.** Pending and matched bets are sequences, because their ids are their
order. `Match` is the loop of `matcher::match`, with candidates in the order of
its index; `Return` and `MatchedStake` are the divisions of `asset` and
`betting_math`. `UpdateGameMarkets` takes what `boost::set_intersection` takes.
`ProcessGames` is the block's startup, resolving and expiration in their order. Delays
are any that the proposal and the game accept, zero among them, and times are 32 bits.

**Committees.** A vote is one action that runs the executor to its end: it applies
the proposal and, for each member this excludes, removes the member's votes and
tries every proposal again. `removed_members` is a field of the executor, outside
the undo session, so a vote that throws leaves it as it is.

**WitnessVotes.** `proxied_vsf_votes` is kept by distance as in the code, and every
operation changes the sums by differences along the chain of proxies.

**Vesting, Funds, Comments, Registration.** One action per operation and one for a
block, which runs the block's tasks in the order of `_apply_block`. Divisions are
those of the code, with small denominators. `Funds` has the rules from hardfork 0.2
on, `Comments` those of both sides of hardfork 0.3, in builds with and without
`CLEAR_VOTES`. A vote has a weight with a sign, and what it is worth is in proportion.
Withdrawals are refused until the time of the genesis file has passed (`LockedUntil`,
`PoolLockedUntil`).

**Accounts.** Every operation may be signed, as when a thief has the keys; who may
sign is the matter of `Authorities`.

**WitnessSchedule.** Virtual time is an unsigned integer below `VirtualSize` and
wraps; `fc::uint128` in the code. `update_witness_schedule` is one action. Witnesses
that are not of the genesis file are created by `witness_update` later.

**BlockProduction.** Each producer has a node with its own version; the loop of the
plugin, a block and a restart with another version are actions. A witness may give up
its key with `witness_update` and take it up again. A block of one's own may end in
`exception_producing_block`: where the state has decided on a hardfork that the software
does not know, and where too many blocks are not irreversible yet.

**BlockSync.** A handler is one action up to the point where its fiber gives way
(a call into the chain's thread) and another from there; `ChainThread` serves the
calls in order. Peers answer, stay silent or break off. The synopses that one fiber asks
for several peers (`node.cpp:3465`) wait in the queue of the chain's thread together,
where the code asks for the next when the last has come.

**Connections, MessageConnection.** A connection is `<<n, m, k>>` with two ends that
act on their own; messages between the ends are in order, as in TCP. The reader of an
end answers from `accept_or_connect` on, while `send_hello_message` comes when the chain's
thread has told the head block: an end may be active before its own hello is sent. Nodes
are dialled because they are known or because they are on the add-once list. Every node
runs this program, so no hello is wrongly signed, and the check for outdated clients never
refuses one (its list of hardforks is empty). The queue of
a connection, the blocks of 16 bytes it writes and the loop that reads them are in
`MessageConnection`. An item that is gone when its turn comes ends the sending task with
the item still queued (`get_message_throws`): nothing more is sent, until the peer finds
the connection inactive (`peer_inactive`).

**DatabaseGuard.** `GetRead`, `GetWrite` and `Release` are the lock operations, a
wait that takes too long is an action of its own. The move of a writer is three steps,
with other threads between them: the number, the mutex that is current by then, the wait
for the one that is current after that. A mutex that is constructed again while held
forgets its holders, and their unlock does nothing, frees it, takes a reader away, or
leaves it looking held for ever (`stuck`). One assumption about time is made: the second
that a writer waits is longer than a move that was under way when it began (`during`).

**Transactions, Authorities, History.** The callback of a client, the pending queue
and the sets of known transactions are those of `api.cpp` and `database.cpp`.
`Authorities` is a search over every graph of a small set, compared with a
reference definition of who holds which authority, in which the account named `temp`
holds whoever signed, as in `sign_state`. `History` records six kinds of
operations, which stand for all; the white and black lists of operations are empty.

## 3. Runs

| Run | Bounds | Checks |
|---|---|---|
| `index_undo` | 3 ids, 3 sessions, 2 keys, 2 values; keys symmetric | every session gives back what it found; undo does not throw; `UndoStack` is implemented |
| `chain_forks` | 10 blocks on three branches, 2 transactions, 3 witnesses | irreversible blocks stay, the log is the chain, every stop can be reopened, no transaction is lost that still applies |
| `chain_bad_blocks` | 8 blocks, one bad early and one late; START_MINER_VOTING_BLOCK crossed | half applied blocks never stay; `push_block` ends (liveness) |
| `contracts` | 3 accounts, 4 coins, 4 time units | money is conserved and paid once; deadlines; locks; limits |
| `betting` | 1 game, 2 markets, 5 bets, 4 time units | money, times of games, rounding, complete matching, moving a game |
| `ledger` | see below | the seven ledger parts |
| `node` | see below | synchronisation, schedule, production, block log; catching up and every witness's turn (liveness) |
| `services` | see below | connections, messages, locks, an index with renamed keys, transactions, authorities, history; nothing waits for ever (liveness) |
| `known_block_removed_from_fork_db` | 4 blocks, one invalid | violated: the assertion at `database.cpp:2036` |
| `removed_market_keeps_bets` | as `betting` | violated: removing a market returns all its bets |
| `unscheduled_reward` | `MCFunds`, 2 holders | violated: a pending reward has a time of cashout |
| `stalled_sync` | `MCBlockSync`, 2 peers | violated: the backlog goes on after a block that another peer's synchronisation brought first |

The last four state what a comment, an assertion, a test or a doc of the repository
says; `findings` in `PROJECT.json` quotes them.

Most properties of the passing runs are conjunctions of named parts, each with a
comment of its own: `UndoSound` is `UndoRestores`, `UndoNeverThrows` and `SquashNeverNA`; `ChainSound`
is `LogFollowsChain`, `OneUndoStatePerBlock` and types; `Recoverable` is
`OnlyWholeBlocks` and `ReopenWorks`; `LedgerSound` is `MoneyConserved` and
`WithinLimits`; `BetsSound` is `BetMoneyConserved` and `BetsOfOpenGames`;
`MatchingSound` is `NoMissedMatch` and `PotCoversOdds`; `BetsFollowGames` is
`RescheduleKeepsEarlyBets` and `GameEndsInFull`; `GamesOnTime` is `StartsAndExpires` in
every state and `NoneOverdue` of every block. The larger ones:

| Property | Says |
|---|---|
| `ProposalsSound` | votes are those of members; a proposal with its quorum is carried out at once, an expired one never |
| `VotesCounted` | proxies end; proxied power and the votes of a witness are the sums they stand for; nobody's power counts twice |
| `PowerSound` | power and SCR are conserved; delegations match what accounts hold; instalments are whole; delegated power stays |
| `FundsSound` | money is conserved; totals are sums; a budget pays up to its deadline and is never stranded; in the auction nobody pays more than he bid and a better place never costs less |
| `CommentsSound` | sums of votes add up; curators are covered; the tree and its counters are right; the statistics of a payout balance |
| `AccountsSound` | a stolen account stays recoverable; requests and changes do not outlive their time; the key index is that of the accounts; a partner changes only after the period |
| `RegistrationSound` | bonuses follow the schedule; members and pool stay within their limits |
| `ProductionSound` | participation is the count of filled slots; missed slots leave someone who may sign; the headers of own blocks are accepted; hardfork votes are backed, a hardfork is neither early nor without quorum; the irreversible block never goes back |
| `SyncSound` | requests match what peers were asked; no block is taken that was not asked for, or out of order; what is being processed is handled; calls are bounded; a synopsis ends at the head |
| `ScheduleSound` | no witness is past its lap, none whose time has come is left out |
| `LogSound` | every block is readable, the next one is accepted, a flushed one stays |
| `ConnectionsSound` | no two connections are kept with one peer, none with oneself, never more than the maximum; what is active was accepted by the other end; who is behind a firewall is not offered |
| `MessagesSound` | messages are handled whole and in order; the size of the queue is counted |
| `TransactionsSound` | applied once; pending ones apply and stay; clients get one true answer |
| `AuthoritiesSound` | granted exactly to who holds it; a wallet signs enough and with nothing superfluous, also where a transaction has signatures already; no signature that is needed is refused as unnecessary |
| `HistorySound` | the status of a withdrawal is right, an operation is listed once for each account it impacts, pages are complete |
| `EverythingSettles` | connections are made or gone, queues empty or their connection is given up, clients are answered |
| `EverybodyEnds` | who asks for a lock comes out again, whatever became of the mutexes |

**Why the bounds are enough.** Three sessions are the smallest depth at which a
squash has a state below the one it merges into and an undo follows it; two keys
let objects collide. The tree of blocks has a fork at the first block and another
above it, so that a switch pops one to three blocks, crosses a third branch and
meets the irreversible block on either side; blocks cross the window of the fork
database. Four time units are an initiator's lock, a participant's shorter one, a
ratification inside them and a block that jumps over all. Five bets have one at 3/1
that two others, at 6/4 and at 3/2, match in parts and with rounding, and a market
that can be removed with bets on both sides.

In `ledger`: four persons with a limit of two members let an exclusion bring a
second proposal to its quorum in the same vote; four voters form a chain of proxies
one longer than the depth that counts (2); three accounts, three power operations
and instalments up to block 4 are a withdrawal in two instalments along two routes,
changed in the middle, with a delegation; one advertiser with budgets of 7 and 2 over
eight seconds, with blocks missed, has per-block shares that do not divide; three
comments of two users are a chain of replies across the payout; two names and five
time units are an account stolen, a request that expires and one that is carried
out; six newcomers would get 11, where a member gives at most 8 in any window of two
blocks, and cross a stage of the schedule.

In `node`: two peers with four blocks start with different chains, and with lists of
ids (3) shorter than what is missing; three witnesses with virtual time below 32 wrap
it around; three producers over 10 seconds miss slots, restart with another version
twice, give up a key and cross a hardfork, and the undo history fills up; five log entries let a crash leave each file ahead of
the other by several entries, after a rebuild. In `services`: of five nodes one is
behind a firewall and one on another chain, and pairs may dial each other at once;
three messages fill the queue and need more blocks than the socket takes at a time;
three threads, two mutexes and five calls go round the ring with two moves at once; three transactions
of which two spend the same money expire within six time units, and blocks of others
hold the two of them that fit; three signatories and `temp` at depth 1 are a chain one
longer than the search; four records are a withdrawal
and its progress.

A run has no deadlock check where its bounds (the clock, the number of operations)
end a behaviour: `betting`, `ledger`, `node` and `services`.

**Fairness.** `FairSpec` of ChainDatabase has weak fairness of `Working`, the steps of
a `push_block` that has begun, which are one thread's code under a lock; and of
`Open`: a node that is down is started again. In `node` the schedule is updated (a
block is applied in the end), and in the part `alone` the node's own loops and fibers,
the chain's thread and the one peer's answers take their steps; with two peers nothing
is assumed of them. In `services` nodes handle what has arrived and sockets write and
read or fail, and a connection on which nothing comes is given up; who waits for a lock
gets it or times out, and who holds one releases it; blocks go on coming. These are loops of the code or tasks its scheduler runs.
Nothing is assumed of a client, of who dials, or of an operator who would replay
the chain.

Each property has a mutant in `PROJECT.json`: a plausible mistake in a mapped
definition that makes the run fail.

## 4. Theorems

All are proved for every value of the constants that satisfies the named
assumptions. `theorems` in `PROJECT.json` lists them.

**GenericIndexProofs**, assuming `MutableKey = FALSE` where undo is concerned (an
object that a colliding `modify` loses is not restored, section 5):

* `TypeCorrect`, `RevisionsAlwaysConsecutive`, `UndoIsSound` (every undo state
  restores, and undo never throws), `Refinement`: the index implements
  `UndoStack`.
* The invariant `IInv` says of each undo state how it *fits* the table its session
  found and the table above it: below the next id of its session, objects it does
  not mention are equal, the modified have their old values, the removed are gone;
  created ids are above. Restoring alone is not inductive: after a `squash` it
  says nothing about how the two sets of differences overlap. That undo does not
  throw also needs unique keys in all tables, those saved included, and that an
  object keeps its key between them.
* `NeverNA` needs no such assumption: `squash` meets no case its comment calls N/A,
  also when keys change. Its invariant `MentionInv` follows which ids the undo states
  mention, created ones at or above the session's next id and the others below it.

**ChainDatabaseProofs** (`PathAssumption`: a block's path is its ancestors; no
assumption on how many blocks, forks, witnesses or failures):

* `UndoStatesAreBlocks`: between calls the undo stack holds one state per block of the
  chain, in order and without a gap, wherever the process dies.
* `TransactionsKept`: an accepted transaction stays in the chain or pending while the
  process lives; only those of a block that fails to apply go, and one that does not
  validate when it is pushed again. `Validates` is any operator.
* `IrreversibleKept`: no sequence of blocks, forks, failures, crashes, stops and starts
  (`Operating`) leads off a block that was reported irreversible. Nothing is assumed of
  the blocks, the fork database or the log. Replays are left out: a replay trusts the
  log, which may lack a block that was reported, or have none (section 5).
  `ChainTypes`: the types of such a node; the size of the fork database's window is
  an unsigned difference that never wraps.
* The invariant `CallRight` says for each stage of a call what the call's job, the open
  session and the stack are; `StackRight` relates each undo state to the one below
  (its head is the parent) and bounds what it knows. `Moves` classifies a step: it
  applies the next block, goes back to a saved state, loads a state from the files, or
  changes nothing of the chain. `BoundInv` keeps the irreversible block and all
  confirmations at or below the head; `KeptInv` says that the stack, or what the files
  hold after a crash, can only lead to chains above the reported block.
* That the log follows the chain is not a theorem, because it is not always so:
  `known_block_removed_from_fork_db` is a run in which it fails. TLC checks it on
  `chain_forks`, where blocks are valid.

**ContractsProofs** (`BalancesAssumption` and those of `Escrow` and `AtomicSwap`):

* `NeverOverdue`, `NeverPaidTwice`, `InitiatorStaysLocked`. The invariant relates an
  escrow's approvals to its fee, its deadline to the clock, and a contract's secret
  to its amount. The end of a block is the one step where the clock moves, and the
  sets the two expirations remove are exactly those that would break it.
* `LedgerAlwaysSound`: balances, escrows and contracts add up to the supply, and no
  account holds more than the limits. `EscrowsEndInFull`: an escrow that goes has paid
  everything it held. Each action moves an amount from one of the three sums to
  another; the end of a block moves a whole set of them at once, which is the sum of
  the payments by account against the sum over the objects removed.

**SumTheorems** gives what these need: that the sum of a function over a finite set
(`SumFunctionOnSet`) has the recursion it is defined by, in any order; how it changes
with one element, with a union and with a partition. Its induction is over sets of
numbers and of finite sets (`NatSetInduction`, `SetInduction`); `FoldExists`
and `RecursionExists` show that a fold through the states of a system, or a function
defined by recursion on numbers, has the values its equation says.

**BettingProofs**, for any delays, a resolve delay of zero and delays that wrap
included: `NoGameOverdue` and `ResultsAreFinal`. The invariant adds to `GamesOnTime`
that a finished game never expires (`auto_resolve_time` is the maximum), which makes the
three block tasks exclusive. A resolve delay of zero, which nothing refuses
(`proposal_evaluators.cpp:99`), makes a game due in a block that is already past: it is
resolved at the end of the current one, so that games are never overdue after a block
but may be between its operations.

**LedgerProofs**:

* `AccountsAlwaysSound`. The invariant ties each change of partner to
  the last request for it and its date (`ChangesAsked`), dates every change behind the
  replacement of an authority that found none on its way (`SteadyLasts`), and follows the
  index of keys also before the plugin has started, when it may lack keys of genesis
  accounts but has no foreign ones (`KeysRight`).
* `PowerAlwaysSound` (`VestingAssumption`: genesis bonuses are within the registration
  pool; `RoutePairs` and `PowerAmounts` are any sets of pairs and naturals). `PowerSound` is
  inductive with what it leaves unsaid: the percents of one holder's routes, without the
  route to account 0 that `get_all` skips, are at most the whole, so the shares of an
  instalment, each rounded down, are no more than it (`RoutesRight`, `SharesWithin`); who
  has begun a withdrawal has no bonus to lose (`BonusRight`), since the operation that
  begins it ends the bonus; an account that does not exist has no power and nothing
  delegated to it (`Unborn`). A block pays the withdrawals due one after another:
  `WithdrawHeld` is one of them, `PaidHeld` all, by induction on their number.
* `RegistrationAlwaysSound` (`RegistrationAssumption`: names of accounts differ, and the
  limit, the window and the supply are not zero). The limit is checked against the window of
  the member only, and not where one begins; the invariant `WindowRight` recovers where the
  window began from what its record says remains, so that any other window of blocks meets
  at most this one and the blocks just before it, which `LimitedStep` adds up. Bonuses
  given back are at most what accounts hold because an account has one (`OneBonus`).
  `SearchKnows` is the invariant of the loop over the schedule: what it has subtracted are
  the users of all stages before (`StageFound`).

**NodeProofs**:

* `ScheduleAlwaysSound`. Besides types, the invariant `OnItsLap`
  says that a witness was last updated in the past, has its scheduled time ahead, and
  with its present votes is at most one lap far when that time comes. That `position`
  alone is within a lap is not inductive, because a change of votes in between moves
  it on at the old speed.
* `LogAlwaysSound`, for any number of blocks and size of an entry. `LogInv` says which
  word belongs at each place of the file of blocks and which position at each place of
  the index, whatever prefix of them a crash left (`WordsRight`, `PositionsRight`), and
  that an open log has whole entries (`OpenRight`). The step that needs work is
  `OpenLog`: of a file that ends with a position, `ReadableEnds` shows that it ends with
  a whole entry, and `ConstructedIndex` that the rebuilt index is the one that
  was lost.
* `VotesAlwaysCounted`, for any accounts, witnesses and `ProxyDepth`. That the chains of
  proxies end is not inductive as it stands; the invariant `Counted` has the length of
  each chain instead (`Ranked`), from which it follows that no chain has as many steps as
  there are accounts (`RankBounded`), so the bounded check for loops is enough
  (`NoLoopLeads`). An account that has a proxy has no votes (`VotersLast`). A change of
  proxy is `Detached`, then `Attached`: without the account, everybody above it loses
  exactly the accounts that reach it through this one (`SumsApart`), which is what the
  adjustment takes from each distance (`ProxiedMoved`). Requests that take effect in one
  block are `Detached` one after another (`DeclinedCounted`). That nobody's scorumpower
  counts twice follows by grouping accounts by the end of their chain (`CountsOnce`).
* `ProductionAlwaysSound`, for any producers, size of a round, window of slots and
  hardforks (`BlockProductionAssumption`: hardforks are listed in the order of their
  times, as in `hardfork.d`). `SlotsRight` has the head at a slot that is not ahead of the
  clock. That the irreversible block never goes back needs `LibRight`: up to
  `VotingBlock` it is exactly a round behind the head, so the rule that takes over there
  starts from what the first one reached; from then on the code itself keeps the larger
  number. The number of filled slots follows the window as bits are shifted out of it
  (`OnesKept`). A hardfork is not early because what was decided carries the time that
  its version is listed with (`HardforksRight`), and is backed because the vote that is
  chosen has a majority of the round (`MajorityIs`).

**ServicesProofs**:

* `ConnectionsAlwaysSound`, for any set of nodes. `ConnInv` says for each of the states
  both ends may be in together what has been sent and not yet handled (`PairRight`: one
  hello, which may come late, and one answer to it), and that of the connections a node
  has accepted and not begun to close there are no two to one peer (`OneTaken`) and no
  more than the maximum (`TakenWithin`). A connection that is active before its hello
  came is not among them until it does.
* `MessagesAlwaysSound`, for any messages, sizes and buffers
  (`MessageConnectionAssumption`: a header is shorter than a block and no size is within a
  block of the modulus). `ReaderRight` follows every block from the call that writes it
  to the reader: end to end they are the messages taken from the queue, each block
  followed by the next of its message or the first of the next message, and they begin
  right after the last one handled. `BlocksPositive` is why the reader stays in step:
  its unsigned arithmetic asks for the number of blocks the writer padded to.
  `NumbersRight` ties the queue to what was taken, with one message on both while it
  is being written; it ends when our end closes, and then nothing more is written.
* `HistoryAlwaysSound`, for any accounts, ranges and operations (`HistoryAssumption`:
  the ranges of tracked names are in order and do not overlap). `RecordInv` says what
  the record of a withdrawal holds: exactly the instalments and the end of it that its
  account's operations show until the next withdrawal, in order, and last the
  next one; once finished nothing but that follows, because the chain pays only what
  runs. That is why two entries are enough to read off the status. `TrackedIs` shows that the one
  range that is looked up decides as all of them would. A transfer of the committee is
  listed for the committee and for its receiver.
* `TransactionsAlwaysSound`, for any transactions and blocks, with any number of
  transactions in the blocks of others. Applied transactions are
  forgotten once they have expired, so the invariant is `KnownKept`: what is in the chain
  and could still be taken in is known. What is pending is described by what it holds
  instead of by its pushes (`Stands`): none of it is known, expired or used up, and no
  two use the same. A sequence that stands is pushed as it is (`StandsPushed`), and
  whatever a sequence is pushed to, or a block made here chooses, stands
  (`TakingRight`). That clients are told rightly needs `WaitsForTask`, because the task of a
  block runs when later blocks may be in the chain: the blocks that have an accepted
  transaction of a waiting client are among those whose tasks are still to run.

**With TLC only.**

* Liveness, under the fairness above (`EverybodyEnds` of `DatabaseGuard` among it).
* `LogFollowsChain` and `Recoverable`: false in general (`known_block_removed_from_fork_db`;
  a late failure when the head is irreversible at once, section 5), so they hold only
  on instances.
* `BetsSound`, `MatchingSound`, `BetsFollowGames`: what folds over sequences of bets
  compute, and arithmetic with division.
* `Authorities` is a recursive search.
* `Committees`, `Funds`, `Comments` and `BlockSync` have no proofs yet.

## 5. Observations without a run

Chain database, undo and block log:

* A switch longer than the distance to the irreversible block can lose it from the
  fork database: pops lower its head and the window is cut at the new head
  (`database.cpp:998`, `2036`; an instance with two witnesses shows it).
* After a successful switch the fork database's head is lower than the chain's
  (`fork_database.hpp:51`); after a failed direct push it is a block that was
  removed (`database.cpp:733`).
* When every block is irreversible at once (the last irreversible block is the
  head) and a late task fails, undo has nothing to restore and the half applied
  block stays (`database.cpp:2018`).
* A replay killed before its first block leaves a state that opens as genesis over
  a full log (`database.cpp:249`). A replay does not rebuild the set of known
  transactions (`database.cpp:193`). An open that is refused never reindexes, though
  the comment says "This assertion should be caught and a reindex should occur"
  (`database.cpp:252`).
* A torn last entry of the block log makes every later open fail
  (`block_log.cpp:271`). After a crash between commit and flush, a replay gives a
  chain without a block that was reported irreversible. The index of a log of one
  block is not rebuilt (`block_log.cpp:310` against `block_log.hpp:35`).
* The number of the last irreversible block is still accepted by the fork database.
* An object that a colliding `modify` of a unique key erases is not restored by undo
  (`generic_index.hpp:172` against the comment at `196`).
* A writer that waits over a second moves to a fresh mutex and runs beside slow
  readers and writers; `next_lock` is not synchronised (`database_guard.cpp:17`), and after
  ten moves a mutex that is still held is constructed anew. So no property says that a
  writer is alone, and no comment or test does.

Ledger:

* A contract hash joins names without a separator; the model takes it as injective.
* The doc of `cancel_game` says the moderator "could cancel game any time"
  (`scorum_operations.hpp:1004`), the code refuses finished games
  (`cancel_game_evaluator.cpp:31`). `ResolvedWhenAnnounced` says nothing of it: it asks that results
  are not put off, and a cancelled game would not be. The doc of escrow disputes says "before or on the
  deadline" (`scorum_operations.hpp:276`), the code compares with `<`.
* Committees: a vote that is refused leaves the excluded member in the executor's
  `removed_members`; votes of a member who is excluded in a cascade count until his
  turn; the limit of members can be exceeded by one; the proposal for the betting
  resolve delay uses the quorum of the betting moderator (`proposal_operations.cpp:95`);
  proposals with equal `created` may change their order after an undo.
* Witness votes: a pointer to an account may dangle (`account.cpp:604`).
* Vesting: a route to the account with id 0 is never found; `get_all` dereferences the
  end iterator (`withdraw_scorumpower_route.cpp:28`); power taken back from a delegation of
  the registration pool has no week in limbo (`scorum_operations.hpp:741`); a withdrawal
  with nothing left to withdraw is removed without a "finished" operation, so its
  history shows it active for ever.
* Comments: the author's part in the statistics of a payout contains what came from
  children, though the comment says "without from_children_payout_value"
  (`comment_objects.hpp:138`); `StatisticsBalance` follows the code. Statistics objects of deleted comments stay; a vote that was changed leaves
  its discounted remainder in `total_vote_weight`; after a payout `abs_rshares` is zero, so
  options may change again.
* Accounts: `prove_authority` can never succeed; accounts with a null memo key get no
  authority object; an account named `temp` is always approved in `sign_state` (`sign_state.cpp:85`), so that
  an authority that names it, or an operation that requires it, needs no signature, and
  genesis does not reserve the name (`AuthoritiesSound` has it so); a change
  of the recovery partner to the present one creates a request with no effect.
* Registration: a second registration in a later block of a window is checked against
  one block's limit only, and the first bonus of a later window is not checked.

Production, transactions and history:

* The comment of `_update_witness_majority_version` speaks of a majority, the code counts
  exact versions. A node that does not know the decided hardfork has its own blocks
  refused (`database.cpp:2138`); the retry in `maybe_produce_block` meets the same
  exception, so the branch for `unknown_hardfork_exception` (`witness_plugin.cpp:529`) is
  never reached. A witness that goes back to an older version in mid-round can take a
  hardfork's quorum away. `required-participation` is declared as a switch.
* A transaction submitted twice in one session replaces the first callback; a callback
  is kept although the push threw; a block may hold a transaction whose expiration its
  time has reached. `get_required_signatures` never tries the owner authority where
  the active one is required. The estimate of a block's size is low
  by what it leaves out, against the comment "postpone transaction if it would make block too
  big" (`database.cpp:884`).
* `get_history` returns `limit` entries, though its doc says "[from-limit, from]"
  (`account_history_api.hpp:45`); it returns one more where the page reaches the first
  entry, and that entry cannot be asked for alone, since `from` must not be less than
  the limit and the limit not zero.

Network:

* Honest peers are disconnected when synopses overlap (comment at `node.cpp:2655`); the node
  stalls after a peer is dropped, and when a peer is moved back to synchronisation with
  a normal request outstanding (`node.cpp:3821`); the state "we should never get into"
  (`node.cpp:1576`) is reached; `on_item_not_available` leaves the item in
  `_active_sync_requests`; `_total_number_of_unfetched_items` may go below zero
  (`node.cpp:3348`). The terminating loop breaks before it has added the peer to its list
  (`node.cpp:1529`, comment at `1487`).
* A connection may be active before its own hello is sent (`node.cpp:2030`), and is then
  counted by the peer only when the hello comes: the checks for a second connection and
  for the maximum are made late, and one that fails them is closed again.
* An item that the chain has forgotten ends the sending task of a connection: `get_item`
  asserts (`application.cpp:756`), `node.cpp:2972` expects another exception and
  `peer_connection.cpp:324` is outside the `try`. The queue stands until the peer gives the
  connection up.
* Two nodes that dial each other may both drop the connection and retry (comment at
  `node.cpp:2335`). `close_connection` sets `connection_terminated_time` only if it is set already
  (`peer_connection.cpp:423`). A failed accept stays among the handshaking peers until the
  timeout. The reply `unable_to_check` of the firewall check is never sent
  (`node.cpp:3987`), and the record is made with the reporter's endpoint (`node.cpp:4043`).
* The comment of the reading loop says "loop should be continued" where the code throws; an
  exception that is not an `fc::exception` drops a message; `send` on a connection that is shut
  down throws and leaves the message in the queue.

## 6. What is not modelled, and the plan

Not modelled: NFT and game rounds (single local checks), genesis, one-time payments of
early hardforks, the memory-mapped segment, the reading API, wallet and programs, plugins
that record statistics, helpers for tests, word lists and other support code, vendored
code. Together with the structs of operations and objects and their reflection these are
most of the lines of the repository; they keep no state that several steps could bring out
of order. What is left out of a modelled part is in its `note` in `PROJECT.json`.

Next, in this order:

1. Proofs of the ledger parts with `SumTheorems`: `FundsSound`,
   `BetMoneyConserved` and `GameEndsInFull` (these need facts about `SelectSeq` and folds).
2. `ProposalsSound`: the cascade of the executor as a recursive function.
3. The firewall check of the network and the retry times of the peer database, as
   additions to `Connections`.
