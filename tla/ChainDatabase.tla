--------------------------- MODULE ChainDatabase ---------------------------
(***************************************************************************)
(* scorum::chain::database, its fork_database and its block_log: how a     *)
(* node follows the longest chain.                                         *)
(*                                                                         *)
(* A block id is the hash of a header that names the previous block, so an *)
(* id stands for its whole history: Path[b] is the chain that ends with b. *)
(* The contents of the object database are reduced to what block           *)
(* processing reads back (StateRecord).  The undo machinery is used through *)
(* the promise of UndoStack.tla.  push_block runs under the write lock, so *)
(* nothing but the death of the process can come between its steps; it is  *)
(* cut into steps where such a death is visible: shared memory is a mapped *)
(* file and keeps what was written, the unflushed end of the block log and *)
(* everything else is lost.                                                *)
(***************************************************************************)
EXTENDS Integers, FiniteSets, Sequences, SequencesExt

CONSTANTS
  Block,             \* the signed blocks that exist in the network
  Genesis,           \* block_id_type(): no block
  Path,              \* Path[b]: the blocks from number 1 to b
  Witness,           \* the scheduled witnesses
  Producer,          \* Producer[b]: block.witness
  Tx, Txs,           \* transactions; Txs[b]: block.transactions
  Validates(_, _, _),  \* Validates(t, head, known): t applies after block head
                       \* and the transactions known by then
  Invalid,           \* blocks that fail a check before the head moves
  InvalidLate,       \* blocks that fail a task run after the head moved
  START_MINER_VOTING_BLOCK, MAX_WITNESSES, MAX_UNDO_HISTORY,
  FORK_DB_SIZE,      \* the initial fork_database::_max_size
  ReplayKills        \* after how many blocks a replay may be killed

Num(b) == Len(Path[b])
Previous(b) == IF Num(b) = 1 THEN Genesis ELSE Path[b][Num(b) - 1]

ASSUME PathAssumption ==
  /\ Genesis \notin Block
  /\ Path \in [Block \cup {Genesis} -> Seq(Block)]
  /\ Path[Genesis] = <<>>
  /\ \A b \in Block : Num(b) > 0 /\ Path[b] = Append(Path[Previous(b)], b)

ASSUME WitnessAssumption ==
  /\ IsFiniteSet(Witness) /\ Witness # {}
  /\ Producer \in [Block -> Witness]

ASSUME BlockAssumption ==
  /\ Txs \in [Block -> Seq(Tx)]
  /\ Invalid \subseteq Block /\ InvalidLate \subseteq Block

ASSUME BoundAssumption ==
  /\ {START_MINER_VOTING_BLOCK, MAX_WITNESSES, MAX_UNDO_HISTORY, FORK_DB_SIZE}
       \subseteq Nat
  /\ ReplayKills \subseteq Nat

VARIABLES
  cb,        \* chainbase: contents, undo stack and revision
  fork,      \* fork_database
  log,       \* block_log: the blocks appended and how many are flushed
  step,      \* where push_block is, "idle" between calls, "down" when dead
  job,       \* its local variables
  pending,   \* _pending_tx; inside push_block, the restorer's copy of it
  session,   \* _pending_tx_session.valid()
  popped,    \* _popped_tx
  threw,     \* did the last push_block or open throw?
  reported   \* history: the highest block reported irreversible; a replay
             \* forgets those that had not reached the block log

vars == <<cb, fork, log, step, job, pending, session, popped, threw, reported>>

-----------------------------------------------------------------------------
(* chainbase                                                               *)

\* dynamic_global_property_object, witness_object::last_confirmed_block_num,
\* transaction_index; whole is false between a block's first change of the
\* state and its last one.
StateRecord ==
  [head : Block \cup {Genesis}, lib : Nat, confirmed : [Witness -> Nat],
   known : SUBSET Tx, whole : BOOLEAN]

GenesisState ==
  [head |-> Genesis, lib |-> 0, confirmed |-> [w \in Witness |-> 0],
   known |-> {}, whole |-> TRUE]

StartSession(c) ==
  [c EXCEPT !.stack = Append(@, c.top), !.revision = @ + 1]

\* generic_index::undo returns at once when the stack is empty.
UndoSession(c) ==
  IF c.stack = <<>> THEN c
  ELSE [top |-> Last(c.stack), stack |-> Front(c.stack),
        revision |-> c.revision - 1]

\* Mutants of CommitTo: nothing is committed; one state too many; all of them.
CommitToNothing(c, r) == c

CommitToNext(c, r) ==
  LET oldest == c.revision - Len(c.stack)
      k == IF r < oldest THEN 0
           ELSE IF r - oldest >= Len(c.stack) THEN Len(c.stack) ELSE r - oldest + 1
  IN  [c EXCEPT !.stack = SubSeq(@, k + 1, Len(@))]

CommitToHead(c, r) == [c EXCEPT !.stack = <<>>]

\* commit drops the undo states with a revision up to r.
CommitTo(c, r) ==
  LET oldest == c.revision - Len(c.stack)
      k == IF r <= oldest THEN 0
           ELSE IF r - oldest > Len(c.stack) THEN Len(c.stack) ELSE r - oldest
  IN  [c EXCEPT !.stack = SubSeq(@, k + 1, Len(@))]

\* The oldest state that undo can reach, and undo_all.
Base(c) == IF c.stack = <<>> THEN c.top ELSE c.stack[1]

UndoAll(c) ==
  [top |-> Base(c), stack |-> <<>>, revision |-> c.revision - Len(c.stack)]

-----------------------------------------------------------------------------
(* fork_database.  An item is a block; linked says that its weak pointer   *)
(* to the previous item is alive.  head may be an item that has left the   *)
(* index, so it carries its own link.                                      *)

EmptyFork(size) ==
  [index |-> {}, linked |-> {}, head |-> Genesis, headLinked |-> FALSE,
   maxSize |-> size]

Monus(m, n) == IF m > n THEN m - n ELSE 0

\* Items die with their last shared pointer: index, head, or a branch held.
DropDeadLinks(f, held) ==
  LET alive(b) == Previous(b) \in f.index \cup held
  IN  [f EXCEPT !.linked = {b \in @ : alive(b)},
                !.headLinked = @ /\ alive(f.head)]

StartBlock(f, b) ==
  [f EXCEPT !.index = @ \cup {b}, !.head = b, !.headLinked = FALSE]

\* fork_database::_push_block: the checks, then the insertion.
Links(f, b) ==
  f.head # Genesis =>
    /\ Num(b) > Monus(Num(f.head), f.maxSize)
    /\ Previous(b) \in f.index \cup {Genesis}

ForkPush(f, b) ==
  LET hasPrev == f.head # Genesis /\ Previous(b) # Genesis
      higher == f.head = Genesis \/ Num(b) > Num(f.head)
  IN  [f EXCEPT !.index = @ \cup {b},
                !.linked = IF hasPrev /\ b \notin f.index THEN @ \cup {b} ELSE @,
                !.head = IF higher THEN b ELSE @,
                !.headLinked = IF higher THEN hasPrev ELSE @]

SetHead(f, b) == [f EXCEPT !.head = b, !.headLinked = b \in f.linked]

ForkRemove(f, S) == [f EXCEPT !.index = @ \ S, !.linked = @ \ S]

SetMaxSize(f, size) ==
  [f EXCEPT !.maxSize = size,
            !.index = IF f.head = Genesis THEN @
                      ELSE {b \in @ : Num(b) >= Monus(Num(f.head), size)}]

\* All items of b's chain with a number in lo..Num(b) have their link.
LinkedDownTo(f, b, lo) == \A n \in lo .. Num(b) : Path[b][n] \in f.linked

\* fetch_branch_from: the last number below both heads at which the chains
\* agree, and whether the walk down to it meets a dead link.
ForkPoint(a, b) ==
  LET low == IF Num(a) < Num(b) THEN Num(a) ELSE Num(b)
  IN  CHOOSE n \in 0 .. low - 1 :
        /\ SubSeq(Path[a], 1, n) = SubSeq(Path[b], 1, n)
        /\ n + 1 < low => Path[a][n + 1] # Path[b][n + 1]

CanFetchBranches(f, a, b) ==
  /\ {a, b} \subseteq f.index
  /\ LinkedDownTo(f, a, ForkPoint(a, b) + 2)
  /\ LinkedDownTo(f, b, ForkPoint(a, b) + 2)

Branch(b, n) == SubSeq(Path[b], n + 1, Num(b))

\* fetch_block_on_main_branch_by_number; Genesis is the null pointer.  A
\* block that is alone at its number is returned without a look at its branch.
BlocksAt(f, n) == {b \in f.index : Num(b) = n}

WalkMainBranch(f, n) ==
  LET h == f.head
  IN  IF n > Num(h) THEN Genesis
      ELSE IF n = Num(h) THEN h
      ELSE IF f.headLinked /\ \A m \in n + 1 .. Num(h) - 1 : Path[h][m] \in f.linked
      THEN Path[h][n] ELSE Genesis

\* Mutant: the first block found at the number.
FetchAnyBlock(f, n) ==
  IF BlocksAt(f, n) = {} THEN Genesis ELSE CHOOSE b \in BlocksAt(f, n) : TRUE

FetchMainBranchBlock(f, n) ==
  LET S == BlocksAt(f, n)
  IN  IF S = {} THEN Genesis
      ELSE IF Cardinality(S) = 1 THEN CHOOSE b \in S : TRUE
      ELSE WalkMainBranch(f, n)

-----------------------------------------------------------------------------
(* The effects of a block on the contents                                  *)

\* wit_objs[offset] after nth_element: with 75% as the threshold, a quarter
\* of the witnesses may lag behind.
NthConfirmed(confirmed) ==
  LET offset == ((100 - 75) * Cardinality(Witness)) \div 100
      lower(v) == {w \in Witness : confirmed[w] < v}
      upTo(v) == {w \in Witness : confirmed[w] <= v}
  IN  CHOOSE v \in {confirmed[w] : w \in Witness} :
        Cardinality(lower(v)) <= offset /\ offset < Cardinality(upTo(v))

NewLib(s, confirmed, n) ==
  IF n < START_MINER_VOTING_BLOCK
  THEN IF n > MAX_WITNESSES THEN n - MAX_WITNESSES ELSE s.lib
  ELSE IF NthConfirmed(confirmed) > s.lib THEN NthConfirmed(confirmed) ELSE s.lib

\* _apply_block up to and including update_last_irreversible_block's LIB.
HeadMoved(s, b) ==
  LET confirmed == [s.confirmed EXCEPT ![Producer[b]] = Num(b)]
  IN  [head |-> b, lib |-> NewLib(s, confirmed, Num(b)),
       confirmed |-> confirmed, known |-> s.known \cup Range(Txs[b]),
       whole |-> FALSE]

\* The checks before the head moves: validate_block_header, the duplicate
\* check of each transaction, the length of the undo history, and the rest.
CanApply(s, b) ==
  /\ Previous(b) = s.head
  /\ b \notin Invalid
  /\ Range(Txs[b]) \cap s.known = {}
  /\ Num(b) - s.lib < MAX_UNDO_HISTORY

-----------------------------------------------------------------------------
(* push_block                                                              *)

NoJob == [mode |-> "none", block |-> Genesis, todo |-> <<>>,
          first |-> <<>>, second |-> <<>>, target |-> Genesis]

Held == Range(job.first) \cup Range(job.second)

\* clear_pending, called by the constructor of pending_transactions_restorer.
ClearPending == IF session THEN UndoSession(cb) ELSE cb

\* The destructor of pending_transactions_restorer pushes what was popped and
\* then what was pending, each unless it is known by now.  One that throws, since
\* it does not validate any more, is dropped.
Repushed(head, known, txs) ==
  LET kept[n \in 0 .. Len(txs)] ==
        IF n = 0 THEN <<>>
        ELSE LET before == known \cup Range(kept[n - 1])
             IN  IF txs[n] \notin before /\ Validates(txs[n], head, before)
                 THEN Append(kept[n - 1], txs[n]) ELSE kept[n - 1]
  IN  kept[Len(txs)]

\* The first transaction that is pushed starts the session, also if it throws.
RestorePending(c, txs) ==
  LET kept == Repushed(c.top.head, c.top.known, txs)
      tried == ~(Range(txs) \subseteq c.top.known)
  IN  /\ pending' = kept
      /\ session' = tried
      /\ cb' = IF tried THEN [StartSession(c) EXCEPT !.top.known = @ \cup Range(kept)]
               ELSE c

\* push_block returns or throws with contents c and fork database f.
Leave(c, f, txs, byException) ==
  /\ step' = "idle" /\ job' = NoJob /\ threw' = byException
  /\ fork' = DropDeadLinks(f, {})
  /\ RestorePending(c, txs \o pending)
  /\ popped' = <<>>

\* fork_database::push_block throws: too old, or not linked to a known block.
PushRefused(b) ==
  /\ step = "idle" /\ ~Links(fork, b)
  /\ Leave(ClearPending, fork, popped, TRUE)
  /\ UNCHANGED <<log, reported>>

\* What the fork database calls its head does not extend ours and is not
\* higher: the block is only stored.
PushStored(b) ==
  /\ step = "idle" /\ Links(fork, b)
  /\ LET f == ForkPush(fork, b)
         c == ClearPending
     IN  /\ Previous(f.head) # c.top.head
         /\ Num(f.head) <= Num(c.top.head)
         /\ Leave(c, f, popped, FALSE)
  /\ UNCHANGED <<log, reported>>

\* The fork database's head extends ours: the new block is applied, even if
\* it is not that head.
PushOnHead(b) ==
  /\ step = "idle" /\ Links(fork, b)
  /\ LET f == ForkPush(fork, b)
     IN  /\ Previous(f.head) = ClearPending.top.head
         /\ fork' = f
  /\ cb' = ClearPending /\ session' = FALSE
  /\ step' = "begin"
  /\ job' = [NoJob EXCEPT !.mode = "direct", !.block = b, !.todo = <<b>>]
  /\ UNCHANGED <<log, pending, popped, threw, reported>>

\* It is on a longer branch: switch, if both branches can be followed.
PushOnFork(b) ==
  /\ step = "idle" /\ Links(fork, b)
  /\ LET f == ForkPush(fork, b)
         c == ClearPending
         n == ForkPoint(f.head, c.top.head)
     IN  /\ Previous(f.head) # c.top.head
         /\ Num(f.head) > Num(c.top.head)
         /\ IF c.top.head # Genesis /\ CanFetchBranches(f, f.head, c.top.head)
            THEN /\ job' = [mode |-> "switch", block |-> b,
                            todo |-> Branch(f.head, n),
                            first |-> Branch(f.head, n),
                            second |-> Branch(c.top.head, n),
                            target |-> Previous(Branch(c.top.head, n)[1])]
                 /\ fork' = f /\ cb' = c /\ session' = FALSE /\ step' = "pop"
                 /\ UNCHANGED <<pending, popped, threw>>
            ELSE Leave(c, f, popped, TRUE)
  /\ UNCHANGED <<log, reported>>

PushBlock ==
  \E b \in Block : PushRefused(b) \/ PushStored(b) \/ PushOnHead(b) \/ PushOnFork(b)

\* database::pop_block.  It moves the head of the fork database too, although
\* during a switch that head is on the branch that will be applied.
CanPop ==
  LET h == cb.top.head
  IN  /\ h # Genesis
      /\ h \in fork.index \/ (Num(h) <= Len(log.blocks) /\ log.blocks[Num(h)] = h)
      /\ fork.headLinked

\* Mutants: the transactions of the block are forgotten; the fork database's
\* head is left where it is, and only what undo() took back is recorded.
PopBlockForgets ==
  /\ step = "pop" /\ CanPop
  /\ cb' = UndoSession(cb)
  /\ fork' = SetHead(fork, Previous(fork.head))
  /\ step' = IF cb'.top.head = job.target THEN "begin" ELSE "pop"
  /\ UNCHANGED <<log, job, pending, session, popped, threw, reported>>

PopBlockKeepsForkHead ==
  /\ step = "pop" /\ CanPop
  /\ cb' = UndoSession(cb)
  /\ popped' = IF cb' = cb THEN popped ELSE Txs[cb.top.head] \o popped
  /\ step' = IF cb'.top.head = job.target THEN "begin" ELSE "pop"
  /\ UNCHANGED <<fork, log, job, pending, session, threw, reported>>

PopBlock ==
  /\ step = "pop" /\ CanPop
  /\ cb' = UndoSession(cb)
  /\ fork' = SetHead(fork, Previous(fork.head))
  /\ popped' = Txs[cb.top.head] \o popped
  /\ step' = IF cb'.top.head = job.target THEN "begin" ELSE "pop"
  /\ UNCHANGED <<log, job, pending, session, threw, reported>>

PopFails ==
  /\ step = "pop" /\ ~CanPop
  /\ Leave(cb, fork, popped, TRUE)
  /\ UNCHANGED <<log, reported>>

\* An exception leaves apply_block; c has the block's session undone.
ApplyFails(c) ==
  CASE job.mode = "direct" ->
         Leave(c, ForkRemove(fork, {job.block}), popped, TRUE)
    [] job.mode = "switch" ->
         /\ fork' = SetHead(ForkRemove(fork, Range(job.todo)), Last(job.second))
         /\ cb' = c
         /\ job' = [job EXCEPT !.mode = "restore", !.todo = job.second]
         /\ step' = IF c.top.head = job.target THEN "begin" ELSE "pop"
         /\ UNCHANGED <<pending, session, popped, threw>>
    [] job.mode = "restore" -> Leave(c, fork, popped, TRUE)

\* set_max_size, the end of update_last_irreversible_block
Trimmed(f, s) == DropDeadLinks(SetMaxSize(f, Num(s.head) - s.lib + 1), Held)

BeginBlock ==
  /\ step = "begin"
  /\ LET b == Head(job.todo)
         s == HeadMoved(cb.top, b)
     IN  IF CanApply(cb.top, b)
         THEN /\ cb' = CommitTo([StartSession(cb) EXCEPT !.top = s], s.lib)
              /\ reported' = IF s.lib > Num(reported) THEN Path[b][s.lib] ELSE reported
              /\ IF Len(log.blocks) < s.lib
                 THEN step' = "log" /\ UNCHANGED fork
                 ELSE step' = "tasks" /\ fork' = Trimmed(fork, s)
              /\ UNCHANGED <<job, pending, session, popped, threw>>
         ELSE ApplyFails(cb) /\ UNCHANGED reported
  /\ UNCHANGED log

\* One round of the loop that copies irreversible blocks to the block log.
AppendBlock ==
  /\ step = "log"
  /\ LET n == Len(log.blocks) + 1
         b == FetchMainBranchBlock(fork, n)
     IN  IF b = Genesis
         THEN ApplyFails(UndoSession(cb)) /\ UNCHANGED log
         ELSE /\ log' = [blocks |-> Append(log.blocks, b),
                         flushed |-> IF n = cb.top.lib THEN n ELSE log.flushed]
              /\ IF n = cb.top.lib
                 THEN step' = "tasks" /\ fork' = Trimmed(fork, cb.top)
                 ELSE UNCHANGED <<step, fork>>
              /\ UNCHANGED <<cb, job, pending, session, popped, threw>>
  /\ UNCHANGED reported

\* create_block_summary .. process_hardforks, and the session is pushed.
EndBlock ==
  /\ step = "tasks"
  /\ LET c == [cb EXCEPT !.top.whole = TRUE]
     IN  IF Head(job.todo) \in InvalidLate
         THEN ApplyFails(UndoSession(cb))
         ELSE IF Len(job.todo) = 1
         THEN Leave(c, fork, popped, job.mode = "restore")
         ELSE /\ cb' = c /\ step' = "begin"
              /\ job' = [job EXCEPT !.todo = Tail(@)]
              /\ UNCHANGED <<fork, pending, session, popped, threw>>
  /\ UNCHANGED <<log, reported>>

\* push_transaction: a known transaction fails the duplicate check, and another
\* one may fail in its operations.
PushTransaction ==
  /\ step = "idle"
  /\ \E t \in Tx :
       LET c == IF session THEN cb ELSE StartSession(cb)
       IN  IF t \in cb.top.known \/ ~Validates(t, cb.top.head, cb.top.known)
           THEN cb' = c /\ threw' = TRUE /\ UNCHANGED pending
           ELSE /\ cb' = [c EXCEPT !.top.known = @ \cup {t}]
                /\ pending' = Append(pending, t)
                /\ threw' = FALSE
  /\ session' = TRUE
  /\ UNCHANGED <<fork, log, step, job, popped, reported>>

-----------------------------------------------------------------------------
(* Stop and start                                                          *)

Stopped(n) ==
  /\ step' = "down" /\ job' = NoJob /\ threw' = FALSE
  /\ fork' = EmptyFork(FORK_DB_SIZE)
  /\ log' = [blocks |-> SubSeq(log.blocks, 1, n), flushed |-> n]
  /\ pending' = <<>> /\ session' = FALSE /\ popped' = <<>>
  /\ UNCHANGED reported

\* The process dies: shared memory stays as it is, and any part of what the
\* block log has not flushed may have reached the file.
Crash ==
  /\ step # "down"
  /\ \E n \in log.flushed .. Len(log.blocks) : Stopped(n)
  /\ UNCHANGED cb

\* database::close
Close ==
  /\ step = "idle"
  /\ Stopped(Len(log.blocks))
  /\ cb' = ClearPending

\* database::open: undo everything, compare with the block log.
OpenChecks(c) ==
  /\ c.revision = Num(c.top.head)
  /\ c.top.head # Genesis =>
       /\ Num(c.top.head) <= Len(log.blocks)
       /\ log.blocks[Num(c.top.head)] = c.top.head

Open ==
  /\ step = "down"
  /\ LET c == UndoAll(cb)
     IN  /\ cb' = c
         /\ IF OpenChecks(c)
            THEN /\ step' = "idle" /\ threw' = FALSE
                 /\ fork' = IF c.top.head = Genesis THEN fork
                            ELSE StartBlock(fork, c.top.head)
            ELSE threw' = TRUE /\ UNCHANGED <<step, fork>>
  /\ UNCHANGED <<log, job, pending, session, popped, reported>>

\* The contents after replaying blocks from nothing.  reindex() skips the
\* duplicate check, and with it the creation of transaction objects.
Replayed(s, b) == [HeadMoved(s, b) EXCEPT !.known = {}, !.whole = TRUE]

Replay(blocks) ==
  LET state[n \in 0 .. Len(blocks)] ==
        IF n = 0 THEN GenesisState ELSE Replayed(state[n - 1], blocks[n])
  IN  state[Len(blocks)]

\* database::reindex, on user request
Reindex ==
  /\ step = "down" /\ log.blocks # <<>>
  /\ Range(log.blocks) \cap (Invalid \cup InvalidLate) = {}
  /\ LET s == Replay(log.blocks)
     IN  /\ cb' = [top |-> s, stack |-> <<>>, revision |-> Num(s.head)]
         /\ fork' = [StartBlock(fork, Last(log.blocks))
                       EXCEPT !.maxSize = Num(s.head) - s.lib + 1]
  /\ reported' = IF Num(reported) > Len(log.blocks) THEN Last(log.blocks) ELSE reported
  /\ step' = "idle" /\ threw' = FALSE
  /\ UNCHANGED <<log, job, pending, session, popped>>

\* It is killed after some blocks; the revision is only set at the end.
ReindexKilled ==
  /\ step = "down"
  /\ \E n \in ReplayKills \cap (0 .. Len(log.blocks)) :
       /\ Range(SubSeq(log.blocks, 1, n)) \cap (Invalid \cup InvalidLate) = {}
       /\ cb' = [top |-> Replay(SubSeq(log.blocks, 1, n)), stack |-> <<>>,
                 revision |-> 0]
  /\ UNCHANGED <<fork, log, step, job, pending, session, popped, threw, reported>>

-----------------------------------------------------------------------------
Init ==
  /\ cb = [top |-> GenesisState, stack |-> <<>>, revision |-> 0]
  /\ fork = EmptyFork(FORK_DB_SIZE)
  /\ log = [blocks |-> <<>>, flushed |-> 0]
  /\ step = "idle" /\ job = NoJob
  /\ pending = <<>> /\ session = FALSE /\ popped = <<>>
  /\ threw = FALSE /\ reported = Genesis

Working == PopBlock \/ PopFails \/ BeginBlock \/ AppendBlock \/ EndBlock

Running == PushBlock \/ PushTransaction \/ Working

\* A node that is stopped, dies and is started again, without a replay.
Operating == Running \/ Crash \/ Close \/ Open

Next == Operating \/ Reindex \/ ReindexKilled

Spec == Init /\ [][Next]_vars

\* push_block is one call of one thread, and a node that is down is started
\* again; nothing makes a peer send a block, or an operator replay the chain.
FairSpec == Spec /\ WF_vars(Working) /\ WF_vars(Open)

-----------------------------------------------------------------------------
(* Properties                                                              *)

IsPrefixOf(s, t) == Len(s) <= Len(t) /\ SubSeq(t, 1, Len(s)) = s

OneChain(s, t) == IsPrefixOf(s, t) \/ IsPrefixOf(t, s)

\* The types of all variables; the fork database holds only blocks, the log
\* knows how much of it is flushed, and push_block always has a block to
\* apply when it is about to apply one.
TypeOK ==
  /\ cb \in [top : StateRecord, stack : Seq(StateRecord), revision : Int]
  /\ fork \in [index : SUBSET Block, linked : SUBSET Block,
               head : Block \cup {Genesis}, headLinked : BOOLEAN, maxSize : Nat]
  /\ log \in [blocks : Seq(Block), flushed : Nat] /\ log.flushed <= Len(log.blocks)
  /\ step \in {"idle", "pop", "begin", "log", "tasks", "down"}
  /\ job \in [mode : {"none", "direct", "switch", "restore"},
              block : Block \cup {Genesis}, todo : Seq(Block),
              first : Seq(Block), second : Seq(Block), target : Block \cup {Genesis}]
  /\ step \in {"begin", "log", "tasks"} => job.todo # <<>>
  /\ pending \in Seq(Tx) /\ session \in BOOLEAN /\ popped \in Seq(Tx)
  /\ threw \in BOOLEAN /\ reported \in Block \cup {Genesis}

\* A block that a node reported as irreversible (last_irreversible_block_num)
\* stays in its chain, whatever it receives afterwards: a longer fork from
\* below it cannot be switched to, because commit() dropped the undo states.
IrreversibleStays == OneChain(Path[reported], Path[cb.top.head])

\* The block log, which is append only, is one chain and agrees with what was
\* reported irreversible and with the chain of the node:
\* update_last_irreversible_block never appends a block of an abandoned fork.
LogFollowsChain ==
  /\ log.blocks # <<>> => log.blocks = Path[Last(log.blocks)]
  /\ OneChain(log.blocks, Path[reported])
  /\ step = "idle" => OneChain(log.blocks, Path[cb.top.head])

\* Between two calls the process may die and open() will find the state it
\* expects: the state under the undo stack is that of a block, complete, with
\* that block's number as revision and that block flushed to the block log.
ReopenWorks ==
  step = "idle" =>
    /\ OpenChecks(UndoAll(cb))
    /\ Num(Base(cb).head) <= log.flushed
    /\ Base(cb).whole

\* Between calls no block is half applied.
OnlyWholeBlocks ==
  step = "idle" => cb.top.whole /\ \A i \in 1 .. Len(cb.stack) : cb.stack[i].whole

\* Every undo state is the state of one block of the current chain, so that
\* each pop_block takes back exactly one block.
OneUndoStatePerBlock ==
  step = "idle" =>
    LET c == IF session THEN UndoSession(cb) ELSE cb
    IN  \A i \in 1 .. Len(c.stack) :
          LET n == Num(c.top.head) - Len(c.stack) + i - 1
          IN  /\ n >= 0
              /\ c.stack[i].head = IF n = 0 THEN Genesis ELSE Path[c.top.head][n]

\* pending_transactions_restorer: a transaction that was accepted, alone or in
\* a block that a fork switch takes back, is in the chain or pending as long
\* as the process lives.  Those of a block that fails to apply are dropped, and
\* at the end of a call one that does not validate after the new head and what
\* is pending in front of it ("transactions which no longer validate will be
\* culled").
Accepted == cb.top.known \cup Range(pending) \cup Range(popped)

DoesNotApply(t) ==
  \E n \in 0 .. Len(pending) :
    ~Validates(t, cb.top.head, ClearPending.top.known \cup Range(SubSeq(pending, 1, n)))

NoTransactionLost ==
  [][step # "down" /\ step' # "down" =>
       \A t \in Accepted \ Accepted' :
          \/ step \in {"log", "tasks"} /\ t \in Range(Txs[Head(job.todo)])
          \/ step' = "idle" /\ DoesNotApply(t)']_vars

\* Every call of push_block comes to an end.  A switch to a fork from below the
\* last irreversible block pops in vain, because undo() has nothing to restore:
\* only the fork database running out of items stops the loop.
PushBlockEnds == step \in {"pop", "begin", "log", "tasks"} ~> step \in {"idle", "down"}

\* database.cpp: FC_ASSERT(block, "Current fork in the fork database does not
\* contain the last_irreversible_block").
ForkHoldsIrreversible ==
  step = "log" => FetchMainBranchBlock(fork, Len(log.blocks) + 1) # Genesis

\* The chain, the undo stack and the block log tell one history, between calls of
\* push_block and while one is under way.
ChainSound == TypeOK /\ LogFollowsChain /\ OneUndoStatePerBlock

\* Whenever no call is under way the state is that of whole blocks, and the process
\* may die: open() accepts what it finds.
Recoverable == OnlyWholeBlocks /\ ReopenWorks
=============================================================================
