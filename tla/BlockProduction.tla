--------------------------- MODULE BlockProduction ----------------------------
(***************************************************************************)
(* Slots, production and hardforks: the loop of the witness plugin that    *)
(* builds a block when the turn of one of its witnesses has come, and the  *)
(* parts of _apply_block that keep slots, missed blocks, participation,    *)
(* irreversibility and the vote on hardforks.                              *)
(*                                                                         *)
(* Every witness runs its own node.  Blocks reach all nodes at once: what  *)
(* happens on forks is the matter of ChainDatabase.  A node that is down   *)
(* or slow does not wake up, and may have its software exchanged for a     *)
(* newer or an older one.  A version is the number of the hardfork it      *)
(* brings; a node of version v knows the hardforks 1..v.                   *)
(***************************************************************************)
EXTENDS Integers, FiniteSets, SequencesExt

CONSTANTS Producers,        \* witnesses
          BlockInterval,    \* SCORUM_BLOCK_INTERVAL
          RoundLength,      \* SCORUM_MAX_WITNESSES
          MissedThreshold,  \* SCORUM_WITNESS_MISSED_BLOCKS_THRESHOLD
          VotingBlock,      \* SCORUM_START_MINER_VOTING_BLOCK
          Irreversible,     \* SCORUM_IRREVERSIBLE_THRESHOLD, in percent
          Required,         \* SCORUM_HARDFORK_REQUIRED_WITNESSES
          SlotWindow,       \* bits of recent_slots_filled, 128 in the code
          HardforkTimes,    \* the _hardfork_times of the newest software
          RequiredParticipation,   \* _required_witness_participation, in slots
          MaxUndoHistory,   \* SCORUM_MAX_UNDO_HISTORY
          MaxResigned,      \* bound: witnesses that have given up their key
          LastSecond,       \* bound: the clock
          MaxInstalls       \* bound: exchanges of software

ASSUME BlockProductionAssumption ==
    /\ IsFiniteSet(Producers) /\ Producers # {}
    /\ {BlockInterval, RoundLength, SlotWindow, Required} \subseteq Nat \ {0}
    /\ {MissedThreshold, VotingBlock, RequiredParticipation, LastSecond, MaxInstalls,
        MaxUndoHistory, MaxResigned} \subseteq Nat
    /\ Irreversible \in 1..100
    /\ HardforkTimes \in Seq(Nat)
    /\ \A i, j \in DOMAIN HardforkTimes : i < j => HardforkTimes[i] <= HardforkTimes[j]

Versions == 0..Len(HardforkTimes)
HardforkTime(v) == IF v = 0 THEN 0 ELSE HardforkTimes[v]
Vote(v) == [version |-> v, time |-> HardforkTime(v)]

VARIABLES clock,        \* the time all nodes read, in seconds after genesis
          head_block, head_time,   \* number and timestamp of the head block
          aslot,        \* current_aslot
          shuffled,     \* current_shuffled_witnesses
          hasKey,       \* witnesses that have a signing key
          resigned,     \* witnesses whose last witness_update has no key
          confirmed,    \* witness -> last_confirmed_block_num
          running,      \* witness -> running_version
          hfVote,       \* witness -> hardfork_version_vote, hardfork_time_vote
          next_hardfork,\* next_hardfork, next_hardfork_time
          last_hardfork,
          lib,          \* last_irreversible_block_num
          recent, participation,     \* recent_slots_filled, participation_count
          software,     \* witness -> version of the software its node runs
          enabled,      \* witnesses whose node has _production_enabled
          installs      \* exchanges of software so far

blockVars == <<head_block, head_time, aslot, shuffled, hasKey, resigned, confirmed, running,
               hfVote, next_hardfork, last_hardfork, lib, recent, participation>>
productionVars == <<blockVars, clock, software, enabled, installs>>

Rounds(S) == {s \in [1..Cardinality(S) -> S] : IsInjective(s)}

\* The genesis block.  The first round has one witness.
BlockProductionInit ==
    /\ clock = 0 /\ head_block = 0 /\ head_time = 0 /\ aslot = 0
    /\ shuffled \in {<<w>> : w \in Producers}
    /\ hasKey = Producers /\ resigned = {}
    /\ confirmed = [w \in Producers |-> 0]
    /\ running = [w \in Producers |-> 0]
    /\ hfVote = [w \in Producers |-> Vote(0)]
    /\ next_hardfork = Vote(0) /\ last_hardfork = 0
    /\ lib = 0
    /\ recent = [i \in 1..SlotWindow |-> 1] /\ participation = SlotWindow
    /\ software = [w \in Producers |-> 0]
    /\ enabled = {} /\ installs = 0

(***************************************************************************)
(* Slots.                                                                  *)
(***************************************************************************)
get_slot_time(slot) == ((head_time \div BlockInterval) + slot) * BlockInterval

get_slot_at_time(when) ==
    IF when < get_slot_time(1) THEN 0
    ELSE (when - get_slot_time(1)) \div BlockInterval + 1

get_scheduled_witness(slot) == shuffled[((aslot + slot) % Len(shuffled)) + 1]

(***************************************************************************)
(* A block.                                                                *)
(***************************************************************************)
\* The vote after a block of witness w: for the next hardfork its software knows, or
\* against one it does not know.
block_vote(w) ==
    IF last_hardfork < software[w] THEN Vote(last_hardfork + 1)
    ELSE IF hfVote[w].version > software[w] THEN Vote(last_hardfork)
    ELSE hfVote[w]

\* Among its transactions a block may have the witness_update of a witness that takes
\* up a key again, or gives up the one it has.
generate_block(w, when, up, down) ==
    [witness |-> w, timestamp |-> when, version |-> software[w], vote |-> block_vote(w),
     up |-> up, down |-> down]

\* process_header_extensions: the version the block reports is recorded first.
ReportedVersion(b) == b.version

validate_block_header(b) ==
    /\ head_time < b.timestamp
    /\ b.witness \in hasKey
    /\ get_slot_at_time(b.timestamp) > 0
    /\ b.witness = get_scheduled_witness(get_slot_at_time(b.timestamp))

AcceptsHeader(b) == validate_block_header(b) /\ ReportedVersion(b) >= last_hardfork

Missed(b) == get_slot_at_time(b.timestamp) - 1

MissedWitnesses(b) ==
    {get_scheduled_witness(i) : i \in 1..Missed(b)} \ {b.witness}

\* A mutant: the witness that has just come back is shut down by the block it signed.
ShutDownSigner(b) ==
    {w \in {get_scheduled_witness(i) : i \in 1..Missed(b)} :
        head_block - confirmed[w] > MissedThreshold}

\* The witnesses that missed a slot and have produced nothing for a long time.
ShutDown(b) == {w \in MissedWitnesses(b) : head_block - confirmed[w] > MissedThreshold}

\* The witnesses with a key after a block: its transactions come first.
KeysAfter(b) == ((hasKey \cup b.up) \ b.down) \ ShutDown(b)

\* The block can be undone as long as it is not irreversible.
EnoughUndoHistory == head_block + 1 - lib < MaxUndoHistory

Ones(bits) == Cardinality({i \in DOMAIN bits : bits[i] = 1})

Shifted(missed) == recent \o <<1>> \o [i \in 1..missed |-> 0]

\* participation_count, slot by slot: a bit shifted out leaves it.
CountedSlots(missed) == participation + 1 - Ones(SubSeq(Shifted(missed), 1, missed + 1))

\* recent_slots_filled: the block's bit first, the skipped slots after it.
SlotsFilled(missed) == SubSeq(Shifted(missed), missed + 2, missed + 1 + SlotWindow)

\* nth_element: the last block that the witness at the offset from the bottom has
\* confirmed, where the offset is a quarter of the round, rounded down.
ConfirmedByRound(conf) ==
    LET offset == ((100 - Irreversible) * Len(shuffled)) \div 100
        UpTo(n) == {i \in DOMAIN shuffled : conf[shuffled[i]] <= n}
    IN  Min({conf[w] : w \in {v \in Range(shuffled) : Cardinality(UpTo(conf[v])) > offset}})

update_last_irreversible_block(number, conf) ==
    IF number < VotingBlock
    THEN IF number > RoundLength THEN number - RoundLength ELSE lib
    ELSE IF ConfirmedByRound(conf) > lib THEN ConfirmedByRound(conf) ELSE lib

\* update_witness_schedule draws up the next round from the witnesses with a key
\* (WitnessSchedule says which) and shuffles it by the time of the block.  A block
\* that leaves no witness a key cannot end a round: it is refused.
NextRounds(number, keys) ==
    IF number % RoundLength # 0 THEN {shuffled}
    ELSE UNION {Rounds(S) : S \in {T \in (SUBSET keys) \ {{}} :
                    Cardinality(T) = IF Cardinality(keys) < RoundLength
                                     THEN Cardinality(keys) ELSE RoundLength}}

MajorityVotes(round, votes) ==
    {v \in Range(votes) : Cardinality({w \in Range(round) : votes[w] = v}) >= Required}

\* next_hardfork after _update_witness_hardfork_version_votes, or as it was within a
\* round: the least vote that has the majority; without one the current version.
_update_witness_hardfork_version_votes(number, round, votes) ==
    IF number % RoundLength # 0 THEN next_hardfork
    ELSE LET majority == MajorityVotes(round, votes)
         IN  IF majority = {} THEN [next_hardfork EXCEPT !.version = last_hardfork]
             ELSE CHOOSE v \in majority : \A u \in majority :
                      v.version < u.version \/ (v.version = u.version /\ v.time <= u.time)

process_hardforks(next, when) ==
    IF next.version > last_hardfork /\ next.time <= when THEN next.version
    ELSE last_hardfork

\* The last hardfork after the block when it draws up this round.
HardforkAfter(b, round) ==
    process_hardforks(
        _update_witness_hardfork_version_votes(head_block + 1, round,
                                               [hfVote EXCEPT ![b.witness] = b.vote]),
        b.timestamp)

\* The whole of _apply_block, for a block the node that builds it accepts: it has the
\* undo history for it and knows the hardfork it brings.
_apply_block(b) ==
    /\ AcceptsHeader(b)
    /\ EnoughUndoHistory
    /\ head_block' = head_block + 1
    /\ head_time' = b.timestamp
    /\ aslot' = aslot + Missed(b) + 1
    /\ running' = [running EXCEPT ![b.witness] = b.version]
    /\ hfVote' = [hfVote EXCEPT ![b.witness] = b.vote]
    /\ hasKey' = KeysAfter(b)
    /\ resigned' = (resigned \cup b.down) \ b.up
    /\ participation' = CountedSlots(Missed(b))
    /\ recent' = SlotsFilled(Missed(b))
    /\ confirmed' = [confirmed EXCEPT ![b.witness] = head_block + 1]
    /\ lib' = update_last_irreversible_block(head_block + 1, confirmed')
    /\ shuffled' \in NextRounds(head_block + 1, hasKey')
    /\ next_hardfork' = _update_witness_hardfork_version_votes(head_block + 1, shuffled', hfVote')
    /\ last_hardfork' = process_hardforks(next_hardfork', b.timestamp)
    /\ last_hardfork' <= b.version

(***************************************************************************)
(* The witness plugin.                                                     *)
(***************************************************************************)
\* A node whose software does not know the last hardfork has stopped before it: it
\* refuses the block that applies it (unknown_hardfork_exception).
Follows(w) == software[w] >= last_hardfork

Synced(w) == w \in enabled \/ get_slot_time(1) >= clock

\* What maybe_produce_block asks for before it builds a block.
MayProduce(w) ==
    /\ Synced(w)
    /\ get_slot_at_time(clock) > 0
    /\ get_scheduled_witness(get_slot_at_time(clock)) = w
    /\ w \in hasKey
    /\ participation >= RequiredParticipation
    /\ get_slot_time(get_slot_at_time(clock)) = clock

maybe_produce_block(w) ==
    /\ Follows(w)
    /\ MayProduce(w)
    /\ enabled' = enabled \cup {w}
    /\ \E up \in SUBSET (Producers \ hasKey), down \in SUBSET hasKey :
          _apply_block(generate_block(w, clock, up, down))
    /\ Cardinality(resigned') <= MaxResigned
    /\ UNCHANGED <<clock, software, installs>>

\* A block with the pending transactions has failed, and so has the empty one built
\* after it: there is not enough undo history, or the block brings a hardfork that this
\* software does not know.  The loop goes on.
exception_producing_block(w) ==
    /\ Follows(w)
    /\ MayProduce(w)
    /\ LET b == generate_block(w, clock, {}, {})
       IN  \/ ~EnoughUndoHistory
           \/ \E round \in NextRounds(head_block + 1, KeysAfter(b)) :
                  HardforkAfter(b, round) > b.version
    /\ enabled' = enabled \cup {w}
    /\ UNCHANGED <<blockVars, clock, software, installs>>

\* The loop woke up and found the chain up to date, but nothing to produce.
block_production_loop(w) ==
    /\ Follows(w)
    /\ Synced(w) /\ ~MayProduce(w) /\ w \notin enabled
    /\ enabled' = enabled \cup {w}
    /\ UNCHANGED <<blockVars, clock, software, installs>>

\* The node of w is stopped and started with another version, without
\* --enable-stale-production.  init_hardforks refuses one too old for the chain.
Install(w, v) ==
    /\ installs < MaxInstalls
    /\ v # software[w] /\ v >= last_hardfork
    /\ software' = [software EXCEPT ![w] = v]
    /\ enabled' = enabled \ {w}
    /\ installs' = installs + 1
    /\ UNCHANGED <<blockVars, clock>>

Tick ==
    /\ clock < LastSecond
    /\ clock' = clock + 1
    /\ UNCHANGED <<blockVars, software, enabled, installs>>

BlockProductionNext ==
    \/ Tick
    \/ \E w \in Producers :
           maybe_produce_block(w) \/ exception_producing_block(w) \/ block_production_loop(w)
    \/ \E w \in Producers, v \in Versions : Install(w, v)

BlockProductionSpec == BlockProductionInit /\ [][BlockProductionNext]_productionVars

(***************************************************************************)
(* Properties.                                                             *)
(***************************************************************************)
\* Types, and slots that run with time: whatever was missed, current_aslot is the slot
\* of the head block's time, so that all nodes agree on whose turn it is.
BlockProductionTypeOK ==
    /\ head_block \in 0..aslot /\ head_time \in 0..clock
    /\ aslot * BlockInterval = head_time
    /\ Range(shuffled) \subseteq Producers /\ shuffled # <<>>
    /\ hasKey \subseteq Producers /\ resigned \subseteq Producers
    /\ confirmed \in [Producers -> 0..head_block]
    /\ running \in [Producers -> Versions]
    /\ hfVote \in [Producers -> {Vote(v) : v \in Versions}]
    /\ next_hardfork.version \in Versions /\ last_hardfork \in Versions
    /\ lib \in 0..head_block
    /\ recent \in [1..SlotWindow -> {0, 1}]
    /\ software \in [Producers -> Versions]

\* participation_count, kept slot by slot, is the number of filled slots among the
\* last SlotWindow, however many slots a block skips: a node that stops below a
\* minimum of participation stops for a reason.
ParticipationIsCount ==
    participation = Ones(recent)

\* A block once irreversible stays so: a newcomer in the round, who has confirmed
\* nothing, and the change of rule at VotingBlock do not take it back.
LibNeverGoesBack == [][lib' >= lib]_productionVars

\* There is always a witness in the round that may sign, unless all of them have given
\* up their keys by their own witness_update: missed blocks never shut down the last
\* one, however often the round changes.
SomeoneMaySign == Range(shuffled) \cap (hasKey \cup resigned) # {}

\* A node that follows the chain and takes its turn never builds a block whose header
\* the chain refuses.  (What may still refuse the block is in
\* exception_producing_block.)
OwnBlocksAccepted ==
    \A w \in Producers :
        Follows(w) /\ MayProduce(w) => AcceptsHeader(generate_block(w, clock, {}, {}))

\* Nobody's vote is for a hardfork that the version he last reported does not bring,
\* not even after going back to older software.
VotesAreBacked == \A w \in Producers : hfVote[w].version <= running[w]

\* A hardfork that is decided on when a round is drawn up finds the required number
\* of witnesses of that round able to go on after it.
QuorumBacksHardfork ==
    [][head_block' # head_block /\ head_block' % RoundLength = 0 /\ next_hardfork'.version > last_hardfork
          => Cardinality({w \in Range(shuffled') : running'[w] >= next_hardfork'.version})
               >= Required]_productionVars

\* No hardfork comes before the time its software gives it.
NoEarlyHardfork == \A v \in 1..last_hardfork : head_time >= HardforkTimes[v]

\* Slots can go on being filled: missed blocks leave someone who can sign, a node whose
\* turn it is signs in its slot as the chain asks, and blocks stay irreversible.  A hardfork comes in its time and is decided by
\* witnesses that have reported its version (process_hardforks and
\* _update_witness_hardfork_version_votes).
ProductionSound ==
    /\ [](BlockProductionTypeOK /\ ParticipationIsCount /\ SomeoneMaySign /\ OwnBlocksAccepted)
    /\ [](VotesAreBacked /\ NoEarlyHardfork)
    /\ LibNeverGoesBack /\ QuorumBacksHardfork
=============================================================================
