--------------------------- MODULE WitnessSchedule ----------------------------
(***************************************************************************)
(* The round of witnesses that update_witness_schedule draws up after      *)
(* every MaxWitnesses-th block: the witnesses with most votes, then the    *)
(* ones whose turn has come in a virtual time that runs the faster for a   *)
(* witness the more votes it has.                                          *)
(*                                                                         *)
(* Virtual time is unsigned and wraps around: fc::uint128 in the code,     *)
(* below VirtualSize here.  When a new time would wrap, all times start     *)
(* again from zero.  Witnesses are numbers, in the order of their ids and  *)
(* names.  A change of a witness's votes (WitnessVotes) arrives as one     *)
(* call of adjust_witness_vote.                                            *)
(***************************************************************************)
EXTENDS Integers, FiniteSets

CONSTANTS Witnesses,      \* witness ids
          GenesisWitnesses, \* those created by genesis
          MaxVoted,       \* SCORUM_MAX_VOTED_WITNESSES
          MaxWitnesses,   \* SCORUM_MAX_WITNESSES
          VirtualSize,    \* number of virtual times, 2^128 in the code
          TotalPower,     \* bound: votes of a witness, total_scorumpower
          MaxChanges      \* bound: changes of votes and keys

Lap == VirtualSize - 1    \* VIRTUAL_SCHEDULE_LAP_LENGTH, the largest time

ASSUME WitnessScheduleAssumption ==
    /\ Witnesses \subseteq Nat \ {0} /\ IsFiniteSet(Witnesses)
    /\ GenesisWitnesses \subseteq Witnesses
    /\ MaxVoted \in Nat /\ MaxWitnesses \in Nat \ {0} /\ MaxVoted <= MaxWitnesses
    /\ VirtualSize \in Nat /\ TotalPower \in Nat /\ MaxChanges \in Nat
    /\ Lap > TotalPower   \* 2^128 against a 64 bit sum

VARIABLES created,        \* the witnesses there are
          rank,           \* witness -> votes
          signing_key,    \* witness -> whether it has one
          last_update,    \* witness -> virtual_last_update
          position,       \* witness -> virtual_position
          scheduled_time, \* witness -> virtual_scheduled_time
          virtual_time,   \* current_virtual_time
          round,          \* the witnesses of the current round
          changes         \* changes of votes and keys so far

scheduleVars == <<created, rank, signing_key, last_update, position, scheduled_time,
                  virtual_time, round, changes>>

\* The genesis witnesses have their key.  No votes, and the defaults of witness_object,
\* which a witness created later has too.
WitnessScheduleInit ==
    /\ created = GenesisWitnesses
    /\ rank = [w \in Witnesses |-> 0]
    /\ signing_key = [w \in Witnesses |-> w \in GenesisWitnesses]
    /\ last_update = [w \in Witnesses |-> 0]
    /\ position = [w \in Witnesses |-> 0]
    /\ scheduled_time = [w \in Witnesses |-> Lap]
    /\ virtual_time = 0
    /\ round = {w \in GenesisWitnesses : \A v \in GenesisWitnesses : w <= v}
    /\ changes = 0

\* The first update of a witness creates it.
witness_update(w, has) ==
    /\ w \in created => signing_key[w] # has
    /\ changes < MaxChanges
    /\ changes' = changes + 1
    /\ created' = created \cup {w}
    /\ signing_key' = [signing_key EXCEPT ![w] = has]
    /\ UNCHANGED <<rank, last_update, position, scheduled_time, virtual_time, round>>

\* A mutant: a witness whose time wrapped keeps the wrapped time.
NewScheduledTimeWraps(w, pos, votes) ==
    (virtual_time + ((Lap - pos) % VirtualSize) \div (votes + 1)) % VirtualSize

\* The time left of the witness's lap at its new speed, from now; the largest
\* time when that wraps.
NewScheduledTime(w, pos, votes) ==
    LET time == (virtual_time + ((Lap - pos) % VirtualSize) \div (votes + 1)) % VirtualSize
    IN  IF time < virtual_time THEN Lap ELSE time

Travelled(w) == rank[w] * ((virtual_time - last_update[w]) % VirtualSize)

adjust_witness_vote(w, votes) ==
    LET pos == (position[w] + Travelled(w)) % VirtualSize
    IN  /\ w \in created /\ votes # rank[w]
        /\ changes < MaxChanges
        /\ changes' = changes + 1
        /\ position' = [position EXCEPT ![w] = pos]
        /\ last_update' = [last_update EXCEPT ![w] = virtual_time]
        /\ rank' = [rank EXCEPT ![w] = votes]
        /\ scheduled_time' = [scheduled_time EXCEPT ![w] = NewScheduledTime(w, pos, votes)]
        /\ UNCHANGED <<created, signing_key, virtual_time, round>>

(***************************************************************************)
(* The schedule.                                                           *)
(***************************************************************************)
HasKey(w) == signing_key[w]

\* The order of by_vote_name.
MoreVotes(v, w) == rank[v] > rank[w] \/ (rank[v] = rank[w] /\ v < w)

\* A mutant: the second loop goes through the witnesses by their votes too.
BeforeByVotes(v, w) == MoreVotes(v, w)

\* The order of by_schedule_time.
Before(v, w) ==
    \/ scheduled_time[v] < scheduled_time[w]
    \/ scheduled_time[v] = scheduled_time[w] /\ v < w

\* The witnesses with most votes among those with a signing key.
TopVoted ==
    {w \in Witnesses :
        HasKey(w) /\ Cardinality({v \in Witnesses : HasKey(v) /\ MoreVotes(v, w)}) < MaxVoted}

\* The round when the second loop comes to w, unless it is full before.
SeatedBefore(top, w) == top \cup {v \in Witnesses : HasKey(v) /\ Before(v, w)}

\* The witnesses the second loop goes through: as many as it takes to fill the
\* round, and all when there are not enough with a key.
Processed(top) == {w \in created : Cardinality(SeatedBefore(top, w)) < MaxWitnesses}

\* The time of the last witness gone through, in a set.
NewVirtualTime(processed) ==
    IF processed = {} THEN {virtual_time}
    ELSE {time \in {scheduled_time[w] : w \in processed} :
             \A w \in processed : scheduled_time[w] <= time}

LapTime(w) == Lap \div (rank[w] + 1)

Wraps(time, processed) ==
    \E w \in processed : (time + LapTime(w)) % VirtualSize < time

_reset_witness_virtual_schedule_time ==
    /\ virtual_time' = 0
    /\ last_update' = [w \in Witnesses |-> 0]
    /\ position' = [w \in Witnesses |-> 0]
    /\ scheduled_time' = [w \in Witnesses |-> IF w \in created THEN LapTime(w)
                                               ELSE scheduled_time[w]]

Advance(time, processed) ==
    /\ virtual_time' = time
    /\ last_update' = [w \in Witnesses |-> IF w \in processed THEN time ELSE last_update[w]]
    /\ position' = [w \in Witnesses |-> IF w \in processed THEN 0 ELSE position[w]]
    /\ scheduled_time' = [w \in Witnesses |->
                             IF w \in processed THEN time + LapTime(w)
                             ELSE scheduled_time[w]]

\* Everyone advances to at least the time of the last witness gone through.  With
\* no signing key left the code looks up a witness with an empty name, which
\* throws, and the block is refused.
update_witness_schedule ==
    /\ \E w \in Witnesses : HasKey(w)
    /\ \E processed \in {Processed(TopVoted)} : \E time \in NewVirtualTime(processed) :
          /\ round' = TopVoted \cup {w \in processed : HasKey(w)}
          /\ IF Wraps(time, processed) THEN _reset_witness_virtual_schedule_time
             ELSE Advance(time, processed)
    /\ UNCHANGED <<created, rank, signing_key, changes>>

WitnessScheduleNext ==
    \/ \E w \in Witnesses, has \in BOOLEAN : witness_update(w, has)
    \/ \E w \in Witnesses, votes \in 0..TotalPower : adjust_witness_vote(w, votes)
    \/ update_witness_schedule

WitnessScheduleSpec == WitnessScheduleInit /\ [][WitnessScheduleNext]_scheduleVars

(***************************************************************************)
(* Properties.                                                             *)
(***************************************************************************)
\* Types.
WitnessScheduleTypeOK ==
    /\ rank \in [Witnesses -> 0..TotalPower]
    /\ signing_key \in [Witnesses -> BOOLEAN]
    /\ \A f \in {last_update, position, scheduled_time} : f \in [Witnesses -> 0..Lap]
    /\ virtual_time \in 0..Lap
    /\ round \subseteq created /\ created \subseteq Witnesses

\* The unsigned subtractions of adjust_witness_vote never wrap: no witness was
\* updated in the virtual future, and none has gone farther than one lap.
NoWitnessPastItsLap ==
    \A w \in Witnesses :
        /\ last_update[w] <= virtual_time
        /\ position[w] + rank[w] * (virtual_time - last_update[w]) <= Lap

\* Nobody is left behind in virtual time: whose time has passed was in the round.
NobodyOverdue == \A w \in Witnesses : virtual_time <= scheduled_time[w]

\* A witness that has its key and at least one vote is scheduled again and again
\* once votes and keys stop changing, however few votes it has: the runner seats
\* go round.
EveryWitnessGetsItsTurn ==
    \A w \in Witnesses : []<>(w \in round \/ ~signing_key[w] \/ rank[w] = 0)

\* Virtual time stays in its range, and nobody is outside of his lap or left behind.
ScheduleSound == WitnessScheduleTypeOK /\ NoWitnessPastItsLap /\ NobodyOverdue
=============================================================================
