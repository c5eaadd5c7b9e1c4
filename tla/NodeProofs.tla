------------------------------ MODULE NodeProofs ------------------------------
(***************************************************************************)
(* Four parts of a node, each with any constants.                          *)
(*                                                                         *)
(* Witness schedule.  Virtual time is sound for any witnesses, votes and   *)
(* width of the times: no unsigned subtraction of the schedule wraps, no   *)
(* witness travels past its lap, and none is left behind.  What a step     *)
(* needs to know is where a witness will be when its turn comes: with the  *)
(* votes it has now it does not pass the end of its lap before its         *)
(* scheduled time (OnItsLap).                                              *)
(*                                                                         *)
(* Block log.  Whatever is appended, flushed, read or lost in a crash, a   *)
(* log that opens returns every block by its number.  The invariant says   *)
(* which word belongs at each place of the file of blocks and of the index *)
(* (WordAt, PositionsRight), also when a crash tore the last entry or the  *)
(* index is behind; an open log has whole entries only (OpenRight).        *)
(*                                                                         *)
(* Votes for witnesses.  The sums are only ever changed by differences; a  *)
(* change of proxy is an account that leaves its chain (Detached) and is   *)
(* put below another (Attached), and each half keeps every sum right       *)
(* (Counted).  That chains end is kept as the length of each (Ranked).     *)
(*                                                                         *)
(* Production of blocks.  Slots, participation, the last irreversible      *)
(* block and the votes for hardforks.  Until VotingBlock the last          *)
(* irreversible block is exactly a round behind the head (LibRight), so    *)
(* the change of rule there takes nothing back; a decided hardfork carries *)
(* the time its version is listed with (HardforksRight), and the bits of   *)
(* participation that leave the window are the ones the count loses.       *)
(***************************************************************************)
EXTENDS WitnessVotes, WitnessSchedule, BlockProduction, BlockLog, SequenceTheorems, SumTheorems

-----------------------------------------------------------------------------
(***************************************************************************)
(* The witness schedule.                                                   *)
(***************************************************************************)
\* The witness reaches its scheduled time on its lap.
OnItsLap(w) ==
    /\ last_update[w] <= virtual_time
    /\ virtual_time <= scheduled_time[w]
    /\ position[w] + rank[w] * (scheduled_time[w] - last_update[w]) <= Lap

\* A witness that is not there yet has what it will be created with.
NotYet(w) ==
    rank[w] = 0 /\ ~signing_key[w] /\ last_update[w] = 0 /\ position[w] = 0 /\ scheduled_time[w] = Lap

\* The inductive invariant.
ScheduleInv ==
    /\ WitnessScheduleTypeOK
    /\ \A w \in Witnesses : OnItsLap(w)
    /\ \A w \in Witnesses \ created : NotYet(w)

-----------------------------------------------------------------------------
(***************************************************************************)
(* Arithmetic.                                                             *)
(***************************************************************************)
\* A product of naturals grows with its second factor.
LEMMA ProductGrows ==
    ASSUME NEW a \in Nat, NEW x \in Nat, NEW y \in Nat, x <= y
    PROVE  a * x \in Nat /\ a * y \in Nat /\ a * x <= a * y
PROOF OBVIOUS

\* A share of x among one more than a, taken a times, is within x.
LEMMA ShareWithin ==
    ASSUME NEW a \in Nat, NEW x \in Nat
    PROVE  /\ x \div (a + 1) \in Nat
           /\ x \div (a + 1) <= x
           /\ a * (x \div (a + 1)) <= x
PROOF OBVIOUS

\* A remainder by a larger modulus is the number itself.
LEMMA SmallRemainder ==
    ASSUME NEW n \in Nat, NEW x \in 0..(n - 1)
    PROVE  x % n = x
PROOF OBVIOUS

\* A sum that exceeds the modulus wraps to less than either part.
LEMMA SumWraps ==
    ASSUME NEW n \in Nat, NEW x \in 0..(n - 1), NEW y \in 0..(n - 1)
    PROVE  /\ x + y < n => (x + y) % n = x + y
           /\ x + y >= n => (x + y) % n = x + y - n
PROOF OBVIOUS

-----------------------------------------------------------------------------
(***************************************************************************)
(* The invariant.                                                          *)
(***************************************************************************)
LEMMA LapNatural == Lap \in Nat /\ VirtualSize = Lap + 1 /\ VirtualSize \in Nat
BY WitnessScheduleAssumption DEF Lap

\* What the invariant says of one witness.
LEMMA WitnessTypes ==
    ASSUME WitnessScheduleTypeOK, NEW w \in Witnesses
    PROVE  /\ rank[w] \in 0..TotalPower
           /\ rank[w] \in Nat
           /\ last_update[w] \in 0..Lap
           /\ position[w] \in 0..Lap
           /\ scheduled_time[w] \in 0..Lap
           /\ virtual_time \in 0..Lap
BY WitnessScheduleAssumption DEF WitnessScheduleTypeOK

\* The invariant is what the property asks for.
LEMMA InvariantSuffices == ScheduleInv => ScheduleSound
<1>. SUFFICES ASSUME ScheduleInv PROVE ScheduleSound
    OBVIOUS
<1>1. ASSUME NEW w \in Witnesses
      PROVE  position[w] + rank[w] * (virtual_time - last_update[w]) <= Lap
    <2>1. OnItsLap(w) /\ WitnessScheduleTypeOK
        BY DEF ScheduleInv
    <2>. DEFINE now  == virtual_time - last_update[w]
                turn == scheduled_time[w] - last_update[w]
    <2>2. now \in Nat /\ turn \in Nat /\ now <= turn /\ rank[w] \in Nat
          /\ position[w] \in Nat /\ Lap \in Nat
        BY <2>1, WitnessTypes, LapNatural DEF OnItsLap
    <2>3. position[w] + rank[w] * turn <= Lap
        BY <2>1 DEF OnItsLap
    <2>. HIDE DEF now, turn
    <2>4. rank[w] * now \in Nat /\ rank[w] * turn \in Nat /\ rank[w] * now <= rank[w] * turn
        BY <2>2, ProductGrows
    <2>5. position[w] + rank[w] * now <= Lap
        BY <2>2, <2>3, <2>4
    <2>. QED
        BY <2>5 DEF now
<1>. QED
    BY <1>1 DEF ScheduleInv, OnItsLap, ScheduleSound, NoWitnessPastItsLap, NobodyOverdue

\* Everybody has the largest time and no votes at first.
LEMMA InitInvariant == WitnessScheduleInit => ScheduleInv
<1>. SUFFICES ASSUME WitnessScheduleInit PROVE ScheduleInv
    OBVIOUS
<1>1. WitnessScheduleTypeOK
    BY WitnessScheduleAssumption, LapNatural DEF WitnessScheduleInit, WitnessScheduleTypeOK
<1>2. ASSUME NEW w \in Witnesses PROVE OnItsLap(w)
    BY LapNatural DEF WitnessScheduleInit, OnItsLap
<1>3. ASSUME NEW w \in Witnesses \ created PROVE NotYet(w)
    BY DEF WitnessScheduleInit, NotYet
<1>. QED
    BY <1>1, <1>2, <1>3 DEF ScheduleInv

\* A new time for the votes: from now on, and in time for the rest of the lap.
LEMMA NewTimeOnLap ==
    ASSUME ScheduleInv, NEW w \in Witnesses, NEW sum \in Nat, NEW pos \in 0..Lap
    PROVE  /\ NewScheduledTime(w, pos, sum) \in 0..Lap
           /\ virtual_time <= NewScheduledTime(w, pos, sum)
           /\ pos + sum * (NewScheduledTime(w, pos, sum) - virtual_time) <= Lap
<1>. DEFINE share == (Lap - pos) \div (sum + 1)
            time  == NewScheduledTime(w, pos, sum)
<1>1. Lap - pos \in 0..(VirtualSize - 1) /\ virtual_time \in 0..Lap /\ Lap - pos \in Nat
    BY LapNatural, WitnessTypes DEF ScheduleInv
<1>2. (Lap - pos) % VirtualSize = Lap - pos
    BY <1>1, LapNatural, SmallRemainder
<1>3. share \in Nat /\ share <= Lap - pos /\ sum * share <= Lap - pos
    BY <1>1, ShareWithin
<1>4. time = LET t == (virtual_time + share) % VirtualSize
             IN  IF t < virtual_time THEN Lap ELSE t
    BY <1>2 DEF NewScheduledTime
<1>. HIDE DEF share, time
<1>5. /\ virtual_time + share < VirtualSize =>
            (virtual_time + share) % VirtualSize = virtual_time + share
      /\ virtual_time + share >= VirtualSize =>
            (virtual_time + share) % VirtualSize = virtual_time + share - VirtualSize
    <2>1. virtual_time \in 0..(VirtualSize - 1) /\ share \in 0..(VirtualSize - 1)
        BY <1>1, <1>3, LapNatural
    <2>. QED
        BY <2>1, LapNatural, SumWraps
<1>6. time \in 0..Lap /\ virtual_time <= time /\ time - virtual_time <= share
    BY <1>1, <1>3, <1>4, <1>5, LapNatural
<1>7. sum * (time - virtual_time) \in Nat /\ sum * share \in Nat
      /\ sum * (time - virtual_time) <= sum * share
    BY <1>1, <1>3, <1>6, LapNatural, ProductGrows
<1>8. pos + sum * (time - virtual_time) <= Lap
    BY <1>1, <1>3, <1>7, LapNatural
<1>. QED
    BY <1>6, <1>8 DEF time

LEMMA KeyChangeInvariant ==
    ASSUME ScheduleInv, NEW w \in Witnesses, NEW has \in BOOLEAN, witness_update(w, has)
    PROVE  ScheduleInv'
<1>1. WitnessScheduleTypeOK'
    BY DEF ScheduleInv, WitnessScheduleTypeOK, witness_update, Lap
<1>2. ASSUME NEW v \in Witnesses PROVE OnItsLap(v)'
    BY DEF ScheduleInv, OnItsLap, witness_update, Lap
<1>3. ASSUME NEW v \in Witnesses \ created' PROVE NotYet(v)'
    <2>1. v \in Witnesses \ created /\ v # w
        BY DEF witness_update
    <2>2. signing_key'[v] = signing_key[v]
        BY <2>1 DEF ScheduleInv, WitnessScheduleTypeOK, witness_update
    <2>3. NotYet(v)
        BY <2>1 DEF ScheduleInv
    <2>. QED
        BY <2>2, <2>3 DEF NotYet, witness_update, Lap
<1>. QED
    BY <1>1, <1>2, <1>3 DEF ScheduleInv

\* The position where the witness is now is on its lap: neither subtraction wraps.
LEMMA VoteChangeInvariant ==
    ASSUME ScheduleInv, NEW w \in Witnesses, NEW sum \in 0..TotalPower,
           adjust_witness_vote(w, sum)
    PROVE  ScheduleInv'
<1>. DEFINE gone == virtual_time - last_update[w]
            pos  == position[w] + rank[w] * gone
            time == NewScheduledTime(w, pos, sum)
<1>1. ScheduleSound /\ WitnessScheduleTypeOK /\ sum \in Nat /\ TotalPower \in Nat
    BY InvariantSuffices, WitnessScheduleAssumption DEF ScheduleInv
<1>2. gone \in 0..Lap /\ rank[w] \in Nat /\ position[w] \in Nat
      /\ virtual_time \in 0..Lap /\ Lap \in Nat
    <2>1. last_update[w] <= virtual_time
        BY <1>1 DEF ScheduleSound, NoWitnessPastItsLap
    <2>2. rank[w] \in Nat /\ last_update[w] \in 0..Lap /\ position[w] \in 0..Lap
          /\ virtual_time \in 0..Lap
        BY <1>1, WitnessTypes
    <2>3. Lap \in Nat
        BY LapNatural
    <2>4. gone \in 0..Lap
        BY <2>1, <2>2, <2>3
    <2>5. position[w] \in Nat
        BY <2>2, <2>3
    <2>. QED
        BY <2>2, <2>3, <2>4, <2>5
<1>3. gone % VirtualSize = gone
    <2>1. gone \in 0..(VirtualSize - 1) /\ VirtualSize \in Nat
        BY <1>2, LapNatural
    <2>. HIDE DEF gone
    <2>. QED
        BY <2>1, SmallRemainder
<1>4. pos <= Lap
    BY <1>1 DEF ScheduleSound, NoWitnessPastItsLap
<1>5. Travelled(w) = rank[w] * gone
    BY <1>3 DEF Travelled
<1>6. rank[w] * gone \in Nat
    BY <1>2, ProductGrows
<1>7. pos \in 0..Lap
    BY <1>2, <1>4, <1>6
<1>8. pos % VirtualSize = pos
    BY <1>7, LapNatural, SmallRemainder
<1>9. /\ position' = [position EXCEPT ![w] = pos]
      /\ last_update' = [last_update EXCEPT ![w] = virtual_time]
      /\ rank' = [rank EXCEPT ![w] = sum]
      /\ scheduled_time' = [scheduled_time EXCEPT ![w] = time]
      /\ UNCHANGED <<created, signing_key, virtual_time, round>> /\ w \in created
    BY <1>5, <1>8 DEF adjust_witness_vote
<1>. HIDE DEF pos
<1>10. time \in 0..Lap /\ virtual_time <= time /\ pos + sum * (time - virtual_time) <= Lap
    BY <1>1, <1>7, NewTimeOnLap
<1>. HIDE DEF time
<1>11. WitnessScheduleTypeOK'
    <2>1. WitnessScheduleTypeOK /\ Lap' = Lap
        BY <1>1 DEF Lap
    <2>. QED
        BY <1>2, <1>7, <1>9, <1>10, <2>1 DEF WitnessScheduleTypeOK
<1>12. ASSUME NEW v \in Witnesses PROVE OnItsLap(v)'
    <2>1. CASE v = w
        <3>1. /\ position'[v] = pos /\ last_update'[v] = virtual_time /\ rank'[v] = sum
              /\ scheduled_time'[v] = time /\ virtual_time' = virtual_time
            BY <1>1, <1>9, <2>1 DEF WitnessScheduleTypeOK
        <3>. QED
            BY <1>2, <1>10, <3>1 DEF OnItsLap, Lap
    <2>2. CASE v # w
        BY <1>1, <1>9, <2>2 DEF WitnessScheduleTypeOK, OnItsLap, ScheduleInv, Lap
    <2>. QED
        BY <2>1, <2>2
<1>13. ASSUME NEW v \in Witnesses \ created' PROVE NotYet(v)'
    <2>1. v \in Witnesses \ created /\ v # w
        BY <1>9
    <2>2. NotYet(v)
        BY <2>1 DEF ScheduleInv
    <2>. QED
        BY <1>1, <1>9, <2>1, <2>2 DEF NotYet, WitnessScheduleTypeOK, Lap
<1>. QED
    BY <1>11, <1>12, <1>13 DEF ScheduleInv

-----------------------------------------------------------------------------
(***************************************************************************)
(* A new round.                                                            *)
(***************************************************************************)
\* Who comes before a processed witness has been processed too.
LEMMA ProcessedDownward ==
    ASSUME WitnessScheduleTypeOK, NEW top \in SUBSET Witnesses,
           NEW p \in Processed(top), NEW w \in created, Before(w, p)
    PROVE  w \in Processed(top)
<1>. DEFINE sooner == SeatedBefore(top, w)
            later  == SeatedBefore(top, p)
<1>1. p \in Witnesses /\ w \in Witnesses /\ Cardinality(later) < MaxWitnesses
    BY DEF Processed, WitnessScheduleTypeOK
<1>2. ASSUME NEW v \in Witnesses, Before(v, w) PROVE Before(v, p)
    <2>1. /\ scheduled_time[v] \in Int /\ scheduled_time[w] \in Int /\ scheduled_time[p] \in Int
          /\ v \in Int /\ w \in Int /\ p \in Int
        BY <1>1, WitnessTypes, LapNatural, WitnessScheduleAssumption
    <2>. QED
        BY <1>2, <2>1 DEF Before
<1>3. sooner \in SUBSET later
    BY <1>2 DEF SeatedBefore
<1>4. IsFiniteSet(Witnesses) /\ later \in SUBSET Witnesses
    BY WitnessScheduleAssumption DEF SeatedBefore
<1>5. IsFiniteSet(later)
    BY <1>4, FS_Subset
<1>6. IsFiniteSet(sooner) /\ Cardinality(sooner) <= Cardinality(later)
    BY <1>3, <1>5, FS_Subset
<1>7. Cardinality(sooner) \in Nat /\ Cardinality(later) \in Nat /\ MaxWitnesses \in Nat
    BY <1>5, <1>6, FS_CardinalityType, WitnessScheduleAssumption
<1>8. Cardinality(sooner) < MaxWitnesses
    BY <1>1, <1>6, <1>7
<1>. QED
    BY <1>8 DEF Processed

\* The new virtual time lies between the present one and the times of those that
\* have not been gone through.
LEMMA NewTimeBetween ==
    ASSUME ScheduleInv, NEW top \in SUBSET Witnesses,
           NEW time \in NewVirtualTime(Processed(top))
    PROVE  /\ time \in 0..Lap
           /\ virtual_time <= time
           /\ \A w \in Witnesses \ Processed(top) : time <= scheduled_time[w]
<1>. WitnessScheduleTypeOK /\ \A w \in Witnesses : OnItsLap(w)
    BY DEF ScheduleInv
<1>1. CASE Processed(top) = {}
    <2>1. time = virtual_time
        BY <1>1 DEF NewVirtualTime
    <2>2. virtual_time \in 0..Lap
        BY DEF WitnessScheduleTypeOK
    <2>. QED
        BY <2>1, <2>2, LapNatural DEF OnItsLap
<1>2. CASE Processed(top) # {}
    <2>1. PICK p \in Processed(top) : time = scheduled_time[p]
        BY <1>2 DEF NewVirtualTime
    <2>2. p \in Witnesses
        BY DEF Processed, WitnessScheduleTypeOK
    <2>3. time \in 0..Lap /\ virtual_time <= time
        BY <2>1, <2>2, WitnessTypes DEF OnItsLap
    <2>4. ASSUME NEW w \in Witnesses \ Processed(top) PROVE time <= scheduled_time[w]
        <3>1. CASE w \in created
            <4>1. ~Before(w, p)
                BY <3>1, ProcessedDownward
            <4>2. scheduled_time[w] \in Int /\ scheduled_time[p] \in Int
                BY <2>2, WitnessTypes, LapNatural
            <4>. QED
                BY <2>1, <4>1, <4>2 DEF Before
        <3>2. CASE w \notin created
            BY <2>3, <3>2, LapNatural DEF ScheduleInv, NotYet
        <3>. QED
            BY <3>1, <3>2
    <2>. QED
        BY <2>3, <2>4
<1>. QED
    BY <1>1, <1>2

\* The length of a lap in virtual time.
LEMMA LapTimeType ==
    ASSUME WitnessScheduleTypeOK, NEW w \in Witnesses
    PROVE  LapTime(w) \in 0..Lap /\ rank[w] * LapTime(w) <= Lap
<1>1. rank[w] \in Nat
    BY WitnessTypes
<1>2. Lap \in Nat
    BY LapNatural
<1>3. LapTime(w) \in Nat /\ LapTime(w) <= Lap /\ rank[w] * LapTime(w) <= Lap
    BY <1>1, <1>2, ShareWithin DEF LapTime
<1>. QED
    BY <1>2, <1>3

LEMMA ResetInvariant ==
    ASSUME ScheduleInv, _reset_witness_virtual_schedule_time,
           UNCHANGED <<created, rank, signing_key>>, round' \subseteq created
    PROVE  ScheduleInv'
<1>. WitnessScheduleTypeOK
    BY DEF ScheduleInv
<1>1. \A w \in Witnesses : LapTime(w) \in 0..Lap /\ rank[w] * LapTime(w) <= Lap
    BY LapTimeType
<1>2. Lap' = Lap /\ Lap \in Nat
    BY LapNatural DEF Lap
<1>3. WitnessScheduleTypeOK'
    BY <1>1, <1>2 DEF WitnessScheduleTypeOK, _reset_witness_virtual_schedule_time
<1>4. ASSUME NEW w \in Witnesses PROVE OnItsLap(w)'
    <2>1. /\ position'[w] = 0 /\ last_update'[w] = 0 /\ rank'[w] = rank[w]
          /\ scheduled_time'[w] = LapTime(w) /\ virtual_time' = 0
        <3>1. w \notin created => scheduled_time[w] = LapTime(w)
            BY <1>2 DEF ScheduleInv, NotYet, LapTime
        <3>. QED
            BY <3>1 DEF _reset_witness_virtual_schedule_time
    <2>2. LapTime(w) \in Nat /\ rank[w] \in Nat /\ rank[w] * LapTime(w) <= Lap
        BY <1>1, <1>2, WitnessTypes
    <2>3. rank[w] * LapTime(w) \in Nat
        BY <2>2, ProductGrows
    <2>4. LapTime(w) - 0 = LapTime(w) /\ 0 + rank[w] * LapTime(w) = rank[w] * LapTime(w)
        BY <2>2, <2>3
    <2>. QED
        BY <1>2, <2>1, <2>2, <2>4 DEF OnItsLap
<1>5. ASSUME NEW w \in Witnesses \ created' PROVE NotYet(w)'
    <2>1. NotYet(w) /\ w \in Witnesses \ created
        BY DEF ScheduleInv
    <2>. QED
        BY <1>2, <2>1 DEF NotYet, _reset_witness_virtual_schedule_time
<1>. QED
    BY <1>3, <1>4, <1>5 DEF ScheduleInv

LEMMA AdvanceInvariant ==
    ASSUME ScheduleInv, NEW top \in SUBSET Witnesses,
           NEW time \in NewVirtualTime(Processed(top)),
           ~Wraps(time, Processed(top)), Advance(time, Processed(top)),
           UNCHANGED <<created, rank, signing_key>>, round' \subseteq created
    PROVE  ScheduleInv'
<1>. DEFINE processed == Processed(top)
<1>. WitnessScheduleTypeOK /\ \A w \in Witnesses : OnItsLap(w)
    BY DEF ScheduleInv
<1>1. /\ time \in 0..Lap
      /\ virtual_time <= time
      /\ \A w \in Witnesses \ processed : time <= scheduled_time[w]
    BY NewTimeBetween
<1>2. Lap' = Lap /\ Lap \in Nat /\ VirtualSize = Lap + 1
    BY LapNatural DEF Lap
<1>3. \A w \in Witnesses : LapTime(w) \in 0..Lap /\ rank[w] * LapTime(w) <= Lap
    BY LapTimeType
<1>4. processed \subseteq Witnesses /\ processed \subseteq created
    BY DEF Processed, WitnessScheduleTypeOK
<1>5. ASSUME NEW w \in processed PROVE time + LapTime(w) \in 0..Lap
    <2>1. time \in 0..(VirtualSize - 1) /\ LapTime(w) \in 0..(VirtualSize - 1) /\ VirtualSize \in Nat
        BY <1>1, <1>2, <1>3, <1>4, LapNatural
    <2>2. (time + LapTime(w)) % VirtualSize >= time
        <3>1. ~((time + LapTime(w)) % VirtualSize < time)
            BY <1>5 DEF Wraps
        <3>2. (time + LapTime(w)) % VirtualSize \in Int /\ time \in Int
            BY <2>1, SumWraps
        <3>. QED
            BY <3>1, <3>2
    <2>. QED
        <3>. DEFINE sum == time + LapTime(w)
        <3>1. sum < VirtualSize
            <4>. SUFFICES ASSUME ~(sum < VirtualSize) PROVE FALSE
                OBVIOUS
            <4>1. time + LapTime(w) >= VirtualSize
                BY <2>1
            <4>2. (time + LapTime(w)) % VirtualSize = time + LapTime(w) - VirtualSize
                BY <2>1, <4>1, SumWraps
            <4>. QED
                BY <2>1, <2>2, <4>2
        <3>. QED
            BY <1>2, <2>1, <3>1
<1>6. /\ virtual_time' = time
      /\ last_update' = [w \in Witnesses |-> IF w \in processed THEN time ELSE last_update[w]]
      /\ position' = [w \in Witnesses |-> IF w \in processed THEN 0 ELSE position[w]]
      /\ scheduled_time' = [w \in Witnesses |->
                               IF w \in processed THEN time + LapTime(w) ELSE scheduled_time[w]]
    BY DEF Advance
<1>. HIDE DEF processed
<1>7. WitnessScheduleTypeOK'
    BY <1>1, <1>2, <1>5, <1>6 DEF WitnessScheduleTypeOK
<1>8. ASSUME NEW w \in Witnesses PROVE OnItsLap(w)'
    <2>1. /\ rank[w] \in Nat /\ last_update[w] \in 0..Lap /\ position[w] \in 0..Lap
          /\ scheduled_time[w] \in 0..Lap /\ virtual_time \in 0..Lap
          /\ rank'[w] = rank[w]
        BY WitnessTypes
    <2>2. CASE w \in processed
        <3>1. /\ position'[w] = 0 /\ last_update'[w] = time /\ virtual_time' = time
              /\ scheduled_time'[w] = time + LapTime(w)
            BY <1>6, <2>2
        <3>2. LapTime(w) \in Nat /\ time \in Nat /\ rank[w] * LapTime(w) <= Lap
            BY <1>1, <1>2, <1>3
        <3>3. rank[w] * LapTime(w) \in Nat
            BY <2>1, <3>2, ProductGrows
        <3>4. /\ scheduled_time'[w] - last_update'[w] = LapTime(w)
              /\ last_update'[w] <= virtual_time' /\ virtual_time' <= scheduled_time'[w]
            BY <3>1, <3>2
        <3>5. position'[w] + rank'[w] * (scheduled_time'[w] - last_update'[w]) <= Lap'
            <4>1. 0 + rank[w] * LapTime(w) <= Lap
                BY <3>2, <3>3
            <4>. QED
                BY <1>2, <2>1, <3>1, <3>4, <4>1
        <3>. QED
            BY <3>4, <3>5 DEF OnItsLap
    <2>3. CASE w \notin processed
        <3>1. /\ position'[w] = position[w] /\ last_update'[w] = last_update[w]
              /\ virtual_time' = time /\ scheduled_time'[w] = scheduled_time[w]
            BY <1>6, <2>3
        <3>2. last_update[w] <= time /\ time <= scheduled_time[w]
            BY <1>1, <1>2, <2>1, <2>3 DEF OnItsLap
        <3>3. position[w] + rank[w] * (scheduled_time[w] - last_update[w]) <= Lap
            BY DEF OnItsLap
        <3>. QED
            BY <1>2, <2>1, <3>1, <3>2, <3>3 DEF OnItsLap
    <2>. QED
        BY <2>2, <2>3
<1>9. ASSUME NEW w \in Witnesses \ created' PROVE NotYet(w)'
    <2>1. NotYet(w) /\ w \in Witnesses \ processed
        BY <1>4 DEF ScheduleInv
    <2>. QED
        BY <1>2, <1>6, <2>1 DEF NotYet
<1>. QED
    BY <1>7, <1>8, <1>9 DEF ScheduleInv

LEMMA NewRoundInvariant ==
    ASSUME ScheduleInv, update_witness_schedule
    PROVE  ScheduleInv'
<1>. DEFINE processed == Processed(TopVoted)
<1>1. PICK time \in NewVirtualTime(processed) :
         /\ round' = TopVoted \cup {w \in processed : HasKey(w)}
         /\ IF Wraps(time, processed) THEN _reset_witness_virtual_schedule_time
            ELSE Advance(time, processed)
    BY DEF update_witness_schedule
<1>2. UNCHANGED <<created, rank, signing_key>>
    BY DEF update_witness_schedule
<1>3. TopVoted \in SUBSET Witnesses /\ TopVoted \subseteq created /\ processed \subseteq created
    BY DEF TopVoted, Processed, HasKey, ScheduleInv, NotYet
<1>4. round' \subseteq created
    BY <1>1, <1>3
<1>5. CASE Wraps(time, processed)
    BY <1>1, <1>2, <1>4, <1>5, ResetInvariant
<1>6. CASE ~Wraps(time, processed)
    BY <1>1, <1>2, <1>3, <1>4, <1>6, AdvanceInvariant
<1>. QED
    BY <1>5, <1>6

LEMMA NextInvariant == ScheduleInv /\ [WitnessScheduleNext]_scheduleVars => ScheduleInv'
<1>. SUFFICES ASSUME ScheduleInv, [WitnessScheduleNext]_scheduleVars PROVE ScheduleInv'
    OBVIOUS
<1>1. ASSUME NEW w \in Witnesses, NEW has \in BOOLEAN, witness_update(w, has)
      PROVE  ScheduleInv'
    BY <1>1, KeyChangeInvariant
<1>2. ASSUME NEW w \in Witnesses, NEW sum \in 0..TotalPower, adjust_witness_vote(w, sum)
      PROVE  ScheduleInv'
    BY <1>2, VoteChangeInvariant
<1>3. CASE update_witness_schedule
    BY <1>3, NewRoundInvariant
<1>4. CASE UNCHANGED scheduleVars
    BY <1>4 DEF scheduleVars, ScheduleInv, WitnessScheduleTypeOK, OnItsLap, NotYet, Lap
<1>. QED
    BY <1>1, <1>2, <1>3, <1>4 DEF WitnessScheduleNext

\* Virtual time never leaves its range, no unsigned subtraction of
\* adjust_witness_vote (witness.cpp) wraps, no witness goes past its lap and none
\* is left behind by update_witness_schedule (database_witness_schedule.cpp),
\* with any number of witnesses and votes that fit virtual time.
THEOREM ScheduleAlwaysSound == WitnessScheduleSpec => []ScheduleSound
<1>1. WitnessScheduleInit => ScheduleInv
    BY InitInvariant
<1>2. ScheduleInv /\ [WitnessScheduleNext]_scheduleVars => ScheduleInv'
    BY NextInvariant
<1>3. ScheduleInv => ScheduleSound
    BY InvariantSuffices
<1>. QED
    BY <1>1, <1>2, <1>3, PTL DEF WitnessScheduleSpec

-----------------------------------------------------------------------------
(***************************************************************************)
(* The block log.                                                          *)
(***************************************************************************)
LEMMA SizeType == EntrySize \in Nat /\ EntrySize = Parts + 1 /\ EntrySize >= 2 /\ Parts \in Nat
  BY BlockLogAssumption DEF EntrySize

-----------------------------------------------------------------------------
\* What one place of the file of blocks can hold.
Word == [pos : Nat] \cup [block : Nat, part : Nat]

\* The word that belongs at a place of the block file.
WordAt(i) ==
  IF ((i - 1) % EntrySize) + 1 = EntrySize
  THEN Pos(((i - 1) \div EntrySize) * EntrySize)
  ELSE Part(((i - 1) \div EntrySize) + 1, ((i - 1) % EntrySize) + 1)

\* A file with what is still in its stream.
Blocks == blockFile \o blockBuf
Positions == indexFile \o indexBuf

\* The types of the variables.
LogTypes ==
  /\ blockFile \in Seq(Word) /\ blockBuf \in Seq(Word)
  /\ indexFile \in Seq(Nat) /\ indexBuf \in Seq(Nat)
  /\ head \in Nat /\ durable \in Nat
  /\ status \in {"open", "closed", "broken"}

\* Whatever reached the files, each word is where it belongs, and so is each position.
WordsRight == \A i \in 1 .. Len(Blocks) : Blocks[i] = WordAt(i)
PositionsRight == \A i \in 1 .. Len(Positions) : Positions[i] = (i - 1) * EntrySize

\* An open log has whole entries only.
OpenRight ==
  status = "open" =>
    /\ Len(Blocks) = head * EntrySize
    /\ Len(Positions) = head \/ OneBlockUnindexed
    /\ durable <= head

\* What was flushed is on the disk.
DurableRight == durable * EntrySize <= Len(blockFile)

\* Streams are empty unless the log is open.
NothingHeld == status # "open" => blockBuf = <<>> /\ indexBuf = <<>>

\* The inductive invariant.
LogInv == LogTypes /\ WordsRight /\ PositionsRight /\ OpenRight /\ DurableRight /\ NothingHeld

-----------------------------------------------------------------------------
\* The words of entry b: the parts of block b + 1, then the place where it starts.
LEMMA WordAtPlace ==
  ASSUME NEW b \in Nat
  PROVE  /\ \A k \in 1 .. Parts : WordAt(b * EntrySize + k) = Part(b + 1, k)
         /\ WordAt(b * EntrySize + EntrySize) = Pos(b * EntrySize)
  <1>1. ASSUME NEW k \in 1 .. EntrySize
        PROVE  /\ (b * EntrySize + k - 1) \div EntrySize = b
               /\ ((b * EntrySize + k - 1) % EntrySize) + 1 = k
    <2>1. k - 1 \in 0 .. EntrySize - 1 /\ b * EntrySize + k - 1 = b * EntrySize + (k - 1)
      BY SizeType
    <2> QED BY <2>1, SizeType, DivMod
  <1>2. ASSUME NEW k \in 1 .. Parts PROVE WordAt(b * EntrySize + k) = Part(b + 1, k)
    BY <1>1, SizeType DEF WordAt
  <1>3. WordAt(b * EntrySize + EntrySize) = Pos(b * EntrySize)
    BY <1>1, SizeType DEF WordAt
  <1> QED BY <1>2, <1>3

\* Parts and positions are told apart.
LEMMA WordKinds ==
  /\ \A n, k : ~IsPos(Part(n, k)) /\ Part(n, k).block = n
  /\ \A p : IsPos(Pos(p)) /\ Pos(p).pos = p
  /\ \A n, k \in Nat : Part(n, k) \in Word
  /\ \A p \in Nat : Pos(p) \in Word
  <1>1. \A n, k : ~IsPos(Part(n, k)) /\ Part(n, k).block = n
    BY DEF IsPos, Part
  <1>2. \A p : IsPos(Pos(p)) /\ Pos(p).pos = p
    BY DEF IsPos, Pos
  <1> QED BY <1>1, <1>2 DEF Part, Pos, Word

\* A word belongs at every place.
LEMMA WordAtType == ASSUME NEW i \in Nat \ {0} PROVE WordAt(i) \in Word
  <1>1. PICK b \in Nat, k \in 1 .. EntrySize : i = b * EntrySize + k
    <2>1. i \in Nat /\ i >= 1 /\ EntrySize >= 1
      BY SizeType
    <2> QED BY <2>1, Placed, SizeType
  <1>2. CASE k = EntrySize
    BY <1>1, <1>2, WordAtPlace, WordKinds, SizeType
  <1>3. CASE k \in 1 .. Parts
    <2>1. WordAt(i) = Part(b + 1, k) /\ b + 1 \in Nat /\ k \in Nat
      BY <1>1, <1>3, WordAtPlace, SizeType
    <2> QED BY <2>1, WordKinds
  <1> QED BY <1>2, <1>3, SizeType

\* A log that was closed in order.
LEMMA LogInitInv == BlockLogInit => LogInv
  <1> SUFFICES ASSUME BlockLogInit PROVE LogInv
    OBVIOUS
  <1>1. InitialBlocks \in Nat /\ InitialBlocks * EntrySize \in Nat
    BY BlockLogAssumption, SizeType
  <1>2. \A i \in 1 .. InitialBlocks * EntrySize : Written(InitialBlocks)[i] = WordAt(i)
    BY DEF Written, WordAt
  <1>3. /\ Written(InitialBlocks) = [i \in 1 .. InitialBlocks * EntrySize |-> WordAt(i)]
    BY DEF Written, WordAt
  <1>4. Written(InitialBlocks) \in Seq(Word) /\ Len(Written(InitialBlocks)) = InitialBlocks * EntrySize
    <2>1. \A i \in 1 .. InitialBlocks * EntrySize : WordAt(i) \in Word
      BY WordAtType, <1>1
    <2> QED BY <1>1, <1>3, <2>1
  <1>5. /\ indexFile \in Seq(Nat) /\ Len(indexFile) = InitialBlocks
        /\ \A i \in 1 .. InitialBlocks : indexFile[i] = (i - 1) * EntrySize
    <2>1. \A i \in 1 .. InitialBlocks : (i - 1) * EntrySize \in Nat
      BY <1>1, SizeType
    <2> QED BY <1>1, <2>1 DEF BlockLogInit
  <1>6. Blocks = blockFile /\ Positions = indexFile
    BY <1>4, <1>5 DEF BlockLogInit, Blocks, Positions
  <1> QED
    BY <1>1, <1>2, <1>4, <1>5, <1>6 DEF BlockLogInit, LogInv, LogTypes, WordsRight, PositionsRight,
       OpenRight, DurableRight, NothingHeld

-----------------------------------------------------------------------------
\* Lengths and elements of what is written and of the positions.
LEMMA Contents ==
  ASSUME LogTypes
  PROVE  /\ Blocks \in Seq(Word) /\ Positions \in Seq(Nat)
         /\ Len(Blocks) = Len(blockFile) + Len(blockBuf) /\ Len(Blocks) \in Nat
         /\ Len(Positions) = Len(indexFile) + Len(indexBuf) /\ Len(Positions) \in Nat
         /\ Len(blockFile) \in Nat /\ Len(blockBuf) \in Nat
         /\ Len(indexFile) \in Nat /\ Len(indexBuf) \in Nat
         /\ BlockTell = Len(Blocks) /\ IndexTell = Len(Positions)
         /\ \A i \in 1 .. Len(blockFile) : Blocks[i] = blockFile[i]
         /\ \A i \in 1 .. Len(indexFile) : Positions[i] = indexFile[i]
  BY ConcatProperties, LenProperties DEF LogTypes, Blocks, Positions, BlockTell, IndexTell

\* Flushing moves words from a stream to its file.
LEMMA FlushedContents ==
  ASSUME LogTypes
  PROVE  /\ Blocks \o <<>> = Blocks /\ Positions \o <<>> = Positions
         /\ blockFile \o <<>> = blockFile /\ indexFile \o <<>> = indexFile
         /\ <<>> \in Seq(Word) /\ <<>> \in Seq(Nat) /\ Len(<<>>) = 0
  BY Contents, ConcatEmptySeq, EmptySeq DEF LogTypes

LEMMA FlushInv == ASSUME LogInv, Flush PROVE LogInv'
  <1>1. LogTypes /\ LogTypes'
    BY Contents, FlushedContents DEF LogInv, LogTypes, Flush, Blocks, Positions
  <1>2. Blocks' = Blocks /\ Positions' = Positions /\ Len(blockFile') = Len(Blocks)
    BY <1>1, Contents, FlushedContents DEF Flush, Blocks, Positions
  <1>3. OneBlockUnindexed' <=> OneBlockUnindexed
    <2>1. IndexTell' = IndexTell
      <3>1. IndexTell = Len(Positions) /\ IndexTell' = Len(indexFile') + 0
        BY <1>1, Contents, FlushedContents DEF Flush, IndexTell
      <3>2. indexFile' = Positions
        BY DEF Flush, Positions
      <3> QED BY <3>1, <3>2, <1>1, Contents
    <2> QED BY <2>1 DEF OneBlockUnindexed, Flush
  <1>4. WordsRight' /\ PositionsRight' /\ OpenRight' /\ NothingHeld'
    BY <1>2, <1>3 DEF LogInv, WordsRight, PositionsRight, OpenRight, NothingHeld, Flush, LogTypes
  <1>5. DurableRight'
    BY <1>2 DEF LogInv, OpenRight, DurableRight, Flush
  <1> QED BY <1>1, <1>4, <1>5 DEF LogInv

\* What any change keeps that writes the same words to the same places.
LEMMA SameContents ==
  ASSUME LogInv, LogTypes', Blocks' = Blocks, Positions' = Positions,
         Len(blockFile') >= Len(blockFile), UNCHANGED <<head, status, durable>>,
         NothingHeld'
  PROVE  LogInv'
  <1>1. LogTypes /\ IndexTell = Len(Positions) /\ IndexTell' = Len(Positions')
    <2>1. LogTypes BY DEF LogInv
    <2>2. IndexTell = Len(Positions) BY <2>1, Contents
    <2>3. IndexTell' = Len(Positions')
      <3>1. Len(indexFile' \o indexBuf') = Len(indexFile') + Len(indexBuf')
        BY ConcatProperties DEF LogTypes
      <3> QED BY <3>1 DEF IndexTell, Positions
    <2> QED BY <2>1, <2>2, <2>3
  <1>2. OneBlockUnindexed' <=> OneBlockUnindexed
    BY <1>1 DEF OneBlockUnindexed
  <1>3. WordsRight' /\ PositionsRight' /\ OpenRight'
    BY <1>2 DEF LogInv, WordsRight, PositionsRight, OpenRight
  <1>4. DurableRight'
    <2>1. Len(blockFile) \in Nat /\ Len(blockFile') \in Nat /\ durable * EntrySize \in Nat
      BY <1>1, SizeType, LenProperties DEF LogTypes
    <2> QED BY <2>1 DEF DurableRight, LogInv
  <1> QED BY <1>3, <1>4 DEF LogInv

LEMMA ReadInv == ASSUME LogInv, NEW n \in 1 .. MaxBlock, ReadBlockByNum(n) PROVE LogInv'
  <1>0. LogTypes /\ status = "open"
    BY DEF LogInv, ReadBlockByNum
  <1>1. /\ indexFile' \in Seq(Nat) /\ indexBuf' \in Seq(Nat) /\ Positions' = Positions
    <2>1. CASE indexWrite
      <3>1. indexFile' = Positions /\ indexBuf' = <<>>
        BY <2>1 DEF ReadBlockByNum, CheckIndexRead, Positions
      <3> QED BY <3>1, <1>0, Contents, FlushedContents DEF Positions
    <2>2. CASE ~indexWrite
      BY <2>2, <1>0 DEF ReadBlockByNum, CheckIndexRead, Positions, LogTypes
    <2> QED BY <2>1, <2>2
  <1>2. /\ blockFile' \in Seq(Word) /\ blockBuf' \in Seq(Word) /\ Blocks' = Blocks
        /\ Len(blockFile') >= Len(blockFile)
    <2>1. CASE n \in 1 .. head /\ blockWrite
      <3>1. blockFile' = Blocks /\ blockBuf' = <<>>
        BY <2>1 DEF ReadBlockByNum, CheckBlockRead, Blocks
      <3>2. Blocks \o <<>> = Blocks /\ Blocks \in Seq(Word) /\ <<>> \in Seq(Word)
        BY <1>0, Contents, FlushedContents
      <3>3. Len(Blocks) >= Len(blockFile)
        BY <1>0, Contents
      <3> QED BY <3>1, <3>2, <3>3 DEF Blocks
    <2>2. CASE ~(n \in 1 .. head /\ blockWrite)
      <3>1. UNCHANGED <<blockFile, blockBuf>>
        BY <2>2 DEF ReadBlockByNum, CheckBlockRead
      <3>2. Len(blockFile) \in Nat
        BY <1>0, Contents
      <3> QED BY <3>1, <3>2, <1>0 DEF Blocks, LogTypes
    <2> QED BY <2>1, <2>2
  <1>3. UNCHANGED <<head, status, durable>>
    BY DEF ReadBlockByNum
  <1>4. LogTypes' /\ NothingHeld'
    BY <1>0, <1>1, <1>2, <1>3 DEF LogTypes, NothingHeld
  <1> QED BY <1>1, <1>2, <1>3, <1>4, SameContents

LEMMA EntryWords ==
  ASSUME NEW n \in Nat
  PROVE  /\ Entry(n + 1, n * EntrySize) \in Seq(Word)
         /\ Len(Entry(n + 1, n * EntrySize)) = EntrySize
         /\ \A k \in 1 .. EntrySize : Entry(n + 1, n * EntrySize)[k] = WordAt(n * EntrySize + k)
  <1> DEFINE parts == [i \in 1 .. Parts |-> Part(n + 1, i)]
             e == Entry(n + 1, n * EntrySize)
  <1>1. parts \in Seq(Word) /\ Len(parts) = Parts /\ \A i \in 1 .. Parts : parts[i] = Part(n + 1, i)
    <2>1. \A i \in 1 .. Parts : Part(n + 1, i) \in Word
      BY WordKinds, SizeType
    <2> QED BY <2>1, SizeType
  <1>2. Pos(n * EntrySize) \in Word
    BY WordKinds, SizeType
  <1> HIDE DEF parts
  <1>3. e = Append(parts, Pos(n * EntrySize))
    BY DEF Entry, parts
  <1>4. /\ e \in Seq(Word) /\ Len(e) = EntrySize
        /\ \A k \in 1 .. Parts : e[k] = Part(n + 1, k)
        /\ e[EntrySize] = Pos(n * EntrySize)
    BY <1>1, <1>2, <1>3, SizeType
  <1>5. \A k \in 1 .. EntrySize : e[k] = WordAt(n * EntrySize + k)
    BY <1>4, WordAtPlace, SizeType
  <1> QED BY <1>4, <1>5

LEMMA AppendInv == ASSUME LogInv, AppendBlock PROVE LogInv'
  <1>0. LogTypes /\ status = "open" /\ head \in Nat /\ Len(Blocks) = head * EntrySize
        /\ BlockTell = head * EntrySize /\ Len(Positions) = head /\ durable <= head
    BY Contents DEF LogInv, OpenRight, AppendBlock, LogTypes, Appendable
  <1> DEFINE e == Entry(head + 1, head * EntrySize)
  <1>1. /\ e \in Seq(Word) /\ Len(e) = EntrySize
        /\ \A k \in 1 .. EntrySize : e[k] = WordAt(head * EntrySize + k)
    BY <1>0, EntryWords
  <1>2. blockBuf' = blockBuf \o e /\ indexBuf' = Append(indexBuf, head * EntrySize) /\ head' = head + 1
        /\ UNCHANGED <<blockFile, indexFile, status, durable>>
    BY <1>0 DEF AppendBlock
  <1> HIDE DEF e
  <1>3. head * EntrySize \in Nat
    BY <1>0, SizeType
  <1>4. LogTypes'
    BY <1>0, <1>1, <1>2, <1>3, ConcatProperties DEF LogTypes
  <1>5. Blocks' = Blocks \o e
    <2>1. blockFile \in Seq(Word) /\ blockBuf \in Seq(Word)
      BY <1>0 DEF LogTypes
    <2>2. (blockFile \o blockBuf) \o e = blockFile \o (blockBuf \o e)
      BY <2>1, <1>1, ConcatAssociative
    <2> QED BY <1>2, <2>2 DEF Blocks
  <1>6. Positions' = Append(Positions, head * EntrySize)
    <2>1. Append(indexBuf, head * EntrySize) = indexBuf \o <<head * EntrySize>>
      BY <1>0, <1>3 DEF LogTypes
    <2>2. <<head * EntrySize>> \in Seq(Nat)
      BY <1>3
    <2>3. Positions' = Positions \o <<head * EntrySize>>
      <3>1. indexFile \in Seq(Nat) /\ indexBuf \in Seq(Nat)
        BY <1>0 DEF LogTypes
      <3>2. (indexFile \o indexBuf) \o <<head * EntrySize>> = indexFile \o (indexBuf \o <<head * EntrySize>>)
        BY <3>1, <2>2, ConcatAssociative
      <3> QED BY <1>2, <2>1, <3>2 DEF Positions
    <2>4. Positions \in Seq(Nat)
      BY <1>0, Contents
    <2> QED BY <2>2, <2>3, <2>4, <1>3
  <1>7. /\ Len(Blocks') = head * EntrySize + EntrySize
        /\ \A i \in 1 .. head * EntrySize + EntrySize :
              Blocks'[i] = IF i <= head * EntrySize THEN Blocks[i] ELSE e[i - head * EntrySize]
    <2>1. Blocks \in Seq(Word)
      BY <1>0, Contents
    <2>2. /\ Len(Blocks \o e) = Len(Blocks) + Len(e)
          /\ \A i \in 1 .. Len(Blocks) + Len(e) :
                (Blocks \o e)[i] = IF i <= Len(Blocks) THEN Blocks[i] ELSE e[i - Len(Blocks)]
      BY <2>1, <1>1, ConcatProperties
    <2> QED BY <1>0, <1>1, <1>5, <2>2
  <1>8. WordsRight'
    <2> SUFFICES ASSUME NEW i \in 1 .. head * EntrySize + EntrySize PROVE Blocks'[i] = WordAt(i)
      BY <1>7 DEF WordsRight
    <2>1. CASE i <= head * EntrySize
      BY <2>1, <1>0, <1>3, <1>7 DEF LogInv, WordsRight
    <2>2. CASE i > head * EntrySize
      <3>1. i - head * EntrySize \in 1 .. EntrySize /\ head * EntrySize + (i - head * EntrySize) = i
        BY <2>2, <1>3, SizeType
      <3>2. Blocks'[i] = e[i - head * EntrySize]
        BY <2>2, <1>3, <1>7, SizeType
      <3>3. e[i - head * EntrySize] = WordAt(head * EntrySize + (i - head * EntrySize))
        BY <3>1, <1>1
      <3> QED BY <3>1, <3>2, <3>3
    <2> QED BY <2>1, <2>2, <1>3, SizeType
  <1>9. PositionsRight' /\ Len(Positions') = head'
    <2>1. Len(Positions') = head + 1
          /\ \A i \in 1 .. head + 1 : Positions'[i] = IF i <= head THEN Positions[i] ELSE head * EntrySize
      <3> DEFINE p == Positions
                 v == head * EntrySize
      <3>1. p \in Seq(Nat) /\ v \in Nat /\ Len(p) = head /\ Positions' = Append(p, v) /\ head \in Nat
        BY <1>0, <1>3, <1>6, Contents
      <3> HIDE DEF p, v
      <3>2. Len(Append(p, v)) = Len(p) + 1 /\ \A i \in 1 .. Len(p) + 1 : Append(p, v)[i] = IF i <= Len(p) THEN p[i] ELSE v
        BY <3>1
      <3>3. Len(Append(p, v)) = head + 1 /\ \A i \in 1 .. head + 1 : Append(p, v)[i] = IF i <= head THEN p[i] ELSE v
        BY <3>1, <3>2
      <3> QED BY <3>1, <3>3 DEF p, v
    <2> QED BY <2>1, <1>0, <1>2 DEF PositionsRight, LogInv
  <1>10. OpenRight' /\ NothingHeld'
    <2>1. Len(Blocks') = (head + 1) * EntrySize
      BY <1>0, <1>7, SizeType
    <2> QED BY <2>1, <1>0, <1>2, <1>9 DEF OpenRight, NothingHeld, LogTypes
  <1>11. DurableRight'
    BY <1>2 DEF DurableRight, LogInv
  <1> QED BY <1>4, <1>8, <1>9, <1>10, <1>11 DEF LogInv

LEMMA CloseInv == ASSUME LogInv, Close PROVE LogInv'
  <1>0. LogTypes /\ status = "open" /\ Len(Blocks) = head * EntrySize
    BY DEF LogInv, OpenRight, Close
  <1>1. /\ blockFile' = Blocks /\ blockBuf' = <<>> /\ indexFile' = Positions /\ indexBuf' = <<>>
        /\ durable' = head /\ head' = 0 /\ status' = "closed"
    BY DEF Close, Blocks, Positions
  <1>2. LogTypes'
    BY <1>0, <1>1, Contents, FlushedContents DEF LogTypes
  <1>3. Blocks' = Blocks /\ Positions' = Positions
    BY <1>0, <1>1, FlushedContents DEF Blocks, Positions
  <1>4. WordsRight' /\ PositionsRight' /\ OpenRight' /\ NothingHeld'
    BY <1>1, <1>3 DEF LogInv, WordsRight, PositionsRight, OpenRight, NothingHeld
  <1>5. DurableRight'
    <2>1. durable' * EntrySize = Len(blockFile') /\ Len(blockFile') \in Nat
      BY <1>0, <1>1, Contents
    <2> QED BY <2>1 DEF DurableRight
  <1> QED BY <1>2, <1>4, <1>5 DEF LogInv

\* A file and the first part of what its stream holds.
LEMMA PartWritten ==
  ASSUME NEW S, NEW file \in Seq(S), NEW buf \in Seq(S), NEW n \in 0 .. Len(buf)
  PROVE  LET w == file \o SubSeq(buf, 1, n)
         IN  /\ w \in Seq(S) /\ Len(w) = Len(file) + n /\ w \o <<>> = w
             /\ Len(file) + n <= Len(file \o buf)
             /\ \A i \in 1 .. Len(w) : w[i] = (file \o buf)[i]
  <1> DEFINE p == SubSeq(buf, 1, n)
  <1>1. Len(buf) \in Nat /\ Len(file) \in Nat /\ n \in Nat
    BY LenProperties
  <1>2. p \in Seq(S) /\ Len(p) = n /\ \A i \in 1 .. n : p[i] = buf[i]
    <2>1. \A i \in 1 .. n : buf[i] \in S
      BY <1>1, ElementOfSeq
    <2>2. /\ p \in Seq(S) /\ Len(p) = IF 1 <= n THEN n - 1 + 1 ELSE 0
          /\ \A i \in 1 .. n - 1 + 1 : p[i] = buf[1 + i - 1]
      BY <1>1, <2>1, SubSeqProperties
    <2> QED BY <1>1, <2>2
  <1> HIDE DEF p
  <1>3. /\ file \o p \in Seq(S) /\ Len(file \o p) = Len(file) + n
        /\ \A i \in 1 .. Len(file) + n : (file \o p)[i] = IF i <= Len(file) THEN file[i] ELSE p[i - Len(file)]
    BY <1>2, ConcatProperties
  <1>4. /\ Len(file \o buf) = Len(file) + Len(buf)
        /\ \A i \in 1 .. Len(file) + Len(buf) :
              (file \o buf)[i] = IF i <= Len(file) THEN file[i] ELSE buf[i - Len(file)]
    BY ConcatProperties
  <1>5. \A i \in 1 .. Len(file \o p) : (file \o p)[i] = (file \o buf)[i]
    BY <1>1, <1>2, <1>3, <1>4
  <1>6. (file \o p) \o <<>> = file \o p
    BY <1>3, ConcatEmptySeq
  <1> QED BY <1>1, <1>3, <1>4, <1>5, <1>6 DEF p

LEMMA CrashInv == ASSUME LogInv, Crash PROVE LogInv'
  <1>0. LogTypes /\ status = "open" /\ Len(blockFile) \in Nat /\ Len(Blocks) \in Nat
        /\ Len(Positions) \in Nat /\ Len(indexFile) \in Nat
    BY Contents DEF LogInv, Crash
  <1>1. PICK m \in 0 .. Len(blockBuf) : blockFile' = blockFile \o SubSeq(blockBuf, 1, m)
    BY DEF Crash
  <1>2. PICK n \in 0 .. Len(indexBuf) : indexFile' = indexFile \o SubSeq(indexBuf, 1, n)
    BY DEF Crash
  <1>3. /\ blockBuf' = <<>> /\ indexBuf' = <<>> /\ head' = 0 /\ status' = "closed" /\ durable' = durable
    BY DEF Crash
  <1>4. /\ blockFile' \in Seq(Word) /\ Len(blockFile') = Len(blockFile) + m /\ Blocks' = blockFile'
        /\ Len(blockFile') <= Len(Blocks)
        /\ \A i \in 1 .. Len(blockFile') : blockFile'[i] = Blocks[i]
    BY <1>0, <1>1, <1>3, PartWritten DEF LogTypes, Blocks
  <1>5. /\ indexFile' \in Seq(Nat) /\ Len(indexFile') = Len(indexFile) + n /\ Positions' = indexFile'
        /\ Len(indexFile') <= Len(Positions)
        /\ \A i \in 1 .. Len(indexFile') : indexFile'[i] = Positions[i]
    <2>1. indexFile \in Seq(Nat) /\ indexBuf \in Seq(Nat)
      BY <1>0 DEF LogTypes
    <2>2. LET w == indexFile \o SubSeq(indexBuf, 1, n)
          IN  /\ w \in Seq(Nat) /\ Len(w) = Len(indexFile) + n /\ w \o <<>> = w
              /\ Len(indexFile) + n <= Len(indexFile \o indexBuf)
              /\ \A i \in 1 .. Len(w) : w[i] = (indexFile \o indexBuf)[i]
      BY <2>1, PartWritten
    <2> QED BY <1>2, <1>3, <2>2 DEF Positions
  <1>6. m \in Nat /\ n \in Nat
    BY <1>1, <1>2
  <1>7. LogTypes'
    BY <1>0, <1>3, <1>4, <1>5, FlushedContents DEF LogTypes
  <1>8. WordsRight' /\ PositionsRight'
    <2>1. /\ 1 .. Len(blockFile') \subseteq 1 .. Len(Blocks)
          /\ 1 .. Len(indexFile') \subseteq 1 .. Len(Positions)
      BY <1>0, <1>4, <1>5, <1>6
    <2>2. WordsRight'
      BY <2>1, <1>4 DEF LogInv, WordsRight
    <2>3. PositionsRight'
      BY <2>1, <1>5 DEF LogInv, PositionsRight
    <2> QED BY <2>2, <2>3
  <1>9. OpenRight' /\ NothingHeld'
    BY <1>3 DEF OpenRight, NothingHeld
  <1>10. DurableRight'
    <2>1. durable * EntrySize \in Nat
      BY <1>0, SizeType DEF LogTypes
    <2> QED BY <2>1, <1>0, <1>3, <1>4, <1>6 DEF LogInv, DurableRight
  <1> QED BY <1>7, <1>8, <1>9, <1>10 DEF LogInv

LEMMA OpenEmptyInv == ASSUME LogInv, OpenEmpty PROVE LogInv'
  <1>0. LogTypes /\ blockBuf = <<>> /\ indexBuf = <<>> /\ blockFile = <<>> /\ durable \in Nat
    BY DEF LogInv, OpenEmpty, NothingHeld, LogTypes
  <1>1. /\ indexFile' = <<>> /\ indexBuf' = <<>> /\ blockFile' = <<>> /\ blockBuf' = <<>>
        /\ head' = 0 /\ status' = "open" /\ durable' = durable
    BY <1>0 DEF OpenEmpty
  <1>2. Blocks' = <<>> /\ Positions' = <<>> /\ Len(<<>>) = 0
    BY <1>1 DEF Blocks, Positions
  <1>3. durable = 0
    <2>1. durable * EntrySize <= 0
      BY <1>0, <1>2 DEF LogInv, DurableRight
    <2>2. 0 * EntrySize = 0 /\ EntrySize >= 1
      BY SizeType
    <2> QED BY <1>0, <2>1, <2>2, SizeType, Monotone
  <1>4. LogTypes'
    BY <1>1, <1>3, FlushedContents, <1>0 DEF LogTypes
  <1>5. WordsRight' /\ PositionsRight' /\ NothingHeld' /\ DurableRight'
    BY <1>1, <1>2, <1>3, SizeType DEF WordsRight, PositionsRight, NothingHeld, DurableRight
  <1>6. OpenRight'
    BY <1>1, <1>2, <1>3, SizeType DEF OpenRight
  <1> QED BY <1>4, <1>5, <1>6 DEF LogInv

LEMMA OpenTornInv == ASSUME LogInv, OpenTorn PROVE LogInv'
  <1>1. status' = "broken" /\ status = "closed"
        /\ UNCHANGED <<blockFile, blockBuf, indexFile, indexBuf, head, durable>>
    BY DEF OpenTorn
  <1>2. Blocks' = Blocks /\ Positions' = Positions
    BY <1>1 DEF Blocks, Positions
  <1> QED
    BY <1>1, <1>2 DEF LogInv, LogTypes, WordsRight, PositionsRight, OpenRight, DurableRight, NothingHeld

\* A closed log that can be read ends with a whole entry.
LEMMA ReadableEnds ==
  ASSUME LogInv, status = "closed", blockFile # <<>>, Readable
  PROVE  \E b \in Nat : /\ Len(blockFile) = b * EntrySize + EntrySize
                        /\ Last(blockFile).pos = b * EntrySize
                        /\ UnpackAt(blockFile, Last(blockFile).pos) = b + 1
  <1> DEFINE n == Len(blockFile)
  <1>0. LogTypes /\ Blocks = blockFile
    BY FlushedContents DEF LogInv, NothingHeld, Blocks
  <1>1. n \in Nat /\ n >= 1 /\ \A i \in 1 .. n : blockFile[i] = WordAt(i)
    <2>1. n \in Nat \ {0}
      BY <1>0, EmptySeq DEF LogTypes
    <2> QED BY <1>0, <2>1 DEF LogInv, WordsRight
  <1>2. PICK b \in Nat, k \in 1 .. EntrySize : n = b * EntrySize + k
    <2>1. EntrySize >= 1 /\ EntrySize \in Nat
      BY SizeType
    <2> QED BY <1>1, <2>1, Placed
  <1>3. Last(blockFile) = WordAt(n)
    BY <1>1 DEF Last
  <1>4. k = EntrySize
    <2> SUFFICES ASSUME k \in 1 .. Parts PROVE FALSE
      BY <1>2, SizeType
    <2>1. WordAt(n) = Part(b + 1, k)
      BY <1>2, WordAtPlace
    <2> QED BY <2>1, <1>3, WordKinds DEF Readable
  <1>5. Last(blockFile) = Pos(b * EntrySize) /\ Last(blockFile).pos = b * EntrySize
    BY <1>2, <1>3, <1>4, WordAtPlace, WordKinds
  <1>6. \A i \in 1 .. Parts : blockFile[b * EntrySize + i] = Part(b + 1, i)
    <2> SUFFICES ASSUME NEW i \in 1 .. Parts PROVE blockFile[b * EntrySize + i] = Part(b + 1, i)
      OBVIOUS
    <2>1. b * EntrySize + i \in 1 .. n
      BY <1>2, <1>4, SizeType
    <2> QED BY <2>1, <1>1, WordAtPlace
  <1>7. b * EntrySize + Parts <= n
    BY <1>2, <1>4, SizeType
  <1>8. 1 \in 1 .. Parts
    BY BlockLogAssumption
  <1>9. blockFile[b * EntrySize + 1] = Part(b + 1, 1)
    BY <1>6, <1>8
  <1>10. ~IsPos(blockFile[b * EntrySize + 1]) /\ blockFile[b * EntrySize + 1].block = b + 1
    BY <1>9, WordKinds
  <1>11. UnpackAt(blockFile, b * EntrySize) = b + 1
    BY <1>6, <1>7, <1>10 DEF UnpackAt
  <1> QED BY <1>2, <1>4, <1>5, <1>11

\* A rebuilt index has the position of every entry, but none for a single one.
LEMMA ConstructedIndex ==
  ASSUME LogInv, status = "closed", NEW b \in Nat,
         Len(blockFile) = b * EntrySize + EntrySize, Last(blockFile).pos = b * EntrySize
  PROVE  /\ b = 0 => ConstructIndex = <<>>
         /\ b > 0 => ConstructIndex = [k \in 1 .. b + 1 |-> (k - 1) * EntrySize]
  <1> DEFINE n == Len(blockFile)
             end == Last(blockFile).pos
             P(k) == PosWord(k) >= end /\ \A j \in 1 .. k - 1 : PosWord(j) < end
  <1>0. LogTypes /\ Blocks = blockFile
    BY FlushedContents DEF LogInv, NothingHeld, Blocks
  <1>1. \A i \in 1 .. n : blockFile[i] = WordAt(i)
    BY <1>0 DEF LogInv, WordsRight
  <1>2. n \div EntrySize = b + 1
    <2>1. n = (b + 1) * EntrySize + 0 /\ b + 1 \in Nat /\ 0 \in 0 .. EntrySize - 1 /\ EntrySize >= 1 /\ EntrySize \in Nat
      BY SizeType
    <2> QED BY <2>1, DivMod
  <1>3. ASSUME NEW k \in 1 .. b + 1 PROVE PosWord(k) = (k - 1) * EntrySize
    <2>1. k - 1 \in Nat /\ k * EntrySize = (k - 1) * EntrySize + EntrySize
      BY SizeType
    <2>2. k * EntrySize <= (b + 1) * EntrySize /\ k * EntrySize >= 1
      <3>1. k \in Int /\ b + 1 \in Int /\ EntrySize >= 1 /\ EntrySize \in Nat /\ 1 <= k /\ k <= b + 1
        BY SizeType
      <3>2. k * EntrySize <= (b + 1) * EntrySize
        BY <3>1, Monotone
      <3>3. 1 * EntrySize <= k * EntrySize
        BY <3>1, Monotone
      <3> QED BY <3>1, <3>2, <3>3
    <2>3. k * EntrySize \in 1 .. n
      BY <2>1, <2>2, SizeType
    <2>4. blockFile[k * EntrySize] = Pos((k - 1) * EntrySize)
      BY <1>1, <2>1, <2>3, WordAtPlace
    <2> QED BY <2>4, WordKinds DEF PosWord
  <1>4. ASSUME b > 0 PROVE ConstructIndex = [k \in 1 .. b + 1 |-> (k - 1) * EntrySize]
    <2>1. end # 0
      BY <1>4, SizeType, Monotone
    <2>2. \A k \in 1 .. b + 1 : PosWord(k) >= end <=> k = b + 1
      <3> SUFFICES ASSUME NEW k \in 1 .. b + 1 PROVE (k - 1) * EntrySize >= b * EntrySize <=> k = b + 1
        BY <1>3
      <3>1. k - 1 \in Int /\ b \in Int /\ EntrySize >= 1 /\ EntrySize \in Nat
        BY SizeType
      <3>2. b <= k - 1 <=> b * EntrySize <= (k - 1) * EntrySize
        BY <3>1, Monotone
      <3> QED BY <3>1, <3>2
    <2>3. \A k \in 1 .. b + 1 : P(k) <=> k = b + 1
      <3>1. \A k \in 1 .. b + 1 : PosWord(k) \in Int
        BY <1>3, SizeType
      <3>2. end \in Int
        BY SizeType
      <3>3. ASSUME NEW k \in 1 .. b + 1, P(k) PROVE k = b + 1
        BY <3>3, <2>2
      <3>4. P(b + 1)
        <4>1. PosWord(b + 1) >= end
          BY <2>2
        <4>2. \A j \in 1 .. b + 1 - 1 : j \in 1 .. b + 1 /\ j # b + 1
          OBVIOUS
        <4>3. \A j \in 1 .. b + 1 - 1 : PosWord(j) < end
          BY <4>2, <2>2, <3>1, <3>2
        <4> QED BY <4>1, <4>3
      <3> QED BY <3>3, <3>4
    <2> HIDE DEF P
    <2>4. (CHOOSE k \in 1 .. b + 1 : P(k)) = b + 1
      BY <2>3
    <2>5. ConstructIndex = [k \in 1 .. b + 1 |-> PosWord(k)]
      BY <2>1, <2>4, <1>2 DEF ConstructIndex, P
    <2> QED BY <2>5, <1>3
  <1>5. ASSUME b = 0 PROVE ConstructIndex = <<>>
    <2>1. end = 0
      BY <1>5, SizeType
    <2>2. ConstructIndex = [k \in 1 .. 0 |-> PosWord(k)]
      BY <2>1 DEF ConstructIndex
    <2> QED BY <2>2
  <1> QED BY <1>4, <1>5

LEMMA OpenLogInv == ASSUME LogInv, OpenLog PROVE LogInv'
  <1>0. LogTypes /\ status = "closed" /\ blockBuf = <<>> /\ indexBuf = <<>> /\ Blocks = blockFile
        /\ Positions = indexFile /\ durable \in Nat /\ blockFile # <<>> /\ Readable
    BY FlushedContents DEF LogInv, OpenLog, NothingHeld, LogTypes, Blocks, Positions
  <1>1. PICK b \in Nat : /\ Len(blockFile) = b * EntrySize + EntrySize
                         /\ Last(blockFile).pos = b * EntrySize
                         /\ UnpackAt(blockFile, Last(blockFile).pos) = b + 1
    BY <1>0, ReadableEnds
  <1>2. head' = b + 1 /\ status' = "open" /\ UNCHANGED <<blockFile, blockBuf, durable>>
    BY <1>1 DEF OpenLog
  <1>3. Blocks' = Blocks /\ Len(Blocks') = (b + 1) * EntrySize
    BY <1>0, <1>1, <1>2, SizeType DEF Blocks
  <1>4. durable <= b + 1
    <2>1. durable * EntrySize <= (b + 1) * EntrySize
      BY <1>0, <1>1, SizeType DEF LogInv, DurableRight
    <2> QED BY <2>1, <1>0, SizeType, Monotone
  <1>5. /\ indexFile' \in Seq(Nat) /\ indexBuf' \in Seq(Nat) /\ PositionsRight'
        /\ (Len(Positions') = b + 1 \/ (b = 0 /\ Len(Positions') = 0))
    <2>1. CASE IndexUsable
      <3>1. UNCHANGED <<indexFile, indexBuf>>
        BY <2>1 DEF OpenLog
      <3>2. Positions' = indexFile
        BY <3>1, <1>0 DEF Positions
      <3>3. Len(indexFile) \in Nat \ {0} /\ Last(indexFile) = indexFile[Len(indexFile)]
        BY <2>1, <1>0, EmptySeq DEF LogTypes, IndexUsable, Last
      <3>4. Last(indexFile) = (Len(indexFile) - 1) * EntrySize
        BY <1>0, <3>3 DEF LogInv, PositionsRight
      <3>5. (Len(indexFile) - 1) * EntrySize = b * EntrySize
        BY <2>1, <3>4, <1>1 DEF IndexUsable
      <3>6. Len(indexFile) - 1 = b
        <4>1. Len(indexFile) - 1 \in Int /\ b \in Int /\ EntrySize \in Nat /\ EntrySize >= 1
          BY <3>3, SizeType
        <4> QED BY <4>1, <3>5, Monotone
      <3>7. Positions' = Positions /\ Len(Positions') = b + 1
        BY <3>2, <3>3, <3>6, <1>0
      <3>8. PositionsRight'
        BY <3>7 DEF LogInv, PositionsRight
      <3> QED BY <3>1, <3>7, <3>8, <1>0 DEF LogTypes
    <2>2. CASE ~IndexUsable
      <3>1. indexFile' = <<>> /\ indexBuf' = ConstructIndex
        BY <2>2 DEF OpenLog
      <3>2. ConstructIndex \in Seq(Nat) /\ (Len(ConstructIndex) = b + 1 \/ (b = 0 /\ Len(ConstructIndex) = 0))
            /\ \A i \in 1 .. Len(ConstructIndex) : ConstructIndex[i] = (i - 1) * EntrySize
        <4>1. CASE b = 0
          <5>1. ConstructIndex = <<>>
            BY <4>1, <1>0, <1>1, ConstructedIndex
          <5> QED BY <5>1, <4>1
        <4>2. CASE b > 0
          <5>1. ConstructIndex = [k \in 1 .. b + 1 |-> (k - 1) * EntrySize]
            BY <4>2, <1>0, <1>1, ConstructedIndex
          <5>2. \A k \in 1 .. b + 1 : (k - 1) * EntrySize \in Nat
            BY SizeType
          <5>3. ConstructIndex \in Seq(Nat) /\ Len(ConstructIndex) = b + 1
            BY <5>1, <5>2
          <5>4. \A i \in 1 .. b + 1 : ConstructIndex[i] = (i - 1) * EntrySize
            BY <5>1
          <5> QED BY <5>3, <5>4
        <4> QED BY <4>1, <4>2
      <3>3. Positions' = ConstructIndex
        BY <3>1, <3>2, ConcatEmptySeq DEF Positions
      <3> QED BY <3>1, <3>2, <3>3 DEF PositionsRight
    <2> QED BY <2>1, <2>2
  <1>6. LogTypes'
    BY <1>0, <1>2, <1>5 DEF LogTypes
  <1>7. WordsRight' /\ DurableRight' /\ NothingHeld'
    BY <1>2, <1>3 DEF LogInv, WordsRight, DurableRight, NothingHeld
  <1>8. OpenRight'
    <2>1. IndexTell' = Len(Positions')
      <3>1. Len(indexFile' \o indexBuf') = Len(indexFile') + Len(indexBuf')
        BY <1>5, ConcatProperties
      <3> QED BY <3>1 DEF IndexTell, Positions
    <2> QED BY <2>1, <1>2, <1>3, <1>4, <1>5 DEF OpenRight, OneBlockUnindexed
  <1> QED BY <1>5, <1>6, <1>7, <1>8 DEF LogInv

-----------------------------------------------------------------------------
LEMMA LogNextInv == ASSUME LogInv, [BlockLogNext]_logVars PROVE LogInv'
  <1>1. CASE UNCHANGED logVars
    <2>1. UNCHANGED <<blockFile, blockBuf, indexFile, indexBuf, head, status, durable>>
      BY <1>1 DEF logVars
    <2>2. Blocks' = Blocks /\ Positions' = Positions /\ LogTypes' /\ NothingHeld'
      BY <2>1 DEF LogInv, LogTypes, NothingHeld, Blocks, Positions
    <2>3. Len(blockFile') >= Len(blockFile)
      BY <2>1, Contents DEF LogInv
    <2> QED BY <2>1, <2>2, <2>3, SameContents
  <1> QED
    BY <1>1, AppendInv, FlushInv, CloseInv, CrashInv, ReadInv, OpenEmptyInv, OpenLogInv, OpenTornInv
       DEF BlockLogNext

LEMMA InvImpliesSound == ASSUME LogInv PROVE LogSound
  <1>0. LogTypes /\ IndexTell = Len(Positions) /\ head \in Nat
    BY Contents DEF LogInv, LogTypes
  <1>1. NeverRefusesAppend /\ FlushedBlocksStay
    BY <1>0 DEF LogInv, OpenRight, NeverRefusesAppend, FlushedBlocksStay, Appendable, LogTypes
  <1>2. EveryBlockReadable
    <2> SUFFICES ASSUME status = "open", ~OneBlockUnindexed, NEW n \in 1 .. head PROVE BlockByNum(n) = n
      BY DEF EveryBlockReadable
    <2> DEFINE b == n - 1
    <2>1. Len(Positions) = head /\ Len(Blocks) = head * EntrySize
      BY DEF LogInv, OpenRight
    <2>2. Positions[n] = b * EntrySize /\ b \in Nat
      BY <2>1, <1>0 DEF LogInv, PositionsRight
    <2>3. BlockByNum(n) = UnpackAt(Blocks, b * EntrySize)
      BY <2>1, <2>2, <1>0 DEF BlockByNum, Positions, Blocks
    <2>4. n * EntrySize <= head * EntrySize /\ n * EntrySize = b * EntrySize + EntrySize
      <3>1. n \in Int /\ head \in Int /\ EntrySize >= 1 /\ EntrySize \in Nat /\ n <= head
        BY <1>0, SizeType
      <3> QED BY <3>1, Monotone
    <2>5. \A i \in 1 .. Parts : Blocks[b * EntrySize + i] = Part(n, i)
      <3> SUFFICES ASSUME NEW i \in 1 .. Parts PROVE Blocks[b * EntrySize + i] = Part(b + 1, i)
        BY <2>2
      <3>1. b * EntrySize + i \in 1 .. Len(Blocks)
        BY <2>1, <2>2, <2>4, <1>0, SizeType
      <3> QED BY <3>1, <2>2, WordAtPlace DEF LogInv, WordsRight
    <2>6. b * EntrySize + Parts <= Len(Blocks)
      BY <2>1, <2>2, <2>4, <1>0, SizeType
    <2>7. 1 \in 1 .. Parts
      BY BlockLogAssumption
    <2>8. ~IsPos(Blocks[b * EntrySize + 1]) /\ Blocks[b * EntrySize + 1].block = n
      BY <2>5, <2>7, WordKinds
    <2>9. UnpackAt(Blocks, b * EntrySize) = n
      BY <2>5, <2>6, <2>8 DEF UnpackAt
    <2> QED BY <2>3, <2>9
  <1> QED BY <1>1, <1>2 DEF LogSound

\* For every number of blocks, size of an entry and initial log: through any appends,
\* flushes, reads, closings and crashes at any point, an open log (block_log::open) has
\* every block that was flushed, block_log::read_block_by_num returns block n for n, and
\* append finds its place in the index, a log of one block excepted whose rebuilt index
\* is empty (construct_index).
THEOREM LogAlwaysSound == BlockLogSpec => []LogSound
  <1>1. BlockLogInit => LogInv
    BY LogInitInv
  <1>2. LogInv /\ [BlockLogNext]_logVars => LogInv'
    BY LogNextInv
  <1>3. LogInv => LogSound
    BY InvImpliesSound
  <1> QED BY <1>1, <1>2, <1>3, PTL DEF BlockLogSpec

-----------------------------------------------------------------------------
(***************************************************************************)
(* Votes for witnesses: chains of proxies.                                 *)
(***************************************************************************)
Ends == Voters \cup {Self}

\* The function Above is defined by.
Chain(t, a, n) ==
    CHOOSE up : up = [k \in 0..n |-> IF k = 0 THEN a ELSE IF up[k - 1] = Self THEN Self ELSE t.proxy[up[k - 1]]]

LEMMA ChainSteps ==
  ASSUME NEW t, t.proxy \in [Voters -> Ends], NEW a \in Voters, NEW n \in Nat
  PROVE  LET up == Chain(t, a, n)
         IN  /\ up = [k \in 0..n |-> IF k = 0 THEN a ELSE IF up[k - 1] = Self THEN Self ELSE t.proxy[up[k - 1]]]
             /\ Above(t, a, n) = up[n]
  <1> DEFINE go == [x \in Ends |-> IF x = Self THEN Self ELSE t.proxy[x]]
             F == [k \in 1..n |-> go]
  <1>1. go \in [Ends -> Ends] /\ a \in Ends /\ \A x \in Ends : go[x] = IF x = Self THEN Self ELSE t.proxy[x]
    BY DEF Ends
  <1>2. Steps(F, n, Ends) /\ \A k \in 1..n : F[k] = go
    BY <1>1 DEF Steps
  <1> HIDE DEF go, F
  <1>3. PICK g : Iterates(g, a, F, n, Ends)
    BY <1>1, <1>2, RecursionExists
  <1>4. g \in [0..n -> Ends] /\ g[0] = a /\ \A k \in 1..n : g[k] = F[k][g[k - 1]]
    BY <1>3 DEF Iterates
  <1>5. g = [k \in 0..n |-> IF k = 0 THEN a ELSE IF g[k - 1] = Self THEN Self ELSE t.proxy[g[k - 1]]]
    <2>1. ASSUME NEW k \in 0..n
          PROVE  g[k] = IF k = 0 THEN a ELSE IF g[k - 1] = Self THEN Self ELSE t.proxy[g[k - 1]]
      <3>1. CASE k = 0
        BY <1>4, <3>1
      <3>2. CASE k # 0
        <4>1. k \in 1..n /\ k - 1 \in 0..n
          BY <3>2
        <4>2. g[k - 1] \in Ends /\ g[k] = go[g[k - 1]]
          BY <1>2, <1>4, <4>1
        <4> QED BY <1>1, <3>2, <4>2
      <3> QED BY <3>1, <3>2
    <2> QED BY <1>4, <2>1
  <1> QED BY <1>5 DEF Chain, Above

LEMMA ChainValues ==
  ASSUME NEW t, t.proxy \in [Voters -> Ends], NEW a \in Voters, NEW n \in Nat
  PROVE  /\ Chain(t, a, n)[0] = a /\ Above(t, a, n) = Chain(t, a, n)[n]
         /\ \A k \in 1..n : Chain(t, a, n)[k] = IF Chain(t, a, n)[k - 1] = Self THEN Self ELSE t.proxy[Chain(t, a, n)[k - 1]]
  <1> DEFINE up == Chain(t, a, n)
  <1>1. up = [k \in 0..n |-> IF k = 0 THEN a ELSE IF up[k - 1] = Self THEN Self ELSE t.proxy[up[k - 1]]]
        /\ Above(t, a, n) = up[n]
    BY ChainSteps
  <1> HIDE DEF up
  <1>2. \A k \in 0..n : up[k] = IF k = 0 THEN a ELSE IF up[k - 1] = Self THEN Self ELSE t.proxy[up[k - 1]]
    BY <1>1
  <1> QED BY <1>1, <1>2 DEF up

\* Above goes one step up at a time.
LEMMA AboveSteps ==
  ASSUME NEW t, t.proxy \in [Voters -> Ends], NEW a \in Voters
  PROVE  /\ Above(t, a, 0) = a
         /\ \A n \in Nat : /\ Above(t, a, n) \in Ends
                           /\ Above(t, a, n + 1) = IF Above(t, a, n) = Self THEN Self ELSE t.proxy[Above(t, a, n)]
  <1>1. ASSUME NEW n \in Nat PROVE \A k \in 0..n : Chain(t, a, n)[k] = Chain(t, a, n + 1)[k]
    <2> DEFINE G == {k \in Nat : k <= n => Chain(t, a, n)[k] = Chain(t, a, n + 1)[k]}
    <2>1. 0 \in G
      BY ChainValues
    <2>2. ASSUME NEW k \in Nat, k \in G PROVE k + 1 \in G
      <3>1. SUFFICES ASSUME k + 1 <= n PROVE Chain(t, a, n)[k + 1] = Chain(t, a, n + 1)[k + 1]
        OBVIOUS
      <3>2. k + 1 \in 1..n /\ k + 1 \in 1..n + 1 /\ n + 1 \in Nat /\ (k + 1) - 1 = k
        BY <3>1
      <3>3. Chain(t, a, n)[k] = Chain(t, a, n + 1)[k]
        BY <2>2, <3>1
      <3> QED BY <3>2, <3>3, ChainValues
    <2> HIDE DEF G
    <2>3. Nat \subseteq G
      BY <2>1, <2>2, NatSetInduction
    <2> QED BY <2>3 DEF G
  <1>2. Above(t, a, 0) = a
    BY ChainValues
  <1>3. ASSUME NEW n \in Nat
        PROVE  Above(t, a, n + 1) = IF Above(t, a, n) = Self THEN Self ELSE t.proxy[Above(t, a, n)]
    <2>1. n + 1 \in Nat /\ n + 1 \in 1..n + 1 /\ (n + 1) - 1 = n /\ n \in 0..n
      OBVIOUS
    <2>2. Chain(t, a, n)[n] = Chain(t, a, n + 1)[n]
      BY <1>1, <2>1
    <2>3. Above(t, a, n) = Chain(t, a, n)[n] /\ Above(t, a, n + 1) = Chain(t, a, n + 1)[n + 1]
      BY <2>1, ChainValues
    <2>4. Chain(t, a, n + 1)[n + 1] = IF Chain(t, a, n + 1)[n] = Self THEN Self ELSE t.proxy[Chain(t, a, n + 1)[n]]
      <3> DEFINE m == n + 1
      <3>1. m \in Nat /\ m \in 1..m /\ m - 1 = n
        OBVIOUS
      <3> HIDE DEF m
      <3>2. Chain(t, a, m)[m] = IF Chain(t, a, m)[m - 1] = Self THEN Self ELSE t.proxy[Chain(t, a, m)[m - 1]]
        <4>1. \A k \in 1..m : Chain(t, a, m)[k] = IF Chain(t, a, m)[k - 1] = Self THEN Self ELSE t.proxy[Chain(t, a, m)[k - 1]]
          BY <3>1, ChainValues
        <4> QED BY <3>1, <4>1
      <3> QED BY <3>1, <3>2 DEF m
    <2> QED BY <2>2, <2>3, <2>4
  <1> DEFINE G == {n \in Nat : Above(t, a, n) \in Ends}
  <1>4. 0 \in G
    BY <1>2 DEF Ends
  <1>5. ASSUME NEW n \in Nat, n \in G PROVE n + 1 \in G
    <2>1. Above(t, a, n) \in Ends /\ n + 1 \in Nat
      BY <1>5
    <2>2. Above(t, a, n + 1) \in Ends
      BY <1>3, <2>1 DEF Ends
    <2> QED BY <2>1, <2>2
  <1> HIDE DEF G
  <1>6. Nat \subseteq G
    BY <1>4, <1>5, NatSetInduction
  <1> QED BY <1>2, <1>3, <1>6 DEF G

LEMMA AboveAdd ==
  ASSUME NEW t, t.proxy \in [Voters -> Ends], NEW a \in Voters, NEW m \in Nat, NEW n \in Nat
  PROVE  Above(t, a, m + n) = IF Above(t, a, m) = Self THEN Self ELSE Above(t, Above(t, a, m), n)
  <1> DEFINE x == Above(t, a, m)
             G == {k \in Nat : Above(t, a, m + k) = IF x = Self THEN Self ELSE Above(t, x, k)}
  <1>0. x \in Ends
    BY AboveSteps
  <1>1. 0 \in G
    <2>1. m + 0 = m
      OBVIOUS
    <2>2. x # Self => x \in Voters /\ Above(t, x, 0) = x
      BY <1>0, AboveSteps DEF Ends
    <2> QED BY <2>1, <2>2
  <1>2. ASSUME NEW k \in Nat, k \in G PROVE k + 1 \in G
    <2>1. m + k \in Nat /\ m + (k + 1) = (m + k) + 1 /\ k + 1 \in Nat
      OBVIOUS
    <2>2. Above(t, a, (m + k) + 1) = IF Above(t, a, m + k) = Self THEN Self ELSE t.proxy[Above(t, a, m + k)]
      BY <2>1, AboveSteps
    <2>3. Above(t, a, m + k) = IF x = Self THEN Self ELSE Above(t, x, k)
      BY <1>2
    <2>4. x # Self => Above(t, x, k + 1) = IF Above(t, x, k) = Self THEN Self ELSE t.proxy[Above(t, x, k)]
      BY <1>0, AboveSteps DEF Ends
    <2> HIDE DEF x
    <2>5. Above(t, a, m + (k + 1)) = IF x = Self THEN Self ELSE Above(t, x, k + 1)
      BY <2>1, <2>2, <2>3, <2>4
    <2> QED BY <2>1, <2>5
  <1> HIDE DEF G
  <1>3. Nat \subseteq G
    BY <1>1, <1>2, NatSetInduction
  <1> QED BY <1>3 DEF G, x

\* The length of each chain, one more than that of the account above.
Ranked(t, L) ==
    /\ L \in [Voters -> Nat]
    /\ \A b \in Voters : IF t.proxy[b] = Self THEN L[b] = 0 ELSE L[b] = L[t.proxy[b]] + 1

LEMMA RankAbove ==
  ASSUME NEW t, t.proxy \in [Voters -> Ends], NEW L, Ranked(t, L), NEW a \in Voters
  PROVE  \A n \in Nat : /\ Above(t, a, n) # Self <=> n <= L[a]
                        /\ n <= L[a] => Above(t, a, n) \in Voters /\ L[Above(t, a, n)] = L[a] - n
  <1> DEFINE x(n) == Above(t, a, n)
             G == {n \in Nat : /\ x(n) # Self <=> n <= L[a]
                               /\ n <= L[a] => x(n) \in Voters /\ L[x(n)] = L[a] - n}
  <1>0. L \in [Voters -> Nat] /\ L[a] \in Nat
    BY DEF Ranked
  <1>1. 0 \in G
    BY <1>0, AboveSteps, SelfAssumption
  <1>2. ASSUME NEW n \in Nat, n \in G PROVE n + 1 \in G
    <2>1. x(n + 1) = IF x(n) = Self THEN Self ELSE t.proxy[x(n)]
      BY AboveSteps
    <2>2. x(n) \in Ends /\ x(n + 1) \in Ends /\ n + 1 \in Nat
      BY AboveSteps
    <2> HIDE DEF x
    <2>3. CASE n <= L[a]
      <3>1. x(n) # Self /\ x(n) \in Voters /\ L[x(n)] = L[a] - n
        BY <1>2, <2>3
      <3>2. IF t.proxy[x(n)] = Self THEN L[x(n)] = 0 ELSE L[x(n)] = L[t.proxy[x(n)]] + 1
        BY <3>1 DEF Ranked
      <3>3. CASE x(n + 1) = Self
        <4>1. L[a] = n
          BY <1>0, <2>1, <3>1, <3>2, <3>3
        <4> QED BY <2>2, <3>3, <4>1
      <3>4. CASE x(n + 1) # Self
        <4>1. x(n + 1) \in Voters /\ L[x(n + 1)] \in Nat
          BY <1>0, <2>2, <3>4 DEF Ends
        <4>2. L[x(n)] = L[x(n + 1)] + 1
          BY <2>1, <3>1, <3>2, <3>4
        <4>3. n + 1 <= L[a] /\ L[x(n + 1)] = L[a] - (n + 1)
          BY <1>0, <3>1, <4>1, <4>2
        <4> QED BY <2>2, <3>4, <4>1, <4>3
      <3> QED BY <3>3, <3>4
    <2>4. CASE ~(n <= L[a])
      <3>1. x(n) = Self /\ ~(n + 1 <= L[a])
        BY <1>0, <1>2, <2>4
      <3> QED BY <2>1, <2>2, <3>1
    <2> QED BY <2>3, <2>4
  <1> HIDE DEF G
  <1>3. Nat \subseteq G
    BY <1>1, <1>2, NatSetInduction
  <1> QED BY <1>3 DEF G

LEMMA VotersFacts ==
  /\ IsFiniteSet(Voters) /\ Cardinality(Voters) \in Nat /\ IsFiniteSet(Candidates)
  /\ ProxyDepth \in Nat /\ ProxyDepth >= 1 /\ IsFiniteSet(Distance)
  /\ \A m, n \in Int : IsFiniteSet(m..n)
  <1>1. \A m, n \in Int : IsFiniteSet(m..n)
    BY FS_Interval
  <1> QED BY <1>1, WitnessVotesAssumption, FS_CardinalityType DEF Distance

\* No chain is as long as there are accounts.
LEMMA RankBounded ==
  ASSUME NEW t, t.proxy \in [Voters -> Ends], NEW L, Ranked(t, L), NEW a \in Voters
  PROVE  /\ L[a] \in Nat /\ L[a] < Cardinality(Voters)
         /\ ChainLength(t, a) = L[a]
  <1> DEFINE f == [n \in 0..L[a] |-> Above(t, a, n)]
             N == Cardinality(Voters)
  <1>0. L[a] \in Nat /\ N \in Nat
    BY VotersFacts DEF Ranked
  <1>1. \A n \in 0..L[a] : f[n] \in Voters /\ L[f[n]] = L[a] - n
    BY <1>0, RankAbove
  <1>2. f \in [0..L[a] -> Voters]
    BY <1>1
  <1>3. \A m, n \in 0..L[a] : f[m] = f[n] => m = n
    <2> SUFFICES ASSUME NEW m \in 0..L[a], NEW n \in 0..L[a], f[m] = f[n] PROVE m = n
      OBVIOUS
    <2>1. L[a] - m = L[a] - n
      BY <1>1
    <2> QED BY <1>0, <2>1
  <1> HIDE DEF f
  <1>4. f \in Injection(0..L[a], Voters)
    BY <1>2, <1>3 DEF Injection, IsInjective
  <1>5. Cardinality(0..L[a]) <= N
    BY <1>4, VotersFacts, FS_Injection
  <1>6. Cardinality(0..L[a]) = L[a] + 1
    BY <1>0, IntervalSize
  <1>7. L[a] < N
    BY <1>0, <1>5, <1>6
  <1>8. {n \in 1..N : Above(t, a, n) # Self} = 1..L[a]
    <2>1. \A n \in 1..N : Above(t, a, n) # Self <=> n <= L[a]
      BY <1>0, RankAbove
    <2> QED BY <1>0, <1>7, <2>1
  <1>9. Cardinality(1..L[a]) = L[a]
    BY <1>0, IntervalSize
  <1> QED BY <1>0, <1>7, <1>8, <1>9 DEF ChainLength

\* An account is at one distance above another only.
LEMMA OneDistance ==
  ASSUME NEW t, t.proxy \in [Voters -> Ends], NEW L, Ranked(t, L), NEW a \in Voters, NEW q \in Voters,
         NEW m \in Nat, NEW n \in Nat, Above(t, a, m) = q, Above(t, a, n) = q
  PROVE  m = n
  <1>1. L[a] \in Nat /\ q # Self
    BY SelfAssumption DEF Ranked
  <1>2. m <= L[a] /\ n <= L[a]
    BY <1>1, RankAbove
  <1>3. L[q] = L[a] - m /\ L[q] = L[a] - n
    BY <1>2, RankAbove
  <1> QED BY <1>1, <1>3

(***************************************************************************)
(* The same chains with one account's proxy taken away.                    *)
(***************************************************************************)
Apart(g, f, a) ==
    /\ g.proxy \in [Voters -> Ends] /\ f.proxy \in [Voters -> Ends] /\ f.proxy[a] = Self
    /\ \A b \in Voters \ {a} : f.proxy[b] = g.proxy[b]

LEMMA AboveApart ==
  ASSUME NEW g, NEW f, NEW a \in Voters, Apart(g, f, a), NEW b \in Voters, NEW n \in Nat
  PROVE  Above(f, b, n) = IF \E i \in 0..n - 1 : Above(g, b, i) = a THEN Self ELSE Above(g, b, n)
  <1> DEFINE Cut(k) == \E i \in 0..k - 1 : Above(g, b, i) = a
             G == {k \in Nat : Above(f, b, k) = IF Cut(k) THEN Self ELSE Above(g, b, k)}
  <1>0. g.proxy \in [Voters -> Ends] /\ f.proxy \in [Voters -> Ends] /\ f.proxy[a] = Self
        /\ (\A c \in Voters \ {a} : f.proxy[c] = g.proxy[c])
    BY DEF Apart
  <1>1. 0 \in G
    BY <1>0, AboveSteps
  <1>2. ASSUME NEW k \in Nat, k \in G PROVE k + 1 \in G
    <2>0. k + 1 \in Nat
      OBVIOUS
    <2>1. Above(f, b, k + 1) = IF Above(f, b, k) = Self THEN Self ELSE f.proxy[Above(f, b, k)]
      BY <1>0, AboveSteps
    <2>2. Above(g, b, k + 1) = IF Above(g, b, k) = Self THEN Self ELSE g.proxy[Above(g, b, k)]
      BY <1>0, AboveSteps
    <2>3. Above(f, b, k) = IF Cut(k) THEN Self ELSE Above(g, b, k)
      BY <1>2
    <2>4. Cut(k + 1) <=> Cut(k) \/ Above(g, b, k) = a
      <3>1. \A i \in Nat : i \in 0..(k + 1) - 1 <=> i \in 0..k - 1 \/ i = k
        OBVIOUS
      <3> QED BY <3>1
    <2>5. Above(g, b, k) \in Ends /\ a # Self
      BY <1>0, AboveSteps, SelfAssumption
    <2> HIDE DEF Cut
    <2>6. Above(f, b, k + 1) = IF Cut(k + 1) THEN Self ELSE Above(g, b, k + 1)
      <3>1. CASE Cut(k)
        BY <2>1, <2>3, <2>4, <3>1
      <3>2. CASE ~Cut(k) /\ Above(g, b, k) = a
        BY <1>0, <2>1, <2>3, <2>4, <2>5, <3>2
      <3>3. CASE ~Cut(k) /\ Above(g, b, k) # a
        BY <1>0, <2>1, <2>2, <2>3, <2>4, <2>5, <3>3 DEF Ends
      <3> QED BY <3>1, <3>2, <3>3
    <2> QED BY <2>0, <2>6
  <1> HIDE DEF G
  <1>3. Nat \subseteq G
    BY <1>1, <1>2, NatSetInduction
  <1>4. n \in G
    BY <1>3
  <1> QED BY <1>4 DEF G

\* The accounts n steps below another, and their scorumpower.
Below(t, q, n) == {b \in Voters : Above(t, b, n) = q}
SumAt(t, q, n) == SumFunctionOnSet(t.power, Below(t, q, n))

\* Below the account nothing changes.
LEMMA BelowApart ==
  ASSUME NEW g, NEW f, NEW a \in Voters, Apart(g, f, a), NEW L, Ranked(g, L), NEW n \in Nat
  PROVE  Below(f, a, n) = Below(g, a, n)
  <1>1. ASSUME NEW b \in Voters PROVE Above(f, b, n) = a <=> Above(g, b, n) = a
    <2>1. Above(f, b, n) = IF \E i \in 0..n - 1 : Above(g, b, i) = a THEN Self ELSE Above(g, b, n)
      BY AboveApart
    <2>2. a # Self
      BY SelfAssumption
    <2>3. ASSUME Above(g, b, n) = a, NEW i \in 0..n - 1, Above(g, b, i) = a PROVE FALSE
      <3>1. i = n
        BY <2>3, OneDistance DEF Apart
      <3> QED BY <3>1
    <2> QED BY <2>1, <2>2, <2>3
  <1> QED BY <1>1 DEF Below

\* Farther up an account loses those that reach it through the one that left.
LEMMA SumsApart ==
  ASSUME NEW g, NEW f, NEW a \in Voters, Apart(g, f, a), NEW L, Ranked(g, L),
         g.power \in [Voters -> Nat], f.power = g.power, NEW q \in Voters, NEW d \in Nat
  PROVE  /\ \A n \in 1..d + 1 : Above(g, a, n) = q =>
               SumAt(g, q, d + 1) = SumAt(f, q, d + 1) + SumAt(g, a, d + 1 - n)
         /\ (\A n \in 1..d + 1 : Above(g, a, n) # q) => SumAt(g, q, d + 1) = SumAt(f, q, d + 1)
  <1> DEFINE S == Below(g, q, d + 1)
             R == {b \in S : \E i \in 0..d : Above(g, b, i) = a}
  <1>0. g.proxy \in [Voters -> Ends] /\ q # Self /\ a # Self /\ d + 1 \in Nat /\ (d + 1) - 1 = d
    BY SelfAssumption DEF Apart
  <1>1. Below(f, q, d + 1) = S \ R
    <2>1. \A b \in Voters : Above(f, b, d + 1) = IF \E i \in 0..d : Above(g, b, i) = a THEN Self ELSE Above(g, b, d + 1)
      <3> SUFFICES ASSUME NEW b \in Voters
                   PROVE  Above(f, b, d + 1) = IF \E i \in 0..d : Above(g, b, i) = a THEN Self ELSE Above(g, b, d + 1)
        OBVIOUS
      <3>1. Above(f, b, d + 1) = IF \E i \in 0..(d + 1) - 1 : Above(g, b, i) = a THEN Self ELSE Above(g, b, d + 1)
        BY <1>0, AboveApart
      <3> QED BY <1>0, <3>1
    <2> QED BY <1>0, <2>1 DEF Below
  <1>2. SumFunctionOnSet(g.power, S) = SumFunctionOnSet(g.power, S \ R) + SumFunctionOnSet(g.power, R)
    <2>1. IsFiniteSet(S) /\ R \in SUBSET S /\ \A x \in S : g.power[x] \in Int
      <3>1. S \in SUBSET Voters
        BY DEF Below
      <3> HIDE DEF S
      <3> QED BY <3>1, VotersFacts, FS_Subset
    <2> HIDE DEF S, R
    <2> QED BY <2>1, SumSplit
  <1>3. ASSUME NEW b \in Voters, NEW i \in 0..d, Above(g, b, i) = a
        PROVE  Above(g, b, d + 1) = Above(g, a, d + 1 - i) /\ d + 1 - i \in 1..d + 1
    <2>1. i \in Nat /\ d + 1 - i \in Nat /\ i + (d + 1 - i) = d + 1 /\ d + 1 - i \in 1..d + 1
      OBVIOUS
    <2> DEFINE j == d + 1 - i
    <2> HIDE DEF j
    <2>2. j \in Nat /\ i + j = d + 1
      BY <2>1 DEF j
    <2>3. Above(g, b, i + j) = Above(g, a, j)
      BY <1>0, <1>3, <2>1, <2>2, AboveAdd
    <2> QED BY <2>1, <2>2, <2>3 DEF j
  <1>4. ASSUME NEW n \in 1..d + 1, Above(g, a, n) = q PROVE R = Below(g, a, d + 1 - n)
    <2>1. ASSUME NEW b \in R PROVE b \in Below(g, a, d + 1 - n)
      <3>1. PICK i \in 0..d : Above(g, b, i) = a
        OBVIOUS
      <3>2. b \in Voters /\ Above(g, b, d + 1) = q
        BY DEF Below
      <3>3. Above(g, a, d + 1 - i) = q /\ d + 1 - i \in Nat /\ n \in Nat
        BY <1>3, <3>1, <3>2
      <3>4. n = d + 1 - i
        BY <1>0, <1>4, <3>3, OneDistance
      <3>5. i = d + 1 - n
        BY <3>4
      <3> QED BY <3>1, <3>2, <3>5 DEF Below
    <2>2. ASSUME NEW b \in Below(g, a, d + 1 - n) PROVE b \in R
      <3>1. b \in Voters /\ d + 1 - n \in 0..d /\ Above(g, b, d + 1 - n) = a
        BY DEF Below
      <3> DEFINE i == d + 1 - n
      <3>2. d + 1 - i = n /\ i \in 0..d
        OBVIOUS
      <3> HIDE DEF i
      <3>3. Above(g, b, i) = a
        BY <3>1 DEF i
      <3>4. Above(g, b, d + 1) = q
        BY <1>3, <1>4, <3>1, <3>2, <3>3
      <3> QED BY <3>1, <3>2, <3>3, <3>4 DEF Below
    <2> QED BY <2>1, <2>2
  <1>5. (\A n \in 1..d + 1 : Above(g, a, n) # q) => R = {}
    <2> SUFFICES ASSUME \A n \in 1..d + 1 : Above(g, a, n) # q, NEW b \in R PROVE FALSE
      OBVIOUS
    <2>1. PICK i \in 0..d : Above(g, b, i) = a
      OBVIOUS
    <2>2. b \in Voters /\ Above(g, b, d + 1) = q
      BY DEF Below
    <2> QED BY <1>3, <2>1, <2>2
  <1> HIDE DEF S, R
  <1>6. SumFunctionOnSet(g.power, S) \in Int /\ SumFunctionOnSet(g.power, S \ R) \in Int
    <2>1. S \in SUBSET Voters /\ S \ R \in SUBSET Voters
      BY DEF S, Below
    <2>2. IsFiniteSet(S) /\ IsFiniteSet(S \ R)
      BY <2>1, VotersFacts, FS_Subset
    <2> QED BY <2>1, <2>2, SumInteger
  <1>7. SumAt(g, q, d + 1) = SumFunctionOnSet(g.power, S) /\ SumAt(f, q, d + 1) = SumFunctionOnSet(g.power, S \ R)
    BY <1>1 DEF SumAt, S
  <1>8. (\A n \in 1..d + 1 : Above(g, a, n) # q) => SumAt(g, q, d + 1) = SumAt(f, q, d + 1)
    BY <1>2, <1>5, <1>6, <1>7, SumEmpty
  <1>9. ASSUME NEW n \in 1..d + 1, Above(g, a, n) = q
        PROVE  SumAt(g, q, d + 1) = SumAt(f, q, d + 1) + SumAt(g, a, d + 1 - n)
    BY <1>2, <1>4, <1>7, <1>9 DEF SumAt
  <1> QED BY <1>8, <1>9

Leads(t, b, a) == \E n \in Nat : Above(t, b, n) = a

LEMMA LeadsStep ==
  ASSUME NEW t, t.proxy \in [Voters -> Ends], NEW a \in Voters, NEW b \in Voters, b # a
  PROVE  Leads(t, b, a) <=> t.proxy[b] # Self /\ Leads(t, t.proxy[b], a)
  <1>0. a # Self /\ Above(t, b, 0) = b
    BY SelfAssumption, AboveSteps
  <1>1. Above(t, b, 1) = t.proxy[b]
    <2>1. Above(t, b, 0 + 1) = IF Above(t, b, 0) = Self THEN Self ELSE t.proxy[Above(t, b, 0)]
      BY AboveSteps
    <2>2. b # Self /\ 0 + 1 = 1
      BY SelfAssumption
    <2> QED BY <1>0, <2>1, <2>2
  <1>2. \A n \in Nat : Above(t, b, n + 1) = IF t.proxy[b] = Self THEN Self ELSE Above(t, t.proxy[b], n)
    <2> SUFFICES ASSUME NEW n \in Nat
                 PROVE  Above(t, b, n + 1) = IF t.proxy[b] = Self THEN Self ELSE Above(t, t.proxy[b], n)
      OBVIOUS
    <2> DEFINE one == 1
    <2>1. one \in Nat /\ one + n = n + 1 /\ Above(t, b, one) = t.proxy[b]
      BY <1>1
    <2> HIDE DEF one
    <2>2. Above(t, b, one + n) = IF Above(t, b, one) = Self THEN Self ELSE Above(t, Above(t, b, one), n)
      BY <2>1, AboveAdd
    <2> QED BY <2>1, <2>2
  <1>3. ASSUME Leads(t, b, a) PROVE t.proxy[b] # Self /\ Leads(t, t.proxy[b], a)
    <2>1. PICK n \in Nat : Above(t, b, n) = a
      BY <1>3 DEF Leads
    <2>2. n # 0
      BY <1>0, <2>1
    <2>3. n - 1 \in Nat /\ (n - 1) + 1 = n
      BY <2>2
    <2>4. Above(t, b, n) = IF t.proxy[b] = Self THEN Self ELSE Above(t, t.proxy[b], n - 1)
      BY <1>2, <2>3
    <2> QED BY <1>0, <2>1, <2>3, <2>4 DEF Leads
  <1>4. ASSUME t.proxy[b] # Self, Leads(t, t.proxy[b], a) PROVE Leads(t, b, a)
    <2>1. PICK n \in Nat : Above(t, t.proxy[b], n) = a
      BY <1>4 DEF Leads
    <2>2. Above(t, b, n + 1) = a /\ n + 1 \in Nat
      BY <1>2, <1>4, <2>1
    <2> QED BY <2>2 DEF Leads
  <1> QED BY <1>3, <1>4

\* Without the proxy of one account the chains still end,
LEMMA RankApart ==
  ASSUME NEW g, NEW f, NEW a \in Voters, Apart(g, f, a), NEW L, Ranked(g, L)
  PROVE  \E K : Ranked(f, K)
  <1> DEFINE K == [b \in Voters |-> IF Leads(g, b, a) THEN L[b] - L[a] ELSE L[b]]
  <1>0. g.proxy \in [Voters -> Ends] /\ f.proxy[a] = Self /\ (\A b \in Voters \ {a} : f.proxy[b] = g.proxy[b])
        /\ L \in [Voters -> Nat]
    BY DEF Apart, Ranked
  <1>1. \A b \in Voters : Leads(g, b, a) => L[b] >= L[a]
    <2> SUFFICES ASSUME NEW b \in Voters, Leads(g, b, a) PROVE L[b] >= L[a]
      OBVIOUS
    <2>1. PICK n \in Nat : Above(g, b, n) = a
      BY DEF Leads
    <2>2. n <= L[b] /\ L[a] = L[b] - n
      BY <1>0, <2>1, RankAbove, SelfAssumption
    <2> QED BY <1>0, <2>2
  <1>2. K \in [Voters -> Nat]
    BY <1>0, <1>1
  <1>3. K[a] = 0
    <2>1. Leads(g, a, a)
      BY <1>0, AboveSteps DEF Leads
    <2> QED BY <1>0, <2>1
  <1>4. ASSUME NEW b \in Voters \ {a} PROVE IF f.proxy[b] = Self THEN K[b] = 0 ELSE K[b] = K[f.proxy[b]] + 1
    <2>1. f.proxy[b] = g.proxy[b] /\ (IF g.proxy[b] = Self THEN L[b] = 0 ELSE L[b] = L[g.proxy[b]] + 1)
      BY <1>0 DEF Ranked
    <2>2. Leads(g, b, a) <=> g.proxy[b] # Self /\ Leads(g, g.proxy[b], a)
      BY <1>0, LeadsStep
    <2>3. CASE g.proxy[b] = Self
      BY <2>1, <2>2, <2>3
    <2>4. CASE g.proxy[b] # Self
      <3>1. g.proxy[b] \in Voters /\ L[b] \in Nat /\ L[a] \in Nat /\ L[g.proxy[b]] \in Nat
        BY <1>0, <2>4 DEF Ends
      <3> QED BY <2>1, <2>2, <2>4, <3>1
    <2> QED BY <2>3, <2>4
  <1> HIDE DEF K
  <1>5. Ranked(f, K)
    BY <1>0, <1>2, <1>3, <1>4 DEF Ranked
  <1> QED BY <1>5

\* and with a proxy that does not lead back.
LEMMA RankJoined ==
  ASSUME NEW g, NEW f, NEW a \in Voters, Apart(g, f, a), NEW L, Ranked(f, L),
         g.proxy[a] \in Voters, ~Leads(f, g.proxy[a], a)
  PROVE  \E K : Ranked(g, K)
  <1> DEFINE p == g.proxy[a]
             K == [b \in Voters |-> IF Leads(f, b, a) THEN L[b] + L[p] + 1 ELSE L[b]]
  <1>0. f.proxy \in [Voters -> Ends] /\ f.proxy[a] = Self /\ (\A b \in Voters \ {a} : f.proxy[b] = g.proxy[b])
        /\ L \in [Voters -> Nat] /\ p \in Voters /\ ~Leads(f, p, a)
    BY DEF Apart, Ranked
  <1> HIDE DEF p
  <1>2. K \in [Voters -> Nat]
    BY <1>0
  <1>3. g.proxy[a] = p /\ K[a] = K[p] + 1 /\ p # Self
    <2>1. Leads(f, a, a)
      BY <1>0, AboveSteps DEF Leads
    <2>2. L[a] = 0
      BY <1>0 DEF Ranked
    <2> QED BY <1>0, <2>1, <2>2, SelfAssumption DEF p
  <1>4. ASSUME NEW b \in Voters \ {a} PROVE IF g.proxy[b] = Self THEN K[b] = 0 ELSE K[b] = K[g.proxy[b]] + 1
    <2>1. f.proxy[b] = g.proxy[b] /\ (IF f.proxy[b] = Self THEN L[b] = 0 ELSE L[b] = L[f.proxy[b]] + 1)
      BY <1>0 DEF Ranked
    <2>2. Leads(f, b, a) <=> f.proxy[b] # Self /\ Leads(f, f.proxy[b], a)
      BY <1>0, LeadsStep
    <2>3. CASE f.proxy[b] = Self
      BY <2>1, <2>2, <2>3
    <2>4. CASE f.proxy[b] # Self
      <3>1. f.proxy[b] \in Voters /\ L[b] \in Nat /\ L[p] \in Nat /\ L[f.proxy[b]] \in Nat
        BY <1>0, <2>4 DEF Ends
      <3> QED BY <2>1, <2>2, <2>4, <3>1
    <2> QED BY <2>3, <2>4
  <1> HIDE DEF K
  <1>5. Ranked(g, K)
    BY <1>2, <1>3, <1>4 DEF Ranked
  <1> QED BY <1>5

(***************************************************************************)
(* What an adjustment does.                                                *)
(***************************************************************************)
\* A sum with its elements renamed.
LEMMA SumRenamed ==
  ASSUME NEW S, IsFiniteSet(S), NEW A, IsFiniteSet(A), NEW f, \A k \in S : f[k] \in Int,
         NEW to, \A k \in S : to[k] \in A, NEW of, \A a \in A : of[a] \in S /\ to[of[a]] = a,
         \A k \in S : of[to[k]] = k, NEW g, \A a \in A : g[a] = f[of[a]]
  PROVE  SumFunctionOnSet(g, A) = SumFunctionOnSet(f, S)
  <1> DEFINE h == [a \in A |-> SumFunctionOnSet(f, {k \in S : to[k] = a})]
  <1>1. SumFunctionOnSet(h, A) = SumFunctionOnSet(f, S)
    BY SumGrouped
  <1>2. ASSUME NEW a \in A PROVE h[a] = g[a]
    <2>1. {k \in S : to[k] = a} = {of[a]}
      OBVIOUS
    <2>2. SumFunctionOnSet(f, {of[a]}) = f[of[a]]
      <3> DEFINE x == of[a]
      <3>1. f[x] \in Int
        OBVIOUS
      <3> HIDE DEF x
      <3>2. SumFunctionOnSet(f, {x}) = f[x]
        BY <3>1, SumOfOne
      <3> QED BY <3>2 DEF x
    <2> QED BY <2>1, <2>2
  <1> HIDE DEF h
  <1>3. SumFunctionOnSet(h, A) = SumFunctionOnSet(g, A)
    BY <1>2, SumAgree
  <1> QED BY <1>1, <1>3

\* The same along numbers.
ShiftedBy(f, g, m, n, c) == \A i \in m..n : g[i] = f[i + c] /\ f[i + c] \in Int

LEMMA SumShifted ==
  ASSUME NEW m \in Int, NEW n \in Int, NEW c \in Int, NEW f, NEW g, ShiftedBy(f, g, m, n, c)
  PROVE  SumFunctionOnSet(g, m..n) = SumFunctionOnSet(f, (m + c)..(n + c))
  <1> DEFINE A == m..n
             S == (m + c)..(n + c)
             to == [k \in S |-> k - c]
             of == [i \in A |-> i + c]
  <1> USE DEF ShiftedBy
  <1>1. IsFiniteSet(A) /\ IsFiniteSet(S)
    BY VotersFacts
  <1>2. /\ \A k \in S : to[k] \in A /\ of[to[k]] = k /\ f[k] \in Int
        /\ \A a \in A : of[a] \in S /\ to[of[a]] = a /\ g[a] = f[of[a]]
    <2>1. \A k \in S : k - c \in A /\ (k - c) + c = k
      OBVIOUS
    <2>2. \A i \in A : i + c \in S /\ (i + c) - c = i
      OBVIOUS
    <2>3. \A k \in S : f[k] \in Int
      <3> SUFFICES ASSUME NEW k \in S PROVE f[k] \in Int
        OBVIOUS
      <3>1. f[(k - c) + c] \in Int
        BY <2>1
      <3> QED BY <2>1, <3>1
    <2> HIDE DEF A, S
    <2>4. (\A k \in S : to[k] = k - c) /\ (\A i \in A : of[i] = i + c)
      OBVIOUS
    <2>5. \A i \in A : g[i] = f[i + c]
      BY DEF A
    <2> QED BY <2>1, <2>2, <2>3, <2>4, <2>5
  <1> HIDE DEF A, S, to, of
  <1>3. SumFunctionOnSet(g, A) = SumFunctionOnSet(f, S)
    BY <1>1, <1>2, SumRenamed
  <1> QED BY <1>3 DEF A, S

TallyRecord ==
    [power : [Voters -> 0..MaxPower], proxy : [Voters -> Ends], proxied : [Voters -> [Distance -> Int]],
     voted : [Voters -> SUBSET Candidates], votes : [Candidates -> Int]]

Deltas == [0..ProxyDepth -> Int]

LEMMA ProxiedMoved ==
  ASSUME NEW t \in TallyRecord, NEW L, Ranked(t, L), NEW a \in Voters, NEW delta \in Deltas,
         NEW q \in Voters, NEW d \in Distance
  PROVE  /\ ProxiedAfter(t, a, delta)[q][d] \in Int
         /\ \A n \in 1..d + 1 : Above(t, a, n) = q =>
               ProxiedAfter(t, a, delta)[q][d] = t.proxied[q][d] + delta[d + 1 - n]
         /\ (\A n \in 1..d + 1 : Above(t, a, n) # q) => ProxiedAfter(t, a, delta)[q][d] = t.proxied[q][d]
  <1> DEFINE e == [n \in 1..ProxyDepth |-> IF Above(t, a, n) = q /\ d >= n - 1 THEN delta[d - (n - 1)] ELSE 0]
             S == 1..ProxyDepth
  <1>0. t.proxy \in [Voters -> Ends] /\ t.proxied[q][d] \in Int /\ d \in Nat /\ d + 1 <= ProxyDepth /\ ProxyDepth \in Nat
        /\ IsFiniteSet(S)
    BY VotersFacts DEF TallyRecord, Distance
  <1>1. ProxiedAfter(t, a, delta)[q][d] = t.proxied[q][d] + SumFunction(e)
    BY DEF ProxiedAfter
  <1>2. \A n \in S : e[n] = IF Above(t, a, n) = q /\ n <= d + 1 THEN delta[d + 1 - n] ELSE 0
    <2> SUFFICES ASSUME NEW n \in S PROVE e[n] = IF Above(t, a, n) = q /\ n <= d + 1 THEN delta[d + 1 - n] ELSE 0
      OBVIOUS
    <2>1. (d >= n - 1 <=> n <= d + 1) /\ d - (n - 1) = d + 1 - n
      BY <1>0
    <2> QED BY <2>1
  <1>3. \A n \in S : e[n] \in Int
    <2> SUFFICES ASSUME NEW n \in S PROVE e[n] \in Int
      OBVIOUS
    <2>1. n <= d + 1 => d + 1 - n \in 0..ProxyDepth
      BY <1>0
    <2>2. n <= d + 1 => delta[d + 1 - n] \in Int
      BY <2>1 DEF Deltas
    <2> HIDE DEF e
    <2> QED BY <1>2, <2>2
  <1>4. SumFunction(e) = SumFunctionOnSet(e, S)
    BY SumIs
  <1> HIDE DEF e, S
  <1>5. SumFunction(e) \in Int
    BY <1>0, <1>3, <1>4, SumInteger
  <1>6. ASSUME NEW n \in 1..d + 1, Above(t, a, n) = q PROVE SumFunction(e) = delta[d + 1 - n]
    <2>1. n \in S /\ n <= d + 1 /\ n \in Nat
      BY <1>0 DEF S
    <2>2. e[n] = delta[d + 1 - n] /\ e[n] \in Int
      BY <1>2, <1>3, <1>6, <2>1
    <2>3. ASSUME NEW m \in S \ {n} PROVE e[m] = 0
      <3>1. m \in Nat /\ m # n
        BY <1>0 DEF S
      <3>2. Above(t, a, m) # q
        BY <1>0, <1>6, <2>1, <3>1, OneDistance
      <3> QED BY <1>2, <3>2
    <2>4. SumFunctionOnSet(e, S) = e[n]
      <3>1. IsFiniteSet(S) /\ n \in S /\ e[n] \in Int /\ \A m \in S \ {n} : e[m] = 0
        BY <1>0, <2>1, <2>2, <2>3
      <3> QED BY <3>1, SumSingle
    <2> QED BY <1>4, <2>2, <2>4
  <1>7. ASSUME \A n \in 1..d + 1 : Above(t, a, n) # q PROVE SumFunction(e) = 0
    <2>1. ASSUME NEW n \in S PROVE e[n] = 0
      <3>1. n <= d + 1 => n \in 1..d + 1
        BY <1>0 DEF S
      <3> QED BY <1>2, <1>7, <3>1
    <2> QED BY <1>0, <1>4, <2>1, SumZero
  <1>8. \A n \in 1..d + 1 : Above(t, a, n) = q =>
               ProxiedAfter(t, a, delta)[q][d] = t.proxied[q][d] + delta[d + 1 - n]
    BY <1>1, <1>6
  <1> QED BY <1>0, <1>1, <1>5, <1>7, <1>8

\* Nothing comes down to the account itself,
LEMMA OwnProxied ==
  ASSUME NEW t \in TallyRecord, NEW L, Ranked(t, L), NEW a \in Voters, NEW delta \in Deltas
  PROVE  /\ ProxiedAfter(t, a, delta) \in [Voters -> [Distance -> Int]]
         /\ \A d \in Distance : ProxiedAfter(t, a, delta)[a][d] = t.proxied[a][d]
         /\ t.proxy[a] = Self => \A q \in Voters, d \in Distance : ProxiedAfter(t, a, delta)[q][d] = t.proxied[q][d]
  <1>0. t.proxy \in [Voters -> Ends] /\ a # Self /\ L[a] \in Nat
    BY SelfAssumption DEF TallyRecord, Ranked
  <1>1. ProxiedAfter(t, a, delta) \in [Voters -> [Distance -> Int]]
    <2> DEFINE pa(q, d) == t.proxied[q][d] + SumFunction([n \in 1..ProxyDepth |->
                                IF Above(t, a, n) = q /\ d >= n - 1 THEN delta[d - (n - 1)] ELSE 0])
    <2>1. ProxiedAfter(t, a, delta) = [q \in Voters |-> [d \in Distance |-> pa(q, d)]]
      BY DEF ProxiedAfter
    <2> HIDE DEF pa
    <2>2. \A q \in Voters, d \in Distance : pa(q, d) = ProxiedAfter(t, a, delta)[q][d]
      BY <2>1
    <2>3. \A q \in Voters, d \in Distance : pa(q, d) \in Int
      BY <2>2, ProxiedMoved
    <2> QED BY <2>1, <2>3
  <1>2. ASSUME NEW d \in Distance PROVE ProxiedAfter(t, a, delta)[a][d] = t.proxied[a][d]
    <2>1. ASSUME NEW n \in 1..d + 1, Above(t, a, n) = a PROVE FALSE
      <3>1. n \in Nat /\ n # 0 /\ 0 \in Nat
        OBVIOUS
      <3>2. Above(t, a, 0) = a
        BY <1>0, AboveSteps
      <3> QED BY <1>0, <2>1, <3>1, <3>2, OneDistance
    <2> QED BY <2>1, ProxiedMoved
  <1>3. ASSUME t.proxy[a] = Self, NEW q \in Voters, NEW d \in Distance
        PROVE  ProxiedAfter(t, a, delta)[q][d] = t.proxied[q][d]
    <2>1. ASSUME NEW n \in 1..d + 1 PROVE Above(t, a, n) # q
      <3>1. L[a] = 0 /\ n \in Nat /\ ~(n <= L[a])
        BY <1>3 DEF Ranked
      <3>2. Above(t, a, n) = Self
        BY <1>0, <3>1, RankAbove
      <3> QED BY <3>2, SelfAssumption
    <2> QED BY <2>1, ProxiedMoved
  <1> QED BY <1>1, <1>2, <1>3

\* The weight that reaches the account at the end of the chain.
Gain(t, L, a, delta, b) ==
    IF b = Above(t, a, L[a]) /\ L[a] \in 1..ProxyDepth THEN SumFunctionOnSet(delta, 0..ProxyDepth - L[a]) ELSE 0

LEMMA WeightMoved ==
  ASSUME NEW t \in TallyRecord, NEW L, Ranked(t, L), NEW a \in Voters, NEW delta \in Deltas,
         NEW r, r.power = t.power, r.proxied = ProxiedAfter(t, a, delta),
         NEW b \in Voters, t.proxy[b] = Self
  PROVE  /\ witness_vote_weight(t, b) \in Int /\ Gain(t, L, a, delta, b) \in Int
         /\ witness_vote_weight(r, b) = witness_vote_weight(t, b) + Gain(t, L, a, delta, b)
  <1> DEFINE f == t.proxied[b]
             h == r.proxied[b]
             l == L[a]
             D == Distance
  <1>0. /\ t.proxy \in [Voters -> Ends] /\ l \in Nat /\ L[b] = 0 /\ b # Self /\ IsFiniteSet(D) /\ ProxyDepth \in Nat
        /\ t.power[b] \in Nat /\ D = 0..ProxyDepth - 1
    BY VotersFacts, SelfAssumption, WitnessVotesAssumption DEF TallyRecord, Ranked, Distance
  <1>1. f \in [D -> Int] /\ h \in [D -> Int]
    BY OwnProxied DEF TallyRecord
  <1>2. SumFunction(f) = SumFunctionOnSet(f, D) /\ SumFunction(h) = SumFunctionOnSet(h, D)
        /\ SumFunctionOnSet(f, D) \in Int /\ SumFunctionOnSet(h, D) \in Int
    <2> HIDE DEF f, h, D
    <2>1. DOMAIN f = D /\ DOMAIN h = D /\ (\A x \in D : f[x] \in Int) /\ (\A x \in D : h[x] \in Int)
      BY <1>1
    <2> QED BY <1>0, <2>1, SumIs, SumInteger
  <1>3. witness_vote_weight(t, b) = t.power[b] + SumFunctionOnSet(f, D)
        /\ witness_vote_weight(r, b) = t.power[b] + SumFunctionOnSet(h, D)
    BY <1>2 DEF witness_vote_weight
  <1>4. ASSUME NEW n \in Nat, n >= 1, Above(t, a, n) = b PROVE n = l /\ b = Above(t, a, l)
    <2>1. n <= l /\ L[b] = l - n
      BY <1>0, <1>4, RankAbove
    <2> QED BY <1>0, <1>4, <2>1
  <1>5. CASE ~(b = Above(t, a, l) /\ l \in 1..ProxyDepth)
    <2>1. ASSUME NEW d \in D PROVE h[d] = f[d]
      <3>1. ASSUME NEW n \in 1..d + 1 PROVE Above(t, a, n) # b
        <4>1. n \in Nat /\ n >= 1 /\ n <= ProxyDepth
          BY <1>0
        <4> QED BY <1>4, <1>5, <4>1
      <3> QED BY <3>1, ProxiedMoved
    <2> HIDE DEF f, h, D
    <2>2. SumFunctionOnSet(h, D) = SumFunctionOnSet(f, D)
      BY <1>0, <2>1, SumAgree
    <2>3. Gain(t, L, a, delta, b) = 0
      BY <1>5 DEF Gain
    <2> QED BY <1>0, <1>2, <1>3, <2>2, <2>3
  <1>6. CASE b = Above(t, a, l) /\ l \in 1..ProxyDepth
    <2> DEFINE e == [d \in D |-> IF l <= d + 1 THEN delta[d + 1 - l] ELSE 0]
               P == (l - 1)..(ProxyDepth - 1)
    <2>1. ASSUME NEW d \in D PROVE e[d] \in Int /\ h[d] = f[d] + e[d]
      <3>0. d \in Nat /\ d + 1 <= ProxyDepth /\ f[d] \in Int
        BY <1>0, <1>1
      <3>1. CASE l <= d + 1
        <4>1. l \in 1..d + 1 /\ d + 1 - l \in 0..ProxyDepth
          BY <1>0, <1>6, <3>0, <3>1
        <4>2. h[d] = f[d] + delta[d + 1 - l]
          BY <1>6, <4>1, ProxiedMoved
        <4> QED BY <3>1, <4>1, <4>2 DEF Deltas
      <3>2. CASE ~(l <= d + 1)
        <4>1. ASSUME NEW n \in 1..d + 1 PROVE Above(t, a, n) # b
          <5>1. n \in Nat /\ n >= 1 /\ n # l
            BY <1>0, <3>0, <3>2
          <5> QED BY <1>4, <5>1
        <4>2. h[d] = f[d]
          BY <4>1, ProxiedMoved
        <4> QED BY <3>0, <3>2, <4>2
      <3> QED BY <3>1, <3>2
    <2>2. P \in SUBSET D /\ IsFiniteSet(P) /\ IsFiniteSet(D \ P)
      <3>1. P \in SUBSET D
        BY <1>0, <1>6
      <3> HIDE DEF P, D
      <3> QED BY <1>0, <3>1, FS_Subset
    <2>3. \A d \in D \ P : e[d] = 0
      BY <1>0, <1>6
    <2>4. \A i \in P : e[i] = delta[i + (1 - l)] /\ delta[i + (1 - l)] \in Int
      <3> SUFFICES ASSUME NEW i \in P PROVE e[i] = delta[i + (1 - l)] /\ delta[i + (1 - l)] \in Int
        OBVIOUS
      <3>1. i \in D /\ l <= i + 1 /\ i + 1 - l = i + (1 - l) /\ i + (1 - l) \in 0..ProxyDepth
        BY <1>0, <1>6
      <3> QED BY <3>1 DEF Deltas
    <2>5. SumFunctionOnSet(e, P) = SumFunctionOnSet(delta, 0..ProxyDepth - l)
      <3> DEFINE m == l - 1
                 n == ProxyDepth - 1
                 c == 1 - l
      <3>1. m \in Int /\ n \in Int /\ c \in Int /\ P = m..n
        BY <1>0
      <3>2. m + c = 0 /\ n + c = ProxyDepth - l
        BY <1>0
      <3> HIDE DEF e, P
      <3>3. ShiftedBy(delta, e, m, n, c)
        BY <2>4, <3>1 DEF ShiftedBy
      <3> HIDE DEF m, n, c
      <3>4. SumFunctionOnSet(e, m..n) = SumFunctionOnSet(delta, (m + c)..(n + c))
        BY <3>1, <3>3, SumShifted
      <3> QED BY <3>1, <3>2, <3>4
    <2> HIDE DEF e, P, f, h, D
    <2>6. SumFunctionOnSet(h, D) = SumFunctionOnSet(f, D) + SumFunctionOnSet(e, D)
      <3>1. \A x \in D : f[x] \in Int /\ e[x] \in Int /\ h[x] = f[x] + e[x]
        <4> SUFFICES ASSUME NEW x \in D PROVE f[x] \in Int /\ e[x] \in Int /\ h[x] = f[x] + e[x]
          OBVIOUS
        <4> QED BY <1>1, <2>1
      <3>2. IsFiniteSet(D)
        BY <1>0
      <3> QED BY <3>1, <3>2, SumPlus
    <2>7. SumFunctionOnSet(e, D) = SumFunctionOnSet(e, D \ P) + SumFunctionOnSet(e, P)
      <3>1. IsFiniteSet(D) /\ P \in SUBSET D /\ \A x \in D : e[x] \in Int
        BY <1>0, <2>1, <2>2
      <3> QED BY <3>1, SumSplit
    <2>8. SumFunctionOnSet(e, D \ P) = 0
      BY <2>2, <2>3, SumZero
    <2>9. SumFunctionOnSet(e, P) \in Int
      BY <2>1, <2>2, SumInteger
    <2>10. Gain(t, L, a, delta, b) = SumFunctionOnSet(e, P)
      BY <1>6, <2>5 DEF Gain
    <2> QED BY <1>0, <1>2, <1>3, <2>6, <2>7, <2>8, <2>9, <2>10
  <1> QED BY <1>5, <1>6

Weights(t) == [b \in Voters |-> witness_vote_weight(t, b)]
Supporters(t, w) == {b \in Voters : w \in t.voted[b]}
VotesRight(t) == \A w \in Candidates : t.votes[w] = SumFunctionOnSet(Weights(t), Supporters(t, w))
VotersLast(t) == \A b \in Voters : t.voted[b] # {} => t.proxy[b] = Self
ProxiedRight(t) == \A q \in Voters, d \in Distance : t.proxied[q][d] = SumAt(t, q, d + 1)

Counted(t) == t \in TallyRecord /\ (\E L : Ranked(t, L)) /\ VotersLast(t) /\ ProxiedRight(t) /\ VotesRight(t)

\* What the adjustment adds to the votes of a witness.
Added(t, L, a, delta, w) ==
    IF L[a] <= ProxyDepth /\ w \in t.voted[Above(t, a, L[a])]
    THEN SumFunctionOnSet(delta, 0..ProxyDepth - L[a]) ELSE 0

LEMMA Adjusted ==
  ASSUME NEW t \in TallyRecord, NEW L, Ranked(t, L), NEW a \in Voters, NEW delta \in Deltas,
         NEW r, r = adjust_proxied_witness_votes(t, a, delta)
  PROVE  /\ r \in TallyRecord /\ r.power = t.power /\ r.proxy = t.proxy /\ r.voted = t.voted
         /\ r.proxied = ProxiedAfter(t, a, delta)
         /\ \A w \in Candidates : /\ Added(t, L, a, delta, w) \in Int /\ t.votes[w] \in Int
                                  /\ r.votes[w] = t.votes[w] + Added(t, L, a, delta, w)
         /\ Above(t, a, L[a]) \in Voters /\ t.proxy[Above(t, a, L[a])] = Self
  <1>0. /\ t.proxy \in [Voters -> Ends] /\ L[a] \in Nat /\ ChainLength(t, a) = L[a] /\ ProxyDepth \in Nat
        /\ t.votes \in [Candidates -> Int] /\ L \in [Voters -> Nat]
    BY RankBounded, VotersFacts DEF TallyRecord, Ranked
  <1>1. r.power = t.power /\ r.proxy = t.proxy /\ r.voted = t.voted
        /\ r.proxied = ProxiedAfter(t, a, delta) /\ r.votes = VotesAfter(t, a, delta)
    BY DEF adjust_proxied_witness_votes, TallyRecord
  <1>2. Above(t, a, L[a]) \in Voters /\ t.proxy[Above(t, a, L[a])] = Self
    <2>1. Above(t, a, L[a]) \in Voters /\ L[Above(t, a, L[a])] = L[a] - L[a]
      BY <1>0, RankAbove
    <2> DEFINE x == Above(t, a, L[a])
    <2>2. x \in Voters /\ L[x] = 0 /\ t.proxy[x] \in Ends
      BY <1>0, <2>1
    <2> HIDE DEF x
    <2>3. t.proxy[x] # Self => t.proxy[x] \in Voters /\ L[x] = L[t.proxy[x]] + 1
      BY <2>2 DEF Ranked, Ends
    <2>4. t.proxy[x] = Self
      BY <1>0, <2>2, <2>3
    <2> QED BY <2>2, <2>4 DEF x
  <1>3. L[a] <= ProxyDepth => /\ SumFunction([i \in 0..ProxyDepth - L[a] |-> delta[i]]) = SumFunctionOnSet(delta, 0..ProxyDepth - L[a])
                              /\ SumFunctionOnSet(delta, 0..ProxyDepth - L[a]) \in Int
    <2> SUFFICES ASSUME L[a] <= ProxyDepth
                 PROVE  /\ SumFunction([i \in 0..ProxyDepth - L[a] |-> delta[i]]) = SumFunctionOnSet(delta, 0..ProxyDepth - L[a])
                        /\ SumFunctionOnSet(delta, 0..ProxyDepth - L[a]) \in Int
      OBVIOUS
    <2> DEFINE S == 0..ProxyDepth - L[a]
               g == [i \in S |-> delta[i]]
    <2>1. IsFiniteSet(S)
      <3>1. 0 \in Int /\ ProxyDepth - L[a] \in Int
        BY <1>0
      <3> QED BY <3>1, VotersFacts
    <2>2. \A i \in S : delta[i] \in Int
      BY <1>0 DEF Deltas
    <2> HIDE DEF S
    <2>3. DOMAIN g = S /\ \A i \in S : g[i] = delta[i]
      OBVIOUS
    <2> HIDE DEF g
    <2>4. SumFunction(g) = SumFunctionOnSet(g, S)
      BY <2>3, SumIs
    <2>5. SumFunctionOnSet(g, S) = SumFunctionOnSet(delta, S)
      BY <2>1, <2>3, SumAgree
    <2>6. SumFunctionOnSet(delta, S) \in Int
      BY <2>1, <2>2, SumInteger
    <2> QED BY <2>4, <2>5, <2>6 DEF S, g
  <1>4. ASSUME NEW w \in Candidates
        PROVE  /\ Added(t, L, a, delta, w) \in Int /\ t.votes[w] \in Int
               /\ VotesAfter(t, a, delta)[w] = t.votes[w] + Added(t, L, a, delta, w)
    BY <1>0, <1>3 DEF VotesAfter, Added
  <1>5. VotesAfter(t, a, delta) \in [Candidates -> Int]
    <2> DEFINE va(w) == IF L[a] <= ProxyDepth /\ w \in t.voted[Above(t, a, L[a])]
                        THEN t.votes[w] + SumFunction([i \in 0..ProxyDepth - L[a] |-> delta[i]])
                        ELSE t.votes[w]
    <2>1. VotesAfter(t, a, delta) = [w \in Candidates |-> va(w)]
      BY <1>0 DEF VotesAfter
    <2> HIDE DEF va
    <2>2. \A w \in Candidates : va(w) = VotesAfter(t, a, delta)[w]
      BY <2>1
    <2>3. \A w \in Candidates : va(w) \in Int
      BY <1>4, <2>2
    <2> QED BY <2>1, <2>3
  <1>6. r \in TallyRecord
    <2>1. ProxiedAfter(t, a, delta) \in [Voters -> [Distance -> Int]]
      BY OwnProxied
    <2> QED BY <1>5, <2>1 DEF TallyRecord, adjust_proxied_witness_votes
  <1> QED BY <1>1, <1>2, <1>4, <1>6

LEMMA VotesFollow ==
  ASSUME NEW t \in TallyRecord, NEW L, Ranked(t, L), NEW a \in Voters, NEW delta \in Deltas,
         NEW r, r = adjust_proxied_witness_votes(t, a, delta), L[a] >= 1, VotersLast(t), VotesRight(t)
  PROVE  VotesRight(r)
  <1> SUFFICES ASSUME NEW w \in Candidates PROVE r.votes[w] = SumFunctionOnSet(Weights(r), Supporters(r, w))
    BY DEF VotesRight
  <1> DEFINE S == Supporters(t, w)
             x == Above(t, a, L[a])
             W == Weights(t)
             V == Weights(r)
  <1>1. /\ r.power = t.power /\ r.voted = t.voted /\ r.proxied = ProxiedAfter(t, a, delta)
        /\ Added(t, L, a, delta, w) \in Int /\ t.votes[w] \in Int
        /\ r.votes[w] = t.votes[w] + Added(t, L, a, delta, w) /\ x \in Voters /\ t.proxy[x] = Self
    BY Adjusted
  <1>2. S \in SUBSET Voters /\ IsFiniteSet(S) /\ Supporters(r, w) = S /\ t.votes[w] = SumFunctionOnSet(W, S)
    <2>1. S \in SUBSET Voters
      BY DEF Supporters
    <2>2. IsFiniteSet(S)
      BY <2>1, VotersFacts, FS_Subset
    <2> QED BY <1>1, <2>1, <2>2 DEF Supporters, VotesRight
  <1>3. ASSUME NEW b \in S PROVE W[b] \in Int /\ Gain(t, L, a, delta, b) \in Int /\ V[b] = W[b] + Gain(t, L, a, delta, b)
    <2>1. b \in Voters /\ t.proxy[b] = Self
      BY DEF Supporters, VotersLast
    <2>2. W[b] = witness_vote_weight(t, b) /\ V[b] = witness_vote_weight(r, b)
      BY <2>1 DEF Weights
    <2> HIDE DEF W, V
    <2> QED BY <1>1, <2>1, <2>2, WeightMoved
  <1>4. x \in S <=> w \in t.voted[x]
    BY <1>1 DEF Supporters
  <1>5. L[a] \in Nat /\ ProxyDepth \in Nat
    BY VotersFacts DEF Ranked
  <1>6. ASSUME x \in S PROVE Gain(t, L, a, delta, x) = Added(t, L, a, delta, w)
    BY <1>4, <1>5, <1>6 DEF Gain, Added
  <1>7. ASSUME NEW b \in S, b # x PROVE Gain(t, L, a, delta, b) = 0
    BY <1>7 DEF Gain
  <1>8. ASSUME x \notin S PROVE Added(t, L, a, delta, w) = 0
    BY <1>4, <1>8 DEF Added
  <1> HIDE DEF S, x, W, V
  <1>9. CASE x \in S
    <2>1. IsFiniteSet(S) /\ (\A b \in S : W[b] \in Int) /\ V[x] \in Int /\ \A b \in S \ {x} : V[b] = W[b]
      BY <1>2, <1>3, <1>7, <1>9
    <2>2. SumFunctionOnSet(W, S) \in Int /\ SumFunctionOnSet(V, S) = SumFunctionOnSet(W, S) - W[x] + V[x]
      <3>1. IsFiniteSet(S)
        BY <2>1
      <3>2. \A b \in S : W[b] \in Int
        BY <2>1
      <3>3. V[x] \in Int
        BY <2>1
      <3>4. \A b \in S \ {x} : V[b] = W[b]
        BY <2>1
      <3>5. x \in S
        BY <1>9
      <3>6. SumFunctionOnSet(W, S) = W[x] + SumFunctionOnSet(W, S \ {x})
        BY <3>1, <3>2, <3>5, SumTake
      <3>7. SumFunctionOnSet(V, S) = V[x] + SumFunctionOnSet(V, S \ {x})
        <4>1. \A b \in S : V[b] \in Int
          BY <3>2, <3>3, <3>4
        <4> QED BY <3>1, <3>5, <4>1, SumTake
      <3>8. IsFiniteSet(S \ {x})
        BY <3>1, FS_Subset
      <3>9. SumFunctionOnSet(V, S \ {x}) = SumFunctionOnSet(W, S \ {x})
        BY <3>4, <3>8, SumAgree
      <3>10. SumFunctionOnSet(W, S \ {x}) \in Int
        BY <3>2, <3>8, SumInteger
      <3>11. W[x] \in Int
        BY <3>2, <3>5
      <3> QED BY <3>3, <3>6, <3>7, <3>9, <3>10, <3>11
    <2>3. V[x] = W[x] + Added(t, L, a, delta, w) /\ W[x] \in Int
      BY <1>3, <1>6, <1>9
    <2> QED BY <1>1, <1>2, <2>2, <2>3 DEF V
  <1>10. CASE x \notin S
    <2>1. \A b \in S : V[b] = W[b]
      BY <1>3, <1>7, <1>10
    <2>2. SumFunctionOnSet(V, S) = SumFunctionOnSet(W, S)
      BY <1>2, <2>1, SumAgree
    <2> QED BY <1>1, <1>2, <1>8, <1>10, <2>2 DEF V
  <1> QED BY <1>9, <1>10

LEMMA WeightIs ==
  ASSUME NEW t \in TallyRecord, ProxiedRight(t), NEW a \in Voters, NEW sign \in {-1, 1}
  PROVE  /\ Weight(t, a, sign) \in Deltas
         /\ \A i \in 0..ProxyDepth : SumAt(t, a, i) \in Int /\ Weight(t, a, sign)[i] = sign * SumAt(t, a, i)
         /\ witness_vote_weight(t, a) \in Int
         /\ SumFunctionOnSet(Weight(t, a, sign), 0..ProxyDepth) = sign * witness_vote_weight(t, a)
  <1> DEFINE W == Weight(t, a, sign)
             f == t.proxied[a]
             pa == t.power[a]
  <1>0. /\ pa \in Int /\ f \in [Distance -> Int] /\ ProxyDepth \in Nat /\ ProxyDepth >= 1 /\ sign \in Int
        /\ t.power \in [Voters -> Nat] /\ t.proxy \in [Voters -> Ends] /\ Distance = 0..ProxyDepth - 1
    BY VotersFacts, WitnessVotesAssumption DEF TallyRecord, Distance
  <1>1. W[0] = sign * pa /\ \A i \in 1..ProxyDepth : W[i] = sign * f[i - 1] /\ f[i - 1] \in Int /\ i - 1 \in Distance
    <2>1. 0 \in 0..ProxyDepth /\ \A i \in 1..ProxyDepth : i \in 0..ProxyDepth /\ i # 0 /\ i - 1 \in Distance
      BY <1>0
    <2> QED BY <1>0, <2>1 DEF Weight
  <1>2. SumAt(t, a, 0) = pa
    <2>1. Below(t, a, 0) = {a}
      <3>1. \A b \in Voters : Above(t, b, 0) = b
        BY <1>0, AboveSteps
      <3> QED BY <3>1 DEF Below
    <2>2. SumFunctionOnSet(t.power, {a}) = t.power[a]
      <3> DEFINE g == t.power
      <3>1. g[a] \in Int
        BY <1>0
      <3> HIDE DEF g
      <3>2. SumFunctionOnSet(g, {a}) = g[a]
        BY <3>1, SumOfOne
      <3> QED BY <3>2 DEF g
    <2> QED BY <2>1, <2>2 DEF SumAt
  <1>3. \A i \in 1..ProxyDepth : SumAt(t, a, i) = f[i - 1]
    <2> SUFFICES ASSUME NEW i \in 1..ProxyDepth PROVE SumAt(t, a, i) = f[i - 1]
      OBVIOUS
    <2>1. i - 1 \in Distance /\ (i - 1) + 1 = i
      BY <1>1
    <2>2. t.proxied[a][i - 1] = SumAt(t, a, (i - 1) + 1)
      BY <2>1 DEF ProxiedRight
    <2> QED BY <2>1, <2>2
  <1> HIDE DEF pa, f
  <1>4. \A i \in 0..ProxyDepth : SumAt(t, a, i) \in Int /\ W[i] = sign * SumAt(t, a, i) /\ W[i] \in Int
    <2> SUFFICES ASSUME NEW i \in 0..ProxyDepth
                 PROVE  SumAt(t, a, i) \in Int /\ W[i] = sign * SumAt(t, a, i) /\ W[i] \in Int
      OBVIOUS
    <2>1. CASE i = 0
      <3>1. sign * pa \in Int
        BY <1>0
      <3> HIDE DEF W
      <3> QED BY <1>0, <1>1, <1>2, <2>1, <3>1
    <2>2. CASE i # 0
      <3>1. i \in 1..ProxyDepth
        BY <2>2
      <3>2. W[i] = sign * f[i - 1] /\ f[i - 1] \in Int /\ SumAt(t, a, i) = f[i - 1]
        BY <1>1, <1>3, <3>1
      <3>3. sign * f[i - 1] \in Int
        BY <1>0, <3>2
      <3> HIDE DEF W
      <3> QED BY <3>2, <3>3
    <2> QED BY <2>1, <2>2
  <1>5. W \in Deltas
    <2>1. W = [i \in 0..ProxyDepth |-> W[i]]
      BY DEF Weight
    <2> HIDE DEF W
    <2>2. \A i \in 0..ProxyDepth : W[i] \in Int
      BY <1>4
    <2> QED BY <2>1, <2>2 DEF Deltas
  <1> HIDE DEF W
  <1>6. SumFunctionOnSet(W, 0..ProxyDepth) = W[0] + SumFunctionOnSet(W, 1..ProxyDepth)
    <2> DEFINE S == 0..ProxyDepth
               z == 0
    <2>1. IsFiniteSet(S) /\ z \in S /\ \A i \in S : W[i] \in Int
      <3>1. 0 \in Int /\ ProxyDepth \in Int
        BY <1>0
      <3> QED BY <1>0, <1>4, <3>1, VotersFacts
    <2>2. S \ {z} = 1..ProxyDepth
      BY <1>0
    <2> HIDE DEF S, z
    <2>3. SumFunctionOnSet(W, S) = W[z] + SumFunctionOnSet(W, S \ {z})
      BY <2>1, SumTake
    <2> QED BY <2>2, <2>3 DEF S, z
  <1>7. SumFunctionOnSet(W, 1..ProxyDepth) = sign * SumFunctionOnSet(f, Distance) /\ SumFunctionOnSet(f, Distance) \in Int
    <2> DEFINE g == [i \in 1..ProxyDepth |-> f[i - 1]]
               m == 1
               c == -1
               S == m..ProxyDepth
    <2>1. m \in Int /\ ProxyDepth \in Int /\ c \in Int /\ m + c = 0 /\ ProxyDepth + c = ProxyDepth - 1
      BY <1>0
    <2>2. ShiftedBy(f, g, m, ProxyDepth, c)
      <3> SUFFICES ASSUME NEW i \in 1..ProxyDepth PROVE g[i] = f[i + c] /\ f[i + c] \in Int
        BY DEF ShiftedBy
      <3>1. i + c = i - 1
        OBVIOUS
      <3> QED BY <1>1, <3>1
    <2>3. \A i \in S : g[i] \in Int /\ W[i] = sign * g[i]
      BY <1>1
    <2>a. IsFiniteSet(S)
      BY <2>1, VotersFacts
    <2> HIDE DEF g, m, c, S
    <2>4. SumFunctionOnSet(g, m..ProxyDepth) = SumFunctionOnSet(f, (m + c)..(ProxyDepth + c))
      BY <2>1, <2>2, SumShifted
    <2>5. SumFunctionOnSet(W, S) = sign * SumFunctionOnSet(g, S)
      BY <1>0, <2>3, <2>a, SumTimes
    <2>6. SumFunctionOnSet(f, Distance) \in Int
      <3>1. IsFiniteSet(Distance) /\ \A d \in Distance : f[d] \in Int
        BY <1>0, VotersFacts
      <3> QED BY <3>1, SumInteger
    <2> QED BY <1>0, <2>1, <2>4, <2>5, <2>6 DEF S, m
  <1>8. witness_vote_weight(t, a) = pa + SumFunctionOnSet(f, Distance)
    <2>1. SumFunction(f) = SumFunctionOnSet(f, Distance)
      BY <1>0, SumIs
    <2> QED BY <2>1 DEF witness_vote_weight, pa, f
  <1>9. sign * (pa + SumFunctionOnSet(f, Distance)) = sign * pa + sign * SumFunctionOnSet(f, Distance)
    BY <1>0, <1>7
  <1>10. SumFunctionOnSet(W, 0..ProxyDepth) = sign * witness_vote_weight(t, a)
    BY <1>1, <1>6, <1>7, <1>8, <1>9
  <1>11. witness_vote_weight(t, a) \in Int
    BY <1>0, <1>7, <1>8
  <1> QED BY <1>4, <1>5, <1>10, <1>11 DEF W

\* Chains and sums are a matter of the proxies and the scorumpower, weights of the tables.
LEMMA SameChains ==
  ASSUME NEW r, NEW s, r.proxy = s.proxy
  PROVE  /\ \A L : Ranked(r, L) <=> Ranked(s, L)
         /\ \A b, n : Above(r, b, n) = Above(s, b, n)
         /\ \A q, n : Below(r, q, n) = Below(s, q, n)
         /\ r.power = s.power => \A q, n : SumAt(r, q, n) = SumAt(s, q, n)
  <1>1. \A b, n : Above(r, b, n) = Above(s, b, n)
    BY DEF Above
  <1>2. \A q, n : Below(r, q, n) = Below(s, q, n)
    BY <1>1 DEF Below
  <1>3. r.power = s.power => \A q, n : SumAt(r, q, n) = SumAt(s, q, n)
    BY <1>2 DEF SumAt
  <1>4. \A L : Ranked(r, L) <=> Ranked(s, L)
    BY DEF Ranked
  <1> QED BY <1>1, <1>2, <1>3, <1>4

LEMMA SameWeights ==
  ASSUME NEW r, NEW s, r.power = s.power, r.proxied = s.proxied
  PROVE  Weights(r) = Weights(s)
  BY DEF Weights, witness_vote_weight

LEMMA WeightType ==
  ASSUME NEW t \in TallyRecord, NEW b \in Voters
  PROVE  Weights(t)[b] = witness_vote_weight(t, b) /\ Weights(t)[b] \in Int
  <1> DEFINE f == t.proxied[b]
  <1>1. f \in [Distance -> Int] /\ t.power[b] \in Int /\ IsFiniteSet(Distance)
    BY VotersFacts, WitnessVotesAssumption DEF TallyRecord
  <1>2. Weights(t)[b] = t.power[b] + SumFunction(f) /\ Weights(t)[b] = witness_vote_weight(t, b)
    BY DEF Weights, witness_vote_weight
  <1> HIDE DEF f
  <1>3. DOMAIN f = Distance /\ \A d \in Distance : f[d] \in Int
    BY <1>1
  <1>4. SumFunction(f) \in Int
    BY <1>1, <1>3, SumIs, SumInteger
  <1> QED BY <1>1, <1>2, <1>4

LEMMA SupportersFinite ==
  ASSUME NEW t, NEW w
  PROVE  Supporters(t, w) \in SUBSET Voters /\ IsFiniteSet(Supporters(t, w))
  <1>1. Supporters(t, w) \in SUBSET Voters
    BY DEF Supporters
  <1> QED BY <1>1, VotersFacts, FS_Subset

\* An account without a proxy has the chain that is only itself.
LEMMA RankTop ==
  ASSUME NEW t \in TallyRecord, NEW L, Ranked(t, L), NEW a \in Voters
  PROVE  /\ L[a] \in Nat /\ (t.proxy[a] = Self => L[a] = 0 /\ Above(t, a, L[a]) = a)
         /\ (t.proxy[a] # Self => L[a] >= 1)
  <1>1. t.proxy \in [Voters -> Ends] /\ L \in [Voters -> Nat]
    BY DEF TallyRecord, Ranked
  <1>2. t.proxy[a] # Self => t.proxy[a] \in Voters /\ L[a] = L[t.proxy[a]] + 1
    BY <1>1 DEF Ranked, Ends
  <1>3. t.proxy[a] = Self => L[a] = 0
    BY DEF Ranked
  <1>4. Above(t, a, 0) = a
    BY <1>1, AboveSteps
  <1> QED BY <1>1, <1>2, <1>3, <1>4

\* Nothing of an account at the end of its own chain is passed on.
LEMMA TopProxied ==
  ASSUME NEW t \in TallyRecord, NEW L, Ranked(t, L), NEW a \in Voters, t.proxy[a] = Self, NEW delta \in Deltas
  PROVE  ProxiedAfter(t, a, delta) = t.proxied
  <1> DEFINE P == ProxiedAfter(t, a, delta)
             T == t.proxied
  <1>1. P \in [Voters -> [Distance -> Int]] /\ \A q \in Voters, d \in Distance : P[q][d] = T[q][d]
    BY OwnProxied
  <1>2. T \in [Voters -> [Distance -> Int]]
    BY DEF TallyRecord
  <1> HIDE DEF P, T
  <1>3. ASSUME NEW q \in Voters PROVE P[q] = T[q]
    <2>1. P[q] \in [Distance -> Int] /\ T[q] \in [Distance -> Int] /\ \A d \in Distance : P[q][d] = T[q][d]
      BY <1>1, <1>2
    <2> QED BY <2>1
  <1>4. P = T
    BY <1>1, <1>2, <1>3
  <1> QED BY <1>4 DEF P, T

\* An account leaves the chain above it and takes its votes back.
LEMMA Detached ==
  ASSUME NEW t, Counted(t), NEW a \in Voters, NEW r, r = DeclineOne(t, a)
  PROVE  /\ Counted(r) /\ Apart(t, r, a) /\ r.power = t.power /\ r.voted[a] = {}
         /\ \A d \in Distance : r.proxied[a][d] = t.proxied[a][d]
  <1> DEFINE W == Weight(t, a, -1)
             u == adjust_proxied_witness_votes(t, a, W)
  <1>0. t \in TallyRecord /\ VotersLast(t) /\ ProxiedRight(t) /\ VotesRight(t)
    BY DEF Counted
  <1>1. PICK L : Ranked(t, L)
    BY DEF Counted
  <1>2. W \in Deltas /\ \A i \in 0..ProxyDepth : SumAt(t, a, i) \in Int /\ W[i] = (-1) * SumAt(t, a, i)
    <2>1. -1 \in {-1, 1}
      OBVIOUS
    <2> QED BY <1>0, <2>1, WeightIs
  <1>3. witness_vote_weight(t, a) \in Int /\ SumFunctionOnSet(W, 0..ProxyDepth) = (-1) * witness_vote_weight(t, a)
    <2>1. -1 \in {-1, 1}
      OBVIOUS
    <2> QED BY <1>0, <2>1, WeightIs
  <1>4. r = [u EXCEPT !.voted[a] = {}, !.proxy[a] = Self]
    BY DEF DeclineOne
  <1> HIDE DEF W
  <1>5. /\ u \in TallyRecord /\ u.power = t.power /\ u.proxy = t.proxy /\ u.voted = t.voted
        /\ u.proxied = ProxiedAfter(t, a, W)
    BY <1>0, <1>1, <1>2, Adjusted
  <1>6. \A w \in Candidates : /\ Added(t, L, a, W, w) \in Int /\ t.votes[w] \in Int
                              /\ u.votes[w] = t.votes[w] + Added(t, L, a, W, w)
    BY <1>0, <1>1, <1>2, Adjusted
  <1>7. t.proxy[a] # Self => VotesRight(u)
    <2> SUFFICES ASSUME t.proxy[a] # Self PROVE VotesRight(u)
      OBVIOUS
    <2>1. L[a] >= 1
      BY <1>0, <1>1, RankTop
    <2> QED BY <1>0, <1>1, <1>2, <2>1, VotesFollow
  <1> HIDE DEF u
  <1>8. /\ r \in TallyRecord /\ r.power = t.power /\ r.proxied = u.proxied /\ r.votes = u.votes
        /\ r.voted[a] = {} /\ r.proxy[a] = Self
        /\ \A b \in Voters \ {a} : r.voted[b] = t.voted[b] /\ r.proxy[b] = t.proxy[b]
    <2>1. u.voted \in [Voters -> SUBSET Candidates] /\ u.proxy \in [Voters -> Ends] /\ Self \in Ends
      BY <1>5 DEF TallyRecord, Ends
    <2>2. r = [power |-> u.power, proxy |-> [u.proxy EXCEPT ![a] = Self], proxied |-> u.proxied,
               voted |-> [u.voted EXCEPT ![a] = {}], votes |-> u.votes]
      BY <1>4, <1>5 DEF TallyRecord
    <2>3. [u.proxy EXCEPT ![a] = Self] \in [Voters -> Ends] /\ [u.voted EXCEPT ![a] = {}] \in [Voters -> SUBSET Candidates]
      BY <2>1
    <2>4. r \in TallyRecord
      BY <1>5, <2>2, <2>3 DEF TallyRecord
    <2> QED BY <1>5, <2>1, <2>2, <2>4
  <1>9. Apart(t, r, a)
    BY <1>0, <1>8 DEF Apart, TallyRecord
  <1>10. \E K : Ranked(r, K)
    BY <1>1, <1>9, RankApart
  <1>11. VotersLast(r)
    BY <1>0, <1>8 DEF VotersLast
  <1>12. ASSUME NEW q \in Voters, NEW d \in Distance PROVE r.proxied[q][d] = SumAt(r, q, d + 1)
    <2>0. d \in Nat /\ d + 1 \in 1..ProxyDepth /\ t.power \in [Voters -> Nat] /\ t.proxied[q][d] \in Int
      BY <1>0, VotersFacts, WitnessVotesAssumption DEF Distance, TallyRecord
    <2>1. t.proxied[q][d] = SumAt(t, q, d + 1)
      BY <1>0 DEF ProxiedRight
    <2>2. CASE \E n \in 1..d + 1 : Above(t, a, n) = q
      <3>1. PICK n \in 1..d + 1 : Above(t, a, n) = q
        BY <2>2
      <3>2. ProxiedAfter(t, a, W)[q][d] = t.proxied[q][d] + W[d + 1 - n]
        BY <1>0, <1>1, <1>2, <3>1, ProxiedMoved
      <3>3. SumAt(t, q, d + 1) = SumAt(r, q, d + 1) + SumAt(t, a, d + 1 - n)
        BY <1>1, <1>8, <1>9, <2>0, <3>1, SumsApart
      <3>4. d + 1 - n \in 0..ProxyDepth
        BY <2>0, VotersFacts
      <3>5. SumAt(t, a, d + 1 - n) \in Int /\ W[d + 1 - n] = (-1) * SumAt(t, a, d + 1 - n)
        BY <1>2, <3>4
      <3>6. SumAt(r, q, d + 1) \in Int
        <4>1. Below(r, q, d + 1) \in SUBSET Voters /\ IsFiniteSet(Below(r, q, d + 1))
          <5>1. Below(r, q, d + 1) \in SUBSET Voters
            BY DEF Below
          <5> QED BY <5>1, VotersFacts, FS_Subset
        <4>2. \A b \in Below(r, q, d + 1) : r.power[b] \in Int
          BY <1>8, <2>0, <4>1
        <4> QED BY <4>1, <4>2, SumInteger DEF SumAt
      <3> QED BY <1>5, <1>8, <2>0, <2>1, <3>2, <3>3, <3>5, <3>6
    <2>3. CASE \A n \in 1..d + 1 : Above(t, a, n) # q
      <3>2. ProxiedAfter(t, a, W)[q][d] = t.proxied[q][d]
        BY <1>0, <1>1, <1>2, <2>3, ProxiedMoved
      <3>3. SumAt(t, q, d + 1) = SumAt(r, q, d + 1)
        BY <1>1, <1>8, <1>9, <2>0, <2>3, SumsApart
      <3> QED BY <1>5, <1>8, <2>1, <3>2, <3>3
    <2> QED BY <2>2, <2>3
  <1>13. ASSUME t.proxy[a] # Self PROVE VotesRight(r)
    <2>1. t.voted[a] = {}
      BY <1>0, <1>13 DEF VotersLast
    <2>2. Weights(r) = Weights(u)
      BY <1>5, <1>8, SameWeights
    <2>3. \A w : Supporters(r, w) = Supporters(u, w)
      BY <1>5, <1>8, <2>1 DEF Supporters
    <2> QED BY <1>7, <1>8, <1>13, <2>2, <2>3 DEF VotesRight
  <1>14. ASSUME t.proxy[a] = Self PROVE VotesRight(r)
    <2>1. ProxiedAfter(t, a, W) = t.proxied /\ L[a] = 0 /\ Above(t, a, L[a]) = a
      BY <1>0, <1>1, <1>2, <1>14, TopProxied, RankTop
    <2>2. Weights(r) = Weights(t)
      BY <1>5, <1>8, <2>1, SameWeights
    <2>3. ASSUME NEW w \in Candidates PROVE r.votes[w] = SumFunctionOnSet(Weights(r), Supporters(r, w))
      <3> DEFINE S == Supporters(t, w)
                 V == Weights(t)
      <3>1. IsFiniteSet(S) /\ Supporters(r, w) = S \ {a} /\ t.votes[w] = SumFunctionOnSet(V, S)
        BY <1>0, <1>8, SupportersFinite DEF Supporters, VotesRight
      <3>2. (\A b \in S : V[b] \in Int) /\ V[a] = witness_vote_weight(t, a)
        BY <1>0, SupportersFinite, WeightType
      <3>3. a \in S <=> w \in t.voted[a]
        BY DEF Supporters
      <3> HIDE DEF S, V
      <3>4. SumFunctionOnSet(V, S \ {a}) \in Int
        <4>1. IsFiniteSet(S \ {a}) /\ \A b \in S \ {a} : V[b] \in Int
          BY <3>1, <3>2, FS_Subset
        <4> QED BY <4>1, SumInteger
      <3>5. ProxyDepth - L[a] = ProxyDepth /\ L[a] <= ProxyDepth
        BY <2>1, VotersFacts
      <3>6. CASE a \in S
        <4>1. Added(t, L, a, W, w) = SumFunctionOnSet(W, 0..ProxyDepth)
          BY <2>1, <3>3, <3>5, <3>6 DEF Added
        <4>2. SumFunctionOnSet(V, S) = V[a] + SumFunctionOnSet(V, S \ {a})
          BY <3>1, <3>2, <3>6, SumTake
        <4>3. r.votes[w] = t.votes[w] + Added(t, L, a, W, w)
          BY <1>6, <1>8
        <4> QED BY <1>3, <2>2, <3>1, <3>2, <3>4, <4>1, <4>2, <4>3 DEF V
      <3>7. CASE a \notin S
        <4>1. Added(t, L, a, W, w) = 0
          BY <2>1, <3>3, <3>7 DEF Added
        <4>2. r.votes[w] = t.votes[w]
          BY <1>6, <1>8, <4>1
        <4>3. S \ {a} = S
          BY <3>7
        <4> QED BY <2>2, <3>1, <4>2, <4>3 DEF V
      <3> QED BY <3>6, <3>7
    <2> QED BY <2>3 DEF VotesRight
  <1>15. \A d \in Distance : r.proxied[a][d] = t.proxied[a][d]
    BY <1>0, <1>1, <1>2, <1>5, <1>8, OwnProxied
  <1> QED BY <1>8, <1>9, <1>10, <1>11, <1>12, <1>13, <1>14, <1>15 DEF Counted, ProxiedRight

LEMMA SumAtInteger ==
  ASSUME NEW t, t.power \in [Voters -> Nat], NEW q, NEW n
  PROVE  SumAt(t, q, n) \in Int
  <1>1. Below(t, q, n) \in SUBSET Voters
    BY DEF Below
  <1>2. IsFiniteSet(Below(t, q, n))
    BY <1>1, VotersFacts, FS_Subset
  <1>3. \A b \in Below(t, q, n) : t.power[b] \in Int
    BY <1>1
  <1> QED BY <1>2, <1>3, SumInteger DEF SumAt

\* An account is given a proxy.
Joined(m, s, a, p) ==
    /\ s \in TallyRecord /\ s.power = m.power /\ s.proxied = m.proxied /\ s.votes = m.votes /\ s.voted = m.voted
    /\ s.proxy[a] = p /\ \A b \in Voters \ {a} : s.proxy[b] = m.proxy[b]

LEMMA JoinedSet ==
  ASSUME NEW m \in TallyRecord, NEW a \in Voters, NEW p \in Voters
  PROVE  Joined(m, [m EXCEPT !.proxy[a] = p], a, p)
  <1> DEFINE s == [m EXCEPT !.proxy[a] = p]
  <1>1. m.proxy \in [Voters -> Ends] /\ p \in Ends
    BY DEF TallyRecord, Ends
  <1>2. s = [power |-> m.power, proxy |-> [m.proxy EXCEPT ![a] = p], proxied |-> m.proxied,
             voted |-> m.voted, votes |-> m.votes]
    <2>1. m = [power |-> m.power, proxy |-> m.proxy, proxied |-> m.proxied, voted |-> m.voted, votes |-> m.votes]
      BY DEF TallyRecord
    <2> QED BY <2>1
  <1>3. [m.proxy EXCEPT ![a] = p] \in [Voters -> Ends]
    BY <1>1
  <1>4. s \in TallyRecord
    BY <1>2, <1>3 DEF TallyRecord
  <1> QED BY <1>1, <1>2, <1>4 DEF Joined

\* An account without proxy and votes is put below another that does not lead back to it.
LEMMA Attached ==
  ASSUME NEW m, Counted(m), NEW a \in Voters, m.proxy[a] = Self, m.voted[a] = {},
         NEW p \in Voters, ~Leads(m, p, a), NEW s, Joined(m, s, a, p),
         NEW r, r = adjust_proxied_witness_votes(s, a, Weight(m, a, 1))
  PROVE  Counted(r)
  <1> DEFINE W == Weight(m, a, 1)
  <1>0. m \in TallyRecord /\ VotersLast(m) /\ ProxiedRight(m) /\ VotesRight(m)
    BY DEF Counted
  <1>1. PICK L : Ranked(m, L)
    BY DEF Counted
  <1>2. /\ s \in TallyRecord /\ s.power = m.power /\ s.proxied = m.proxied /\ s.votes = m.votes /\ s.voted = m.voted
        /\ s.proxy[a] = p /\ \A b \in Voters \ {a} : s.proxy[b] = m.proxy[b]
    BY DEF Joined
  <1>3. Apart(s, m, a)
    BY <1>0, <1>2 DEF Apart, TallyRecord
  <1>4. PICK K : Ranked(s, K)
    BY <1>1, <1>2, <1>3, RankJoined
  <1>5. W \in Deltas /\ \A i \in 0..ProxyDepth : SumAt(m, a, i) \in Int /\ W[i] = SumAt(m, a, i)
    <2>1. 1 \in {-1, 1}
      OBVIOUS
    <2>2. W \in Deltas /\ \A i \in 0..ProxyDepth : SumAt(m, a, i) \in Int /\ W[i] = 1 * SumAt(m, a, i)
      BY <1>0, <2>1, WeightIs
    <2> HIDE DEF W
    <2> QED BY <2>2
  <1>6. \A i \in Nat : SumAt(s, a, i) = SumAt(m, a, i)
    BY <1>2, <1>3, <1>4, BelowApart DEF SumAt
  <1>7. VotersLast(s)
    BY <1>0, <1>2 DEF VotersLast
  <1>8. VotesRight(s)
    <2>1. Weights(s) = Weights(m)
      BY <1>2, SameWeights
    <2>2. \A w : Supporters(s, w) = Supporters(m, w)
      BY <1>2 DEF Supporters
    <2> QED BY <1>0, <1>2, <2>1, <2>2 DEF VotesRight
  <1> HIDE DEF W
  <1>9. r = adjust_proxied_witness_votes(s, a, W)
    BY DEF W
  <1>10. /\ r \in TallyRecord /\ r.power = s.power /\ r.proxy = s.proxy /\ r.voted = s.voted
         /\ r.proxied = ProxiedAfter(s, a, W)
    BY <1>2, <1>4, <1>5, <1>9, Adjusted
  <1>11. VotesRight(r)
    <2>1. K[a] >= 1
      BY <1>2, <1>4, RankTop, SelfAssumption
    <2> QED BY <1>2, <1>4, <1>5, <1>7, <1>8, <1>9, <2>1, VotesFollow
  <1>12. \E J : Ranked(r, J)
    BY <1>4, <1>10, SameChains
  <1>13. VotersLast(r)
    BY <1>7, <1>10 DEF VotersLast
  <1>14. ASSUME NEW q \in Voters, NEW d \in Distance PROVE r.proxied[q][d] = SumAt(r, q, d + 1)
    <2>0. d \in Nat /\ d + 1 \in 1..ProxyDepth /\ s.power \in [Voters -> Nat] /\ s.proxied[q][d] \in Int
      <3>1. d \in Nat /\ d + 1 \in 1..ProxyDepth
        BY VotersFacts DEF Distance
      <3>2. s.power \in [Voters -> 0..MaxPower] /\ s.proxied \in [Voters -> [Distance -> Int]]
        BY <1>2 DEF TallyRecord
      <3>3. s.power \in [Voters -> Nat]
        BY <3>2, WitnessVotesAssumption
      <3> QED BY <3>1, <3>2, <3>3
    <2>1. s.proxied[q][d] = SumAt(m, q, d + 1) /\ SumAt(r, q, d + 1) = SumAt(s, q, d + 1)
      BY <1>0, <1>2, <1>10, SameChains DEF ProxiedRight
    <2>2. CASE \E n \in 1..d + 1 : Above(s, a, n) = q
      <3>1. PICK n \in 1..d + 1 : Above(s, a, n) = q
        BY <2>2
      <3>2. ProxiedAfter(s, a, W)[q][d] = s.proxied[q][d] + W[d + 1 - n]
        BY <1>2, <1>4, <1>5, <3>1, ProxiedMoved
      <3>3. SumAt(s, q, d + 1) = SumAt(m, q, d + 1) + SumAt(s, a, d + 1 - n)
        BY <1>2, <1>3, <1>4, <2>0, <3>1, SumsApart
      <3>4. d + 1 - n \in 0..ProxyDepth /\ d + 1 - n \in Nat
        BY <2>0, VotersFacts
      <3>5. W[d + 1 - n] = SumAt(s, a, d + 1 - n)
        BY <1>5, <1>6, <3>4
      <3> QED BY <1>10, <2>1, <3>2, <3>3, <3>5
    <2>3. CASE \A n \in 1..d + 1 : Above(s, a, n) # q
      <3>2. ProxiedAfter(s, a, W)[q][d] = s.proxied[q][d]
        BY <1>2, <1>4, <1>5, <2>3, ProxiedMoved
      <3>3. SumAt(s, q, d + 1) = SumAt(m, q, d + 1)
        BY <1>2, <1>3, <1>4, <2>0, <2>3, SumsApart
      <3> QED BY <1>10, <2>1, <3>2, <3>3
    <2> QED BY <2>2, <2>3
  <1> QED BY <1>10, <1>11, <1>12, <1>13, <1>14 DEF Counted, ProxiedRight

LEMMA OwnWeightIs ==
  ASSUME NEW amount \in Int
  PROVE  /\ OwnWeight(amount) \in Deltas /\ OwnWeight(amount)[0] = amount
         /\ \A i \in 1..ProxyDepth : OwnWeight(amount)[i] = 0
         /\ SumFunctionOnSet(OwnWeight(amount), 0..ProxyDepth) = amount
  <1> DEFINE W == OwnWeight(amount)
             S == 0..ProxyDepth
             z == 0
  <1>1. IsFiniteSet(S) /\ ProxyDepth \in Nat /\ z \in S
    BY VotersFacts
  <1>2. W = [i \in S |-> IF i = 0 THEN amount ELSE 0]
    BY DEF OwnWeight
  <1>3. W[z] = amount /\ \A i \in S \ {z} : W[i] = 0
    BY <1>1, <1>2
  <1>4. W \in [S -> Int]
    BY <1>2
  <1>5. \A i \in 1..ProxyDepth : i \in S \ {z}
    BY <1>1
  <1> HIDE DEF W, S, z
  <1>6. SumFunctionOnSet(W, S) = W[z]
    <2>1. W[z] \in Int
      BY <1>3
    <2> QED BY <1>1, <1>3, <2>1, SumSingle
  <1> QED BY <1>3, <1>4, <1>5, <1>6 DEF W, S, z, Deltas

\* The scorumpower of an account changes,
Powered(t, s, a, amount) ==
    /\ s \in TallyRecord /\ s.proxy = t.proxy /\ s.proxied = t.proxied /\ s.votes = t.votes /\ s.voted = t.voted
    /\ s.power[a] = t.power[a] + amount /\ \A b \in Voters \ {a} : s.power[b] = t.power[b]

LEMMA PoweredSet ==
  ASSUME NEW t \in TallyRecord, NEW a \in Voters, NEW amount \in Int, t.power[a] + amount \in 0..MaxPower
  PROVE  Powered(t, [t EXCEPT !.power[a] = @ + amount], a, amount)
  <1> DEFINE s == [t EXCEPT !.power[a] = @ + amount]
  <1>1. t.power \in [Voters -> 0..MaxPower]
    BY DEF TallyRecord
  <1>2. s = [power |-> [t.power EXCEPT ![a] = @ + amount], proxy |-> t.proxy, proxied |-> t.proxied,
             voted |-> t.voted, votes |-> t.votes]
    <2>1. t = [power |-> t.power, proxy |-> t.proxy, proxied |-> t.proxied, voted |-> t.voted, votes |-> t.votes]
      BY DEF TallyRecord
    <2> QED BY <2>1
  <1>3. [t.power EXCEPT ![a] = @ + amount] \in [Voters -> 0..MaxPower]
    BY <1>1
  <1>4. s \in TallyRecord
    BY <1>2, <1>3 DEF TallyRecord
  <1> QED BY <1>1, <1>2, <1>4 DEF Powered

\* and with it what it passes on.
LEMMA PowerChanged ==
  ASSUME NEW t, Counted(t), NEW a \in Voters, NEW amount \in Int, NEW s, Powered(t, s, a, amount),
         NEW r, r = adjust_proxied_witness_votes(s, a, OwnWeight(amount))
  PROVE  Counted(r)
  <1> DEFINE W == OwnWeight(amount)
  <1>0. t \in TallyRecord /\ VotersLast(t) /\ ProxiedRight(t) /\ VotesRight(t)
    BY DEF Counted
  <1>1. PICK L : Ranked(t, L)
    BY DEF Counted
  <1>2. /\ s \in TallyRecord /\ s.proxy = t.proxy /\ s.proxied = t.proxied /\ s.votes = t.votes /\ s.voted = t.voted
        /\ s.power[a] = t.power[a] + amount /\ \A b \in Voters \ {a} : s.power[b] = t.power[b]
    BY DEF Powered
  <1>3. Ranked(s, L) /\ VotersLast(s)
    BY <1>0, <1>1, <1>2, SameChains DEF VotersLast
  <1>4. W \in Deltas /\ W[0] = amount /\ (\A i \in 1..ProxyDepth : W[i] = 0) /\ SumFunctionOnSet(W, 0..ProxyDepth) = amount
    BY OwnWeightIs
  <1> HIDE DEF W
  <1>5. r = adjust_proxied_witness_votes(s, a, W)
    BY DEF W
  <1>6. /\ r \in TallyRecord /\ r.power = s.power /\ r.proxy = s.proxy /\ r.voted = s.voted
        /\ r.proxied = ProxiedAfter(s, a, W)
    BY <1>2, <1>3, <1>4, <1>5, Adjusted
  <1>7. \A w \in Candidates : /\ Added(s, L, a, W, w) \in Int /\ s.votes[w] \in Int
                              /\ r.votes[w] = s.votes[w] + Added(s, L, a, W, w)
    BY <1>2, <1>3, <1>4, <1>5, Adjusted
  <1>8. \E J : Ranked(r, J)
    BY <1>3, <1>6, SameChains
  <1>9. VotersLast(r)
    BY <1>3, <1>6 DEF VotersLast
  <1>p. t.power \in [Voters -> Nat] /\ s.power \in [Voters -> Nat] /\ t.proxy \in [Voters -> Ends]
    BY <1>0, <1>2, WitnessVotesAssumption DEF TallyRecord
  <1>10. ASSUME NEW q \in Voters, NEW d \in Distance PROVE r.proxied[q][d] = SumAt(r, q, d + 1)
    <2>0. d \in Nat /\ d + 1 \in 1..d + 1 /\ d + 1 <= ProxyDepth /\ s.proxied[q][d] \in Int /\ ProxyDepth \in Nat
      BY <1>2, VotersFacts DEF Distance, TallyRecord
    <2> DEFINE B == Below(t, q, d + 1)
               f == t.power
               g == s.power
    <2>1. s.proxied[q][d] = SumFunctionOnSet(f, B) /\ SumAt(r, q, d + 1) = SumFunctionOnSet(g, B)
      <3>1. SumAt(r, q, d + 1) = SumAt(s, q, d + 1)
        BY <1>6, SameChains
      <3>2. Below(s, q, d + 1) = B
        BY <1>2, SameChains
      <3> QED BY <1>0, <1>2, <3>1, <3>2 DEF ProxiedRight, SumAt
    <2>2. IsFiniteSet(B) /\ B \in SUBSET Voters /\ (\A b \in B : f[b] \in Int) /\ (\A b \in B : g[b] \in Int)
          /\ (\A b \in B \ {a} : g[b] = f[b]) /\ f[a] \in Int /\ g[a] = f[a] + amount
          /\ (a \in B <=> Above(s, a, d + 1) = q)
      <3>1. B \in SUBSET Voters /\ (a \in B <=> Above(s, a, d + 1) = q)
        BY <1>2, SameChains DEF Below
      <3>2. IsFiniteSet(B)
        BY <3>1, VotersFacts, FS_Subset
      <3> HIDE DEF B
      <3> QED BY <1>2, <1>p, <3>1, <3>2
    <2> HIDE DEF B, f, g
    <2>3. CASE a \in B
      <3>1. d + 1 - (d + 1) = 0
        BY <2>0
      <3>2. ProxiedAfter(s, a, W)[q][d] = s.proxied[q][d] + W[d + 1 - (d + 1)]
        BY <1>2, <1>3, <1>4, <2>0, <2>2, <2>3, ProxiedMoved
      <3>3. SumFunctionOnSet(f, B) = f[a] + SumFunctionOnSet(f, B \ {a})
        BY <2>2, <2>3, SumTake
      <3>4. SumFunctionOnSet(g, B) = g[a] + SumFunctionOnSet(g, B \ {a})
        BY <2>2, <2>3, SumTake
      <3>5. IsFiniteSet(B \ {a})
        BY <2>2, FS_Subset
      <3>6. SumFunctionOnSet(g, B \ {a}) = SumFunctionOnSet(f, B \ {a})
        BY <2>2, <3>5, SumAgree
      <3>7. SumFunctionOnSet(f, B \ {a}) \in Int
        BY <2>2, <3>5, SumInteger
      <3> QED BY <1>4, <1>6, <2>1, <2>2, <3>1, <3>2, <3>3, <3>4, <3>6, <3>7
    <2>4. CASE a \notin B
      <3>1. \A b \in B : g[b] = f[b]
        BY <2>2, <2>4
      <3>2. SumFunctionOnSet(g, B) = SumFunctionOnSet(f, B)
        BY <2>2, <3>1, SumAgree
      <3>3. CASE \E n \in 1..d + 1 : Above(s, a, n) = q
        <4>1. PICK n \in 1..d + 1 : Above(s, a, n) = q
          BY <3>3
        <4>2. n # d + 1
          BY <2>2, <2>4, <4>1
        <4>3. d + 1 - n \in 1..ProxyDepth
          BY <2>0, <4>2
        <4>4. ProxiedAfter(s, a, W)[q][d] = s.proxied[q][d] + W[d + 1 - n]
          BY <1>2, <1>3, <1>4, <4>1, ProxiedMoved
        <4>5. W[d + 1 - n] = 0
          BY <1>4, <4>3
        <4> QED BY <1>6, <2>0, <2>1, <3>2, <4>4, <4>5
      <3>4. CASE \A n \in 1..d + 1 : Above(s, a, n) # q
        <4>1. ProxiedAfter(s, a, W)[q][d] = s.proxied[q][d]
          BY <1>2, <1>3, <1>4, <3>4, ProxiedMoved
        <4> QED BY <1>6, <2>1, <3>2, <4>1
      <3> QED BY <3>3, <3>4
    <2> QED BY <2>3, <2>4
  <1>11. ASSUME t.proxy[a] # Self PROVE VotesRight(r)
    <2>1. L[a] >= 1 /\ t.voted[a] = {}
      BY <1>0, <1>1, <1>11, RankTop DEF VotersLast
    <2>2. ASSUME NEW w \in Candidates PROVE s.votes[w] = SumFunctionOnSet(Weights(s), Supporters(s, w))
      <3> DEFINE S == Supporters(t, w)
      <3>1. IsFiniteSet(S) /\ Supporters(s, w) = S /\ t.votes[w] = SumFunctionOnSet(Weights(t), S)
        BY <1>0, <1>2, SupportersFinite DEF Supporters, VotesRight
      <3>2. ASSUME NEW b \in S PROVE Weights(s)[b] = Weights(t)[b]
        <4>1. b \in Voters \ {a}
          BY <2>1 DEF Supporters
        <4> QED BY <1>2, <4>1 DEF Weights, witness_vote_weight
      <3> HIDE DEF S
      <3>3. SumFunctionOnSet(Weights(s), S) = SumFunctionOnSet(Weights(t), S)
        BY <3>1, <3>2, SumAgree
      <3> QED BY <1>2, <3>1, <3>3
    <2>3. VotesRight(s)
      BY <2>2 DEF VotesRight
    <2> QED BY <1>2, <1>3, <1>4, <1>5, <2>1, <2>3, VotesFollow
  <1>12. ASSUME t.proxy[a] = Self PROVE VotesRight(r)
    <2>1. ProxiedAfter(s, a, W) = s.proxied /\ L[a] = 0 /\ Above(s, a, L[a]) = a
      BY <1>2, <1>3, <1>4, <1>12, TopProxied, RankTop
    <2>2. ASSUME NEW w \in Candidates PROVE r.votes[w] = SumFunctionOnSet(Weights(r), Supporters(r, w))
      <3> DEFINE S == Supporters(t, w)
                 V == Weights(t)
                 U == Weights(r)
      <3>1. IsFiniteSet(S) /\ Supporters(r, w) = S /\ t.votes[w] = SumFunctionOnSet(V, S)
        BY <1>0, <1>2, <1>6, SupportersFinite DEF Supporters, VotesRight
      <3>2. (\A b \in S : V[b] \in Int /\ U[b] \in Int) /\ V[a] \in Int /\ S \in SUBSET Voters
        BY <1>0, <1>6, SupportersFinite, WeightType
      <3>3. a \in S <=> w \in s.voted[a]
        BY <1>2 DEF Supporters
      <3>4. \A b \in Voters \ {a} : U[b] = V[b]
        BY <1>2, <1>6, <2>1 DEF Weights, witness_vote_weight
      <3>5. U[a] = V[a] + amount
        <4> DEFINE x == SumFunction(t.proxied[a])
        <4>1. V[a] = t.power[a] + x /\ U[a] = (t.power[a] + amount) + x
          BY <1>2, <1>6, <2>1 DEF Weights, witness_vote_weight
        <4>2. x \in Int /\ t.power[a] \in Int
          <5> DEFINE e == t.proxied[a]
          <5>1. e \in [Distance -> Int] /\ t.power[a] \in Int
            BY <1>0, <1>p DEF TallyRecord
          <5> HIDE DEF e
          <5>2. DOMAIN e = Distance /\ \A d \in Distance : e[d] \in Int
            BY <5>1
          <5>3. SumFunction(e) \in Int
            BY <5>2, VotersFacts, SumIs, SumInteger
          <5> QED BY <5>1, <5>3 DEF e
        <4> HIDE DEF x, U, V
        <4> QED BY <4>1, <4>2
      <3> HIDE DEF S, V, U
      <3>6. ProxyDepth - L[a] = ProxyDepth /\ L[a] <= ProxyDepth
        BY <2>1, VotersFacts
      <3>7. CASE a \in S
        <4>1. Added(s, L, a, W, w) = amount
          BY <1>4, <2>1, <3>3, <3>6, <3>7 DEF Added
        <4>2. SumFunctionOnSet(V, S) = V[a] + SumFunctionOnSet(V, S \ {a})
          BY <3>1, <3>2, <3>7, SumTake
        <4>3. SumFunctionOnSet(U, S) = U[a] + SumFunctionOnSet(U, S \ {a})
          BY <3>1, <3>2, <3>7, SumTake
        <4>4. IsFiniteSet(S \ {a}) /\ \A b \in S \ {a} : U[b] = V[b] /\ V[b] \in Int
          BY <3>1, <3>2, <3>4, FS_Subset
        <4>5. SumFunctionOnSet(U, S \ {a}) = SumFunctionOnSet(V, S \ {a})
          BY <4>4, SumAgree
        <4>6. SumFunctionOnSet(V, S \ {a}) \in Int
          BY <4>4, SumInteger
        <4>7. r.votes[w] = t.votes[w] + amount
          BY <1>2, <1>7, <4>1
        <4> QED BY <3>1, <3>2, <3>5, <4>2, <4>3, <4>5, <4>6, <4>7 DEF U
      <3>8. CASE a \notin S
        <4>1. Added(s, L, a, W, w) = 0
          BY <2>1, <3>3, <3>8 DEF Added
        <4>2. r.votes[w] = t.votes[w]
          BY <1>2, <1>7, <4>1
        <4>3. \A b \in S : U[b] = V[b]
          BY <3>2, <3>4, <3>8
        <4>4. SumFunctionOnSet(U, S) = SumFunctionOnSet(V, S)
          BY <3>1, <4>3, SumAgree
        <4> QED BY <3>1, <4>2, <4>4 DEF U
      <3> QED BY <3>7, <3>8
    <2> QED BY <2>2 DEF VotesRight
  <1> QED BY <1>6, <1>8, <1>9, <1>10, <1>11, <1>12 DEF Counted, ProxiedRight

\* An account that votes itself votes for a witness, or takes the vote back.
LEMMA VoteChanged ==
  ASSUME NEW t, Counted(t), NEW a \in Voters, t.proxy[a] = Self, NEW w \in Candidates, NEW r \in TallyRecord,
         r.power = t.power, r.proxy = t.proxy, r.proxied = t.proxied,
         \A b \in Voters \ {a} : r.voted[b] = t.voted[b],
         \A v \in Candidates \ {w} : r.votes[v] = t.votes[v] /\ (v \in r.voted[a] <=> v \in t.voted[a]),
         \/ /\ w \notin t.voted[a] /\ w \in r.voted[a]
            /\ r.votes[w] = t.votes[w] + witness_vote_weight(t, a)
         \/ /\ w \in t.voted[a] /\ w \notin r.voted[a]
            /\ r.votes[w] = t.votes[w] - witness_vote_weight(t, a)
  PROVE  Counted(r)
  <1> DEFINE V == Weights(t)
             S == Supporters(t, w)
  <1>0. t \in TallyRecord /\ VotersLast(t) /\ ProxiedRight(t) /\ VotesRight(t) /\ \E L : Ranked(t, L)
    BY DEF Counted
  <1>1. Weights(r) = V
    BY SameWeights
  <1>2. (\E L : Ranked(r, L)) /\ VotersLast(r)
    BY <1>0, SameChains DEF VotersLast
  <1>3. ProxiedRight(r)
    BY <1>0, SameChains DEF ProxiedRight
  <1>4. ASSUME NEW v \in Candidates \ {w} PROVE r.votes[v] = SumFunctionOnSet(V, Supporters(r, v))
    <2>1. Supporters(r, v) = Supporters(t, v)
      BY DEF Supporters
    <2> QED BY <1>0, <2>1 DEF VotesRight
  <1>5. IsFiniteSet(S) /\ (\A b \in S \cup {a} : V[b] \in Int) /\ V[a] = witness_vote_weight(t, a) /\ t.votes[w] = SumFunctionOnSet(V, S)
    BY <1>0, SupportersFinite, WeightType DEF VotesRight
  <1>6. a \in S <=> w \in t.voted[a]
    BY DEF Supporters
  <1>7. CASE w \notin t.voted[a] /\ w \in r.voted[a] /\ r.votes[w] = t.votes[w] + witness_vote_weight(t, a)
    <2>1. Supporters(r, w) = S \cup {a} /\ a \notin S
      BY <1>6, <1>7 DEF Supporters
    <2> HIDE DEF S, V
    <2>2. SumFunctionOnSet(V, S \cup {a}) = V[a] + SumFunctionOnSet(V, S)
      <3>1. IsFiniteSet(S)
        BY <1>5
      <3>2. \A b \in S \cup {a} : V[b] \in Int
        BY <1>5
      <3>3. a \notin S
        BY <2>1
      <3> DEFINE T == S \cup {a}
      <3>4. IsFiniteSet(T) /\ a \in T /\ T \ {a} = S /\ \A b \in T : V[b] \in Int
        BY <3>1, <3>2, <3>3, FS_AddElement
      <3> HIDE DEF T
      <3>5. SumFunctionOnSet(V, T) = V[a] + SumFunctionOnSet(V, T \ {a})
        BY <3>4, SumTake
      <3> QED BY <3>4, <3>5 DEF T
    <2>3. SumFunctionOnSet(V, S) \in Int /\ V[a] \in Int
      BY <1>5, SumInteger
    <2>4. r.votes[w] = SumFunctionOnSet(V, Supporters(r, w))
      BY <1>5, <1>7, <2>1, <2>2, <2>3
    <2> QED BY <1>0, <1>1, <1>2, <1>3, <1>4, <2>4 DEF Counted, VotesRight
  <1>8. CASE w \in t.voted[a] /\ w \notin r.voted[a] /\ r.votes[w] = t.votes[w] - witness_vote_weight(t, a)
    <2>1. Supporters(r, w) = S \ {a} /\ a \in S
      BY <1>6, <1>8 DEF Supporters
    <2> HIDE DEF S, V
    <2>2. SumFunctionOnSet(V, S) = V[a] + SumFunctionOnSet(V, S \ {a})
      BY <1>5, <2>1, SumTake
    <2>3. SumFunctionOnSet(V, S \ {a}) \in Int /\ V[a] \in Int
      <3>1. IsFiniteSet(S \ {a}) /\ \A b \in S \ {a} : V[b] \in Int
        BY <1>5, FS_Subset
      <3> QED BY <1>5, <3>1, SumInteger
    <2>4. r.votes[w] = SumFunctionOnSet(V, Supporters(r, w))
      BY <1>5, <1>8, <2>1, <2>2, <2>3
    <2> QED BY <1>0, <1>1, <1>2, <1>3, <1>4, <2>4 DEF Counted, VotesRight
  <1> QED BY <1>7, <1>8

\* The check against loops is enough: a chain has less steps than there are accounts.
LEMMA NoLoopLeads ==
  ASSUME NEW t, Counted(t), NEW a \in Voters, NEW p \in Voters, p # a, NoLoop(t, a, p),
         NEW r, Apart(t, r, a)
  PROVE  ~Leads(r, p, a)
  <1> SUFFICES ASSUME NEW n \in Nat, Above(r, p, n) = a PROVE FALSE
    BY DEF Leads
  <1>0. t.proxy \in [Voters -> Ends] /\ a # Self
    BY SelfAssumption DEF Counted, TallyRecord
  <1>1. PICK L : Ranked(t, L)
    BY DEF Counted
  <1>2. Above(t, p, n) = a
    BY <1>0, AboveApart
  <1>3. n # 0
    BY <1>0, <1>2, AboveSteps
  <1>4. n <= L[p] /\ L[p] \in Nat /\ L[p] < Cardinality(Voters)
    BY <1>0, <1>1, <1>2, RankAbove, RankBounded
  <1>5. n \in 1..Cardinality(Voters)
    BY <1>3, <1>4, VotersFacts
  <1> QED BY <1>2, <1>5 DEF NoLoop

\* Requests that take effect together.
DeclinedStep(g, base, T) ==
    IF T = {} THEN base ELSE DeclineOne(g[T \ {CHOOSE x \in T : TRUE}], CHOOSE x \in T : TRUE)

DeclinedAll(base, S) == CHOOSE g : g = [T \in SUBSET S |-> DeclinedStep(g, base, T)]

LEMMA FoldIsDeclined ==
  ASSUME NEW base, NEW S
  PROVE  FoldSet(LAMBDA a, t : DeclineOne(t, a), base, S) = DeclinedAll(base, S)[S]
  BY DEF FoldSet, MapThenFoldSet, DeclinedAll, DeclinedStep

LEMMA DeclinedCounted ==
  ASSUME NEW base, Counted(base), NEW S \in SUBSET Voters
  PROVE  Counted(FoldSet(LAMBDA a, t : DeclineOne(t, a), base, S))
  <1> DEFINE X == {t \in TallyRecord : Counted(t)}
             one(T) == CHOOSE x \in T : TRUE
             take == [T \in SUBSET S |-> one(T)]
             step == [a \in S |-> [t \in X |-> DeclineOne(t, a)]]
  <1>1. IsFiniteSet(S)
    BY VotersFacts, FS_Subset
  <1>2. base \in X
    BY DEF Counted
  <1>3. \A T \in SUBSET S : T # {} => one(T) \in T
    OBVIOUS
  <1>4. \A a \in S, t \in X : DeclineOne(t, a) \in X
    <2>1. ASSUME NEW a \in S, NEW t \in X PROVE DeclineOne(t, a) \in X
      <3>1. Counted(DeclineOne(t, a))
        BY Detached
      <3> QED BY <3>1 DEF Counted
    <2> QED BY <2>1
  <1> HIDE DEF X, one
  <1>5. step \in [S -> [X -> X]]
    BY <1>4
  <1>6. \A T \in SUBSET S : T # {} => take[T] \in T
    BY <1>3
  <1>7. (\A a \in S, t \in X : step[a][t] = DeclineOne(t, a)) /\ \A T \in SUBSET S : take[T] = one(T)
    OBVIOUS
  <1> HIDE DEF step, take
  <1>8. PICK g : FoldsTo(g, S, X, base, take, step)
    BY <1>1, <1>2, <1>5, <1>6, FoldExists
  <1>9. g = [T \in SUBSET S |-> DeclinedStep(g, base, T)]
    <2>1. g \in [SUBSET S -> X] /\ g[{}] = base
      BY <1>8 DEF FoldsTo
    <2>2. ASSUME NEW T \in SUBSET S, T # {} PROVE g[T] = DeclineOne(g[T \ {one(T)}], one(T))
      <3>1. g[T] = step[take[T]][g[T \ {take[T]}]]
        BY <1>8, <2>2 DEF FoldsTo
      <3>2. take[T] = one(T) /\ one(T) \in S /\ T \ {one(T)} \in SUBSET S
        BY <1>3, <1>7, <2>2
      <3>3. g[T \ {one(T)}] \in X
        BY <2>1, <3>2
      <3> QED BY <1>7, <3>1, <3>2, <3>3
    <2>3. \A T \in SUBSET S : g[T] = DeclinedStep(g, base, T)
      BY <2>1, <2>2 DEF DeclinedStep, one
    <2> QED BY <2>1, <2>3
  <1> DEFINE p == DeclinedAll(base, S)
             reached == {n \in Nat : \A T \in SUBSET S : Cardinality(T) <= n => p[T] \in X}
  <1>10. p = [T \in SUBSET S |-> DeclinedStep(p, base, T)]
    BY <1>9 DEF DeclinedAll
  <1> HIDE DEF p
  <1>11. \A T \in SUBSET S : p[T] = DeclinedStep(p, base, T)
    BY <1>10
  <1>12. \A T \in SUBSET S : IsFiniteSet(T) /\ Cardinality(T) \in Nat /\ (Cardinality(T) = 0 <=> T = {})
    BY <1>1, FS_Subset, FS_CardinalityType, FS_EmptySet
  <1>13. 0 \in reached
    <2>1. ASSUME NEW T \in SUBSET S, Cardinality(T) <= 0 PROVE p[T] \in X
      <3>1. T = {}
        BY <1>12, <2>1
      <3> QED BY <1>2, <1>11, <3>1 DEF DeclinedStep
    <2> QED BY <2>1
  <1>14. ASSUME NEW n \in Nat, n \in reached PROVE n + 1 \in reached
    <2>1. ASSUME NEW T \in SUBSET S, Cardinality(T) <= n + 1 PROVE p[T] \in X
      <3>1. CASE T = {}
        BY <1>2, <1>11, <3>1 DEF DeclinedStep
      <3>2. CASE T # {}
        <4>1. one(T) \in T /\ one(T) \in S /\ IsFiniteSet(T)
          BY <1>3, <1>12, <3>2
        <4>2. Cardinality(T \ {one(T)}) = Cardinality(T) - 1
          BY <4>1, FS_RemoveElement
        <4>3. T \ {one(T)} \in SUBSET S /\ Cardinality(T \ {one(T)}) <= n
          BY <1>12, <2>1, <4>2
        <4>4. p[T \ {one(T)}] \in X
          BY <1>14, <4>3
        <4>5. p[T] = DeclineOne(p[T \ {one(T)}], one(T))
          BY <1>11, <3>2 DEF DeclinedStep, one
        <4> QED BY <1>4, <4>1, <4>4, <4>5
      <3> QED BY <3>1, <3>2
    <2> QED BY <2>1
  <1>15. Nat \subseteq reached
    <2> HIDE DEF reached
    <2> QED BY <1>13, <1>14, NatSetInduction
  <1>16. p[S] \in X
    <2>1. Cardinality(S) \in Nat /\ S \in SUBSET S /\ Cardinality(S) <= Cardinality(S)
      BY <1>12
    <2> QED BY <1>15, <2>1
  <1>17. FoldSet(LAMBDA a, t : DeclineOne(t, a), base, S) = p[S]
    BY FoldIsDeclined DEF p
  <1> QED BY <1>16, <1>17 DEF X

\* The scorumpower of the accounts whose chain ends at one of these and is not too long.
Reaching(t, L, T) == {x \in Voters : L[x] <= ProxyDepth /\ Above(t, x, L[x]) \in T}

LEMMA WeightReaches ==
  ASSUME NEW t, Counted(t), NEW L, Ranked(t, L), NEW b \in Voters, t.proxy[b] = Self
  PROVE  witness_vote_weight(t, b) = SumFunctionOnSet(t.power, Reaching(t, L, {b}))
  <1> DEFINE f == t.power
             S == Reaching(t, L, {b})
             A == 0..ProxyDepth
             W == Weight(t, b, 1)
             h == [i \in A |-> SumFunctionOnSet(f, {x \in S : L[x] = i})]
  <1>0. t \in TallyRecord /\ ProxiedRight(t) /\ f \in [Voters -> Nat] /\ t.proxy \in [Voters -> Ends] /\ L \in [Voters -> Nat]
        /\ ProxyDepth \in Nat /\ IsFiniteSet(A) /\ b # Self
    BY VotersFacts, WitnessVotesAssumption, SelfAssumption DEF Counted, TallyRecord, Ranked
  <1>1. /\ \A i \in A : SumAt(t, b, i) \in Int /\ W[i] = 1 * SumAt(t, b, i)
        /\ witness_vote_weight(t, b) \in Int
        /\ SumFunctionOnSet(W, A) = 1 * witness_vote_weight(t, b)
    <2>1. 1 \in {-1, 1}
      OBVIOUS
    <2> QED BY <1>0, <2>1, WeightIs
  <1>2. S \in SUBSET Voters /\ IsFiniteSet(S)
    <2>1. S \in SUBSET Voters
      BY DEF Reaching
    <2> QED BY <2>1, VotersFacts, FS_Subset
  <1>3. \A x \in S : L[x] \in A
    BY <1>0 DEF Reaching
  <1>4. ASSUME NEW i \in A PROVE {x \in S : L[x] = i} = Below(t, b, i)
    <2>1. ASSUME NEW x \in Voters, Above(t, x, i) = b PROVE L[x] = i
      <3>1. i \in Nat /\ i <= L[x] /\ L[b] = L[x] - i
        BY <1>0, <2>1, RankAbove
      <3>2. L[b] = 0
        BY DEF Ranked
      <3> QED BY <1>0, <3>1, <3>2
    <2>2. \A x \in Voters : Above(t, x, i) = b <=> L[x] <= ProxyDepth /\ Above(t, x, L[x]) = b /\ L[x] = i
      <3>1. i <= ProxyDepth
        BY <1>0
      <3> QED BY <2>1, <3>1
    <2> QED BY <2>2 DEF Reaching, Below
  <1>5. ASSUME NEW i \in A PROVE h[i] = W[i]
    <2>1. h[i] = SumAt(t, b, i)
      BY <1>4 DEF SumAt
    <2> HIDE DEF W, h
    <2> QED BY <1>1, <2>1
  <1>6. SumFunctionOnSet(h, A) = SumFunctionOnSet(f, S)
    <2>1. \A x \in S : f[x] \in Int
      BY <1>0, <1>2
    <2>2. IsFiniteSet(A)
      BY <1>0
    <2> HIDE DEF S, A, f
    <2> QED BY <1>2, <1>3, <2>1, <2>2, SumGrouped
  <1> HIDE DEF h, W, A
  <1>7. SumFunctionOnSet(h, A) = SumFunctionOnSet(W, A)
    <2>1. IsFiniteSet(A)
      BY <1>0
    <2> QED BY <1>5, <2>1, SumAgree
  <1> QED BY <1>1, <1>6, <1>7

\* No scorumpower counts twice: the accounts that reach different voters are different ones.
LEMMA CountsOnce ==
  ASSUME NEW t, Counted(t), NEW w \in Candidates
  PROVE  t.votes[w] \in Nat /\ t.votes[w] <= SumFunction(t.power)
  <1> DEFINE f == t.power
             A == Supporters(t, w)
             V == Weights(t)
  <1>0. t \in TallyRecord /\ VotersLast(t) /\ VotesRight(t) /\ f \in [Voters -> Nat] /\ t.proxy \in [Voters -> Ends]
    BY WitnessVotesAssumption DEF Counted, TallyRecord
  <1>1. PICK L : Ranked(t, L)
    BY DEF Counted
  <1> DEFINE S == Reaching(t, L, A)
             top == [x \in Voters |-> Above(t, x, L[x])]
             h == [b \in A |-> SumFunctionOnSet(f, {x \in S : top[x] = b})]
  <1>2. IsFiniteSet(A) /\ A \in SUBSET Voters /\ S \in SUBSET Voters /\ IsFiniteSet(S) /\ IsFiniteSet(Voters)
    <2>1. S \in SUBSET Voters
      BY DEF Reaching
    <2> QED BY <2>1, VotersFacts, SupportersFinite, FS_Subset
  <1>3. \A x \in S : top[x] \in A
    BY <1>2 DEF Reaching
  <1>4. ASSUME NEW b \in A PROVE h[b] = V[b]
    <2>1. b \in Voters /\ t.proxy[b] = Self
      BY <1>0, <1>2 DEF Supporters, VotersLast
    <2>2. {x \in S : top[x] = b} = Reaching(t, L, {b})
      BY DEF Reaching
    <2>3. V[b] = witness_vote_weight(t, b)
      BY <2>1 DEF Weights
    <2>4. witness_vote_weight(t, b) = SumFunctionOnSet(f, Reaching(t, L, {b}))
      BY <1>1, <2>1, WeightReaches
    <2> QED BY <2>2, <2>3, <2>4
  <1>5. SumFunctionOnSet(h, A) = SumFunctionOnSet(f, S)
    <2>1. \A x \in S : f[x] \in Int
      BY <1>0, <1>2
    <2> HIDE DEF S, A, f, top
    <2> QED BY <1>2, <1>3, <2>1, SumGrouped
  <1>6. t.votes[w] = SumFunctionOnSet(V, A)
    BY <1>0 DEF VotesRight
  <1> HIDE DEF h, V, A, S, f
  <1>7. SumFunctionOnSet(h, A) = SumFunctionOnSet(V, A)
    BY <1>2, <1>4, SumAgree
  <1>8. SumFunctionOnSet(f, Voters) = SumFunctionOnSet(f, Voters \ S) + SumFunctionOnSet(f, S)
    <2>1. \A x \in Voters : f[x] \in Int
      BY <1>0
    <2> QED BY <1>2, <2>1, SumSplit
  <1>9. SumFunctionOnSet(f, Voters \ S) \in Nat /\ SumFunctionOnSet(f, S) \in Nat
    <2>1. IsFiniteSet(Voters \ S) /\ (\A x \in Voters \ S : f[x] \in Nat) /\ (\A x \in S : f[x] \in Nat)
      BY <1>0, <1>2, FS_Subset
    <2> QED BY <1>2, <2>1, SumNatural
  <1>10. SumFunction(f) = SumFunctionOnSet(f, Voters)
    BY <1>0, SumIs
  <1>11. t.votes[w] \in Nat /\ t.votes[w] <= SumFunction(f)
    <2> DEFINE x == SumFunctionOnSet(f, S)
               y == SumFunctionOnSet(f, Voters \ S)
               z == SumFunction(f)
    <2>1. t.votes[w] = x
      BY <1>5, <1>6, <1>7
    <2>2. z = y + x /\ y \in Nat /\ x \in Nat
      BY <1>8, <1>9, <1>10
    <2> HIDE DEF x, y, z
    <2>3. x <= z
      BY <2>2
    <2> QED BY <2>1, <2>2, <2>3 DEF z
  <1> QED BY <1>11 DEF f

\* The invariant is inductive: sums that are right stay right.
TallyInv ==
    /\ Counted(Tally)
    /\ can_vote \in [Voters -> BOOLEAN] /\ declining \in [Voters -> Nat] /\ voteBlock \in Nat

LEMMA TallyFields ==
  /\ Tally.power = power /\ Tally.proxy = proxy /\ Tally.proxied = proxied
  /\ Tally.voted = voted /\ Tally.votes = votes
  BY DEF Tally

LEMMA TallyInvCounts == TallyInv => VotesCounted
  <1> SUFFICES ASSUME TallyInv PROVE VotesCounted
    OBVIOUS
  <1> DEFINE t == Tally
  <1>0. Counted(t)
    BY DEF TallyInv
  <1>1. t.power = power /\ t.proxy = proxy /\ t.proxied = proxied /\ t.voted = voted /\ t.votes = votes
    BY TallyFields
  <1> HIDE DEF t
  <1>2. t \in TallyRecord /\ ProxiedRight(t) /\ VotesRight(t)
    BY <1>0 DEF Counted
  <1>3. PICK L : Ranked(t, L)
    BY <1>0 DEF Counted
  <1>4. t.power \in [Voters -> 0..MaxPower] /\ t.power \in [Voters -> Nat] /\ t.proxy \in [Voters -> Ends] /\ t.proxied \in [Voters -> [Distance -> Int]]
        /\ t.voted \in [Voters -> SUBSET Candidates] /\ t.votes \in [Candidates -> Int]
    BY <1>2, WitnessVotesAssumption DEF TallyRecord
  <1>5. \A q \in Voters, d \in Distance : proxied[q][d] = SumFunctionOnSet(power, {a \in Voters : Above(t, a, d + 1) = q})
    BY <1>1, <1>2 DEF ProxiedRight, SumAt, Below
  <1>6. \A q \in Voters, d \in Distance : proxied[q][d] \in Nat
    <2> SUFFICES ASSUME NEW q \in Voters, NEW d \in Distance PROVE proxied[q][d] \in Nat
      OBVIOUS
    <2> DEFINE B == {a \in Voters : Above(t, a, d + 1) = q}
    <2>1. B \in SUBSET Voters /\ proxied[q][d] = SumFunctionOnSet(power, B)
      BY <1>5
    <2> HIDE DEF B
    <2>2. IsFiniteSet(B) /\ \A a \in B : power[a] \in Nat
      BY <1>1, <1>4, <2>1, VotersFacts, FS_Subset
    <2> QED BY <2>1, <2>2, SumNatural
  <1>7. proxied \in [Voters -> [Distance -> Nat]]
    <2>1. \A q \in Voters : proxied[q] \in [Distance -> Nat]
      BY <1>1, <1>4, <1>6
    <2> QED BY <1>1, <1>4, <2>1
  <1>8. \A w \in Candidates : votes[w] \in Nat /\ votes[w] <= SumFunction(power)
    BY <1>0, <1>1, CountsOnce
  <1>9. votes \in [Candidates -> Nat]
    BY <1>1, <1>4, <1>8
  <1>10. WitnessVotesTypeOK
    BY <1>1, <1>4, <1>7, <1>9 DEF WitnessVotesTypeOK, TallyInv, Ends
  <1>11. ASSUME NEW a \in Voters PROVE Above(t, a, Cardinality(Voters)) = Self
    <2>1. L[a] \in Nat /\ L[a] < Cardinality(Voters) /\ Cardinality(Voters) \in Nat
      BY <1>3, <1>4, RankBounded, VotersFacts
    <2>2. ~(Cardinality(Voters) <= L[a])
      BY <2>1
    <2> QED BY <1>3, <1>4, <2>1, <2>2, RankAbove
  <1>12. \A w \in Candidates : votes[w] = SumFunctionOnSet([a \in Voters |-> witness_vote_weight(t, a)], {a \in Voters : w \in voted[a]})
    BY <1>1, <1>2 DEF VotesRight, Weights, Supporters
  <1> QED BY <1>5, <1>8, <1>10, <1>11, <1>12
          DEF VotesCounted, ProxiesEnd, ProxiedIsSum, VotesAreSum, PowerCountsOnce, t

LEMMA TallyInvInit == WitnessVotesInit => TallyInv
  <1> SUFFICES ASSUME WitnessVotesInit PROVE TallyInv
    OBVIOUS
  <1> DEFINE t == Tally
             L == [a \in Voters |-> 0]
  <1>1. t.power = power /\ t.proxy = proxy /\ t.proxied = proxied /\ t.voted = voted /\ t.votes = votes
    BY TallyFields
  <1>2. t \in TallyRecord
    BY WitnessVotesAssumption DEF Tally, TallyRecord, WitnessVotesInit, Ends
  <1> HIDE DEF t
  <1>3. Ranked(t, L) /\ t.proxy \in [Voters -> Ends] /\ \A a \in Voters : t.proxy[a] = Self /\ L[a] = 0
    BY <1>1 DEF Ranked, WitnessVotesInit, Ends
  <1>4. VotersLast(t)
    BY <1>1 DEF VotersLast, WitnessVotesInit
  <1> HIDE DEF L
  <1>5. ASSUME NEW q \in Voters, NEW d \in Distance PROVE t.proxied[q][d] = SumAt(t, q, d + 1)
    <2>1. Below(t, q, d + 1) = {}
      <3>1. \A a \in Voters : Above(t, a, d + 1) # q
        <4> SUFFICES ASSUME NEW a \in Voters PROVE Above(t, a, d + 1) # q
          OBVIOUS
        <4>1. d + 1 \in Nat /\ ~(d + 1 <= L[a]) /\ q # Self
          BY <1>3, SelfAssumption DEF Distance
        <4>2. Above(t, a, d + 1) = Self
          BY <1>3, <4>1, RankAbove
        <4> QED BY <4>1, <4>2
      <3> QED BY <3>1 DEF Below
    <2>2. SumAt(t, q, d + 1) = 0
      BY <2>1, SumEmpty DEF SumAt
    <2> QED BY <1>1, <2>2 DEF WitnessVotesInit
  <1>6. ASSUME NEW w \in Candidates PROVE t.votes[w] = SumFunctionOnSet(Weights(t), Supporters(t, w))
    <2>1. Supporters(t, w) = {} /\ t.votes[w] = 0
      BY <1>1 DEF Supporters, WitnessVotesInit
    <2> QED BY <2>1, SumEmpty
  <1>7. Counted(t)
    BY <1>2, <1>3, <1>4, <1>5, <1>6 DEF Counted, ProxiedRight, VotesRight
  <1> QED BY <1>7 DEF TallyInv, t, WitnessVotesInit

\* What the operations assign is the next tally.
LEMMA BecomesTally ==
  ASSUME NEW x \in TallyRecord, Becomes(x)
  PROVE  Tally' = x
  <1>1. x = [power |-> x.power, proxy |-> x.proxy, proxied |-> x.proxied, voted |-> x.voted, votes |-> x.votes]
    BY DEF TallyRecord
  <1>2. Tally' = [power |-> x.power, proxy |-> x.proxy, proxied |-> x.proxied, voted |-> x.voted, votes |-> x.votes]
    BY DEF Tally, Becomes
  <1> QED BY <1>1, <1>2

LEMMA VotedThenProxy ==
  ASSUME NEW u \in TallyRecord, NEW a \in Voters, NEW p \in Ends, NEW x, x = [u EXCEPT !.voted[a] = {}, !.proxy[a] = p]
  PROVE  x = [power |-> u.power, proxy |-> [u.proxy EXCEPT ![a] = p], proxied |-> u.proxied,
              voted |-> [u.voted EXCEPT ![a] = {}], votes |-> u.votes]
  BY DEF TallyRecord

LEMMA ProxyThenVoted ==
  ASSUME NEW u \in TallyRecord, NEW a \in Voters, NEW p \in Ends, NEW x, x = [u EXCEPT !.proxy[a] = p, !.voted[a] = {}]
  PROVE  x = [power |-> u.power, proxy |-> [u.proxy EXCEPT ![a] = p], proxied |-> u.proxied,
              voted |-> [u.voted EXCEPT ![a] = {}], votes |-> u.votes]
  BY DEF TallyRecord

\* A proxy that is taken away is an account that leaves its chain,
LEMMA ProxyCleared ==
  ASSUME NEW t, Counted(t), NEW a \in Voters, t.proxy[a] # Self
  PROVE  ProxySet(adjust_proxied_witness_votes(t, a, Weight(t, a, -1)), a, Self) = DeclineOne(t, a)
  <1> DEFINE u == adjust_proxied_witness_votes(t, a, Weight(t, a, -1))
  <1>0. t \in TallyRecord /\ VotersLast(t) /\ ProxiedRight(t)
    BY DEF Counted
  <1>1. PICK L : Ranked(t, L)
    BY DEF Counted
  <1>2. Weight(t, a, -1) \in Deltas
    <2>1. -1 \in {-1, 1}
      OBVIOUS
    <2> QED BY <1>0, <2>1, WeightIs
  <1>3. u \in TallyRecord /\ u.voted = t.voted
    BY <1>0, <1>1, <1>2, Adjusted
  <1>4. u.voted[a] = {}
    BY <1>0, <1>3 DEF VotersLast
  <1>5. DeclineOne(t, a) = [u EXCEPT !.voted[a] = {}, !.proxy[a] = Self]
    BY DEF DeclineOne
  <1>6. ProxySet(u, a, Self) = [u EXCEPT !.proxy[a] = Self, !.voted[a] = {}]
    <2> DEFINE x == ProxySet(u, a, Self)
    <2>1. x = [u EXCEPT !.proxy[a] = Self, !.voted[a] = @]
      BY DEF ProxySet
    <2> HIDE DEF u
    <2>2. [u EXCEPT !.proxy[a] = Self, !.voted[a] = @] = [u EXCEPT !.proxy[a] = Self, !.voted[a] = {}]
      BY <1>3, <1>4 DEF TallyRecord
    <2> QED BY <2>1, <2>2
  <1> HIDE DEF u
  <1>7. Self \in Ends
    BY DEF Ends
  <1>8. DeclineOne(t, a) = [power |-> u.power, proxy |-> [u.proxy EXCEPT ![a] = Self], proxied |-> u.proxied,
                            voted |-> [u.voted EXCEPT ![a] = {}], votes |-> u.votes]
    BY <1>3, <1>5, <1>7, VotedThenProxy
  <1>9. ProxySet(u, a, Self) = [power |-> u.power, proxy |-> [u.proxy EXCEPT ![a] = Self], proxied |-> u.proxied,
                                voted |-> [u.voted EXCEPT ![a] = {}], votes |-> u.votes]
    <2> DEFINE x == ProxySet(u, a, Self)
    <2>1. x = [u EXCEPT !.proxy[a] = Self, !.voted[a] = {}]
      BY <1>6
    <2> HIDE DEF x
    <2>2. x = [power |-> u.power, proxy |-> [u.proxy EXCEPT ![a] = Self], proxied |-> u.proxied,
               voted |-> [u.voted EXCEPT ![a] = {}], votes |-> u.votes]
      BY <1>3, <1>7, <2>1, ProxyThenVoted
    <2> QED BY <2>2 DEF x
  <1> QED BY <1>8, <1>9 DEF u

\* and a new one is that, and a place below the new proxy.
LEMMA ProxyMoved ==
  ASSUME NEW t, Counted(t), NEW a \in Voters, NEW p \in Voters
  PROVE  /\ ProxySet(adjust_proxied_witness_votes(t, a, Weight(t, a, -1)), a, p) = [DeclineOne(t, a) EXCEPT !.proxy[a] = p]
         /\ Weight(t, a, 1) = Weight(DeclineOne(t, a), a, 1)
  <1> DEFINE u == adjust_proxied_witness_votes(t, a, Weight(t, a, -1))
             r == DeclineOne(t, a)
  <1>0. t \in TallyRecord /\ ProxiedRight(t)
    BY DEF Counted
  <1>1. PICK L : Ranked(t, L)
    BY DEF Counted
  <1>2. Weight(t, a, -1) \in Deltas
    <2>1. -1 \in {-1, 1}
      OBVIOUS
    <2> QED BY <1>0, <2>1, WeightIs
  <1>3. u \in TallyRecord
    BY <1>0, <1>1, <1>2, Adjusted
  <1>4. r = [u EXCEPT !.voted[a] = {}, !.proxy[a] = Self]
    BY DEF DeclineOne
  <1>5. ProxySet(u, a, p) = [u EXCEPT !.proxy[a] = p, !.voted[a] = {}]
    <2>1. p # Self
      BY SelfAssumption
    <2> QED BY <2>1 DEF ProxySet
  <1>6. Weight(t, a, 1) = Weight(r, a, 1)
    <2>1. r.power = t.power /\ \A d \in Distance : r.proxied[a][d] = t.proxied[a][d]
      BY Detached
    <2> HIDE DEF r
    <2>2. ASSUME NEW i \in 0..ProxyDepth
          PROVE  (IF i = 0 THEN t.power[a] ELSE t.proxied[a][i - 1]) = (IF i = 0 THEN r.power[a] ELSE r.proxied[a][i - 1])
      <3>1. i # 0 => i - 1 \in Distance
        BY VotersFacts DEF Distance
      <3> QED BY <2>1, <3>1
    <2> QED BY <2>2 DEF Weight
  <1> HIDE DEF u, r
  <1>7. u = [power |-> u.power, proxy |-> u.proxy, proxied |-> u.proxied, voted |-> u.voted, votes |-> u.votes]
        /\ u.proxy \in [Voters -> Ends]
    BY <1>3 DEF TallyRecord
  <1>8. r = [power |-> u.power, proxy |-> [u.proxy EXCEPT ![a] = Self], proxied |-> u.proxied, voted |-> [u.voted EXCEPT ![a] = {}], votes |-> u.votes]
    BY <1>4, <1>7
  <1>9. [u EXCEPT !.proxy[a] = p, !.voted[a] = {}]
        = [power |-> u.power, proxy |-> [u.proxy EXCEPT ![a] = p], proxied |-> u.proxied, voted |-> [u.voted EXCEPT ![a] = {}], votes |-> u.votes]
    <2>1. p \in Ends
      BY DEF Ends
    <2> QED BY <1>3, <2>1, ProxyThenVoted
  <1>10. [r EXCEPT !.proxy[a] = p]
        = [power |-> u.power, proxy |-> [[u.proxy EXCEPT ![a] = Self] EXCEPT ![a] = p], proxied |-> u.proxied, voted |-> [u.voted EXCEPT ![a] = {}], votes |-> u.votes]
    BY <1>8
  <1>11. [[u.proxy EXCEPT ![a] = Self] EXCEPT ![a] = p] = [u.proxy EXCEPT ![a] = p]
    <2> DEFINE g == u.proxy
    <2>1. g \in [Voters -> Ends]
      BY <1>7
    <2> HIDE DEF g
    <2>2. [[g EXCEPT ![a] = Self] EXCEPT ![a] = p] = [g EXCEPT ![a] = p]
      BY <2>1
    <2> QED BY <2>2 DEF g
  <1> QED BY <1>5, <1>6, <1>9, <1>10, <1>11 DEF u, r

LEMMA ProxyCounted ==
  ASSUME NEW t, Counted(t), NEW a \in Voters, NEW p \in Voters, p # a, NoLoop(t, a, p), NEW r,
         r = adjust_proxied_witness_votes(ProxySet(adjust_proxied_witness_votes(t, a, Weight(t, a, -1)), a, p), a, Weight(t, a, 1))
  PROVE  Counted(r)
  <1> DEFINE m == DeclineOne(t, a)
             s == [m EXCEPT !.proxy[a] = p]
  <1>1. Counted(m) /\ Apart(t, m, a) /\ m.voted[a] = {}
    BY Detached
  <1>2. r = adjust_proxied_witness_votes(s, a, Weight(m, a, 1))
    BY ProxyMoved
  <1> HIDE DEF m
  <1>3. m.proxy[a] = Self /\ m \in TallyRecord
    BY <1>1 DEF Apart, Counted
  <1>4. ~Leads(m, p, a)
    BY <1>1, NoLoopLeads
  <1>5. Joined(m, s, a, p)
    BY <1>3, JoinedSet
  <1> HIDE DEF s
  <1> QED BY <1>1, <1>2, <1>3, <1>4, <1>5, Attached

LEMMA TallyInvNext == TallyInv /\ [WitnessVotesNext]_voteVars => TallyInv'
  <1> SUFFICES ASSUME TallyInv, [WitnessVotesNext]_voteVars PROVE TallyInv'
    OBVIOUS
  <1> DEFINE t == Tally
             rest == can_vote \in [Voters -> BOOLEAN] /\ declining \in [Voters -> Nat] /\ voteBlock \in Nat
  <1>0. Counted(t) /\ rest
    BY DEF TallyInv
  <1>1. t.power = power /\ t.proxy = proxy /\ t.proxied = proxied /\ t.voted = voted /\ t.votes = votes
    BY TallyFields
  <1>2. t \in TallyRecord
    BY <1>0 DEF Counted
  <1>3. ASSUME NEW x, Counted(x), Becomes(x) PROVE Counted(Tally)'
    <2>1. Tally' = x
      BY <1>3, BecomesTally DEF Counted
    <2> QED BY <1>3, <2>1 DEF Counted, TallyRecord, Ranked, VotersLast, ProxiedRight, VotesRight
  <1>v. /\ power \in [Voters -> 0..MaxPower] /\ proxy \in [Voters -> Ends] /\ voted \in [Voters -> SUBSET Candidates]
        /\ votes \in [Candidates -> Int] /\ proxied \in [Voters -> [Distance -> Int]]
    BY <1>1, <1>2 DEF TallyRecord
  <1>4. ASSUME NEW a \in Voters, NEW w \in Candidates, NEW approve \in BOOLEAN, account_witness_vote(a, w, approve)
        PROVE  TallyInv'
    <2> DEFINE x == [power |-> power, proxy |-> proxy, proxied |-> proxied, voted |-> voted', votes |-> votes']
               weight == witness_vote_weight(t, a)
    <2>1. /\ proxy[a] = Self /\ approve = (w \notin voted[a])
          /\ votes' = [votes EXCEPT ![w] = IF approve THEN @ + weight ELSE @ - weight]
          /\ voted' = [voted EXCEPT ![a] = IF approve THEN @ \cup {w} ELSE @ \ {w}]
          /\ UNCHANGED <<power, proxy, proxied, can_vote, declining, voteBlock>>
      BY <1>4 DEF account_witness_vote
    <2>2. weight \in Int
      BY <1>2, WeightType
    <2> HIDE DEF weight
    <2>3. votes' \in [Candidates -> Int] /\ voted' \in [Voters -> SUBSET Candidates]
      BY <1>v, <2>1, <2>2
    <2>4. x \in TallyRecord
      BY <1>v, <2>3 DEF TallyRecord
    <2>5. x.power = power /\ x.proxy = proxy /\ x.proxied = proxied /\ x.voted = voted' /\ x.votes = votes'
      OBVIOUS
    <2>6. Becomes(x)
      BY <2>1 DEF Becomes
    <2> HIDE DEF x, t
    <2>7. /\ \A b \in Voters \ {a} : x.voted[b] = t.voted[b]
          /\ \A v \in Candidates \ {w} : x.votes[v] = t.votes[v] /\ (v \in x.voted[a] <=> v \in t.voted[a])
      BY <1>1, <1>v, <2>1, <2>5
    <2>8. \/ /\ w \notin t.voted[a] /\ w \in x.voted[a]
             /\ x.votes[w] = t.votes[w] + weight
          \/ /\ w \in t.voted[a] /\ w \notin x.voted[a]
             /\ x.votes[w] = t.votes[w] - weight
      <3>1. CASE w \notin voted[a]
        <4>1. votes'[w] = votes[w] + weight /\ voted'[a] = voted[a] \cup {w}
          BY <1>v, <2>1, <3>1
        <4>2. w \in voted'[a]
          BY <4>1
        <4> QED BY <1>1, <2>5, <3>1, <4>1, <4>2
      <3>2. CASE w \in voted[a]
        <4>1. votes'[w] = votes[w] - weight /\ voted'[a] = voted[a] \ {w}
          BY <1>v, <2>1, <3>2
        <4>2. w \notin voted'[a]
          BY <4>1
        <4> QED BY <1>1, <2>5, <3>2, <4>1, <4>2
      <3> QED BY <3>1, <3>2
    <2>9. Counted(x)
      <3>1. t.proxy[a] = Self /\ x.power = t.power /\ x.proxy = t.proxy /\ x.proxied = t.proxied
        BY <1>1, <2>1, <2>5
      <3> QED BY <1>0, <2>4, <2>7, <2>8, <3>1, VoteChanged DEF weight
    <2>10. Counted(Tally)'
      BY <1>3, <2>6, <2>9
    <2> QED BY <1>0, <2>1, <2>10 DEF TallyInv
  <1>5. ASSUME NEW a \in Voters, NEW p \in Voters \cup {Self}, account_witness_proxy(a, p) PROVE TallyInv'
    <2> DEFINE u == adjust_proxied_witness_votes(t, a, Weight(t, a, -1))
    <2>1. /\ p # a /\ t.proxy[a] # p /\ UNCHANGED <<can_vote, declining, voteBlock>>
          /\ p = Self => Becomes(ProxySet(u, a, p))
          /\ p # Self => NoLoop(t, a, p) /\ Becomes(adjust_proxied_witness_votes(ProxySet(u, a, p), a, Weight(t, a, 1)))
      BY <1>1, <1>5 DEF account_witness_proxy, update_voting_proxy
    <2>2. CASE p = Self
      <3>1. ProxySet(u, a, p) = DeclineOne(t, a)
        BY <1>0, <2>1, <2>2, ProxyCleared
      <3>2. Counted(DeclineOne(t, a))
        BY <1>0, Detached
      <3>3. Becomes(DeclineOne(t, a))
        BY <2>1, <2>2, <3>1
      <3>4. Counted(Tally)'
        BY <1>3, <3>2, <3>3
      <3> QED BY <1>0, <2>1, <3>4 DEF TallyInv
    <2>3. CASE p # Self
      <3> DEFINE x == adjust_proxied_witness_votes(ProxySet(u, a, p), a, Weight(t, a, 1))
      <3>1. p \in Voters
        BY <2>3
      <3>2. Counted(x)
        BY <1>0, <2>1, <2>3, <3>1, ProxyCounted
      <3>3. Becomes(x)
        BY <2>1, <2>3
      <3> HIDE DEF x
      <3>4. Counted(Tally)'
        BY <1>3, <3>2, <3>3
      <3> QED BY <1>0, <2>1, <3>4 DEF TallyInv
    <2> QED BY <2>2, <2>3
  <1>6. ASSUME NEW a \in Voters, NEW amount \in {-1, 1}, increase_scorumpower(a, amount) PROVE TallyInv'
    <2> DEFINE s == [t EXCEPT !.power[a] = @ + amount]
               x == adjust_proxied_witness_votes(s, a, OwnWeight(amount))
    <2>1. t.power[a] + amount \in 0..MaxPower /\ Becomes(x) /\ UNCHANGED <<can_vote, declining, voteBlock>>
      BY <1>1, <1>6 DEF increase_scorumpower
    <2>2. amount \in Int
      OBVIOUS
    <2>3. Powered(t, s, a, amount)
      BY <1>2, <2>1, <2>2, PoweredSet
    <2> HIDE DEF s
    <2>4. Counted(x)
      BY <1>0, <2>2, <2>3, PowerChanged
    <2> HIDE DEF x
    <2>5. Counted(Tally)'
      BY <1>3, <2>1, <2>4
    <2> QED BY <1>0, <2>1, <2>5 DEF TallyInv
  <1>7. ASSUME UNCHANGED <<power, proxy, proxied, voted, votes>> PROVE Counted(Tally)'
    <2>1. Becomes(t)
      BY <1>1, <1>7 DEF Becomes
    <2> QED BY <1>0, <1>3, <2>1
  <1>8. ASSUME NEW a \in Voters, NEW decline \in BOOLEAN, decline_voting_rights(a, decline) PROVE TallyInv'
    <2>1. declining' \in [Voters -> Nat] /\ UNCHANGED <<power, proxy, proxied, voted, votes, can_vote, voteBlock>>
      BY <1>0, <1>8, WitnessVotesAssumption DEF decline_voting_rights
    <2>2. Counted(Tally)'
      BY <1>7, <2>1
    <2> QED BY <1>0, <2>1, <2>2 DEF TallyInv
  <1>9. ASSUME process_decline_voting_rights PROVE TallyInv'
    <2> DEFINE due == {a \in Voters : declining[a] # 0 /\ declining[a] <= voteBlock + 1}
               x == FoldSet(LAMBDA a, s : DeclineOne(s, a), t, due)
    <2>1. /\ voteBlock' = voteBlock + 1 /\ Becomes(x)
          /\ can_vote' = [a \in Voters |-> can_vote[a] /\ a \notin due]
          /\ declining' = [a \in Voters |-> IF a \in due THEN 0 ELSE declining[a]]
      BY <1>9 DEF process_decline_voting_rights
    <2>2. Counted(x)
      BY <1>0, DeclinedCounted
    <2> HIDE DEF x
    <2>3. Counted(Tally)'
      BY <1>3, <2>1, <2>2
    <2>4. can_vote' \in [Voters -> BOOLEAN]
      BY <2>1
    <2>5. declining' \in [Voters -> Nat] /\ voteBlock' \in Nat
      BY <1>0, <2>1
    <2> QED BY <2>3, <2>4, <2>5 DEF TallyInv
  <1>10. ASSUME UNCHANGED voteVars PROVE TallyInv'
    <2>1. Counted(Tally)'
      BY <1>7, <1>10 DEF voteVars
    <2> QED BY <1>0, <1>10, <2>1 DEF TallyInv, voteVars
  <1>11. ASSUME NEW pair \in ProxyPairs, account_witness_proxy(pair[1], pair[2]) PROVE TallyInv'
    <2>1. pair[1] \in Voters /\ pair[2] \in Voters \cup {Self}
      BY WitnessVotesAssumption
    <2> QED BY <1>5, <1>11, <2>1
  <1>12. ASSUME NEW a \in Voters, account_witness_proxy(a, Self) PROVE TallyInv'
    BY <1>5, <1>12
  <1> QED BY <1>4, <1>6, <1>8, <1>9, <1>10, <1>11, <1>12 DEF WitnessVotesNext

\* For any accounts, witnesses and depth of proxies: through any votes, changes of
\* proxy, of scorumpower and declined voting rights, the chains of proxies end,
\* proxied_vsf_votes and the votes of the witnesses, which account.cpp and witness.cpp
\* adjust by differences, are the sums they stand for, and no witness has more votes
\* than there is scorumpower.
THEOREM VotesAlwaysCounted == WitnessVotesSpec => []VotesCounted
  <1>1. WitnessVotesInit => TallyInv
    BY TallyInvInit
  <1>2. TallyInv /\ [WitnessVotesNext]_voteVars => TallyInv'
    BY TallyInvNext
  <1>3. TallyInv => VotesCounted
    BY TallyInvCounts
  <1> QED BY <1>1, <1>2, <1>3, PTL DEF WitnessVotesSpec

-----------------------------------------------------------------------------
(***************************************************************************)
(* Production of blocks.                                                   *)
(***************************************************************************)
Bits == [1 .. SlotWindow -> {0, 1}]

\* Hardforks are decided in their order, and a decision carries its time.
HardforksRight ==
  /\ hfVote \in [Producers -> {Vote(v) : v \in Versions}]
  /\ next_hardfork \in [version : Versions, time : Nat]
  /\ last_hardfork \in Versions
  /\ next_hardfork.version <= last_hardfork \/ next_hardfork.time = HardforkTime(next_hardfork.version)
  /\ running \in [Producers -> Versions]
  /\ software \in [Producers -> Versions]

\* Before VotingBlock the last irreversible block is a round behind.
LibRight ==
  /\ lib \in Nat /\ lib <= head_block
  /\ head_block < VotingBlock => lib = IF head_block > RoundLength THEN head_block - RoundLength ELSE 0

SlotsRight ==
  /\ head_block \in Nat /\ aslot \in Nat /\ head_block <= aslot
  /\ head_time \in Nat /\ clock \in Nat /\ head_time <= clock
  /\ aslot * BlockInterval = head_time

WitnessesRight ==
  /\ shuffled \in Seq(Producers) /\ Len(shuffled) \in Nat \ {0}
  /\ hasKey \subseteq Producers /\ resigned \subseteq Producers
  /\ confirmed \in [Producers -> Nat] /\ \A w \in Producers : confirmed[w] <= head_block

ProductionInv ==
  /\ SlotsRight /\ WitnessesRight /\ LibRight /\ HardforksRight
  /\ recent \in Bits /\ ParticipationIsCount
  /\ SomeoneMaySign /\ VotesAreBacked /\ NoEarlyHardfork

LEMMA ProductionConstants ==
  /\ IsFiniteSet(Producers)
  /\ BlockInterval \in Nat /\ BlockInterval >= 1 /\ RoundLength \in Nat /\ RoundLength >= 1
  /\ SlotWindow \in Nat /\ SlotWindow >= 1 /\ Required \in Nat /\ Required >= 1
  /\ VotingBlock \in Nat /\ MissedThreshold \in Nat
  /\ Irreversible \in Nat /\ 1 <= Irreversible /\ Irreversible <= 100
  /\ HardforkTimes \in Seq(Nat) /\ Len(HardforkTimes) \in Nat
  /\ \A i, j \in DOMAIN HardforkTimes : i < j => HardforkTimes[i] <= HardforkTimes[j]
  BY BlockProductionAssumption

(***************************************************************************)
(* Slots.                                                                  *)
(***************************************************************************)
LEMMA SlotTime ==
  ASSUME SlotsRight, NEW k \in Nat
  PROVE  get_slot_time(k) = (aslot + k) * BlockInterval /\ get_slot_time(k) \in Nat
  <1>1. aslot \in Nat /\ head_time = aslot * BlockInterval + 0 /\ BlockInterval \in Nat /\ BlockInterval >= 1
    BY ProductionConstants DEF SlotsRight
  <1>2. 0 \in 0 .. BlockInterval - 1 BY <1>1
  <1>3. (aslot * BlockInterval + 0) \div BlockInterval = aslot BY <1>1, <1>2, DivMod
  <1>4. get_slot_time(k) = (aslot + k) * BlockInterval BY <1>1, <1>3 DEF get_slot_time
  <1>5. (aslot + k) * BlockInterval \in Nat BY <1>1
  <1> QED BY <1>4, <1>5

LEMMA SlotAt ==
  ASSUME SlotsRight, get_slot_at_time(clock) > 0
  PROVE  /\ get_slot_at_time(clock) \in Nat /\ head_time < clock
  <1>1. /\ aslot \in Nat /\ head_time = aslot * BlockInterval /\ BlockInterval \in Nat /\ BlockInterval >= 1
        /\ clock \in Nat
    BY ProductionConstants DEF SlotsRight
  <1>2. get_slot_time(1) = (aslot + 1) * BlockInterval /\ get_slot_time(1) \in Nat BY SlotTime
  <1>3. ~(clock < get_slot_time(1)) BY DEF get_slot_at_time
  <1>4. clock - get_slot_time(1) \in Nat BY <1>1, <1>2, <1>3
  <1>5. (clock - get_slot_time(1)) \div BlockInterval \in Nat BY <1>1, <1>4, Divided
  <1>6. get_slot_at_time(clock) = (clock - get_slot_time(1)) \div BlockInterval + 1
    BY <1>3 DEF get_slot_at_time
  <1>7. aslot * BlockInterval < (aslot + 1) * BlockInterval BY <1>1, Monotone
  <1>8. head_time < clock BY <1>1, <1>2, <1>3, <1>7
  <1> QED BY <1>5, <1>6, <1>8

(***************************************************************************)
(* Participation.                                                          *)
(***************************************************************************)
LEMMA OnesKept ==
  ASSUME NEW R \in Bits, NEW m \in Nat, recent = R
  PROVE  /\ SlotsFilled(m) \in Bits
         /\ Ones(SlotsFilled(m)) = Ones(R) + 1 - Ones(SubSeq(Shifted(m), 1, m + 1))
  <1> DEFINE W == SlotWindow
             S == Shifted(m)
             N == W + 1 + m
             A == {i \in 1 .. N : S[i] = 1}
             lo == {i \in 1 .. (m + 1) : S[i] = 1}
             hi == {i \in (m + 2) .. N : S[i] = 1}
             P == SubSeq(S, 1, m + 1)
             Q == SlotsFilled(m)
             up == {i \in 1 .. W : Q[i] = 1}
             old == {i \in 1 .. W : R[i] = 1}
  <1>1. W \in Nat /\ W >= 1 BY ProductionConstants
  <1>2. R \in Seq({0, 1}) /\ Len(R) = W /\ DOMAIN R = 1 .. W /\ \A i \in 1 .. W : R[i] \in {0, 1}
    BY <1>1 DEF Bits
  <1>3. /\ S \in Seq({0, 1}) /\ Len(S) = N /\ DOMAIN S = 1 .. N /\ N \in Nat
        /\ \A i \in 1 .. W : S[i] = R[i]
        /\ S[W + 1] = 1
        /\ \A i \in 1 .. N : i > W + 1 => S[i] = 0
    <2> DEFINE z == [i \in 1 .. m |-> 0]
               y == R \o <<1>>
    <2>1. z \in Seq({0, 1}) /\ Len(z) = m BY <1>1
    <2>2. y \in Seq({0, 1}) /\ Len(y) = W + 1 /\ (\A i \in 1 .. W : y[i] = R[i]) /\ y[W + 1] = 1
      BY <1>1, <1>2
    <2>3. S = y \o z BY DEF Shifted
    <2>z. \A i \in 1 .. m : z[i] = 0 OBVIOUS
    <2> HIDE DEF y, z, S
    <2>4. /\ S \in Seq({0, 1}) /\ Len(S) = N /\ DOMAIN S = 1 .. N /\ N \in Nat
          /\ \A i \in 1 .. N : S[i] = IF i <= W + 1 THEN y[i] ELSE z[i - (W + 1)]
      <3>1. S \in Seq({0, 1}) /\ Len(S) = Len(y) + Len(z) BY <2>1, <2>2, <2>3, ConcatProperties
      <3>2. Len(S) = N /\ N \in Nat BY <1>1, <2>1, <2>2, <3>1
      <3>3. DOMAIN S = 1 .. N BY <3>1, <3>2
      <3>4. \A i \in 1 .. Len(y) + Len(z) : S[i] = IF i <= Len(y) THEN y[i] ELSE z[i - Len(y)]
        BY <2>1, <2>2, <2>3, ConcatProperties
      <3>5. 1 .. Len(y) + Len(z) = 1 .. N BY <3>1, <3>2
      <3> HIDE DEF N
      <3> QED BY <2>2, <3>1, <3>2, <3>3, <3>4, <3>5
    <2>5. \A i \in 1 .. W : S[i] = R[i] BY <1>1, <2>2, <2>4
    <2>6. S[W + 1] = 1 BY <1>1, <2>2, <2>4
    <2>7. \A i \in 1 .. N : i > W + 1 => S[i] = 0
      <3> SUFFICES ASSUME NEW i \in 1 .. N, i > W + 1 PROVE S[i] = 0 OBVIOUS
      <3>1. i - (W + 1) \in 1 .. m BY <1>1
      <3>2. S[i] = z[i - (W + 1)] BY <1>1, <2>4
      <3> QED BY <2>z, <3>1, <3>2
    <2> QED BY <2>4, <2>5, <2>6, <2>7
  <1> HIDE DEF S
  <1>4. /\ P \in Seq({0, 1}) /\ DOMAIN P = 1 .. (m + 1) /\ \A i \in 1 .. (m + 1) : P[i] = S[i]
    BY <1>1, <1>3
  <1>5. /\ Q \in Seq({0, 1}) /\ DOMAIN Q = 1 .. W /\ \A i \in 1 .. W : Q[i] = S[i + (m + 1)]
    <2>1. Q = SubSeq(S, m + 2, m + 1 + W) BY DEF SlotsFilled, S
    <2>2. m + 2 \in Nat /\ m + 1 + W \in Nat /\ m + 1 + W = N BY <1>1
    <2> HIDE DEF Q
    <2>3. Q \in Seq({0, 1}) /\ Len(Q) = W /\ DOMAIN Q = 1 .. W BY <1>1, <1>3, <2>1, <2>2
    <2>4. \A i \in 1 .. W : Q[i] = S[(m + 2) + i - 1] BY <1>1, <1>3, <2>1, <2>2, <2>3
    <2>5. \A i \in 1 .. W : (m + 2) + i - 1 = i + (m + 1) OBVIOUS
    <2> QED BY <2>3, <2>4, <2>5
  <1> HIDE DEF P, Q
  <1>6. Q \in Bits BY <1>1, <1>5 DEF Bits
  <1>7. Ones(P) = Cardinality(lo)
    <2>1. {i \in DOMAIN P : P[i] = 1} = lo BY <1>4
    <2> QED BY <2>1 DEF Ones
  <1>8. Ones(Q) = Cardinality(up)
    <2>1. {i \in DOMAIN Q : Q[i] = 1} = up BY <1>5
    <2> QED BY <2>1 DEF Ones
  <1>9. Ones(R) = Cardinality(old)
    <2>1. {i \in DOMAIN R : R[i] = 1} = old BY <1>2
    <2> QED BY <2>1 DEF Ones
  <1>10. A = old \cup {W + 1} /\ W + 1 \notin old
    <2>1. \A i \in 1 .. N : S[i] = 1 <=> (i \in 1 .. W /\ R[i] = 1) \/ i = W + 1
      <3> TAKE i \in 1 .. N
      <3>1. CASE i \in 1 .. W BY <1>1, <1>3, <3>1
      <3>2. CASE i = W + 1 BY <1>1, <1>3, <3>2
      <3>3. CASE i > W + 1 BY <1>1, <1>3, <3>3
      <3> QED BY <1>1, <3>1, <3>2, <3>3
    <2>2. 1 .. W \subseteq 1 .. N /\ W + 1 \in 1 .. N BY <1>1
    <2> QED BY <1>1, <2>1, <2>2
  <1>11. A = lo \cup hi /\ lo \cap hi = {}
    <2>1. 1 .. N = (1 .. (m + 1)) \cup ((m + 2) .. N) BY <1>1
    <2>2. (1 .. (m + 1)) \cap ((m + 2) .. N) = {} BY <1>1
    <2> QED BY <2>1, <2>2
  <1>12. IsFiniteSet(old) /\ IsFiniteSet(lo) /\ IsFiniteSet(hi) /\ IsFiniteSet(up)
    <2>1. IsFiniteSet(1 .. W) /\ IsFiniteSet(1 .. (m + 1)) /\ IsFiniteSet((m + 2) .. N)
      BY <1>1, FS_Interval
    <2>2. /\ old \in SUBSET (1 .. W) /\ lo \in SUBSET (1 .. (m + 1)) /\ hi \in SUBSET ((m + 2) .. N)
          /\ up \in SUBSET (1 .. W)
      OBVIOUS
    <2> HIDE DEF old, lo, hi, up
    <2> QED BY <2>1, <2>2, FS_Subset
  <1> DEFINE f == [i \in up |-> i + (m + 1)]
  <1>13. f \in [up -> hi] /\ (\A j \in hi : \E i \in up : f[i] = j) /\ \A i, j \in up : f[i] = f[j] => i = j
    <2>1. ASSUME NEW i \in up PROVE i + (m + 1) \in hi
      <3>1. i \in 1 .. W /\ S[i + (m + 1)] = 1 BY <1>5
      <3>2. i + (m + 1) \in (m + 2) .. N BY <1>1, <3>1
      <3> QED BY <3>1, <3>2
    <2>2. ASSUME NEW j \in hi PROVE j - (m + 1) \in up /\ (j - (m + 1)) + (m + 1) = j
      <3>1. j \in (m + 2) .. N /\ S[j] = 1 OBVIOUS
      <3>2. j - (m + 1) \in 1 .. W /\ (j - (m + 1)) + (m + 1) = j BY <1>1, <3>1
      <3>3. Q[j - (m + 1)] = 1 BY <1>5, <3>1, <3>2
      <3> QED BY <3>2, <3>3
    <2>3. \A i \in up : i \in Nat OBVIOUS
    <2> HIDE DEF up, hi
    <2>4. f \in [up -> hi] BY <2>1
    <2>5. \A j \in hi : \E i \in up : f[i] = j BY <2>2
    <2>6. \A i, j \in up : f[i] = f[j] => i = j BY <2>3
    <2> QED BY <2>4, <2>5, <2>6
  <1> HIDE DEF f, up, hi, lo, old, A
  <1>14. f \in Surjection(up, hi) /\ f \in Injection(up, hi)
    BY <1>13 DEF Surjection, Injection, IsInjective
  <1>15. Cardinality(hi) = Cardinality(up) BY <1>12, <1>14, FS_Surjection
  <1>16. Cardinality(A) = Cardinality(old) + 1 BY <1>10, <1>12, FS_AddElement
  <1>17. Cardinality(A) = Cardinality(lo) + Cardinality(hi)
    <2>1. Cardinality(lo \cup hi) = Cardinality(lo) + Cardinality(hi) - Cardinality(lo \cap hi)
      BY <1>12, FS_Union
    <2>2. Cardinality({}) = 0 BY FS_EmptySet
    <2>3. Cardinality(lo) \in Nat /\ Cardinality(hi) \in Nat BY <1>12, FS_CardinalityType
    <2>4. lo \cup hi = A /\ lo \cap hi = {} BY <1>11
    <2>5. Cardinality(A) = Cardinality(lo) + Cardinality(hi) - 0 BY <2>1, <2>2, <2>4
    <2> QED BY <2>3, <2>5
  <1>18. /\ Cardinality(lo) \in Nat /\ Cardinality(hi) \in Nat /\ Cardinality(old) \in Nat
    BY <1>12, FS_CardinalityType
  <1>19. Ones(Q) = Ones(R) + 1 - Ones(P)
    BY <1>7, <1>8, <1>9, <1>15, <1>16, <1>17, <1>18
  <1> QED BY <1>6, <1>19 DEF P, Q, S

(***************************************************************************)
(* Irreversible blocks.                                                    *)
(***************************************************************************)
\* The block at the offset is one that a witness of the round has confirmed.
LEMMA ConfirmedIs ==
  ASSUME shuffled \in Seq(Producers), Len(shuffled) \in Nat \ {0}, NEW conf \in [Producers -> Nat],
         NEW K \in Nat, \A w \in Producers : conf[w] <= K
  PROVE  ConfirmedByRound(conf) \in Nat /\ ConfirmedByRound(conf) <= K
  <1> DEFINE L == Len(shuffled)
             offset == ((100 - Irreversible) * L) \div 100
             UpTo(n) == {i \in DOMAIN shuffled : conf[shuffled[i]] <= n}
             V == {conf[w] : w \in {v \in Range(shuffled) : Cardinality(UpTo(conf[v])) > offset}}
             R == {conf[shuffled[i]] : i \in DOMAIN shuffled}
  <1>1. L \in Nat /\ L >= 1 /\ DOMAIN shuffled = 1 .. L /\ \A i \in 1 .. L : shuffled[i] \in Producers
    OBVIOUS
  <1>2. \A i \in 1 .. L : conf[shuffled[i]] \in Nat /\ conf[shuffled[i]] <= K BY <1>1
  <1>3. R \subseteq Nat /\ R # {} /\ \A m \in R : m <= K
    <2>1. conf[shuffled[1]] \in R BY <1>1
    <2> QED BY <1>1, <1>2, <2>1
  <1>4. PICK g \in R : \A m \in R : m <= g
    <2> HIDE DEF R
    <2> QED BY <1>3, GreatestNatural
  <1>5. PICK k \in 1 .. L : g = conf[shuffled[k]] BY <1>1, <1>4
  <1>6. UpTo(g) = 1 .. L BY <1>1, <1>4
  <1>7. Cardinality(UpTo(g)) = L
    <2> HIDE DEF L, UpTo
    <2>1. Cardinality(1 .. L) = L BY <1>1, IntervalSize
    <2> QED BY <1>6, <2>1
  <1>8. offset < L
    <2> DEFINE x == (100 - Irreversible) * L
    <2>0. Irreversible \in Nat /\ 1 <= Irreversible /\ Irreversible <= 100 BY ProductionConstants
    <2>1. x \in Nat /\ x <= 99 * L
      <3> DEFINE c == 100 - Irreversible
      <3>1. c \in Nat /\ c <= 99 BY <2>0
      <3>2. (99 - c) * L >= 0 /\ (99 - c) * L = 99 * L - c * L /\ c * L \in Nat BY <1>1, <3>1
      <3> QED BY <1>1, <3>2
    <2> HIDE DEF x
    <2>2. x \div 100 \in Nat /\ x % 100 \in 0 .. 99 /\ x = (x \div 100) * 100 + (x % 100) BY <2>1
    <2>3. (x \div 100) * 100 <= 99 * L BY <1>1, <2>1, <2>2
    <2>4. x \div 100 < L BY <1>1, <2>2, <2>3
    <2> QED BY <2>4 DEF x
  <1>9. shuffled[k] \in Range(shuffled) BY <1>1, <1>5 DEF Range
  <1> HIDE DEF offset
  <1>10. conf[shuffled[k]] \in V
    <2>1. Cardinality(UpTo(conf[shuffled[k]])) > offset
      <3>1. UpTo(conf[shuffled[k]]) = UpTo(g) BY <1>5
      <3>2. offset \in Int BY <1>1, ProductionConstants DEF offset
      <3> HIDE DEF UpTo
      <3> QED BY <1>1, <1>7, <1>8, <3>1, <3>2
    <2> HIDE DEF UpTo
    <2> QED BY <1>9, <2>1
  <1>11. V \subseteq Nat /\ \A m \in V : m <= K
    <2>1. \A w \in Range(shuffled) : w \in Producers BY <1>1 DEF Range
    <2> HIDE DEF UpTo
    <2> QED BY <2>1
  <1>12. ConfirmedByRound(conf) = Min(V) BY DEF ConfirmedByRound, offset
  <1> HIDE DEF V
  <1>13. \E n \in V : \A m \in V : n <= m BY <1>10, <1>11, LeastNatural
  <1>14. Min(V) \in V BY <1>13 DEF Min
  <1> QED BY <1>11, <1>12, <1>14

LEMMA LibStep ==
  ASSUME SlotsRight, WitnessesRight, LibRight, NEW conf \in [Producers -> Nat],
         \A w \in Producers : conf[w] <= head_block + 1,
         NEW new, new = update_last_irreversible_block(head_block + 1, conf)
  PROVE  /\ new \in Nat /\ new <= head_block + 1 /\ new >= lib
         /\ head_block + 1 < VotingBlock =>
              new = IF head_block + 1 > RoundLength THEN head_block + 1 - RoundLength ELSE 0
  <1>1. head_block \in Nat /\ lib \in Nat /\ lib <= head_block BY DEF SlotsRight, LibRight
  <1>2. head_block < VotingBlock => lib = IF head_block > RoundLength THEN head_block - RoundLength ELSE 0
    BY DEF LibRight
  <1>3. RoundLength \in Nat /\ RoundLength >= 1 /\ VotingBlock \in Nat BY ProductionConstants
  <1>4. ConfirmedByRound(conf) \in Nat /\ ConfirmedByRound(conf) <= head_block + 1
    <2>1. head_block + 1 \in Nat BY <1>1
    <2> QED BY <2>1, ConfirmedIs DEF WitnessesRight
  <1>5. CASE head_block + 1 < VotingBlock
    <2>1. new = IF head_block + 1 > RoundLength THEN head_block + 1 - RoundLength ELSE lib
      BY <1>1, <1>3, <1>5 DEF update_last_irreversible_block
    <2> QED BY <1>1, <1>2, <1>3, <1>5, <2>1
  <1>6. CASE ~(head_block + 1 < VotingBlock)
    <2>1. new = IF ConfirmedByRound(conf) > lib THEN ConfirmedByRound(conf) ELSE lib
      BY <1>1, <1>3, <1>6 DEF update_last_irreversible_block
    <2> QED BY <1>1, <1>3, <1>4, <1>6, <2>1
  <1> QED BY <1>5, <1>6

(***************************************************************************)
(* Hardforks.                                                              *)
(***************************************************************************)
LEMMA VoteParts ==
  ASSUME NEW v \in Versions
  PROVE  /\ Vote(v).version = v /\ Vote(v).time = HardforkTime(v) /\ v \in Nat
         /\ HardforkTime(v) \in Nat /\ Vote(v) \in [version : Versions, time : Nat]
  <1>1. v \in Nat /\ (v # 0 => v \in 1 .. Len(HardforkTimes)) BY ProductionConstants DEF Versions
  <1>2. HardforkTime(v) \in Nat BY <1>1, ProductionConstants DEF HardforkTime
  <1> QED BY <1>1, <1>2 DEF Vote

VotersFor(drawn, cast, v) == {w \in Range(drawn) : cast[w] = v}

\* The least vote with a majority exists, as votes are ordered by their versions.
LEMMA MajorityIs ==
  ASSUME HardforksRight, NEW drawn, NEW cast \in [Producers -> {Vote(v) : v \in Versions}],
         NEW number \in Nat, NEW next,
         next = _update_witness_hardfork_version_votes(number, drawn, cast)
  PROVE  /\ next \in [version : Versions, time : Nat]
         /\ next.version <= last_hardfork \/ next.time = HardforkTime(next.version)
         /\ number % RoundLength = 0 /\ next.version > last_hardfork =>
              Cardinality(VotersFor(drawn, cast, next)) >= Required
  <1>0. last_hardfork \in Versions /\ last_hardfork \in Nat BY ProductionConstants DEF HardforksRight, Versions
  <1>1. CASE number % RoundLength # 0
    BY <1>1 DEF HardforksRight, _update_witness_hardfork_version_votes
  <1>2. CASE number % RoundLength = 0
    <2> DEFINE majority == MajorityVotes(drawn, cast)
    <2>1. \A v \in majority : \E u \in Versions : v = Vote(u)
      <3>1. \A v \in Range(cast) : v \in {Vote(u) : u \in Versions} BY DEF Range
      <3> QED BY <3>1 DEF MajorityVotes
    <2>2. next = IF majority = {} THEN [next_hardfork EXCEPT !.version = last_hardfork]
                 ELSE CHOOSE v \in majority : \A u \in majority :
                         v.version < u.version \/ (v.version = u.version /\ v.time <= u.time)
      BY <1>2 DEF _update_witness_hardfork_version_votes
    <2>3. CASE majority = {}
      <3>1. next = [next_hardfork EXCEPT !.version = last_hardfork] BY <2>2, <2>3
      <3>2. next_hardfork \in [version : Versions, time : Nat] BY DEF HardforksRight
      <3>3. next \in [version : Versions, time : Nat] /\ next.version = last_hardfork
        BY <1>0, <3>1, <3>2
      <3> QED BY <1>0, <3>3
    <2>4. CASE majority # {}
      <3> DEFINE T == {v.version : v \in majority}
      <3>0. \A v \in majority : v.version \in Nat /\ v.version \in Versions /\ v = Vote(v.version)
                               /\ v.time \in Nat
        BY <2>1, VoteParts
      <3>m. majority = MajorityVotes(drawn, cast) OBVIOUS
      <3> HIDE DEF majority
      <3>1. T \subseteq Nat /\ T # {}
        <4>1. PICK v : v \in majority BY <2>4
        <4>2. v.version \in T BY <4>1
        <4> QED BY <3>0, <4>2
      <3>2. PICK n \in T : \A m \in T : n <= m
        <4> HIDE DEF T
        <4> QED BY <3>1, LeastNatural
      <3>3. PICK v \in majority : v.version = n BY <3>2
      <3>4. \A u \in majority : v.version < u.version \/ (v.version = u.version /\ v.time <= u.time)
        <4> TAKE u \in majority
        <4>1. v.version <= u.version BY <3>2, <3>3
        <4>2. v.version \in Nat /\ u.version \in Nat /\ v.time \in Nat BY <3>0, <3>3
        <4>3. CASE v.version = u.version
          <5>1. v = u BY <3>0, <3>3, <4>3
          <5> QED BY <4>2, <5>1
        <4> QED BY <4>1, <4>2, <4>3
      <3>5. next \in majority BY <2>2, <2>4, <3>3, <3>4
      <3>6. next.version \in Versions /\ next = Vote(next.version) BY <3>0, <3>5
      <3>7. next \in [version : Versions, time : Nat] /\ next.time = HardforkTime(next.version)
        BY <3>6, VoteParts
      <3>8. Cardinality(VotersFor(drawn, cast, next)) >= Required
        BY <3>5, <3>m DEF MajorityVotes, VotersFor
      <3> QED BY <3>7, <3>8
    <2> QED BY <2>3, <2>4
  <1> QED BY <1>1, <1>2

LEMMA ScheduledIs ==
  ASSUME WitnessesRight, aslot \in Nat, NEW k \in Nat
  PROVE  get_scheduled_witness(k) \in Range(shuffled) /\ get_scheduled_witness(k) \in Producers
  <1> DEFINE L == Len(shuffled)
             i == ((aslot + k) % L) + 1
  <1>1. L \in Nat /\ L >= 1 /\ DOMAIN shuffled = 1 .. L /\ \A j \in 1 .. L : shuffled[j] \in Producers
    BY DEF WitnessesRight
  <1>2. aslot + k \in Nat OBVIOUS
  <1>3. (aslot + k) % L \in 0 .. L - 1
    <2> HIDE DEF L
    <2> QED BY <1>1, <1>2, Divided
  <1>4. i \in 1 .. L BY <1>1, <1>3
  <1>5. get_scheduled_witness(k) = shuffled[i] BY DEF get_scheduled_witness
  <1> HIDE DEF i, L
  <1> QED BY <1>1, <1>4, <1>5 DEF Range

\* What an early hardfork would be.
LEMMA HardforkStep ==
  ASSUME HardforksRight, NoEarlyHardfork, SlotsRight, NEW when \in Nat, head_time <= when,
         NEW next \in [version : Versions, time : Nat],
         next.version <= last_hardfork \/ next.time = HardforkTime(next.version),
         NEW now, now = process_hardforks(next, when)
  PROVE  /\ now \in Versions /\ last_hardfork <= now
         /\ next.version <= now \/ next.time = HardforkTime(next.version)
         /\ \A v \in 1 .. now : when >= HardforkTimes[v]
  <1>1. /\ last_hardfork \in Versions /\ last_hardfork \in Nat /\ next.version \in Versions
        /\ next.version \in Nat /\ next.time \in Nat /\ Versions = 0 .. Len(HardforkTimes)
        /\ Len(HardforkTimes) \in Nat
    BY ProductionConstants DEF HardforksRight, Versions
  <1>2. \A i \in 1 .. Len(HardforkTimes) : HardforkTimes[i] \in Nat BY ProductionConstants
  <1>3. \A v \in 1 .. last_hardfork : when >= HardforkTimes[v]
    <2> TAKE v \in 1 .. last_hardfork
    <2>1. HardforkTimes[v] \in Nat BY <1>1, <1>2
    <2>2. head_time >= HardforkTimes[v] /\ head_time \in Nat BY DEF NoEarlyHardfork, SlotsRight
    <2> QED BY <2>1, <2>2
  <1>4. CASE next.version > last_hardfork /\ next.time <= when
    <2>1. now = next.version BY <1>4 DEF process_hardforks
    <2>2. next.time = HardforkTime(next.version) /\ next.version # 0 BY <1>1, <1>4
    <2>3. next.time = HardforkTimes[next.version] BY <2>2 DEF HardforkTime
    <2>4. ASSUME NEW v \in 1 .. next.version PROVE when >= HardforkTimes[v]
      <3>1. v \in 1 .. Len(HardforkTimes) /\ next.version \in 1 .. Len(HardforkTimes) BY <1>1, <2>2
      <3>2. v < next.version => HardforkTimes[v] <= HardforkTimes[next.version]
        <4>1. DOMAIN HardforkTimes = 1 .. Len(HardforkTimes) BY ProductionConstants
        <4> QED BY <3>1, <4>1, ProductionConstants
      <3>3. HardforkTimes[v] \in Nat /\ HardforkTimes[next.version] \in Nat BY <1>2, <3>1
      <3> QED BY <1>1, <1>4, <2>3, <3>1, <3>2, <3>3
    <2> QED BY <1>1, <1>4, <2>1, <2>4
  <1>5. CASE ~(next.version > last_hardfork /\ next.time <= when)
    <2>1. now = last_hardfork BY <1>5 DEF process_hardforks
    <2> QED BY <1>1, <1>3, <2>1
  <1> QED BY <1>4, <1>5

\* The next round has witnesses; one of them signed the block, or all have a key.
LEMMA RoundStep ==
  ASSUME WitnessesRight, NEW keys \in SUBSET Producers, NEW w \in Range(shuffled),
         NEW number \in Nat, NEW drawn \in NextRounds(number, keys)
  PROVE  /\ drawn \in Seq(Producers) /\ Len(drawn) \in Nat \ {0}
         /\ Range(drawn) \cap (keys \cup {w}) # {}
  <1>1. CASE number % RoundLength # 0
    <2>1. drawn = shuffled BY <1>1 DEF NextRounds
    <2> QED BY <2>1 DEF WitnessesRight
  <1>2. CASE number % RoundLength = 0
    <2>0. RoundLength \in Nat /\ RoundLength >= 1 BY ProductionConstants
    <2> DEFINE size == IF Cardinality(keys) < RoundLength THEN Cardinality(keys) ELSE RoundLength
    <2>1. PICK T \in (SUBSET keys) \ {{}} : Cardinality(T) = size /\ drawn \in Rounds(T)
      BY <1>2 DEF NextRounds
    <2>2. IsFiniteSet(T) /\ T # {}
      <3>1. T \in SUBSET Producers /\ T # {} BY <2>1
      <3> QED BY <3>1, ProductionConstants, FS_Subset
    <2>3. Cardinality(T) \in Nat /\ Cardinality(T) # 0 BY <2>2, FS_CardinalityType, FS_EmptySet
    <2>4. Cardinality(T) \in Nat /\ Cardinality(T) >= 1 BY <2>3
    <2>5. drawn \in [1 .. Cardinality(T) -> T] BY <2>1 DEF Rounds
    <2> DEFINE c == Cardinality(T)
    <2> HIDE DEF c
    <2>6. c \in Nat /\ c >= 1 /\ drawn \in [1 .. c -> T] BY <2>4, <2>5 DEF c
    <2>7. drawn \in Seq(Producers) /\ Len(drawn) = c BY <2>6
    <2>8. drawn[1] \in T /\ drawn[1] \in Range(drawn) BY <2>6 DEF Range
    <2> QED BY <2>6, <2>7, <2>8
  <1> QED BY <1>1, <1>2

\* Who must stand behind a hardfork that is decided on.
BackedStep ==
  head_block' # head_block /\ head_block' % RoundLength = 0 /\ next_hardfork'.version > last_hardfork
    => Cardinality({w \in Range(shuffled') : running'[w] >= next_hardfork'.version}) >= Required

LEMMA BlockStep ==
  ASSUME ProductionInv, NEW w \in Producers,
         NEW up \in SUBSET (Producers \ hasKey), NEW down \in SUBSET hasKey,
         Follows(w), MayProduce(w), _apply_block(generate_block(w, clock, up, down)),
         clock' = clock, software' = software
  PROVE  ProductionInv' /\ lib' >= lib /\ BackedStep
  <1> DEFINE b == generate_block(w, clock, up, down)
             slot == get_slot_at_time(clock)
  <1>1. /\ SlotsRight /\ WitnessesRight /\ LibRight /\ HardforksRight
        /\ recent \in Bits /\ ParticipationIsCount
        /\ SomeoneMaySign /\ VotesAreBacked /\ NoEarlyHardfork
    BY DEF ProductionInv
  <1>2. /\ b.witness = w /\ b.timestamp = clock /\ b.version = software[w]
        /\ b.vote = block_vote(w) /\ b.up = up /\ b.down = down
    BY DEF generate_block
  <1>3. _apply_block(b) OBVIOUS
  <1> HIDE DEF b
  <1>4. slot > 0 /\ slot \in Nat /\ head_time < clock BY <1>1, SlotAt DEF MayProduce
  <1>5. /\ w = get_scheduled_witness(slot) /\ get_slot_time(slot) = clock /\ w \in hasKey
    BY DEF MayProduce
  <1>6. Missed(b) = slot - 1 BY <1>2 DEF Missed
  <1>c. BlockInterval \in Nat /\ RoundLength \in Nat /\ RoundLength >= 1 BY ProductionConstants
  <1>7. SlotsRight'
    <2>1. get_slot_time(slot) = (aslot + slot) * BlockInterval BY <1>1, <1>4, SlotTime
    <2>2. head_block' = head_block + 1 /\ head_time' = clock /\ aslot' = aslot + slot
      <3>1. aslot' = aslot + (slot - 1) + 1 /\ head_block' = head_block + 1 /\ head_time' = clock
        BY <1>2, <1>3, <1>6 DEF _apply_block
      <3> QED BY <1>1, <1>4, <3>1 DEF SlotsRight
    <2>3. /\ head_block \in Nat /\ aslot \in Nat /\ head_block <= aslot /\ clock \in Nat
      BY <1>1 DEF SlotsRight
    <2>4. head_block' \in Nat /\ aslot' \in Nat /\ head_block' <= aslot' BY <1>4, <2>2, <2>3
    <2>5. aslot' * BlockInterval = head_time' BY <1>5, <2>1, <2>2
    <2>6. head_time' \in Nat /\ clock' \in Nat /\ head_time' <= clock' BY <2>2, <2>3
    <2> QED BY <2>4, <2>5, <2>6 DEF SlotsRight
  <1>8. w \in Range(shuffled) BY <1>1, <1>4, <1>5, ScheduledIs DEF SlotsRight
  <1>9. /\ w \in hasKey' \cup resigned'
        /\ hasKey' \subseteq Producers /\ resigned' \subseteq Producers
    <2>1. hasKey' = ((hasKey \cup up) \ down) \ ShutDown(b) /\ resigned' = (resigned \cup down) \ up
      BY <1>2, <1>3 DEF _apply_block, KeysAfter
    <2>2. w \notin ShutDown(b) BY <1>2 DEF ShutDown, MissedWitnesses
    <2>3. hasKey \subseteq Producers /\ resigned \subseteq Producers BY <1>1 DEF WitnessesRight
    <2> QED BY <1>5, <2>1, <2>2, <2>3
  <1>10. /\ head_block' = head_block + 1 /\ head_block \in Nat /\ head_block + 1 \in Nat
    BY <1>1, <1>3 DEF _apply_block, SlotsRight
  <1>11. /\ shuffled' \in Seq(Producers) /\ Len(shuffled') \in Nat \ {0}
         /\ Range(shuffled') \cap (hasKey' \cup resigned') # {}
    <2>1. shuffled' \in NextRounds(head_block + 1, hasKey') BY <1>3 DEF _apply_block
    <2> QED BY <1>1, <1>8, <1>9, <1>10, <2>1, RoundStep
  <1>12. confirmed' \in [Producers -> Nat] /\ \A x \in Producers : confirmed'[x] <= head_block + 1
    <2>1. confirmed' = [confirmed EXCEPT ![w] = head_block + 1] BY <1>2, <1>3 DEF _apply_block
    <2>2. confirmed \in [Producers -> Nat] /\ \A x \in Producers : confirmed[x] <= head_block
      BY <1>1 DEF WitnessesRight
    <2>3. \A x \in Producers : confirmed[x] \in Nat BY <2>2
    <2> QED BY <1>10, <2>1, <2>2, <2>3
  <1>13. WitnessesRight' BY <1>9, <1>10, <1>11, <1>12 DEF WitnessesRight
  <1>14. /\ lib' \in Nat /\ lib' <= head_block + 1 /\ lib' >= lib
         /\ head_block + 1 < VotingBlock =>
              lib' = IF head_block + 1 > RoundLength THEN head_block + 1 - RoundLength ELSE 0
    <2>1. lib' = update_last_irreversible_block(head_block + 1, confirmed') BY <1>3 DEF _apply_block
    <2> QED BY <1>1, <1>12, <2>1, LibStep
  <1>15. LibRight'
    <2>1. lib' \in Nat /\ lib' <= head_block' BY <1>10, <1>14
    <2>2. head_block' < VotingBlock =>
             lib' = IF head_block' > RoundLength THEN head_block' - RoundLength ELSE 0
      <3> SUFFICES ASSUME head_block' < VotingBlock
                   PROVE  lib' = IF head_block' > RoundLength THEN head_block' - RoundLength ELSE 0
        OBVIOUS
      <3>1. head_block + 1 < VotingBlock BY <1>10
      <3>2. lib' = IF head_block + 1 > RoundLength THEN head_block + 1 - RoundLength ELSE 0
        BY <1>14, <3>1
      <3> QED BY <1>10, <1>14, <1>c, <3>2
    <2> QED BY <2>1, <2>2 DEF LibRight
  <1>16. recent' \in Bits /\ (ParticipationIsCount)'
    <2>0. slot - 1 \in Nat BY <1>4
    <2>1. recent' = SlotsFilled(slot - 1) /\ participation' = CountedSlots(slot - 1)
      BY <1>3, <1>6 DEF _apply_block
    <2> DEFINE m == slot - 1
    <2> HIDE DEF m
    <2>2. /\ SlotsFilled(m) \in Bits
          /\ Ones(SlotsFilled(m)) = Ones(recent) + 1 - Ones(SubSeq(Shifted(m), 1, m + 1))
      BY <1>1, <2>0, OnesKept DEF m
    <2>3. participation = Ones(recent) BY <1>1 DEF ParticipationIsCount
    <2>4. CountedSlots(m) = Ones(SlotsFilled(m)) BY <2>2, <2>3 DEF CountedSlots
    <2> QED BY <2>1, <2>2, <2>4 DEF m, ParticipationIsCount
  <1>17. /\ software[w] \in Versions /\ software[w] \in Nat /\ last_hardfork \in Nat
         /\ last_hardfork \in Versions /\ last_hardfork <= software[w]
    BY <1>1, ProductionConstants DEF HardforksRight, Versions, Follows
  <1>18. block_vote(w) \in {Vote(v) : v \in Versions} /\ block_vote(w).version <= software[w]
    <2>1. PICK v \in Versions : hfVote[w] = Vote(v) BY <1>1 DEF HardforksRight
    <2>2. CASE last_hardfork < software[w]
      <3>1. block_vote(w) = Vote(last_hardfork + 1) BY <2>2 DEF block_vote
      <3>2. last_hardfork + 1 \in Versions /\ last_hardfork + 1 <= software[w]
        BY <1>17, <2>2, ProductionConstants DEF Versions
      <3> QED BY <3>1, <3>2, VoteParts
    <2>3. CASE ~(last_hardfork < software[w]) /\ hfVote[w].version > software[w]
      <3>1. block_vote(w) = Vote(last_hardfork) BY <2>3 DEF block_vote
      <3> QED BY <1>17, <3>1, VoteParts
    <2>4. CASE ~(last_hardfork < software[w]) /\ ~(hfVote[w].version > software[w])
      <3>1. block_vote(w) = hfVote[w] BY <2>4 DEF block_vote
      <3>2. hfVote[w].version \in Nat BY <2>1, VoteParts
      <3> QED BY <1>17, <2>1, <2>4, <3>1, <3>2
    <2> QED BY <2>2, <2>3, <2>4
  <1>19. /\ running' = [running EXCEPT ![w] = software[w]]
         /\ hfVote' = [hfVote EXCEPT ![w] = block_vote(w)]
    BY <1>2, <1>3 DEF _apply_block
  <1>20. /\ running' \in [Producers -> Versions] /\ hfVote' \in [Producers -> {Vote(v) : v \in Versions}]
         /\ \A x \in Producers : hfVote'[x].version <= running'[x]
    <2>1. running \in [Producers -> Versions] /\ hfVote \in [Producers -> {Vote(v) : v \in Versions}]
      BY <1>1 DEF HardforksRight
    <2>2. \A x \in Producers : hfVote[x].version <= running[x] BY <1>1 DEF VotesAreBacked
    <2> QED BY <1>17, <1>18, <1>19, <2>1, <2>2
  <1>21. /\ next_hardfork' \in [version : Versions, time : Nat]
         /\ next_hardfork'.version <= last_hardfork \/ next_hardfork'.time = HardforkTime(next_hardfork'.version)
         /\ (head_block + 1) % RoundLength = 0 /\ next_hardfork'.version > last_hardfork =>
              Cardinality(VotersFor(shuffled', hfVote', next_hardfork')) >= Required
    <2>1. next_hardfork' = _update_witness_hardfork_version_votes(head_block + 1, shuffled', hfVote')
      BY <1>3 DEF _apply_block
    <2> DEFINE nx == next_hardfork'
               vs == hfVote'
               rd == shuffled'
               num == head_block + 1
    <2>2. /\ nx = _update_witness_hardfork_version_votes(num, rd, vs) /\ num \in Nat
          /\ vs \in [Producers -> {Vote(v) : v \in Versions}] /\ HardforksRight
      BY <1>1, <1>10, <1>20, <2>1
    <2> HIDE DEF nx, vs, rd, num
    <2>3. /\ nx \in [version : Versions, time : Nat]
          /\ nx.version <= last_hardfork \/ nx.time = HardforkTime(nx.version)
          /\ num % RoundLength = 0 /\ nx.version > last_hardfork =>
               Cardinality(VotersFor(rd, vs, nx)) >= Required
      BY <2>2, MajorityIs
    <2> QED BY <2>3 DEF nx, vs, rd, num
  <1>22. /\ last_hardfork' \in Versions /\ last_hardfork <= last_hardfork'
         /\ next_hardfork'.version <= last_hardfork' \/ next_hardfork'.time = HardforkTime(next_hardfork'.version)
         /\ \A v \in 1 .. last_hardfork' : clock >= HardforkTimes[v]
    <2>1. last_hardfork' = process_hardforks(next_hardfork', clock) BY <1>2, <1>3 DEF _apply_block
    <2>2. clock \in Nat /\ head_time <= clock BY <1>1 DEF SlotsRight
    <2> QED BY <1>1, <1>21, <2>1, <2>2, HardforkStep
  <1>23. HardforksRight'
    <2>1. software' \in [Producers -> Versions] BY <1>1 DEF HardforksRight
    <2> QED BY <1>20, <1>21, <1>22, <2>1 DEF HardforksRight
  <1>24. NoEarlyHardfork' 
    <2>1. head_time' = clock BY <1>2, <1>3 DEF _apply_block
    <2> QED BY <1>22, <2>1 DEF NoEarlyHardfork
  <1>25. SomeoneMaySign' /\ VotesAreBacked' BY <1>11, <1>20 DEF SomeoneMaySign, VotesAreBacked
  <1>26. BackedStep
    <2> SUFFICES ASSUME (head_block + 1) % RoundLength = 0, next_hardfork'.version > last_hardfork
                 PROVE  Cardinality({x \in Range(shuffled') : running'[x] >= next_hardfork'.version}) >= Required
      BY <1>10 DEF BackedStep
    <2> DEFINE A == {x \in Range(shuffled') : hfVote'[x] = next_hardfork'}
               B == {x \in Range(shuffled') : running'[x] >= next_hardfork'.version}
    <2>1. Cardinality(A) >= Required BY <1>21 DEF VotersFor
    <2>2. \A x \in Range(shuffled') : x \in Producers BY <1>11 DEF Range
    <2>3. \A x \in Producers : running'[x] \in Nat BY <1>20, ProductionConstants DEF Versions
    <2>4. next_hardfork'.version \in Nat BY <1>21, ProductionConstants DEF Versions
    <2>5. A \in SUBSET B
      <3> SUFFICES ASSUME NEW x \in A PROVE x \in B OBVIOUS
      <3>1. x \in Range(shuffled') /\ x \in Producers /\ hfVote'[x] = next_hardfork' BY <2>2
      <3>2. next_hardfork'.version <= running'[x] BY <1>20, <3>1
      <3> QED BY <2>3, <2>4, <3>1, <3>2
    <2>6. IsFiniteSet(B) /\ IsFiniteSet(A)
      <3>1. B \in SUBSET Producers /\ A \in SUBSET Producers BY <2>2
      <3> HIDE DEF A, B
      <3> QED BY <3>1, ProductionConstants, FS_Subset
    <2> HIDE DEF A, B
    <2>7. Cardinality(A) <= Cardinality(B) BY <2>5, <2>6, FS_Subset
    <2>8. Cardinality(A) \in Nat /\ Cardinality(B) \in Nat /\ Required \in Nat
      BY <2>6, FS_CardinalityType, ProductionConstants
    <2>9. Cardinality(B) >= Required BY <2>1, <2>7, <2>8
    <2> QED BY <2>9 DEF B
  <1> QED BY <1>7, <1>13, <1>14, <1>15, <1>16, <1>23, <1>24, <1>25, <1>26 DEF ProductionInv

LEMMA ProductionInitInv == BlockProductionInit => ProductionInv
  <1> SUFFICES ASSUME BlockProductionInit PROVE ProductionInv OBVIOUS
  <1>1. 0 \in Versions BY ProductionConstants DEF Versions
  <1>2. Vote(0) \in [version : Versions, time : Nat] /\ Vote(0).version = 0 BY <1>1, VoteParts
  <1>3. SlotsRight BY ProductionConstants DEF BlockProductionInit, SlotsRight
  <1>4. PICK w \in Producers : shuffled = <<w>> BY DEF BlockProductionInit
  <1>5. shuffled \in Seq(Producers) /\ Len(shuffled) = 1 /\ w \in Range(shuffled) /\ hasKey = Producers
    BY <1>4 DEF BlockProductionInit, Range
  <1>6. WitnessesRight BY <1>5 DEF BlockProductionInit, WitnessesRight
  <1>7. SomeoneMaySign BY <1>5 DEF SomeoneMaySign
  <1>8. LibRight BY ProductionConstants DEF BlockProductionInit, LibRight
  <1>9. HardforksRight BY <1>1, <1>2 DEF BlockProductionInit, HardforksRight
  <1>10. VotesAreBacked BY <1>2 DEF BlockProductionInit, VotesAreBacked
  <1>11. NoEarlyHardfork BY DEF BlockProductionInit, NoEarlyHardfork
  <1>12. recent \in Bits /\ ParticipationIsCount
    <2>1. recent = [i \in 1 .. SlotWindow |-> 1] /\ participation = SlotWindow BY DEF BlockProductionInit
    <2>2. {i \in DOMAIN recent : recent[i] = 1} = 1 .. SlotWindow BY <2>1
    <2>3. Cardinality(1 .. SlotWindow) = SlotWindow BY ProductionConstants, IntervalSize
    <2> QED BY <2>1, <2>2, <2>3 DEF Bits, ParticipationIsCount, Ones
  <1> QED BY <1>3, <1>6, <1>7, <1>8, <1>9, <1>10, <1>11, <1>12 DEF ProductionInv

\* What changes neither blocks nor versions below the last hardfork.
LEMMA BesidesBlocks ==
  ASSUME ProductionInv, UNCHANGED blockVars, clock' \in Nat, clock <= clock',
         software' \in [Producers -> Versions]
  PROVE  ProductionInv' /\ lib' >= lib /\ BackedStep
  <1>1. /\ head_block' = head_block /\ head_time' = head_time /\ aslot' = aslot /\ shuffled' = shuffled
        /\ hasKey' = hasKey /\ resigned' = resigned /\ confirmed' = confirmed /\ running' = running /\ hfVote' = hfVote
        /\ next_hardfork' = next_hardfork /\ last_hardfork' = last_hardfork /\ lib' = lib
        /\ recent' = recent /\ participation' = participation
    BY DEF blockVars
  <1>2. SlotsRight' BY <1>1 DEF ProductionInv, SlotsRight
  <1>3. WitnessesRight' BY <1>1 DEF ProductionInv, WitnessesRight
  <1>4. LibRight' BY <1>1 DEF ProductionInv, LibRight
  <1>5. HardforksRight' BY <1>1 DEF ProductionInv, HardforksRight
  <1>6. recent' \in Bits /\ ParticipationIsCount' /\ SomeoneMaySign' /\ VotesAreBacked' /\ NoEarlyHardfork'
    BY <1>1 DEF ProductionInv, ParticipationIsCount, SomeoneMaySign, VotesAreBacked, NoEarlyHardfork
  <1>7. lib' >= lib BY <1>1 DEF ProductionInv, LibRight
  <1>8. BackedStep BY <1>1 DEF BackedStep
  <1> QED BY <1>2, <1>3, <1>4, <1>5, <1>6, <1>7, <1>8 DEF ProductionInv

LEMMA ProductionNextInv ==
  ProductionInv /\ [BlockProductionNext]_productionVars => ProductionInv' /\ lib' >= lib /\ BackedStep
  <1> SUFFICES ASSUME ProductionInv, [BlockProductionNext]_productionVars
               PROVE  ProductionInv' /\ lib' >= lib /\ BackedStep
    OBVIOUS
  <1>0. clock \in Nat /\ software \in [Producers -> Versions]
    BY DEF ProductionInv, SlotsRight, HardforksRight
  <1>1. ASSUME NEW w \in Producers, maybe_produce_block(w)
        PROVE  ProductionInv' /\ lib' >= lib /\ BackedStep
    <2>1. PICK up \in SUBSET (Producers \ hasKey), down \in SUBSET hasKey :
             _apply_block(generate_block(w, clock, up, down))
      BY <1>1 DEF maybe_produce_block
    <2>2. Follows(w) /\ MayProduce(w) /\ clock' = clock /\ software' = software
      BY <1>1 DEF maybe_produce_block
    <2> QED BY <2>1, <2>2, BlockStep
  <1>2. ASSUME NEW w \in Producers, exception_producing_block(w) \/ block_production_loop(w)
        PROVE  ProductionInv' /\ lib' >= lib /\ BackedStep
    <2>1. UNCHANGED blockVars /\ clock' = clock /\ software' = software
      BY <1>2 DEF exception_producing_block, block_production_loop
    <2> QED BY <1>0, <2>1, BesidesBlocks
  <1>3. ASSUME NEW w \in Producers, NEW v \in Versions, Install(w, v)
        PROVE  ProductionInv' /\ lib' >= lib /\ BackedStep
    <2>1. UNCHANGED blockVars /\ clock' = clock /\ software' = [software EXCEPT ![w] = v]
      BY <1>3 DEF Install
    <2>2. software' \in [Producers -> Versions] BY <1>0, <2>1
    <2> QED BY <1>0, <2>1, <2>2, BesidesBlocks
  <1>4. ASSUME Tick PROVE ProductionInv' /\ lib' >= lib /\ BackedStep
    <2>1. UNCHANGED blockVars /\ clock' = clock + 1 /\ software' = software
      BY <1>4 DEF Tick
    <2>2. clock' \in Nat /\ clock <= clock' /\ software' \in [Producers -> Versions] BY <1>0, <2>1
    <2> QED BY <2>1, <2>2, BesidesBlocks
  <1>5. CASE UNCHANGED productionVars
    <2>1. UNCHANGED blockVars /\ clock' = clock /\ software' = software
      BY <1>5 DEF productionVars
    <2> QED BY <1>0, <2>1, BesidesBlocks
  <1> QED BY <1>1, <1>2, <1>3, <1>4, <1>5 DEF BlockProductionNext

LEMMA ProductionTypes == ProductionInv => BlockProductionTypeOK
  <1> SUFFICES ASSUME ProductionInv PROVE BlockProductionTypeOK OBVIOUS
  <1>1. head_block \in 0 .. aslot /\ head_time \in 0 .. clock /\ aslot * BlockInterval = head_time
    BY DEF ProductionInv, SlotsRight
  <1>2. Range(shuffled) \subseteq Producers /\ shuffled # <<>> /\ hasKey \subseteq Producers
        /\ resigned \subseteq Producers
    <2>1. shuffled \in Seq(Producers) /\ Len(shuffled) # 0 /\ hasKey \subseteq Producers
          /\ resigned \subseteq Producers
      BY DEF ProductionInv, WitnessesRight
    <2>2. \A i \in DOMAIN shuffled : shuffled[i] \in Producers BY <2>1
    <2> QED BY <2>1, <2>2 DEF Range
  <1>3. confirmed \in [Producers -> 0 .. head_block]
    <2>1. /\ confirmed \in [Producers -> Nat] /\ head_block \in Nat
          /\ \A w \in Producers : confirmed[w] <= head_block
      BY DEF ProductionInv, WitnessesRight, SlotsRight
    <2>2. \A w \in Producers : confirmed[w] \in 0 .. head_block BY <2>1
    <2> QED BY <2>1, <2>2
  <1>4. /\ running \in [Producers -> Versions] /\ hfVote \in [Producers -> {Vote(v) : v \in Versions}]
        /\ next_hardfork.version \in Versions /\ last_hardfork \in Versions
        /\ software \in [Producers -> Versions]
    BY DEF ProductionInv, HardforksRight
  <1>5. lib \in 0 .. head_block BY DEF ProductionInv, LibRight, SlotsRight
  <1>6. recent \in [1 .. SlotWindow -> {0, 1}] BY DEF ProductionInv, Bits
  <1> QED BY <1>1, <1>2, <1>3, <1>4, <1>5, <1>6 DEF BlockProductionTypeOK

LEMMA OwnAccepted == ProductionInv => OwnBlocksAccepted
  <1> SUFFICES ASSUME ProductionInv, NEW w \in Producers, Follows(w), MayProduce(w)
               PROVE  AcceptsHeader(generate_block(w, clock, {}, {}))
    BY DEF OwnBlocksAccepted
  <1> DEFINE b == generate_block(w, clock, {}, {})
  <1>1. b.witness = w /\ b.timestamp = clock /\ b.version = software[w] BY DEF generate_block
  <1> HIDE DEF b
  <1>2. get_slot_at_time(clock) > 0 /\ head_time < clock BY SlotAt DEF MayProduce, ProductionInv
  <1>3. w = get_scheduled_witness(get_slot_at_time(clock)) /\ w \in hasKey BY DEF MayProduce
  <1>4. software[w] >= last_hardfork BY DEF Follows
  <1>5. AcceptsHeader(b) BY <1>1, <1>2, <1>3, <1>4 DEF AcceptsHeader, validate_block_header, ReportedVersion
  <1> QED BY <1>5 DEF b

\* For any witnesses, intervals, thresholds and list of hardforks in the order of their
\* times, whoever misses slots, gives up a key or exchanges software: slots run with time,
\* participation is the number of filled slots, missed blocks leave someone in the round who
\* may sign, a node that follows signs as the chain asks, blocks stay irreversible, and
\* hardforks come in their time, decided by witnesses that have them (_apply_block, maybe_produce_block, process_hardforks).
THEOREM ProductionAlwaysSound == BlockProductionSpec => ProductionSound
  <1>1. BlockProductionInit => ProductionInv BY ProductionInitInv
  <1>2. ProductionInv /\ [BlockProductionNext]_productionVars => ProductionInv' BY ProductionNextInv
  <1>3. ProductionInv => BlockProductionTypeOK /\ ParticipationIsCount /\ SomeoneMaySign /\ OwnBlocksAccepted
    BY ProductionTypes, OwnAccepted DEF ProductionInv
  <1>4. ProductionInv => VotesAreBacked /\ NoEarlyHardfork BY DEF ProductionInv
  <1>5. ProductionInv /\ [BlockProductionNext]_productionVars => [lib' >= lib]_productionVars
    BY ProductionNextInv
  <1>6. ProductionInv /\ [BlockProductionNext]_productionVars =>
          [head_block' # head_block /\ head_block' % RoundLength = 0 /\ next_hardfork'.version > last_hardfork
             => Cardinality({w \in Range(shuffled') : running'[w] >= next_hardfork'.version})
                  >= Required]_productionVars
    BY ProductionNextInv DEF BackedStep
  <1> QED BY <1>1, <1>2, <1>3, <1>4, <1>5, <1>6, PTL
          DEF BlockProductionSpec, ProductionSound, LibNeverGoesBack, QuorumBacksHardfork
=============================================================================
