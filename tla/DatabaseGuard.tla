--------------------------- MODULE DatabaseGuard ---------------------------
(***************************************************************************)
(* The locks of the chain database (chainbase/database_guard.hpp): readers *)
(* and writers of several threads, with a ring of mutexes.  Who waits too  *)
(* long gives up if it is a reader; a writer moves everybody who comes     *)
(* later to the next mutex, made anew, and leaves those who hold or wait   *)
(* for the old ones alone.                                                 *)
(*                                                                         *)
(* The move is not atomic: the number is incremented, the mutex with the   *)
(* number that is current by then is constructed in place, and the one     *)
(* that is current after that is waited for.  A mutex that is constructed  *)
(* again forgets its holders.  Their unlock is undefined: it does nothing, *)
(* frees the mutex, takes a reader away, or, when the number of readers    *)
(* goes below zero, leaves a mutex that looks held for ever.               *)
(*                                                                         *)
(* A writer is therefore not alone once somebody waited too long, and no   *)
(* property says so.  What the ring is for is that nobody hangs.           *)
(***************************************************************************)
EXTENDS Naturals

CONSTANTS Threads,       \* the threads
          Locks,           \* CHAINBASE_NUM_RW_LOCKS
          MaxCalls         \* bound: calls

ASSUME DatabaseGuardAssumption == Locks \in Nat \ {0} /\ MaxCalls \in Nat

VARIABLES at,          \* for each thread where it is in its call, with which lock, and
                       \* whose moves were going on when it began to wait
          mutex,         \* for each lock its readers, its writer and whether it is stuck
          current_lock,  \* _current_lock, modulo the number of locks
          calls          \* how many calls there were

guardVars == <<at, mutex, current_lock, calls>>

Out == [op |-> "out", lock |-> 0, during |-> {}]
Waits(op) == [op |-> op, lock |-> current_lock,
              during |-> {u \in Threads : at[u].op \in {"moves", "moved"}}]
Free == [readers |-> {}, writer |-> {}, stuck |-> FALSE]

\* The lock is chosen when the call begins.
Begin(t, op) ==
    /\ at[t] = Out /\ calls < MaxCalls
    /\ calls' = calls + 1
    /\ at' = [at EXCEPT ![t] = Waits(op)]
    /\ UNCHANGED <<mutex, current_lock>>

CanRead(m) == m.writer = {} /\ ~m.stuck
CanWrite(m) == m.writer = {} /\ m.readers = {} /\ ~m.stuck

\* The lock is got within the time.
GetRead(t) ==
    /\ at[t].op = "waits_to_read" /\ CanRead(mutex[at[t].lock])
    /\ mutex' = [mutex EXCEPT ![at[t].lock].readers = @ \cup {t}]
    /\ at' = [at EXCEPT ![t].op = "reads", ![t].during = {}]
    /\ UNCHANGED <<current_lock, calls>>

GetWrite(t) ==
    /\ at[t].op = "waits_to_write" /\ CanWrite(mutex[at[t].lock])
    /\ mutex' = [mutex EXCEPT ![at[t].lock].writer = {t}]
    /\ at' = [at EXCEPT ![t].op = "writes", ![t].during = {}]
    /\ UNCHANGED <<current_lock, calls>>

\* A mutant: a reader waits without a limit.
ReadWaitsOn(t) == at[t].op = "waits_to_read" /\ UNCHANGED guardVars

\* A reader that waited too long throws.
ReadTimeout(t) ==
    /\ at[t].op = "waits_to_read" /\ ~CanRead(mutex[at[t].lock])
    /\ at' = [at EXCEPT ![t] = Out]
    /\ UNCHANGED <<mutex, current_lock, calls>>

\* next_lock: the number first, ...
next_lock(t) ==
    /\ current_lock' = (current_lock + 1) % Locks
    /\ at' = [at EXCEPT ![t].op = "moves"]
    /\ UNCHANGED mutex

\* A writer that waited too long.  The second it waits is longer than a move that was
\* going on when it began; one that began later may still be going on.
WriteTimeout(t) ==
    /\ at[t].op = "waits_to_write" /\ ~CanWrite(mutex[at[t].lock])
    /\ at[t].during = {}
    /\ next_lock(t)
    /\ UNCHANGED calls

\* ... then the mutex, whoever holds it, ...
Construct(t) ==
    /\ at[t].op = "moves"
    /\ mutex' = [mutex EXCEPT ![current_lock] = Free]
    /\ at' = [at EXCEPT ![t].op = "moved"]
    /\ UNCHANGED <<current_lock, calls>>

\* ... and the writer waits for the one that is current now.
WaitForCurrent(t) ==
    /\ at[t].op = "moved"
    /\ at' = [u \in Threads |-> [(IF u = t THEN Waits("waits_to_write") ELSE at[u])
                                   EXCEPT !.during = @ \ {t}]]
    /\ UNCHANGED <<mutex, current_lock, calls>>

\* What an unlock by t makes of a mutex.
Unlocked(m, t) ==
    IF t \in m.readers \cup m.writer
    THEN {[m EXCEPT !.readers = @ \ {t}, !.writer = @ \ {t}]}
    ELSE {m, Free, [m EXCEPT !.stuck = TRUE]} \cup {[m EXCEPT !.readers = @ \ {r}] : r \in m.readers}

\* The callback ends.
Release(t) ==
    /\ at[t].op \in {"reads", "writes"}
    /\ \E m \in Unlocked(mutex[at[t].lock], t) : mutex' = [mutex EXCEPT ![at[t].lock] = m]
    /\ at' = [at EXCEPT ![t] = Out]
    /\ UNCHANGED <<current_lock, calls>>

GuardInit ==
    /\ at = [t \in Threads |-> Out] /\ mutex = [l \in 0..(Locks - 1) |-> Free]
    /\ current_lock = 0 /\ calls = 0

\* What a thread does once it has called.
Proceed(t) ==
    \/ GetRead(t) \/ GetWrite(t) \/ ReadTimeout(t) \/ WriteTimeout(t)
    \/ Construct(t) \/ WaitForCurrent(t) \/ Release(t)

GuardNext ==
    \E t \in Threads : Begin(t, "waits_to_read") \/ Begin(t, "waits_to_write") \/ Proceed(t)

\* Callbacks end, and who waits gets the lock or, in the end, times out.
GuardFairness == \A t \in Threads : WF_guardVars(Proceed(t))

GuardSpec == GuardInit /\ [][GuardNext]_guardVars /\ GuardFairness

(***************************************************************************)
(* Properties.                                                             *)
(***************************************************************************)
\* Of a bounded number of calls everybody comes out again: a mutex that an
\* unlock left looking held, because another writer's move had made it anew, keeps no
\* writer waiting for ever, and however moves interleave a writer ends up with a mutex
\* it can get (with_write_lock moves on, with_read_lock throws).
EverybodyEnds == <>[](\A t \in Threads : at[t].op = "out")
=============================================================================
