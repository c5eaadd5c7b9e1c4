------------------------------ MODULE History ------------------------------
(***************************************************************************)
(* The history plugin (plugins/blockchain_history): every operation is     *)
(* recorded before it is applied, and listed for each account it concerns  *)
(* and for the development committee.  A record of a withdrawal collects   *)
(* what happens to it later, from which the API reads off how it ended.    *)
(*                                                                         *)
(* Operations are of a few kinds with the accounts they name.  Records go  *)
(* away with undone blocks as everything in the indices does               *)
(* (GenericIndex); here blocks stay.  The node records every kind: it is   *)
(* not given a white or black list of operations, with which it would      *)
(* record nothing of the others.                                           *)
(***************************************************************************)
EXTENDS Naturals, Sequences, FiniteSets, FiniteSetsExt, Functions

CONSTANTS Withdrawers,       \* accounts, numbers in the order of their names
          Dev,             \* the development committee
          TrackedRanges,   \* --track-account-range: pairs <<from, to>>, in order
          MaxHistory       \* bound: operations

ASSUME HistoryAssumption ==
    /\ Withdrawers \subseteq Nat /\ Dev \notin Withdrawers /\ MaxHistory \in Nat
    /\ TrackedRanges \in Seq(Nat \X Nat)
    /\ \A i \in DOMAIN TrackedRanges : TrackedRanges[i][1] <= TrackedRanges[i][2]
    /\ \A i, j \in DOMAIN TrackedRanges : i < j => TrackedRanges[i][2] < TrackedRanges[j][1]

VARIABLES operations,   \* operation_object: what was applied, in order
          listed,         \* for each account and list its records, oldest first
          running         \* the accounts with a withdrawal, as the chain has it

historyVars == <<operations, listed, running>>

Lists == {"all", "to_scr", "to_sp", "withdrawals"}
Record(id) == [op |-> id, progress |-> <<>>]

(***************************************************************************)
(* on_operation.                                                           *)
(***************************************************************************)
\* operation_get_impacted_accounts.  The committee is no account; of what it does only
\* a transfer names one.
Impacted(o) ==
    (CASE o.kind \in {"transfer", "transfer_to_scorumpower", "paid_to_account"} -> {o.from, o.to}
       [] o.kind \in {"withdraw", "paid_to_dev_pool", "finished"} -> {o.from}) \ {Dev}

\* The range before the first one that begins later, or the one that begins there.
Tracked(a) ==
    LET begun == {i \in DOMAIN TrackedRanges : TrackedRanges[i][1] <= a}
    IN  TrackedRanges = <<>> \/ (begun # {} /\ a <= TrackedRanges[Max(begun)][2])

\* What is listed of one account, h, has one sequence of records for each list.
push_history(h, list, id) == [h EXCEPT ![list] = Append(@, Record(id))]

\* A mutant: the withdrawal that is replaced is not told.
push_progress_late(h, list, id) ==
    LET n == Len(h[list])
    IN  IF n = 0 \/ operations'[id].kind = "withdraw" THEN h
        ELSE [h EXCEPT ![list][n].progress = Append(@, id)]

\* Only the newest record is given the operation.
push_progress(h, list, id) ==
    LET n == Len(h[list])
    IN  IF n = 0 THEN h ELSE [h EXCEPT ![list][n].progress = Append(@, id)]

\* operation_visitor: what one account is listed for.  What the committee does comes
\* wrapped in a proposal_virtual_operation, which is listed as any other.
Visited(h, o, a, id) ==
    LET all == push_history(h, "all", id)
        told == push_progress(all, "withdrawals", id)
    IN  IF o.from = Dev /\ a # Dev THEN all
        ELSE CASE o.kind = "transfer" -> push_history(all, "to_scr", id)
               [] o.kind = "transfer_to_scorumpower" -> push_history(all, "to_sp", id)
               [] o.kind = "withdraw" -> push_history(told, "withdrawals", id)
               [] OTHER -> IF a = o.from THEN told ELSE all

\* devcommittee_operation_visitor: the committee's own withdrawals and transfers.
DevVisited(h, o, id) == Visited(h, o, Dev, id)

\* Who is listed for an operation.
ListedFor(o) == {a \in Impacted(o) : Tracked(a)} \cup ({o.from} \cap {Dev})

on_operation(o) ==
    LET id == Len(operations) + 1
    IN  /\ Len(operations) < MaxHistory
        /\ operations' = Append(operations, o)
        /\ listed' = [a \in DOMAIN listed |->
                         IF a \notin ListedFor(o) THEN listed[a]
                         ELSE IF a = Dev THEN DevVisited(listed[a], o, id)
                         ELSE Visited(listed[a], o, a, id)]

(***************************************************************************)
(* The operations the chain applies.                                       *)
(***************************************************************************)
Transfer(kind, a, b) ==
    /\ on_operation([kind |-> kind, from |-> a, to |-> b, amount |-> 1])
    /\ UNCHANGED running

\* A withdrawal begins, takes the place of another, or ends one (amount zero).
NewWithdrawal(a, amount) ==
    /\ amount = 0 => a \in running
    /\ on_operation([kind |-> "withdraw", from |-> a, to |-> a, amount |-> amount])
    /\ running' = IF amount = 0 THEN running \ {a} ELSE running \cup {a}

\* An instalment is paid.
Pay(kind, a, b) ==
    /\ a \in running
    /\ on_operation([kind |-> kind, from |-> a, to |-> b, amount |-> 1])
    /\ UNCHANGED running

Finish(a) ==
    /\ a \in running
    /\ on_operation([kind |-> "finished", from |-> a, to |-> a, amount |-> 0])
    /\ running' = running \ {a}

\* An account that has nothing left to withdraw: no operation tells.
EndSilently(a) ==
    /\ a \in running
    /\ running' = running \ {a}
    /\ UNCHANGED <<operations, listed>>

HistoryInit ==
    /\ operations = <<>> /\ running = {}
    /\ listed = [a \in Withdrawers \cup {Dev} |-> [l \in Lists |-> <<>>]]

HistoryNext ==
    \/ \E a, b \in Withdrawers : \/ Transfer("transfer", a, b)
                             \/ Transfer("transfer_to_scorumpower", a, b)
                             \/ Pay("paid_to_account", a, b)
    \/ \E b \in Withdrawers : Transfer("transfer", Dev, b)
    \/ \E a \in Withdrawers \cup {Dev} :
          \/ \E amount \in 0..1 : NewWithdrawal(a, amount)
          \/ Finish(a) \/ EndSilently(a)
          \/ Pay("paid_to_dev_pool", a, Dev)

HistorySpec == HistoryInit /\ [][HistoryNext]_historyVars

(***************************************************************************)
(* The API.                                                                *)
(***************************************************************************)
\* account_history_api: sequence numbers from 0; the answer is a set of them.  What is
\* asked for otherwise is refused.
MayAsk(from, limit) == limit > 0 /\ from >= limit

get_history(list, a, from, limit) ==
    LET last == Len(listed[a][list]) - 1
        top == IF from < last THEN from ELSE last
        pos == IF top > limit THEN top - limit ELSE 0
    IN  IF listed[a][list] = <<>> THEN {}
        ELSE IF pos > 0 THEN (pos + 1)..top ELSE 0..top

\* blockchain_history_api::get_ops_history: from_op is the first not asked for.
get_ops_history(from_op, limit) ==
    LET n == Len(operations)
        end == IF from_op > n THEN n ELSE from_op
    IN  IF operations = <<>> THEN {} ELSE {id \in 1..n : end < id + limit /\ id <= end}

Paid == {"paid_to_account", "paid_to_dev_pool"}

Withdrawn(r) ==
    SumFunction([i \in DOMAIN r.progress |->
                    LET o == operations[r.progress[i]] IN IF o.kind \in Paid THEN o.amount ELSE 0])

\* How a withdrawal ended is read off the last two entries.
Status(r) ==
    LET n == Len(r.progress)
        Kind(i) == operations[r.progress[i]].kind
    IN  IF operations[r.op].amount = 0 THEN "empty"
        ELSE IF n = 0 THEN "active"
        ELSE IF n > 1 /\ Kind(n - 1) = "finished" THEN "finished"
        ELSE IF Kind(n) = "finished" THEN "finished"
        ELSE IF Kind(n) = "withdraw" THEN "interrupted" ELSE "active"

get_account_sp_to_scr_transfers(a, i) ==
    LET r == listed[a]["withdrawals"][i] IN [status |-> Status(r), withdrawn |-> Withdrawn(r)]

(***************************************************************************)
(* Properties.                                                             *)
(***************************************************************************)
\* The same by looking at all operations: those of the account after this withdrawal and
\* before its next one.
During(a, i) ==
    LET w == listed[a]["withdrawals"]
        end == IF i < Len(w) THEN w[i + 1].op - 1 ELSE Len(operations)
    IN  {id \in (w[i].op + 1)..end : operations[id].from = a}

\* A withdrawal is finished if it was before the next began, interrupted if the next
\* began before, and shown with all that was paid of it; the newest one is shown as
\* active whenever it is (account_history_api, devcommittee_history_api).
StatusIsRight ==
    \A a \in Withdrawers \cup {Dev} : \A i \in DOMAIN listed[a]["withdrawals"] :
        LET r == listed[a]["withdrawals"][i]
            is == get_account_sp_to_scr_transfers(a, i)
            after == During(a, i)
            done == \E id \in after : operations[id].kind = "finished"
            newest == i = Len(listed[a]["withdrawals"])
        IN  operations[r.op].amount > 0 =>
            /\ is.status = (IF done THEN "finished" ELSE IF newest THEN "active" ELSE "interrupted")
            /\ is.withdrawn = Cardinality({id \in after : operations[id].kind \in Paid})
            /\ newest /\ a \in running => is.status = "active"

\* Every operation that names a tracked account is listed for it, once and in order, the
\* transfers of the committee to it too.
ListedOnce ==
    \A a \in Withdrawers :
        LET all == listed[a]["all"]
            tracked == \/ TrackedRanges = <<>>
                       \/ \E i \in DOMAIN TrackedRanges : TrackedRanges[i][1] <= a /\ a <= TrackedRanges[i][2]
        IN  /\ \A i, j \in DOMAIN all : i < j => all[i].op < all[j].op
            /\ {all[i].op : i \in DOMAIN all} =
                  {id \in DOMAIN operations : tracked /\ a \in {operations[id].from, operations[id].to}}

\* Asking for page after page, each from before the last, nothing is left out: a page
\* goes without a gap down from the entry asked for, stays within the range of limit
\* entries before it, and has no fewer than asked for unless it has the first one.
PagesComplete ==
    \A a \in Withdrawers, from, limit \in 0..MaxHistory :
        LET last == Len(listed[a]["all"]) - 1
            top == IF from < last THEN from ELSE last
            page == get_history("all", a, from, limit)
        IN  MayAsk(from, limit) /\ listed[a]["all"] # <<>> =>
                /\ page = Min(page)..top
                /\ top <= Min(page) + limit
                /\ Min(page) = 0 \/ Cardinality(page) >= limit
                /\ get_ops_history(from + limit, limit) =
                      {id \in DOMAIN operations : Cardinality({j \in DOMAIN operations :
                           id <= j /\ j <= from + limit}) \in 1..limit}

HistorySound == StatusIsRight /\ ListedOnce /\ PagesComplete
=============================================================================
