----------------------------- MODULE MCServices -----------------------------
(***************************************************************************)
(* Instances of what nodes, threads and clients do around the chain:       *)
(* connections to peers and the messages sent over them, the locks of the  *)
(* database, an index whose users rename its objects, transactions of      *)
(* clients on their way into blocks, the signatures they need, and the     *)
(* history of what they did.  These parts share no state here, so each     *)
(* behaviour exercises one of them, named by "part", and the others stay   *)
(* as they began.                                                          *)
(***************************************************************************)
EXTENDS Connections, MessageConnection, DatabaseGuard, GenericIndex, Transactions,
        Authorities, History, TLC

VARIABLE part   \* the part that takes steps

servicesVars ==
    <<part, connVars, messageVars, guardVars, vars, trxVars, authorityVars, historyVars>>

(***************************************************************************)
(* Connections: b and e, with room for two, dial each other, b because e   *)
(* is on its add-once list; a dials b and faults happen; a dials itself    *)
(* and b; b and c, which cannot be dialled, both want a, which has room    *)
(* for one; d is on another chain.                                         *)
(***************************************************************************)
MCRoutes ==
    {<<"a", "b">>, <<"b", "a">>, <<"b", "e">>, <<"e", "b">>, <<"a", "a">>, <<"c", "a">>, <<"d", "a">>}

World(dials, bound, n, requested) ==
    [known |-> [x \in Nodes |-> {y \in Nodes \ Firewalled : <<x, y>> \in DOMAIN dials}],
     dials |-> [r \in Routes |-> IF r \in DOMAIN dials THEN dials[r] ELSE 0],
     bound |-> bound, once |-> {}, faults |-> n, requests |-> requested]

MCWorlds ==
    {[World(<<"b", "e">> :> 1 @@ <<"e", "b">> :> 1, TRUE, 0, 0) EXCEPT !.once = {<<"b", "e">>}],
     World(<<"a", "b">> :> 1, TRUE, 1, 1),
     World(<<"a", "a">> :> 1 @@ <<"a", "b">> :> 1, FALSE, 0, 0),
     World(<<"b", "a">> :> 1 @@ <<"c", "a">> :> 1, FALSE, 0, 0),
     World(<<"d", "a">> :> 1, FALSE, 0, 0)}

MCChainOf == [n \in Nodes |-> IF n = "d" THEN 1 ELSE 0]
OneEach == [n \in Nodes |-> 1]
MCMaximum == [n \in Nodes |-> IF n \in {"b", "e"} THEN 2 ELSE 1]

\* The sizes of messages: none at all, as much as fits beside the header and one more,
\* a block sent by its id, and one that is too large to be read.
MCSizeOf == "s" :> 0 @@ "m" :> 3 @@ "i" :> 4 @@ "h" :> 7

\* Three transactions of two accounts.
MCExpiration == "t1" :> 3 @@ "t2" :> 4 @@ "t3" :> 5
MCTrxSize == "t1" :> 1 @@ "t2" :> 2 @@ "t3" :> 1
MCAuthor == "t1" :> "a" @@ "t2" :> "a" @@ "t3" :> "b"
MCSpends == "t1" :> 1 @@ "t2" :> 2 @@ "t3" :> 2

\* Authorities of three accounts: the own key, other accounts, or both, with one or two
\* needed; the owner's authority is the own key.  The first may name the fourth, "temp",
\* whose key nobody has.
Own(n) == Authority(1, <<<<n, 1>>>>, <<>>)

MayHave(n) ==
    LET named == Signatories \ {n, Temp}
        others == SetToSortSeq(named, <)
    IN  {a \in [threshold : {1, 2}, keys : {<<>>, <<<<n, 1>>>>},
                accounts : {<<>>, [i \in DOMAIN others |-> <<others[i], 1>>]}
                             \cup {<<<<m, 1>>>> : m \in named \cup (IF n = 1 THEN {Temp} ELSE {})}] :
            ~is_impossible(a)}

MCGraphs ==
    {[owner |-> [n \in Signatories |-> Own(n)],
      active |-> <<first, second, third, Own(4)>>,
      posting |-> <<Authority(1, <<>>, <<<<3, 1>>>>), Own(2), third, Own(4)>>] :
        first \in MayHave(1), second \in MayHave(2),
        third \in {Own(3), Authority(1, <<>>, <<<<1, 1>>>>),
                   Authority(2, <<<<3, 1>>>>, <<<<2, 1>>>>)}}

\* One account's active authority or two accounts', an owner's too, posting, an authority
\* of the operation itself, and a mixture that is refused.
Requires(active, owner, posting, other) ==
    [active |-> active, owner |-> owner, posting |-> posting, other |-> other]

MCRequirements ==
    {Requires({1}, {}, {}, <<>>), Requires({4}, {}, {}, <<>>), Requires({1, 2}, {}, {}, <<>>),
     Requires({1}, {2}, {}, <<>>), Requires({}, {}, {1, 3}, <<>>),
     Requires({2}, {}, {}, <<Authority(2, <<<<1, 1>>>>, <<<<3, 1>>>>)>>),
     Requires({1}, {}, {2}, <<>>)}

\* Accounts 1, 3 and 4 have their history recorded.
MCTrackedRanges == <<<<1, 1>>, <<3, 4>>>>

AnyWorld == CHOOSE w \in MCWorlds : TRUE
AnyGraph == CHOOSE g \in MCGraphs : TRUE

ServicesInit ==
    /\ part \in {"connections", "messages", "guard", "index", "transactions", "authorities",
                 "history"}
    /\ ConnectionsInit /\ MessageConnectionInit /\ GuardInit /\ Init /\ TransactionsInit
    /\ HistoryInit
    /\ part # "connections" => world = AnyWorld
    /\ AuthoritiesInit
    /\ part # "authorities" => graph = AnyGraph

ServicesNext ==
    /\ UNCHANGED part
    /\ IF part = "connections" THEN ConnectionsNext ELSE UNCHANGED connVars
    /\ IF part = "messages" THEN MessageConnectionNext ELSE UNCHANGED messageVars
    /\ IF part = "guard" THEN GuardNext ELSE UNCHANGED guardVars
    /\ IF part = "index" THEN Next ELSE UNCHANGED vars
    /\ IF part = "transactions" THEN TransactionsNext ELSE UNCHANGED trxVars
    /\ IF part = "authorities" THEN AuthoritiesNext ELSE UNCHANGED authorityVars
    /\ IF part = "history" THEN HistoryNext ELSE UNCHANGED historyVars

\* The fairness of the parts (ConnectionsFairness, MessageConnectionFairness, GuardFairness
\* and TransactionsFairness), of each where it is the one that takes steps.
In(name, A) == part = name /\ A

ServicesFairness ==
    /\ WF_connVars(In("connections", ConnectionsSteps))
    /\ WF_messageVars(In("messages", send_queued_messages_task))
    /\ WF_messageVars(In("messages", \E w \in writing : writesome(w) \/ WriteFails(w)))
    /\ WF_messageVars(In("messages", \E n \in 1..BufferBlocks : readsome(n, FALSE)))
    /\ WF_messageVars(In("messages", ReadFails \/ peer_inactive \/ peer_closed))
    /\ \A t \in Threads : WF_guardVars(In("guard", Proceed(t)))
    /\ WF_trxVars(In("transactions", on_applied_block))
    /\ WF_trxVars(In("transactions",
                     \E when \in NextTimes : handle_block([time |-> when, txs |-> <<>>])))

ServicesSpec == ServicesInit /\ [][ServicesNext]_servicesVars /\ ServicesFairness

\* Nothing is left waiting: connections are made at both ends or gone, what is queued
\* for a peer arrives or the connection is given up, and clients are answered.
EverythingSettles == ConnectionsSettle /\ QueueEmpties /\ ClientsAnswered
=============================================================================
