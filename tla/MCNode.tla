------------------------------- MODULE MCNode -------------------------------
(***************************************************************************)
(* Instances of what a node does with blocks: it fetches them from its     *)
(* peers, draws up the schedule of witnesses, produces them in its slots   *)
(* and logs them.  These parts share no state here, so each behaviour      *)
(* exercises one of them, named by "part", and the others stay as they     *)
(* began.                                                                  *)
(***************************************************************************)
EXTENDS BlockSync, WitnessSchedule, BlockProduction, BlockLog

VARIABLE part   \* "schedule", "production", "log", "sync", or "alone": one connection that holds

nodeVars == <<part, syncVars, scheduleVars, productionVars, logVars>>

\* One hardfork, due at second 7.
MCHardforkTimes == <<7>>

\* p1 has the whole chain, p2 the blocks up to n.
Chains(n) == [p \in Peers |-> IF p = "p1" THEN LastBlockNum ELSE n]

\* We are far behind both peers; a little behind, and a connection breaks; p1
\* sends no blocks while p2 gets two new ones; p2 is behind us and sends none.
MCStarts ==
    {[head |-> 1, chain |-> Chains(4), breaks |-> 0, silent |-> {}],
     [head |-> 2, chain |-> Chains(4), breaks |-> 1, silent |-> {}],
     [head |-> 2, chain |-> Chains(2), breaks |-> 0, silent |-> {"p1"}],
     [head |-> 4, chain |-> Chains(2), breaks |-> 1, silent |-> {"p2"}]}

NodeInit ==
    /\ part \in {"schedule", "production", "log", "sync", "alone"}
    /\ BlockSyncInit /\ WitnessScheduleInit /\ BlockProductionInit /\ BlockLogInit
    /\ part # "sync" => head_num = 1
    /\ part # "production" => shuffled = <<CHOOSE w \in Producers : TRUE>>

NodeNext ==
    /\ UNCHANGED part
    /\ \/ /\ part = "schedule" /\ WitnessScheduleNext
          /\ UNCHANGED <<syncVars, productionVars, logVars>>
       \/ /\ part = "production" /\ BlockProductionNext
          /\ UNCHANGED <<syncVars, scheduleVars, logVars>>
       \/ /\ part = "log" /\ BlockLogNext
          /\ UNCHANGED <<syncVars, scheduleVars, productionVars>>
       \/ /\ part \in {"sync", "alone"} /\ BlockSyncNext
          /\ part = "alone" => peer'["p2"].conn = "closed"
          /\ UNCHANGED <<scheduleVars, productionVars, logVars>>

\* Rounds go on while blocks are made.  With one connection everything our node
\* and the peer have to do is done in the end (BlockSyncFairness).
Alone(A) == part = "alone" /\ A

NodeFairness ==
    /\ WF_scheduleVars(part = "schedule" /\ update_witness_schedule)
    /\ WF_syncVars(Alone(Handles("p1")))
    /\ WF_syncVars(Alone(new_peer_just_added("p1")))
    /\ WF_syncVars(Alone(peer["p1"].conn # "active" /\ on_connection_closed("p1")))
    /\ WF_syncVars(Alone(fetch_sync_items_loop))
    /\ WF_syncVars(Alone(process_backlog_of_sync_blocks))
    /\ WF_syncVars(Alone(ChainThread))
    /\ WF_syncVars(Alone(fetch_items_loop))
    /\ WF_syncVars(Alone(terminate_inactive_connections_loop))

Spec == NodeInit /\ [][NodeNext]_nodeVars /\ NodeFairness

\* A node whose only connection is to one peer that has the whole chain, stays
\* up and sends what it is asked for gets that chain, and then counts as in sync
\* with the peer for good: the hand-overs between the fetching loop, the backlog
\* and the requests for ids (node.cpp) lose nothing.
OnePeerSyncs == part = "alone" => <>[](head_num = LastBlockNum /\ ~peer["p1"].need)
=============================================================================
