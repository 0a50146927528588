------------------------------- MODULE MCStores -------------------------------
(***************************************************************************)
(* The stores that share nothing, side by side: a behaviour is one of the  *)
(* shared database connection, of the workflow's commands, of the artifact *)
(* files, of the artifact cache, of the Gold statistics, of the portfolio  *)
(* files or of the market directory. The others stand still in it.         *)
(***************************************************************************)
EXTENDS SharedConnection, WorkflowCommands, ArtifactStore, ArtifactCache,
        GoldCache, PortfolioRun, MCMarketStore

VARIABLE store

\* Two ways to ask for one work under one key, another work, and a key of its
\* own for work that another command already does.
SmallRequests == {[id |-> "c1", work |-> "a", key |-> "k"], [id |-> "c2", work |-> "a", key |-> "k"],
                  [id |-> "c3", work |-> "b", key |-> "l"], [id |-> "c4", work |-> "a", key |-> "m"]}

\* Two threads of one process and one thread of another. Only the threads of
\* the one process offer different bytes under one name.
SmallProcesses == [p \in Publishers |-> IF p = "p3" THEN "worker" ELSE "api"]
SmallOffers == [p \in Publishers |-> IF p = "p3" THEN {<<"y", "b1">>} ELSE {<<"x", p>>, <<"y", "b1">>}]

\* Two listings of one ISIN on one exchange share their files; the last listing
\* has no quotes at first, and a date less than the others.
SmallListings == <<<<"i1", "x", "a">>, <<"i1", "x", "b">>, <<"i2", "x", "c">>, <<"i3", "x", "d">>>>
SmallDates == <<{1, 2}, {1, 2}, {1, 2}, {2}>>
SmallFirst == <<1, 1, 1, 0>>

\* Two configurations that share their evaluation, and one of another.
SmallConfigs ==
    {[name |-> "a", prefix |-> "p", objectives |-> <<"minimum_variance">>,
      cached |-> TRUE, schedule |-> "monthly"],
     [name |-> "b", prefix |-> "p", objectives |-> <<"risk_parity">>,
      cached |-> TRUE, schedule |-> "monthly"],
     [name |-> "c", prefix |-> "q", objectives |-> <<>>,
      cached |-> FALSE, schedule |-> "annual"]}
SmallRemovable ==
    {Table("backtests"), DrawdownsOf(<<"p", "minimum_variance">>), TableOf("weights", "risk_parity")}

storesVars ==
    <<store, connectionVars, commandVars, storeVars, cacheVars, goldVars, lakeVars, vars>>

StoresInit ==
    /\ store \in {"connection", "commands", "files", "cache", "gold", "portfolio", "market"}
    /\ ConnectionInit /\ CommandsInit /\ StoreInit /\ CacheInit /\ GoldInit /\ LakeInit /\ Init

StoresNext ==
    \/ /\ store = "connection" /\ ConnectionNext
       /\ UNCHANGED <<store, commandVars, storeVars, cacheVars, goldVars, lakeVars, vars>>
    \/ /\ store = "commands" /\ CommandsNext
       /\ UNCHANGED <<store, connectionVars, storeVars, cacheVars, goldVars, lakeVars, vars>>
    \/ /\ store = "files" /\ StoreNext
       /\ UNCHANGED <<store, connectionVars, commandVars, cacheVars, goldVars, lakeVars, vars>>
    \/ /\ store = "cache" /\ CacheNext
       /\ UNCHANGED <<store, connectionVars, commandVars, storeVars, goldVars, lakeVars, vars>>
    \/ /\ store = "gold" /\ GoldNext
       /\ UNCHANGED <<store, connectionVars, commandVars, storeVars, cacheVars, lakeVars, vars>>
    \/ /\ store = "portfolio" /\ LakeNext
       /\ UNCHANGED <<store, connectionVars, commandVars, storeVars, cacheVars, goldVars, vars>>
    \/ /\ store = "market" /\ Next
       /\ UNCHANGED <<store, connectionVars, commandVars, storeVars, cacheVars, goldVars, lakeVars>>

StoresSpec ==
    /\ StoresInit /\ [][StoresNext]_storesVars
    /\ ConnectionFairness /\ CommandsFairness
    /\ WF_vars(store = "market" /\ Refreshing) /\ \A r \in Readers : WF_vars(Reading(r))
=============================================================================
