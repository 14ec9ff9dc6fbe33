------------------------- MODULE MCMonitoringAgent -------------------------
(* A small platform for MonitoringAgent: a critical service and the AI     *)
(* engine, a critical and a non-critical table, one critical group.        *)
EXTENDS MonitoringAgent

Up == [health |-> "200", ready |-> "200"]
Unready == [health |-> "200", ready |-> "503"]
Gone == [health |-> "none", ready |-> "none"]

Probes(risk, ai) == [looked |-> TRUE, probe |-> [risk_engine |-> risk, ai_engine |-> ai]]
TableObs(orders, fills) == [looked |-> TRUE, table |-> [orders |-> orders, fills |-> fills]]

Group(err, committed, high, members) ==
  [error |-> err, committed |-> committed, high |-> high, members |-> members]
NoOffsets == [p \in {} |-> 0]
Lagging(n) == Group(FALSE, <<0, 0, -1>>, <<n, 0, 7>>, TRUE)
Cluster(up, missing, g) ==
  [looked |-> TRUE, reachable |-> up, missingTopics |-> missing, group |-> g]

Prices(ages, open) == [looked |-> TRUE, ages |-> ages, open |-> open]
Container(state, health, restarts) ==
  [looked |-> TRUE, name |-> "ai_engine", state |-> state, health |-> health, restarts |-> restarts]
Files(readable, matches) == [looked |-> TRUE, readable |-> readable, matches |-> matches]
Hits(h) == [looked |-> TRUE, hits |-> h]

MCServices == {"risk_engine", "ai_engine"}
MCCriticalServices == {"risk_engine"}
MCTables == {"orders", "fills"}
MCCriticalTables == {"orders"}
MCNoAge == -1

Deploy(profile, live, enabled, writer, durable) ==
  [profile |-> profile, live |-> live, enabled |-> enabled, writer |-> writer,
   durable |-> durable]
MCDeployments ==
  {Deploy("paper", FALSE, FALSE, FALSE, FALSE),
   Deploy("paper", FALSE, TRUE, TRUE, FALSE), Deploy("tiny-live", TRUE, TRUE, TRUE, TRUE),
   Deploy("live", TRUE, TRUE, TRUE, FALSE)}

MCNominal ==
  [services |-> Probes(Up, Up), kafka |-> Cluster(TRUE, FALSE, Lagging(0)),
   dynamodb |-> TableObs("ACTIVE", "ACTIVE"), broker |-> Prices({0, 5}, TRUE),
   docker |-> Container("running", "healthy", 0), logs |-> Files(TRUE, {}),
   container_logs |-> Hits({})]

MCRaw ==
  [services |-> {Probes(Up, Up), Probes(Gone, Up), Probes(Unready, Gone)},
   kafka |-> {Blind, Cluster(TRUE, FALSE, Lagging(0)), Cluster(TRUE, TRUE, Lagging(1)),
              Cluster(TRUE, FALSE, Lagging(3)),
              Cluster(TRUE, FALSE, Group(FALSE, NoOffsets, NoOffsets, FALSE)),
              Cluster(TRUE, FALSE, Group(TRUE, NoOffsets, NoOffsets, FALSE))},
   dynamodb |-> {TableObs("ACTIVE", "ACTIVE"), TableObs("missing", "ACTIVE"),
                 TableObs("UPDATING", "error"), TableObs("ACTIVE", "DELETING")},
   broker |-> {Prices({0, 5}, TRUE), Prices({MCNoAge}, TRUE), Prices({2, 9}, TRUE),
               Prices({9}, FALSE)},
   docker |-> {Container("running", "healthy", 0), Container("running", "healthy", 3)},
   logs |-> {Files(TRUE, {}), Files(TRUE, {"ERROR", "CRITICAL"})},
   container_logs |-> {Hits({}), Hits({"blocker", "warning"})}]

MCMoves ==
  [c \in Components |->
     CASE c = "kafka" -> {Blind, MCNominal[c]}
       [] c = "services" -> {Probes(Gone, Up), MCNominal[c]}
       [] OTHER -> {}]
==============================================================================
