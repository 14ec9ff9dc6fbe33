-------------------------- MODULE HealthDetection --------------------------
(***************************************************************************)
(* What the monitoring agent concludes from one look at the platform: the  *)
(* seven collectors (services/monitoring_agent/collectors/), each turning  *)
(* a raw observation into a status, and the detectors of                   *)
(* detectors/engine.py, each turning the same observation into findings.   *)
(*                                                                         *)
(* An observation is a record; Blind is the observation of a collector     *)
(* that raised or lacks a dependency, so that its result is UNKNOWN with   *)
(* empty details.  Texts, samples and timings are left out.                *)
(***************************************************************************)
EXTENDS Integers, FiniteSets, FiniteSetsExt

CONSTANTS
  Services,          \* the services of rules.yaml
  CriticalServices,  \* those marked critical
  Tables,            \* the DynamoDB tables of rules.yaml
  CriticalTables,    \* those marked critical
  CriticalGroup,     \* whether the consumer group observed is critical
  WarnLag, CritLag,  \* its thresholds
  RestartWarn, RestartCrit,  \* docker thresholds
  MaxAge,            \* age in seconds beyond which the price feed is stale
  NoAge              \* no timestamp could be parsed

ASSUME DetectionAssumption ==
  /\ IsFiniteSet(Services) /\ IsFiniteSet(Tables)
  /\ CriticalServices \subseteq Services /\ CriticalTables \subseteq Tables
  /\ CriticalGroup \in BOOLEAN
  /\ {WarnLag, CritLag, RestartWarn, RestartCrit, MaxAge} \subseteq Nat
  /\ NoAge \notin Nat

Components == {"services", "kafka", "dynamodb", "broker", "docker", "logs",
               "container_logs"}

Statuses == {"ok", "unknown", "degraded", "down"}

\* _SEVERITY_ORDER of snapshot.py: UNKNOWN ranks above OK, below DEGRADED.
Rank(s) == CASE s = "ok" -> 0 [] s = "unknown" -> 1
             [] s = "degraded" -> 2 [] s = "down" -> 3

\* worst(): the highest ranking status, OK of none.
Worst(ss) == IF ss = {} THEN "ok" ELSE CHOOSE s \in ss : \A t \in ss : Rank(t) <= Rank(s)

SeverityRank(v) == CASE v = "info" -> 0 [] v = "warning" -> 1
                     [] v = "critical" -> 2 [] v = "blocker" -> 3

SeverityForStatus(s, critical) ==
  CASE s = "ok" -> "info"
    [] s = "down" -> IF critical THEN "blocker" ELSE "warning"
    [] s = "degraded" -> IF critical THEN "critical" ELSE "warning"
    [] s = "unknown" -> IF critical THEN "critical" ELSE "info"

Blind == [looked |-> FALSE]

\* base.Detector._finding.  The code's prefix is the component.
Finding(component, severity, code, subject) ==
  [component |-> component, severity |-> severity, code |-> code, subject |-> subject]

----------------------------------------------------------------------------
(* services: the answer of each health endpoint.  A probe is "none" when   *)
(* nothing answered, 200, or another HTTP code.                            *)

ServiceStatus(p) ==
  IF p.health = "none" /\ p.ready = "none" THEN "down"
  ELSE IF p.health = "200" /\ p.ready = "200" THEN "ok" ELSE "degraded"

\* A non-critical service that is down only degrades the overall status.
ServicesResult(obs) ==
  IF ~obs.looked \/ Services = {} THEN "unknown"
  ELSE Worst({IF s \notin CriticalServices /\ ServiceStatus(obs.probe[s]) = "down"
              THEN "degraded" ELSE ServiceStatus(obs.probe[s]) : s \in Services})

ServiceFindings(obs) ==
  IF ~obs.looked THEN {}
  ELSE {Finding("services",
                SeverityForStatus(ServiceStatus(obs.probe[s]), s \in CriticalServices),
                ServiceStatus(obs.probe[s]), s) :
          s \in {t \in Services : ServiceStatus(obs.probe[t]) # "ok"}}

----------------------------------------------------------------------------
(* kafka: reachable, critical topics missing, and one consumer group: its  *)
(* offsets unreadable, or committed and high-water offsets per partition.  *)

\* compute_group_lag: partitions without a committed offset or a readable
\* high-water mark are skipped.
GroupLag(committed, high) ==
  Max({0} \cup {high[p] - committed[p] :
                  p \in {q \in DOMAIN committed : committed[q] >= 0 /\ high[q] >= 0}})

\* A group with no committed offsets still counts as found when it has members.
GroupFound(g) == DOMAIN g.committed # {} \/ g.members

MaxLag(g) == IF DOMAIN g.committed = {} THEN 0 ELSE GroupLag(g.committed, g.high)

\* Mutant: an idle critical group leaves the status OK.
KafkaResultIdle(obs) ==
  IF ~obs.looked THEN "unknown"
  ELSE IF ~obs.reachable THEN "down"
  ELSE IF obs.missingTopics \/ (CriticalGroup /\ obs.group.error) THEN "degraded"
  ELSE IF obs.group.error THEN "unknown" ELSE "ok"

\* Consumer lag is recorded but does not enter the status.
KafkaResult(obs) ==
  IF ~obs.looked THEN "unknown"
  ELSE IF ~obs.reachable THEN "down"
  ELSE IF obs.missingTopics
          \/ (CriticalGroup /\ (obs.group.error \/ ~GroupFound(obs.group))) THEN "degraded"
  ELSE IF obs.group.error THEN "unknown" ELSE "ok"

KafkaGroupFindings(g) ==
  LET crit == IF CriticalGroup THEN "critical" ELSE "warning"
  IN  IF g.error THEN {Finding("kafka", crit, "group_offset_read_error", "group")}
      ELSE IF CriticalGroup /\ ~GroupFound(g)
      THEN {Finding("kafka", "critical", "group_idle", "group")}
      ELSE IF MaxLag(g) >= CritLag THEN {Finding("kafka", crit, "group_lag_critical", "group")}
      ELSE IF MaxLag(g) >= WarnLag THEN {Finding("kafka", "warning", "group_lag_warning", "group")}
      ELSE {}

\* Empty details read as not reachable: a blind collector is reported as an
\* unreachable cluster.
KafkaFindings(obs) ==
  IF ~obs.looked \/ ~obs.reachable
  THEN {Finding("kafka", "blocker", "unreachable", "cluster")}
  ELSE (IF obs.missingTopics
        THEN {Finding("kafka", "critical", "missing_topics", "topics")} ELSE {})
       \cup KafkaGroupFindings(obs.group)

----------------------------------------------------------------------------
(* dynamodb: the state DescribeTable reports for each table, "missing"     *)
(* when it raises ResourceNotFound, "error" when it raises anything else.  *)

TableStatus(state, critical) ==
  CASE state = "ACTIVE" -> "ok"
    [] state \in {"CREATING", "UPDATING"} -> "degraded"
    [] state \in {"", "error"} -> "unknown"
    [] state = "missing" -> IF critical THEN "down" ELSE "degraded"
    [] OTHER -> "down"

TStatus(obs, t) == TableStatus(obs.table[t], t \in CriticalTables)

DynamoDBResult(obs) ==
  IF ~obs.looked \/ Tables = {} THEN "unknown"
  ELSE Worst({IF t \notin CriticalTables /\ TStatus(obs, t) = "down" THEN "degraded"
              ELSE TStatus(obs, t) : t \in Tables})

DynamoDBFindings(obs) ==
  IF ~obs.looked THEN {}
  ELSE {Finding("dynamodb", SeverityForStatus(TStatus(obs, t), t \in CriticalTables),
                TStatus(obs, t), t) :
          t \in {u \in Tables : TStatus(obs, u) # "ok"}}

----------------------------------------------------------------------------
(* broker: inferred from the ages of the latest prices.                    *)

NewestAge(obs) == IF obs.ages \ {NoAge} = {} THEN NoAge ELSE Min(obs.ages \ {NoAge})

BrokerResult(obs) ==
  IF ~obs.looked THEN "unknown"
  ELSE IF obs.ages = {} THEN (IF obs.open THEN "degraded" ELSE "ok")
  ELSE IF NewestAge(obs) = NoAge THEN "unknown"
  ELSE IF obs.open /\ NewestAge(obs) > MaxAge THEN "degraded" ELSE "ok"

VeryStale == 3

BrokerFindings(obs) ==
  IF BrokerResult(obs) = "unknown" THEN {Finding("broker", "warning", "state_unknown", "feed")}
  ELSE IF ~obs.open THEN {}
  ELSE IF NewestAge(obs) = NoAge THEN {Finding("broker", "critical", "no_fresh_prices", "feed")}
  ELSE IF NewestAge(obs) > VeryStale * MaxAge
  THEN {Finding("broker", "critical", "feed_very_stale", "feed")}
  ELSE IF NewestAge(obs) > MaxAge THEN {Finding("broker", "warning", "feed_stale", "feed")}
  ELSE {}

----------------------------------------------------------------------------
(* docker: state, health and restart count of one watched container.       *)

ContainerStatus(state, health) ==
  IF state # "running" THEN (IF state = "restarting" THEN "degraded" ELSE "down")
  ELSE IF health = "unhealthy" THEN "degraded" ELSE "ok"

\* A name filter that matches nothing is UNKNOWN; restarts do not enter the
\* status.
DockerResult(obs) ==
  IF ~obs.looked \/ obs.state = "unmatched" THEN "unknown"
  ELSE ContainerStatus(obs.state, obs.health)

DockerFindings(obs) ==
  IF ~obs.looked \/ obs.state = "unmatched" THEN {}
  ELSE LET st == ContainerStatus(obs.state, obs.health)
       IN  IF obs.restarts >= RestartCrit
           THEN {Finding("docker", "critical", "restart_loop", obs.name)}
           ELSE IF obs.restarts >= RestartWarn
           THEN {Finding("docker", "warning", "restarting", obs.name)}
           ELSE IF st # "ok" THEN {Finding("docker", "warning", st, obs.name)}
           ELSE {}

----------------------------------------------------------------------------
(* logs: the patterns matched in files touched within the window.          *)

LogResult(obs) ==
  IF ~obs.looked \/ ~obs.readable THEN "unknown"
  ELSE IF obs.matches # {} THEN "degraded" ELSE "ok"

LogFindings(obs) ==
  IF ~obs.looked \/ ~obs.readable \/ obs.matches = {} THEN {}
  ELSE {Finding("logs", IF "CRITICAL" \in obs.matches THEN "critical" ELSE "warning",
                "errors_present", "logs")}

(* container_logs: the pattern classes hit in the logs of the containers.  *)

ContainerLogResult(obs) ==
  IF ~obs.looked THEN "unknown"
  ELSE IF "blocker" \in obs.hits THEN "down"
  ELSE IF obs.hits # {} THEN "degraded" ELSE "ok"

ContainerLogFindings(obs) ==
  IF ~obs.looked THEN {}
  ELSE {Finding("container_logs", h, h, "logs") : h \in obs.hits}

----------------------------------------------------------------------------
\* Collector.run over build_collectors: the status of each component.
StatusOf(obs) ==
  [c \in Components |->
     CASE c = "services" -> ServicesResult(obs[c])
       [] c = "kafka" -> KafkaResult(obs[c])
       [] c = "dynamodb" -> DynamoDBResult(obs[c])
       [] c = "broker" -> BrokerResult(obs[c])
       [] c = "docker" -> DockerResult(obs[c])
       [] c = "logs" -> LogResult(obs[c])
       [] c = "container_logs" -> ContainerLogResult(obs[c])]

\* SeverityEngine.evaluate.
Evaluate(obs) ==
  ServiceFindings(obs["services"]) \cup KafkaFindings(obs["kafka"])
  \cup DynamoDBFindings(obs["dynamodb"]) \cup BrokerFindings(obs["broker"])
  \cup DockerFindings(obs["docker"]) \cup LogFindings(obs["logs"])
  \cup ContainerLogFindings(obs["container_logs"])

\* SeverityReport.findings_at_or_above(CRITICAL).
Serious(obs) == {f \in Evaluate(obs) : SeverityRank(f.severity) >= SeverityRank("critical")}

============================================================================
