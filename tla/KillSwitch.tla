----------------------------- MODULE KillSwitch -----------------------------
(***************************************************************************)
(* The kill switch of the risk engine: the KillSwitch object that           *)
(* activate() and deactivate() change under an asyncio lock, its row in the *)
(* risk-state table, the KillSwitchCache that rereads the row every second  *)
(* without that lock, and everything that trips or clears the switch: the   *)
(* five monitors of KillSwitchMonitor, the Kafka listener, the consumer-lag *)
(* watchdog, the HTTP API and the command line, which is a process with a   *)
(* KillSwitch object of its own.  A read or a write of the row is two steps *)
(* (issued, answered), because every one of them runs in a thread while the *)
(* event loop goes on.                                                      *)
(***************************************************************************)
EXTENDS Naturals, FiniteSets

CONSTANTS
  LagChecks,      \* consecutive lag readings that trip the switch
  MaxAlarms,      \* bound: alarm conditions that hold at the same time
  MaxErrors,      \* bound: DynamoDB requests that fail
  MaxCrashes,     \* bound: restarts of the risk engine
  MaxClears,      \* bound: times an operator deactivates the switch
  MaxOverlaps     \* bound: times an activation and a poll of the row overlap

ASSUME KillSwitchAssumption ==
  /\ LagChecks \in Nat \ {0}
  /\ MaxAlarms \in Nat /\ MaxErrors \in Nat /\ MaxCrashes \in Nat
  /\ MaxClears \in Nat /\ MaxOverlaps \in Nat

\* What the five monitors watch: too many approvals in the window, no fill since the
\* last one, no signal of a market, an old producer heartbeat, a strategy's loss.
Conditions == {"order_rate", "broker", "consumer", "producer", "strategy"}
Rows == {"absent", "on", "off"}

VARIABLES
  up,          \* the risk engine runs
  active,      \* KillSwitch._active
  cached,      \* KillSwitchCache._cached_active, what validate_signal reads
  row,         \* the KILL_SWITCH item in the risk-state table
  op,          \* the holder of KillSwitch._lock: "free", "set", or the put in flight
  poll,        \* load_state of the poll loop: "idle" or the answer of its get_item
  cli,         \* the command line: "idle" or its put in flight
  alarms,      \* conditions that hold and that a monitor would trip on
  wasActive,   \* KillSwitchMonitor._ks_was_active
  breaches,    \* KafkaLagKillSwitchMonitor._breach_count
  lagFired,    \* KafkaLagKillSwitchMonitor._activated
  inbox,       \* a KILL_SWITCH_ACTIVE event of risk.kill-switch is not yet committed
  errors, crashes, clears, overlaps,   \* what is left of the bounds
  tripped,     \* history: a trip was accepted and no operator cleared it since
  excused      \* history: since that trip a put failed or was overlapped

switchVars == <<up, active, cached, row, op, poll, cli, alarms, wasActive, breaches,
          lagFired, inbox, errors, crashes, clears, overlaps, tripped, excused>>

Puts == {"put_on", "put_off"}
Put(b) == IF b THEN "put_on" ELSE "put_off"
RowOf(p) == IF p = "put_on" THEN "on" ELSE "off"

SwitchTypeOK ==
  /\ up \in BOOLEAN /\ active \in BOOLEAN /\ cached \in BOOLEAN /\ row \in Rows
  /\ op \in {"free", "set"} \cup Puts
  /\ poll \in {"idle"} \cup Rows
  /\ cli \in {"idle"} \cup Puts
  /\ alarms \subseteq Conditions /\ Cardinality(alarms) <= MaxAlarms
  /\ wasActive \in BOOLEAN /\ breaches \in 0 .. LagChecks /\ lagFired \in BOOLEAN
  /\ inbox \in BOOLEAN
  /\ errors \in 0 .. MaxErrors /\ crashes \in 0 .. MaxCrashes
  /\ clears \in 0 .. MaxClears /\ overlaps \in 0 .. MaxOverlaps
  /\ tripped \in BOOLEAN /\ excused \in BOOLEAN

\* start(): KillSwitchCache.start seeds the cache from the row before anything runs.
SwitchInit ==
  /\ up = TRUE /\ row \in Rows /\ active = (row = "on") /\ cached = active
  /\ op = "free" /\ poll = "idle" /\ cli = "idle"
  /\ alarms = {} /\ wasActive = FALSE /\ breaches = 0 /\ lagFired = FALSE
  /\ inbox = FALSE
  /\ errors = MaxErrors /\ crashes = MaxCrashes
  /\ clears = MaxClears /\ overlaps = MaxOverlaps
  /\ tripped = active /\ excused = FALSE

Busy == op # "free" \/ poll # "idle"

\* An activation or a poll that starts while the other is in flight uses up one
\* of the bound.
Overlapping == IF Busy THEN overlaps > 0 /\ overlaps' = overlaps - 1
                           ELSE overlaps' = overlaps

-----------------------------------------------------------------------------
(* activate() and deactivate() *)

\* activate(): a switch already active ignores the call, its row unseen.
Activate ==
  /\ up /\ op = "free"
  /\ IF active THEN UNCHANGED <<active, op, overlaps>>
               ELSE active' = TRUE /\ op' = "set" /\ Overlapping
  /\ tripped' = TRUE
  /\ excused' = (Busy \/ active # (row = "on"))

\* Mutant: the item is built before _active is set.
PersistStateStale ==
  /\ up /\ op = "set"
  /\ op' = Put(row = "on")
  /\ UNCHANGED <<up, active, cached, row, poll, cli, alarms, wasActive, breaches,
                 lagFired, inbox, errors, crashes, clears, overlaps, tripped, excused>>

\* The _persist_state task starts: the item is built from _active as it is now.
PersistState ==
  /\ up /\ op = "set"
  /\ op' = Put(active)
  /\ UNCHANGED <<up, active, cached, row, poll, cli, alarms, wasActive, breaches,
                 lagFired, inbox, errors, crashes, clears, overlaps, tripped, excused>>

\* Its put_item returns; a failure is logged and the lock released all the same.
PersistDone ==
  /\ up /\ op \in Puts
  /\ op' = "free"
  /\ \/ row' = RowOf(op) /\ UNCHANGED <<errors, excused>>
     \/ errors > 0 /\ errors' = errors - 1 /\ excused' = TRUE /\ row' = row
  /\ UNCHANGED <<up, active, cached, poll, cli, alarms, wasActive, breaches,
                 lagFired, inbox, crashes, clears, overlaps, tripped>>

\* deactivate()
Deactivate ==
  /\ up /\ op = "free" /\ active /\ Overlapping
  /\ active' = FALSE /\ op' = "set" /\ tripped' = FALSE /\ excused' = excused

\* POST /risk/kill-switch/activate
ApiActivate ==
  /\ ~active /\ Activate
  /\ UNCHANGED <<up, cached, row, poll, cli, alarms, wasActive, breaches,
                 lagFired, inbox, errors, crashes, clears>>

\* POST /risk/kill-switch/deactivate with the confirmation phrase.
ApiDeactivate ==
  /\ clears > 0 /\ clears' = clears - 1
  /\ Deactivate
  /\ UNCHANGED <<up, cached, row, poll, cli, alarms, wasActive, breaches,
                 lagFired, inbox, errors, crashes>>

-----------------------------------------------------------------------------
(* KillSwitchCache._poll_loop: load_state() without the lock *)

PollRead ==
  /\ up /\ poll = "idle" /\ Overlapping
  /\ poll' = row
  /\ excused' = (excused \/ op # "free")
  /\ UNCHANGED <<up, active, cached, row, op, cli, alarms, wasActive, breaches,
                 lagFired, inbox, errors, crashes, clears, tripped>>

\* Mutant: the poll refreshes the switch and not the cache.
PollApplyUncached ==
  /\ up /\ poll # "idle"
  /\ active' = IF poll = "absent" THEN active ELSE poll = "on"
  /\ poll' = "idle"
  /\ UNCHANGED <<up, cached, row, op, cli, alarms, wasActive, breaches, lagFired, inbox,
                 errors, crashes, clears, overlaps, tripped, excused>>

\* A missing item keeps the state in memory; the cache follows the memory.
PollApply ==
  /\ up /\ poll # "idle"
  /\ active' = IF poll = "absent" THEN active ELSE poll = "on"
  /\ cached' = active'
  /\ poll' = "idle"
  /\ UNCHANGED <<up, row, op, cli, alarms, wasActive, breaches, lagFired, inbox,
                 errors, crashes, clears, overlaps, tripped, excused>>

\* load_state swallows a failed read; the cache still follows the memory.
PollFail ==
  /\ up /\ poll = "idle" /\ errors > 0
  /\ errors' = errors - 1
  /\ cached' = active
  /\ UNCHANGED <<up, active, row, op, poll, cli, alarms, wasActive, breaches,
                 lagFired, inbox, crashes, clears, overlaps, tripped, excused>>

-----------------------------------------------------------------------------
(* kill_switch_cli.py: load_state, the operator's confirmation, then a put *)

\* cmd_activate goes on with a switch it loads inactive.
CliActivate ==
  /\ cli = "idle" /\ row # "on" /\ cli' = "put_on"
  /\ UNCHANGED <<up, active, cached, row, op, poll, alarms, wasActive, breaches,
                 lagFired, inbox, errors, crashes, clears, overlaps, tripped, excused>>

\* cmd_deactivate goes on with a switch it loads active, once confirmed.
CliDeactivate ==
  /\ cli = "idle" /\ row = "on" /\ cli' = "put_off"
  /\ clears > 0 /\ clears' = clears - 1
  /\ UNCHANGED <<up, active, cached, row, op, poll, alarms, wasActive, breaches,
                 lagFired, inbox, errors, crashes, overlaps, tripped, excused>>

\* activate() or deactivate() of the process's own KillSwitch writes the row.
CliPut ==
  /\ cli \in Puts
  /\ cli' = "idle"
  /\ \/ /\ row' = RowOf(cli)
        /\ tripped' = (cli = "put_on")
        /\ excused' = (op # "free")
        /\ errors' = errors
     \/ errors > 0 /\ errors' = errors - 1 /\ UNCHANGED <<row, tripped, excused>>
  /\ UNCHANGED <<up, active, cached, op, poll, alarms, wasActive, breaches,
                 lagFired, inbox, crashes, clears, overlaps>>

-----------------------------------------------------------------------------
(* What trips the switch by itself *)

\* The world: a rate, a silence or a loss passes its threshold, or comes back.
Raise(a) ==
  /\ Cardinality(alarms) < MaxAlarms
  /\ alarms' = alarms \cup {a}
  /\ UNCHANGED <<up, active, cached, row, op, poll, cli, wasActive, breaches,
                 lagFired, inbox, errors, crashes, clears, overlaps, tripped, excused>>

Settle(a) ==
  /\ a \in alarms /\ alarms' = alarms \ {a}
  /\ UNCHANGED <<up, active, cached, row, op, poll, cli, wasActive, breaches,
                 lagFired, inbox, errors, crashes, clears, overlaps, tripped, excused>>

\* Mutant: a monitor trips once, as the lag watchdog does.
WatchOnce(a) ==
  /\ ~active /\ ~tripped /\ a \in alarms
  /\ Activate
  /\ UNCHANGED <<up, cached, row, poll, cli, alarms, wasActive, breaches,
                 lagFired, inbox, errors, crashes, clears>>

\* Each monitor skips its turn while the switch is active.
Watch(a) ==
  /\ ~active /\ a \in alarms
  /\ Activate
  /\ UNCHANGED <<up, cached, row, poll, cli, alarms, wasActive, breaches,
                 lagFired, inbox, errors, crashes, clears>>

MonitorOrderRate == Watch("order_rate")
\* record_broker_ping is called for fills only: the silence is that of the fills.
MonitorBrokerConnectivity == Watch("broker")
\* A heartbeat that is missing or cannot be read raises no condition.
MonitorProducerHeartbeat == Watch("producer")
MonitorStrategyLoss == Watch("strategy")

\* _monitor_consumer_lag restarts its clocks when it sees the switch cleared.
MonitorConsumerLag ==
  LET silent == alarms \ (IF wasActive /\ ~active THEN {"consumer"} ELSE {})
  IN /\ up /\ wasActive' = active /\ alarms' = silent
     /\ \/ /\ active \/ "consumer" \notin silent
           /\ wasActive # active \/ alarms # silent
           /\ UNCHANGED <<active, op, overlaps, tripped, excused>>
        \/ /\ ~active /\ "consumer" \in silent
           /\ Activate
     /\ UNCHANGED <<up, cached, row, poll, cli, breaches, lagFired, inbox,
                    errors, crashes, clears>>

\* check_once with a lag over the threshold, and with a lag under it.
LagOver ==
  /\ up /\ ~lagFired
  /\ IF breaches + 1 >= LagChecks
     THEN Activate /\ lagFired' = TRUE
     ELSE UNCHANGED <<active, op, overlaps, tripped, excused, lagFired>>
  /\ breaches' = breaches + 1
  /\ UNCHANGED <<up, cached, row, poll, cli, alarms, wasActive, inbox, errors, crashes, clears>>

LagUnder ==
  /\ up /\ ~lagFired /\ breaches > 0 /\ breaches' = 0
  /\ UNCHANGED <<up, active, cached, row, op, poll, cli, alarms, wasActive,
                 lagFired, inbox, errors, crashes, clears, overlaps, tripped, excused>>

\* KafkaLagWatchdog runs check_once every second.
LagWatchdog == LagOver \/ LagUnder

-----------------------------------------------------------------------------
(* KafkaKillSwitchListener *)

\* A KILL_SWITCH_CLEARED event is only logged and a malformed one goes to the dead
\* letters; neither touches the switch.
Send ==
  /\ ~inbox /\ inbox' = TRUE
  /\ UNCHANGED <<up, active, cached, row, op, poll, cli, alarms, wasActive,
                 breaches, lagFired, errors, crashes, clears, overlaps, tripped, excused>>

ListenActive ==
  /\ inbox /\ ~active
  /\ Activate
  /\ UNCHANGED <<up, cached, row, poll, cli, alarms, wasActive, breaches,
                 lagFired, inbox, errors, crashes, clears>>

\* The offset is committed when activate() has returned.
ListenCommit ==
  /\ up /\ inbox /\ active /\ op = "free"
  /\ inbox' = FALSE
  /\ UNCHANGED <<up, active, cached, row, op, poll, cli, alarms, wasActive,
                 breaches, lagFired, errors, crashes, clears, overlaps, tripped, excused>>

-----------------------------------------------------------------------------
(* A restart of the risk engine loses all but the row and the inbox *)

Crash ==
  /\ up /\ crashes > 0 /\ crashes' = crashes - 1
  /\ up' = FALSE /\ active' = FALSE /\ cached' = FALSE
  /\ op' = "free" /\ poll' = "idle"
  /\ wasActive' = FALSE /\ breaches' = 0 /\ lagFired' = FALSE
  /\ alarms' = {}
  /\ excused' = (excused \/ op # "free")
  /\ UNCHANGED <<row, cli, inbox, errors, clears, overlaps, tripped>>

\* KillSwitchCache.start: a failed read starts the engine with the switch off.
Boot ==
  /\ ~up /\ up' = TRUE
  /\ \/ active' = (row = "on") /\ errors' = errors
     \/ errors > 0 /\ errors' = errors - 1 /\ active' = FALSE
  /\ cached' = active'
  /\ UNCHANGED <<row, op, poll, cli, alarms, wasActive, breaches, lagFired, inbox,
                 crashes, clears, overlaps, tripped, excused>>

Monitors ==
  \/ MonitorOrderRate \/ MonitorBrokerConnectivity \/ MonitorConsumerLag
  \/ MonitorProducerHeartbeat \/ MonitorStrategyLoss

SwitchNext ==
  \/ PersistState \/ PersistDone \/ ApiActivate \/ ApiDeactivate
  \/ PollRead \/ PollApply \/ PollFail
  \/ CliActivate \/ CliDeactivate \/ CliPut
  \/ \E a \in Conditions : Raise(a) \/ Settle(a)
  \/ Monitors
  \/ LagWatchdog
  \/ Send \/ ListenActive \/ ListenCommit
  \/ Crash \/ Boot

\* The poll loop, the monitors and the tasks of activate() run as long as the engine
\* does.  A monitor wakes at times of its own, so that it does not find a poll in
\* flight every time.
Fairness ==
  /\ WF_switchVars(PersistState \/ PersistDone)
  /\ WF_switchVars(PollRead \/ PollApply \/ Boot)
  /\ SF_switchVars(Monitors)

SwitchSpec == SwitchInit /\ [][SwitchNext]_switchVars /\ Fairness
-----------------------------------------------------------------------------
(* Properties *)

\* The state has its types, and a trip that no operator cleared, whose put did not fail and that no poll read
\* crossed, is in the row as soon as activate() has returned, so that neither a
\* poll nor a restart resumes trading.
TripKept ==
  /\ SwitchTypeOK
  /\ tripped /\ ~excused => IF op = "free" THEN row = "on" ELSE active

\* The same without excuses, as the class comment of KillSwitch has it: a trip that
\* no operator cleared is never undone.
HaltSurvives == tripped /\ op = "free" => active \/ row = "on"

\* validate_signal's copy of the switch follows the row, whoever wrote it.
RowReachesCache == []<>(cached \/ row # "on")

\* A condition that lasts stops trading, through restarts, failed puts and crossed polls.
AlarmHalts == []<>(cached \/ alarms = {})
=============================================================================
