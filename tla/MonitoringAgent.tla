-------------------------- MODULE MonitoringAgent --------------------------
(***************************************************************************)
(* The monitoring agent (services/monitoring_agent/app.py) with the safe   *)
(* actions it may execute (services/execution_engine/safe_actions/).  One  *)
(* cycle collects an observation of every component, classifies the        *)
(* serious findings, lets the executor write the entry block or the kill   *)
(* switch, records status transitions in the incident log and notifies     *)
(* Slack.  The process may crash between any two of these steps; what is   *)
(* durable is the risk-state table, the idempotency table and the incident *)
(* log.                                                                    *)
(***************************************************************************)
EXTENDS HealthDetection

CONSTANTS
  Raw,          \* Raw[c]: the observations component c can offer
  Nominal,      \* Nominal[c]: the healthy one
  Moves,        \* Moves[c]: the observations c may change to while the agent runs
  Deployments,  \* the environments the agent is started in
  AIEngine,     \* the service with an override in the classifier
  None,
  MaxChanges,   \* changes of the platform's condition
  MaxFaults,    \* crashes and failed writes, reads, appends, posts and restores
  MaxClears,    \* times the operator clears the kill switch
  MaxDays       \* the last UTC day

ASSUME AgentAssumption ==
  /\ \A d \in Deployments :
       /\ {d.live, d.enabled, d.writer, d.durable} \subseteq BOOLEAN
       /\ (d.writer => d.enabled) /\ (d.durable => d.writer)
  /\ DOMAIN Nominal = Components
  /\ \A c \in Components : Nominal[c] \in Raw[c] /\ Moves[c] \subseteq Raw[c]
  /\ \A o \in Raw["broker"] : o.looked => IsFiniteSet(o.ages) /\ o.ages \ {NoAge} \subseteq Int
  /\ \A o \in Raw["container_logs"] : o.looked => o.hits \subseteq {"blocker", "critical", "warning"}
  /\ None \notin Statuses
  /\ {MaxChanges, MaxFaults, MaxClears, MaxDays} \subseteq Nat

VARIABLES
  deployed,  \* the environment: profile, live, enabled, writer, durable
  world,     \* the condition of every component, as the collectors see it
  pc,        \* the step of run_once the agent is at
  todo,      \* serious findings not yet acted upon
  marking,   \* the key whose write succeeded and is not yet marked
  memory,    \* _idempotency_store: keys executed by this process
  marked,    \* the durable idempotency table
  halted,    \* KILLSWITCH/GLOBAL active
  blocked,   \* ENTRY_BLOCK/GLOBAL blocked
  written,   \* history: the keys whose write reached the risk-state table
  twice,     \* history: those written more than once
  forgot,    \* history: keys of writes no store remembers or that it failed to show
  last,      \* IncidentLog._last
  log,       \* the last status of each component in the incident file
  posts,     \* the components whose transitions are to be posted
  told,      \* history: the status each component was last posted with
  missed,    \* history: components with a transition that was never posted
  day, changes, faults, clears

vars == <<deployed, world, pc, todo, marking, memory,
          marked, halted, blocked, written, twice, forgot, last, log, posts, told, missed, day,
          changes, faults, clears>>
slack == <<told, missed>>
history == <<written, twice, forgot>>
budget == <<changes, faults, clears>>

WriteTypes == {"BLOCK_NEW_ENTRIES", "ACTIVATE_KILL_SWITCH"}
Subjects == Services \cup Tables
            \cup {"cluster", "topics", "group", "feed", "logs"}
            \cup {o.name : o \in {r \in Raw["docker"] : r.looked}}
Keys == {"SEND_ALERT", "BLOCK_NEW_ENTRIES", "ACTIVATE_KILL_SWITCH"} \X Subjects \X (0..MaxDays)

ASSUME NoneIsNoKey == None \notin Keys

TypeOK ==
  /\ deployed \in Deployments /\ {halted, blocked} \subseteq BOOLEAN
  /\ \A c \in Components : world[c] \in Raw[c]
  /\ pc \in {"idle", "acting", "marking", "recording", "posting"}
  /\ IsFiniteSet(todo) /\ marking \in Keys \cup {None}
  /\ memory \subseteq Keys /\ marked \subseteq Keys
  /\ written \subseteq Keys /\ twice \subseteq written /\ forgot \subseteq Keys
  /\ {last, log, told} \subseteq [Components -> Statuses \cup {None}]
  /\ posts \subseteq Components /\ missed \subseteq Components
  /\ day \in 0..MaxDays /\ changes \in 0..MaxChanges /\ faults \in 0..MaxFaults
  /\ clears \in 0..MaxClears

Init ==
  /\ deployed \in Deployments
  /\ \E c \in Components : \E r \in Raw[c] : world = [Nominal EXCEPT ![c] = r]
  /\ pc = "idle" /\ todo = {} /\ marking = None
  /\ memory = {} /\ marked = {} /\ halted = FALSE /\ blocked = FALSE
  /\ written = {} /\ twice = {} /\ forgot = {}
  /\ last = [c \in Components |-> None] /\ log = last /\ told = last /\ posts = {} /\ missed = {}
  /\ day = 0 /\ changes = 0 /\ faults = 0 /\ clears = 0

----------------------------------------------------------------------------
(* The classifier and the policy.                                          *)

KillCodes == {<<"services", "down">>, <<"kafka", "unreachable">>, <<"dynamodb", "down">>}

BlockCodes == {<<"kafka", "missing_topics">>, <<"kafka", "group_lag_critical">>,
               <<"dynamodb", "degraded">>, <<"broker", "no_fresh_prices">>,
               <<"broker", "feed_very_stale">>}

\* _CODE_TABLE: the first action it proposes, an alert for unknown codes.
CodeAction(component, code) ==
  IF <<component, code>> \in KillCodes THEN "ACTIVATE_KILL_SWITCH"
  ELSE IF <<component, code>> \in BlockCodes THEN "BLOCK_NEW_ENTRIES" ELSE "SEND_ALERT"

\* _SUBJECT_OVERRIDE: the AI engine has a fallback and never halts trading.
Overridden(f) ==
  /\ f.subject = AIEngine
  /\ <<f.component, f.code>> \in
       {<<"services", "down">>, <<"docker", "down">>, <<"docker", "restart_loop">>}

\* classify_finding; run_once takes the first proposed action only.
Classify(f) == IF Overridden(f) THEN "BLOCK_NEW_ENTRIES" ELSE CodeAction(f.component, f.code)

\* SafeActionPolicy.from_env: the trading mode of a risk profile and a live flag.
TradingMode ==
  IF ~deployed.live THEN (IF deployed.profile = "paper" THEN "PAPER" ELSE "LIVE_DISABLED")
  ELSE IF deployed.profile = "tiny-live" THEN "LIVE_STAGE_1" ELSE "LIVE_FULL_BLOCKED"

Scope(type) == IF type \in WriteTypes THEN "RISK_REDUCTION" ELSE "READ_ONLY"

AllowedScopes(m) ==
  CASE m = "PAPER" -> {"READ_ONLY", "PAPER_ONLY", "RISK_REDUCTION", "LIVE_HUMAN_GATED"}
    [] m \in {"LIVE_DISABLED", "LIVE_STAGE_1"} -> {"READ_ONLY", "RISK_REDUCTION", "LIVE_HUMAN_GATED"}
    [] OTHER -> {"READ_ONLY"}

DeniedTypes(m) == IF m = "LIVE_FULL_BLOCKED" THEN {"BLOCK_NEW_ENTRIES"} ELSE {}

\* SafeActionPolicy.is_allowed.
Allowed(type) == Scope(type) \in AllowedScopes(TradingMode) /\ type \notin DeniedTypes(TradingMode)

\* The idempotency key run_once builds: the finding's code is not in it.
Key(f) == <<Classify(f), f.subject, day>>

----------------------------------------------------------------------------
(* One cycle: run_once.                                                    *)

\* collect_once: the collectors run in threads; the executor, when there is
\* one, then gets the findings at or above CRITICAL.
Collect ==
  /\ pc = "idle"
  /\ pc' = IF deployed.enabled THEN "acting" ELSE "recording"
  /\ todo' = IF deployed.enabled THEN Serious(world) ELSE {}
  /\ UNCHANGED <<deployed, world, marking, memory, marked, halted, blocked, history,
                 last, log, posts, slack, day, budget>>

\* DurableIdempotencyStore.check, for the writing types only: a read that fails
\* counts as not found.
FoundDurably(type, key, readOk) ==
  deployed.durable /\ type \in WriteTypes /\ readOk /\ key \in marked

\* Mutant: the in-memory store is not consulted.
SkipDurableOnly(type, key, readOk) == ~Allowed(type) \/ FoundDurably(type, key, readOk)

\* execute() ends without a handler: denied by the policy, or the key is known
\* to the durable store or to this process.
Skip(type, key, readOk) ==
  ~Allowed(type) \/ FoundDurably(type, key, readOk) \/ key \in memory

\* The put into the risk-state table succeeded; what is left are the marks.
Put(key) ==
  /\ written' = written \cup {key}
  /\ twice' = IF key \in written THEN twice \cup {key} ELSE twice
  /\ marking' = key /\ pc' = "marking" /\ UNCHANGED memory

\* _handle_block_new_entries and _handle_activate_kill_switch.
BlockNewEntries(key) == blocked' = TRUE /\ UNCHANGED halted /\ Put(key)
ActivateKillSwitch(key) == halted' = TRUE /\ UNCHANGED blocked /\ Put(key)

\* _handle_send_alert: executed whether or not the alert is delivered.
SendAlert(key) ==
  memory' = memory \cup {key} /\ UNCHANGED <<halted, blocked, written, twice, marking, pc>>

\* _dispatch.
Dispatch(type, key) ==
  CASE type = "BLOCK_NEW_ENTRIES" -> BlockNewEntries(key)
    [] type = "ACTIVATE_KILL_SWITCH" -> ActivateKillSwitch(key)
    [] OTHER -> SendAlert(key)

\* Mutant: a failed put is remembered like a successful one.
DroppedRemembered(key) ==
  memory' = memory \cup {key} /\ UNCHANGED <<pc, marking, halted, blocked, written, twice>>

\* Skipped, a stub for want of a writer, or a put that failed: nothing but an
\* audit line is left of it.
Dropped(key) == UNCHANGED <<pc, marking, memory, halted, blocked, written, twice>>

\* The put took effect and its answer was lost: as for one that failed, the
\* writer reports no success and nothing is remembered.
Unanswered(type, key) ==
  /\ halted' = (halted \/ type = "ACTIVATE_KILL_SWITCH")
  /\ blocked' = (blocked \/ type = "BLOCK_NEW_ENTRIES")
  /\ written' = written \cup {key}
  /\ twice' = IF key \in written THEN twice \cup {key} ELSE twice
  /\ UNCHANGED <<pc, marking, memory>>

Execute(f) ==
  LET type == Classify(f)
      key == Key(f)
  IN  /\ pc = "acting" /\ todo' = todo \ {f}
      /\ \E failure \in {"none", "read", "put", "answer"} :
           /\ failure # "none" => faults < MaxFaults /\ type \in WriteTypes /\ deployed.writer
           /\ failure = "read" => deployed.durable
           /\ failure \in {"put", "answer"} => ~Skip(type, key, TRUE)
           /\ faults' = IF failure = "none" THEN faults ELSE faults + 1
           /\ forgot' = IF failure \in {"read", "answer"} THEN forgot \cup {key} ELSE forgot
           /\ IF \/ Skip(type, key, failure # "read") \/ failure = "put"
                 \/ type \in WriteTypes /\ ~deployed.writer
              THEN Dropped(key)
              ELSE IF failure = "answer" THEN Unanswered(type, key) ELSE Dispatch(type, key)
      /\ UNCHANGED <<deployed, world, marked, last, log, posts, slack, day, changes, clears>>

\* After the put: the durable mark, which may fail without consequence for
\* the result, and the in-memory one.
Mark ==
  /\ pc = "marking"
  /\ \E ok \in BOOLEAN :
       /\ ~ok => deployed.durable /\ faults < MaxFaults
       /\ marked' = IF deployed.durable /\ ok THEN marked \cup {marking} ELSE marked
       /\ faults' = IF ok THEN faults ELSE faults + 1
  /\ memory' = memory \cup {marking} /\ marking' = None /\ pc' = "acting"
  /\ UNCHANGED <<deployed, world, todo, halted, blocked, history, last, log, posts,
                 slack, day, changes, clears>>

ActingDone ==
  /\ pc = "acting" /\ todo = {} /\ pc' = "recording"
  /\ UNCHANGED <<deployed, world, todo, marking, memory, marked, halted, blocked,
                 history, last, log, posts, slack, day, budget>>

Alerting == {"degraded", "down", "unknown"}
MinRank == Rank("degraded")

\* IncidentLog._alertworthy: UNKNOWN ranks below the configured minimum.
Alertworthy(previous, current) ==
  \/ current \in Alerting /\ Rank(current) >= MinRank
  \/ /\ current = "ok" /\ previous \in Alerting
     /\ Rank(previous) >= MinRank

\* IncidentLog.record: edge triggered against _last; an append that fails
\* does not keep _last from moving.
Record ==
  LET st == StatusOf(world)
      moved == {c \in Components : last[c] # st[c]}
  IN  /\ pc = "recording"
      /\ last' = st
      /\ \E failed \in {{}, moved} :
           /\ failed # {} => faults < MaxFaults
           /\ log' = [c \in Components |-> IF c \in moved \ failed THEN st[c] ELSE log[c]]
           /\ faults' = IF failed = {} THEN faults ELSE faults + 1
      /\ posts' = {c \in moved : Alertworthy(last[c], st[c])}
      /\ pc' = IF posts' = {} THEN "idle" ELSE "posting"
      /\ missed' = missed \cup {c \in moved : /\ last[c] = "unknown" /\ st[c] = "ok"
                                             /\ told[c] \in {"degraded", "down"}}
      /\ UNCHANGED <<deployed, world, todo, marking, memory, marked, halted, blocked,
                     history, told, day, changes, clears>>

\* SlackNotifier.notify: a post that fails is not repeated.
Post ==
  /\ pc = "posting" /\ pc' = "idle" /\ posts' = {}
  /\ \E ok \in BOOLEAN :
       /\ ~ok => faults < MaxFaults
       /\ told' = [c \in Components |-> IF ok /\ c \in posts THEN last[c] ELSE told[c]]
       /\ missed' = IF ok THEN missed \ posts ELSE missed \cup posts
       /\ faults' = IF ok THEN faults ELSE faults + 1
  /\ UNCHANGED <<deployed, world, todo, marking, memory, marked, halted, blocked,
                 history, last, log, day, changes, clears>>

----------------------------------------------------------------------------
(* The surroundings.                                                       *)

\* A cycle works on the snapshot it took, so a change during a cycle is the
\* same as one right after it.
WorldChanges ==
  /\ pc = "idle" /\ changes < MaxChanges /\ changes' = changes + 1
  /\ \E c \in Components : \E r \in Moves[c] \ {world[c]} : world' = [world EXCEPT ![c] = r]
  /\ UNCHANGED <<deployed, pc, todo, marking, memory, marked, halted, blocked,
                 history, last, log, posts, slack, day, faults, clears>>

\* The operator clears the kill switch (scripts, outside this component); the
\* agent never reads it, so between two cycles is as good as at any time.
OperatorClears ==
  /\ pc = "idle" /\ halted /\ clears < MaxClears /\ clears' = clears + 1
  /\ halted' = FALSE
  /\ UNCHANGED <<deployed, world, pc, todo, marking, memory, marked, blocked,
                 history, last, log, posts, slack, day, changes, faults>>

NextDay ==
  /\ day < MaxDays /\ day' = day + 1 /\ pc = "idle"
  /\ UNCHANGED <<deployed, world, pc, todo, marking, memory, marked, halted, blocked,
                 history, last, log, posts, slack, budget>>

\* The process dies and starts again: IncidentLog._restore rereads the file,
\* or goes on without it when it cannot.
Crash ==
  /\ faults < MaxFaults /\ faults' = faults + 1
  /\ pc' = "idle" /\ todo' = {} /\ marking' = None /\ memory' = {} /\ posts' = {}
  /\ last' \in {log, [c \in Components |-> None]}
  /\ missed' = missed \cup posts \cup {c \in Components : last[c] # last'[c]}
  /\ forgot' = forgot \cup ((memory \cup ({marking} \ {None})) \ (IF deployed.durable THEN marked ELSE {}))
  /\ UNCHANGED <<deployed, world, marked, halted, blocked, written, twice, log, told, day,
                 changes, clears>>

\* The findings are taken in the report's order, which is fixed.
ExecuteNext == todo # {} /\ Execute(CHOOSE f \in todo : TRUE)
Agent == Collect \/ ExecuteNext \/ Mark \/ ActingDone \/ Record \/ Post
Next == Agent \/ WorldChanges \/ OperatorClears \/ NextDay \/ Crash

Spec == Init /\ [][Next]_vars /\ WF_vars(Agent)

----------------------------------------------------------------------------
(* Properties.                                                             *)

\* The subjects whose outage really stops the platform; a Kafka collector that
\* could not look is one, since its empty details read as "unreachable".
KillSubjects(obs) ==
  {s \in CriticalServices \ {AIEngine} :
     /\ obs["services"].looked
     /\ obs["services"].probe[s].health = "none" /\ obs["services"].probe[s].ready = "none"}
  \cup {s \in {"cluster"} : ~obs["kafka"].looked \/ ~obs["kafka"].reachable}
  \cup {t \in CriticalTables :
          obs["dynamodb"].looked
          /\ obs["dynamodb"].table[t] \notin {"ACTIVE", "CREATING", "UPDATING", "", "error"}}
KillOutage(obs) == KillSubjects(obs) # {}

\* The agent halts trading only upon an observation of a critical service or
\* table that is gone, or of a Kafka cluster it could not reach; never for the
\* AI engine, for lag, restarts, stale prices or log lines, and never in the
\* fully blocked mode (the path from collectors through detectors, classifier
\* and policy to the executor).
HaltsOnlyOnOutage ==
  ~halted /\ halted' => KillOutage(world) /\ deployed.enabled /\ TradingMode # "LIVE_FULL_BLOCKED"

\* A write is repeated for one key and day only if the process does not know of
\* it: a crash loses the in-memory store, the durable mark may fail, may not
\* have been reached or may be unreadable, or the answer to the put was lost.
RepeatsOnlyWhatItForgot == twice \subseteq forgot

\* Every write of the agent has its reason: a halt an outage, a repetition a
\* memory that was lost.
WritesAreJustified == [][HaltsOnlyOnOutage /\ RepeatsOnlyWhatItForgot']_vars

\* Every serious finding comes with a status that is not OK, hence with an
\* incident and a Slack post, except two the collectors do not reflect: a
\* consumer group at critical lag and a container in a restart loop.
SeriousIsVisible ==
  pc = "recording" => \A f \in Serious(world) :
    \/ StatusOf(world)[f.component] # "ok"
    \/ f.code \in {"group_lag_critical", "restart_loop"}

\* Between cycles Slack knows every component that is impaired or down, and
\* no longer reports one that is OK, unless a transition of it was lost: its
\* post failed, the process died around it, or it recovered by way of
\* UNKNOWN, which _alertworthy does not count as a recovery.
SlackReflects ==
  pc = "idle" =>
    \A c \in Components \ missed :
      /\ last[c] \in {"degraded", "down"} => told[c] = last[c]
      /\ last[c] = "ok" => told[c] \in {"ok", None}

\* The state has its types, and people learn what the agent knows: a serious
\* finding shows in a status, and a status in Slack.
ReportsAreTrue == TypeOK /\ SeriousIsVisible /\ SlackReflects

\* If a halting outage persists where the agent may write, the kill switch is
\* active, or it was activated for every subject of the outage earlier the same
\* day and the operator cleared it since.
OutageHalts ==
  []<>(\/ ~(deployed.enabled /\ deployed.writer /\ TradingMode # "LIVE_FULL_BLOCKED")
       \/ halted
       \/ \A s \in KillSubjects(world) :
            <<"ACTIVATE_KILL_SWITCH", s, day>> \in written \cap (memory \cup marked))

\* "There is no code path from anything it observes to [...] the kill switch"
\* (monitoring_agent/README.md).
NothingIsHalted == [][~halted => ~halted']_vars
============================================================================
