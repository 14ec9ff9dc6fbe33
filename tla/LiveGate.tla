------------------------------ MODULE LiveGate ------------------------------
(***************************************************************************)
(* The promotion gate of live trading (services/shared/                    *)
(* live_gate_checker.py).  check_all reads the approval record once, then  *)
(* gathers 26 checks, most of them a read of a table or a call of a client *)
(* in a thread, and folds their results into one verdict.  The reads end   *)
(* in any order while what they look at may change: each check sees the    *)
(* facts as they were at some moment of the run.                           *)
(*                                                                         *)
(* Every fact is a named value; the nominal value of each is the one that  *)
(* lets the gate pass.  No service writes HEARTBEAT#TEE or                 *)
(* HEARTBEAT#EXECUTION_ENGINE, so that these two are absent or unreadable. *)
(***************************************************************************)
EXTENDS Naturals, FiniteSets, Sequences

CONSTANT MaxChanges   \* facts that differ from the nominal ones, before or during a run

VARIABLES
  fact,      \* what a check would find now
  approval,  \* the approval record as it was fetched, or "unread"
  seen,      \* the facts at every moment of the run, <<>> before it
  verdict,   \* "none" until all checks are done
  changes

vars == <<fact, approval, seen, verdict, changes>>

ApprovalFields == {"token", "stage", "max_capital", "sns", "rollback", "tag", "human"}
Values ==
  [environment |-> {"production", "other"},
   enabled |-> {"true", "false"},
   record |-> {"readable", "unreadable"},
   token |-> {"set", "blank"},
   stage |-> {"stage 1", "other", "blank"},
   max_capital |-> {"within", "over", "garbled", "absent"},
   sns |-> {"true", "false"},
   rollback |-> {"true", "false"},
   tag |-> {"set", "blank"},
   human |-> {"who and when", "who", "when"},
   portfolio |-> {"within", "over", "zero"},
   order_value |-> {"within", "over", "zero"},
   daily_loss |-> {"positive", "zero"},
   watchlist |-> {"some", "empty"},
   strategies |-> {"eligible", "none", "disabled", "paper only", "unreadable"},
   kill |-> {"inactive", "absent", "active", "unreadable"},
   tee |-> {"absent", "unreadable"},
   engine |-> {"absent", "unreadable"},
   recon |-> {"clear", "absent", "required", "unreadable"},
   ltp |-> {"fresh", "stale", "absent", "garbled", "unreadable"},
   session |-> {"token", "no token", "absent", "unreadable"},
   margins |-> {"readable", "no client", "raises"},
   orders |-> {"reachable", "unreachable"},
   alarms |-> {"quiet", "insufficient", "critical", "no client", "raises"},
   clock |-> {"trading", "before open", "after cutoff", "after close", "weekend"}]
Facts == DOMAIN Values

Nominal ==
  [environment |-> "production", enabled |-> "true", record |-> "readable", token |-> "set",
   stage |-> "stage 1", max_capital |-> "within", sns |-> "true", rollback |-> "true",
   tag |-> "set", human |-> "who and when", portfolio |-> "within", order_value |-> "within",
   daily_loss |-> "positive", watchlist |-> "some", strategies |-> "eligible",
   kill |-> "inactive", tee |-> "absent", engine |-> "absent", recon |-> "clear",
   ltp |-> "fresh", session |-> "token", margins |-> "readable", orders |-> "reachable",
   alarms |-> "quiet", clock |-> "trading"]

----------------------------------------------------------------------------
(* The checks.  rec is the fetched record: a record that is missing, or    *)
(* could not be read, has no field set.                                    *)

PassIf(c) == IF c THEN "PASS" ELSE "FAIL"

\* _fetch_approval_record.
Blank == [f \in ApprovalFields |-> "blank"]
Fetched == IF fact.record = "readable" THEN [f \in ApprovalFields |-> fact[f]] ELSE Blank

trading_mode_live(rec, now) == PassIf(now.environment = "production" \/ rec.stage # "blank")
live_trading_enabled(rec, now) == PassIf(now.enabled = "true")
manual_approval_token(rec, now) == PassIf(rec.token # "blank")
live_stage_approved(rec, now) == PassIf(rec.stage = "stage 1")
\* A capital that does not parse counts as zero, hence as within the limit.
max_capital_within_stage_limit(rec, now) ==
  PassIf(rec.max_capital # "over" /\ now.portfolio = "within")
max_order_value_configured(rec, now) == PassIf(now.order_value = "within")
max_daily_loss_configured(rec, now) == PassIf(now.daily_loss = "positive")
allowed_symbols_configured(rec, now) == PassIf(now.watchlist = "some")
allowed_strategies_configured(rec, now) == PassIf(now.strategies \in {"eligible", "paper only"})
\* Whether the offending strategy is enabled is not asked.
no_paper_only_strategy_in_live(rec, now) ==
  PassIf(now.strategies \notin {"paper only", "unreadable"})
\* A missing record means inactive, a failed read fails.
kill_switch_off(rec, now) == PassIf(now.kill \in {"inactive", "absent"})
trade_exit_engine_running(rec, now) == IF now.tee = "fresh" THEN "PASS" ELSE "WARN"
\* Not asked after the close of the market.
mis_square_off_armed(rec, now) ==
  IF now.clock = "after close" \/ now.engine = "fresh" THEN "PASS" ELSE "WARN"
reconciliation_clean(rec, now) == PassIf(now.recon \in {"clear", "absent"})
\* The first symbol of the watchlist stands for all of them.
ltp_fresh(rec, now) ==
  IF now.watchlist = "some" /\ now.ltp = "garbled" THEN "WARN"
  ELSE PassIf(now.watchlist = "some" /\ now.ltp = "fresh")
broker_session_valid(rec, now) == PassIf(now.session = "token")
margins_readable(rec, now) ==
  IF now.margins = "no client" THEN "WARN" ELSE PassIf(now.margins = "readable")
dynamodb_live_table_reachable(rec, now) == PassIf(now.orders = "reachable")
cloudwatch_alarms_active(rec, now) ==
  IF now.alarms \in {"no client", "raises"} THEN "WARN" ELSE PassIf(now.alarms # "insufficient")
sns_alert_tested(rec, now) == PassIf(rec.sns = "true")
no_unresolved_critical_alerts(rec, now) ==
  IF now.alarms \in {"no client", "raises"} THEN "WARN" ELSE PassIf(now.alarms # "critical")
trading_window(rec, now) == PassIf(now.clock \in {"trading", "after cutoff"})
\* Looks at the time of day only.
no_new_entry_cutoff(rec, now) == PassIf(now.clock \notin {"after cutoff", "after close"})
rollback_plan_exists(rec, now) == PassIf(rec.rollback = "true")
release_tag_recorded(rec, now) == PassIf(rec.tag # "blank")
human_approval_recorded(rec, now) == PassIf(rec.human = "who and when")

\* The order of check_all.
Results(rec, now) ==
  <<trading_mode_live(rec, now), live_trading_enabled(rec, now), manual_approval_token(rec, now),
    live_stage_approved(rec, now), max_capital_within_stage_limit(rec, now),
    max_order_value_configured(rec, now), max_daily_loss_configured(rec, now),
    allowed_symbols_configured(rec, now), allowed_strategies_configured(rec, now),
    kill_switch_off(rec, now), trade_exit_engine_running(rec, now), mis_square_off_armed(rec, now),
    reconciliation_clean(rec, now), ltp_fresh(rec, now), broker_session_valid(rec, now),
    margins_readable(rec, now), dynamodb_live_table_reachable(rec, now),
    cloudwatch_alarms_active(rec, now), sns_alert_tested(rec, now),
    no_unresolved_critical_alerts(rec, now), trading_window(rec, now), no_new_entry_cutoff(rec, now),
    rollback_plan_exists(rec, now), release_tag_recorded(rec, now), human_approval_recorded(rec, now),
    no_paper_only_strategy_in_live(rec, now)>>
Checks == 26


\* Mutant: failed checks are reported as warnings.
VerdictLenient(f, w) == IF f \cup w # {} THEN "DEGRADED" ELSE "APPROVED"

\* The fold at the end of check_all.
Verdict(f, w) == IF f # {} THEN "BLOCKED" ELSE IF w # {} THEN "DEGRADED" ELSE "APPROVED"

----------------------------------------------------------------------------
(* What the gate is for, independently of how it finds out: the facts that *)
(* forbid live trading.                                                    *)
Forbidden(f) ==
  CASE f = "enabled" -> {"false"}     [] f = "record" -> {"unreadable"}
    [] f = "portfolio" -> {"over", "zero"} [] f = "order_value" -> {"over", "zero"}
    [] f = "daily_loss" -> {"zero"}        [] f = "watchlist" -> {"empty"}
    [] f = "strategies" -> {"none", "disabled", "paper only", "unreadable"}
    [] f = "kill" -> {"active", "unreadable"}
    [] f = "recon" -> {"required", "unreadable"}
    [] f = "ltp" -> {"stale", "absent", "unreadable"}
    [] f = "session" -> {"no token", "absent", "unreadable"}
    [] f = "margins" -> {"raises"}    [] f = "orders" -> {"unreachable"}
    [] f = "alarms" -> {"insufficient", "critical"}
    [] f = "clock" -> {"before open", "after cutoff", "after close", "weekend"}
    [] OTHER -> {}
Unsafe(now) == {<<f, now[f]>> : f \in {g \in Facts \ ApprovalFields : now[g] \in Forbidden(g)}}
Unsigned(rec) ==
  {f \in ApprovalFields : rec[f] \in {"blank", "other", "over", "false", "who", "when"}}

----------------------------------------------------------------------------
Init ==
  /\ fact = Nominal /\ approval = "unread" /\ seen = <<>> /\ verdict = "none" /\ changes = 0

\* Before or during the run, somebody changes a fact.
Change ==
  /\ changes < MaxChanges /\ verdict = "none" /\ changes' = changes + 1
  /\ \E f \in Facts : \E v \in Values[f] \ {fact[f]} : fact' = [fact EXCEPT ![f] = v]
  /\ seen' = IF seen = <<>> THEN seen ELSE Append(seen, fact')
  /\ UNCHANGED <<approval, verdict>>

FetchApproval ==
  /\ seen = <<>> /\ approval' = Fetched /\ seen' = <<fact>>
  /\ UNCHANGED <<fact, verdict, changes>>

\* The results check c can have: of any moment of the run.
Possible(c) == {Results(approval, seen[i])[c] : i \in DOMAIN seen}
Certain(r) == {c \in 1..Checks : Possible(c) = {r}}
Open(r) == {c \in 1..Checks : r \in Possible(c)} \ Certain(r)

\* The gather ends, and with it check_all.
Conclude ==
  /\ seen # <<>> /\ verdict = "none"
  /\ \E F \in SUBSET Open("FAIL"), W \in SUBSET Open("WARN") :
       /\ F \cap W = {} /\ \A c \in 1..Checks : Possible(c) = {"FAIL", "WARN"} => c \in F \cup W
       /\ verdict' = Verdict(Certain("FAIL") \cup F, Certain("WARN") \cup W)
  /\ UNCHANGED <<fact, approval, seen, changes>>

Next == Change \/ FetchApproval \/ Conclude

Spec == Init /\ [][Next]_vars

----------------------------------------------------------------------------
\* The gate fails closed: a verdict other than BLOCKED means that the fetched
\* record carried every signature, and that no fact that forbids live trading
\* stood through the whole run.  (Two of them in turn may escape: a paper-only
\* strategy that is disabled between the two scans passes both.)  Without the
\* heartbeats that no service writes the gate never says APPROVED.
GateFailsClosed ==
  /\ verdict \in {"APPROVED", "DEGRADED"} =>
       /\ ~ \E p \in Unsafe(seen[1]) : \A i \in DOMAIN seen : p \in Unsafe(seen[i])
       /\ Unsigned(approval) = {}
  /\ verdict # "APPROVED"
============================================================================
