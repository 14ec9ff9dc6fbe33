---------------------------- MODULE RateLimiter ----------------------------
(***************************************************************************)
(* ZerodhaRateLimiter (shared/zerodha/rate_limiter.py): a token bucket per *)
(* endpoint with tokens kept back for critical requests, a queue sorted by *)
(* priority and age, and caps on orders per second, minute and day.        *)
(*                                                                         *)
(* The clock ticks once per token, so that a bucket gains one token a tick *)
(* up to its burst; computing that only when the bucket is looked at, as   *)
(* the code does, gives the same number.  Every request is for one unit,   *)
(* as in all callers.  Nothing is awaited under the lock, so that each     *)
(* operation is one step.                                                  *)
(***************************************************************************)
EXTENDS Integers, Sequences, FiniteSets

CONSTANTS
  Burst, Reserved,           \* burst of a bucket, critical_reserved_tokens
  Second, Minute,            \* their length in ticks
  PerSecond, PerMinute, PerDay,
  MaxRequests, MaxTime, MaxDate

VARIABLES
  clock, date,
  tokens,      \* per endpoint
  requests,    \* in the order of their arrival: priority and endpoint
  waiters,     \* _waiters: indices of requests
  cancelled,   \* those whose caller has gone
  granted,     \* history
  orders,      \* times of the orders granted (the windows, and more)
  today        \* length of _order_day_window

vars == <<clock, date, tokens, requests, waiters, cancelled, granted, orders, today>>

Endpoints == {"ORDER_PLACE", "ORDER_CONTROL"}
Priorities == {0, 1, 2}   \* CRITICAL, HIGH, MEDIUM

Init ==
  /\ clock = 0 /\ date = 1 /\ tokens = [e \in Endpoints |-> Burst]
  /\ requests = <<>> /\ waiters = {} /\ cancelled = {} /\ granted = {} /\ orders = <<>> /\ today = 0

----------------------------------------------------------------------------
\* _reserved_floor.
ReservedFloor(priority) ==
  IF priority = 0 THEN 0 ELSE IF Reserved < Burst - 1 THEN Reserved ELSE Burst - 1

InWindow(times, length) == Cardinality({i \in DOMAIN times : clock - times[i] < length})

\* Mutant: the windows are pruned one tick early.
OrderCapsAvailableEarly(s) ==
  InWindow(s.orders, Second - 1) < PerSecond /\ InWindow(s.orders, Minute - 1) < PerMinute /\ s.today < PerDay

\* _order_caps_available, with _prune_order_windows.
OrderCapsAvailable(s) ==
  InWindow(s.orders, Second) < PerSecond /\ InWindow(s.orders, Minute) < PerMinute /\ s.today < PerDay

\* _can_acquire.
CanAcquire(s, r) ==
  /\ s.tokens[r.endpoint] - 1 >= ReservedFloor(r.priority)
  /\ r.endpoint = "ORDER_PLACE" => OrderCapsAvailable(s)

\* _consume: request n is granted.
Consume(s, n, r) ==
  [tokens |-> [s.tokens EXCEPT ![r.endpoint] = @ - 1],
   orders |-> IF r.endpoint = "ORDER_PLACE" THEN Append(s.orders, clock) ELSE s.orders,
   today |-> IF r.endpoint = "ORDER_PLACE" THEN s.today + 1 ELSE s.today,
   waiters |-> s.waiters \ {n}, granted |-> s.granted \cup {n}]

\* _Waiter.__lt__: by priority, then by age.
Before(a, b) ==
  \/ requests[a].priority < requests[b].priority
  \/ requests[a].priority = requests[b].priority /\ a < b

\* One turn of the loop of _refill: the first of the sorted waiters that can
\* leave the queue does so.
MayLeave(s) == {w \in s.waiters : w \in cancelled \/ CanAcquire(s, requests[w])}
Turn(s) ==
  LET w == CHOOSE x \in MayLeave(s) : \A y \in MayLeave(s) \ {x} : Before(x, y)
  IN  IF MayLeave(s) = {} THEN s
      ELSE IF w \in cancelled THEN [s EXCEPT !.waiters = @ \ {w}]
      ELSE Consume(s, w, requests[w])

\* The loop makes as many turns as there is progress, and not more than there
\* are waiters.
Start == [tokens |-> tokens, orders |-> orders, today |-> today, waiters |-> waiters, granted |-> granted]
Turns[n \in 0 .. Cardinality(waiters)] == IF n = 0 THEN Start ELSE Turn(Turns[n - 1])
Refilled == Turns[Cardinality(waiters)]

Become(s) ==
  /\ tokens' = s.tokens /\ orders' = s.orders /\ today' = s.today
  /\ waiters' = s.waiters /\ granted' = s.granted

----------------------------------------------------------------------------
\* acquire: whoever waits is served first; past the daily cap an order is
\* refused, otherwise granted or queued.
Acquire ==
  /\ Len(requests) < MaxRequests
  /\ \E r \in [priority : Priorities, endpoint : Endpoints] :
       /\ requests' = Append(requests, r)
       /\ LET s == Refilled
              n == Len(requests) + 1
          IN  IF r.endpoint = "ORDER_PLACE" /\ s.today >= PerDay THEN Become(s)
              ELSE IF CanAcquire(s, r) THEN Become(Consume(s, n, r))
              ELSE Become([s EXCEPT !.waiters = @ \cup {n}])
  /\ UNCHANGED <<clock, date, cancelled>>

\* _drain_loop, every 50 milliseconds; get_utilization does the same.
Drain ==
  /\ waiters # {} /\ Become(Refilled) /\ UNCHANGED <<clock, date, requests, cancelled>>

\* The task of a waiter is cancelled; its place is given up at the next refill.
Cancel ==
  /\ \E w \in waiters \ cancelled : cancelled' = cancelled \cup {w}
  /\ UNCHANGED <<clock, date, tokens, requests, waiters, granted, orders, today>>

Tick ==
  /\ clock < MaxTime /\ clock' = clock + 1
  /\ tokens' = [e \in Endpoints |-> IF tokens[e] < Burst THEN tokens[e] + 1 ELSE Burst]
  /\ UNCHANGED <<date, requests, waiters, cancelled, granted, orders, today>>

\* The UTC date changes; only the window of the day is emptied.
NextDate ==
  /\ date < MaxDate /\ date' = date + 1 /\ today' = 0
  /\ UNCHANGED <<clock, tokens, requests, waiters, cancelled, granted, orders>>

Next == Acquire \/ Drain \/ Cancel \/ Tick \/ NextDate

Spec == Init /\ [][Next]_vars

----------------------------------------------------------------------------
Within(length, t) == Cardinality({i \in DOMAIN orders : orders[i] <= t /\ t - orders[i] < length})

\* In no second, minute or day more orders are let through than the exchange
\* allows, whether they are granted at once or from the queue, although the
\* buckets alone would let a burst follow on a burst.
OrdersWithinCaps ==
  /\ today <= PerDay
  /\ \A t \in 0..clock : Within(Second, t) <= PerSecond /\ Within(Minute, t) <= PerMinute

\* Whoever is granted passes over no one who was already waiting at the same
\* endpoint and is more urgent, or as urgent and older: a newcomer is looked at
\* without being queued and never overtakes.  (The converse fails: the newcomer,
\* however urgent, finds the queue served first, and the caps used up.)
GrantsInOrder ==
  \A g \in granted' \ granted, w \in (waiters \cap waiters') \ cancelled :
    requests'[w].endpoint = requests'[g].endpoint => Before(g, w)'

\* Every grant is lawful: within the caps and in its turn.
LawfulGrants == [][OrdersWithinCaps' /\ GrantsInOrder]_vars
============================================================================
