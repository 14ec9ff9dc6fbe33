------------------------------ MODULE RiskGate ------------------------------
(***************************************************************************)
(* RiskEngineService.validate_signal and its validators, over the tables    *)
(* that others write: the entry block and the reconciliation flag, which    *)
(* are cached; the positions and the open orders, which are read one after  *)
(* the other, from replicas that lag, while the execution engine places and *)
(* fills; and the market data, of which any part may be missing.  One       *)
(* symbol; one validation at a time.                                        *)
(***************************************************************************)
EXTENDS Integers, FiniteSets, FiniteSetsExt

CONSTANTS
  Signals,       \* ids of signals
  Closeout,      \* those with is_closeout
  Qty,           \* Signals -> Nat: quantity (the price is 1)
  Buys,          \* those of direction BUY
  Profile,       \* RISK_PROFILE: "paper" or "live"
  Ages,          \* ages, in seconds, at which a signal is validated
  Market,        \* market data a validation may find
  Limits,        \* record of RiskLimits and the thresholds of the validators
  BlockTTL, ReconTTL,     \* lifetimes of the cached flags
  ReadTime,      \* a get_item answers or fails within this time, and lags no more
  MaxTime, MaxFaults      \* bounds: the clock; failed reads and changes of the flags

ASSUME GateAssumption ==
  /\ IsFiniteSet(Signals) /\ Closeout \subseteq Signals /\ Buys \subseteq Signals
  /\ Qty \in [Signals -> Nat] /\ Limits.maxPerSymbol \in Nat
  /\ Profile \in {"paper", "live"}
  /\ BlockTTL \in Nat \ {0} /\ ReconTTL \in Nat /\ ReadTime \in Nat /\ MaxTime \in Nat /\ MaxFaults \in Nat

VARIABLES
  live,          \* the signals with paper_trade = FALSE
  now,           \* seconds
  blockRow,      \* ENTRY_BLOCK/GLOBAL.blocked
  blockSince,    \* history: when it was last set
  reconRow,      \* RECONCILIATION.required
  eb, rc,        \* the validators' caches
  halted,        \* the kill switch
  order,         \* Signals -> status of the order of an approved signal
  pos,           \* quantity of the POSITION# item
  shown,         \* the replica the validators read, and symbol-status-index: [order, pos]
  v,             \* the running validation
  decided,       \* signals with a decision: Signals -> {"none", "approved", "rejected"}
  window,        \* history: a validation read the book in the middle of a change
  faults

tables == <<live, blockRow, blockSince, reconRow>>
book == <<order, pos, shown>>
vars == <<now, tables, eb, rc, halted, book, v, decided, window, faults>>

None == -1
Idle == [pc |-> "idle", sig |-> "none", start |-> 0, got |-> FALSE, read |-> 0, conf |-> {},
         pend |-> 0, todo |-> {}, data |-> "none", fits |-> FALSE]
InFlight == {"PENDING", "PLACED", "PARTIALLY_FILLED"}
\* On its way to the position, in no status that is asked for.
Unasked == {"approved", "ACK_UNKNOWN", "FILLED"}
Statuses == InFlight \cup Unasked \cup {"none", "booked", "CANCELLED"}

TypeOK ==
  /\ now \in 0 .. MaxTime /\ blockSince \in 0 .. MaxTime
  /\ eb.at <= now /\ rc.at <= now
  /\ order \in [Signals -> Statuses] /\ shown.order \in [Signals -> Statuses]
  /\ pos \in Int /\ shown.pos \in Int
  /\ v.pc # "idle" => v.sig \in Signals /\ decided[v.sig] = "none" /\ v.start <= now
  /\ \A s \in Signals : order[s] # "none" <=> decided[s] = "approved"

Init ==
  /\ live \in SUBSET Signals
  /\ now = 0 /\ blockRow = FALSE /\ blockSince = 0 /\ reconRow = FALSE
  /\ eb = [blocked |-> FALSE, ok |-> TRUE, at |-> -BlockTTL]
  /\ rc = [required |-> FALSE, at |-> -ReconTTL]
  /\ halted = FALSE
  /\ order = [s \in Signals |-> "none"] /\ pos = 0 /\ shown = [order |-> order, pos |-> 0]
  /\ v = Idle /\ decided = [s \in Signals |-> "none"]
  /\ window = FALSE /\ faults = MaxFaults

Fault == faults > 0 /\ faults' = faults - 1

-----------------------------------------------------------------------------
(* The world around the gate *)

Tick ==
  /\ now < MaxTime /\ now' = now + 1
  /\ v.pc = "blockread" => now - v.read < ReadTime
  /\ UNCHANGED <<tables, eb, rc, halted, book, v, decided, window, faults>>

\* ENTRY_BLOCK is put by a safe action or an operator, and cleared by an operator.
SetBlock ==
  /\ blockRow' = ~blockRow /\ Fault
  /\ blockSince' = IF blockRow THEN blockSince ELSE now
  /\ UNCHANGED <<now, live, reconRow, eb, rc, halted, book, v, decided, window>>

SetRecon ==
  /\ reconRow' = ~reconRow /\ Fault
  /\ UNCHANGED <<now, live, blockRow, blockSince, eb, rc, halted, book, v, decided, window>>

\* While a validation is between its first and its last read of the book.
Reading == v.pc = "position"

\* The execution engine: the order record, the broker's answer, the fill (the status
\* first, the position after it), or a cancellation.
Submit(s) ==
  /\ order[s] = "approved" /\ order' = [order EXCEPT ![s] = "PENDING"]
  /\ UNCHANGED <<now, tables, eb, rc, halted, pos, shown, v, decided, window, faults>>

\* The broker's answer, or what is found of the order when none came.
Place(s) ==
  /\ order[s] \in {"PENDING", "ACK_UNKNOWN"} /\ order' = [order EXCEPT ![s] = "PLACED"]
  /\ UNCHANGED <<now, tables, eb, rc, halted, pos, shown, v, decided, window, faults>>

\* The request failed or timed out: the order may be at the broker.
MarkAckUnknown(s) ==
  /\ order[s] = "PENDING" /\ order' = [order EXCEPT ![s] = "ACK_UNKNOWN"]
  /\ UNCHANGED <<now, tables, eb, rc, halted, pos, shown, v, decided, window, faults>>

Fill(s) ==
  /\ order[s] \in {"ACK_UNKNOWN", "PLACED", "PARTIALLY_FILLED"}
  /\ \/ order' = [order EXCEPT ![s] = "FILLED"]
     \/ order[s] # "PARTIALLY_FILLED" /\ order' = [order EXCEPT ![s] = "PARTIALLY_FILLED"]
  /\ window' = (window \/ Reading)
  /\ UNCHANGED <<now, tables, eb, rc, halted, pos, shown, v, decided, faults>>

Book(s) ==
  /\ order[s] = "FILLED" /\ order' = [order EXCEPT ![s] = "booked"]
  /\ pos' = IF s \in Buys THEN pos + Qty[s] ELSE pos - Qty[s]
  /\ window' = (window \/ Reading)
  /\ UNCHANGED <<now, tables, eb, rc, halted, shown, v, decided, faults>>

Cancel(s) ==
  /\ order[s] \in {"approved", "PENDING", "ACK_UNKNOWN", "PLACED"}
  /\ order' = [order EXCEPT ![s] = "CANCELLED"]
  /\ UNCHANGED <<now, tables, eb, rc, halted, pos, shown, v, decided, window, faults>>

\* DynamoDB brings the index and the replica up to date, item by item.
Replicate ==
  /\ \/ \E s \in Signals : shown' = [shown EXCEPT !.order[s] = order[s]]
     \/ shown' = [shown EXCEPT !.pos = pos]
  /\ UNCHANGED <<now, tables, eb, rc, halted, order, pos, v, decided, window, faults>>

-----------------------------------------------------------------------------
(* The validators.  risk_data_unavailable_result lets a paper signal pass. *)

Unavailable(s) == s \notin live

\* SignalAgeValidator: two seconds of clock skew, and never more than thirty of age.
AgeOK(age) ==
  IF age < 0 THEN -age <= 2
  ELSE age <= IF Limits.maxAge < 30 THEN Limits.maxAge ELSE 30

\* RiskLimits.get_limit knows the thresholds; position, per symbol and as a share of
\* the portfolio.  The quantity of a SELL is added like that of a BUY.
PositionOK(s, conf, pend) ==
  /\ Qty[s] <= Limits.maxOrderValue
  /\ conf + pend + Qty[s] <= Limits.maxPerSymbol
  /\ (conf + pend + Qty[s]) * 100 <= Limits.maxPositionPct * Limits.portfolio

\* ExposureValidator over _get_total_exposure, the sum of the positions' values.
TotalExposure == IF pos < 0 THEN -pos ELSE pos
ExposureOK(s) == (TotalExposure + Qty[s]) * 100 <= Limits.maxExposurePct * Limits.portfolio

\* LiquidityValidator: the order as a share of the daily volume, for illiquid symbols.
LiquidityOK(s, d) ==
  IF d.adv <= 0 THEN Unavailable(s)
  ELSE d.adv >= Limits.liquidAdv \/ Qty[s] * 100 <= Limits.maxAdvPct * d.adv

\* SpreadGateValidator on the context's live quote.
SpreadOK(s, d) == IF d.spread = None THEN Unavailable(s) ELSE d.spread <= Limits.maxSpreadBps

\* SectorConcentrationValidator: registry, NAV and analytics snapshot.
SectorOK(s, d) ==
  IF d.sector = None \/ d.nav <= 0 THEN Unavailable(s)
  ELSE (d.sector + Qty[s]) * 100 <= Limits.maxSectorPct * d.nav

\* MarginValidator: cash and collateral cover the order and a fifth more.
MarginOK(s, d) ==
  IF d.margin = None THEN Unavailable(s) ELSE d.margin * 100 >= Qty[s] * 120

\* SlippageValidator reads bid and ask off the signal, which has neither field: the
\* data is never there, and its own checks are never reached.
SlippageOK(s) == Unavailable(s)

\* DailyLossValidator (module LossAccounting): within the limit, or no data.
LossOK(s, d) == IF d.loss = "unknown" THEN Unavailable(s) ELSE d.loss = "within"

\* The reads of RiskContextBuilder: a read that fails, an item that is missing, and a
\* quote that is too old are errors of the context.
AdvMissing(d) == d.adv <= 0
SpreadMissing(d) == d.spread = None
NavMissing(d) == d.nav <= 0
SnapshotMissing(d) == d.snapshot = None
BookMissing(d) == d.book = None
ContextErrors(d) ==
  AdvMissing(d) \/ SpreadMissing(d) \/ NavMissing(d) \/ SnapshotMissing(d) \/ BookMissing(d)

\* What the data leads to once the position and the exposure passed: the loss validator
\* is asked last, and its rejection trips the switch.
Verdict(s, d) ==
  IF LiquidityOK(s, d) /\ SpreadOK(s, d) /\ SectorOK(s, d) /\ MarginOK(s, d) /\ SlippageOK(s)
  THEN IF LossOK(s, d) THEN "approve" ELSE IF d.loss = "exceeded" THEN "trip" ELSE "reject"
  ELSE "reject"

\* A live signal whose data is all there and within every limit.
Fits(s, d) ==
  /\ s \in live
  /\ ~ContextErrors(d) /\ d.sector # None /\ d.margin # None /\ d.loss = "within"
  /\ LiquidityOK(s, d) /\ SpreadOK(s, d) /\ SectorOK(s, d) /\ MarginOK(s, d)

-----------------------------------------------------------------------------
(* validate_signal *)

Reject == decided' = [decided EXCEPT ![v.sig] = "rejected"] /\ v' = Idle
Goto(pc) ==
  /\ v' = [Idle EXCEPT !.pc = pc, !.sig = v.sig, !.start = v.start, !.data = v.data, !.fits = v.fits]
  /\ decided' = decided

Begin(s) ==
  /\ v.pc = "idle" /\ decided[s] = "none"
  /\ \E age \in Ages :
       IF AgeOK(age) /\ ~halted
       THEN v' = [Idle EXCEPT !.pc = "block", !.sig = s, !.start = now] /\ decided' = decided
       ELSE decided' = [decided EXCEPT ![s] = "rejected"] /\ v' = v
  /\ UNCHANGED <<now, tables, eb, rc, halted, book, window, faults>>

\* EntryBlockValidator: closeouts pass, and paper signals in the paper profile.
BlockExempt(s) == s \in Closeout \/ (s \notin live /\ Profile = "paper")
BlockPasses(c) == IF c.ok THEN ~c.blocked ELSE Profile = "paper"
BlockFresh == now - eb.at < BlockTTL

BlockCached ==
  /\ v.pc = "block" /\ (BlockExempt(v.sig) \/ BlockFresh)
  /\ IF BlockExempt(v.sig) \/ BlockPasses(eb) THEN Goto("recon") ELSE Reject
  /\ UNCHANGED <<now, tables, eb, rc, halted, book, window, faults>>

\* The get_item, answered at one moment and stored at a later one; the answer may be
\* that of a replica that has not seen the last put.
BlockRead ==
  /\ v.pc = "block" /\ ~BlockExempt(v.sig) /\ ~BlockFresh
  /\ \/ v' = [v EXCEPT !.pc = "blockread", !.got = blockRow, !.read = now]
     \/ /\ now - blockSince < ReadTime
        /\ v' = [v EXCEPT !.pc = "blockread", !.got = FALSE, !.read = blockSince]
  /\ UNCHANGED <<now, tables, eb, rc, halted, book, decided, window, faults>>

\* Mutant: a failed read counts as a refresh of the cache.
BlockStoreKeeps ==
  /\ v.pc = "blockread"
  /\ \/ eb' = [blocked |-> v.got, ok |-> TRUE, at |-> now] /\ faults' = faults
     \/ Fault /\ eb' = [eb EXCEPT !.at = now]
  /\ IF BlockPasses(eb') THEN Goto("recon") ELSE Reject
  /\ UNCHANGED <<now, tables, rc, halted, book, window>>

\* Stored with the time of the store; a failed read leaves the cache stale.
BlockStore ==
  /\ v.pc = "blockread"
  /\ \/ eb' = [blocked |-> v.got, ok |-> TRUE, at |-> now] /\ faults' = faults
     \/ Fault /\ eb' = [eb EXCEPT !.ok = FALSE]
  /\ IF BlockPasses(eb') THEN Goto("recon") ELSE Reject
  /\ UNCHANGED <<now, tables, rc, halted, book, window>>

\* ReconciliationValidator: paper signals and closeouts pass; a failed read clears
\* the flag and counts as a refresh.
ReconExempt(s) == s \notin live \/ s \in Closeout
ReconFresh == now - rc.at < ReconTTL

ReconCached ==
  /\ v.pc = "recon" /\ (ReconExempt(v.sig) \/ ReconFresh)
  /\ IF ReconExempt(v.sig) \/ ~rc.required THEN Goto("context") ELSE Reject
  /\ UNCHANGED <<now, tables, eb, rc, halted, book, window, faults>>

ReconRefresh ==
  /\ v.pc = "recon" /\ ~ReconExempt(v.sig) /\ ~ReconFresh
  /\ \/ rc' = [required |-> reconRow, at |-> now] /\ faults' = faults
     \/ Fault /\ rc' = [required |-> FALSE, at |-> now]
  /\ IF rc'.required THEN Reject ELSE Goto("context")
  /\ UNCHANGED <<now, tables, eb, halted, book, window>>

\* An error of the context rejects a live signal; a paper signal goes on with what
\* there is.
BuildContext ==
  /\ v.pc = "context"
  /\ \E d \in Market :
       IF ContextErrors(d) /\ v.sig \in live
       THEN Reject
       ELSE /\ v' = [v EXCEPT !.pc = "position", !.data = Verdict(v.sig, d),
                              !.fits = Fits(v.sig, d), !.todo = InFlight,
                              !.start = 0]
            /\ decided' = decided
  /\ UNCHANGED <<now, tables, eb, rc, halted, book, window, faults>>

\* PositionValidator reads the position and, in turn, the open orders by status, in two
\* threads.  An approval that is not an order yet, an order whose placement was not
\* acknowledged, or a fill that is not in the position yet, is in neither; and the reads
\* are eventually consistent.
Unsettled == (\E s \in Signals : order[s] \in Unasked) \/ shown # [order |-> order, pos |-> pos]

ReadConfirmed ==
  /\ Reading /\ v.conf = {}
  /\ v' = [v EXCEPT !.conf = {shown.pos}]
  /\ window' = (window \/ Unsettled)
  /\ UNCHANGED <<now, tables, eb, rc, halted, book, decided, faults>>

NextStatus == CHOOSE st \in v.todo :
  \/ st = "PENDING"
  \/ st = "PLACED" /\ "PENDING" \notin v.todo
  \/ v.todo = {"PARTIALLY_FILLED"}

\* Mutant: only the confirmed position counts.
QueryStatusNone ==
  /\ Reading /\ v.todo # {}
  /\ v' = [v EXCEPT !.todo = @ \ {NextStatus}]
  /\ window' = (window \/ Unsettled)
  /\ UNCHANGED <<now, tables, eb, rc, halted, book, decided, faults>>

QueryStatus ==
  /\ Reading /\ v.todo # {}
  /\ v' = [v EXCEPT !.todo = @ \ {NextStatus},
                    !.pend = @ +
                      MapThenSumSet(LAMBDA s : Qty[s],
                                    {s \in Signals : shown.order[s] = NextStatus})]
  /\ window' = (window \/ Unsettled)
  /\ UNCHANGED <<now, tables, eb, rc, halted, book, decided, faults>>

\* A read of the book fails: a paper signal passes without the check.
ReadFails ==
  /\ Reading /\ (v.conf = {} \/ v.todo # {}) /\ Fault
  /\ IF Unavailable(v.sig)
     THEN Goto("market")
     ELSE Reject
  /\ window' = TRUE
  /\ UNCHANGED <<now, tables, eb, rc, halted, book>>

CheckPosition ==
  /\ Reading /\ v.todo = {}
  /\ \E conf \in v.conf : IF PositionOK(v.sig, conf, v.pend) THEN Goto("market") ELSE Reject
  /\ UNCHANGED <<now, tables, eb, rc, halted, book, window, faults>>

\* The validators that follow, and the decision.
Decide ==
  /\ v.pc = "market"
  /\ IF ExposureOK(v.sig) /\ v.data = "approve"
     THEN /\ decided' = [decided EXCEPT ![v.sig] = "approved"]
          /\ order' = [order EXCEPT ![v.sig] = "approved"]
     ELSE /\ decided' = [decided EXCEPT ![v.sig] = "rejected"]
          /\ order' = order
  /\ halted' = (halted \/ (ExposureOK(v.sig) /\ v.data = "trip"))
  /\ v' = Idle
  /\ UNCHANGED <<now, tables, eb, rc, pos, shown, window, faults>>

Validation ==
  \/ BlockCached \/ BlockRead \/ BlockStore \/ ReconCached \/ ReconRefresh
  \/ BuildContext \/ ReadConfirmed \/ QueryStatus \/ ReadFails \/ CheckPosition \/ Decide

Next ==
  \/ Tick \/ SetBlock \/ SetRecon \/ Replicate
  \/ \E s \in Signals :
       Submit(s) \/ Place(s) \/ MarkAckUnknown(s) \/ Fill(s) \/ Book(s) \/ Cancel(s) \/ Begin(s)
  \/ Validation

Spec == Init /\ [][Next]_vars

-----------------------------------------------------------------------------
(* Properties *)

Committed ==
  pos + MapThenSumSet(LAMBDA s : Qty[s],
          {s \in Buys : order[s] \in InFlight \cup Unasked})

\* The state has its types, and the position and all that is on its way to it stay within
\* the limit of the symbol, as long as no validation read the book while it was unsettled
\* (an approval was not an order yet, a placement was not acknowledged, a fill was not in
\* the position yet, or the replica lagged), an order was filled between two of its reads,
\* or a read failed for a paper signal.
LimitOutsideWindows == TypeOK /\ (window \/ Committed <= Limits.maxPerSymbol)

\* An entry block is felt by every signal it applies to whose validation begins later
\* than a cache lifetime and one read after it was set: the cache hides no more, even
\* when a read was under way and when later reads fail.  (In the paper profile a failed
\* read lets the signal pass, by design.)
BlockTakesEffect ==
  v.pc = "recon" /\ blockRow /\ ~BlockExempt(v.sig) /\ Profile = "live"
    => v.start < blockSince + BlockTTL + ReadTime

\* "This closes the dirty-read window entirely" (position_validator.py:22).
PositionWithinLimit == Committed <= Limits.maxPerSymbol

\* A live signal whose data is all there and within every limit is approved.
FittingLiveApproved ==
  [][\A s \in live : v.pc = "market" /\ v.sig = s /\ v.fits /\ ExposureOK(s) /\ decided'[s] # "none"
       => decided'[s] = "approved"]_vars
=============================================================================
