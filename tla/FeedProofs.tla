----------------------------- MODULE FeedProofs -----------------------------
(***************************************************************************)
(* Proofs about what feeds the risk engine, the machines of MCFeed, for    *)
(* any number of candles, ticks, days, bars and failures.  Each machine    *)
(* has an inductive invariant of its own, which the machines that run      *)
(* beside it leave alone.                                                  *)
(***************************************************************************)
EXTENDS MCFeed, Sequences, Sums

-----------------------------------------------------------------------------
\* The machines add up with operators of their own, which are the same.
LEMMA SameSums ==
  ASSUME NEW f, NEW S
  PROVE  /\ Day!MapThenSumSet(LAMBDA x : f[x], S) = SumOver(f, S)
         /\ Test!MapThenSumSet(LAMBDA x : f[x], S) = SumOver(f, S)
BY DEF SumOver, MapThenSumSet, Day!MapThenSumSet, Test!MapThenSumSet, MapThenFoldSet,
       Day!MapThenFoldSet, Test!MapThenFoldSet

\* And so do they count.
LEMMA SameCount ==
  ASSUME NEW S
  PROVE  Day!Cardinality(S) = Cardinality(S)
BY DEF Cardinality, Day!Cardinality

-----------------------------------------------------------------------------
(* A strategy through its days                                             *)

Days == 1 .. MaxDays

\* Of the failures R, no more than one of them allows, which is the last but for at most one.
Within(R) == R # {} => \E f, x \in R : Cardinality(R) <= f.rate /\ \A g \in R \ {x} : f.age <= g.age

\* As long as it is closed the breaker counts all recent failures, and fewer than the last
\* of them allows.
ClosedBounds ==
  /\ Day!Recent \subseteq Day!Counted
  /\ Day!Recent # {} => \E f \in Day!Recent : /\ Cardinality(Day!Counted) < f.rate
                                              /\ \A g \in Day!Recent : f.age <= g.age

\* The breaker: what each of its states says of the recent failures.
BreakerBounds ==
  /\ cb \in {"CLOSED", "HALF_OPEN", "OPEN"} /\ opened \in Nat /\ limits.rate \in Nat \ {0}
  /\ IsFiniteSet(failures)
  /\ failures \subseteq [age : Nat, nth : Nat, rate : Nat \ {0}, counted : BOOLEAN]
  /\ Within(Day!Recent)
  /\ cb = "CLOSED" => ClosedBounds
  /\ cb = "HALF_OPEN" => Day!Recent = {}
  /\ cb = "OPEN" => \A f \in failures : opened <= f.age

\* What the strategy counted, which bounds what was sent as long as the process lives.
CountsBound ==
  /\ kind \in {"orb", "trend"} => \A d \in Day!Dirs : fired[d] <= 1
  /\ kind = "scalp" => \A d \in Day!Dirs : fired[d] <= ScalpCap
  /\ kind = "preclose" => fired["BUY"] + fired["SELL"] <= 1
  /\ runs = 0 /\ kind # "vwap" => \A d \in Day!Dirs : SumOver(sent[d], Days) <= fired[d]

DayInv ==
  part = "day" =>
    /\ day \in Days /\ runs \in Nat
    /\ fired \in [Day!Dirs -> Nat] /\ sent \in [Day!Dirs -> [Days -> Nat]]
    /\ BreakerBounds /\ CountsBound

\* The days are finitely many, and what was sent on them adds up to a number.
LEMMA DaysAdd ==
  ASSUME NEW f \in [Days -> Nat]
  PROVE  /\ IsFiniteSet(Days) /\ SumOver(f, Days) \in Nat /\ \A n \in Days : f[n] \in Int
         /\ \A n \in Days : SumOver([f EXCEPT ![n] = @ + 1], Days) = SumOver(f, Days) + 1
<1>1. IsFiniteSet(Days)
  BY FeedAssumption, FS_Interval DEF FeedAssumption, Days
<1>2. \A n \in Days : f[n] \in Nat /\ f[n] \in Int
  OBVIOUS
<1>3. SumOver(f, Days) \in Nat
  BY <1>1, <1>2, SumPart
<1>4. ASSUME NEW n \in Days PROVE SumOver([f EXCEPT ![n] = @ + 1], Days) = SumOver(f, Days) + 1
  <2> DEFINE g == [f EXCEPT ![n] = @ + 1]
  <2>1. g[n] = f[n] + 1 /\ g[n] \in Int /\ \A x \in Days \ {n} : g[x] = f[x]
    OBVIOUS
  <2> HIDE DEF g
  <2>2. SumOver(g, Days) = (SumOver(f, Days) - f[n]) + g[n]
    BY <1>1, <1>2, <2>1, SumChange
  <2>3. f[n] \in Int /\ SumOver(f, Days) \in Int
    BY <1>2, <1>3
  <2>4. SumOver(g, Days) = SumOver(f, Days) + 1
    BY <2>1, <2>2, <2>3
  <2> QED
    BY <2>4 DEF g
<1> QED
  BY <1>1, <1>2, <1>3, <1>4

\* The images of a finite set are no more than its members.
LEMMA ImageIsNoLarger ==
  ASSUME NEW S, IsFiniteSet(S), NEW g
  PROVE  IsFiniteSet({g[s] : s \in S}) /\ Cardinality({g[s] : s \in S}) <= Cardinality(S)
<1> DEFINE T == {g[s] : s \in S}
           h == [s \in S |-> g[s]]
<1>1. h \in Surjection(S, T)
  BY DEF Surjection
<1> QED
  BY <1>1, FS_Surjection

\* Time makes the failures older and forgets those that fall out of the window.
LEMMA BreakerElapses ==
  ASSUME BreakerBounds, Day!Elapse
  PROVE  BreakerBounds'
<1> DEFINE R == Day!Recent
           older == [f \in failures |-> [f EXCEPT !.age = @ + 1]]
<1>1. Window \in Nat \ {0}
  BY FeedAssumption DEF FeedAssumption
<1>2. failures' = {older[f] : f \in R} /\ limits' = limits /\ R \subseteq failures
  BY DEF Day!Elapse, Day!Recent, Day!runner
<1>3. \A f \in failures : /\ older[f] \in [age : Nat, nth : Nat, rate : Nat \ {0}, counted : BOOLEAN]
                          /\ older[f].age = f.age + 1 /\ f.age \in Nat /\ older[f].rate = f.rate
                          /\ f.rate \in Nat \ {0} /\ older[f].counted = f.counted
  BY DEF BreakerBounds
<1>4. IsFiniteSet(R) /\ Cardinality(R) \in Nat
  BY <1>2, FS_Subset, FS_CardinalityType DEF BreakerBounds
<1>5. \A f \in R : f.age < Window /\ f \in failures
  BY DEF Day!Recent
<1> DEFINE R1 == {h \in failures' : h.age < Window}
<1>6. Day!Recent' = R1
  BY DEF Day!Recent
<1> HIDE DEF older
<1>7. IsFiniteSet(failures') /\ Cardinality(failures') <= Cardinality(R)
  BY <1>2, <1>4, ImageIsNoLarger
<1>8. /\ IsFiniteSet(R1) /\ Cardinality(R1) <= Cardinality(R)
      /\ Cardinality(R1) \in Nat /\ Cardinality(failures') \in Nat
  BY <1>4, <1>7, FS_Subset, FS_CardinalityType
<1>9. \A h \in R1 : \E g \in R : h = older[g] /\ h.age = g.age + 1 /\ g.age + 1 < Window
  BY <1>2, <1>3
<1>10. failures' \subseteq [age : Nat, nth : Nat, rate : Nat \ {0}, counted : BOOLEAN]
  BY <1>2, <1>3
<1> HIDE DEF R1, R
<1>11. ASSUME R1 # {} PROVE Within(R1)
  <2>1. R # {}
    BY <1>9, <1>11
  <2>2. PICK f \in R, x \in R : Cardinality(R) <= f.rate /\ \A g \in R \ {x} : f.age <= g.age
    BY <2>1 DEF BreakerBounds, Within, R
  <2>3. CASE f.age + 1 < Window
    <3>1. older[f] \in R1
      BY <1>2, <1>3, <1>5, <2>2, <2>3 DEF R1
    <3>2. PICK y \in R1 : \A h \in R1 \ {y} : older[f].age <= h.age
      <4>1. CASE older[x] \in R1
        <5>1. \A h \in R1 \ {older[x]} : older[f].age <= h.age
          BY <1>3, <1>5, <1>9, <2>2
        <5> QED
          BY <4>1, <5>1
      <4>2. CASE older[x] \notin R1
        <5>1. \A h \in R1 \ {older[f]} : older[f].age <= h.age
          BY <1>3, <1>5, <1>9, <2>2, <4>2
        <5> QED
          BY <3>1, <5>1
      <4> QED
        BY <4>1, <4>2
    <3>3. Cardinality(R1) <= older[f].rate
      BY <1>3, <1>4, <1>5, <1>8, <2>2
    <3> QED
      BY <3>1, <3>2, <3>3 DEF Within
  <2>4. CASE ~(f.age + 1 < Window)
    <3>1. R1 = {older[x]}
      BY <1>1, <1>3, <1>5, <1>9, <1>11, <2>2, <2>4
    <3>2. Cardinality(R1) = 1
      BY <3>1, FS_Singleton
    <3>3. Cardinality(R1) <= older[x].rate
      BY <1>3, <1>5, <3>2
    <3> QED
      BY <3>1, <3>3 DEF Within
  <2> QED
    BY <2>3, <2>4
<1>12. Within(R1)
  BY <1>11 DEF Within
<1>13. ASSUME cb = "CLOSED" PROVE ClosedBounds'
  <2>1. R \subseteq Day!Counted /\ Day!Counted \subseteq failures
    BY <1>13 DEF BreakerBounds, ClosedBounds, R, Day!Counted
  <2>2. Day!Recent' \subseteq Day!Counted'
    BY <1>2, <1>3, <1>6, <2>1 DEF Day!Counted, R1
  <2>3. Day!Counted' \subseteq failures'
    BY DEF Day!Counted
  <2>4. /\ Cardinality(Day!Counted') <= Cardinality(R) /\ Cardinality(R) <= Cardinality(Day!Counted)
        /\ Cardinality(Day!Counted') \in Nat /\ Cardinality(Day!Counted) \in Nat
    BY <1>4, <1>7, <1>8, <2>1, <2>3, FS_Subset, FS_CardinalityType DEF BreakerBounds
  <2>5. ASSUME R1 # {} PROVE \E f \in R1 : Cardinality(Day!Counted') < f.rate /\ \A h \in R1 : f.age <= h.age
    <3>1. R # {}
      BY <1>9, <2>5
    <3>2. PICK f \in R : Cardinality(Day!Counted) < f.rate /\ \A g \in R : f.age <= g.age
      BY <1>13, <3>1 DEF BreakerBounds, ClosedBounds, R
    <3>3. PICK h \in R1 : TRUE
      BY <2>5
    <3>4. f.age + 1 < Window
      BY <1>1, <1>3, <1>5, <1>9, <3>2, <3>3
    <3>5. older[f] \in R1
      BY <1>2, <1>3, <1>5, <3>2, <3>4 DEF R1
    <3>6. \A k \in R1 : older[f].age <= k.age
      BY <1>3, <1>5, <1>9, <3>2
    <3>7. Cardinality(Day!Counted') < older[f].rate
      BY <1>3, <1>4, <1>5, <2>4, <3>2
    <3> QED
      BY <3>5, <3>6, <3>7
  <2> QED
    BY <1>6, <2>2, <2>5 DEF ClosedBounds
<1>14. CASE cb # "OPEN"
  <2>1. UNCHANGED <<cb, opened>>
    BY <1>14 DEF Day!Elapse
  <2>2. cb = "HALF_OPEN" => R1 = {}
    BY <1>9 DEF BreakerBounds, R
  <2> QED
    BY <1>2, <1>6, <1>7, <1>10, <1>12, <1>13, <1>14, <2>1, <2>2 DEF BreakerBounds
<1>15. CASE cb = "OPEN"
  <2>1. \A f \in failures : opened <= f.age
    BY <1>15 DEF BreakerBounds
  <2>2. CASE opened + 1 < Window
    <3>1. cb' = cb /\ opened' = opened + 1
      BY <1>15, <2>2 DEF Day!Elapse
    <3>2. \A h \in failures' : opened' <= h.age
      BY <1>2, <1>3, <2>1, <3>1 DEF BreakerBounds
    <3> QED
      BY <1>2, <1>6, <1>7, <1>10, <1>12, <1>15, <3>1, <3>2 DEF BreakerBounds
  <2>3. CASE ~(opened + 1 < Window)
    <3>1. cb' = "HALF_OPEN" /\ opened' = 0
      BY <1>15, <2>3 DEF Day!Elapse
    <3>2. R1 = {}
      BY <1>1, <1>2, <1>3, <2>1, <2>3 DEF BreakerBounds, R1
    <3> QED
      BY <1>2, <1>6, <1>7, <1>10, <1>12, <3>1, <3>2 DEF BreakerBounds
  <2> QED
    BY <2>2, <2>3
<1> QED
  BY <1>14, <1>15

\* A failure either stays below the threshold then in force or opens the breaker.
LEMMA BreakerFails ==
  ASSUME BreakerBounds, cb # "OPEN", Day!RecordFailure, limits' = limits
  PROVE  BreakerBounds'
<1> DEFINE x == [age |-> 0, nth |-> Cardinality({f \in failures : f.age = 0}), rate |-> limits.rate,
                 counted |-> TRUE]
           R == Day!Recent
<1>1. Window \in Nat \ {0}
  BY FeedAssumption DEF FeedAssumption
<1>2. {f \in failures : f.age = 0} \subseteq failures /\ R \subseteq failures /\ Day!Counted \subseteq failures
  BY DEF Day!Recent, Day!Counted
<1>3. /\ IsFiniteSet(R) /\ IsFiniteSet(Day!Counted)
      /\ Cardinality({f \in failures : f.age = 0}) \in Nat
      /\ Cardinality(R) \in Nat /\ Cardinality(Day!Counted) \in Nat
  BY <1>2, FS_Subset, FS_CardinalityType DEF BreakerBounds
<1>4. /\ x \in [age : Nat, nth : Nat, rate : Nat \ {0}, counted : BOOLEAN]
      /\ x.age = 0 /\ x.rate = limits.rate /\ x.counted
  BY <1>3 DEF BreakerBounds
<1>5. failures' = failures \cup {x}
  BY SameCount DEF Day!RecordFailure
<1> HIDE DEF x
<1>6. Day!Recent' = R \cup {x} /\ Day!Counted' = Day!Counted \cup {x}
  BY <1>1, <1>4, <1>5 DEF Day!Recent, Day!Counted
<1>7. IsFiniteSet(failures') /\ failures' \subseteq [age : Nat, nth : Nat, rate : Nat \ {0}, counted : BOOLEAN]
  BY <1>4, <1>5, FS_AddElement DEF BreakerBounds
<1>8. /\ Cardinality(R \cup {x}) <= Cardinality(R) + 1 /\ Cardinality(R \cup {x}) \in Nat
      /\ Cardinality(Day!Counted \cup {x}) <= Cardinality(Day!Counted) + 1
      /\ Cardinality(Day!Counted \cup {x}) \in Nat
  <2>1. ASSUME NEW S, IsFiniteSet(S)
        PROVE  Cardinality(S \cup {x}) <= Cardinality(S) + 1 /\ Cardinality(S \cup {x}) \in Nat
    <3>1. Cardinality(S) \in Nat
      BY <2>1, FS_CardinalityType
    <3>2. Cardinality(S \cup {x}) = Cardinality(S) \/ Cardinality(S \cup {x}) = Cardinality(S) + 1
      BY <2>1, FS_AddElement
    <3> QED
      BY <3>1, <3>2
  <2> QED
    BY <1>3, <2>1
<1>9. \A f \in failures' : f.age \in Nat /\ f.rate \in Nat \ {0}
  BY <1>7
<1>10. R = {} \/ cb = "CLOSED"
  BY DEF BreakerBounds
<1> HIDE DEF R
<1>11. Within(R \cup {x})
  <2>1. CASE R = {}
    <3>1. Cardinality(R \cup {x}) = 1
      BY <2>1, FS_Singleton
    <3> QED
      BY <1>4, <1>5, <1>9, <2>1, <3>1 DEF Within
  <2>2. CASE R # {} /\ cb = "CLOSED"
    <3>1. R \subseteq Day!Counted
      BY <2>2 DEF BreakerBounds, ClosedBounds, R
    <3>2. PICK f \in R : Cardinality(Day!Counted) < f.rate /\ \A g \in R : f.age <= g.age
      BY <2>2 DEF BreakerBounds, ClosedBounds, R
    <3>3. Cardinality(R) <= Cardinality(Day!Counted)
      BY <1>3, <3>1, FS_Subset
    <3>4. f.rate \in Nat
      BY <1>2, <1>5, <1>9, <3>2 DEF R
    <3>5. Cardinality(R \cup {x}) <= f.rate
      BY <1>3, <1>8, <3>2, <3>3, <3>4
    <3> QED
      BY <3>2, <3>5 DEF Within
  <2> QED
    BY <1>10, <2>1, <2>2
<1>12. CASE cb = "HALF_OPEN" \/ Cardinality(Day!Counted) + 1 >= limits.rate \/ errs + 1 >= limits.consecutive
  <2>1. cb' = "OPEN" /\ opened' = 0
    BY <1>12, SameCount, Zenon DEF Day!RecordFailure
  <2>2. \A f \in failures' : opened' <= f.age
    BY <1>9, <2>1
  <2> QED
    BY <1>6, <1>7, <1>11, <2>1, <2>2 DEF BreakerBounds
<1>13. CASE /\ ~(cb = "HALF_OPEN" \/ Cardinality(Day!Counted) + 1 >= limits.rate)
            /\ ~(errs + 1 >= limits.consecutive)
  <2>1. cb' = cb /\ opened' = opened /\ cb = "CLOSED"
    <3>1. UNCHANGED <<cb, opened, good>>
      BY <1>13, SameCount, Zenon DEF Day!RecordFailure
    <3> QED
      BY <1>13, <3>1 DEF BreakerBounds
  <2>2. R \subseteq Day!Counted
    BY <2>1 DEF BreakerBounds, ClosedBounds, R
  <2>3. Cardinality(Day!Counted \cup {x}) < x.rate
    BY <1>3, <1>4, <1>8, <1>13 DEF BreakerBounds
  <2>4. \A g \in R \cup {x} : x.age <= g.age
    BY <1>2, <1>4, <1>5, <1>9 DEF R
  <2>5. ClosedBounds'
    BY <1>6, <2>2, <2>3, <2>4 DEF ClosedBounds
  <2> QED
    BY <1>6, <1>7, <1>11, <2>1, <2>5 DEF BreakerBounds
<1> QED
  BY <1>12, <1>13

\* A success leaves the recent failures alone, or there are none.
LEMMA BreakerSucceeds ==
  ASSUME BreakerBounds, cb # "OPEN", Day!RecordSuccess, limits' = limits
  PROVE  BreakerBounds'
<1>1. CASE UNCHANGED <<cb, opened, failures>>
  BY <1>1 DEF BreakerBounds, ClosedBounds, Day!Recent, Day!Counted
<1>2. CASE cb = "HALF_OPEN" /\ Day!Close /\ failures' = Day!Forget(failures)
  <2> DEFINE forgotten == [f \in failures |-> [f EXCEPT !.counted = f \notin failures]]
  <2>1. failures' = {forgotten[f] : f \in failures}
    BY <1>2 DEF Day!Forget
  <2>2. \A f \in failures : /\ forgotten[f].age = f.age
                            /\ forgotten[f] \in [age : Nat, nth : Nat, rate : Nat \ {0}, counted : BOOLEAN]
    BY DEF BreakerBounds
  <2> HIDE DEF forgotten
  <2>3. IsFiniteSet(failures')
    BY <2>1, ImageIsNoLarger DEF BreakerBounds
  <2>4. failures' \subseteq [age : Nat, nth : Nat, rate : Nat \ {0}, counted : BOOLEAN]
    BY <2>1, <2>2
  <2>5. Day!Recent' = {}
    BY <1>2, <2>1, <2>2 DEF BreakerBounds, Day!Recent
  <2>6. cb' = "CLOSED" /\ opened' = 0
    BY <1>2 DEF Day!Close
  <2> QED
    BY <2>3, <2>4, <2>5, <2>6 DEF BreakerBounds, Within, ClosedBounds
<1> QED
  BY <1>1, <1>2 DEF Day!RecordSuccess

\* A breaker that is reset knows of no failures.
LEMMA ResetBounds ==
  ASSUME failures = {}, cb = "CLOSED", opened = 0, limits.rate \in Nat \ {0}
  PROVE  BreakerBounds
BY FS_EmptySet DEF BreakerBounds, Within, ClosedBounds, Day!Recent

\* At the start nothing is counted and nothing is sent.
LEMMA DayInit == Init => DayInv
<1> SUFFICES ASSUME Init, part = "day" PROVE DayInv
  BY DEF DayInv
<1>1. Day!Init
  BY DEF Init
<1>2. day = 1 /\ runs = 0 /\ fired = [d \in Day!Dirs |-> 0]
      /\ sent = [d \in Day!Dirs |-> [n \in Days |-> 0]]
  BY <1>1 DEF Day!Init, Day!Fresh, Days
<1>3. IsFiniteSet(Days) /\ 1 \in Days
  BY FeedAssumption, FS_Interval DEF FeedAssumption, Days
<1>4. \A d \in Day!Dirs : SumOver(sent[d], Days) = 0
  BY <1>2, <1>3, SumZero
<1>5. BreakerBounds
  BY <1>1, ResetBounds, FeedAssumption DEF Day!Init, Day!Thresholds, BreakerBounds,
     Within, ClosedBounds, Day!Recent, FeedAssumption
<1>6. CountsBound
  BY <1>2, <1>4, FeedAssumption DEF CountsBound, Day!Dirs, FeedAssumption
<1> QED
  BY <1>2, <1>3, <1>5, <1>6 DEF DayInv

\* A bar counts the signal it gives, and none beyond the limit of its strategy.
LEMMA BarCounts ==
  ASSUME CountsBound, fired \in [Day!Dirs -> Nat], NEW setup \in Day!Setups, NEW sized \in BOOLEAN,
         NEW out \in Day!Setups, Day!OnBar(setup, sized, out)
  PROVE  /\ fired' \in [Day!Dirs -> Nat]
         /\ kind \in {"orb", "trend"} => \A d \in Day!Dirs : fired'[d] <= 1
         /\ kind = "scalp" => \A d \in Day!Dirs : fired'[d] <= ScalpCap
         /\ kind = "preclose" => fired'["BUY"] + fired'["SELL"] <= 1
         /\ \A d \in Day!Dirs : fired[d] <= fired'[d]
         /\ kind # "vwap" /\ out # "none" => out \in Day!Dirs /\ fired'[out] = fired[out] + 1
<1>1. ScalpCap \in Nat
  BY FeedAssumption DEF FeedAssumption
<1>2. \/ fired' = fired /\ (kind # "vwap" => out = "none")
      \/ /\ setup \in Day!Dirs /\ fired' = [fired EXCEPT ![setup] = @ + 1] /\ out \in {setup, "none"}
         /\ kind \in {"orb", "trend"} => fired[setup] = 0
         /\ kind = "scalp" => fired[setup] < ScalpCap
         /\ kind = "preclose" => \A d \in Day!Dirs : fired[d] = 0
  <2>1. CASE kind = "orb" /\ Day!Orb(setup, sized, out)
    BY <2>1 DEF Day!Orb, Day!OrbBuild, Day!Fire, Day!Setups
  <2>2. CASE kind = "scalp" /\ Day!Scalp(setup, sized, out)
    BY <2>2 DEF Day!Scalp, Day!ScalpBuild, Day!Fire, Day!Setups
  <2>3. CASE kind = "trend" /\ Day!Trend(setup, sized, out)
    BY <2>3 DEF Day!Trend, Day!Fire, Day!Setups
  <2>4. CASE kind = "preclose" /\ Day!PreClose(setup, sized, out)
    BY <2>4 DEF Day!PreClose, Day!Fire, Day!Setups
  <2>5. CASE kind = "vwap" /\ Day!Vwap(setup, sized, out)
    BY <2>5 DEF Day!Vwap
  <2> QED
    BY <2>1, <2>2, <2>3, <2>4, <2>5 DEF Day!OnBar
<1>3. CASE fired' = fired /\ (kind # "vwap" => out = "none")
  BY <1>3 DEF CountsBound
<1>4. CASE /\ setup \in Day!Dirs /\ fired' = [fired EXCEPT ![setup] = @ + 1] /\ out \in {setup, "none"}
           /\ kind \in {"orb", "trend"} => fired[setup] = 0
           /\ kind = "scalp" => fired[setup] < ScalpCap
           /\ kind = "preclose" => \A d \in Day!Dirs : fired[d] = 0
  <2>1. \A d \in Day!Dirs : fired'[d] = IF d = setup THEN fired[d] + 1 ELSE fired[d]
    BY <1>4
  <2>2. fired' \in [Day!Dirs -> Nat]
    BY <1>4
  <2> QED
    BY <1>1, <1>4, <2>1, <2>2 DEF CountsBound, Day!Dirs
<1> QED
  BY <1>2, <1>3, <1>4

\* A signal that is sent adds one to its direction and day.
LEMMA EmitAdds ==
  ASSUME NEW out \in Day!Setups, Day!Emit(out), sent \in [Day!Dirs -> [Days -> Nat]], day \in Days
  PROVE  /\ sent' \in [Day!Dirs -> [Days -> Nat]]
         /\ \A d \in Day!Dirs : SumOver(sent'[d], Days) =
                                  IF sent' # sent /\ d = out THEN SumOver(sent[d], Days) + 1
                                  ELSE SumOver(sent[d], Days)
         /\ sent' # sent => out # "none"
<1>1. CASE sent' = sent
  BY <1>1
<1>2. CASE sent' # sent
  <2>1. out \in Day!Dirs /\ sent' = [sent EXCEPT ![out][day] = @ + 1]
    BY <1>2 DEF Day!Emit, Day!Setups
  <2>2. sent' \in [Day!Dirs -> [Days -> Nat]]
    BY <2>1
  <2>3. sent[out] \in [Days -> Nat] /\ sent'[out] = [sent[out] EXCEPT ![day] = @ + 1]
    BY <2>1
  <2>4. SumOver(sent'[out], Days) = SumOver(sent[out], Days) + 1
    BY <2>3, DaysAdd
  <2>5. \A d \in Day!Dirs \ {out} : sent'[d] = sent[d]
    BY <2>1
  <2>6. out # "none"
    BY <2>1 DEF Day!Dirs
  <2> QED
    BY <1>2, <2>2, <2>4, <2>5, <2>6
<1> QED
  BY <1>1, <1>2

\* A bar that reaches the strategy, and one that does not.
LEMMA BarStep ==
  ASSUME DayInv, part = "day", part' = part, Day!DispatchBar
  PROVE  DayInv'
<1> USE DEF DayInv
<1>1. UNCHANGED <<kind, day, slot, enabled, cap, limits, runs>>
  BY DEF Day!DispatchBar
<1>2. CASE UNCHANGED <<Day!memory, Day!breaker, used, sent, faults>>
  BY <1>1, <1>2 DEF Day!memory, Day!breaker, BreakerBounds, ClosedBounds, Day!Recent,
     Day!Counted, CountsBound
<1>3. CASE cb # "OPEN" /\ Day!RecordFailure /\ UNCHANGED <<Day!memory, used, sent, faults>>
  <2>2. BreakerBounds'
    BY <1>1, <1>3, BreakerFails
  <2>3. fired' = fired /\ sent' = sent
    BY <1>3 DEF Day!memory
  <2> QED
    BY <1>1, <2>2, <2>3 DEF CountsBound
<1>4. CASE /\ cb # "OPEN"
           /\ \E setup \in Day!Setups, sized \in BOOLEAN, out \in Day!Setups :
                Day!OnBar(setup, sized, out) /\ Day!RecordSuccess /\ Day!Emit(out)
  <2>1. PICK setup \in Day!Setups, sized \in BOOLEAN, out \in Day!Setups :
          Day!OnBar(setup, sized, out) /\ Day!RecordSuccess /\ Day!Emit(out)
    BY <1>4
  <2>2. BreakerBounds'
    BY <1>1, <1>4, <2>1, BreakerSucceeds
  <2>3. /\ sent' \in [Day!Dirs -> [Days -> Nat]]
        /\ \A d \in Day!Dirs : SumOver(sent'[d], Days) =
                                 IF sent' # sent /\ d = out THEN SumOver(sent[d], Days) + 1
                                 ELSE SumOver(sent[d], Days)
        /\ sent' # sent => out # "none"
    BY <2>1, EmitAdds
  <2>4. /\ fired' \in [Day!Dirs -> Nat]
        /\ kind \in {"orb", "trend"} => \A d \in Day!Dirs : fired'[d] <= 1
        /\ kind = "scalp" => \A d \in Day!Dirs : fired'[d] <= ScalpCap
        /\ kind = "preclose" => fired'["BUY"] + fired'["SELL"] <= 1
        /\ \A d \in Day!Dirs : fired[d] <= fired'[d]
        /\ kind # "vwap" /\ out # "none" => out \in Day!Dirs /\ fired'[out] = fired[out] + 1
    BY <2>1, BarCounts
  <2>5. \A d \in Day!Dirs : SumOver(sent[d], Days) \in Nat
    BY DaysAdd
  <2>6. ASSUME runs = 0, kind # "vwap", NEW d \in Day!Dirs PROVE SumOver(sent'[d], Days) <= fired'[d]
    <3>1. SumOver(sent[d], Days) <= fired[d] /\ fired[d] \in Nat /\ fired'[d] \in Nat
      BY <2>4, <2>6 DEF CountsBound
    <3> QED
      BY <2>3, <2>4, <2>5, <2>6, <3>1
  <2>7. CountsBound'
    BY <1>1, <2>4, <2>6 DEF CountsBound
  <2> QED
    BY <1>1, <2>2, <2>3, <2>4, <2>7
<1> QED
  BY <1>2, <1>3, <1>4 DEF Day!DispatchBar

\* Every step of the strategy's machine keeps the invariant.
LEMMA DayStep == DayInv /\ [Next]_vars => DayInv'
<1> SUFFICES ASSUME DayInv, [Next]_vars, part' = "day" PROVE DayInv'
  BY DEF DayInv
<1>1. ASSUME UNCHANGED <<cb, opened, failures, limits>>, BreakerBounds PROVE BreakerBounds'
  BY <1>1 DEF BreakerBounds, ClosedBounds, Day!Recent, Day!Counted
<1>2. CASE UNCHANGED vars
  BY <1>1, <1>2 DEF vars, dayVars, failVars, DayInv, CountsBound
<1>3. CASE Next
  <2>1. part = "day" /\ Day!Next
    BY <1>3 DEF Next
  <2>2. MaxDays \in Nat \ {0} /\ ScalpCap \in Nat /\ \A l \in Day!Thresholds : l.rate \in Nat \ {0}
    BY FeedAssumption DEF FeedAssumption, Day!Thresholds
  <2>3. CASE Day!Elapse
    <3>1. BreakerBounds'
      BY <2>1, <2>3, BreakerElapses DEF DayInv
    <3> QED
      BY <2>1, <2>3, <3>1 DEF Day!Elapse, Day!memory, Day!runner, DayInv, CountsBound
  <2>4. CASE Day!DispatchBar
    BY <1>3, <2>1, <2>4, BarStep DEF Next
  <2>5. CASE Day!BlockedBar
    <3>1. BreakerBounds'
      BY <1>1, <2>1, <2>5 DEF Day!BlockedBar, Day!breaker, Day!runner, DayInv
    <3> QED
      BY <2>1, <2>5, <3>1 DEF Day!BlockedBar, Day!memory, Day!runner, DayInv, CountsBound
  <2>6. CASE Day!NextSlot
    <3>1. day' \in Days
      BY <2>1, <2>2, <2>6 DEF Day!NextSlot, DayInv, Days
    <3>2. BreakerBounds'
      BY <1>1, <2>1, <2>6 DEF Day!NextSlot, Day!breaker, DayInv
    <3> QED
      BY <2>1, <2>6, <3>1, <3>2 DEF Day!NextSlot, Day!memory, DayInv, CountsBound
  <2>7. CASE Day!RefreshAll
    <3>1. BreakerBounds'
      <4>1. limits'.rate \in Nat \ {0}
        BY <2>2, <2>7 DEF Day!RefreshAll, Day!ApplyConfig
      <4>2. CASE UNCHANGED Day!breaker
        BY <2>1, <4>1, <4>2 DEF DayInv, Day!breaker, BreakerBounds, ClosedBounds,
           Day!Recent, Day!Counted
      <4>3. CASE Day!Reset
        <5>1. failures' = {} /\ cb' = "CLOSED" /\ opened' = 0
          BY <4>3 DEF Day!Reset, Day!Close
        <5> QED
          BY <4>1, <5>1, FS_EmptySet DEF BreakerBounds, Within, ClosedBounds, Day!Recent
      <4> QED
        BY <2>7, <4>2, <4>3 DEF Day!RefreshAll
    <3> QED
      BY <2>1, <2>7, <3>1 DEF Day!RefreshAll, Day!memory, DayInv, CountsBound
  <2>8. CASE Day!Restart
    <3>1. BreakerBounds'
      <4>1. failures' = {} /\ cb' = "CLOSED" /\ opened' = 0 /\ limits' = limits
        BY <2>8 DEF Day!Restart, Day!Reset, Day!Close
      <4> QED
        BY <2>1, <4>1, FS_EmptySet DEF DayInv, BreakerBounds, Within, ClosedBounds,
           Day!Recent
    <3>2. runs' \in Nat /\ runs' # 0 /\ UNCHANGED <<kind, day>> /\ fired' = [d \in Day!Dirs |-> 0]
      BY <2>1, <2>8 DEF Day!Restart, DayInv
    <3>3. sent' \in [Day!Dirs -> [Days -> Nat]]
      BY <2>1, <2>8 DEF Day!Restart, DayInv, Days
    <3>4. CountsBound'
      BY <2>2, <3>2 DEF CountsBound, Day!Dirs
    <3> QED
      BY <2>1, <3>1, <3>2, <3>3, <3>4 DEF DayInv
  <2> QED
    BY <2>1, <2>3, <2>4, <2>5, <2>6, <2>7, <2>8 DEF Day!Next
<1> QED
  BY <1>2, <1>3

\* A strategy that keeps failing is stopped: in any five minutes, no more failures than the
\* highest rate threshold in force at one of them, whatever succeeds in between and however
\* the configuration changes; only a reset or a new process starts anew (CircuitBreaker,
\* apply_config).
THEOREM FailuresAreBounded == Spec => []FailuresBounded
<1>1. DayInv => FailuresBounded
  <2> SUFFICES ASSUME DayInv, part = "day", Day!Recent # {}
               PROVE  \E f \in Day!Recent : Cardinality(Day!Recent) <= f.rate
    BY SameCount DEF FailuresBounded, Day!FailuresBounded
  <2>1. Within(Day!Recent)
    BY DEF DayInv, BreakerBounds
  <2> QED
    BY <2>1 DEF Within
<1> QED
  BY <1>1, DayInit, DayStep, PTL DEF Spec

\* A process sends no more signals in a direction than its strategy's limit, over all its days
\* (on_bar of each strategy, dispatch_bar, _check_cap).
THEOREM SignalsAreLimited == Spec => []SignalsWithinLimits
<1>1. DayInv => SignalsWithinLimits
  <2> SUFFICES ASSUME DayInv, part = "day", runs = 0 PROVE Day!SignalsWithinLimits
    BY DEF SignalsWithinLimits, Day!SignalsWithinLimits
  <2>1. \A d \in Day!Dirs : Day!Total(d) = SumOver(sent[d], Days)
    BY SameSums DEF Day!Total, Days
  <2>2. \A d \in Day!Dirs : SumOver(sent[d], Days) \in Nat /\ fired[d] \in Nat
    BY DaysAdd DEF DayInv
  <2>3. ScalpCap \in Nat
    BY FeedAssumption DEF FeedAssumption
  <2>4. kind \in {"orb", "scalp", "trend"} => \A d \in Day!Dirs : Day!Total(d) <= Day!Limit
    BY <2>1, <2>2, <2>3 DEF DayInv, CountsBound, Day!Limit
  <2>5. kind = "preclose" => Day!Total("BUY") + Day!Total("SELL") <= 1
    BY <2>1, <2>2 DEF DayInv, CountsBound, Day!Dirs
  <2> QED
    BY <2>4, <2>5 DEF Day!SignalsWithinLimits
<1> QED
  BY <1>1, DayInit, DayStep, PTL DEF Spec

-----------------------------------------------------------------------------
(* Candles                                                                 *)

Opens == Candle!Candles

CandleTypes ==
  /\ L \in Nat \ {0} /\ now \in Nat /\ faults \in Nat
  /\ running \in BOOLEAN /\ active \in BOOLEAN /\ startup \in BOOLEAN /\ halted \in BOOLEAN
  /\ blocked \in BOOLEAN /\ polled \in BOOLEAN
  /\ cycle \in Nat \ {0} /\ waited \in Nat
  /\ got \subseteq Opens /\ batch \subseteq Opens
  /\ row \in [Opens -> {"none", "forming", "final"}]
  /\ bar \in [Opens -> {"none", "forming", "final", "dropped"}]
  /\ dedup \in [Opens -> Int] /\ times \in [Opens -> Nat]

\* A candle that was waited, written or returned has opened.
OnlyOpened ==
  \A c \in Opens : /\ row[c] # "none" \/ c \in got \/ c \in batch => c <= now
                   /\ dedup[c] <= now

\* A candle that was returned is remembered, or opened so long ago that no window shows it.
ReturnedOnce ==
  \A c \in Opens :
    /\ times[c] <= 1 /\ (c \in batch => times[c] = 0)
    /\ times[c] = 1 \/ c \in batch => c <= dedup[c] \/ now - c >= 5

\* When the broker offers a candle, and whether a cycle is short enough for the window.
Due(c) == IF running THEN c ELSE c + L
Quick == cycle + (IF running THEN 0 ELSE L) < 3

\* Without failures a candle is written by the end of the cycle in which it is offered, and
\* polled in the minute after at the latest.
InTime ==
  /\ active /\ ~halted /\ ~blocked /\ (startup => now = 0 /\ ~polled)
  /\ last # -1 => last \in Opens /\ row[last] # "none"
  /\ \A c \in Opens :
       /\ dedup[c] >= 0 => bar[c] # "none"
       /\ Due(c) + waited <= now => row[c] # "none" \/ c \in got
       /\ Due(c) + cycle <= now => row[c] # "none"
       /\ c > 0 /\ Due(c) + cycle < now => bar[c] # "none"
       /\ c > 0 /\ polled /\ Due(c) + cycle = now => bar[c] # "none"

CandleInv ==
  part = "candle" =>
    /\ CandleTypes /\ OnlyOpened /\ ReturnedOnce
    /\ faults = 0 /\ Quick => InTime

\* The candles open at natural numbers, finitely many.
LEMMA OpensAre == L \in Nat \ {0} => Opens \subseteq Nat /\ IsFiniteSet(Opens)
<1> SUFFICES ASSUME L \in Nat \ {0} PROVE Opens \subseteq Nat /\ IsFiniteSet(Opens)
  OBVIOUS
<1> DEFINE g == [k \in 0 .. NCandles - 1 |-> k * L]
<1>1. Opens = {g[k] : k \in 0 .. NCandles - 1}
  BY DEF Opens, Candle!Candles
<1>2. \A k \in 0 .. NCandles - 1 : g[k] \in Nat
  OBVIOUS
<1>3. IsFiniteSet(0 .. NCandles - 1)
  BY FeedAssumption, FS_Interval DEF FeedAssumption
<1> HIDE DEF g
<1> QED
  BY <1>1, <1>2, <1>3, FiniteImage

\* The least of the waited candles is one of them.
LEMMA FirstFetched ==
  ASSUME CandleTypes, got # {}
  PROVE  Candle!Min(got) \in got
<1>1. IsFiniteSet(got) /\ got \subseteq Int
  BY OpensAre, FS_Subset DEF CandleTypes
<1>2. Candle!Min(got) = Min(got)
  BY DEF Min, Candle!Min
<1> QED
  BY <1>1, <1>2, LeastOf

\* At the start no candle has opened.
LEMMA CandleInit == Init => CandleInv
<1> SUFFICES ASSUME Init, part = "candle" PROVE CandleInv
  BY DEF CandleInv
<1>1. Candle!Init
  BY DEF Init
<1>2. L \in Nat \ {0} /\ cycle \in Nat \ {0} /\ waited \in Nat \ {0}
  <2>1. L \in Nat \ {0} /\ cycle \in Nat \ {0} /\ waited \in 1 .. cycle
    BY <1>1, FeedAssumption DEF Candle!Init, FeedAssumption
  <2> QED
    BY <2>1
<1>3. Opens \subseteq Nat
  BY <1>2, OpensAre
<1>4. CandleTypes
  <2>1. /\ row = [c \in Opens |-> "none"] /\ bar = [c \in Opens |-> "none"]
        /\ dedup = [c \in Opens |-> -1] /\ times = [c \in Opens |-> 0]
    BY <1>1 DEF Candle!Init, Opens
  <2>2. now = 0 /\ faults = 0 /\ got = {} /\ batch = {} /\ running \in BOOLEAN
    BY <1>1 DEF Candle!Init
  <2>3. active = TRUE /\ startup = TRUE /\ halted = FALSE /\ blocked = FALSE /\ polled = FALSE
    BY <1>1 DEF Candle!Init
  <2>4. row \in [Opens -> {"none", "forming", "final"}]
    BY <2>1
  <2>5. bar \in [Opens -> {"none", "forming", "final", "dropped"}]
    BY <2>1
  <2>6. dedup \in [Opens -> Int] /\ times \in [Opens -> Nat]
    BY <2>1
  <2> QED
    BY <1>2, <2>2, <2>3, <2>4, <2>5, <2>6 DEF CandleTypes
<1>5. OnlyOpened /\ ReturnedOnce
  BY <1>1, <1>3 DEF Candle!Init, OnlyOpened, ReturnedOnce, Opens
<1>6. InTime
  BY <1>1, <1>2, <1>3 DEF Candle!Init, InTime, Due, Opens
<1> QED
  BY <1>4, <1>5, <1>6 DEF CandleInv

\* The stream: what it fetches and writes has opened, and what is due it fetches and writes.
LEMMA StreamStep ==
  ASSUME CandleInv, part = "candle", part' = part, Candle!FetchCandles \/ Candle!WriteCandle
  PROVE  CandleInv'
<1>1. UNCHANGED <<L, running, cycle, now, active, halted, blocked, startup, batch, bar, dedup, times, polled>>
  BY DEF Candle!FetchCandles, Candle!WriteCandle, Candle!engine, Candle!given
<1>2. Opens' = Opens /\ Opens \subseteq Nat
  BY <1>1, OpensAre DEF CandleInv, CandleTypes, Opens, Candle!Candles
<1>3. L \in Nat \ {0} /\ now \in Nat /\ faults \in Nat /\ cycle \in Nat \ {0} /\ waited \in Nat
  BY DEF CandleInv, CandleTypes
<1>4. CASE Candle!FetchCandles
  <2>1. /\ got = {} /\ waited' = 0 /\ UNCHANGED <<last, row>>
        /\ (got' = Candle!Historical /\ faults' = faults) \/ (faults' = faults + 1 /\ got' = got)
    BY <1>4 DEF Candle!FetchCandles, Candle!Fault
  <2>2. \A c \in Opens : c \in Candle!Historical <=>
          c <= now /\ c > now - 7 /\ (running \/ ~(c + L > now))
    BY DEF Candle!Historical, Candle!Version, Opens
  <2>3. Candle!Historical \subseteq Opens
    BY DEF Candle!Historical, Opens
  <2>4. CandleTypes'
    <3>1. faults' \in Nat /\ got' \subseteq Opens
      BY <1>3, <2>1, <2>3
    <3>2. waited' \in Nat
      BY <2>1
    <3> QED
      BY <1>1, <1>2, <2>1, <3>1, <3>2 DEF CandleInv, CandleTypes
  <2>5. OnlyOpened' /\ ReturnedOnce'
    BY <1>1, <1>2, <2>1, <2>2 DEF CandleInv, OnlyOpened, ReturnedOnce
  <2>6. ASSUME faults' = 0, Quick PROVE InTime'
    <3>1. got' = Candle!Historical /\ InTime
      BY <1>3, <2>1, <2>6 DEF CandleInv
    <3>2. \A c \in Opens : Due(c) <= now /\ ~(Due(c) + cycle <= now) => c \in Candle!Historical
      BY <1>2, <1>3, <2>2, <2>6 DEF Due, Quick
    <3>3. \A c \in Opens : Due(c) \in Nat /\ Due(c)' = Due(c)
      BY <1>1, <1>2, <1>3 DEF Due
    <3> QED
      BY <1>1, <1>2, <1>3, <2>1, <3>1, <3>2, <3>3 DEF InTime
  <2> QED
    BY <1>1, <2>4, <2>5, <2>6 DEF CandleInv, Quick
<1>5. CASE Candle!WriteCandle
  <2> DEFINE c == Candle!Min(got)
  <2>1. /\ got # {} /\ got' = got \ {c} /\ UNCHANGED waited
        /\ IF Candle!Written(c) THEN UNCHANGED <<last, row, faults>>
           ELSE /\ last' = c
                /\ \/ row' = [row EXCEPT ![c] = Candle!Version(c)] /\ UNCHANGED faults
                   \/ faults' = faults + 1 /\ UNCHANGED row
    BY <1>5 DEF Candle!WriteCandle, Candle!Fault
  <2>2. c \in got /\ c \in Opens /\ c <= now
    BY <2>1, FirstFetched DEF CandleInv, CandleTypes, OnlyOpened
  <2>3. Candle!Version(c) \in {"forming", "final"} /\ (Candle!Written(c) <=> c = last)
    BY DEF Candle!Version, Candle!Written
  <2> HIDE DEF c
  <2>4. CandleTypes'
    BY <1>1, <1>2, <1>3, <2>1, <2>2, <2>3 DEF CandleInv, CandleTypes
  <2>5. OnlyOpened' /\ ReturnedOnce'
    BY <1>1, <1>2, <2>1, <2>2 DEF CandleInv, CandleTypes, OnlyOpened, ReturnedOnce
  <2>6. ASSUME faults' = 0, Quick PROVE InTime'
    <3>1. faults = 0 /\ InTime /\ faults' = faults
      BY <1>3, <2>1, <2>6 DEF CandleInv
    <3>2. row'[c] # "none" /\ \A d \in Opens \ {c} : row'[d] = row[d]
      BY <1>2, <1>3, <2>1, <2>2, <2>3, <3>1 DEF CandleInv, CandleTypes, InTime
    <3>3. last' # -1 => last' \in Opens /\ row'[last'] # "none"
      BY <1>3, <2>1, <2>2, <2>3, <3>1, <3>2 DEF InTime
    <3> QED
      BY <1>1, <1>2, <2>1, <2>2, <3>1, <3>2, <3>3 DEF InTime, Due
  <2> QED
    BY <1>1, <2>4, <2>5, <2>6 DEF CandleInv, Quick
<1> QED
  BY <1>4, <1>5


\* A poll returns what has opened within its window and was not returned before, and what
\* it returns had not been dispatched.
LEMMA PollStep ==
  ASSUME CandleInv, part = "candle", part' = part, Candle!PollNewCandles
  PROVE  CandleInv'
<1>1. /\ UNCHANGED <<L, running, cycle, now, active, last, got, waited, row, times, halted, blocked>>
      /\ batch = {} /\ ~polled /\ polled' = TRUE /\ startup' = FALSE
  BY DEF Candle!PollNewCandles, Candle!stream, Candle!given
<1>2. Opens' = Opens /\ Opens \subseteq Nat
  BY <1>1, OpensAre DEF CandleInv, CandleTypes, Opens, Candle!Candles
<1>3. L \in Nat \ {0} /\ now \in Nat /\ faults \in Nat
  BY DEF CandleInv, CandleTypes
<1>4. \A c \in Opens : Candle!Evicted[c] = IF dedup[c] >= 0 /\ now - dedup[c] >= 5 THEN -1 ELSE dedup[c]
  BY DEF Candle!Evicted, Opens
<1>5. Candle!Evicted \in [Opens -> Int]
  BY DEF Candle!Evicted, Opens, CandleInv, CandleTypes
<1>6. \A c \in Opens : dedup[c] \in Int /\ dedup[c] <= now /\ Candle!Evicted[c] <= now
  BY <1>3, <1>4 DEF CandleInv, CandleTypes, OnlyOpened
<1> DEFINE ev == Candle!Evicted
<1> HIDE DEF ev
<1>7. CASE /\ batch' = {c \in Candle!Rows : ev[c] < 0} /\ faults' = faults
           /\ dedup' = [c \in Opens |-> IF c \in batch' THEN now ELSE ev[c]]
           /\ bar' = [c \in Opens |-> IF c \in batch' THEN row[c] ELSE bar[c]]
  <2>1. batch' \subseteq Opens /\ \A c \in batch' : row[c] # "none" /\ ev[c] < 0 /\ c > now - Candle!Lookback
    BY <1>7 DEF Candle!Rows, Opens
  <2>2. \A c \in Opens : /\ dedup'[c] = IF c \in batch' THEN now ELSE ev[c]
                         /\ bar'[c] = IF c \in batch' THEN row[c] ELSE bar[c]
    BY <1>7
  <2>3. \A c \in batch' : c <= now /\ c > now - 3 /\ times[c] = 0
    <3> TAKE c \in batch'
    <3>1. c \in Opens /\ c \in Nat /\ c <= now
      BY <1>2, <2>1 DEF CandleInv, OnlyOpened
    <3>2. c > now - 3
      BY <1>3, <2>1, <3>1 DEF Candle!Lookback
    <3>3. ~(times[c] = 1)
      BY <1>3, <1>4, <1>6, <2>1, <3>1, <3>2 DEF CandleInv, ReturnedOnce, ev
    <3>4. times[c] \in Nat /\ times[c] <= 1
      BY <3>1 DEF CandleInv, CandleTypes, ReturnedOnce
    <3> QED
      BY <3>1, <3>2, <3>3, <3>4
  <2>4. CandleTypes'
    <3>1. dedup' \in [Opens -> Int]
      BY <1>3, <1>5, <1>7 DEF ev
    <3>2. bar' \in [Opens -> {"none", "forming", "final", "dropped"}]
      BY <1>7 DEF CandleInv, CandleTypes
    <3>3. polled' \in BOOLEAN /\ startup' \in BOOLEAN /\ faults' \in Nat
      BY <1>1, <1>3, <1>7
    <3> QED
      BY <1>1, <1>2, <2>1, <3>1, <3>2, <3>3 DEF CandleInv, CandleTypes
  <2>5. OnlyOpened'
    BY <1>1, <1>2, <1>3, <1>6, <2>2, <2>3 DEF CandleInv, OnlyOpened, ev
  <2>6. ReturnedOnce'
    <3> SUFFICES ASSUME NEW c \in Opens
                 PROVE  /\ times[c] <= 1 /\ (c \in batch' => times[c] = 0)
                        /\ times[c] = 1 \/ c \in batch' => c <= dedup'[c] \/ now - c >= 5
      BY <1>1, <1>2 DEF ReturnedOnce
    <3>1. CASE c \in batch'
      BY <1>2, <1>3, <2>2, <2>3, <3>1 DEF CandleInv, ReturnedOnce
    <3>2. CASE c \notin batch'
      BY <1>2, <1>3, <1>4, <1>6, <2>2, <3>2 DEF CandleInv, ReturnedOnce, ev
    <3> QED
      BY <3>1, <3>2
  <2>7. ASSUME faults' = 0, Quick PROVE InTime'
    <3>1. InTime
      BY <1>7, <2>7 DEF CandleInv
    <3>2. ASSUME NEW c \in Opens, c > 0, Due(c) + cycle = now PROVE bar'[c] # "none"
      <4>0. cycle \in Nat \ {0}
        BY DEF CandleInv, CandleTypes
      <4>1. c \in Nat /\ Due(c) \in Nat /\ c > now - 3 /\ now # 0
        BY <1>2, <1>3, <2>7, <3>2, <4>0 DEF Due, Quick
      <4>2. row[c] # "none" /\ ~startup
        BY <1>3, <3>1, <3>2, <4>1 DEF InTime
      <4>3. c \in Candle!Rows
        BY <4>1, <4>2 DEF Candle!Rows, Candle!Lookback, Opens
      <4>4. CASE ev[c] < 0
        BY <1>7, <2>2, <4>2, <4>3, <4>4
      <4>5. CASE ~(ev[c] < 0)
        <5>1. dedup[c] >= 0
          BY <1>4, <1>6, <4>5 DEF ev
        <5> QED
          BY <2>1, <2>2, <3>1, <4>5, <5>1 DEF InTime
      <4> QED
        BY <4>4, <4>5
    <3>3. ASSUME NEW c \in Opens PROVE (dedup'[c] >= 0 \/ bar[c] # "none") => bar'[c] # "none"
      <4>1. CASE c \in batch'
        BY <2>1, <2>2, <4>1
      <4>2. CASE c \notin batch'
        BY <1>4, <1>6, <2>2, <3>1, <4>2 DEF InTime, ev
      <4> QED
        BY <4>1, <4>2
    <3> QED
      BY <1>1, <1>2, <3>1, <3>2, <3>3 DEF InTime, Due
  <2> QED
    BY <1>1, <2>4, <2>5, <2>6, <2>7 DEF CandleInv, Quick
<1>8. CASE dedup' = ev /\ faults' = faults + 1 /\ UNCHANGED <<batch, bar>>
  <2>1. CandleTypes'
    <3>1. polled' \in BOOLEAN /\ startup' \in BOOLEAN
      BY <1>1 DEF CandleInv, CandleTypes
    <3>2. faults' \in Nat
      BY <1>3, <1>8
    <3> QED
      BY <1>1, <1>2, <1>5, <1>8, <3>1, <3>2 DEF CandleInv, CandleTypes, ev
  <2>2. OnlyOpened'
    BY <1>1, <1>2, <1>6, <1>8 DEF CandleInv, OnlyOpened, ev
  <2>3. ReturnedOnce'
    BY <1>1, <1>2, <1>3, <1>4, <1>6, <1>8 DEF CandleInv, ReturnedOnce, ev
  <2>4. faults' # 0
    BY <1>3, <1>8
  <2> QED
    BY <2>1, <2>2, <2>3, <2>4 DEF CandleInv
<1> QED
  BY <1>7, <1>8 DEF Candle!PollNewCandles, Candle!Fault, ev, Opens

\* A dispatched candle leaves the batch.
LEMMA DispatchStep ==
  ASSUME CandleInv, part = "candle", part' = part, Candle!Dispatch
  PROVE  CandleInv'
<1>1. UNCHANGED <<L, running, cycle, now, active, last, got, waited, row, dedup, startup, halted, blocked, polled, faults>>
  BY DEF Candle!Dispatch, Candle!stream, Candle!given
<1>2. PICK c \in batch : /\ batch' = batch \ {c} /\ times' = [times EXCEPT ![c] = @ + 1]
                         /\ bar' = IF blocked THEN [bar EXCEPT ![c] = "dropped"] ELSE bar
  BY DEF Candle!Dispatch
<1>3. Opens' = Opens
  BY <1>1 DEF Opens, Candle!Candles
<1>4. c \in Opens /\ times[c] = 0 /\ times'[c] = 1 /\ \A d \in Opens \ {c} : times'[d] = times[d]
  BY <1>2 DEF CandleInv, CandleTypes, ReturnedOnce
<1>5. CandleTypes'
  BY <1>1, <1>2, <1>3, <1>4 DEF CandleInv, CandleTypes
<1>6. OnlyOpened' /\ ReturnedOnce'
  BY <1>1, <1>2, <1>3, <1>4 DEF CandleInv, OnlyOpened, ReturnedOnce
<1>7. InTime => InTime'
  BY <1>1, <1>2, <1>3 DEF InTime, Due
<1> QED
  BY <1>1, <1>5, <1>6, <1>7 DEF CandleInv, Quick

\* The clock moves when the loops have come round.
LEMMA CandleClockStep ==
  ASSUME CandleInv, part = "candle", part' = part, Candle!Clock
  PROVE  CandleInv'
<1>1. /\ UNCHANGED <<L, running, cycle, active, last, got, row, dedup, startup, batch, bar, times, halted, blocked, faults>>
      /\ now' = now + 1 /\ got = {} /\ batch = {} /\ (waited < cycle \/ ~active) /\ (polled \/ halted)
      /\ waited' = (IF waited < cycle THEN waited + 1 ELSE waited) /\ polled' = FALSE
  BY DEF Candle!Clock, Candle!given
<1>2. Opens' = Opens /\ Opens \subseteq Nat
  BY <1>1, OpensAre DEF CandleInv, CandleTypes, Opens, Candle!Candles
<1>3. /\ L \in Nat \ {0} /\ now \in Nat /\ \A c \in Opens : dedup[c] \in Int
      /\ cycle \in Nat \ {0} /\ waited \in Nat
  BY DEF CandleInv, CandleTypes
<1>4. CandleTypes'
  <2>1. now' \in Nat
    BY <1>1, <1>3
  <2>2. waited' \in {waited, waited + 1} /\ polled' \in BOOLEAN
    BY <1>1
  <2>3. waited' \in Nat
    BY <1>3, <2>2
  <2> QED
    BY <1>1, <1>2, <2>1, <2>2, <2>3 DEF CandleInv, CandleTypes
<1>5. OnlyOpened' /\ ReturnedOnce'
  BY <1>1, <1>2, <1>3 DEF CandleInv, OnlyOpened, ReturnedOnce
<1>6. InTime => InTime'
  <2> SUFFICES ASSUME InTime PROVE InTime'
    OBVIOUS
  <2>1. \A c \in Opens : Due(c) \in Nat /\ Due(c)' = Due(c)
    BY <1>1, <1>2, <1>3 DEF Due
  <2>2. waited < cycle /\ waited' = waited + 1 /\ polled /\ ~startup
    BY <1>1 DEF InTime
  <2>3. \A c \in Opens : /\ Due(c) + (waited + 1) <= now + 1 => row[c] # "none"
                         /\ Due(c) + cycle <= now + 1 => row[c] # "none"
                         /\ c > 0 /\ Due(c) + cycle < now + 1 => bar[c] # "none"
    BY <1>1, <1>3, <2>1, <2>2 DEF InTime
  <2> QED
    BY <1>1, <1>2, <2>1, <2>2, <2>3 DEF InTime
<1> QED
  BY <1>1, <1>4, <1>5, <1>6 DEF CandleInv, Quick

\* Failures and restarts; after them nothing is said of the time.
LEMMA CandleFailureStep ==
  ASSUME CandleInv, part = "candle", part' = part,
         \/ Candle!OnPhaseChange \/ Candle!RestartStream \/ Candle!LoopFails \/ Candle!KillSwitch
         \/ Candle!EntryBlock \/ Candle!RestartEngine
  PROVE  CandleInv'
<1>1. UNCHANGED <<L, running, cycle, now, row>> /\ faults' = faults + 1
  BY DEF Candle!given, Candle!OnPhaseChange, Candle!RestartStream, Candle!LoopFails,
     Candle!KillSwitch,
         Candle!EntryBlock, Candle!RestartEngine, Candle!Fault
<1>2. Opens' = Opens /\ Opens \subseteq Nat
  BY <1>1, OpensAre DEF CandleInv, CandleTypes, Opens, Candle!Candles
<1>3. faults \in Nat /\ now \in Nat
  BY DEF CandleInv, CandleTypes
<1>4. faults' \in Nat /\ faults' # 0
  BY <1>1, <1>3
<1> USE DEF CandleInv
<1>5. CASE Candle!OnPhaseChange \/ Candle!KillSwitch \/ Candle!EntryBlock
  <2>1. active' \in BOOLEAN /\ halted' \in BOOLEAN /\ blocked' \in BOOLEAN
    <3>1. CASE Candle!OnPhaseChange
      BY <3>1 DEF Candle!OnPhaseChange, Candle!engine, CandleTypes
    <3>2. CASE Candle!KillSwitch
      BY <3>2 DEF Candle!KillSwitch, Candle!stream, CandleTypes
    <3>3. CASE Candle!EntryBlock
      BY <3>3 DEF Candle!EntryBlock, Candle!stream, CandleTypes
    <3> QED
      BY <1>5, <3>1, <3>2, <3>3
  <2>2. UNCHANGED <<got, batch, bar, dedup, times, waited, polled, startup>>
    BY <1>5 DEF Candle!OnPhaseChange, Candle!KillSwitch, Candle!EntryBlock,
       Candle!stream, Candle!engine
  <2>3. CandleTypes'
    BY <1>1, <1>2, <1>4, <2>1, <2>2 DEF CandleTypes
  <2>4. OnlyOpened' /\ ReturnedOnce'
    BY <1>1, <1>2, <2>2 DEF OnlyOpened, ReturnedOnce
  <2> QED
    BY <1>4, <2>3, <2>4
<1>6. CASE Candle!RestartStream
  <2>1. got' = {} /\ UNCHANGED <<active, halted, blocked, batch, bar, dedup, times, waited, polled, startup>>
    BY <1>6 DEF Candle!RestartStream, Candle!engine
  <2>2. CandleTypes'
    BY <1>1, <1>2, <1>4, <2>1 DEF CandleTypes
  <2>3. OnlyOpened' /\ ReturnedOnce'
    BY <1>1, <1>2, <2>1 DEF OnlyOpened, ReturnedOnce
  <2> QED
    BY <1>4, <2>2, <2>3
<1>7. CASE Candle!LoopFails
  <2>1. /\ batch' = {} /\ bar' = [c \in Opens |-> IF c \in batch THEN "dropped" ELSE bar[c]]
        /\ UNCHANGED <<active, halted, blocked, got, dedup, times, waited, polled, startup>>
    BY <1>7 DEF Candle!LoopFails, Candle!stream, Opens
  <2>2. bar' \in [Opens -> {"none", "forming", "final", "dropped"}]
    BY <2>1 DEF CandleTypes
  <2>3. CandleTypes'
    BY <1>1, <1>2, <1>4, <2>1, <2>2 DEF CandleTypes
  <2>4. OnlyOpened' /\ ReturnedOnce'
    BY <1>1, <1>2, <2>1 DEF OnlyOpened, ReturnedOnce
  <2> QED
    BY <1>4, <2>3, <2>4
<1>8. CASE Candle!RestartEngine
  <2>1. /\ batch' = {} /\ bar' = [c \in Opens |-> IF c \in batch THEN "dropped" ELSE bar[c]]
        /\ startup' = TRUE /\ polled' = FALSE
        /\ dedup' = [c \in Opens |-> -1] /\ times' = [c \in Opens |-> 0]
        /\ UNCHANGED <<active, halted, blocked, got, waited>>
    BY <1>8 DEF Candle!RestartEngine, Candle!stream, Opens
  <2>2. bar' \in [Opens -> {"none", "forming", "final", "dropped"}]
    BY <2>1 DEF CandleTypes
  <2>3. dedup' \in [Opens -> Int] /\ times' \in [Opens -> Nat]
    BY <2>1
  <2>4. startup' \in BOOLEAN /\ polled' \in BOOLEAN
    BY <2>1
  <2>5. CandleTypes'
    BY <1>1, <1>2, <1>4, <2>1, <2>2, <2>3, <2>4 DEF CandleTypes
  <2>6. \A c \in Opens : dedup'[c] = -1 /\ times'[c] = 0
    BY <2>1
  <2>7. OnlyOpened' /\ ReturnedOnce'
    BY <1>1, <1>2, <1>3, <2>1, <2>6 DEF OnlyOpened, ReturnedOnce
  <2> QED
    BY <1>4, <2>5, <2>7
<1> QED
  BY <1>5, <1>6, <1>7, <1>8

\* Every step of the candles' machine keeps the invariant.
LEMMA CandleStep == CandleInv /\ [Next]_vars => CandleInv'
<1> SUFFICES ASSUME CandleInv, [Next]_vars, part' = "candle" PROVE CandleInv'
  BY DEF CandleInv
<1>1. CASE UNCHANGED vars
  <2>1. Opens' = Opens
    BY <1>1 DEF vars, candleVars, Opens, Candle!Candles
  <2> QED
    BY <1>1, <2>1 DEF vars, candleVars, clockVars, CandleInv, CandleTypes, OnlyOpened,
       ReturnedOnce, InTime, Due, Quick
<1>2. CASE Next
  <2>1. part = "candle" /\ part' = part /\ Candle!Next
    BY <1>2 DEF Next
  <2> QED
    BY <2>1, StreamStep, PollStep, DispatchStep, CandleClockStep, CandleFailureStep DEF
       Candle!Next
<1> QED
  BY <1>1, <1>2

\* When nothing fails and the stream's cycle, from when the broker offers a candle on, is shorter
\* than the consumer's window, a candle reaches the strategies within three minutes of its
\* opening (_next_instrument_interval, _fetch_candles, poll_new_candles).
THEOREM BarsDoArrive == Spec => []BarsArrive
<1>1. CandleInv => BarsArrive
  <2> SUFFICES ASSUME CandleInv, part = "candle", faults = 0, Quick,
                      NEW c \in Opens, now > c + 2, c > 0
               PROVE  bar[c] # "none"
    BY DEF BarsArrive, Candle!BarsArrive, Opens, Quick
  <2>1. c \in Nat /\ L \in Nat \ {0} /\ now \in Nat /\ cycle \in Nat \ {0}
    BY OpensAre DEF CandleInv, CandleTypes
  <2>2. Due(c) + cycle < now
    BY <2>1 DEF Due, Quick
  <2> QED
    BY <2>2 DEF CandleInv, InTime
<1> QED
  BY <1>1, CandleInit, CandleStep, PTL DEF Spec

-----------------------------------------------------------------------------
(* The ticks from the websocket to the strategies                          *)

TickStages == {"new", "invalid", "flushing", "stored", "queued", "delivered", "failed", "lost"}
TickRecords == [at : TickStages, gap : BOOLEAN, born : Nat, early : BOOLEAN]
Hands == [tick : Nat, at : {"idle", "polled", "handled", "routed"}]

TickTypes ==
  /\ tick \in Seq(TickRecords) /\ Len(tick) <= NTicks
  /\ gap \in Nat /\ fresh \in Nat /\ fresh <= GapTicks /\ now \in Nat
  /\ row \in [Tick!Ticks -> [is : {"none", "shell", "event"}, due : Nat]]
  /\ queue \in Seq(Nat) /\ topic \in Seq(Nat) /\ pos \in Nat /\ committed \in Nat
  /\ hand \in Hands /\ seen \in [Tick!Ticks -> Nat]

\* A tick is marked as long as the connection is fresh, and a marked one gives no signal.
WarmUp ==
  /\ gap + fresh >= GapTicks
  /\ \A i \in DOMAIN tick : tick[i].early => tick[i].gap
  /\ signalled \subseteq {i \in DOMAIN tick : ~tick[i].gap}

\* What is queued is not in the topic yet; what is there is there once, unless the tick loop
\* failed on it, and only that comes back.
SentOnce ==
  /\ retries \subseteq failed
  /\ \A i \in failed : i \in DOMAIN tick /\ tick[i].at \in {"delivered", "failed"}
  /\ \A k \in DOMAIN queue : queue[k] \in DOMAIN tick /\ tick[queue[k]].at = "queued"
  /\ \A j \in DOMAIN queue : \A k \in DOMAIN queue : queue[j] = queue[k] => j = k
  /\ \A k \in DOMAIN topic : topic[k] \in DOMAIN tick /\ tick[topic[k]].at \in {"delivered", "failed"}
  /\ \A j \in DOMAIN topic : \A k \in DOMAIN topic : topic[j] = topic[k] /\ topic[j] \notin failed => j = k

\* A row with an event in it falls due later than its tick may be sent.
DueTooLate ==
  /\ \A i \in DOMAIN tick : tick[i].born <= now
  /\ \A i \in Tick!Ticks : row[i].is = "event" => i \in DOMAIN tick /\ row[i].due >= tick[i].born + ReplayAfter

\* The consumer reads the topic once from front to back, as long as it lives.
ReadOnce ==
  /\ committed <= pos /\ pos <= Len(topic)
  /\ hand.at # "idle" => pos > 0 /\ hand.tick = topic[pos]
  /\ hand.at = "polled" => hand.tick \in failed \/ seen[hand.tick] = 0
  /\ \A i \in Tick!Ticks \ failed : /\ seen[i] <= 1
                                    /\ seen[i] > 0 => \E k \in 1 .. pos : topic[k] = i

TickInv == part = "tick" => TickTypes /\ WarmUp /\ SentOnce /\ DueTooLate /\ ReadOnce

\* The bounds of the ticks are numbers.
LEMMA TickBounds == NTicks \in Nat /\ GapTicks \in Nat /\ MaxAge \in Nat /\ ReplayAfter \in Nat /\ MaxAge < ReplayAfter
BY FeedAssumption DEF FeedAssumption

\* At the start there is no tick.
LEMMA TickInit == Init => TickInv
<1> SUFFICES ASSUME Init, part = "tick" PROVE TickInv
  BY DEF TickInv
<1>1. Tick!Init
  BY DEF Init
<1> USE <1>1, TickBounds DEF Tick!Init
<1>2. TickTypes
  <2>1. row \in [Tick!Ticks -> [is : {"none", "shell", "event"}, due : Nat]]
    BY DEF Tick!NoRow
  <2>2. hand \in Hands /\ seen \in [Tick!Ticks -> Nat]
    BY DEF Tick!Idle, Hands
  <2>3. tick \in Seq(TickRecords) /\ Len(tick) = 0 /\ queue \in Seq(Nat) /\ topic \in Seq(Nat)
    OBVIOUS
  <2> QED
    BY <2>1, <2>2, <2>3 DEF TickTypes
<1>3. WarmUp /\ SentOnce
  BY DEF WarmUp, SentOnce
<1>4. DueTooLate
  BY DEF DueTooLate, Tick!NoRow
<1>5. ReadOnce
  BY DEF ReadOnce, Tick!Idle
<1> QED
  BY <1>2, <1>3, <1>4, <1>5 DEF TickInv

\* What becomes of a tick whose stage changes, and of the others.
LEMMA AtSets ==
  ASSUME tick \in Seq(TickRecords), NEW i \in DOMAIN tick, NEW s \in TickStages, Tick!At(i, s)
  PROVE  /\ tick' \in Seq(TickRecords) /\ DOMAIN tick' = DOMAIN tick /\ Len(tick') = Len(tick)
         /\ tick'[i].at = s
         /\ \A j \in DOMAIN tick \ {i} : tick'[j].at = tick[j].at
         /\ \A j \in DOMAIN tick : /\ tick'[j].gap = tick[j].gap /\ tick'[j].early = tick[j].early
                                   /\ tick'[j].born = tick[j].born
<1>1. tick' = [tick EXCEPT ![i].at = s]
  BY DEF Tick!At
<1>2. tick[i] \in TickRecords
  OBVIOUS
<1>3. tick' = [tick EXCEPT ![i] = [tick[i] EXCEPT !.at = s]]
  BY <1>1
<1> DEFINE r == [tick[i] EXCEPT !.at = s]
<1>4. r.at = s /\ r.gap = tick[i].gap /\ r.early = tick[i].early /\ r.born = tick[i].born
  BY <1>2 DEF TickRecords
<1>5. r \in TickRecords
  BY <1>2 DEF TickRecords
<1>6. tick' = [tick EXCEPT ![i] = r]
  BY <1>3
<1> HIDE DEF r
<1>7. tick' \in Seq(TickRecords) /\ DOMAIN tick' = DOMAIN tick /\ Len(tick') = Len(tick)
      /\ tick'[i] = r /\ \A j \in DOMAIN tick \ {i} : tick'[j] = tick[j]
  BY <1>5, <1>6
<1> QED
  BY <1>4, <1>7

\* The connector: nothing but the fresh connection and its marks.
LEMMA ConnectorStep ==
  ASSUME TickInv, part = "tick", part' = part,
         \/ Tick!Start \/ Tick!OnClose \/ Tick!OnReconnect \/ Tick!OnConnect \/ Tick!OnNoReconnect
  PROVE  TickInv'
<1>1. UNCHANGED <<tick, row, queue, topic, pos, committed, hand, seen, signalled, retries, failed, now>>
  BY DEF Tick!Start, Tick!OnClose, Tick!OnReconnect, Tick!OnConnect, Tick!OnNoReconnect,
     Tick!publisher, Tick!engine
<1>2. (gap' = gap /\ fresh' = fresh) \/ (gap' = GapTicks /\ fresh' = 0)
  BY DEF Tick!Start, Tick!OnClose, Tick!OnReconnect, Tick!OnConnect, Tick!OnNoReconnect
<1>3. gap' \in Nat /\ fresh' \in Nat /\ fresh' <= GapTicks /\ gap' + fresh' >= GapTicks
  BY <1>2, TickBounds DEF TickInv, TickTypes, WarmUp
<1>4. TickTypes' /\ WarmUp'
  BY <1>1, <1>3 DEF TickInv, TickTypes, WarmUp
<1>5. SentOnce' /\ DueTooLate' /\ ReadOnce'
  BY <1>1 DEF TickInv, SentOnce, DueTooLate, ReadOnce
<1> QED
  BY <1>4, <1>5 DEF TickInv

\* A tick that arrives is marked when the connection is fresh.
LEMMA TickArrives ==
  ASSUME TickInv, part = "tick", part' = part, Tick!OnTick
  PROVE  TickInv'
<1> DEFINE r == [at |-> "new", gap |-> gap > 0, born |-> now, early |-> fresh < GapTicks]
<1>1. /\ UNCHANGED <<row, queue, topic, pos, committed, hand, seen, signalled, retries, failed, now>>
      /\ Len(tick) < NTicks /\ tick' = Append(tick, r)
      /\ gap' = (IF gap > 0 THEN gap - 1 ELSE 0) /\ fresh' = (IF fresh < GapTicks THEN fresh + 1 ELSE fresh)
  BY DEF Tick!OnTick, Tick!publisher, Tick!engine
<1>2. gap \in Nat /\ fresh \in Nat /\ fresh <= GapTicks /\ gap + fresh >= GapTicks /\ now \in Nat
  BY DEF TickInv, TickTypes, WarmUp
<1>3. gap' \in Nat /\ fresh' \in Nat /\ fresh' <= GapTicks /\ gap' + fresh' >= GapTicks
  <2>1. GapTicks \in Nat
    BY TickBounds
  <2>2. gap' \in Nat /\ (gap > 0 => gap' = gap - 1) /\ (gap = 0 => gap' = 0)
    BY <1>1, <1>2
  <2>3. (fresh < GapTicks => fresh' = fresh + 1) /\ (fresh = GapTicks => fresh' = fresh)
    BY <1>1, <1>2, <2>1
  <2> QED
    BY <1>2, <2>1, <2>2, <2>3
<1>4. r \in TickRecords
  BY <1>2 DEF TickRecords, TickStages
<1>5. r.early => r.gap
  <2>1. (fresh < GapTicks) => (gap > 0)
    BY <1>2, TickBounds
  <2> QED
    BY <2>1
<1>6. r.born <= now
  BY <1>2
<1> HIDE DEF r
<1>7. tick \in Seq(TickRecords) /\ Len(tick) \in Nat
  BY DEF TickInv, TickTypes
<1>8. /\ tick' \in Seq(TickRecords) /\ Len(tick') = Len(tick) + 1 /\ Len(tick') <= NTicks
      /\ DOMAIN tick' = DOMAIN tick \cup {Len(tick) + 1} /\ tick'[Len(tick) + 1] = r
      /\ \A i \in DOMAIN tick : tick'[i] = tick[i]
  BY <1>1, <1>4, <1>7, TickBounds
<1>9. TickTypes'
  BY <1>1, <1>3, <1>8 DEF TickInv, TickTypes
<1>10. WarmUp'
  BY <1>1, <1>3, <1>5, <1>8 DEF TickInv, WarmUp
<1>11. SentOnce'
  BY <1>1, <1>8 DEF TickInv, SentOnce
<1>12. DueTooLate'
  BY <1>1, <1>6, <1>8 DEF TickInv, DueTooLate
<1>13. ReadOnce'
  BY <1>1 DEF TickInv, ReadOnce
<1> QED
  BY <1>9, <1>10, <1>11, <1>12, <1>13 DEF TickInv

\* A tick that goes on, outside the producer's buffer and the topic, and the row it may get.
LEMMA TickGoesOn ==
  ASSUME TickInv, part = "tick", part' = part,
         NEW i \in DOMAIN tick, NEW s \in TickStages, Tick!At(i, s), tick[i].at \notin {"queued", "delivered", "failed"},
         UNCHANGED <<gap, fresh, queue, topic, pos, committed, hand, seen, signalled, retries, failed, now>>,
         row' \in {row, Tick!PutOutbox(i)}
  PROVE  TickInv'
<1> USE DEF TickInv
<1>1. tick \in Seq(TickRecords) /\ now \in Nat /\ Len(tick) \in Nat /\ Len(tick) <= NTicks
      /\ i \in Tick!Ticks /\ tick[i].born \in Nat /\ tick[i].born <= now
  <2>1. tick \in Seq(TickRecords) /\ now \in Nat /\ Len(tick) \in Nat /\ Len(tick) <= NTicks
    BY DEF TickTypes
  <2>2. tick[i] \in TickRecords
    BY <2>1
  <2> QED
    BY <2>1, <2>2, TickBounds DEF DueTooLate, Tick!Ticks, TickRecords
<1>2. /\ tick' \in Seq(TickRecords) /\ DOMAIN tick' = DOMAIN tick /\ Len(tick') = Len(tick)
      /\ \A j \in DOMAIN tick \ {i} : tick'[j].at = tick[j].at
      /\ \A j \in DOMAIN tick : /\ tick'[j].gap = tick[j].gap /\ tick'[j].early = tick[j].early
                                /\ tick'[j].born = tick[j].born
  BY <1>1, AtSets
<1>3. /\ row' \in [Tick!Ticks -> [is : {"none", "shell", "event"}, due : Nat]]
      /\ \A j \in Tick!Ticks : row'[j] = row[j] \/ (j = i /\ row'[j].due = now + ReplayAfter)
  <2>1. CASE row' = row
    BY <2>1 DEF TickTypes
  <2>2. CASE row' = [row EXCEPT ![i] = [is |-> "event", due |-> now + ReplayAfter]]
    <3>1. now + ReplayAfter \in Nat
      BY <1>1, TickBounds
    <3> QED
      BY <1>1, <2>2, <3>1 DEF TickTypes
  <2> QED
    BY <2>1, <2>2 DEF Tick!PutOutbox
<1>4. TickTypes'
  BY <1>1, <1>2, <1>3 DEF TickTypes
<1>5. WarmUp'
  BY <1>2 DEF WarmUp
<1>6. SentOnce'
  BY <1>2 DEF SentOnce
<1>7. DueTooLate'
  <2>1. \A j \in DOMAIN tick : tick'[j].born <= now
    BY <1>2 DEF DueTooLate
  <2>2. now + ReplayAfter >= tick[i].born + ReplayAfter
    BY <1>1, TickBounds
  <2>3. ASSUME NEW j \in Tick!Ticks, row'[j].is = "event"
        PROVE  j \in DOMAIN tick /\ row'[j].due >= tick'[j].born + ReplayAfter
    <3>1. CASE row'[j] = row[j]
      BY <1>2, <2>3, <3>1 DEF DueTooLate
    <3>2. CASE j = i /\ row'[j].due = now + ReplayAfter
      BY <1>2, <2>2, <3>2
    <3> QED
      BY <1>3, <3>1, <3>2
  <2> QED
    BY <1>2, <2>1, <2>3 DEF DueTooLate
<1>8. ReadOnce'
  BY DEF ReadOnce
<1> QED
  BY <1>4, <1>5, <1>6, <1>7, <1>8

\* Appending to a sequence.
LEMMA Appends ==
  ASSUME NEW q \in Seq(Nat), NEW i \in Nat
  PROVE  /\ Append(q, i) \in Seq(Nat) /\ DOMAIN Append(q, i) = DOMAIN q \cup {Len(q) + 1}
         /\ Append(q, i)[Len(q) + 1] = i /\ Len(q) + 1 \notin DOMAIN q /\ Len(Append(q, i)) = Len(q) + 1
         /\ \A k \in DOMAIN q : Append(q, i)[k] = q[k]
OBVIOUS

\* TickProcessor: validation and the S3 buffer.
LEMMA ProcessStep ==
  ASSUME TickInv, part = "tick", part' = part, NEW i \in Tick!Ticks, Tick!Process(i) \/ Tick!Flushed(i)
  PROVE  TickInv'
<1>1. UNCHANGED <<gap, fresh, row, queue, topic, pos, committed, hand, seen, signalled, retries, failed, now>>
  BY DEF Tick!Process, Tick!Flushed, Tick!connector, Tick!publisher, Tick!engine
<1>2. i \in DOMAIN tick /\ tick[i].at \in {"new", "flushing"}
  BY DEF Tick!Process, Tick!Flushed
<1>3. \E s \in TickStages : Tick!At(i, s)
  BY DEF Tick!Process, Tick!Flushed, Tick!Store, TickStages
<1> QED
  BY <1>1, <1>2, <1>3, TickGoesOn

\* publish: the tick is queued, lost, or failed before it was sent.
LEMMA PublishStep ==
  ASSUME TickInv, part = "tick", part' = part, NEW i \in Tick!Ticks, Tick!Publish(i)
  PROVE  TickInv'
<1>1. UNCHANGED <<gap, fresh, topic, pos, committed, hand, seen, signalled, retries, failed, now>>
  BY DEF Tick!Publish, Tick!connector, Tick!engine
<1>2. i \in DOMAIN tick /\ tick[i].at = "stored"
  BY DEF Tick!Publish
<1>3. CASE queue' = queue
  <2>1. (\E s \in TickStages : Tick!At(i, s)) /\ row' \in {row, Tick!PutOutbox(i)}
    BY DEF Tick!Publish, TickStages
  <2> QED
    BY <1>1, <1>2, <1>3, <2>1, TickGoesOn
<1>4. CASE Tick!At(i, "queued") /\ queue' = Append(queue, i) /\ row' = Tick!PutOutbox(i)
  <2> USE DEF TickInv
  <2>1. tick \in Seq(TickRecords) /\ now \in Nat /\ Len(tick) \in Nat /\ Len(tick) <= NTicks /\ queue \in Seq(Nat)
        /\ i \in Nat
    BY DEF TickTypes, Tick!Ticks
  <2>2. tick[i] \in TickRecords
    BY <1>2, <2>1
  <2>3. tick[i].born \in Nat /\ tick[i].born <= now
    BY <1>2, <2>2 DEF DueTooLate, TickRecords
  <2>4. /\ tick' \in Seq(TickRecords) /\ DOMAIN tick' = DOMAIN tick /\ Len(tick') = Len(tick)
        /\ tick'[i].at = "queued" /\ \A j \in DOMAIN tick \ {i} : tick'[j].at = tick[j].at
        /\ \A j \in DOMAIN tick : /\ tick'[j].gap = tick[j].gap /\ tick'[j].early = tick[j].early
                                  /\ tick'[j].born = tick[j].born
    BY <1>2, <1>4, <2>1, AtSets DEF TickStages
  <2>5. /\ row' \in [Tick!Ticks -> [is : {"none", "shell", "event"}, due : Nat]]
        /\ \A j \in Tick!Ticks : row'[j] = row[j] \/ (j = i /\ row'[j].due = now + ReplayAfter)
    <3>1. CASE row' = row
      BY <3>1 DEF TickTypes
    <3>2. CASE row' = [row EXCEPT ![i] = [is |-> "event", due |-> now + ReplayAfter]]
      <4>1. now + ReplayAfter \in Nat
        BY <2>1, TickBounds
      <4> QED
        BY <3>2, <4>1 DEF TickTypes
    <3> QED
      BY <1>4, <3>1, <3>2 DEF Tick!PutOutbox
  <2>6. /\ queue' \in Seq(Nat) /\ DOMAIN queue' = DOMAIN queue \cup {Len(queue) + 1}
        /\ queue'[Len(queue) + 1] = i /\ Len(queue) + 1 \notin DOMAIN queue
        /\ \A k \in DOMAIN queue : queue'[k] = queue[k] /\ queue[k] # i
    <3>1. \A k \in DOMAIN queue : queue[k] # i
      BY <1>2 DEF SentOnce
    <3> QED
      BY <1>4, <2>1, <3>1, Appends
  <2>7. TickTypes'
    BY <1>1, <2>1, <2>4, <2>5, <2>6 DEF TickTypes
  <2>8. WarmUp'
    BY <1>1, <2>4 DEF WarmUp
  <2>9. SentOnce'
    <3>1. \A k \in DOMAIN queue' : queue'[k] \in DOMAIN tick /\ tick'[queue'[k]].at = "queued"
      BY <1>2, <2>4, <2>6 DEF SentOnce
    <3>2. \A j \in DOMAIN queue' : \A k \in DOMAIN queue' : queue'[j] = queue'[k] => j = k
      BY <2>6 DEF SentOnce
    <3>3. \A k \in DOMAIN topic : topic[k] \in DOMAIN tick /\ tick'[topic[k]].at \in {"delivered", "failed"}
      BY <1>2, <2>4 DEF SentOnce
    <3>4. \A j \in failed : j \in DOMAIN tick /\ tick'[j].at \in {"delivered", "failed"}
      BY <1>2, <2>4 DEF SentOnce
    <3> QED
      BY <1>1, <2>4, <3>1, <3>2, <3>3, <3>4 DEF SentOnce
  <2>10. DueTooLate'
    <3>1. \A j \in DOMAIN tick : tick'[j].born <= now
      BY <2>4 DEF DueTooLate
    <3>2. now + ReplayAfter >= tick[i].born + ReplayAfter
      BY <2>1, <2>3, TickBounds
    <3>3. ASSUME NEW j \in Tick!Ticks, row'[j].is = "event"
          PROVE  j \in DOMAIN tick /\ row'[j].due >= tick'[j].born + ReplayAfter
      <4>1. CASE row'[j] = row[j]
        BY <2>4, <3>3, <4>1 DEF DueTooLate
      <4>2. CASE j = i /\ row'[j].due = now + ReplayAfter
        BY <1>2, <2>4, <3>2, <4>2
      <4> QED
        BY <2>5, <4>1, <4>2
    <3> QED
      BY <1>1, <2>4, <3>1, <3>3 DEF DueTooLate
  <2>11. ReadOnce'
    BY <1>1 DEF ReadOnce
  <2> QED
    BY <2>7, <2>8, <2>9, <2>10, <2>11
<1> QED
  BY <1>3, <1>4 DEF Tick!Publish

\* _delivery_callback: the first of the buffer leaves it, and may be in the topic whatever is said of it.
LEMMA DeliveryStep ==
  ASSUME TickInv, part = "tick", part' = part, Tick!Delivery
  PROVE  TickInv'
<1> DEFINE i == Head(queue)
<1> USE DEF TickInv
<1>1. UNCHANGED <<gap, fresh, pos, committed, hand, seen, signalled, retries, failed, now>>
  BY DEF Tick!Delivery, Tick!connector, Tick!engine
<1>2. queue # <<>> /\ queue' = Tail(queue) /\ queue \in Seq(Nat) /\ topic \in Seq(Nat)
  BY DEF Tick!Delivery, TickTypes
<1>3. /\ queue' \in Seq(Nat) /\ i = queue[1] /\ 1 \in DOMAIN queue
      /\ \A k \in DOMAIN queue' : k + 1 \in DOMAIN queue /\ k + 1 # 1 /\ queue'[k] = queue[k + 1]
      /\ \A j \in DOMAIN queue' : \A k \in DOMAIN queue' : j + 1 = k + 1 => j = k
  BY <1>2
<1>4. i \in DOMAIN tick /\ tick[i].at = "queued" /\ \A k \in DOMAIN queue' : queue'[k] # i
  BY <1>3 DEF SentOnce
<1>5. tick \in Seq(TickRecords) /\ now \in Nat /\ Len(tick) \in Nat /\ Len(tick) <= NTicks
  BY DEF TickTypes
<1>6. PICK s \in {"delivered", "failed"} : Tick!At(i, s)
  BY DEF Tick!Delivery
<1>7. topic' = topic \/ topic' = Append(topic, i)
  BY DEF Tick!Delivery
<1>8. row' = row \/ row' = Tick!DeleteOutbox(i) \/ row' = Tick!Retryable(i)
  BY DEF Tick!Delivery
<1> HIDE DEF i
<1>9. tick[i] \in TickRecords /\ i \in Nat /\ i \in Tick!Ticks
  BY <1>4, <1>5, TickBounds DEF Tick!Ticks
<1>10. tick[i].born \in Nat /\ tick[i].born <= now
  BY <1>4, <1>9 DEF DueTooLate, TickRecords
<1>11. /\ tick' \in Seq(TickRecords) /\ DOMAIN tick' = DOMAIN tick /\ Len(tick') = Len(tick)
       /\ tick'[i].at = s /\ \A j \in DOMAIN tick \ {i} : tick'[j].at = tick[j].at
       /\ \A j \in DOMAIN tick : /\ tick'[j].gap = tick[j].gap /\ tick'[j].early = tick[j].early
                                 /\ tick'[j].born = tick[j].born
  BY <1>4, <1>5, <1>6, AtSets DEF TickStages
<1>12. /\ row' \in [Tick!Ticks -> [is : {"none", "shell", "event"}, due : Nat]]
       /\ \A j \in Tick!Ticks : \/ row'[j] = row[j]
                                \/ j = i /\ (row'[j].is = "none" \/ row'[j].due = now + ReplayAfter)
  <2>1. CASE row' = row
    BY <2>1 DEF TickTypes
  <2>2. CASE row' = [row EXCEPT ![i] = Tick!NoRow]
    BY <1>9, <2>2 DEF TickTypes, Tick!NoRow
  <2>3. CASE row' = [row EXCEPT ![i] = [is |-> IF @.is = "none" THEN "shell" ELSE @.is, due |-> now + ReplayAfter]]
    <3>1. now + ReplayAfter \in Nat
      BY <1>5, TickBounds
    <3>2. row[i].is \in {"none", "shell", "event"}
      BY <1>9 DEF TickTypes
    <3> DEFINE r == [is |-> IF row[i].is = "none" THEN "shell" ELSE row[i].is, due |-> now + ReplayAfter]
    <3>3. r \in [is : {"none", "shell", "event"}, due : Nat] /\ r.due = now + ReplayAfter
      BY <3>1, <3>2
    <3>4. row' = [row EXCEPT ![i] = r]
      BY <2>3
    <3> HIDE DEF r
    <3> QED
      BY <1>9, <3>3, <3>4 DEF TickTypes
  <2> QED
    BY <1>8, <2>1, <2>2, <2>3 DEF Tick!DeleteOutbox, Tick!Retryable
<1>13. /\ topic' \in Seq(Nat) /\ Len(topic') >= Len(topic)
       /\ \A k \in DOMAIN topic : k \in DOMAIN topic' /\ topic'[k] = topic[k] /\ topic[k] # i
       /\ \A k \in DOMAIN topic' \ DOMAIN topic : topic'[k] = i /\ k = Len(topic) + 1
  <2>1. \A k \in DOMAIN topic : topic[k] # i
    BY <1>4 DEF SentOnce
  <2>2. CASE topic' = topic
    BY <1>2, <2>1, <2>2
  <2>3. CASE topic' = Append(topic, i)
    BY <1>2, <1>9, <2>1, <2>3, Appends
  <2> QED
    BY <1>7, <2>2, <2>3
<1>14. TickTypes'
  BY <1>1, <1>3, <1>5, <1>11, <1>12, <1>13 DEF TickTypes
<1>15. WarmUp'
  BY <1>1, <1>11 DEF WarmUp
<1>16. SentOnce'
  <2>1. \A k \in DOMAIN queue' : queue'[k] \in DOMAIN tick /\ tick'[queue'[k]].at = "queued"
    BY <1>3, <1>4, <1>11 DEF SentOnce
  <2>2. \A j \in DOMAIN queue' : \A k \in DOMAIN queue' : queue'[j] = queue'[k] => j = k
    BY <1>3 DEF SentOnce
  <2>3. \A k \in DOMAIN topic' : topic'[k] \in DOMAIN tick /\ tick'[topic'[k]].at \in {"delivered", "failed"}
    <3> TAKE k \in DOMAIN topic'
    <3>1. CASE k \in DOMAIN topic
      <4>1. topic'[k] = topic[k] /\ topic[k] \in DOMAIN tick \ {i} /\ tick[topic[k]].at \in {"delivered", "failed"}
        BY <1>13, <3>1 DEF SentOnce
      <4> QED
        BY <1>11, <4>1
    <3>2. CASE k \notin DOMAIN topic
      BY <1>4, <1>11, <1>13, <3>2
    <3> QED
      BY <3>1, <3>2
  <2>4. \A j \in DOMAIN topic' : \A k \in DOMAIN topic' :
          topic'[j] = topic'[k] /\ topic'[j] \notin failed => j = k
    BY <1>13 DEF SentOnce
  <2>5. \A j \in failed : j \in DOMAIN tick /\ tick'[j].at \in {"delivered", "failed"}
    BY <1>4, <1>11 DEF SentOnce
  <2> QED
    BY <1>1, <1>11, <2>1, <2>2, <2>3, <2>4, <2>5 DEF SentOnce
<1>17. DueTooLate'
  <2>1. \A j \in DOMAIN tick : tick'[j].born <= now
    BY <1>11 DEF DueTooLate
  <2>2. now + ReplayAfter >= tick[i].born + ReplayAfter
    BY <1>5, <1>10, TickBounds
  <2>3. ASSUME NEW j \in Tick!Ticks, row'[j].is = "event"
        PROVE  j \in DOMAIN tick /\ row'[j].due >= tick'[j].born + ReplayAfter
    <3>1. CASE row'[j] = row[j]
      BY <1>11, <2>3, <3>1 DEF DueTooLate
    <3>2. CASE j = i /\ row'[j].due = now + ReplayAfter
      BY <1>4, <1>11, <2>2, <3>2
    <3> QED
      BY <1>12, <2>3, <3>1, <3>2
  <2> QED
    BY <1>1, <1>11, <2>1, <2>3 DEF DueTooLate
<1>18. ReadOnce'
  <2>1. pos \in Nat /\ pos <= Len(topic) /\ \A k \in 1 .. pos : k \in DOMAIN topic
    BY <1>2 DEF ReadOnce, TickTypes
  <2>2. pos <= Len(topic')
    BY <1>2, <1>13, <2>1
  <2> QED
    BY <1>1, <1>13, <2>1, <2>2 DEF ReadOnce, TickTypes
<1> QED
  BY <1>14, <1>15, <1>16, <1>17, <1>18

\* replay_pending_outbox: by the time a row is due its tick is too old to be sent again.
LEMMA ReplayStep ==
  ASSUME TickInv, part = "tick", part' = part, NEW i \in Tick!Ticks, Tick!Replay(i)
  PROVE  TickInv'
<1> USE DEF TickInv
<1>1. UNCHANGED <<gap, fresh, topic, pos, committed, hand, seen, signalled, retries, failed, now>>
  BY DEF Tick!Replay, Tick!connector, Tick!engine
<1>2. i \in DOMAIN tick /\ row[i].due >= tick[i].born + ReplayAfter /\ row[i].due <= now
  BY DEF Tick!Replay, DueTooLate
<1>3. now \in Nat /\ tick[i] \in TickRecords /\ row[i].due \in Nat
  BY <1>2 DEF TickTypes
<1>4. tick[i].born \in Nat
  BY <1>3 DEF TickRecords
<1>5. now - tick[i].born > MaxAge
  BY <1>2, <1>3, <1>4, TickBounds
<1>6. row' = [row EXCEPT ![i] = Tick!NoRow] /\ UNCHANGED <<queue, tick>>
  BY <1>5 DEF Tick!Replay, Tick!DeleteOutbox
<1>7. TickTypes'
  BY <1>1, <1>6 DEF TickTypes, Tick!NoRow
<1>8. DueTooLate'
  BY <1>1, <1>6 DEF DueTooLate, Tick!NoRow, TickTypes
<1> QED
  BY <1>1, <1>6, <1>7, <1>8 DEF WarmUp, SentOnce, ReadOnce

\* The end of the ingestion service: what was under way is lost, what is in the topic remains.
LEMMA RestartStep ==
  ASSUME TickInv, part = "tick", part' = part, Tick!RestartIngestion
  PROVE  TickInv'
<1> USE DEF TickInv
<1>1. /\ UNCHANGED <<row, topic, pos, committed, hand, seen, signalled, retries, failed, now>>
      /\ gap' = 0 /\ fresh' = GapTicks /\ queue' = <<>>
      /\ tick' = [i \in DOMAIN tick |->
                    IF tick[i].at \in {"delivered", "failed", "invalid"} THEN tick[i]
                    ELSE [tick[i] EXCEPT !.at = "lost"]]
  BY DEF Tick!RestartIngestion, Tick!engine
<1>2. tick \in Seq(TickRecords) /\ DOMAIN tick = 1 .. Len(tick) /\ Len(tick) \in Nat
  BY DEF TickTypes
<1>3. /\ DOMAIN tick' = DOMAIN tick
      /\ \A i \in DOMAIN tick : /\ tick'[i] \in TickRecords
                                /\ tick'[i].gap = tick[i].gap /\ tick'[i].early = tick[i].early
                                /\ tick'[i].born = tick[i].born
                                /\ tick[i].at \in {"delivered", "failed"} => tick'[i].at = tick[i].at
  <2>1. DOMAIN tick' = DOMAIN tick
    BY <1>1
  <2>2. ASSUME NEW i \in DOMAIN tick
        PROVE  /\ tick'[i] \in TickRecords
               /\ tick'[i].gap = tick[i].gap /\ tick'[i].early = tick[i].early
               /\ tick'[i].born = tick[i].born
               /\ tick[i].at \in {"delivered", "failed"} => tick'[i].at = tick[i].at
    <3>1. tick[i] \in TickRecords
      BY <1>2
    <3>2. CASE tick'[i] = tick[i] /\ tick[i].at \in {"delivered", "failed", "invalid"}
      BY <3>1, <3>2
    <3>3. CASE tick'[i] = [tick[i] EXCEPT !.at = "lost"] /\ tick[i].at \notin {"delivered", "failed", "invalid"}
      BY <3>1, <3>3 DEF TickRecords, TickStages
    <3> QED
      BY <1>1, <3>2, <3>3
  <2> QED
    BY <2>1, <2>2
<1>4. tick' \in Seq(TickRecords) /\ Len(tick') = Len(tick)
  <2>1. tick' \in [1 .. Len(tick) -> TickRecords]
    BY <1>1, <1>2, <1>3
  <2> QED
    BY <1>2, <2>1
<1>5. TickTypes'
  BY <1>1, <1>4, TickBounds DEF TickTypes
<1>6. WarmUp'
  BY <1>1, <1>3, TickBounds DEF WarmUp
<1>7. SentOnce'
  BY <1>1, <1>3 DEF SentOnce
<1>8. DueTooLate' /\ ReadOnce'
  BY <1>1, <1>3 DEF DueTooLate, ReadOnce
<1> QED
  BY <1>5, <1>6, <1>7, <1>8

\* The kill switch and the clock.
LEMMA SwitchOrClockStep ==
  ASSUME TickInv, part = "tick", part' = part, Tick!KillSwitch \/ Tick!Clock
  PROVE  TickInv'
<1> USE DEF TickInv
<1>1. UNCHANGED <<tick, gap, fresh, row, queue, topic, pos, committed, hand, seen, signalled, retries, failed>>
  BY DEF Tick!KillSwitch, Tick!Clock, Tick!connector, Tick!publisher, Tick!engine
<1>2. now \in Nat /\ (now' = now \/ now' = now + 1)
  BY DEF Tick!KillSwitch, Tick!Clock, TickTypes
<1>3. now' \in Nat /\ now' >= now
  BY <1>2
<1>4. \A i \in DOMAIN tick : tick[i].born \in Nat
  <2>1. \A i \in DOMAIN tick : tick[i] \in TickRecords
    BY DEF TickTypes
  <2> QED
    BY <2>1 DEF TickRecords
<1>5. TickTypes'
  BY <1>1, <1>3 DEF TickTypes
<1>6. DueTooLate'
  BY <1>1, <1>2, <1>3, <1>4 DEF DueTooLate
<1> QED
  BY <1>1, <1>5, <1>6 DEF WarmUp, SentOnce, ReadOnce

\* The consumer takes the next tick of the topic, which this process has not seen unless the
\* tick loop failed on it.
LEMMA PollTickStep ==
  ASSUME TickInv, part = "tick", part' = part, Tick!PollTick
  PROVE  TickInv'
<1> USE DEF TickInv
<1>1. /\ UNCHANGED <<tick, gap, fresh, row, queue, topic, committed, seen, signalled, retries, failed, now>>
      /\ pos < Len(topic) /\ hand' = [tick |-> topic[pos + 1], at |-> "polled"] /\ pos' = pos + 1
  BY DEF Tick!PollTick, Tick!connector, Tick!publisher
<1>2. pos \in Nat /\ committed \in Nat /\ topic \in Seq(Nat) /\ seen \in [Tick!Ticks -> Nat]
      /\ DOMAIN tick = 1 .. Len(tick) /\ Len(tick) \in Nat /\ Len(tick) <= NTicks
  BY DEF TickTypes
<1>3. pos + 1 \in DOMAIN topic /\ (\A k \in 1 .. pos : k \in DOMAIN topic /\ k # pos + 1)
      /\ pos' \in Nat /\ pos' <= Len(topic) /\ committed <= pos'
  BY <1>1, <1>2 DEF ReadOnce
<1>4. /\ topic[pos + 1] \in Tick!Ticks
      /\ topic[pos + 1] \in failed \/ \A k \in 1 .. pos : topic[k] # topic[pos + 1]
  <2>1. topic[pos + 1] \in 1 .. Len(tick)
    BY <1>2, <1>3 DEF SentOnce
  <2> QED
    BY <1>2, <1>3, <2>1, TickBounds DEF SentOnce, Tick!Ticks
<1>5. topic[pos + 1] \in failed \/ seen[topic[pos + 1]] = 0
  <2>1. seen[topic[pos + 1]] \in Nat
    BY <1>2, <1>4
  <2> QED
    BY <1>4, <2>1 DEF ReadOnce
<1>6. TickTypes'
  BY <1>1, <1>2, <1>3 DEF TickTypes, Hands
<1>7. \A i \in Tick!Ticks \ failed : seen[i] > 0 => \E k \in 1 .. pos' : topic[k] = i
  BY <1>1, <1>2 DEF ReadOnce
<1>8. ReadOnce'
  BY <1>1, <1>3, <1>5, <1>7 DEF ReadOnce
<1> QED
  BY <1>1, <1>6, <1>8 DEF WarmUp, SentOnce, DueTooLate

\* What the tick loop holds is in the topic.
LEMMA HeldIsSent ==
  ASSUME TickTypes, SentOnce, ReadOnce, hand.at # "idle"
  PROVE  /\ pos \in DOMAIN topic /\ hand.tick = topic[pos]
         /\ hand.tick \in DOMAIN tick /\ hand.tick \in Tick!Ticks
         /\ tick[hand.tick].at \in {"delivered", "failed"}
<1>1. pos \in Nat /\ topic \in Seq(Nat) /\ DOMAIN tick = 1 .. Len(tick) /\ Len(tick) \in Nat /\ Len(tick) <= NTicks
  BY DEF TickTypes
<1>2. pos \in DOMAIN topic /\ hand.tick = topic[pos]
  BY <1>1 DEF ReadOnce
<1> QED
  BY <1>1, <1>2, TickBounds DEF SentOnce, Tick!Ticks

\* The strategies see the tick once, unless the loop fails on it; a marked one gives no signal.
LEMMA HandleStep ==
  ASSUME TickInv, part = "tick", part' = part, Tick!Handle
  PROVE  TickInv'
<1> USE DEF TickInv
<1> DEFINE i == hand.tick
<1>1. /\ UNCHANGED <<tick, gap, fresh, row, queue, topic, pos, committed, now>>
      /\ hand.at = "polled"
      /\ hand' = Tick!Idle \/ \E s \in {"handled", "routed"} : hand' = [hand EXCEPT !.at = s]
      /\ seen' \in {seen, [seen EXCEPT ![i] = @ + 1]}
      /\ signalled' \in {signalled, IF tick[i].gap THEN signalled ELSE signalled \cup {i}}
      /\ failed' \in {failed, failed \cup {i}}
      /\ retries' \in {retries, retries \cup {i}} /\ (failed' = failed /\ i \notin failed => retries' = retries)
  BY DEF Tick!Handle, Tick!Route, Tick!connector, Tick!publisher, Tick!Signals
<1>2. /\ pos \in DOMAIN topic /\ i = topic[pos] /\ i \in DOMAIN tick /\ i \in Tick!Ticks
      /\ tick[i].at \in {"delivered", "failed"} /\ (i \in failed \/ seen[i] = 0)
  BY <1>1, HeldIsSent DEF ReadOnce
<1>3. hand' \in Hands /\ hand'.at # "polled" /\ (hand'.at # "idle" => hand'.tick = i)
  <2>1. hand \in Hands
    BY DEF TickTypes
  <2> QED
    BY <1>1, <2>1 DEF Hands, Tick!Idle
<1> HIDE DEF i
<1>4. /\ seen' \in [Tick!Ticks -> Nat]
      /\ \A j \in Tick!Ticks : seen'[j] = seen[j] \/ (j = i /\ seen'[j] = seen[j] + 1)
  <2>1. seen \in [Tick!Ticks -> Nat]
    BY DEF TickTypes
  <2>2. CASE seen' = seen
    BY <2>1, <2>2
  <2>3. CASE seen' = [seen EXCEPT ![i] = @ + 1]
    BY <1>2, <2>1, <2>3
  <2> QED
    BY <1>1, <2>2, <2>3
<1>5. TickTypes'
  BY <1>1, <1>3, <1>4 DEF TickTypes
<1>6. WarmUp'
  BY <1>1, <1>2 DEF WarmUp
<1>7. SentOnce'
  <2>1. retries' \subseteq failed'
    BY <1>1 DEF SentOnce
  <2> QED
    BY <1>1, <1>2, <2>1 DEF SentOnce
<1>8. ReadOnce'
  <2>1. pos \in Nat /\ pos > 0
    BY <1>1 DEF ReadOnce, TickTypes
  <2>2. ASSUME NEW j \in Tick!Ticks \ failed'
        PROVE  seen'[j] <= 1 /\ (seen'[j] > 0 => \E k \in 1 .. pos : topic[k] = j)
    <3>1. j \notin failed
      BY <1>1, <2>2
    <3>2. CASE seen'[j] = seen[j]
      BY <2>2, <3>1, <3>2 DEF ReadOnce
    <3>3. CASE j = i /\ seen'[j] = seen[j] + 1
      BY <1>2, <2>1, <3>1, <3>3
    <3> QED
      BY <1>4, <2>2, <3>2, <3>3
  <2> QED
    BY <1>1, <1>2, <1>3, <2>1, <2>2 DEF ReadOnce
<1> QED
  BY <1>1, <1>5, <1>6, <1>7, <1>8 DEF DueTooLate

\* The offset is committed, or the tick that it could not be committed for is retried.
LEMMA CommitStep ==
  ASSUME TickInv, part = "tick", part' = part, Tick!Commit
  PROVE  TickInv'
<1> USE DEF TickInv
<1> DEFINE i == hand.tick
<1>1. /\ UNCHANGED <<tick, gap, fresh, row, queue, topic, pos, seen, signalled, now>>
      /\ hand.at \in {"handled", "routed"}
      /\ hand' = Tick!Idle \/ hand' = [hand EXCEPT !.at = "routed"]
      /\ committed' \in {committed, pos}
      /\ failed' \in {failed, failed \cup {i}}
      /\ retries' \in {retries, retries \cup {i}} /\ (failed' = failed /\ i \notin failed => retries' = retries)
  BY DEF Tick!Commit, Tick!Route, Tick!connector, Tick!publisher
<1>2. /\ pos \in DOMAIN topic /\ i = topic[pos] /\ i \in DOMAIN tick
      /\ tick[i].at \in {"delivered", "failed"}
  BY <1>1, HeldIsSent
<1>3. hand' \in Hands /\ hand'.at # "polled" /\ (hand'.at # "idle" => hand'.tick = i)
  <2>1. hand \in Hands
    BY DEF TickTypes
  <2> QED
    BY <1>1, <2>1 DEF Hands, Tick!Idle
<1> HIDE DEF i
<1>4. pos \in Nat /\ pos > 0 /\ committed' \in Nat /\ committed' <= pos
  BY <1>1 DEF ReadOnce, TickTypes
<1>5. TickTypes'
  BY <1>1, <1>3, <1>4 DEF TickTypes
<1>6. SentOnce'
  <2>1. retries' \subseteq failed'
    BY <1>1 DEF SentOnce
  <2> QED
    BY <1>1, <1>2, <2>1 DEF SentOnce
<1>7. ReadOnce'
  BY <1>1, <1>2, <1>3, <1>4 DEF ReadOnce
<1> QED
  BY <1>1, <1>5, <1>6, <1>7 DEF WarmUp, DueTooLate

\* A tick of the retry topic goes back into the topic, or to the dead letters.
LEMMA ReplayRetryStep ==
  ASSUME TickInv, part = "tick", part' = part, NEW i \in Tick!Ticks, Tick!ReplayRetry(i)
  PROVE  TickInv'
<1> USE DEF TickInv
<1>1. /\ UNCHANGED <<tick, gap, fresh, row, queue, pos, committed, hand, seen, signalled, failed, now>>
      /\ i \in retries /\ retries' \in {retries, retries \ {i}} /\ topic' \in {topic, Append(topic, i)}
  BY DEF Tick!ReplayRetry, Tick!connector, Tick!publisher
<1>2. topic \in Seq(Nat) /\ i \in Nat /\ pos \in Nat /\ pos <= Len(topic)
  BY DEF TickTypes, ReadOnce, Tick!Ticks
<1>3. i \in failed /\ i \in DOMAIN tick /\ tick[i].at \in {"delivered", "failed"}
  BY <1>1 DEF SentOnce
<1>4. /\ topic' \in Seq(Nat) /\ Len(topic') >= Len(topic)
      /\ \A k \in DOMAIN topic : k \in DOMAIN topic' /\ topic'[k] = topic[k]
      /\ \A k \in DOMAIN topic' \ DOMAIN topic : topic'[k] = i
  <2>1. CASE topic' = topic
    BY <1>2, <2>1
  <2>2. CASE topic' = Append(topic, i)
    BY <1>2, <2>2, Appends
  <2> QED
    BY <1>1, <2>1, <2>2
<1>5. TickTypes'
  BY <1>1, <1>4 DEF TickTypes
<1>6. SentOnce'
  <2>1. \A k \in DOMAIN topic' : topic'[k] \in DOMAIN tick /\ tick[topic'[k]].at \in {"delivered", "failed"}
    BY <1>3, <1>4 DEF SentOnce
  <2>2. \A j \in DOMAIN topic' : \A k \in DOMAIN topic' :
          topic'[j] = topic'[k] /\ topic'[j] \notin failed => j = k
    BY <1>3, <1>4 DEF SentOnce
  <2> QED
    BY <1>1, <2>1, <2>2 DEF SentOnce
<1>7. ReadOnce'
  <2>1. pos <= Len(topic') /\ \A k \in 1 .. pos : k \in DOMAIN topic
    BY <1>2, <1>4
  <2>2. pos > 0 => topic'[pos] = topic[pos]
    BY <1>2, <1>4, <2>1
  <2> QED
    BY <1>1, <1>4, <2>1, <2>2 DEF ReadOnce
<1> QED
  BY <1>1, <1>5, <1>6, <1>7 DEF WarmUp, DueTooLate

\* A new process starts at the committed offset, or at the end of the topic.
LEMMA RestartEngineStep ==
  ASSUME TickInv, part = "tick", part' = part, Tick!RestartEngine
  PROVE  TickInv'
<1> USE DEF TickInv
<1>1. /\ UNCHANGED <<tick, gap, fresh, row, queue, topic, signalled, committed, retries, failed, now>>
      /\ hand' = Tick!Idle /\ seen' = [i \in Tick!Ticks |-> 0]
      /\ pos' = IF committed = 0 THEN Len(topic) ELSE committed
  BY DEF Tick!RestartEngine, Tick!connector, Tick!publisher
<1>2. pos \in Nat /\ committed \in Nat /\ topic \in Seq(Nat) /\ committed <= pos /\ pos <= Len(topic)
  BY DEF TickTypes, ReadOnce
<1>3. pos' \in Nat /\ committed <= pos' /\ pos' <= Len(topic)
  BY <1>1, <1>2
<1>4. hand' \in Hands /\ hand'.at = "idle" /\ seen' \in [Tick!Ticks -> Nat] /\ \A i \in Tick!Ticks : seen'[i] = 0
  BY <1>1 DEF Hands, Tick!Idle
<1>5. TickTypes'
  BY <1>1, <1>3, <1>4 DEF TickTypes
<1>6. ReadOnce'
  BY <1>1, <1>3, <1>4 DEF ReadOnce
<1> QED
  BY <1>1, <1>5, <1>6 DEF WarmUp, SentOnce, DueTooLate

\* Every step of the ticks' machine keeps the invariant.
LEMMA TickStep == TickInv /\ [Next]_vars => TickInv'
<1> SUFFICES ASSUME TickInv, [Next]_vars, part' = "tick" PROVE TickInv'
  BY DEF TickInv
<1>1. CASE UNCHANGED vars
  BY <1>1 DEF vars, tickVars, clockVars, TickInv, TickTypes, WarmUp, SentOnce,
     DueTooLate, ReadOnce
<1>2. CASE Next
  <2>1. part = "tick" /\ part' = part /\ Tick!Next
    BY <1>2 DEF Next
  <2> QED
    BY <2>1, ConnectorStep, TickArrives, ProcessStep, PublishStep, DeliveryStep,
       ReplayStep, RestartStep,
       SwitchOrClockStep, PollTickStep, HandleStep, CommitStep, ReplayRetryStep,
       RestartEngineStep DEF Tick!Next
<1> QED
  BY <1>1, <1>2

\* No candle reaches the strategies of a process twice, and of the ticks only those that the tick
\* loop failed on, which come back through the retry topic - a delivery that is reported as failed
\* is never repeated, since its row is too old when it is due - and the first ticks after a
\* reconnection give no signal (poll_new_candles, replay_pending_outbox, _handle_kafka_tick,
\* poll_once, _on_reconnect).
THEOREM FeedStaysClean == Spec => []FeedIsClean
<1>1. CandleInv => (part = "candle" => Candle!NoBarTwice)
  BY DEF CandleInv, ReturnedOnce, Candle!NoBarTwice, Opens
<1>2. TickInv => (part = "tick" => Tick!NoTickTwice /\ Tick!WarmUpIsSilent)
  <2> SUFFICES ASSUME TickInv, part = "tick" PROVE Tick!NoTickTwice /\ Tick!WarmUpIsSilent
    OBVIOUS
  <2>1. Tick!NoTickTwice
    BY DEF TickInv, SentOnce, ReadOnce, Tick!NoTickTwice
  <2>2. Tick!WarmUpIsSilent
    BY DEF TickInv, WarmUp, Tick!WarmUpIsSilent
  <2> QED
    BY <2>1, <2>2
<1> QED
  BY <1>1, <1>2, CandleInit, CandleStep, TickInit, TickStep, PTL DEF Spec, FeedIsClean

-----------------------------------------------------------------------------
(* The backtester                                                          *)

Asked == [buy : BOOLEAN, at : Int, stop : Prices \cup {None}, target : Prices \cup {None}]

\* What an open position took from the cash, for every symbol.
Tied == [s \in Symbols |-> IF open[s] = None THEN 0 ELSE Test!TiedUp(open[s])]

TestTypes ==
  /\ cash \in Int /\ pnl \in Int /\ time \in Int
  /\ open \in [Symbols -> Holdings \cup {None}] /\ close \in [Symbols -> Int]
  /\ DOMAIN signal = Symbols /\ \A s \in Symbols : signal[s] # None => signal[s] \in Asked
  /\ (\A s \in Symbols : open[s] = None) \/ \E x \in Symbols : recent[x] = 1

TestInv ==
  part = "test" =>
    /\ TestTypes
    /\ cash + SumOver(Tied, Symbols) = Capital + pnl
    /\ \A s \in Symbols : open[s] # None => open[s].at > open[s].signalled

\* The prices of a bar are whole, and so are the least and the greatest.
LEMMA PricesAre ==
  /\ IsFiniteSet(Symbols) /\ Prices \subseteq Int /\ Capital \in Int
  /\ BuyFee \in Int /\ SellFee \in Int /\ Slippage \in Int /\ None \notin Holdings
  /\ Test!Min(Prices) \in Prices /\ Test!Max(Prices) \in Prices
<1>1. Min(Prices) \in Prices /\ Max(Prices) \in Prices
  BY FeedAssumption, LeastOf, GreatestOf DEF FeedAssumption
<1>2. Test!Min(Prices) = Min(Prices) /\ Test!Max(Prices) = Max(Prices)
  BY DEF Test!Min, Test!Max, Min, Max
<1> QED
  BY <1>1, <1>2, FeedAssumption DEF FeedAssumption

\* Prices of execution and costs are whole.
LEMMA ExecutionIsWhole ==
  ASSUME NEW price \in Int, NEW buy \in BOOLEAN
  PROVE  Test!ExecutionPrice(price, buy) \in Int /\ Test!Costs(price, buy) \in Int
<1>1. Slippage \in Int /\ BuyFee \in Int /\ SellFee \in Int
  BY PricesAre
<1>2. price * (100 + (IF buy THEN Slippage ELSE -Slippage)) \in Int
  BY <1>1
<1>3. price * (IF buy THEN BuyFee ELSE SellFee) \in Int
  BY <1>1
<1>4. \A n \in Int : n \div 100 \in Int
  OBVIOUS
<1> QED
  BY <1>2, <1>3, <1>4 DEF Test!ExecutionPrice, Test!Costs

\* Closing a position gives the cash back what it took, and its profit.
LEMMA ClosePays ==
  ASSUME NEW p \in Holdings, NEW price \in Int
  PROVE  /\ Test!TiedUp(p) \in Int
         /\ Test!ClosePosition(p, price)[1] \in Int /\ Test!ClosePosition(p, price)[2] \in Int
         /\ Test!ClosePosition(p, price)[1] = Test!ClosePosition(p, price)[2] + Test!TiedUp(p)
<1> DEFINE out == Test!ExecutionPrice(price, ~p.buy)
           fee == Test!Costs(out, ~p.buy)
<1>1. p.buy \in BOOLEAN /\ p.entry \in Int /\ p.fee \in Int
  BY DEF Holdings
<1>2. out \in Int
  BY <1>1, ExecutionIsWhole
<1>3. fee \in Int
  <2> HIDE DEF out
  <2> QED
    BY <1>1, <1>2, ExecutionIsWhole
<1>4. Test!ClosePosition(p, price) =
        IF p.buy THEN <<out - fee, out - p.entry - p.fee - fee>> ELSE <<-out - fee, p.entry - out - p.fee - fee>>
  BY DEF Test!ClosePosition
<1> HIDE DEF out, fee
<1>5. CASE p.buy
  BY <1>1, <1>2, <1>3, <1>4, <1>5 DEF Test!TiedUp
<1>6. CASE ~p.buy
  BY <1>1, <1>2, <1>3, <1>4, <1>6 DEF Test!TiedUp
<1> QED
  BY <1>5, <1>6

\* Opening one takes from the cash what it ties up, and never answers a signal of its own bar.
LEMMA OpenTakes ==
  ASSUME NEW g \in Asked, NEW b \in Test!Bars, NEW at \in Int, NEW money \in Int,
         NEW e, e = Test!OpenPosition(g, b, at, money)
  PROVE  \/ e[1] = money /\ e[2] = None
         \/ /\ e[1] \in Int /\ e[2] \in Holdings /\ e[1] + Test!TiedUp(e[2]) = money
            /\ e[2].at > e[2].signalled
<1> DEFINE price == Test!ExecutionPrice(b.c, g.buy)
           fee == Test!Costs(price, g.buy)
           after == IF g.buy THEN money - price - fee ELSE money + price - fee
           p == [buy |-> g.buy, entry |-> price, fee |-> fee, stop |-> g.stop, target |-> g.target,
                 signalled |-> g.at, at |-> at]
<1>1. g.buy \in BOOLEAN /\ g.at \in Int /\ g.stop \in Prices \cup {None} /\ g.target \in Prices \cup {None}
  BY DEF Asked
<1>2. b.c \in Int
  BY PricesAre DEF Test!Bars
<1>3. price \in Int
  BY <1>1, <1>2, ExecutionIsWhole
<1>4. fee \in Int
  <2> HIDE DEF price
  <2> QED
    BY <1>1, <1>3, ExecutionIsWhole
<1>5. e = <<money, None>> \/ (~(at <= g.at) /\ e = <<after, p>>)
  BY DEF Test!OpenPosition
<1> HIDE DEF price, fee
<1>6. CASE e = <<money, None>>
  BY <1>6
<1>7. CASE ~(at <= g.at) /\ e = <<after, p>>
  <2>1. p \in Holdings /\ p.at > p.signalled
    BY <1>1, <1>3, <1>4, <1>7 DEF Holdings
  <2>2. after \in Int
    BY <1>3, <1>4
  <2>3. after + Test!TiedUp(p) = money
    <3>1. Test!TiedUp(p) = IF g.buy THEN price + fee ELSE fee - price
      BY DEF Test!TiedUp
    <3> QED
      BY <1>1, <1>3, <1>4, <3>1
  <2>4. e[1] = after /\ e[2] = p
    BY <1>7
  <2> HIDE DEF after, p
  <2> QED
    BY <2>1, <2>2, <2>3, <2>4
<1> QED
  BY <1>5, <1>6, <1>7

\* The sum the backtester keeps is the one over its open positions.
LEMMA TiedIsOpen ==
  ASSUME TestTypes
  PROVE  /\ \A s \in Symbols : Tied[s] \in Int
         /\ SumOver(Tied, Symbols) = Test!SumOf([s \in Test!OpenSymbols |-> Test!TiedUp(open[s])])
<1> DEFINE f == [s \in Test!OpenSymbols |-> Test!TiedUp(open[s])]
           O == Test!OpenSymbols
           R == Symbols \ O
<1>1. \A s \in Symbols : Tied[s] \in Int
  <2> TAKE s \in Symbols
  <2>1. open[s] \in Holdings \cup {None}
    BY DEF TestTypes
  <2>2. open[s] # None => Test!TiedUp(open[s]) \in Int
    BY <2>1, ClosePays
  <2> QED
    BY <2>2 DEF Tied
<1>2. O \subseteq Symbols /\ R \subseteq Symbols /\ O \cap R = {} /\ Symbols = O \cup R
      /\ DOMAIN f = O
  BY DEF Test!OpenSymbols
<1>3. (\A s \in O : Tied[s] = f[s]) /\ (\A s \in R : Tied[s] = 0)
  BY DEF Test!OpenSymbols, Tied
<1>4. Test!SumOf(f) = SumOver(f, DOMAIN f)
  BY SameSums DEF Test!SumOf
<1> HIDE DEF f, O, R
<1>5. IsFiniteSet(O) /\ IsFiniteSet(R)
  BY <1>2, PricesAre, FS_Subset
<1>6. SumOver(Tied, O \cup R) = SumOver(Tied, O) + SumOver(Tied, R)
  BY <1>1, <1>2, <1>5, SumUnion
<1>7. SumOver(Tied, R) = 0 /\ SumOver(Tied, O) = SumOver(f, O) /\ SumOver(Tied, O) \in Int
  BY <1>1, <1>2, <1>3, <1>5, SumZero, SumSame, SumType
<1>8. SumOver(Tied, Symbols) = Test!SumOf(f)
  BY <1>2, <1>4, <1>6, <1>7
<1> QED
  BY <1>1, <1>8 DEF f

\* At the start there is the capital and no position.
LEMMA TestInit == Init => TestInv
<1> SUFFICES ASSUME Init, part = "test" PROVE TestInv
  BY DEF TestInv
<1>1. Test!Init
  BY DEF Init
<1>2. TestTypes
  BY <1>1, PricesAre DEF Test!Init, TestTypes
<1>3. \A s \in Symbols : Tied[s] = 0
  BY <1>1 DEF Test!Init, Tied
<1>4. SumOver(Tied, Symbols) = 0
  BY <1>3, PricesAre, SumZero
<1>5. cash + SumOver(Tied, Symbols) = Capital + pnl
  BY <1>1, <1>4, PricesAre DEF Test!Init
<1>6. \A s \in Symbols : open[s] # None => open[s].at > open[s].signalled
  BY <1>1 DEF Test!Init
<1> QED
  BY <1>2, <1>5, <1>6 DEF TestInv

\* The price of an exit is one of the bar or of the position.
LEMMA ExitPrice ==
  ASSUME NEW b \in Test!Bars, NEW p \in Holdings, Test!CheckExits(b, p) # None
  PROVE  Test!CheckExits(b, p) \in Int
<1>1. b.o \in Prices /\ p.stop \in Prices \cup {None} /\ p.target \in Prices \cup {None}
  BY DEF Test!Bars, Holdings
<1> QED
  BY <1>1, PricesAre DEF Test!CheckExits

\* What the strategy returns is a signal or nothing.
LEMMA SignalsAsk ==
  ASSUME NEW at \in Int, NEW g \in Test!Signals(at), g # None
  PROVE  g \in Asked
<1>1. \/ g \in [buy : BOOLEAN, at : {at}, stop : {None}, target : {None}]
      \/ g = [buy |-> TRUE, at |-> at, stop |-> Test!Min(Prices), target |-> Test!Max(Prices)]
      \/ g = [buy |-> FALSE, at |-> at, stop |-> Test!Max(Prices), target |-> Test!Min(Prices)]
  BY DEF Test!Signals
<1>2. CASE g \in [buy : BOOLEAN, at : {at}, stop : {None}, target : {None}]
  BY <1>2 DEF Asked
<1>3. CASE g = [buy |-> TRUE, at |-> at, stop |-> Test!Min(Prices), target |-> Test!Max(Prices)]
  BY <1>3, PricesAre DEF Asked
<1>4. CASE g = [buy |-> FALSE, at |-> at, stop |-> Test!Max(Prices), target |-> Test!Min(Prices)]
  BY <1>4, PricesAre DEF Asked
<1> QED
  BY <1>1, <1>2, <1>3, <1>4

\* One bar: what leaves or enters the cash of its symbol is what the position ties up, or profit.
LEMMA RoundStep ==
  ASSUME TestInv, part = "test", part' = part, Test!NextBar
  PROVE  TestInv'
<1>1. time' \in {time, time + 1} /\ TestTypes
  BY DEF Test!NextBar, TestInv
<1>2. cash \in Int /\ pnl \in Int /\ time' \in Int /\ IsFiniteSet(Symbols)
  BY <1>1, PricesAre DEF TestTypes
<1>3. PICK b \in Test!Bars, new \in Test!Signals(time') :
        LET s == b.sym
            exit == IF open[s] = None THEN None ELSE Test!CheckExits(b, open[s])
            exited == IF exit = None THEN <<0, 0>> ELSE Test!ClosePosition(open[s], exit)
            money == cash + exited[1]
            flat == open[s] = None \/ exit # None
            taken == flat /\ signal[s] # None
            kept == <<money, IF flat THEN None ELSE open[s]>>
        IN  /\ \E entered \in IF taken THEN {kept, Test!OpenPosition(signal[s], b, time', money)} ELSE {kept} :
                 cash' = entered[1] /\ open' = [open EXCEPT ![s] = entered[2]]
            /\ pnl' = pnl + exited[2]
            /\ signal' = [signal EXCEPT ![s] = IF new # None THEN new ELSE IF taken THEN None ELSE @]
            /\ close' = [close EXCEPT ![s] = b.c]
            /\ recent' = [x \in Symbols |-> IF x = s THEN 1
                                            ELSE IF recent[x] > 0 /\ (recent[s] = 0 \/ recent[x] < recent[s])
                                                 THEN recent[x] + 1
                                            ELSE recent[x]]
  BY DEF Test!NextBar
<1> DEFINE s == b.sym
           exit == IF open[s] = None THEN None ELSE Test!CheckExits(b, open[s])
           exited == IF exit = None THEN <<0, 0>> ELSE Test!ClosePosition(open[s], exit)
           money == cash + exited[1]
           flat == open[s] = None \/ exit # None
           taken == flat /\ signal[s] # None
           kept == <<money, IF flat THEN None ELSE open[s]>>
<1>4. PICK entered \in IF taken THEN {kept, Test!OpenPosition(signal[s], b, time', money)} ELSE {kept} :
        cash' = entered[1] /\ open' = [open EXCEPT ![s] = entered[2]]
  BY <1>3
<1>5. /\ pnl' = pnl + exited[2]
      /\ signal' = [signal EXCEPT ![s] = IF new # None THEN new ELSE IF taken THEN None ELSE @]
      /\ close' = [close EXCEPT ![s] = b.c] /\ recent'[s] = 1
  BY <1>3 DEF Test!Bars
<1>6. s \in Symbols /\ b.c \in Int /\ open[s] \in Holdings \cup {None} /\ (exit # None => open[s] # None)
      /\ (signal[s] # None => signal[s] \in Asked)
  BY <1>1, PricesAre DEF TestTypes, Test!Bars
<1>7. /\ exited[1] \in Int /\ exited[2] \in Int
      /\ exited[1] = exited[2] + (IF exit = None THEN 0 ELSE Test!TiedUp(open[s]))
      /\ open[s] # None => Test!TiedUp(open[s]) \in Int
  <2>1. CASE open[s] = None
    BY <2>1
  <2>2. CASE open[s] # None /\ exit = None
    <3>1. open[s] \in Holdings
      BY <1>6, <2>2
    <3>2. Test!TiedUp(open[s]) \in Int
      BY <3>1, ClosePays
    <3> QED
      BY <2>2, <3>2
  <2>3. CASE open[s] # None /\ exit # None
    <3>1. open[s] \in Holdings
      BY <1>6, <2>3
    <3>2. exit \in Int
      BY <2>3, <3>1, ExitPrice
    <3> QED
      BY <2>3, <3>1, <3>2, ClosePays
  <2> QED
    BY <2>1, <2>2, <2>3
<1> HIDE DEF s, exit, exited
<1>8. money \in Int
  BY <1>2, <1>7
<1>9. /\ cash' \in Int /\ entered[2] \in Holdings \cup {None}
      /\ entered[2] # None => entered[2] = open[s] \/ entered[2].at > entered[2].signalled
      /\ cash' + (IF entered[2] = None THEN 0 ELSE Test!TiedUp(entered[2]))
           = money + (IF flat THEN 0 ELSE Test!TiedUp(open[s]))
      /\ entered[2] # None => Test!TiedUp(entered[2]) \in Int
  <2>1. CASE entered = kept
    <3>1. entered[1] = money /\ entered[2] = IF flat THEN None ELSE open[s]
      BY <2>1
    <3> QED
      BY <1>4, <1>6, <1>7, <1>8, <3>1
  <2>2. CASE taken /\ entered = Test!OpenPosition(signal[s], b, time', money)
    <3> HIDE DEF money, flat
    <3>1. signal[s] \in Asked /\ flat
      BY <1>6, <2>2
    <3>2. \/ entered[1] = money /\ entered[2] = None
          \/ /\ entered[1] \in Int /\ entered[2] \in Holdings /\ entered[1] + Test!TiedUp(entered[2]) = money
             /\ entered[2].at > entered[2].signalled
      BY <1>2, <1>8, <2>2, <3>1, OpenTakes
    <3>3. CASE entered[1] = money /\ entered[2] = None
      BY <1>4, <1>8, <3>1, <3>3
    <3>4. CASE /\ entered[1] \in Int /\ entered[2] \in Holdings /\ entered[1] + Test!TiedUp(entered[2]) = money
               /\ entered[2].at > entered[2].signalled
      <4>1. entered[2] # None /\ Test!TiedUp(entered[2]) \in Int
        BY <3>4, PricesAre, ClosePays
      <4> QED
        BY <1>4, <1>8, <3>1, <3>4, <4>1
    <3> QED
      BY <3>2, <3>3, <3>4
  <2> QED
    BY <1>4, <2>1, <2>2
<1>10. open' \in [Symbols -> Holdings \cup {None}] /\ open'[s] = entered[2]
       /\ \A x \in Symbols \ {s} : open'[x] = open[x]
  <2>1. open \in [Symbols -> Holdings \cup {None}]
    BY <1>1 DEF TestTypes
  <2> HIDE DEF money, flat, taken, kept
  <2> QED
    BY <1>4, <1>6, <1>9, <2>1
<1>11. DOMAIN signal' = Symbols /\ \A x \in Symbols : signal'[x] # None => signal'[x] \in Asked
  <2>1. DOMAIN signal = Symbols /\ \A x \in Symbols : signal[x] # None => signal[x] \in Asked
    BY <1>1 DEF TestTypes
  <2>2. new # None => new \in Asked
    BY <1>2, SignalsAsk
  <2> HIDE DEF taken
  <2> QED
    BY <1>5, <1>6, <2>1, <2>2
<1>12. TestTypes'
  <2>1. pnl' \in Int
    BY <1>2, <1>5, <1>7
  <2>2. close' \in [Symbols -> Int]
    BY <1>1, <1>5, <1>6 DEF TestTypes
  <2> QED
    BY <1>2, <1>5, <1>6, <1>9, <1>10, <1>11, <2>1, <2>2 DEF TestTypes
<1>13. cash' + SumOver(Tied', Symbols) = Capital + pnl'
  <2>1. \A x \in Symbols : Tied[x] \in Int
    BY <1>1, TiedIsOpen
  <2>2. /\ Tied[s] = IF open[s] = None THEN 0 ELSE Test!TiedUp(open[s])
        /\ Tied'[s] = IF entered[2] = None THEN 0 ELSE Test!TiedUp(entered[2])
    BY <1>6, <1>10 DEF Tied
  <2>3. Tied'[s] \in Int /\ \A x \in Symbols \ {s} : Tied'[x] = Tied[x]
    BY <1>9, <1>10, <2>2 DEF Tied
  <2>4. SumOver(Tied', Symbols) = (SumOver(Tied, Symbols) - Tied[s]) + Tied'[s]
    BY <1>2, <1>6, <2>1, <2>3, SumChange
  <2>5. SumOver(Tied, Symbols) \in Int /\ Tied[s] \in Int
    BY <1>2, <1>6, <2>1, SumType
  <2>6. cash + SumOver(Tied, Symbols) = Capital + pnl /\ Capital \in Int
    BY PricesAre DEF TestInv
  <2>7. cash' + Tied'[s] = money + (IF flat THEN 0 ELSE Test!TiedUp(open[s]))
    BY <1>9, <2>2
  <2>8. money + (IF flat THEN 0 ELSE Test!TiedUp(open[s])) = cash + exited[2] + Tied[s]
    BY <1>2, <1>6, <1>7, <2>2, <2>5
  <2> HIDE DEF money, flat
  <2> QED
    BY <1>2, <1>5, <1>7, <1>9, <2>3, <2>4, <2>5, <2>6, <2>7, <2>8
<1>14. \A x \in Symbols : open'[x] # None => open'[x].at > open'[x].signalled
  <2>1. \A x \in Symbols : open[x] # None => open[x].at > open[x].signalled
    BY DEF TestInv
  <2> HIDE DEF money, flat
  <2> QED
    BY <1>6, <1>9, <1>10, <2>1
<1> QED
  BY <1>12, <1>13, <1>14 DEF TestInv

\* The end: every position is closed, each at some last price.
LEMMA FinishStep ==
  ASSUME TestInv, part = "test", part' = part, Test!Finish
  PROVE  TestInv'
<1> DEFINE O == Test!OpenSymbols
           toCash == [s \in O |-> Test!ClosePosition(open[s], Test!LastPrice(s))[1]]
           toPnl == [s \in O |-> Test!ClosePosition(open[s], Test!LastPrice(s))[2]]
<1>1. /\ cash' = cash + Test!SumOf(toCash) /\ pnl' = pnl + Test!SumOf(toPnl)
      /\ open' = [s \in Symbols |-> None] /\ UNCHANGED <<time, recent, close, signal>>
  BY DEF Test!Finish
<1>2. TestTypes /\ cash + SumOver(Tied, Symbols) = Capital + pnl /\ Capital \in Int
  BY PricesAre DEF TestInv
<1>3. O \subseteq Symbols /\ IsFiniteSet(O) /\ DOMAIN toCash = O /\ DOMAIN toPnl = O
  BY PricesAre, FS_Subset DEF Test!OpenSymbols
<1>4. Test!SumOf(toCash) = SumOver(toCash, O) /\ Test!SumOf(toPnl) = SumOver(toPnl, O)
  <2> HIDE DEF toCash, toPnl
  <2> QED
    BY <1>3, SameSums DEF Test!SumOf
<1>5. \A s \in O : toPnl[s] \in Int /\ Tied[s] \in Int /\ toCash[s] = toPnl[s] + Tied[s]
  <2> TAKE s \in O
  <2>1. s \in Symbols /\ open[s] # None /\ open[s] \in Holdings
    BY <1>2 DEF Test!OpenSymbols, TestTypes
  <2>2. \E x \in Symbols : recent[x] = 1
    BY <1>2, <2>1 DEF TestTypes
  <2>3. Test!LastPrice(s) \in Int
    BY <1>2, <2>1, <2>2 DEF Test!LastPrice, TestTypes
  <2>4. Tied[s] = Test!TiedUp(open[s])
    BY <2>1 DEF Tied
  <2> QED
    BY <2>1, <2>3, <2>4, ClosePays
<1> HIDE DEF toCash, toPnl
<1>6. SumOver(toCash, O) = SumOver(toPnl, O) + SumOver(Tied, O) /\ SumOver(toPnl, O) \in Int
      /\ SumOver(Tied, O) \in Int
  BY <1>3, <1>5, SumPlus, SumType
<1>7. SumOver(Tied, Symbols) = SumOver(Tied, O)
  <2> DEFINE R == Symbols \ O
  <2>1. R \subseteq Symbols /\ O \cap R = {} /\ O \cup R = Symbols
    BY <1>3
  <2>2. (\A s \in Symbols : Tied[s] \in Int) /\ \A s \in R : Tied[s] = 0
    BY <1>2, TiedIsOpen DEF Test!OpenSymbols, Tied
  <2> HIDE DEF R
  <2>3. IsFiniteSet(R)
    BY <2>1, PricesAre, FS_Subset
  <2>4. SumOver(Tied, O \cup R) = SumOver(Tied, O) + SumOver(Tied, R) /\ SumOver(Tied, R) = 0
    BY <1>3, <2>1, <2>2, <2>3, SumUnion, SumZero
  <2>5. SumOver(Tied, Symbols) = SumOver(Tied, O \cup R)
    BY <2>1
  <2> QED
    BY <1>6, <2>4, <2>5
<1>8. cash \in Int /\ pnl \in Int
  BY <1>2 DEF TestTypes
<1>9. cash' \in Int /\ pnl' \in Int /\ cash' = Capital + pnl'
  BY <1>1, <1>2, <1>4, <1>6, <1>7, <1>8
<1>10. SumOver(Tied', Symbols) = 0
  <2>1. \A s \in Symbols : Tied'[s] = 0
    BY <1>1 DEF Tied
  <2> QED
    BY <2>1, PricesAre, SumZero
<1>11. TestTypes'
  BY <1>1, <1>2, <1>9 DEF TestTypes
<1> QED
  BY <1>1, <1>9, <1>10, <1>11 DEF TestInv

\* Every step of the backtester keeps the invariant.
LEMMA TestStep == TestInv /\ [Next]_vars => TestInv'
<1> SUFFICES ASSUME TestInv, [Next]_vars, part' = "test" PROVE TestInv'
  BY DEF TestInv
<1>1. CASE UNCHANGED vars
  <2>1. Tied' = Tied
    BY <1>1 DEF vars, testVars, Tied
  <2> QED
    BY <1>1, <2>1 DEF vars, testVars, TestInv, TestTypes
<1>2. CASE Next
  <2>1. part = "test" /\ part' = part /\ Test!Next
    BY <1>2 DEF Next
  <2> QED
    BY <2>1, RoundStep, FinishStep DEF Test!Next
<1> QED
  BY <1>1, <1>2

\* The cash and what the open positions took from it are the capital and the profit of the trades,
\* however many symbols and bars (run, _open_position, _close_position of the backtester).
THEOREM CapitalIsExplained == Spec => []CapitalIsPnl
<1>1. TestInv => CapitalIsPnl
  BY TiedIsOpen DEF TestInv, CapitalIsPnl, Test!CapitalIsPnl, Test!OpenSymbols
<1> QED
  BY <1>1, TestInit, TestStep, PTL DEF Spec
=============================================================================
