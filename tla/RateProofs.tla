----------------------------- MODULE RateProofs -----------------------------
(***************************************************************************)
(* The calls per second of both directions, for any number of calls, any   *)
(* values of the classes and any clocks: the leaky bucket of LeakyBucket   *)
(* is type correct, spaces the calls and keeps the cps of the class; the   *)
(* rolling window of TokenBucket is type correct and lets no more than     *)
(* max_cps calls through in any span of time a little shorter than the     *)
(* window.                                                                 *)
(***************************************************************************)
EXTENDS LeakyBucket, TokenBucket, FiniteSetTheorems, TLAPS

(* The gap of a class is a number of milliseconds.                         *)
LEMMA LeakType == \A k \in Limit : Leak(k) \in Nat
<1> SUFFICES ASSUME NEW k \in Limit PROVE Leak(k) \in Nat
  OBVIOUS
<1>1. k \in Nat \ {0} /\ Second \in Nat \ {0}
  BY LeakyAssumption DEF Limit
<1>2. Second + k - 1 \in Nat
  BY <1>1
<1> QED
  BY <1>1, <1>2 DEF Leak

(* A call is given a time that is not past.                                *)
LEMMA NextCallType ==
    ASSUME LeakyTypeOK, NEW k \in Limit
    PROVE  NextCall(k) \in Nat /\ NextCall(k) >= now
  BY LeakType DEF LeakyTypeOK, NextCall, Later

(* The variables keep their types: average_cps stores times, and a session *)
(* is in one of its states.                                                *)
THEOREM TypeCorrect == LeakySpec => []LeakyTypeOK
<1>1. LeakyInit => LeakyTypeOK
  BY LeakyAssumption DEF LeakyInit, LeakyTypeOK, LeakyState
<1>2. LeakyTypeOK /\ [LeakyNext]_leakyVars => LeakyTypeOK'
  <2> SUFFICES ASSUME LeakyTypeOK, [LeakyNext]_leakyVars PROVE LeakyTypeOK'
    OBVIOUS
  <2>1. CASE LeakyTick
    BY <2>1 DEF LeakyTypeOK, LeakyTick
  <2>2. ASSUME NEW k \in Cps, EditClass(k) PROVE LeakyTypeOK'
    BY <2>2 DEF LeakyTypeOK, EditClass
  <2>3. ASSUME NEW c \in Call, Read(c) PROVE LeakyTypeOK'
    BY <2>3 DEF LeakyTypeOK, Read, Goto, LeakyState
  <2>4. ASSUME NEW c \in Call, Bypass(c) \/ Fail(c) \/ Send(c) PROVE LeakyTypeOK'
    BY <2>4 DEF LeakyTypeOK, Bypass, Fail, Send, Goto, LeakyState
  <2>5. ASSUME NEW c \in Call, Shape(c) PROVE LeakyTypeOK'
    <3>1. cps[c] \in Limit
      BY <2>5 DEF Shape, LeakyTypeOK, Limit
    <3>2. NextCall(cps[c]) \in Nat /\ Leak(cps[c]) \in Nat
      BY <3>1, NextCallType, LeakType
    <3>3. bucket' \in Nat /\ expiry' \in Nat /\ slot' \in [Call -> Nat]
      BY <2>5, <3>2 DEF Shape, LeakyTypeOK
    <3>4. pc' \in [Call -> LeakyState]
      BY <2>5 DEF Shape, LeakyTypeOK, Goto, LeakyState
    <3> QED
      BY <2>5, <3>3, <3>4 DEF Shape, LeakyTypeOK
  <2>6. CASE UNCHANGED leakyVars
    BY <2>6 DEF LeakyTypeOK, leakyVars
  <2> QED
    BY <2>1, <2>2, <2>3, <2>4, <2>5, <2>6 DEF LeakyNext
<1> QED
  BY <1>1, <1>2, PTL DEF LeakySpec

-----------------------------------------------------------------------------
(* No call has a time after the bucket's, and the bucket's key lives a gap *)
(* of the class longer: while it is there it puts the next call off, and   *)
(* when it is gone a gap has passed.                                       *)
Ordered == \A c \in Shaped : slot[c] <= bucket

Lives == Shaped # {} => \E k \in Limit : expiry = bucket + Leak(k)

(* Only the calls of a limited interconnection wait.                       *)
Limited == \A c \in Call : pc[c] = "waiting" => cps[c] > 0

SpacingInv == LeakyTypeOK /\ Ordered /\ Lives /\ Limited /\ Spacing

LEMMA SpacingInit == LeakyInit => SpacingInv
<1> SUFFICES ASSUME LeakyInit PROVE SpacingInv
  OBVIOUS
<1>1. LeakyTypeOK
  BY LeakyAssumption DEF LeakyInit, LeakyTypeOK, LeakyState
<1>2. Shaped = {}
  BY DEF LeakyInit, Shaped
<1> QED
  BY <1>1, <1>2 DEF SpacingInv, Ordered, Lives, Limited, Spacing, LeakyInit

(* A step that gives no call a time.                                       *)
LEMMA NothingShaped ==
    ASSUME SpacingInv, LeakyTypeOK', Limited', Shaped' = Shaped, UNCHANGED <<bucket, expiry, slot>>
    PROVE  SpacingInv'
  BY DEF SpacingInv, Ordered, Lives, Spacing

(* A call that is given a time comes a gap after all before it.            *)
LEMMA GapAhead ==
    ASSUME SpacingInv, NEW k \in Limit, NEW d \in Shaped
    PROVE  \E l \in Limit : NextCall(k) >= slot[d] + Leak(l)
<1>1. d \in Call /\ slot[d] \in Nat /\ slot[d] <= bucket /\ bucket \in Nat /\ now \in Nat
  BY DEF SpacingInv, LeakyTypeOK, Ordered, Shaped
<1>2. Leak(k) \in Nat
  BY LeakType
<1>3. CASE now <= expiry
  BY <1>1, <1>2, <1>3 DEF NextCall, Later
<1>4. CASE ~(now <= expiry)
  <2>1. PICK l \in Limit : expiry = bucket + Leak(l)
    BY DEF SpacingInv, Lives
  <2>2. Leak(l) \in Nat
    BY LeakType
  <2>3. NextCall(k) = now
    BY <1>4 DEF NextCall
  <2> QED
    BY <1>1, <1>4, <2>1, <2>2, <2>3
<1> QED
  BY <1>3, <1>4

LEMMA SpacingStep == SpacingInv /\ LeakyTypeOK' /\ [LeakyNext]_leakyVars => SpacingInv'
<1> SUFFICES ASSUME SpacingInv, LeakyTypeOK', [LeakyNext]_leakyVars PROVE SpacingInv'
  OBVIOUS
<1>1. CASE LeakyTick
  <2>1. Shaped' = Shaped /\ Limited'
    BY <1>1 DEF LeakyTick, Shaped, SpacingInv, Limited
  <2> QED
    BY <1>1, <2>1, NothingShaped DEF LeakyTick
<1>2. ASSUME NEW k \in Cps, EditClass(k) PROVE SpacingInv'
  <2>1. Shaped' = Shaped /\ Limited'
    BY <1>2 DEF EditClass, Shaped, SpacingInv, Limited
  <2> QED
    BY <1>2, <2>1, NothingShaped DEF EditClass
<1>3. ASSUME NEW c \in Call, Read(c) \/ Bypass(c) \/ Fail(c) \/ Send(c) PROVE SpacingInv'
  <2>1. pc \in [Call -> LeakyState] /\ cps \in [Call -> Int]
    BY LeakyAssumption DEF SpacingInv, LeakyTypeOK
  <2>2. \A d \in Call : d # c => pc'[d] = pc[d] /\ cps'[d] = cps[d]
    BY <1>3, <2>1 DEF Read, Bypass, Fail, Send, Goto
  <2>3. Limited'
    <3>1. pc'[c] # "waiting"
      BY <1>3, <2>1 DEF Read, Bypass, Fail, Send, Goto
    <3> QED
      BY <2>2, <3>1 DEF SpacingInv, Limited
  <2>4. c \in Shaped' <=> c \in Shaped
    <3>1. CASE Read(c)
      BY <2>1, <3>1 DEF Read, Goto, Shaped
    <3>2. CASE Bypass(c)
      BY <2>1, <3>2 DEF Bypass, Goto, Shaped
    <3>3. CASE Fail(c)
      BY <2>1, <3>3 DEF Fail, Goto, Shaped
    <3>4. CASE Send(c)
      BY <2>1, <3>4 DEF Send, Goto, Shaped, SpacingInv, Limited
    <3> QED
      BY <1>3, <3>1, <3>2, <3>3, <3>4
  <2>5. Shaped' = Shaped
    BY <2>2, <2>4 DEF Shaped
  <2> QED
    BY <1>3, <2>3, <2>5, NothingShaped DEF Read, Bypass, Fail, Send
<1>4. ASSUME NEW c \in Call, Shape(c) PROVE SpacingInv'
  <2> DEFINE k == cps[c]
             next == NextCall(k)
  <2>1. k \in Limit /\ c \notin Shaped
    BY <1>4 DEF Shape, Shaped, SpacingInv, LeakyTypeOK, Limit
  <2>2. next \in Nat /\ next >= now /\ Leak(k) \in Nat
    BY <2>1, NextCallType, LeakType DEF SpacingInv
  <2>3. bucket' = next /\ expiry' = next + Leak(k) /\ slot' = [slot EXCEPT ![c] = next]
    BY <1>4 DEF Shape
  <2>4. Shaped' \subseteq Shaped \cup {c}
    BY <1>4 DEF Shape, Goto, Shaped, SpacingInv, LeakyTypeOK
  <2>5. slot'[c] = next /\ \A d \in Shaped : slot'[d] = slot[d]
    BY <2>1, <2>3 DEF SpacingInv, LeakyTypeOK, Shaped
  <2>6. \A d \in Shaped : \E l \in Limit : next >= slot[d] + Leak(l)
    BY <2>1, GapAhead
  <2>7. \A d \in Shaped : slot[d] \in Nat
    BY DEF SpacingInv, LeakyTypeOK, Shaped
  <2>8. Ordered'
    <3>1. \A d \in Shaped : slot[d] <= next
      BY <2>2, <2>6, <2>7, LeakType
    <3> QED
      BY <2>2, <2>3, <2>4, <2>5, <3>1 DEF Ordered
  <2>9. Lives'
    <3>1. \E l \in Limit : expiry' = bucket' + Leak(l)
      BY <2>1, <2>3
    <3> QED
      BY <3>1 DEF Lives
  <2>10. Limited'
    BY <1>4, <2>1 DEF Shape, Goto, SpacingInv, LeakyTypeOK, Limited, Limit
  <2>11. Spacing'
    <3>1. Spacing
      BY DEF SpacingInv
    <3> SUFFICES ASSUME NEW d \in Shaped', NEW e \in Shaped', d # e
                 PROVE  \E l \in Limit : \/ slot'[e] >= slot'[d] + Leak(l)
                                         \/ slot'[d] >= slot'[e] + Leak(l)
      BY DEF Spacing
    <3>2. CASE d # c /\ e # c
      <4>1. d \in Shaped /\ e \in Shaped
        BY <2>4, <3>2
      <4> QED
        BY <2>5, <3>1, <4>1 DEF Spacing
    <3>3. CASE d = c
      <4>1. e \in Shaped
        BY <2>4, <3>3
      <4> QED
        BY <2>5, <2>6, <3>3, <4>1
    <3>4. CASE e = c
      <4>1. d \in Shaped
        BY <2>4, <3>4
      <4> QED
        BY <2>5, <2>6, <3>4, <4>1
    <3> QED
      BY <3>2, <3>3, <3>4
  <2> QED
    BY <2>8, <2>9, <2>11, <2>10 DEF SpacingInv
<1>5. CASE UNCHANGED leakyVars
  <2>1. Shaped' = Shaped /\ Limited'
    BY <1>5 DEF leakyVars, Shaped, SpacingInv, Limited
  <2> QED
    BY <1>5, <2>1, NothingShaped DEF leakyVars
<1> QED
  BY <1>1, <1>2, <1>3, <1>4, <1>5 DEF LeakyNext

(* average_cps keeps the constant rate that callfunc.lua:91 promises: any  *)
(* two calls are given times a gap of the class apart, though sessions     *)
(* read the class and run the script in any order, the class is edited in  *)
(* between, and the key of the bucket expires.                             *)
THEOREM ConstantRate == LeakySpec => []Spacing
<1>1. LeakyInit => SpacingInv
  BY SpacingInit
<1>2. SpacingInv /\ LeakyTypeOK' /\ [LeakyNext]_leakyVars => SpacingInv'
  BY SpacingStep
<1>3. SpacingInv => Spacing
  BY DEF SpacingInv
<1> QED
  BY <1>1, <1>2, <1>3, TypeCorrect, PTL DEF LeakySpec

-----------------------------------------------------------------------------
(* Dividing by a positive number.                                          *)
LEMMA Quotient ==
    ASSUME NEW a \in Nat, NEW b \in Nat \ {0}
    PROVE  /\ a \div b \in Nat
           /\ b * (a \div b) <= a
           /\ a < b * (a \div b) + b
  OBVIOUS

(* Multiplying by a positive number.                                       *)
LEMMA Product ==
    ASSUME NEW a \in Nat \ {0}, NEW x \in Nat, NEW y \in Nat, x <= y - 1
    PROVE  a * x \in Nat /\ a * x < a * y
<1>1. a * y = a * x + a * (y - x)
  OBVIOUS
<1>2. a * (y - x) >= a /\ a * x \in Nat
  OBVIOUS
<1> QED
  BY <1>1, <1>2

(* As many calls as a class allows take at least a second, a gap apart.    *)
LEMMA LeakFillsSecond ==
    ASSUME NEW k \in Limit, NEW m \in Nat, m >= k, NEW x \in Nat, x >= Leak(k)
    PROVE  m * x >= Second
<1>1. k \in Nat \ {0} /\ Second \in Nat \ {0}
  BY LeakyAssumption DEF Limit
<1>2. /\ Leak(k) \in Nat
      /\ Second + k - 1 < k * Leak(k) + k
  BY <1>1, Quotient DEF Leak
<1>3. k * x >= k * Leak(k)
  BY <1>1, <1>2
<1>4. m * x >= k * x
  BY <1>1
<1> QED
  BY <1>1, <1>2, <1>3, <1>4

(* Calls that are given times within a second are no more than the largest *)
(* class: were they m + 1, with m no less than any class, then m times     *)
(* their distances would be at least a second, and no two of them in the   *)
(* same of the m parts of it.                                              *)
LEMMA AtMostLimit ==
    ASSUME SpacingInv, NEW t \in Nat,
           NEW calls \in SUBSET {c \in Passing : slot[c] \in t..(t + Second - 1)},
           calls # {}
    PROVE  \E k \in Limit : Cardinality(calls) <= k
<1>1. IsFiniteSet(calls) /\ Cardinality(calls) \in Nat
  BY FS_Subset, FS_CardinalityType, CallAssumption DEF Passing, Shaped
<1>2. PICK k0 \in Limit : TRUE
  <2>1. PICK c \in calls : TRUE
    OBVIOUS
  <2>2. cps[c] \in Limit
    BY <2>1, LeakyAssumption DEF SpacingInv, Limited, LeakyTypeOK, Passing, Shaped, Limit
  <2> QED
    BY <2>2
<1> SUFFICES ASSUME \A k \in Limit : k < Cardinality(calls)
             PROVE  FALSE
  BY <1>1, LeakyAssumption DEF Limit
<1> DEFINE m == Cardinality(calls) - 1
           part == [c \in calls |-> (m * (slot[c] - t)) \div Second]
<1>3. m \in Nat \ {0} /\ \A k \in Limit : k <= m
  BY <1>1, <1>2, LeakyAssumption DEF Limit
<1>4. Second \in Nat \ {0}
  BY LeakyAssumption
<1>5. \A c \in calls : slot[c] - t \in Nat /\ slot[c] - t <= Second - 1 /\ slot[c] \in Nat
  BY <1>4 DEF SpacingInv, LeakyTypeOK, Passing, Shaped
<1>6. ASSUME NEW c \in calls
      PROVE  /\ m * (slot[c] - t) \in Nat
             /\ part[c] \in 0..(m - 1)
             /\ Second * part[c] <= m * (slot[c] - t)
             /\ m * (slot[c] - t) < Second * part[c] + Second
  <2> DEFINE x == slot[c] - t
  <2>1. x \in Nat /\ x <= Second - 1
    BY <1>5
  <2>2. m * x \in Nat /\ m * x < m * Second
    BY <1>3, <1>4, <2>1, Product
  <2>3. part[c] = (m * x) \div Second
    OBVIOUS
  <2> HIDE DEF x, m, part
  <2>4. /\ part[c] \in Nat
        /\ Second * part[c] <= m * x
        /\ m * x < Second * part[c] + Second
    BY <1>4, <2>2, <2>3, Quotient
  <2>5. part[c] <= m - 1
    BY <1>3, <1>4, <2>2, <2>4
  <2> QED
    BY <1>3, <2>2, <2>4, <2>5 DEF x
<1> HIDE DEF m, part
<1>7. part \in [calls -> 0..(m - 1)]
  BY <1>6 DEF part
<1>8. IsFiniteSet(0..(m - 1)) /\ Cardinality(0..(m - 1)) = m
  BY <1>3, FS_Interval
<1>9. PICK c \in calls, d \in calls : c # d /\ part[c] = part[d]
  BY <1>1, <1>3, <1>7, <1>8, FS_PigeonHole DEF m
<1>10. ASSUME NEW x \in Nat, NEW y \in Nat, NEW p \in Nat, NEW k \in Limit, y >= x + Leak(k),
              Second * p <= m * x, m * y < Second * p + Second
       PROVE  FALSE
  <2>1. Leak(k) \in Nat /\ k <= m
    BY <1>3, LeakType
  <2>2. y - x \in Nat /\ y - x >= Leak(k)
    BY <1>10, <2>1
  <2>3. m * (y - x) >= Second
    BY <1>3, <2>1, <2>2, LeakFillsSecond
  <2>4. m * y = m * x + m * (y - x)
    BY <1>3
  <2> QED
    BY <1>3, <1>4, <1>10, <2>3, <2>4
<1>11. PICK k \in Limit : slot[d] >= slot[c] + Leak(k) \/ slot[c] >= slot[d] + Leak(k)
  BY <1>9 DEF SpacingInv, Spacing, Passing
<1>12. part[c] \in Nat /\ Leak(k) \in Nat
  BY <1>3, <1>6, LeakType
<1>13. CASE slot[d] >= slot[c] + Leak(k)
  <2>1. slot[d] - t >= (slot[c] - t) + Leak(k)
    BY <1>5, <1>12, <1>13
  <2> QED
    BY <1>5, <1>6, <1>9, <1>10, <1>12, <2>1
<1>14. CASE slot[c] >= slot[d] + Leak(k)
  <2>1. slot[c] - t >= (slot[d] - t) + Leak(k)
    BY <1>5, <1>12, <1>14
  <2> QED
    BY <1>5, <1>6, <1>9, <1>10, <1>12, <2>1
<1> QED
  BY <1>11, <1>13, <1>14

(* So, for any number of calls and any classes, the calls that average_cps *)
(* lets through in any one second are no more than the largest of them,    *)
(* which is what callfunc.lua:89-118 is for.                               *)
THEOREM CpsKept == LeakySpec => []WithinCps
<1>1. LeakyInit => SpacingInv
  BY SpacingInit
<1>2. SpacingInv /\ LeakyTypeOK' /\ [LeakyNext]_leakyVars => SpacingInv'
  BY SpacingStep
<1>3. SpacingInv => WithinCps
  <2> SUFFICES ASSUME SpacingInv, NEW t \in 0..now
               PROVE  LET calls == {c \in Passing : slot[c] \in t..(t + Second - 1)}
                      IN  calls # {} => \E k \in Limit : Cardinality(calls) <= k
    BY DEF WithinCps
  <2>1. t \in Nat
    BY DEF SpacingInv, LeakyTypeOK
  <2> QED
    BY <2>1, AtMostLimit
<1> QED
  BY <1>1, <1>2, <1>3, TypeCorrect, PTL DEF LeakySpec

-----------------------------------------------------------------------------
(* The bucket after a transaction is a finite set of calls.                *)
LEMMA RolledType ==
    ASSUME TokenTypeOK, NEW c \in Call
    PROVE  Rolled(c) \subseteq Call /\ Cardinality(Rolled(c)) \in Nat
<1>1. Rolled(c) \subseteq Call
  BY DEF Rolled, TokenTypeOK
<1>2. IsFiniteSet(Rolled(c))
  BY <1>1, FS_Subset, CallAssumption
<1> QED
  BY <1>1, <1>2, FS_CardinalityType

(* The variables keep their types: verify_cps puts calls in the bucket and *)
(* times in the keys.                                                      *)
THEOREM WindowTypeCorrect == TokenSpec => []TokenTypeOK
<1>1. TokenInit => TokenTypeOK
  BY DEF TokenInit, TokenTypeOK, TokenState
<1>2. TokenTypeOK /\ [TokenNext]_tokenVars => TokenTypeOK'
  <2> SUFFICES ASSUME TokenTypeOK, [TokenNext]_tokenVars PROVE TokenTypeOK'
    OBVIOUS
  <2>1. CASE TokenTick
    BY <2>1 DEF TokenTypeOK, TokenTick
  <2>2. ASSUME NEW c \in Call, Stamp(c) PROVE TokenTypeOK'
    <3>1. PICK t \in (now - Skew)..(now + Skew) : stamp' = [stamp EXCEPT ![c] = t]
      BY <2>2 DEF Stamp
    <3>2. t \in Int
      BY <3>1, TokenAssumption DEF TokenTypeOK
    <3> QED
      BY <2>2, <3>1, <3>2 DEF TokenTypeOK, Stamp, Goto, TokenState
  <2>3. ASSUME NEW c \in Call, Peek(c) PROVE TokenTypeOK'
    BY <2>3 DEF TokenTypeOK, Peek, Goto, TokenState
  <2>4. ASSUME NEW c \in Call, Extend(c) \/ Punish(c) PROVE TokenTypeOK'
    BY <2>4, TokenAssumption DEF TokenTypeOK, Extend, Punish, Goto, TokenState
  <2>5. ASSUME NEW c \in Call, Count(c) PROVE TokenTypeOK'
    BY <2>5, RolledType, TokenAssumption DEF TokenTypeOK, Count, Goto, TokenState
  <2>6. CASE UNCHANGED tokenVars
    BY <2>6 DEF TokenTypeOK, tokenVars
  <2> QED
    BY <2>1, <2>2, <2>3, <2>4, <2>5, <2>6 DEF TokenNext
<1> QED
  BY <1>1, <1>2, PTL DEF TokenSpec

-----------------------------------------------------------------------------
(* The stamp of a session on its way is at most Delay old, and off by at   *)
(* most Skew.                                                              *)
Timely ==
    \A c \in Call : Pending(c) =>
        /\ at[c] <= now /\ now <= at[c] + Delay
        /\ at[c] - Skew <= stamp[c] /\ stamp[c] <= at[c] + Skew

(* A call let through has a stamp no older than that, when its transaction *)
(* ran, and the key of the bucket lives two windows longer.                *)
Recorded ==
    \A c \in Call : pc[c] = "passed" =>
        /\ at[c] <= now
        /\ at[c] - Delay - Skew <= stamp[c]
        /\ at[c] + 2 * Window <= gone

(* So until the span has passed, nobody removes it from the bucket.        *)
Kept == \A c \in Call : pc[c] = "passed" /\ now - Span < at[c] => c \in tokens

WindowInv ==
    TokenTypeOK /\ gone <= now + 2 * Window /\ Timely /\ Recorded /\ Kept /\ WithinSpan

LEMMA SpanType == Span \in Int /\ Span <= Window
  BY TokenAssumption DEF Span

LEMMA WindowInit == TokenInit => WindowInv
<1> SUFFICES ASSUME TokenInit PROVE WindowInv
  OBVIOUS
<1>1. TokenTypeOK /\ gone <= now + 2 * Window
  BY TokenAssumption DEF TokenInit, TokenTypeOK, TokenState
<1>2. Timely /\ Recorded /\ Kept
  BY DEF TokenInit, Timely, Recorded, Kept, Pending
<1>3. ASSUME NEW t \in 0..now, MaxCps >= 0 PROVE Cardinality(PassedIn(Span, t)) <= MaxCps
  <2>1. PassedIn(Span, t) = {}
    BY DEF TokenInit, PassedIn
  <2> QED
    BY <1>3, <2>1, FS_EmptySet, TokenAssumption
<1> QED
  BY <1>1, <1>2, <1>3 DEF WindowInv, WithinSpan

(* A step that lets no call through in no time.                            *)
LEMMA NobodyPasses ==
    ASSUME WindowInv, now' = now,
           \A c \in Call : pc'[c] = "passed" => pc[c] = "passed" /\ at'[c] = at[c]
    PROVE  WithinSpan'
<1> SUFFICES ASSUME NEW t \in 0..now, MaxCps >= 0
             PROVE  Cardinality(PassedIn(Span, t)') <= MaxCps
  BY DEF WithinSpan
<1>1. PassedIn(Span, t)' \subseteq PassedIn(Span, t)
  BY DEF PassedIn
<1>2. PassedIn(Span, t) \subseteq Call
  BY DEF PassedIn
<1>3. Cardinality(PassedIn(Span, t)) <= MaxCps
  BY DEF WindowInv, WithinSpan
<1>4. IsFiniteSet(PassedIn(Span, t))
  BY <1>2, FS_Subset, CallAssumption
<1>5. /\ Cardinality(PassedIn(Span, t)') <= Cardinality(PassedIn(Span, t))
      /\ IsFiniteSet(PassedIn(Span, t)')
  BY <1>1, <1>4, FS_Subset
<1>6. Cardinality(PassedIn(Span, t)') \in Nat /\ Cardinality(PassedIn(Span, t)) \in Nat
  BY <1>4, <1>5, FS_CardinalityType
<1> QED
  BY <1>3, <1>5, <1>6, TokenAssumption

(* Time passes: a span that ends a tick later has no more calls.           *)
LEMMA TickStep == WindowInv /\ TokenTick => WindowInv'
<1> SUFFICES ASSUME WindowInv, TokenTick PROVE WindowInv'
  OBVIOUS
<1>1. now \in Nat /\ now' = now + 1 /\ UNCHANGED <<tokens, gone, blocked, pc, stamp, at>>
  BY DEF TokenTick, WindowInv, TokenTypeOK
<1>2. TokenTypeOK' /\ gone' <= now' + 2 * Window
  BY <1>1, TokenAssumption DEF WindowInv, TokenTypeOK
<1>3. at \in [Call -> Nat] /\ stamp \in [Call -> Int] /\ gone \in Nat
  BY DEF WindowInv, TokenTypeOK
<1>4. Timely'
  <2>1. \A c \in Call : Pending(c)' => Pending(c) /\ now < at[c] + Delay
    BY <1>1 DEF TokenTick, Pending
  <2> QED
    BY <1>1, <1>3, <2>1, TokenAssumption DEF WindowInv, Timely
<1>5. Recorded'
  BY <1>1, <1>3, TokenAssumption DEF WindowInv, Recorded
<1>6. Kept'
  BY <1>1, <1>3, SpanType DEF WindowInv, Kept
<1>7. WithinSpan'
  <2> SUFFICES ASSUME NEW t \in 0..now', MaxCps >= 0
               PROVE  Cardinality(PassedIn(Span, t)') <= MaxCps
    BY DEF WithinSpan
  <2>1. PICK u \in 0..now : PassedIn(Span, t)' \subseteq PassedIn(Span, u)
    <3>1. CASE t \in 0..now
      BY <1>1, <3>1 DEF PassedIn
    <3>2. CASE t = now + 1
      <4>1. ASSUME NEW c \in PassedIn(Span, t)' PROVE c \in PassedIn(Span, now)
        <5>1. c \in Call /\ pc[c] = "passed" /\ t - Span < at[c]
          BY <1>1, <4>1 DEF PassedIn
        <5>2. at[c] <= now
          BY <5>1 DEF WindowInv, Recorded
        <5>3. now - Span < at[c]
          BY <1>1, <1>3, <3>2, <5>1, SpanType
        <5> QED
          BY <5>1, <5>2, <5>3 DEF PassedIn
      <4> QED
        BY <1>1, <4>1
    <3> QED
      BY <1>1, <3>1, <3>2
  <2>2. IsFiniteSet(PassedIn(Span, u))
    <3>1. PassedIn(Span, u) \subseteq Call
      BY DEF PassedIn
    <3> QED
      BY <3>1, FS_Subset, CallAssumption
  <2>3. /\ IsFiniteSet(PassedIn(Span, t)')
        /\ Cardinality(PassedIn(Span, t)') <= Cardinality(PassedIn(Span, u))
    BY <2>1, <2>2, FS_Subset
  <2>4. Cardinality(PassedIn(Span, t)') \in Nat /\ Cardinality(PassedIn(Span, u)) \in Nat
    BY <2>2, <2>3, FS_CardinalityType
  <2>5. Cardinality(PassedIn(Span, u)) <= MaxCps
    BY DEF WindowInv, WithinSpan
  <2> QED
    BY <2>3, <2>4, <2>5, TokenAssumption
<1> QED
  BY <1>2, <1>4, <1>5, <1>6, <1>7 DEF WindowInv

(* A session takes its time stamp, or does anything but count its call.    *)
LEMMA StampStep == ASSUME WindowInv, NEW c \in Call, Stamp(c), TokenTypeOK' PROVE WindowInv'
<1>1. PICK t \in (now - Skew)..(now + Skew) : stamp' = [stamp EXCEPT ![c] = t]
  BY DEF Stamp
<1>2. now \in Nat /\ t \in Int /\ now - Skew <= t /\ t <= now + Skew
  BY <1>1, TokenAssumption DEF WindowInv, TokenTypeOK
<1>3. /\ pc[c] = "new" /\ pc' = [pc EXCEPT ![c] = "stamped"]
      /\ at' = [at EXCEPT ![c] = now] /\ UNCHANGED <<now, tokens, gone>>
  BY DEF Stamp, Goto
<1>4. pc \in [Call -> TokenState] /\ at \in [Call -> Nat] /\ stamp \in [Call -> Int]
  BY DEF WindowInv, TokenTypeOK
<1>5. pc'[c] = "stamped" /\ at'[c] = now /\ stamp'[c] = t
  BY <1>1, <1>3, <1>4
<1>6. \A d \in Call : d # c => pc'[d] = pc[d] /\ at'[d] = at[d] /\ stamp'[d] = stamp[d]
  BY <1>1, <1>3, <1>4
<1>7. \A d \in Call : pc'[d] = "passed" =>
          pc[d] = "passed" /\ at'[d] = at[d] /\ stamp'[d] = stamp[d]
  BY <1>5, <1>6
<1>8. Timely'
  BY <1>2, <1>3, <1>5, <1>6, TokenAssumption DEF WindowInv, Timely, Pending
<1>9. Recorded' /\ Kept'
  BY <1>3, <1>7 DEF WindowInv, Recorded, Kept
<1>10. WithinSpan'
  BY <1>3, <1>7, NobodyPasses
<1> QED
  BY <1>3, <1>8, <1>9, <1>10 DEF WindowInv

LEMMA DeniedStep ==
    ASSUME WindowInv, NEW c \in Call, Peek(c) \/ Extend(c) \/ Punish(c), TokenTypeOK'
    PROVE  WindowInv'
<1>1. UNCHANGED <<now, tokens, gone, stamp, at>>
  BY DEF Peek, Extend, Punish
<1>2. pc \in [Call -> TokenState]
  BY DEF WindowInv, TokenTypeOK
<1>3. \A d \in Call : d # c => pc'[d] = pc[d]
  BY <1>2 DEF Peek, Extend, Punish, Goto
<1>4. pc'[c] # "passed" /\ (Pending(c)' => Pending(c))
  BY <1>2 DEF Peek, Extend, Punish, Goto, Pending
<1>5. \A d \in Call : pc'[d] = "passed" => pc[d] = "passed"
  BY <1>3, <1>4
<1>6. Timely'
  <2>1. \A d \in Call : Pending(d)' => Pending(d)
    BY <1>3, <1>4 DEF Pending
  <2> QED
    BY <1>1, <2>1 DEF WindowInv, Timely
<1>7. Recorded' /\ Kept'
  BY <1>1, <1>5 DEF WindowInv, Recorded, Kept
<1>8. WithinSpan'
  BY <1>1, <1>5, NobodyPasses
<1> QED
  BY <1>1, <1>6, <1>7, <1>8 DEF WindowInv

(* The transaction: the calls let through in the span that ends now are in *)
(* the bucket, which is no larger than max_cps if it lets this one through. *)
LEMMA CountStep == ASSUME WindowInv, NEW c \in Call, Count(c), TokenTypeOK' PROVE WindowInv'
<1>1. /\ pc[c] = "count" /\ tokens' = Rolled(c) /\ gone' = now + 2 * Window
      /\ at' = [at EXCEPT ![c] = now] /\ UNCHANGED <<now, stamp>>
  BY DEF Count
<1>2. /\ pc \in [Call -> TokenState] /\ at \in [Call -> Nat] /\ stamp \in [Call -> Int]
      /\ now \in Nat /\ gone \in Nat
  BY DEF WindowInv, TokenTypeOK
<1>3. at'[c] = now /\ \A d \in Call : d # c => pc'[d] = pc[d] /\ at'[d] = at[d]
  BY <1>1, <1>2 DEF Count, Goto
<1>4. pc'[c] = IF Cardinality(tokens') > MaxCps THEN "over" ELSE "passed"
  BY <1>2 DEF Count, Goto
<1>5. /\ now <= at[c] + Delay /\ at[c] <= now
      /\ at[c] - Skew <= stamp[c] /\ stamp[c] <= at[c] + Skew
  BY <1>1 DEF WindowInv, Timely, Pending
<1>6. c \in tokens' /\ Cardinality(tokens') \in Nat /\ tokens' \subseteq Call
  BY <1>1, RolledType DEF Rolled, WindowInv
<1>7. ASSUME NEW d \in Call, d # c, pc[d] = "passed", now - Span < at[d]
      PROVE  d \in tokens'
  <2>1. d \in tokens
    BY <1>7 DEF WindowInv, Kept
  <2>2. at[d] + 2 * Window <= gone /\ at[d] - Delay - Skew <= stamp[d]
    BY <1>7 DEF WindowInv, Recorded
  <2>3. now <= gone
    BY <1>2, <1>7, <2>2, SpanType, TokenAssumption
  <2>4. stamp[d] > stamp[c] - Window
    BY <1>2, <1>5, <1>7, <2>2, TokenAssumption DEF Span
  <2> QED
    BY <1>1, <2>1, <2>3, <2>4 DEF Rolled
<1>8. Timely'
  <2>1. \A d \in Call : Pending(d)' => d # c /\ Pending(d)
    BY <1>3, <1>4 DEF Pending
  <2> QED
    BY <1>1, <1>3, <2>1 DEF WindowInv, Timely
<1>9. Recorded'
  <2> SUFFICES ASSUME NEW d \in Call, pc'[d] = "passed"
               PROVE  /\ at'[d] <= now'
                      /\ at'[d] - Delay - Skew <= stamp'[d]
                      /\ at'[d] + 2 * Window <= gone'
    BY DEF Recorded
  <2>1. CASE d = c
    BY <1>1, <1>2, <1>3, <1>5, <2>1, TokenAssumption
  <2>2. CASE d # c
    <3>1. pc[d] = "passed" /\ at'[d] = at[d] /\ gone <= gone'
      BY <1>1, <1>3, <2>2 DEF WindowInv
    <3>2. at[d] <= now /\ at[d] - Delay - Skew <= stamp[d] /\ at[d] + 2 * Window <= gone
      BY <3>1 DEF WindowInv, Recorded
    <3> QED
      BY <1>1, <1>2, <3>1, <3>2, TokenAssumption
  <2> QED
    BY <2>1, <2>2
<1>10. Kept'
  BY <1>1, <1>3, <1>6, <1>7 DEF Kept
<1>11. WithinSpan'
  <2> SUFFICES ASSUME NEW t \in 0..now, MaxCps >= 0
               PROVE  Cardinality(PassedIn(Span, t)') <= MaxCps
    BY <1>1 DEF WithinSpan
  <2>1. CASE t = now /\ pc'[c] = "passed"
    <3>1. ASSUME NEW d \in PassedIn(Span, t)' PROVE d \in tokens'
      <4>1. d \in Call /\ pc'[d] = "passed" /\ now - Span < at'[d]
        BY <2>1, <3>1 DEF PassedIn
      <4> QED
        BY <1>3, <1>6, <1>7, <4>1
    <3>2. IsFiniteSet(tokens')
      BY <1>6, FS_Subset, CallAssumption
    <3>3. /\ IsFiniteSet(PassedIn(Span, t)')
          /\ Cardinality(PassedIn(Span, t)') <= Cardinality(tokens')
      BY <3>1, <3>2, FS_Subset
    <3>4. Cardinality(tokens') <= MaxCps
      BY <1>4, <1>6, <2>1, TokenAssumption
    <3> QED
      BY <1>6, <3>3, <3>4, FS_CardinalityType, TokenAssumption
  <2>2. CASE ~(t = now /\ pc'[c] = "passed")
    <3>1. ASSUME NEW d \in PassedIn(Span, t)' PROVE d \in PassedIn(Span, t)
      <4>1. d \in Call /\ pc'[d] = "passed" /\ t - Span < at'[d] /\ at'[d] <= t
        BY <3>1 DEF PassedIn
      <4>2. d # c
        BY <1>2, <1>3, <2>2, <4>1
      <4> QED
        BY <1>3, <4>1, <4>2 DEF PassedIn
    <3>2. IsFiniteSet(PassedIn(Span, t))
      <4>1. PassedIn(Span, t) \subseteq Call
        BY DEF PassedIn
      <4> QED
        BY <4>1, FS_Subset, CallAssumption
    <3>3. /\ IsFiniteSet(PassedIn(Span, t)')
          /\ Cardinality(PassedIn(Span, t)') <= Cardinality(PassedIn(Span, t))
      BY <3>1, <3>2, FS_Subset
    <3>4. Cardinality(PassedIn(Span, t)') \in Nat /\ Cardinality(PassedIn(Span, t)) \in Nat
      BY <3>2, <3>3, FS_CardinalityType
    <3>5. Cardinality(PassedIn(Span, t)) <= MaxCps
      BY DEF WindowInv, WithinSpan
    <3> QED
      BY <3>3, <3>4, <3>5, TokenAssumption
  <2> QED
    BY <2>1, <2>2
<1>12. gone' <= now' + 2 * Window
  BY <1>1, <1>2, TokenAssumption
<1> QED
  BY <1>8, <1>9, <1>10, <1>11, <1>12 DEF WindowInv

LEMMA WindowStep == WindowInv /\ TokenTypeOK' /\ [TokenNext]_tokenVars => WindowInv'
<1> SUFFICES ASSUME WindowInv, TokenTypeOK', [TokenNext]_tokenVars PROVE WindowInv'
  OBVIOUS
<1>1. CASE TokenTick
  BY <1>1, TickStep
<1>2. ASSUME NEW c \in Call, Stamp(c) PROVE WindowInv'
  BY <1>2, StampStep
<1>3. ASSUME NEW c \in Call, Peek(c) \/ Extend(c) \/ Punish(c) PROVE WindowInv'
  BY <1>3, DeniedStep
<1>4. ASSUME NEW c \in Call, Count(c) PROVE WindowInv'
  BY <1>4, CountStep
<1>5. CASE UNCHANGED tokenVars
  <2>1. UNCHANGED <<now, tokens, gone, blocked, pc, stamp, at>>
    BY <1>5 DEF tokenVars
  <2>2. Timely' /\ Recorded' /\ Kept'
    BY <2>1 DEF WindowInv, Timely, Recorded, Kept, Pending
  <2>3. WithinSpan'
    BY <2>1, NobodyPasses
  <2> QED
    BY <2>1, <2>2, <2>3 DEF WindowInv
<1> QED
  BY <1>1, <1>2, <1>3, <1>4, <1>5 DEF TokenNext

(* verify_cps lets no more than max_cps calls through in any span of time  *)
(* shorter than the rolling window by the delay of a session and twice the *)
(* error of a clock, however the sessions of all nodes interleave.         *)
THEOREM RollingWindow == TokenSpec => []WithinSpan
<1>1. TokenInit => WindowInv
  BY WindowInit
<1>2. WindowInv /\ TokenTypeOK' /\ [TokenNext]_tokenVars => WindowInv'
  BY WindowStep
<1>3. WindowInv => WithinSpan
  BY DEF WindowInv
<1> QED
  BY <1>1, <1>2, <1>3, WindowTypeCorrect, PTL DEF TokenSpec
=============================================================================
