--------------------------- MODULE AgentKeyProofs ---------------------------
(***************************************************************************)
(* For every interval and every bound on a cycle: the value behind a       *)
(* living key is fresh, and a key outlives a skipped cycle unless a cycle  *)
(* was slow.                                                               *)
(***************************************************************************)
EXTENDS AgentKey, Integers, TLAPS

(* The expiry is a number of units; nothing else is needed of its rounding.  *)
LEMMA TTLNat == TTL \in Nat
BY AgentKeyAssumption DEF TTL, ttlFactor

LEMMA OlderThan == ASSUME NEW a \in 0..Oldest
                   PROVE  Older(a) \in 0..Oldest /\ Older(a) <= a + 1
BY TTLNat, AgentKeyAssumption DEF Older, Oldest

(* A SET under way ages with its readings.                                  *)
LEMMA LateAges ==
  ASSUME late \subseteq [age : 0..MaxBusy + MaxLate, wait : 0..MaxLate],
         \A l \in late : l.age <= l.wait + MaxBusy /\ l.wait < MaxLate
  PROVE  LET aged == {Aged(l) : l \in late}
         IN  /\ aged \subseteq [age : 0..MaxBusy + MaxLate, wait : 0..MaxLate]
             /\ \A l \in aged : l.age <= l.wait + MaxBusy
BY AgentKeyAssumption DEF Aged

IndInv == TypeOK /\ FreshKey

LEMMA InitFresh == Init => IndInv
<1> SUFFICES ASSUME Init PROVE IndInv
  OBVIOUS
<1> USE TTLNat, AgentKeyAssumption DEF Init
<1>1. tick \in 1..Interval BY SMT
<1>2. age \in 0..Oldest /\ ttl \in 0..TTL BY DEF Oldest
<1>3. busy \in 0..MaxBusy /\ sample \in 0..busy /\ skipped \in 0..3
  OBVIOUS
<1>4. ticked \in BOOLEAN /\ slow \in BOOLEAN BY Zenon
<1>5. FreshKey BY DEF FreshKey
<1>6. late = {} OBVIOUS
<1> QED BY <1>1, <1>2, <1>3, <1>4, <1>5, <1>6 DEF IndInv, TypeOK

LEMMA NextFresh == IndInv /\ [Next]_vars => IndInv'
<1> SUFFICES ASSUME IndInv, [Next]_vars PROVE IndInv'
  OBVIOUS
<1> USE TTLNat, AgentKeyAssumption DEF IndInv, TypeOK, FreshKey
<1>1. CASE Pass
  <2>1. /\ Older(sample) \in 0..Oldest /\ Older(sample) <= sample + 1
        /\ Older(age) \in 0..Oldest /\ Older(age) <= age + 1
    BY OlderThan DEF Oldest
  <2>2. /\ late' \subseteq [age : 0..MaxBusy + MaxLate, wait : 0..MaxLate]
        /\ \A l \in late' : l.age <= l.wait + MaxBusy
    BY <1>1, LateAges DEF Pass
  <2>3. TypeOK' BY <1>1, <2>1, <2>2 DEF Pass, Oldest
  <2>4. FreshKey' BY <1>1, <2>1 DEF Pass
  <2> QED BY <2>3, <2>4
<1>2. CASE Begin BY <1>2 DEF Begin
<1>3. CASE MeasureFails BY <1>3 DEF MeasureFails, Skip
<1>4. CASE Measured BY <1>4 DEF Measured
<1>5. CASE Applied BY <1>5 DEF Applied, Oldest, TooLong
<1>6. CASE SetFails BY <1>6 DEF SetFails, Skip
<1>7. CASE Replied BY <1>7 DEF Replied
<1>8. CASE Die BY <1>8 DEF Die
<1>9. CASE SetGivenUp
  <2>1. [age |-> sample, wait |-> 0] \in [age : 0..MaxBusy + MaxLate, wait : 0..MaxLate]
    OBVIOUS
  <2> QED BY <1>9, <2>1 DEF SetGivenUp, Skip
<1>10. CASE LateApplied
  <2>1. PICK l \in late : ttl' = TTL /\ age' = l.age /\ late' = late \ {l}
    BY <1>10 DEF LateApplied
  <2>2. l.age \in 0..MaxBusy + MaxLate
    BY <2>1
  <2> QED BY <1>10, <2>1, <2>2 DEF LateApplied, Oldest
<1>11. CASE LateLost BY <1>11 DEF LateLost
<1>12. CASE UNCHANGED vars BY <1>12 DEF vars
<1> QED BY <1>1, <1>2, <1>3, <1>4, <1>5, <1>6, <1>7, <1>8, <1>9, <1>10, <1>11, <1>12 DEF Next

(* Reachable states are well-typed (main.go:104-145).                         *)
THEOREM KeyTypeCorrect == Spec => []TypeOK
<1>1. IndInv => TypeOK BY DEF IndInv
<1> QED BY <1>1, InitFresh, NextFresh, PTL DEF Spec

(* A living key is never backed by readings older than the key, one cycle and *)
(* the life of a SET given up: what main.go:8-9 promises consumers, for every *)
(* interval.                                                                  *)
THEOREM KeyStaysFresh == Spec => []FreshKey
<1>1. IndInv => FreshKey BY DEF IndInv
<1> QED BY <1>1, InitFresh, NextFresh, PTL DEF Spec

-----------------------------------------------------------------------------
(* What the expiry leaves beyond two intervals, short of one unit: the most a *)
(* quick cycle takes. EX takes whole seconds and an interval has at least one, *)
(* so it is no negative number, and less than an interval.                    *)
Spare == TTL - 2 * Interval - 1

LEMMA SpareFits ==
  /\ Spare \in Nat /\ Spare < Interval /\ TTL = 2 * Interval + Spare + 1
  /\ \A b \in Nat : TooLong(b) <=> b > Spare
<1>1. ASSUME NEW n \in Nat, NEW d \in Nat \ {0}
      PROVE  (n \div d) * d \in Nat /\ (n \div d) * d <= n /\ n < (n \div d) * d + d
  OBVIOUS
<1>2. TTL <= 3 * Interval /\ 3 * Interval < TTL + Second
  BY <1>1, AgentKeyAssumption DEF TTL, ttlFactor
<1> QED BY <1>2, TTLNat, AgentKeyAssumption DEF Spare, TooLong

Cycle == {"measure", "send", "reply"}

\* A tick waits within a cycle only if one fell within it; a cycle that has not
\* been slow is quick.
InStep == /\ pc \in Cycle /\ ticked => tick + busy > Interval
          /\ pc \in Cycle /\ ~slow => busy <= Spare
          /\ pc = "reply" => skipped = 0

(* The time a living key has left covers what is left of the cycles up to the *)
(* next write, if one cycle at most is skipped: each takes no more than Spare, *)
(* and begins with a tick or, when that has come already, at once. A SET that *)
(* comes late only lengthens it.                                              *)
Covered ==
  ttl > 0 /\ pc # "dead" /\ ~slow =>
    /\ skipped = 1 => /\ pc = "wait" /\ ticked => ttl > Spare
                      /\ pc = "wait" /\ ~ticked => ttl > tick + Spare
                      /\ pc \in {"measure", "send"} => ttl + busy > Spare
    /\ skipped = 0 => /\ pc = "wait" /\ ticked => ttl > tick + Spare /\ ttl > 2 * Spare
                      /\ pc = "wait" /\ ~ticked => ttl > tick + Interval + Spare
                      /\ pc \in {"measure", "send"} => /\ ttl + busy > 2 * Spare
                                                       /\ ~ticked => ttl > tick + Spare
                      /\ pc = "reply" => /\ ttl + busy > 3 * Spare
                                         /\ ticked => ttl > tick + Spare
                                         /\ ~ticked => ttl > tick + Interval + Spare

SurviveInv == TypeOK /\ InStep /\ Covered

LEMMA InitCovered == Init => InStep /\ Covered
BY DEF Init, InStep, Covered, Cycle

LEMMA NextCovered == SurviveInv /\ [Next]_vars => (InStep /\ Covered)'
<1> SUFFICES ASSUME SurviveInv, [Next]_vars PROVE (InStep /\ Covered)'
  OBVIOUS
<1>0. /\ \A b \in Nat : TooLong(b) <=> b > Spare
      /\ Spare \in Nat /\ Interval \in Nat /\ Spare < Interval /\ TTL = 2 * Interval + Spare + 1
  BY SpareFits, AgentKeyAssumption
<1> USE DEF SurviveInv, TypeOK, InStep, Covered, Cycle
<1>1. CASE Pass
  <2>1. CASE pc \in Cycle
    <3>1. /\ busy' = busy + 1 /\ pc' = pc /\ skipped' = skipped
          /\ ttl' = (IF ttl = 0 THEN 0 ELSE ttl - 1)
          /\ ticked' = (ticked \/ tick = 1) /\ tick' = (IF tick = 1 THEN Interval ELSE tick - 1)
      BY <1>1, <2>1 DEF Pass
    <3>2. ~slow' => ~slow /\ busy' <= Spare
      <4>1. busy' \in Nat
        BY <3>1
      <4>2. slow' = (slow \/ TooLong(busy'))
        BY <1>1, <2>1 DEF Pass
      <4>3. ~slow' => ~slow /\ ~TooLong(busy')
        BY <4>2, Zenon
      <4>4. ~TooLong(busy') => busy' <= Spare
        BY <1>0, <4>1
      <4> QED BY <4>3, <4>4
    <3>3. InStep'
      BY <1>0, <2>1, <3>1, <3>2
    <3>4. CASE tick = 1
      <4>1. ticked' = TRUE /\ tick' = Interval
        BY <3>1, <3>4
      <4>2. ~slow' => ~ticked
        BY <1>0, <2>1, <3>1, <3>2, <3>4
      <4>3. Covered'
        BY <1>0, <2>1, <3>1, <3>2, <3>4, <4>1, <4>2
      <4> QED BY <3>3, <4>3
    <3>5. CASE tick # 1
      <4>1. ticked' = ticked /\ tick' = tick - 1
        BY <3>1, <3>5
      <4>2. Covered'
        BY <1>0, <2>1, <3>1, <3>2, <3>5, <4>1
      <4> QED BY <3>3, <4>2
    <3> QED BY <3>4, <3>5
  <2>2. CASE pc = "wait"
    <3>1. /\ pc' = pc /\ skipped' = skipped /\ slow' = slow /\ ~ticked
          /\ ttl' = (IF ttl = 0 THEN 0 ELSE ttl - 1)
          /\ ticked' = (tick = 1) /\ tick' = (IF tick = 1 THEN Interval ELSE tick - 1)
      BY <1>1, <2>2 DEF Pass
    <3>2. InStep'
      BY <2>2, <3>1
    <3>3. CASE tick = 1
      <4>1. ticked' = TRUE /\ tick' = Interval
        BY <3>1, <3>3
      <4>2. Covered'
        BY <1>0, <2>2, <3>1, <3>3, <4>1
      <4> QED BY <3>2, <4>2
    <3>4. CASE tick # 1
      <4>1. ticked' = FALSE /\ tick' = tick - 1
        BY <3>1, <3>4
      <4>2. Covered'
        BY <1>0, <2>2, <3>1, <3>4, <4>1
      <4> QED BY <3>2, <4>2
    <3> QED BY <3>3, <3>4
  <2>3. CASE pc = "dead" BY <1>1, <2>3 DEF Pass
  <2> QED BY <2>1, <2>2, <2>3
<1>2. CASE Begin BY <1>0, <1>2 DEF Begin
<1>3. CASE MeasureFails BY <1>0, <1>3 DEF MeasureFails, Skip
<1>4. CASE Measured BY <1>0, <1>4 DEF Measured
<1>5. CASE Applied BY <1>0, <1>5 DEF Applied
<1>6. CASE SetFails BY <1>0, <1>6 DEF SetFails, Skip
<1>7. CASE Replied BY <1>0, <1>7 DEF Replied
<1>8. CASE Die BY <1>8 DEF Die
<1>9. CASE SetGivenUp BY <1>0, <1>9 DEF SetGivenUp, Skip
<1>10. CASE LateApplied BY <1>0, <1>10 DEF LateApplied
<1>11. CASE LateLost BY <1>11 DEF LateLost
<1>12. CASE UNCHANGED vars BY <1>12 DEF vars
<1> QED BY <1>1, <1>2, <1>3, <1>4, <1>5, <1>6, <1>7, <1>8, <1>9, <1>10, <1>11, <1>12 DEF Next

LEMMA StepSurvives ==
  SurviveInv /\ [Next]_vars => [Expires /\ pc' # "dead" => skipped' >= 2 \/ slow']_vars
<1> SUFFICES ASSUME SurviveInv, Next, Expires, pc' # "dead", ~(skipped' >= 2), ~slow' PROVE FALSE
  BY DEF vars
<1>0. Spare \in Nat /\ Interval \in Nat /\ \A b \in Nat : TooLong(b) <=> b > Spare
  BY SpareFits, AgentKeyAssumption
<1> USE DEF SurviveInv, TypeOK, Expires
<1>1. CASE Pass
  <2>1. ttl = 1 /\ pc' = pc /\ skipped \in {0, 1} /\ ~slow /\ ~(pc = "wait" /\ ticked)
    BY <1>1 DEF Pass
  <2>2. pc \in Cycle => busy + 1 <= Spare
    <3>1. pc \in Cycle => busy' = busy + 1 /\ ~TooLong(busy')
      BY <1>1 DEF Pass, Cycle
    <3> QED BY <1>0, <3>1
  <2> QED BY <1>0, <2>1, <2>2 DEF Covered, InStep, Cycle
<1>2. CASE ~Pass
  BY <1>2, TTLNat, SpareFits, AgentKeyAssumption DEF Next, Begin, MeasureFails, Measured, Applied,
     SetFails, SetGivenUp, LateApplied, LateLost, Replied, Die
<1> QED BY <1>1, <1>2

(* For every interval of a second or more and every bound on cycles, whether  *)
(* they fit into the interval or drop ticks: a key expires under a living     *)
(* agent only after two cycles without a write or a slow one (main.go:35).    *)
THEOREM KeyOutlivesOneSkip == Spec => KeySurvivesOneSkip
<1>1. Init => SurviveInv
  BY InitFresh, InitCovered DEF IndInv, SurviveInv
<1>2. IndInv /\ SurviveInv /\ [Next]_vars => SurviveInv'
  BY NextFresh, NextCovered DEF IndInv, SurviveInv
<1> QED BY <1>1, <1>2, InitFresh, NextFresh, StepSurvives, PTL DEF Spec, KeySurvivesOneSkip
=============================================================================
