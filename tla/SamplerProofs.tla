---------------------------- MODULE SamplerProofs ----------------------------
(***************************************************************************)
(* For any number of slaves, of cycles and of bytes: the rates that        *)
(* metrics-agent sends are of bytes that were sent, --once ends with its   *)
(* value in Redis, and a scrape shows one cycle.                           *)
(***************************************************************************)
EXTENDS Sampler, SequenceTheorems, TLAPS

(* Readings are functions from some slaves to numbers.                       *)
Readings(f) == DOMAIN f \subseteq Names /\ f \in [DOMAIN f -> Nat]

Types ==
  /\ up \subseteq Names /\ steady \subseteq up /\ todo \subseteq Names
  /\ tx \in [Names -> Nat] /\ moved \in [Names -> Nat] /\ gap \in [Names -> Nat]
  /\ Readings(cur) /\ Readings(prev)

(* Outside a collect() there are no readings in hand. Within one, a slave     *)
(* whose counters only grew has been read or is about to be, and one that is  *)
(* gone gives no reading.                                                     *)
Collecting ==
  /\ pc # "stats" => cur = Nothing /\ todo = {} /\ steady \subseteq DOMAIN prev
  /\ todo \subseteq up \cup gone /\ todo \cap DOMAIN cur = {}
  /\ pc = "stats" => steady \subseteq DOMAIN cur \cup (todo \cap DOMAIN prev)

(* What a slave sent since its last reading accounts for its counter.         *)
SinceLast ==
  /\ \A n \in DOMAIN cur : /\ tx[n] <= cur[n] + moved[n]
                           /\ n \in steady => tx[n] = cur[n] + moved[n]
  /\ \A n \in DOMAIN prev \ DOMAIN cur : /\ tx[n] <= prev[n] + moved[n]
                                         /\ n \in steady => tx[n] = prev[n] + moved[n]

(* And what it sent between two readings, for their difference.               *)
InBetween ==
  \A n \in DOMAIN cur :
    /\ n \in DOMAIN prev => cur[n] <= prev[n] + gap[n]
    /\ n \in exact => n \in DOMAIN prev /\ cur[n] = prev[n] + gap[n]

RateInv == Types /\ Collecting /\ SinceLast /\ InBetween /\ RatesHonest

LEMMA InitRates == Init => RateInv
BY DEF Init, RateInv, Types, Readings, Collecting, SinceLast, InBetween, RatesHonest, Nothing, NoBytes

(* Docker's part: a counter grows with what its slave sends, or the slave is  *)
(* no longer one whose counters only grew.                                    *)
LEMMA DockerRates == RateInv /\ Docker => RateInv'
<1> SUFFICES ASSUME RateInv, Docker PROVE RateInv'
  OBVIOUS
<1> USE DEF RateInv, Types, dockerVars, loopVars
<1>1. UNCHANGED <<pc, todo, cur, prev, gap, exact, exported>>
  BY DEF Docker
<1>2. InBetween' /\ RatesHonest' /\ Readings(cur)' /\ Readings(prev)'
  BY <1>1 DEF InBetween, RatesHonest, Readings
<1>3. PICK n \in Names : Send(n) \/ Disconnect(n) \/ Stop(n) \/ Start(n) \/ Restart(n)
  BY DEF Docker
<1>4. CASE Send(n)
  <2>1. Types' /\ Collecting'
    BY <1>1, <1>2, <1>4 DEF Send, Collecting
  <2>2. SinceLast'
    BY <1>1, <1>4 DEF Send, SinceLast, Readings
  <2> QED BY <1>2, <2>1, <2>2
<1>5. CASE Disconnect(n)
  <2>1. PICK left \in 0..tx[n] : tx' = [tx EXCEPT ![n] = left]
    BY <1>5 DEF Disconnect
  <2>2. Types' /\ Collecting'
    BY <1>1, <1>2, <1>5, <2>1 DEF Disconnect, Collecting
  <2>3. SinceLast'
    BY <1>1, <1>5, <2>1 DEF Disconnect, SinceLast, Readings
  <2> QED BY <1>2, <2>2, <2>3
<1>6. CASE Stop(n)
  <2>1. Types' /\ Collecting'
    BY <1>1, <1>2, <1>6 DEF Stop, Collecting
  <2>2. SinceLast'
    BY <1>1, <1>6 DEF Stop, SinceLast, Readings
  <2> QED BY <1>2, <2>1, <2>2
<1>7. CASE Start(n)
  <2>1. Types' /\ Collecting'
    BY <1>1, <1>2, <1>7 DEF Start, Collecting
  <2>2. SinceLast'
    BY <1>1, <1>7 DEF Start, SinceLast, Readings
  <2> QED BY <1>2, <2>1, <2>2
<1>8. CASE Restart(n)
  <2>1. Types' /\ Collecting'
    BY <1>1, <1>2, <1>8 DEF Restart, Collecting
  <2>2. SinceLast'
    BY <1>1, <1>8 DEF Restart, SinceLast, Readings
  <2> QED BY <1>2, <2>1, <2>2
<1> QED BY <1>3, <1>4, <1>5, <1>6, <1>7, <1>8

(* A reading: the bytes sent so far become those of the gap.                  *)
LEMMA StatsRates == ASSUME NEW n \in Names PROVE RateInv /\ Stats(n) => RateInv'
<1> SUFFICES ASSUME RateInv, Stats(n) PROVE RateInv'
  OBVIOUS
<1> USE DEF RateInv, Types
<1>1. /\ pc = "stats" /\ pc' = "stats" /\ n \in todo /\ todo' = todo \ {n}
      /\ UNCHANGED <<up, tx, gone, prev, exported>>
  BY DEF Stats
<1>2. RatesHonest'
  BY <1>1 DEF RatesHonest
<1>3. CASE Read(n)
  <2>1. /\ cur' = [m \in DOMAIN cur \cup {n} |-> IF m = n THEN tx[n] ELSE cur[m]]
        /\ gap' = [gap EXCEPT ![n] = moved[n]] /\ moved' = [moved EXCEPT ![n] = 0]
        /\ exact' = IF n \in steady THEN exact \cup {n} ELSE exact \ {n}
        /\ steady' = steady \cup {n} /\ n \notin gone
    BY <1>3 DEF Read, Got
  <2>2. Types' /\ Collecting'
    BY <1>1, <2>1 DEF Collecting, Readings
  <2>3. SinceLast'
    BY <1>1, <2>1 DEF SinceLast, Readings
  <2>4. InBetween'
    BY <1>1, <2>1 DEF InBetween, SinceLast, Collecting, Readings
  <2> QED BY <1>2, <2>2, <2>3, <2>4
<1>4. CASE steady' = steady \ {n} /\ UNCHANGED <<cur, gap, moved, exact>>
  BY <1>1, <1>2, <1>4 DEF Collecting, SinceLast, InBetween, Readings
<1> QED BY <1>3, <1>4 DEF Stats

LEMMA ListRates == RateInv /\ List => RateInv'
<1> SUFFICES ASSUME RateInv, List PROVE RateInv'
  OBVIOUS
<1> USE DEF RateInv, Types
<1>1. UNCHANGED <<up, tx, prev, exported, moved, steady, gap, exact>> /\ pc = "list"
  BY DEF List
<1>2. cur = Nothing /\ todo = {} /\ steady \subseteq DOMAIN prev /\ pc' # "set"
      /\ cur' = Nothing
  BY <1>1 DEF List, Collecting
<1>3. RatesHonest'
  BY <1>2 DEF RatesHonest
<1>4. Types'
  BY <1>1, <1>2 DEF List
<1>5. Collecting'
  BY <1>1, <1>2 DEF List, Collecting, Nothing
<1>6. SinceLast' /\ InBetween'
  BY <1>1, <1>2 DEF SinceLast, InBetween, Nothing
<1> QED BY <1>3, <1>4, <1>5, <1>6

(* The end of measure(): the rates are honest, and the readings the next ones *)
(* to compare with.                                                           *)
LEMMA MeasuredRates == RateInv /\ Measured => RateInv'
<1> SUFFICES ASSUME RateInv, Measured PROVE RateInv'
  OBVIOUS
<1> USE DEF RateInv, Types
<1>1. /\ pc = "stats" /\ todo = {} /\ todo' = todo /\ prev' = cur /\ cur' = Nothing /\ gone' = {}
      /\ UNCHANGED <<up, tx, moved, steady>>
  BY DEF Measured
<1>2. pc' # "stats" /\ (pc' = "set" => exported'.rates = Rates /\ UNCHANGED <<gap, exact>>)
  BY DEF Measured
<1>3. gap' \in [Names -> Nat]
  BY DEF Measured, NoBytes
<1>4. Types'
  BY <1>1, <1>3 DEF Readings, Nothing
<1>5. Collecting'
  BY <1>1, <1>2 DEF Collecting, Nothing
<1>6. SinceLast' /\ InBetween'
  BY <1>1 DEF SinceLast, InBetween, Nothing
<1>7. ASSUME NEW n \in DOMAIN cur
      PROVE  Rates[n] <= gap[n] /\ (n \in exact => Rates[n] = gap[n])
  <2>1. cur[n] \in Nat /\ gap[n] \in Nat /\ (n \in DOMAIN prev => prev[n] \in Nat)
    BY DEF Readings
  <2>2. Rates[n] = IF n \in DOMAIN prev THEN Delta(cur[n], prev[n]) ELSE 0
    BY DEF Rates
  <2> QED BY <2>1, <2>2 DEF InBetween, Delta
<1>8. DOMAIN Rates = DOMAIN cur
  BY DEF Rates
<1>9. RatesHonest'
  BY <1>2, <1>7, <1>8 DEF RatesHonest
<1> QED BY <1>4, <1>5, <1>6, <1>9

LEMMA NextRates == RateInv /\ [Next]_vars => RateInv'
<1> SUFFICES ASSUME RateInv, [Next]_vars PROVE RateInv'
  OBVIOUS
<1>1. CASE Docker BY <1>1, DockerRates
<1>2. CASE List BY <1>2, ListRates
<1>3. ASSUME NEW n \in Names, Stats(n) PROVE RateInv' BY <1>3, StatsRates
<1>4. CASE Measured BY <1>4, MeasuredRates
<1>5. CASE Set
  <2>1. pc = "set" /\ pc' \in {"wait", "done"} /\ UNCHANGED <<up, tx, gone, moved, steady, todo, cur, prev>>
    BY <1>5 DEF Set, dockerVars
  <2>2. gap' \in [Names -> Nat] /\ exact' = {}
    BY <1>5 DEF Set, NoBytes
  <2>3. Types' BY <2>1, <2>2 DEF RateInv, Types, Readings
  <2>4. Collecting' /\ SinceLast' BY <2>1 DEF RateInv, Collecting, SinceLast
  <2>5. InBetween' /\ RatesHonest'
    BY <2>1, <2>2 DEF RateInv, InBetween, RatesHonest, Collecting, Nothing
  <2> QED BY <2>3, <2>4, <2>5 DEF RateInv
<1>6. ASSUME UNCHANGED <<up, tx, gone, moved, steady, todo, cur, prev, gap, exact, exported>>,
             pc' = pc \/ (pc # "stats" /\ pc' \notin {"stats", "set"})
      PROVE  RateInv'
  BY <1>6 DEF RateInv, Types, Readings, Collecting, SinceLast, InBetween, RatesHonest
<1>7. CASE Tick BY <1>6, <1>7 DEF Tick, dockerVars
<1>8. CASE Quit BY <1>6, <1>8 DEF Quit, dockerVars
<1>9. CASE Signal BY <1>6, <1>9 DEF Signal, dockerVars, loopVars
<1>10. CASE ScrapeBegins BY <1>6, <1>10 DEF ScrapeBegins, dockerVars, loopVars
<1>11. CASE ScrapeWrites BY <1>6, <1>11 DEF ScrapeWrites, dockerVars, loopVars
<1>12. CASE ScrapeEnds BY <1>6, <1>12 DEF ScrapeEnds, dockerVars, loopVars
<1>13. CASE Over \/ UNCHANGED vars BY <1>6, <1>13 DEF Over, vars, dockerVars, loopVars
<1>14. CASE LateApplied BY <1>6, <1>14 DEF LateApplied, dockerVars, loopVars
<1> QED BY <1>1, <1>2, <1>3, <1>4, <1>5, <1>7, <1>8, <1>9, <1>10, <1>11, <1>12, <1>13, <1>14
        DEF Next, Working

(* For every number of slaves: no rate is of more than was sent between its   *)
(* two readings, and a slave whose counters only grew has exactly that        *)
(* (main.go:208-224).                                                         *)
THEOREM RatesStayHonest == Spec => []RatesHonest
<1>1. RateInv => RatesHonest BY DEF RateInv
<1> QED BY <1>1, InitRates, NextRates, PTL DEF Spec

-----------------------------------------------------------------------------
(* --once.                                                                    *)
(* A cycle has failed only once its SET has, and only what failed is late.     *)
OnceInv ==
  /\ cycle \in Nat /\ failed \subseteq 1..cycle /\ \A v \in late : v.cycle \in failed
  /\ pc \in {"list", "stats", "set"} => cycle \notin failed
  /\ pc = "set" => exported.cycle = cycle /\ cycle # 0
  /\ OnceDelivers

LEMMA NextOnce == OnceInv /\ [Next]_vars => OnceInv'
<1> SUFFICES ASSUME OnceInv, [Next]_vars PROVE OnceInv'
  OBVIOUS
<1> USE DEF OnceInv
<1>1. CASE Set
  <2>1. pc = "set" /\ UNCHANGED <<once, cancelled, cycle, exported>> /\ Value' = Value
    BY <1>1 DEF Set, Value
  <2>2. CASE SetApplied /\ pc' = IF once THEN "done" ELSE "wait"
    BY <2>1, <2>2 DEF SetApplied, OnceDelivers
  <2>3. CASE SetFailed /\ pc' = "wait"
    <3>1. Value.cycle = exported.cycle
      BY DEF Value
    <3>2. \A v \in late' : v.cycle \in failed'
      BY <2>3, <3>1 DEF SetFailed
    <3>3. failed' \subseteq 1..cycle
      <4>1. exported.cycle \in 1..cycle
        BY <2>1
      <4> QED BY <2>3, <4>1 DEF SetFailed
    <3> QED BY <2>1, <2>3, <3>2, <3>3 DEF OnceDelivers
  <2> QED BY <1>1, <2>2, <2>3 DEF Set
<1>2. CASE LateApplied
  <2>1. PICK v \in late : key' = v /\ late' = late \ {v}
    BY <1>2 DEF LateApplied
  <2>2. UNCHANGED <<pc, once, cancelled, cycle, exported, failed>>
    BY <1>2 DEF LateApplied, loopVars
  <2> QED BY <2>1, <2>2 DEF OnceDelivers
<1>3. CASE Tick
  <2>1. UNCHANGED <<late, failed>> /\ cycle' = cycle + 1 /\ pc' = "list"
    BY <1>3 DEF Tick, redisVars
  <2>2. failed \subseteq 1..cycle + 1 /\ cycle + 1 \notin failed
    OBVIOUS
  <2> QED BY <2>1, <2>2 DEF OnceDelivers
<1>4. CASE Measured
  <2>1. UNCHANGED <<cycle, late, failed>> /\ pc = "stats" /\ pc' \in {"wait", "set"}
    BY <1>4 DEF Measured, redisVars
  <2>2. pc' = "set" => exported'.cycle = cycle /\ cycle # 0
    BY <1>4 DEF Measured
  <2> QED BY <2>1, <2>2 DEF OnceDelivers
<1>5. CASE List
  BY <1>5 DEF List, redisVars, OnceDelivers
<1>6. CASE Quit \/ Signal
  <2>1. UNCHANGED <<cycle, exported, late, failed>> /\ cancelled' /\ pc' \in {pc, "done"}
    BY <1>6 DEF Quit, Signal, redisVars, loopVars
  <2> QED BY <2>1 DEF OnceDelivers
<1>7. ASSUME UNCHANGED <<pc, once, cancelled, cycle, exported, redisVars>> PROVE OnceInv'
  BY <1>7 DEF redisVars, OnceDelivers, Value
<1>8. ASSUME NEW n \in Names, Stats(n) PROVE OnceInv'
  BY <1>7, <1>8 DEF Stats
<1>9. CASE Docker BY <1>7, <1>9 DEF Docker, loopVars
<1>10. CASE ScrapeBegins \/ ScrapeWrites \/ ScrapeEnds
  BY <1>7, <1>10 DEF ScrapeBegins, ScrapeWrites, ScrapeEnds, loopVars
<1>11. CASE Over \/ UNCHANGED vars BY <1>7, <1>11 DEF Over, vars, loopVars
<1> QED BY <1>1, <1>2, <1>3, <1>4, <1>5, <1>6, <1>8, <1>9, <1>10, <1>11 DEF Next, Working

LEMMA InitOnce == Init => OnceInv
BY DEF Init, OnceInv, OnceDelivers

(* An agent that ends without a signal has had its last cycle's total          *)
(* acknowledged; Redis holds it, or the total of a SET that had been given up  *)
(* in an earlier cycle (main.go:129-143).                                      *)
THEOREM OnceAlwaysDelivers == Spec => []OnceDelivers
<1>1. OnceInv => OnceDelivers BY DEF OnceInv
<1> QED BY <1>1, InitOnce, NextOnce, PTL DEF Spec

-----------------------------------------------------------------------------
(* Every line of a scrape is of what ServeHTTP read under its lock.           *)
OneCycle == scrape.lines \in Seq({scrape.snap})

LEMMA OneCycleShown == OneCycle => ScrapeOneCycle
<1> SUFFICES ASSUME OneCycle, NEW line \in Range(scrape.lines) PROVE line = scrape.lines[1]
  BY DEF ScrapeOneCycle
<1> QED BY ElementOfSeq, LenProperties DEF OneCycle, Range

LEMMA NextOneCycle == OneCycle /\ [Next]_vars => OneCycle'
<1> SUFFICES ASSUME OneCycle, [Next]_vars PROVE OneCycle'
  OBVIOUS
<1>1. CASE ScrapeBegins BY <1>1 DEF ScrapeBegins, OneCycle
<1>2. CASE ScrapeWrites
  <2>1. scrape' = [scrape EXCEPT !.lines = Append(@, scrape.snap)]
    BY <1>2 DEF ScrapeWrites
  <2>2. Append(scrape.lines, scrape.snap) \in Seq({scrape.snap})
    BY AppendProperties DEF OneCycle
  <2>3. scrape'.lines = Append(scrape.lines, scrape.snap) /\ scrape'.snap = scrape.snap
    BY <2>1 DEF OneCycle
  <2> QED BY <2>2, <2>3 DEF OneCycle
<1>3. CASE ScrapeEnds BY <1>3 DEF ScrapeEnds, NoScrape, OneCycle
<1>4. ASSUME scrape' = scrape PROVE OneCycle' BY <1>4 DEF OneCycle
<1>5. CASE Docker BY <1>4, <1>5 DEF Docker
<1>6. ASSUME NEW n \in Names, Stats(n) PROVE OneCycle' BY <1>4, <1>6 DEF Stats
<1>7. CASE List \/ Measured \/ Set BY <1>4, <1>7 DEF List, Measured, Set
<1>8. CASE Tick \/ Signal \/ Quit \/ LateApplied
  BY <1>4, <1>8 DEF Tick, Signal, Quit, LateApplied
<1>9. CASE Over \/ UNCHANGED vars BY <1>4, <1>9 DEF Over, vars
<1> QED BY <1>1, <1>2, <1>3, <1>5, <1>6, <1>7, <1>8, <1>9 DEF Next, Working

(* A scrape never mixes two cycles, however often the loop replaces the        *)
(* samples while it writes (metrics.go:44-48, 71-73).                          *)
THEOREM ScrapesShowOneCycle == Spec => []ScrapeOneCycle
<1>1. Init => OneCycle BY DEF Init, NoScrape, OneCycle
<1> QED BY <1>1, NextOneCycle, OneCycleShown, PTL DEF Spec

-----------------------------------------------------------------------------
(* Types and bounds.                                                          *)
Held == UNION {[S -> 0..MaxSent] : S \in SUBSET Names}
Shown == [cycle : 0..MaxCycles, rates : Held]

BoundInv ==
  /\ tx \in [Names -> 0..MaxSent] /\ cycle \in 0..MaxCycles
  /\ pc \in {"list", "stats", "set", "wait", "done"} /\ {once, cancelled} \subseteq BOOLEAN
  /\ gone \subseteq Names /\ exact \subseteq Names
  /\ cur \in Held /\ prev \in Held
  /\ exported \in Shown /\ scrape.snap \in Shown

LEMMA HeldIs ==
  ASSUME NEW f, DOMAIN f \subseteq Names, f = [n \in DOMAIN f |-> f[n]],
         \A n \in DOMAIN f : f[n] \in 0..MaxSent
  PROVE  f \in Held
<1>1. f \in [DOMAIN f -> 0..MaxSent]
  <2> DEFINE D == DOMAIN f
  <2>1. f = [n \in D |-> f[n]] /\ \A n \in D : f[n] \in 0..MaxSent
    OBVIOUS
  <2> HIDE DEF D
  <2>2. [n \in D |-> f[n]] \in [D -> 0..MaxSent]
    BY <2>1
  <2> QED BY <2>1, <2>2 DEF D
<1> QED BY <1>1 DEF Held

LEMMA HeldFields ==
  ASSUME NEW f \in Held
  PROVE  /\ DOMAIN f \subseteq Names /\ \A n \in DOMAIN f : f[n] \in 0..MaxSent
         /\ f = [n \in DOMAIN f |-> f[n]]
<1>1. PICK S \in SUBSET Names : f \in [S -> 0..MaxSent]
  BY DEF Held
<1> QED BY <1>1

LEMMA NothingHeld == Nothing \in Held
<1>1. DOMAIN Nothing = {} /\ Nothing = [n \in DOMAIN Nothing |-> Nothing[n]]
  BY DEF Nothing
<1> QED BY <1>1, HeldIs

LEMMA RatesHeld ==
  ASSUME cur \in Held, prev \in Held PROVE Rates \in Held
<1> DEFINE r == Rates
<1>1. DOMAIN r = DOMAIN cur /\ r = [n \in DOMAIN r |-> r[n]]
  BY DEF Rates
<1>2. ASSUME NEW n \in DOMAIN cur PROVE r[n] \in 0..MaxSent
  <2>1. r[n] = IF n \in DOMAIN prev THEN Delta(cur[n], prev[n]) ELSE 0
    BY DEF Rates
  <2>2. /\ cur[n] \in 0..MaxSent
        /\ n \in DOMAIN prev => prev[n] \in 0..MaxSent
    BY HeldFields
  <2> HIDE DEF r
  <2> QED BY <2>1, <2>2, SamplerAssumption DEF Delta
<1>3. DOMAIN cur \subseteq Names
  BY HeldFields
<1> HIDE DEF r
<1>4. r \in Held
  BY <1>1, <1>2, <1>3, HeldIs
<1> QED BY <1>4 DEF r

LEMMA InitBound == Init => BoundInv
<1>1. 0 \in 0..MaxSent /\ 0 \in 0..MaxCycles
  BY SamplerAssumption
<1>2. [n \in Names |-> 0] \in [Names -> 0..MaxSent]
  BY <1>1
<1>3. [cycle |-> 0, rates |-> Nothing] \in Shown
  BY <1>1, NothingHeld DEF Shown
<1> SUFFICES ASSUME Init PROVE BoundInv
  OBVIOUS
<1>4. tx \in [Names -> 0..MaxSent]
  BY <1>2 DEF Init, NoBytes
<1>5. exported \in Shown /\ scrape.snap \in Shown
  BY <1>3 DEF Init, NoScrape
<1> QED BY <1>1, <1>4, <1>5, NothingHeld DEF Init, BoundInv

LEMMA DockerBound == RateInv /\ BoundInv /\ Docker => BoundInv'
<1> SUFFICES ASSUME RateInv, BoundInv, Docker PROVE BoundInv'
  OBVIOUS
<1>1. UNCHANGED <<pc, once, cancelled, cycle, cur, prev, exact, exported, scrape>>
  BY DEF Docker, loopVars
<1>2. PICK n \in Names : Send(n) \/ Disconnect(n) \/ Stop(n) \/ Start(n) \/ Restart(n)
  BY DEF Docker
<1>3. gone' \subseteq Names
  BY <1>2 DEF Send, Disconnect, Stop, Start, Restart, BoundInv
<1>4. tx' \in [Names -> 0..MaxSent]
  <2>1. tx \in [Names -> 0..MaxSent] /\ tx[n] \in 0..MaxSent /\ MaxSent \in Nat
    BY SamplerAssumption DEF BoundInv
  <2>2. CASE Send(n) BY <2>1, <2>2 DEF Send
  <2>3. CASE Disconnect(n)
    <3>1. PICK left \in 0..tx[n] : tx' = [tx EXCEPT ![n] = left]
      BY <2>3 DEF Disconnect
    <3>2. left \in 0..MaxSent
      BY <2>1
    <3> QED BY <2>1, <3>1, <3>2
  <2>4. CASE Stop(n) \/ Start(n) \/ Restart(n)
    BY <2>1, <2>4 DEF Stop, Start, Restart
  <2> QED BY <1>2, <2>2, <2>3, <2>4
<1> QED BY <1>1, <1>3, <1>4 DEF BoundInv

LEMMA ReadHeld ==
  ASSUME RateInv, BoundInv, NEW n \in Names, Read(n) PROVE cur' \in Held
<1>1. cur' = [m \in DOMAIN cur \cup {n} |-> IF m = n THEN tx[n] ELSE cur[m]]
  BY DEF Read
<1>2. cur \in Held /\ tx[n] \in 0..MaxSent
  BY DEF BoundInv
<1>3. \A m \in DOMAIN cur : m \in Names /\ cur[m] \in 0..MaxSent
  BY <1>2, HeldFields
<1>4. /\ DOMAIN cur' \subseteq Names /\ cur' = [m \in DOMAIN cur' |-> cur'[m]]
      /\ \A m \in DOMAIN cur' : cur'[m] \in 0..MaxSent
  BY <1>1, <1>2, <1>3
<1> QED BY <1>4, HeldIs

LEMMA LoopBound ==
  ASSUME RateInv, BoundInv, List \/ (\E n \in Names : Stats(n)) \/ Measured \/ Set \/ Tick \/ Quit
  PROVE  BoundInv'
<1>1. CASE List
  BY <1>1, NothingHeld DEF List, BoundInv
<1>2. ASSUME NEW n \in Names, Stats(n) PROVE BoundInv'
  <2>1. UNCHANGED <<tx, pc, once, cancelled, cycle, gone, prev, exported, scrape>>
    BY <1>2 DEF Stats
  <2>2. cur' \in Held /\ exact' \subseteq Names
    BY <1>2, ReadHeld DEF Stats, Read, BoundInv
  <2> QED BY <2>1, <2>2 DEF BoundInv
<1>3. CASE Measured
  <2>1. /\ UNCHANGED <<tx, once, cancelled, cycle, scrape>> /\ gone' = {}
        /\ cur' = Nothing /\ prev' = cur /\ pc' \in {"wait", "set"} /\ exact' \subseteq Names
    BY <1>3 DEF Measured, BoundInv
  <2>2. exported' \in Shown
    <3>1. Rates \in Held
      BY RatesHeld DEF BoundInv
    <3>2. exported' = exported \/ exported' = [cycle |-> cycle, rates |-> Rates]
      BY <1>3 DEF Measured
    <3> QED BY <3>1, <3>2 DEF BoundInv, Shown
  <2> QED BY <2>1, <2>2, NothingHeld DEF BoundInv
<1>4. CASE Set
  BY <1>4 DEF Set, BoundInv, dockerVars
<1>5. CASE Tick
  <2>1. cycle + 1 \in 0..MaxCycles
    BY <1>5, SamplerAssumption DEF Tick, BoundInv
  <2> QED BY <1>5, <2>1 DEF Tick, BoundInv, dockerVars
<1>6. CASE Quit
  BY <1>6 DEF Quit, BoundInv, dockerVars
<1> QED BY <1>1, <1>2, <1>3, <1>4, <1>5, <1>6

LEMMA NextBound == RateInv /\ OneCycle /\ BoundInv /\ [Next]_vars => BoundInv'
<1> SUFFICES ASSUME RateInv, OneCycle, BoundInv, [Next]_vars PROVE BoundInv'
  OBVIOUS
<1>1. CASE Signal \/ LateApplied
  BY <1>1 DEF Signal, LateApplied, BoundInv, dockerVars, loopVars
<1>2. CASE ScrapeBegins BY <1>2 DEF ScrapeBegins, BoundInv, dockerVars, loopVars
<1>3. CASE ScrapeWrites
  <2>1. scrape'.snap = scrape.snap
    BY <1>3 DEF ScrapeWrites, OneCycle
  <2> QED BY <1>3, <2>1 DEF ScrapeWrites, BoundInv, dockerVars, loopVars
<1>4. CASE ScrapeEnds
  <2>1. scrape'.snap = [cycle |-> 0, rates |-> Nothing]
    BY <1>4 DEF ScrapeEnds, NoScrape
  <2>2. 0 \in 0..MaxCycles
    BY SamplerAssumption
  <2>3. scrape'.snap \in Shown
    BY <2>1, <2>2, NothingHeld DEF Shown
  <2> QED BY <1>4, <2>3 DEF ScrapeEnds, BoundInv, dockerVars, loopVars
<1>5. CASE Over \/ UNCHANGED vars
  BY <1>5 DEF Over, vars, dockerVars, loopVars, BoundInv
<1> QED BY <1>1, <1>2, <1>3, <1>4, <1>5, DockerBound, LoopBound DEF Next, Working

(* Counters, rates and cycles stay within what the slaves sent, and slaves    *)
(* that are still to be asked are those of a running collect(): the sampler   *)
(* never carries one over (main.go:161-224).                                  *)
THEOREM SamplerTypeCorrect == Spec => []TypeOK
<1>1. RateInv /\ OneCycle /\ OnceInv /\ BoundInv => TypeOK
  <2> SUFFICES ASSUME RateInv, OneCycle, OnceInv, BoundInv PROVE TypeOK
    OBVIOUS
  <2>1. Range(scrape.lines) \subseteq {scrape.snap}
    BY ElementOfSeq, LenProperties DEF OneCycle, Range
  <2>2. failed \subseteq 1..MaxCycles /\ {v.cycle : v \in late} \subseteq failed
    BY SamplerAssumption DEF OnceInv, BoundInv
  <2> QED BY <2>1, <2>2 DEF TypeOK, RateInv, Types, Collecting, BoundInv, Held, Shown
<1>2. Init => OneCycle BY DEF Init, NoScrape, OneCycle
<1> QED BY <1>1, <1>2, InitRates, InitBound, InitOnce, NextRates, NextOneCycle, NextOnce, NextBound, PTL DEF Spec
=============================================================================
