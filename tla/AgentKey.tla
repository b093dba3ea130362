------------------------------ MODULE AgentKey ------------------------------
(***************************************************************************)
(* metrics-agent in time: the ticker, the cycle it starts, and the life of *)
(* the Redis key that SET ... EX leaves behind. Time is counted in units,  *)
(* Second of them a second. A reading of the clock is the time since.      *)
(***************************************************************************)
EXTENDS Naturals

CONSTANTS Second,    \* units in a second
          Interval,  \* --interval
          MaxBusy,   \* the longest a cycle takes: Docker's answers and Redis's,
                     \* --timeout for each, whatever the interval
          MaxLate    \* the longest a SET is under way after Set gave it up

ASSUME AgentKeyAssumption ==
  /\ Second \in Nat \ {0} /\ Interval \in Nat /\ MaxBusy \in Nat /\ MaxLate \in Nat
  /\ Interval >= Second   \* parseFlags refuses a shorter one

VARIABLES
  pc,        \* where run() is: wait, measure, send, reply, dead
  tick,      \* time to the next tick
  ticked,    \* the ticker's channel, which holds one tick
  busy,      \* time since the cycle began
  sample,    \* age of the readings in hand
  ttl,       \* time the key has left; 0: no key
  late,      \* SETs given up that may still reach Redis, each on a connection
             \* of its own: the age of its readings, and the time since
  age,       \* history: age of the readings behind the key
  skipped,   \* history: cycles since the last one that wrote the key
  slow       \* history: that one or a later one, so far, took too long

vars == <<pc, tick, ticked, busy, sample, ttl, late, age, skipped, slow>>

ttlFactor == 3

\* int(ttl.Seconds()): EX takes whole seconds.
TTL == ((Interval * ttlFactor) \div Second) * Second

\* The expiry is of two intervals and this: a cycle of b units uses it up.
TooLong(b) == 2 * Interval + b >= TTL

Oldest == TTL + MaxBusy + MaxLate + 1   \* where ages stop counting
Older(a) == IF a < Oldest THEN a + 1 ELSE a

Init == /\ pc = "wait" /\ tick = Interval /\ ticked = FALSE
        /\ busy = 0 /\ sample = 0 /\ ttl = 0 /\ late = {} /\ age = 0
        /\ skipped = 0 /\ slow = FALSE

Aged(l) == [age |-> l.age + 1, wait |-> l.wait + 1]

\* One unit of time. The agent does not sleep through a tick, no cycle outlasts
\* its timeouts, and no SET is under way longer than TCP keeps it; a tick that
\* finds the channel full is dropped.
Pass ==
  /\ ~(pc = "wait" /\ ticked)
  /\ pc \in {"measure", "send", "reply"} => busy < MaxBusy
  /\ \A l \in late : l.wait < MaxLate
  /\ tick' = IF tick = 1 THEN Interval ELSE tick - 1
  /\ ticked' = (ticked \/ tick = 1)
  /\ busy' = IF pc \in {"wait", "dead"} THEN 0 ELSE busy + 1
  /\ sample' = IF pc \in {"send", "reply"} THEN Older(sample) ELSE 0
  /\ ttl' = IF ttl = 0 THEN 0 ELSE ttl - 1
  /\ late' = {Aged(l) : l \in late}
  /\ age' = IF ttl <= 1 THEN 0 ELSE Older(age)
  /\ slow' = (slow \/ (pc \in {"measure", "send", "reply"} /\ TooLong(busy')))
  /\ UNCHANGED <<pc, skipped>>

Begin ==
  /\ pc = "wait" /\ ticked
  /\ pc' = "measure" /\ ticked' = FALSE /\ busy' = 0
  /\ UNCHANGED <<tick, sample, ttl, late, age, skipped, slow>>

\* The cycle ends without a write: skipped counts up to 3.
Skip == skipped' = IF skipped < 3 THEN skipped + 1 ELSE 3

\* measure() fails or finds no slave.
MeasureFails ==
  /\ pc = "measure"
  /\ pc' = "wait" /\ busy' = 0 /\ Skip
  /\ UNCHANGED <<tick, ticked, sample, ttl, late, age, slow>>

\* measure() has its readings and goes on to rdb.Set.
Measured ==
  /\ pc = "measure"
  /\ pc' = "send" /\ sample' = 0
  /\ UNCHANGED <<tick, ticked, busy, ttl, late, age, skipped, slow>>

\* Mutated: a SET that keeps a living key's value and only renews its expiry.
AppliedRenews ==
  /\ pc = "send"
  /\ pc' = "reply"
  /\ ttl' = TTL
  /\ age' = IF ttl = 0 THEN sample ELSE age
  /\ skipped' = 0 /\ slow' = TooLong(busy)
  /\ UNCHANGED <<tick, ticked, busy, sample, late>>

\* Mutated: the key lives for one interval.
AppliedOneInterval ==
  /\ pc = "send"
  /\ pc' = "reply"
  /\ ttl' = (Interval \div Second) * Second /\ age' = sample
  /\ skipped' = 0 /\ slow' = TooLong(busy)
  /\ UNCHANGED <<tick, ticked, busy, sample, late>>

\* Redis applies SET key value EX ttl.
Applied ==
  /\ pc = "send"
  /\ pc' = "reply"
  /\ ttl' = TTL /\ age' = sample
  /\ skipped' = 0 /\ slow' = TooLong(busy)
  /\ UNCHANGED <<tick, ticked, busy, sample, late>>

\* Redis refuses, or the command never reaches it.
SetFails ==
  /\ pc = "send"
  /\ pc' = "wait" /\ busy' = 0 /\ sample' = 0 /\ Skip
  /\ UNCHANGED <<tick, ticked, ttl, late, age, slow>>

\* Set gives up at its deadline and closes a connection on which the command
\* is still under way.
SetGivenUp ==
  /\ pc = "send"
  /\ pc' = "wait" /\ busy' = 0 /\ sample' = 0 /\ Skip
  /\ late' = late \cup {[age |-> sample, wait |-> 0]}
  /\ UNCHANGED <<tick, ticked, ttl, age, slow>>

\* Redis applies it after all, perhaps after the SETs of later cycles.
LateApplied ==
  \E l \in late :
    /\ ttl' = TTL /\ age' = l.age /\ late' = late \ {l}
    /\ UNCHANGED <<pc, tick, ticked, busy, sample, skipped, slow>>

\* Its connection is lost on the way.
LateLost ==
  \E l \in late : late' = late \ {l} /\ UNCHANGED <<pc, tick, ticked, busy, sample, ttl, age, skipped, slow>>

\* Set returns: its reply, or an error though the command was applied.
Replied ==
  /\ pc = "reply"
  /\ pc' = "wait" /\ busy' = 0 /\ sample' = 0
  /\ UNCHANGED <<tick, ticked, ttl, late, age, skipped, slow>>

\* The agent exits, crashes or is killed; the key is left to expire.
Die ==
  /\ pc # "dead"
  /\ pc' = "dead" /\ busy' = 0 /\ sample' = 0
  /\ UNCHANGED <<tick, ticked, ttl, late, age, skipped, slow>>

Next == Pass \/ Begin \/ MeasureFails \/ Measured \/ Applied \/ SetFails \/ SetGivenUp
        \/ LateApplied \/ LateLost \/ Replied \/ Die

Spec == Init /\ [][Next]_vars

-----------------------------------------------------------------------------
TypeOK ==
  /\ pc \in {"wait", "measure", "send", "reply", "dead"}
  /\ tick \in 1..Interval /\ ticked \in BOOLEAN
  /\ busy \in 0..MaxBusy /\ sample \in 0..busy
  /\ ttl \in 0..TTL /\ age \in 0..Oldest
  /\ late \subseteq [age : 0..MaxBusy + MaxLate, wait : 0..MaxLate]
  /\ \A l \in late : l.age <= l.wait + MaxBusy
  /\ skipped \in 0..3 /\ slow \in BOOLEAN
  /\ pc \in {"wait", "dead"} => busy = 0
  /\ pc \notin {"send", "reply"} => sample = 0

(* main.go:8-9: a consumer never takes an old value for a current one. The  *)
(* readings behind a living key are no older than the key, one cycle and the *)
(* time a SET that Set gave up may stay under way, whatever later cycles did *)
(* and the agent being alive or dead.                                        *)
FreshKey == ttl > 0 => age <= TTL - ttl + MaxBusy + MaxLate

Expires == ttl > 0 /\ ttl' = 0

(* main.go:35 sets the expiry so that the key outlives "one or two" cycles    *)
(* without a write. One it does outlive, when cycles are quick: a key expires *)
(* under a living agent only after two cycles that did not write it, or when  *)
(* the cycle that wrote it or one since took all that the expiry has beyond   *)
(* two intervals - whatever the ticks that slow cycles before made it late    *)
(* by, or drop. Nothing keeps a cycle that quick: a request may take five     *)
(* seconds, and the interval is three.                                        *)
KeySurvivesOneSkip == [][Expires /\ pc' # "dead" => skipped' >= 2 \/ slow']_vars
=============================================================================
