------------------------------ MODULE Sampler ------------------------------
(***************************************************************************)
(* metrics-agent: the measuring loop of run(), the sampler that turns two  *)
(* readings of a container's counters into a rate, the exporter that a     *)
(* Prometheus scrape reads at the same time, and what reaches Redis.       *)
(*                                                                         *)
(* The slaves are Docker's: they send, stop, start again with a new id, or *)
(* are restarted under the same id, at any point of a cycle. A rate is     *)
(* kept as the bytes between two readings; the division by the elapsed     *)
(* time, the receive and CPU counters (treated alike) and the memory gauge *)
(* are left out. A container has a transmit counter for every network it   *)
(* is on; tx is their sum, which is what the Docker client returns.        *)
(***************************************************************************)
EXTENDS Naturals, FiniteSets, Functions, Sequences

CONSTANTS Names,      \* slaves: container names with the prefix
          MaxSent,    \* bound on what a slave's transmit counter reaches
          MaxCycles,  \* bound on the cycles of the loop
          StatsFail,  \* TRUE: a stats request may fail though the slave is there
          Metrics     \* metric families a scrape writes; 0: nobody scrapes

ASSUME SamplerAssumption ==
  /\ IsFiniteSet(Names) /\ MaxSent \in Nat /\ MaxCycles \in Nat
  /\ StatsFail \in BOOLEAN /\ Metrics \in Nat

VARIABLES
  up, tx,          \* Docker: slaves running, their transmit counters
  pc,              \* where run() is
  once, cancelled, \* --once; the signal context is cancelled
  cycle,           \* cycles begun; 0 while prime() runs
  todo, gone,      \* listed slaves not asked yet; those whose id is no more
  cur, prev,       \* the readings of this collect(), and s.prev
  exported,        \* exporter.samples, with the cycle that made them
  key,             \* the value last applied by Redis: a cycle's total, and over whom
  late,            \* values of given-up SETs that Redis may still apply
  scrape,          \* a running scrape: what it read and the lines it wrote
  moved,           \* history: bytes a slave sent since its last reading
  gap,             \* history: bytes it sent between the readings of the cycle
  steady,          \* history: slaves whose counters only grew since that
  exact,           \* history: slaves whose counters only grew in between
  failed           \* history: cycles whose SET returned an error

dockerVars == <<up, tx, gone, moved, steady>>
loopVars == <<pc, once, cycle, todo, cur, prev, gap, exact>>
redisVars == <<key, late, failed>>
vars == <<dockerVars, loopVars, cancelled, exported, redisVars, scrape>>

Nothing == <<>>
NoKey == [cycle |-> 0, total |-> 0, of |-> {}]
NoBytes == [n \in Names |-> 0]
NoScrape == [snap |-> [cycle |-> 0, rates |-> Nothing], lines |-> <<>>, on |-> FALSE]

Init ==
  /\ up \in SUBSET Names /\ tx = NoBytes
  /\ pc = "list" /\ once \in BOOLEAN /\ cancelled = FALSE /\ cycle = 0
  /\ todo = {} /\ gone = {} /\ cur = Nothing /\ prev = Nothing
  /\ exported = [cycle |-> 0, rates |-> Nothing]
  /\ key = NoKey /\ late = {} /\ failed = {} /\ scrape = NoScrape
  /\ moved = NoBytes /\ gap = NoBytes
  /\ steady = {} /\ exact = {}

-----------------------------------------------------------------------------
(* Docker and the slaves. *)

Send(n) ==
  /\ n \in up /\ tx[n] < MaxSent /\ moved[n] < MaxSent
  /\ tx' = [tx EXCEPT ![n] = @ + 1]
  /\ moved' = [moved EXCEPT ![n] = @ + 1]
  /\ UNCHANGED <<up, gone, steady>>

\* docker network disconnect: the network takes its counter along.
Disconnect(n) ==
  /\ n \in up
  /\ \E left \in 0..tx[n] : tx' = [tx EXCEPT ![n] = left]
  /\ steady' = steady \ {n}
  /\ UNCHANGED <<up, gone, moved>>

\* The container is removed: its id answers no more.
Stop(n) ==
  /\ n \in up
  /\ up' = up \ {n}
  /\ gone' = gone \cup ({n} \cap todo)
  /\ steady' = steady \ {n}
  /\ tx' = [tx EXCEPT ![n] = 0]
  /\ UNCHANGED moved

Start(n) ==
  /\ n \notin up
  /\ up' = up \cup {n}
  /\ UNCHANGED <<tx, gone, moved, steady>>

\* docker restart: the same id, the counters from zero.
Restart(n) ==
  /\ n \in up
  /\ tx' = [tx EXCEPT ![n] = 0]
  /\ steady' = steady \ {n}
  /\ UNCHANGED <<up, gone, moved>>

Docker == /\ \E n \in Names : Send(n) \/ Disconnect(n) \/ Stop(n) \/ Start(n) \/ Restart(n)
          /\ UNCHANGED <<loopVars, cancelled, exported, redisVars, scrape>>

-----------------------------------------------------------------------------
(* The sampler. *)

\* Mutated: without the check for a rewound counter the unsigned difference wraps.
DeltaUnguarded(now, before) == (now + 2^30 - before) % 2^30

\* What measure() makes of two readings of a counter, or of a new slave.
Delta(now, before) == IF now >= before THEN now - before ELSE 0

Rates == [n \in DOMAIN cur |->
            IF n \in DOMAIN prev THEN Delta(cur[n], prev[n]) ELSE 0]

\* totalOf.
Total(rates) == FoldFunction(+, 0, rates)

\* What the get of a slave's stats comes to: the answer of a running container,
\* or an error - the context is done, the id is gone, or Docker answers late,
\* with another status, or what is no JSON.
Got(n) == ~cancelled /\ n \notin gone
GetFails(n) == cancelled \/ n \in gone \/ StatsFail

\* docker.List, under the signal's context: the slaves that run now. An error
\* ends the cycle, or prime(), and leaves the previous readings in place.
List ==
  /\ pc = "list"
  /\ \/ /\ ~cancelled
        /\ pc' = "stats" /\ todo' = up /\ gone' = {}
        /\ cur' = Nothing
     \/ pc' = "wait" /\ UNCHANGED <<todo, gone, cur>>
  /\ UNCHANGED <<up, tx, once, cancelled, cycle, prev, exported, redisVars, scrape,
                 moved, steady, gap, exact>>

\* Client.Stats: the counters, and of the histories what they are compared with.
Read(n) ==
  /\ Got(n)
  /\ cur' = [m \in DOMAIN cur \cup {n} |-> IF m = n THEN tx[n] ELSE cur[m]]
  /\ gap' = [gap EXCEPT ![n] = moved[n]]
  /\ moved' = [moved EXCEPT ![n] = 0]
  /\ exact' = IF n \in steady THEN exact \cup {n} ELSE exact \ {n}
  /\ steady' = steady \cup {n}

\* docker.Stats of one listed slave. A failure skips the slave.
Stats(n) ==
  /\ pc = "stats" /\ n \in todo
  /\ todo' = todo \ {n}
  /\ \/ Read(n)
     \/ /\ GetFails(n)
        /\ steady' = steady \ {n}
        /\ UNCHANGED <<cur, gap, moved, exact>>
  /\ UNCHANGED <<up, tx, pc, once, cancelled, cycle, gone, prev, exported, redisVars, scrape>>

\* Mutated: the readings are not kept for the next cycle.
MeasuredKeepsPrev ==
  /\ pc = "stats" /\ todo = {}
  /\ IF cycle = 0 \/ Rates = Nothing
     THEN pc' = "wait" /\ gap' = NoBytes /\ exact' = {} /\ UNCHANGED exported
     ELSE pc' = "set" /\ exported' = [cycle |-> cycle, rates |-> Rates] /\ UNCHANGED <<gap, exact>>
  /\ prev' = IF prev = Nothing THEN cur ELSE prev
  /\ cur' = Nothing /\ gone' = {}
  /\ UNCHANGED <<up, tx, moved, steady, once, cancelled, cycle, todo, redisVars, scrape>>

\* The end of prime() or of measure(): the readings become s.prev, and the
\* exporter gets the samples unless there are none.
Measured ==
  /\ pc = "stats" /\ todo = {}
  /\ IF cycle = 0 \/ Rates = Nothing
     THEN pc' = "wait" /\ gap' = NoBytes /\ exact' = {} /\ UNCHANGED exported
     ELSE pc' = "set" /\ exported' = [cycle |-> cycle, rates |-> Rates] /\ UNCHANGED <<gap, exact>>
  /\ prev' = cur /\ cur' = Nothing /\ gone' = {}
  /\ UNCHANGED <<up, tx, moved, steady, once, cancelled, cycle, todo, redisVars, scrape>>

\* buildValue of the samples just exported.
Value == [cycle |-> exported.cycle, total |-> Total(exported.rates), of |-> DOMAIN exported.rates]

\* rdb.Set returns nil: Redis has applied the command.
SetApplied == key' = Value /\ UNCHANGED <<late, failed>>

\* It returns an error: the command never reached Redis, or Redis is still to
\* apply it, on a connection that the client has left.
SetFailed == /\ late' = late \/ late' = late \cup {Value}
             /\ failed' = failed \cup {exported.cycle}
             /\ UNCHANGED key

\* Mutated: --once leaves after a failed command too.
SetOnceAnyway ==
  /\ pc = "set"
  /\ SetApplied \/ SetFailed
  /\ pc' = IF once THEN "done" ELSE "wait"
  /\ gap' = NoBytes /\ exact' = {}
  /\ UNCHANGED <<dockerVars, once, cancelled, cycle, todo, cur, prev, exported, scrape>>

Set ==
  /\ pc = "set"
  /\ \/ SetApplied /\ pc' = IF once THEN "done" ELSE "wait"
     \/ SetFailed /\ pc' = "wait"
  /\ gap' = NoBytes /\ exact' = {}
  /\ UNCHANGED <<dockerVars, once, cancelled, cycle, todo, cur, prev, exported, scrape>>

\* Redis gets round to a command its client has given up, in any order with
\* the others: each was sent over a connection of its own.
LateApplied ==
  /\ \E v \in late : key' = v /\ late' = late \ {v}
  /\ UNCHANGED <<dockerVars, loopVars, cancelled, exported, failed, scrape>>

Tick ==
  /\ pc = "wait" /\ cycle < MaxCycles
  /\ pc' = "list" /\ cycle' = cycle + 1
  /\ UNCHANGED <<dockerVars, once, cancelled, todo, cur, prev, gap, exact, exported, redisVars, scrape>>

Signal ==
  /\ ~cancelled /\ pc # "done"
  /\ cancelled' = TRUE
  /\ UNCHANGED <<dockerVars, loopVars, exported, redisVars, scrape>>

\* Mutated: the signal only leaves the select.
QuitOnlySelect ==
  /\ pc = "wait" /\ cancelled
  /\ pc' = "list"
  /\ UNCHANGED <<dockerVars, once, cancelled, cycle, todo, cur, prev, gap, exact, exported, redisVars, scrape>>

\* ctx.Done in the select.
Quit ==
  /\ pc = "wait" /\ cancelled
  /\ pc' = "done"
  /\ UNCHANGED <<dockerVars, once, cancelled, cycle, todo, cur, prev, gap, exact, exported, redisVars, scrape>>

-----------------------------------------------------------------------------
(* ServeHTTP, on the HTTP server's goroutines. *)

ScrapeBegins ==
  /\ ~scrape.on /\ pc # "done" /\ Metrics > 0
  /\ scrape' = [snap |-> exported, lines |-> <<>>, on |-> TRUE]
  /\ UNCHANGED <<dockerVars, loopVars, cancelled, exported, redisVars>>

\* Mutated: each metric family reads the exporter's samples again.
ScrapeWritesFresh ==
  /\ scrape.on /\ Len(scrape.lines) < Metrics
  /\ scrape' = [scrape EXCEPT !.lines = Append(@, exported)]
  /\ UNCHANGED <<dockerVars, loopVars, cancelled, exported, redisVars>>

\* One metric family: a line per slave and the total.
ScrapeWrites ==
  /\ scrape.on /\ Len(scrape.lines) < Metrics
  /\ scrape' = [scrape EXCEPT !.lines = Append(@, scrape.snap)]
  /\ UNCHANGED <<dockerVars, loopVars, cancelled, exported, redisVars>>

ScrapeEnds ==
  /\ scrape.on /\ Len(scrape.lines) = Metrics
  /\ scrape' = NoScrape
  /\ UNCHANGED <<dockerVars, loopVars, cancelled, exported, redisVars>>

-----------------------------------------------------------------------------
Working == List \/ (\E n \in Names : Stats(n)) \/ Measured \/ Set

Over == pc = "done" /\ UNCHANGED vars

Next == \/ Docker \/ Working \/ Tick \/ Signal \/ Quit
        \/ LateApplied
        \/ ScrapeBegins \/ ScrapeWrites \/ ScrapeEnds \/ Over

\* The Docker and Redis calls time out, so the agent's goroutine moves on; a
\* select whose context is done takes that branch sooner or later.
Spec == Init /\ [][Next]_vars /\ WF_vars(Working) /\ SF_vars(Quit)

TypeOK ==
  LET Readings == UNION {[S -> 0..MaxSent] : S \in SUBSET Names}
      Samples == [cycle : 0..MaxCycles, rates : Readings]
  IN  /\ up \subseteq Names /\ tx \in [Names -> 0..MaxSent]
      /\ pc \in {"list", "stats", "set", "wait", "done"}
      /\ {once, cancelled} \subseteq BOOLEAN /\ cycle \in 0..MaxCycles
      /\ todo \cup gone \cup steady \cup exact \subseteq Names
      /\ {cur, prev} \subseteq Readings
      /\ exported \in Samples /\ Range(scrape.lines) \cup {scrape.snap} \subseteq Samples
      /\ todo # {} => pc = "stats"
      /\ {v.cycle : v \in late} \subseteq failed /\ failed \subseteq 1..MaxCycles

(* A rate is never more than the slave sent between its two readings, however *)
(* often it was stopped, restarted, moved between networks or missed in      *)
(* between - so a consumer of the total never sees traffic that was not there *)
(* - and of a slave whose counters only grew it is exactly that               *)
(* (main.go:208-224).                                                         *)
RatesHonest ==
  pc = "set" => \A n \in DOMAIN exported.rates :
                  /\ exported.rates[n] <= gap[n]
                  /\ n \in exact => exported.rates[n] = gap[n]

(* One scrape shows one cycle: the slaves counted, the lines and the totals   *)
(* of every metric family are of the same samples although the loop replaces  *)
(* the exporter's meanwhile (metrics.go:44-48, 71-73).                        *)
ScrapeOneCycle == \A line \in Range(scrape.lines) : line = scrape.lines[1]

(* --once exits by itself only when Redis has acknowledged the total of the   *)
(* last cycle, and then the key holds it - or the total of an earlier cycle   *)
(* whose SET was given up and overtook the acknowledged one, which nothing in *)
(* the agent prevents; without an error on the way it is the last total for   *)
(* good (main.go:129-143).                                                    *)
OnceDelivers ==
  pc = "done" /\ ~cancelled => /\ once /\ exported.cycle \notin failed
                               /\ key = Value \/ key.cycle \in failed

(* After a signal the agent ends, whatever cycle it is in (main.go:109-112).  *)
StopsOnSignal == cancelled ~> pc = "done"
=============================================================================
