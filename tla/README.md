# modbusSlave_go in TLA+

`modbus-slave` is a Modbus/TCP slave that answers register reads with zeroes, one
process per container; `metrics-agent` measures what a host's slaves send and
publishes the sum in Redis and to Prometheus; `slave.sh` starts, renews and removes
the slaves of a host. This directory models all three, checks
the models with TLC and proves the main results with TLAPS. Line numbers in the
modules are those of the Go files and of `slave.sh`.

## 1. Inventory

| Component | Source | State | Operations | What makes it correct |
|---|---|---|---|---|
| server | `internal/server/server.go`, the tail of `handleConn`, `run()` of `cmd/modbus-slave/main.go` | slot semaphore `sem`, `WaitGroup`, connection map, `closing`, listener, the grace timer | accept, take a slot or refuse, track, count, serve; the handler's four defers; `Shutdown` in its steps; `closeAll`; signal and exit | the counters agree at every interleaving; no more than `max-conns` served; shutdown ends |
| connection handler | `internal/server/conn.go` | buffered reader, deadline, the frame in hand | read header and PDU, drop, answer, write, fail | answers in order, once each, none skipped; nobody can hold a handler |
| protocol functions | `internal/modbus` | none | `ParseHeader`, `Validate`, `Handle`, `PutHeader` | legal reads are answered, others get the right exception, at every edge |
| configuration | `internal/config` | none | flags over variables over defaults, validation | what starts can be served |
| process and state file | `cmd/modbus-slave/main.go`, `internal/state` | the state file and its temporary file | write, rename, remove; crash and restart | nobody reads half a file, nor takes what a dead process left for the settings of the one that serves |
| healthcheck | `internal/health` | none of its own | read state, dial, ask, judge | a serving process passes, every check ends |
| agent: start | `cmd/metrics-agent/main.go` | its settings | parse flags and variables, load the map, start the metrics server | a wrong setting or file is refused, nothing else is; a signal is not lost |
| agent: loop and sampler | `cmd/metrics-agent/main.go` | previous readings, the ticker | prime, collect, measure, total, Set, quit | a rate is traffic that was there; a signal ends it |
| agent: exporter | `cmd/metrics-agent/metrics.go` | the last samples, under a mutex | update, scrape, labels | one scrape shows one cycle, each slave under its own collector |
| agent: collectors | `cmd/metrics-agent/collectors.go` | a port map | parse line by line, look up | no port in two collectors |
| Redis client | `internal/redisc` | one connection | connect, AUTH, SELECT, PING, SET, Close | replies match commands; writes land in the right database |
| Docker client | `internal/dockerapi` | none | List, Stats | a failed request is an error, never a reading |
| `slave.sh` | shell, `scripts/gen-compose.sh` | the compose file, the image | up, update, restart, down; waiting for healthy | an up repairs whatever was left and runs what it built |
| clients | `scripts/poll.go`, `scripts/probe.go` | none | read all registers in chunks; ask once | every register once; a verdict one can trust |

How they interact. `run()` starts one goroutine for `Serve`; `Serve` starts one
per admitted connection; `Shutdown` runs in `run()`'s goroutine and starts a
third for `wg.Wait`. They share the semaphore channel, the `WaitGroup`, the map
under its mutex and the atomic `closing`, and nothing orders `wg.Add` in the accept
loop with `wg.Wait`. The healthcheck is another process: it shares the
environment, the state file and the connection slots with the server, but not
its arguments. The agent's loop, its HTTP server and the signal context run
concurrently; the slaves' containers come, go and restart while a cycle runs.
`slave.sh` works on the Docker daemon, whose health checks are the server's own
healthcheck, and on a compose file that the next command finds again.

What is hard in it: the interleavings of accept and shutdown, the connection
slot given back in another goroutine, two bounded streams in opposite
directions, a process killed between writing and renaming its file, counters
that restart, replies that come after their timeout and writes that arrive after
they were given up, a script interrupted in the middle of a file. `PROJECT.json` lists each
at its line under `hazards`.

## 2. Modules

| Module | Models | Notes |
|---|---|---|
| `ConnLimiter` | what the limit promises | abstract: a connection waits, is admitted while fewer than `Limit` are, is refused only while no slot is free, or is reset by the closing listener |
| `Server` | server, `Shutdown`, `run()` | one action per statement that another goroutine can see |
| `ServerProofs` | theorems about `Server` | |
| `ModbusPDU`, `ModbusProofs` | `internal/modbus` as operators; theorems | the theorems about `ConnLoop` too |
| `ConnLoop` | `handleConn` and a client | uses `ModbusPDU` |
| `Config` | `internal/config` as operators | uses `ModbusPDU` |
| `Container` | process, state file, healthcheck, crashes | uses `Config`, `ModbusPDU` |
| `ContainerProofs` | theorems about the configuration, the state file and the healthcheck | |
| `AgentStart`, `AgentStartProofs` | the agent's start, the collector map and the labels; theorems | |
| `Sampler`, `SamplerProofs` | agent loop, sampler, exporter, Docker client; theorems | |
| `AgentKey`, `AgentKeyProofs` | the agent in time and its key's expiry; theorems | |
| `RedisClient`, `RedisProofs` | `internal/redisc` and a Redis server; theorems | |
| `SlaveScript`, `SlaveProofs` | `slave.sh`, `gen-compose.sh` and a Docker daemon; theorems | |
| `ModbusClients` | what `poll.go` and `probe.go` ask and make of the reply, as operators | uses `ModbusPDU`; theorems in `ModbusProofs` |
| `MCServer`, `MCConnLoop`, `MCContainer`, `MCAgentStart`, `MCRedisClient`, `MCSlaveScript` | inputs and symmetry of the small instances | |

Each module keeps a few definitions whose comment begins with `Mutated:`. They
are no part of the specification: each is a plausible slip in the definition
after it, and `PROJECT.json` names the property that notices it. (`MaskedByAdding` is
one more: the first byte of an exception wraps, and `AnswersHonest` notices.)

**Server.** `stage[c]` says how far connection `c` has come: `backlog`, the four
program points of the accept loop (`accepted`, `slot`, `tracked`, `counted`), the
handler (`serving`, then its deferred steps in the order Go runs them: socket closed,
map entry deleted, slot received back, `Done`), and the ends `ended`, `rejected`,
`reset`. `sem`, `wg`, `conns` and `closing` are the fields of `Server`. `Shutdown`
is `shut`, its waiting goroutine `waiter`: `Wait` that finds zero passes at once,
otherwise it parks and is woken by the last `Done`. Between the wake-up and the
moment it runs, an `Add` is the reuse that makes the Go library panic, and it does so
in the model (`main = "panic"`). Listener errors other than a close may happen at any time.

**ConnLoop.** `Cases` names pairs of a server and a client's habit; a behaviour
picks one of them. A client sends frames as a header token and a PDU token into a
stream of `InCapacity` tokens and reads replies from one of `OutCapacity`. A frame
header that fails validation ends the connection; one for another unit
is read and dropped. A deadline that is set may pass at any moment, and where
`IdleTimeout` is on it is set again before every read and every write. Either
end may close at any step, and `Shutdown`'s forced close is `ForceClose`. The properties
do not judge by the code's own limits: `Framed`, `Legal` and `Answers` of `ModbusPDU`
state the rules of the protocol in numbers of their own.

**Container.** The process runs through parse, listen, write, rename, notify and
serve, may be terminated or killed at each, and is restarted over the files it
left. The healthcheck parses its own environment (never the arguments), reads the
state file when that gives no port, dials, asks and judges. `Config!Parse` computes
both configurations. A state file is somewhere (`Paths`): a healthcheck that looks for it
where the process did not put it finds none (`Found`). `-h` prints the usage and exits
with 0. The deferred `os.Remove` may fail unnoticed (`Leave`), so a file may outlive even a
clean exit. `DialHost` and `Reaches` keep IPv4 and IPv6 wildcards apart. `SharesSettings` says what a
launch's arguments have to leave to its environment for the two to agree.

**AgentStart.** `run()` from its first statement: settings by precedence, the
signal context, the collector file one line at a time into `m`, the exporter's map
`cmap`, and the metrics server as a goroutine that may fail at any time. A port
range is the words that `strings.Cut` leaves, a word that is no number is `NaN`.
`Labels` is what a scrape puts on a container whose name ends in a given number.

**Sampler.** `prev` and `cur` map the slaves read to their counters. `List` and
`Stats` are Docker's answers under the signal's context; a request is answered,
fails or is cancelled. The counter of a slave grows, starts from zero with a
restart, and falls when one of its networks is taken away, because `Stats` sums
over the networks there are. `moved`, `gap`, `steady` and `exact` are history:
what a slave really sent since its last reading and between its last two. A
scrape copies the samples, then writes its lines while the loop may replace them. A
SET that returned an error is lost or stays in `late`, from where Redis may apply it at any
time, after the SETs of later cycles too.

**AgentKey.** `Pass` is one unit of time; the ticker's channel holds one tick;
`SET key value EX ttl` gives the key `TTL` units, whole seconds. Any cycle may
fail before or after Redis applied it; the agent may die at any point. A SET that
is given up at its deadline stays in `late` for at most `MaxLate` units and may be
applied there, after the SETs of later cycles, or be lost. A cycle takes up to `MaxBusy`,
which no interval bounds: ticks that come meanwhile are kept (one) or dropped. `slow` remembers
whether the cycle that wrote the key, or one after it, took all that the expiry has beyond two
intervals (`TooLong`).

**SlaveScript.** One command after the other, each a sequence of steps any of
which may fail or be interrupted (`Abort`), over the compose file (the set of
ports it declares, extended one service at a time), the image tags and the
containers. `tag` is `IMAGE` in the environment of each `up` and `update`: what it builds under;
the compose file always declares `modbus-slave`. `ComposeUp` says what docker compose has to do, `ComposeDoes` does one
part of it. Docker changes statuses all the while. A slave is called unhealthy
after three failed checks thirty seconds apart (`Dockerfile:28`), and
`wait_healthy` gives up after sixty seconds: while a command is at work on the slaves, one
that is started meanwhile does not become unhealthy (`Turns`); one that was started
while the image was built may.

**ModbusClients.** `Chunks`, `PollRequest` and `Expected` are what `poll.go` sends
and waits for, `ProbeExit` is the exit status of `probe.go`, over the handler of
`ModbusPDU`.

**RedisClient.** A connection has a queue of commands at the server and one of
replies at the client. A read may time out with the reply still to come. The
server may answer an error, drop the connection, or serve what an abandoned
connection had sent.

## 3. Runs

| Run | Bounds | Properties | Shows |
|---|---|---|---|
| `server_check` | 3 connections, 1 slot | `TypeOK` `Accounting` `SocketsBounded` `CleanServeResult` `AtMostOneEscapes` `LimiterSpec` `EveryDialDecided` `NothingLeaks` `SignalExitsUnlessEscaped` | the counters, the sockets, the refinement, what can survive `closeAll`; a full server still decides every dial, slots come back, a signal ends the process unless a connection escaped |
| `conn_loop` | five cases: 4 frames of 4 kinds read late or never, 3 frames read as they come, one frame at the edges of every field for three servers; streams of 2 | `TypeOK` `AnswersHonest` `AnswersInOrder` `NothingSkipped` `HangsUpRightly` `HandlerReturns` `EveryRequestAnswered` | pipelining, breaks and stalls; the reply to every edge; a frame of any legal size is taken; the two streams do not deadlock |
| `container_check` | the launches of `MCContainer!PortInArgs`, seven addresses, one restart | `TypeOK` `NeverTorn` `ServingPasses` `ConfigServable` `HealthcheckEnds` | configuration, crash recovery, healthcheck |
| `agent_start` | files of up to 3 lines out of 13, 6 ports, 9 command lines | `LabelsRight` `RefusesExactly` `StartsOrEnds` | settings, the collector map and its labels, a signal during the start |
| `agent_sampler` | one slave, counter up to 2, prime and 2 cycles, a scrape of 2 families | `TypeOK` `RatesHonest` `OnceDelivers` `ScrapeOneCycle` `StopsOnSignal` | honest rates across restarts, lost networks and failures, `--once` against SETs that arrive late, scrape, signal |
| `agent_key` | interval 3.5 s in half seconds, cycles up to 5 s, a SET up to 1.5 s late | `FreshKey` `KeySurvivesOneSkip` | the expiry against late, failed, slow and missing cycles and SETs out of order |
| `slave_script` | 3 ports of at most 2 at a time, 8 arguments, 2 image tags, 3 commands, 2 versions, 3 rounds of waiting | `TypeOK` `UpDelivers` `UpFresh` `ScriptEnds` | an up after anything that was interrupted; every command ends |
| `redis_set` | 3 calls, 3 connections, 5 setups | `TypeOK` `RepliesMatch` `AckedApplied` `OnlyOurDatabase` `SetReturns` | one call, one reply, one database |

Why these bounds are enough. A race of the server needs one connection in the
accept loop's hand, one being served and one waiting or refused: three
connections and one slot hold all of it, and a full server with two that wait is
what liveness needs. With one slot three connections also reach the socket bound;
with two slots they could not exceed it. The accept loop holds one connection at
a time, so a further connection repeats a state of the third, and the theorems
hold for every number of connections and slots. A pipelined pair and a bad frame
around them show every place `continue` and `return` can go wrong; four frames
over streams of two fill both. One kill between each two steps of the state file
followed by one restart reaches every content a second restart could find. Three
lines of a collector file hold an entry, one that clashes with it and one that is
skipped or broken around them, in every order. A rate needs two readings with a
failed or restarted one between them: prime and two cycles; two bytes tell a
counter that fell from one that restarted and sent on. A SET of the first cycle that is given up
and one of the second that is acknowledged are all that `--once` can get out of order. Slaves are measured
independently, so one suffices for the rates, and the theorems are about any
number. In `agent_key` a cycle may take longer than the
interval, as the default five seconds for a request against an interval of three do, and a SET
given up by one cycle may land after that of the next. Of three commands the first leaves a
state, the second is interrupted over it, the third has to repair it. A stale
reply needs an abandoned connection and the one after it; the third meets both.

### Disagreements

Four runs state what the repository says and TLC finds the code doing
otherwise.

* `server_signal_exits` (`SignalExits`). `PLAN.md:165` and `server.go:99` bound the end
  of a shutdown by five seconds and a forced close. `closeAll` runs once. A
  connection still in the accept loop's hand at that time is tracked afterwards and
  nobody closes it; with no idle timeout `<-done` (`server.go:115`) waits as long as
  its client pleases. `AtMostOneEscapes` and `SignalExitsUnlessEscaped` say that this is
  the only way, and at most one connection.
* `container_own_settings` (`ServingPasses`). `README.md:130` says the healthcheck asks
  with the server's own settings; with the port in the environment and the unit,
  the codes or the address in the arguments it asks with others, and a `--state-file`
  given in the arguments alone it does not find. For launches with `SharesSettings`, which
  `MCContainer` shows all of `container_check`'s to be, a pass is proved.
* `slave_unhealthy` (`UpAllHealthy`). `DEPLOY.md:81` has `up` wait until all slaves are
  healthy. `wait_healthy` counts lines with the word (`grep -c healthy`), and
  "(unhealthy)" has it too: slaves an earlier command left running and unhealthy
  are counted. What an `up` that succeeds does promise is `UpDelivers`.
* `slave_image` (`UpRunsItsImage`). `DEPLOY.md:111` offers `IMAGE` as the name of the image to
  use. `ensure_image` builds under it (`slave.sh:90`), and `gen-compose.sh:25` writes
  `image: modbus-slave` all the same: with another `IMAGE` an `up` or `update` succeeds with slaves
  on whatever was built last under `modbus-slave`, and fails when nothing was. What does
  hold, whatever `IMAGE` names, is `UpFresh`.

Four more disagreements have no run of their own:

* `server.go:98` has `Shutdown` wait for the connections in progress. The connection in the accept
  loop's hand, when it is counted after `wg.Wait` saw zero, is served while `Shutdown` returns nil
  and `run()` exits. `AtMostOneEscapes` of `server_check` says that it is the only one.
* `main.go:35` (of the agent) makes the expiry three intervals so that the value survives "one or two"
  skipped cycles. Two skips use it up: the next SET comes three intervals after the last, and
  later unless its cycle is the quicker. One is too many when a cycle is slow: with `--timeout` at
  its five seconds (`main.go:278`) for each request and an interval of three (`main.go:275`) a skipped
  cycle may take more than the three seconds that the nine leave for it, and the key is gone before
  the next one writes. `KeySurvivesOneSkip` says what is left of the promise.
* `DEPLOY.md:525-526` warns that the `up` commands only look whether an image exists, so that sources
  pulled before an `up` are not built. `ensure_image` builds every time (`slave.sh:85-91`, and
  `DEPLOY.md:585` says so): the warning is out of date, and `UpFresh`, whose mutant `BuildIfMissing`
  is the behaviour it describes, is the contrary.
* `metrics.go:97` promises a current count of containers; a cycle that finds no slave leaves the
  exporter with the samples of the last one that did (`Sampler`).

The models reach further states a reader of the docs may not expect: `wg.Add` between the last
`Done` and the wake-up of `Wait` panics (`Server`, `main = "panic"`); a signal during `collect()`
makes the remaining `Stats` fail, and the sum of the slaves read before it is published as the
total (`Sampler`); a SET given up at its deadline may put the value of its cycle back after that of
a later one (`Sampler`, `AgentKey`); when `docker compose ps` fails, `update` waits for no slave at
all and reports `0 / 0` as a success (`SlaveScript`).

## 4. Fairness

Goroutines that can run do: weak fairness of the accept loop, the handlers'
deferred steps, `Shutdown`, the waiter and `run()`, and of the agent's start.
Timers fire: `GraceFires`, the deadline of a handler that blocks (only where one is
set), the timeouts of the agent and of the healthcheck. A handler in `Server` must
return once its socket is closed or its client gone, which `HandlerReturns` of
`ConnLoop` establishes for the loop itself. No client, no Docker and no Redis owes
an answer; only the polite client of `ConnLoop` finishes its frames and reads.
`Quit` of the agent has strong fairness: `select` chooses at random among the
ready cases, so a cancelled context is not passed over for ever. The steps of
`slave.sh` return (git, docker build and docker compose do), but what they leave
in Docker need never become healthy.

## 5. Proofs

Every safety invariant that a passing run checks is the statement of a theorem, and so
are the refinement of `ConnLimiter` and the action properties of `ConnLoop` and `AgentKey`. They hold for all
values of the constants, under the assumptions the modules name: `Conns` finite and
`MaxConns` positive (`config.Validate` refuses less), an interval of at least a second
(`parseFlags` refuses less), streams that hold something, servers and requests with
fields as wide as the protocol's, settings of the types `flag` and `strconv` give
(`IsSource`, of any value), sources that have a version, ports and collector lines of the
shapes `AgentStartAssumption` and `SlaveScriptAssumption` say. One theorem about a behaviour has a
hypothesis of its own, `SharesSettings`, which the instance `container_check` satisfies.

`ServerProofs`. `Accounting` is not inductive as it stands: that `sem` stays within its
limit is the select's guard, but that sockets do needs to know which sockets are
open, and that an error of `Serve` means a failure of `Accept` needs to know who
closes the listener. The invariant is

    IndInv == TypeOK /\ Accounting /\ HandInv /\ SocketInv /\ ClosingInv

`HandInv`: at most one connection is in the accept loop's hand, and only between
two calls of `Accept`. `SocketInv`: an open socket is in that hand or with its
handler. `ClosingInv`: `Shutdown` runs once and sets `closing` before it closes the
listener. `MoveAt` says how moving one connection changes the size of a set of
stages; `ConnKeeps...` and `ProcessKeepsRest` take the actions one by one. From
`IndInv` follow `TypeCorrect`, `AccountingHolds`, `SocketsStayBounded` and `CleanServe`.
`OneEscapes` (`AtMostOneEscapes`) adds `EscapeInv`: the listener is closed before the waiter
starts, so no socket is opened afterwards; when the waiter sees zero nobody is counted, when
`closeAll` runs every counted socket is tracked and closed, and either way what stays open
is in the accept loop's hand, where `HandInv` allows one.
`ServerRefinesLimiter` maps `stage` to the places of `ConnLimiter` and shows every
step to be one of its actions or a stutter.

`ModbusProofs`. About the request handler for every register count, code set and
request: `RepliesWellFramed` and `NormalIffLegal` (no sixteen-bit sum wraps, no limit
is off by one), and `RepliesAnswer` (the first two bytes of a reply say what it answers and
why it is refused). For the clients: `ChunksTile`,
`poll.go` reads every register once and none that is not there; `PollAnswered`,
a server that has the registers answers each request with the bytes waited for;
`ProbeVerdict`, `probe.go` exits with 0 exactly for a legal read that is heard.

About `ConnLoop`, for every set of servers and clients, any number of frames and streams
of any capacity: `ConnTypeCorrect`, `AnswersStayInOrder`, `NothingIsSkipped` and
`AnswersStayHonest`. None of the last three is inductive, because the state does not say
how far the loop has read. The invariant names that number of frames:

    ConnInv == /\ TypeOK /\ AnswersInOrder
               /\ pc # "ended" => \E n \in Nat : InStep(n) /\ AllReplied(n)

`InStep(n)`: the n frames read had good headers, and what is left in the reader's buffer and
the kernel's is what the client wrote after them, token by token, cut short only
by a client that has gone. `AllReplied(n)`: the replies written and the one in hand are as many
as the answered of those n frames, `Place(n)`, fewer only once the connection
has broken. `PlaceNext`, `PlaceMonotonic` and `PlaceInjective` say that counting the
answered frames numbers their replies; `AnswersStayHonest` follows from the order and the
theorems about `Handle`. `HangsUpOnlyOnBadHeaders` goes through the actions that end the loop. Two more are the safe halves of the liveness properties:
`RestMeansAnswered`, a connection that stands comes to rest only when every frame that is to be
answered has its reply; `EveryCallIsTimed`, with an idle timeout the handler blocks only under
a deadline. That the places are counts over sets, not a selection
from a sequence, is what lets this be proved without induction.

`ContainerProofs`. `CodesOnce`: what `ParseFunctionCodes` returns holds each code it was
given once and no other, in the order first given, which decides what the healthcheck asks. It is an induction over the rounds of its loop, and since the
library's induction theorems cannot be used here it goes by the least round that
fails (`Smallest`, from the well-foundedness of `<` on the naturals). `ParsedFields` says what
a configuration that parses looks like for every source; from it and `ContInv`
(what is past its settings has settings that parse) come `ContainerTypeCorrect` and
`ConfigsServable`, the latter with `CodesOnce` and `ProbeAnswered`. `NeverReadTorn` comes from `FileInv`: the state file is
never torn, the temporary file is whole when it is renamed, and a process that keeps
no state file neither writes nor finds one. `CalmServerPasses` is `ServingPasses`
under `SharesSettings`: `SharedSettings` shows that then the environment alone gives the
server's address, and either all of the question or the way to the state file; `CalmInv`, that
beside a process that keeps serving the question is one this server answers
(`Matches`) at every step of the check; `ProbeAnswered`, that it is legal for every handler
a valid configuration builds.

`AgentStartProofs`. `LabelsAreTheFile` and `RefusesWhatIsWrong`, from `MapIsFile`: after
its first lines the map holds exactly the ports those lines claim, each with its
line's entry, and no two of them claim one port.

`SamplerProofs`. `RatesStayHonest`, from `SinceLast` and `InBetween`: a counter never
exceeds the last reading and what was sent since, and of two readings the second never
exceeds the first and what was sent between them, with equality while the counter only
grew. It needs `Collecting`, which slaves have been read in the present cycle.
`OnceAlwaysDelivers` (`OnceInv`: what is late is of a failed cycle, and when the last SET was
acknowledged the key is its value or one of those) and `ScrapesShowOneCycle` have small invariants of their own.
`SamplerTypeCorrect` (`BoundInv`) needs those of the rates and the scrape: that a rate stays
below the largest counter is what a guarded difference gives, and a scrape's
lines are typed because they are those of its snapshot.

`RedisProofs`. `RedisTypeCorrect`, `RepliesAlwaysMatch`, `AcksAreApplied` and
`NeverAnotherDatabase`. None of the three safety properties is inductive: the
invariant says that a connection carries at most one command or reply
(`OneUnderWay`), that on the client's own it is the awaited one (`Awaited`), that a
positive reply is true (`RepliesTrue`), and that past SELECT a connection, abandoned or
not, is in the database asked for (`Selected`, `SetsInOurs`).

`SlaveProofs`. `UpAlwaysDelivers` and `UpNeverStale`. The invariant follows the command:
`FileFirst`, the compose file is the range once it is complete; `Composed`, what
docker compose has no longer to do is as the file asks and of its image; `Renewed`, what `IMAGE`
names is what this command built. `AllMatch` is the counting argument of
`wait_healthy`: matching lines can only reach the number of slaves if every slave matches.
`SlaveTypeCorrect` adds `BoundInv`: no image and no container is newer than the sources, and
docker compose is only reached with an image to run.

`AgentKeyProofs`. `KeyTypeCorrect` and `KeyStaysFresh` by an invariant that bounds the
age of the readings behind the key by what has gone of its expiry, one cycle and the
time a SET may be late, and the ages of the SETs still under way likewise.
`KeyOutlivesOneSkip`: `Covered` bounds from below what the key has left, phase by phase of the loop,
as long as neither the cycle that wrote the key nor one since was slow; `InStep` ties the time a cycle
has taken to the ticks it has missed and to `slow`. Neither asks that cycles fit into the interval.

Only model-checked: what speaks of eventually, since TLAPS proves no liveness
(`EveryDialDecided`, `NothingLeaks`, `SignalExitsUnlessEscaped`, `HandlerReturns`,
`EveryRequestAnswered`, `HealthcheckEnds`, `StartsOrEnds`, `StopsOnSignal`, `ScriptEnds`,
`SetReturns`).

## 6. Not modelled

* Time in `Server` and `ConnLoop`: a deadline is set and may pass, its length is not
  modelled. The idle timeout is a choice of `ConnLoop`; in `Server` a handler may return at any time.
* Partial writes: a reply is written whole or not at all; register contents are
  zeroes in the code and lengths in the model.
* Text: usage, log lines, the Prometheus and RESP formats, the encoding of the
  state file and of Docker's answers. That a torn file does not parse is modelled as reading one.
* CPU, receive and memory numbers of the agent: the two counters go through
  the same difference as the transmit counter, the gauge is copied.
* `slave.sh`: `ps`, `net`, `top` and `logs` print what Docker says; `mon` starts
  and stops the monitoring stack, of which only the agent is part of this repository.
* `poll.go`: its ticker, latencies and totals, which are measurements; `smoke.sh`,
  a sequence of commands and comparisons; images, example compose files and the
  Prometheus configuration, of which the restart policy and the health check are
  what `Container` and `SlaveScript` assume of Docker.

## 7. Plan

Done, in this order: `Server` with its abstraction and proofs, the protocol
functions, the connection handler, configuration and container life cycle, the
agent's sampler and key, the Redis client; then the agent's start with the
collector map, `slave.sh`, the clients of `scripts/`, SETs that arrive late and
networks that go away, the theorems about the state file, the collector map,
the rates, the Redis connection and `up`, and those about the connection handler, the
configuration, the healthcheck and the remaining types.

Next, extending the model: the client of `ConnLoop` against the limit of `Server`;
`RedisClient` under the loop of `Sampler`, in one module; the stale gauge of an empty
cycle (`main.go:121`) as a run of its own.

Then, proving more: the safe halves of the remaining liveness properties, and each component
against an abstract specification of its own, as `Server` is against `ConnLimiter`: a connection as
a queue of questions and answers, the state file as a value that changes at once, a Redis
client as a register.
