------------------------------- MODULE Server -------------------------------
(***************************************************************************)
(* The life of one modbus-slave process around its connections: the accept *)
(* loop with its connection limit (internal/server/server.go), the tail of *)
(* every connection's goroutine, Shutdown, and the part of run() in        *)
(* cmd/modbus-slave/main.go that starts and stops them.                    *)
(*                                                                         *)
(* Every connection is one net.Conn, used once.  What a handler does with  *)
(* its frames is in ConnLoop; here it runs until it returns, which it may  *)
(* do at any time (EOF, bad header, deadline) and must do once its socket  *)
(* is closed or its client has gone.                                       *)
(***************************************************************************)
EXTENDS Naturals, FiniteSets

CONSTANTS Conns,     \* the connections clients may open
          MaxConns   \* cfg.MaxConns, the capacity of the channel s.sem

ASSUME ConnsAssumption == IsFiniteSet(Conns)
ASSUME MaxConnsAssumption == MaxConns \in Nat \ {0}

VARIABLES
  stage,        \* how far each connection has come, see Stages
  open,         \* connections whose server-side socket is open
  hungUp,       \* connections whose client has closed its end
  lnOpen,       \* the listener is open
  acceptFailed, \* Accept has failed for a reason other than Shutdown
  serve,        \* where the goroutine of Serve is
  sem,          \* len(s.sem)
  wg,           \* the counter of s.wg
  conns,        \* s.conns
  closing,      \* s.closing
  shut,         \* where Shutdown is
  waiter,       \* the goroutine Shutdown starts for s.wg.Wait()
  grace,        \* the timer of shutdownCtx
  signalled,    \* SIGINT or SIGTERM has been received
  main          \* where run() is, or how the process ended

connVars == <<stage, open, hungUp>>
serveVars == <<lnOpen, acceptFailed, serve, sem, wg, conns>>
shutVars == <<closing, shut, waiter, grace>>
mainVars == <<signalled, main>>
vars == <<connVars, serveVars, shutVars, mainVars>>

\* "accepted" .. "counted" is the connection in the hands of the accept loop,
\* "serving" .. "released" the connection of a handler goroutine.
Stages == {"away", "backlog",
           "accepted", "slot", "tracked", "counted",
           "serving", "closed", "untracked", "released",
           "ended", "rejected", "reset"}

At(S) == {c \in Conns : stage[c] \in S}

HandStages == {"accepted", "slot", "tracked", "counted"}
SlotStages == {"slot", "tracked", "counted", "serving", "closed", "untracked"}
CountStages == {"counted", "serving", "closed", "untracked", "released"}
TrackStages == {"tracked", "counted", "serving", "closed"}

InHand == At(HandStages)
SlotHolders == At(SlotStages)
Counted == At(CountStages)
Tracked == At(TrackStages)

Running == main \in {"select", "shutdown"}

TypeOK ==
  /\ stage \in [Conns -> Stages]
  /\ open \subseteq Conns
  /\ hungUp \subseteq Conns
  /\ lnOpen \in BOOLEAN
  /\ acceptFailed \in BOOLEAN
  /\ serve \in {"accept", "conn", "check", "nil", "err"}
  /\ sem \in Nat
  /\ wg \in Nat
  /\ conns \subseteq Conns
  /\ closing \in BOOLEAN
  /\ shut \in {"idle", "store", "close", "wait", "closeAll", "drain", "nil", "err"}
  /\ waiter \in {"none", "starting", "parked", "woken", "done"}
  /\ grace \in {"off", "running", "fired"}
  /\ signalled \in BOOLEAN
  /\ main \in {"select", "shutdown", "ok", "failed", "panic"}

Init ==
  /\ stage = [c \in Conns |-> "away"]
  /\ open = {}
  /\ hungUp = {}
  /\ lnOpen = TRUE
  /\ acceptFailed = FALSE
  /\ serve = "accept"
  /\ sem = 0
  /\ wg = 0
  /\ conns = {}
  /\ closing = FALSE
  /\ shut = "idle"
  /\ waiter = "none"
  /\ grace = "off"
  /\ signalled = FALSE
  /\ main = "select"

Move(c, from, to) == /\ stage[c] = from
                     /\ stage' = [stage EXCEPT ![c] = to]

-----------------------------------------------------------------------------
(* The clients and the operating system. *)

Dial(c) ==
  /\ Running /\ lnOpen
  /\ Move(c, "away", "backlog")
  /\ UNCHANGED <<open, hungUp, serveVars, shutVars, mainVars>>

HangUp(c) ==
  /\ Running /\ stage[c] # "away" /\ c \notin hungUp
  /\ hungUp' = hungUp \cup {c}
  /\ UNCHANGED <<stage, open, serveVars, shutVars, mainVars>>

Signal ==
  /\ Running /\ ~signalled
  /\ signalled' = TRUE
  /\ UNCHANGED <<connVars, serveVars, shutVars, main>>

-----------------------------------------------------------------------------
(* Serve: the accept loop. *)

Accept(c) ==
  /\ Running /\ serve = "accept" /\ lnOpen
  /\ Move(c, "backlog", "accepted")
  /\ open' = open \cup {c}
  /\ serve' = "conn"
  /\ UNCHANGED <<hungUp, lnOpen, acceptFailed, sem, wg, conns, shutVars, mainVars>>

\* Accept returns an error because the listener is closed.
AcceptClosed ==
  /\ Running /\ serve = "accept" /\ ~lnOpen
  /\ serve' = "check"
  /\ UNCHANGED <<connVars, lnOpen, acceptFailed, sem, wg, conns, shutVars, mainVars>>

\* Accept returns an error of its own, such as EMFILE.
AcceptFails ==
  /\ Running /\ serve = "accept" /\ lnOpen
  /\ serve' = "check"
  /\ acceptFailed' = TRUE
  /\ UNCHANGED <<connVars, lnOpen, sem, wg, conns, shutVars, mainVars>>

CheckClosing ==
  /\ Running /\ serve = "check"
  /\ serve' = IF closing THEN "nil" ELSE "err"
  /\ UNCHANGED <<connVars, lnOpen, acceptFailed, sem, wg, conns, shutVars, mainVars>>

\* Mutated: room is tested after one connection too many.
TakeSlotOffByOne(c) ==
  /\ Running /\ sem <= MaxConns
  /\ Move(c, "accepted", "slot")
  /\ sem' = sem + 1
  /\ UNCHANGED <<open, hungUp, lnOpen, acceptFailed, serve, wg, conns, shutVars, mainVars>>

TakeSlot(c) ==
  /\ Running /\ sem < MaxConns
  /\ Move(c, "accepted", "slot")
  /\ sem' = sem + 1
  /\ UNCHANGED <<open, hungUp, lnOpen, acceptFailed, serve, wg, conns, shutVars, mainVars>>

\* Mutated: a connection may be refused although there is room.
RejectUnguarded(c) ==
  /\ Running
  /\ Move(c, "accepted", "rejected")
  /\ open' = open \ {c}
  /\ serve' = "accept"
  /\ UNCHANGED <<hungUp, lnOpen, acceptFailed, sem, wg, conns, shutVars, mainVars>>

\* Mutated: without the default branch the send on s.sem blocks.
RejectMissing(c) == FALSE

Reject(c) ==
  /\ Running /\ sem = MaxConns
  /\ Move(c, "accepted", "rejected")
  /\ open' = open \ {c}
  /\ serve' = "accept"
  /\ UNCHANGED <<hungUp, lnOpen, acceptFailed, sem, wg, conns, shutVars, mainVars>>

\* Mutated: the connection is not entered in s.conns.
TrackSkipped(c) ==
  /\ Running
  /\ Move(c, "slot", "tracked")
  /\ UNCHANGED <<open, hungUp, lnOpen, acceptFailed, serve, sem, wg, conns, shutVars, mainVars>>

Track(c) ==
  /\ Running
  /\ Move(c, "slot", "tracked")
  /\ conns' = conns \cup {c}
  /\ UNCHANGED <<open, hungUp, lnOpen, acceptFailed, serve, sem, wg, shutVars, mainVars>>

CountConn(c) ==
  /\ Running
  /\ Move(c, "tracked", "counted")
  /\ wg' = wg + 1
  /\ UNCHANGED <<open, hungUp, lnOpen, acceptFailed, serve, sem, conns, shutVars, mainVars>>

Spawn(c) ==
  /\ Running
  /\ Move(c, "counted", "serving")
  /\ serve' = "accept"
  /\ UNCHANGED <<open, hungUp, lnOpen, acceptFailed, sem, wg, conns, shutVars, mainVars>>

ServeConn(c) == TakeSlot(c) \/ Reject(c) \/ Track(c) \/ CountConn(c) \/ Spawn(c)

ServeStep == \/ \E c \in Conns : Accept(c) \/ ServeConn(c)
             \/ AcceptClosed \/ CheckClosing

-----------------------------------------------------------------------------
(* The goroutine of a connection: handleConn, then its defers in order. *)

\* Mutated: handleConn returns without closing its socket.
HandlerReturnsOpen(c) ==
  /\ Running
  /\ Move(c, "serving", "closed")
  /\ UNCHANGED <<open, hungUp, serveVars, shutVars, mainVars>>

HandlerReturns(c) ==
  /\ Running
  /\ Move(c, "serving", "closed")
  /\ open' = open \ {c}
  /\ UNCHANGED <<hungUp, serveVars, shutVars, mainVars>>

\* A read or a write on a socket closed at either end does not block.
HandlerMustReturn(c) == (c \in hungUp \/ c \notin open) /\ HandlerReturns(c)

Untrack(c) ==
  /\ Running
  /\ Move(c, "closed", "untracked")
  /\ conns' = conns \ {c}
  /\ UNCHANGED <<open, hungUp, lnOpen, acceptFailed, serve, sem, wg, shutVars, mainVars>>

\* Mutated: the deferred receive from s.sem is missing.
ReleaseSlotSkipped(c) ==
  /\ Running
  /\ Move(c, "untracked", "released")
  /\ UNCHANGED <<open, hungUp, lnOpen, acceptFailed, serve, sem, wg, conns, shutVars, mainVars>>

ReleaseSlot(c) ==
  /\ Running
  /\ Move(c, "untracked", "released")
  /\ sem' = sem - 1
  /\ UNCHANGED <<open, hungUp, lnOpen, acceptFailed, serve, wg, conns, shutVars, mainVars>>

\* Mutated: wg.Done runs twice.
HandlerDoneTwice(c) ==
  /\ Running
  /\ Move(c, "released", "ended")
  /\ wg' = wg - 2
  /\ waiter' = IF wg = 2 /\ waiter = "parked" THEN "woken" ELSE waiter
  /\ UNCHANGED <<open, hungUp, lnOpen, acceptFailed, serve, sem, conns,
                 closing, shut, grace, mainVars>>

\* wg.Done: the one that brings the counter to zero releases a parked Wait.
HandlerDone(c) ==
  /\ Running
  /\ Move(c, "released", "ended")
  /\ wg' = wg - 1
  /\ waiter' = IF wg = 1 /\ waiter = "parked" THEN "woken" ELSE waiter
  /\ UNCHANGED <<open, hungUp, lnOpen, acceptFailed, serve, sem, conns,
                 closing, shut, grace, mainVars>>

HandlerCleanup(c) == Untrack(c) \/ ReleaseSlot(c) \/ HandlerDone(c)

-----------------------------------------------------------------------------
(* Shutdown and the goroutine it starts. *)

\* Mutated: Shutdown does not announce itself before it closes the listener.
StoreClosingSkipped ==
  /\ Running /\ shut = "store"
  /\ shut' = "close"
  /\ UNCHANGED <<connVars, serveVars, closing, waiter, grace, mainVars>>

StoreClosing ==
  /\ Running /\ shut = "store"
  /\ closing' = TRUE
  /\ shut' = "close"
  /\ UNCHANGED <<connVars, serveVars, waiter, grace, mainVars>>

\* Mutated: the listener stays open.
CloseListenerSkipped ==
  /\ Running /\ shut = "close"
  /\ shut' = "wait"
  /\ waiter' = "starting"
  /\ UNCHANGED <<connVars, serveVars, closing, grace, mainVars>>

\* Closing the listener resets the connections nobody has accepted yet.
CloseListener ==
  /\ Running /\ shut = "close"
  /\ lnOpen' = FALSE
  /\ stage' = [c \in Conns |-> IF stage[c] = "backlog" THEN "reset" ELSE stage[c]]
  /\ shut' = "wait"
  /\ waiter' = "starting"
  /\ UNCHANGED <<open, hungUp, acceptFailed, serve, sem, wg, conns, closing, grace, mainVars>>

WaiterStarts ==
  /\ Running /\ waiter = "starting"
  /\ waiter' = IF wg = 0 THEN "done" ELSE "parked"
  /\ UNCHANGED <<connVars, serveVars, closing, shut, grace, mainVars>>

\* A Wait released by Done finds the counter at zero, or panics: "WaitGroup is
\* reused before previous Wait has returned".
WaiterWakes ==
  /\ Running /\ waiter = "woken"
  /\ IF wg = 0 THEN waiter' = "done" /\ UNCHANGED main
               ELSE main' = "panic" /\ UNCHANGED waiter
  /\ UNCHANGED <<connVars, serveVars, closing, shut, grace, signalled>>

Drained ==
  /\ Running /\ shut = "wait" /\ waiter = "done"
  /\ shut' = "nil"
  /\ UNCHANGED <<connVars, serveVars, closing, waiter, grace, mainVars>>

GraceFires ==
  /\ Running /\ grace = "running"
  /\ grace' = "fired"
  /\ UNCHANGED <<connVars, serveVars, closing, shut, waiter, mainVars>>

GiveUpWaiting ==
  /\ Running /\ shut = "wait" /\ grace = "fired"
  /\ shut' = "closeAll"
  /\ UNCHANGED <<connVars, serveVars, closing, waiter, grace, mainVars>>

CloseAll ==
  /\ Running /\ shut = "closeAll"
  /\ open' = open \ conns
  /\ shut' = "drain"
  /\ UNCHANGED <<stage, hungUp, serveVars, closing, waiter, grace, mainVars>>

DrainedLate ==
  /\ Running /\ shut = "drain" /\ waiter = "done"
  /\ shut' = "err"
  /\ UNCHANGED <<connVars, serveVars, closing, waiter, grace, mainVars>>

ShutdownStep == \/ StoreClosing \/ CloseListener
                \/ Drained \/ GiveUpWaiting \/ CloseAll \/ DrainedLate

WaiterStep == WaiterStarts \/ WaiterWakes

-----------------------------------------------------------------------------
(* run(): wait for Serve or for a signal, then leave. *)

ServeEnded ==
  /\ main = "select" /\ serve \in {"nil", "err"}
  /\ main' = IF serve = "err" THEN "failed" ELSE "ok"
  /\ UNCHANGED <<connVars, serveVars, shutVars, signalled>>

SignalReceived ==
  /\ main = "select" /\ signalled
  /\ main' = "shutdown"
  /\ shut' = "store"
  /\ grace' = "running"
  /\ UNCHANGED <<connVars, serveVars, closing, waiter, signalled>>

ShutdownReturned ==
  /\ main = "shutdown" /\ shut \in {"nil", "err"} /\ serve \in {"nil", "err"}
  /\ main' = "ok"
  /\ UNCHANGED <<connVars, serveVars, shutVars, signalled>>

MainStep == ServeEnded \/ SignalReceived \/ ShutdownReturned

Exited == ~Running /\ UNCHANGED vars

-----------------------------------------------------------------------------
Next ==
  \/ \E c \in Conns : \/ Dial(c) \/ HangUp(c)
                      \/ Accept(c) \/ ServeConn(c)
                      \/ HandlerReturns(c) \/ HandlerCleanup(c)
  \/ Signal
  \/ AcceptClosed \/ AcceptFails \/ CheckClosing
  \/ ShutdownStep \/ WaiterStep \/ GraceFires
  \/ MainStep
  \/ Exited

\* The goroutines run and the timer fires; no client is obliged to do anything
\* and Accept need not fail.
Fairness ==
  /\ WF_vars(ServeStep)
  /\ \A c \in Conns : WF_vars(HandlerMustReturn(c)) /\ WF_vars(HandlerCleanup(c))
  /\ WF_vars(ShutdownStep) /\ WF_vars(WaiterStep) /\ WF_vars(GraceFires)
  /\ WF_vars(MainStep)

Spec == Init /\ [][Next]_vars /\ Fairness

-----------------------------------------------------------------------------
(* What the three counters of server.go mean, across all the goroutines that *)
(* move them: s.sem counts the connections between the select of the accept  *)
(* loop and the deferred receive, s.wg those between Add and Done, and       *)
(* s.conns holds exactly those between track and untrack, so that closeAll   *)
(* misses no connection whose handler runs.                                  *)
Accounting ==
  /\ sem = Cardinality(SlotHolders) /\ sem <= MaxConns
  /\ wg = Cardinality(Counted)
  /\ conns = Tracked

(* A socket is closed before its slot is given back, and a refused socket is *)
(* closed at once: the process never holds more than MaxConns + 1 sockets.   *)
SocketsBounded == Cardinality(open) <= MaxConns + 1

(* "Serve returns nil when it ends because of Shutdown" (server.go:69): an   *)
(* error of Serve means that Accept failed by itself.                        *)
CleanServeResult == serve = "err" => acceptFailed

(* Once Shutdown has seen the last Done, or has closed every tracked socket, *)
(* at most one connection is still alive: the one the accept loop had in     *)
(* hand when the listener was closed.                                        *)
AtMostOneEscapes ==
  shut \in {"nil", "drain", "err"} =>
    Cardinality({c \in InHand \cup At({"serving"}) : c \in open}) <= 1

(* The accept loop never waits for a slot: every connection that reaches the *)
(* listener is served, refused or reset, whatever the other clients do.      *)
EveryDialDecided ==
  \A c \in Conns :
    stage[c] = "backlog" ~> (stage[c] \notin {"backlog", "accepted"} \/ serve = "err" \/ ~Running)

(* When the clients have all gone, every slot, count and map entry comes     *)
(* back: no exit of a handler leaks one.                                     *)
NothingLeaks ==
  (\A c \in Conns : stage[c] # "away" => c \in hungUp)
    ~> \/ sem = 0 /\ wg = 0 /\ conns = {} /\ open = {}
       \/ \E c \in Conns : stage[c] # "away" /\ c \notin hungUp
       \/ ~Running

(* A connection that closeAll could not see and whose client stays.          *)
Escaped == \E c \in At({"serving"}) : shut = "drain" /\ c \in open \ hungUp

(* A signal ends the process, unless a connection escaped closeAll.          *)
SignalExitsUnlessEscaped == signalled ~> (~Running \/ Escaped)

(* The admission promise of ConnLimiter, kept by the goroutines.             *)
PlaceOf(s) == CASE s = "away" -> "away"
                [] s \in {"backlog", "accepted"} -> "waiting"
                [] s \in SlotStages -> "slot"
                [] s \in {"released", "ended"} -> "gone"
                [] s = "rejected" -> "refused"
                [] OTHER -> "reset"
Place == [c \in Conns |-> PlaceOf(stage[c])]
Limiter == INSTANCE ConnLimiter WITH Limit <- MaxConns, place <- Place
LimiterSpec == Limiter!Spec

(* PLAN.md:165: after SIGTERM the process waits at most five seconds for its *)
(* connections and ends.                                                     *)
SignalExits == signalled ~> ~Running
=============================================================================
