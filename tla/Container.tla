----------------------------- MODULE Container -----------------------------
(***************************************************************************)
(* One container: the modbus-slave process from run() to exit              *)
(* (cmd/modbus-slave/main.go), the state file it leaves (internal/state),  *)
(* and the healthcheck process (internal/health) that Docker starts beside *)
(* it with the same environment and none of its arguments.                 *)
(*                                                                         *)
(* The container may be killed and restarted at any step; its file system, *)
(* arguments and environment stay.                                         *)
(***************************************************************************)
EXTENDS Config

CONSTANTS Launches,    \* what the container may be started with: its arguments, its
                       \* environment, and whether the arguments ask for help
          MaxRestarts  \* bound on restarts

ASSUME ContainerAssumption ==
  /\ \A l \in Launches : IsSource(l.args) /\ IsSource(l.env) /\ l.help \in BOOLEAN
  /\ MaxRestarts \in Nat

VARIABLES
  launch,     \* the arguments and the environment
  proc,       \* where run() is
  code,       \* its exit code, or -1
  restarts,   \* restarts so far
  listening,  \* the listener is open
  full,       \* every connection slot is taken
  tmp, file,  \* contents of the temporary file and of the state file, where
              \* the process was told to put it
  hc,         \* where health.Run is
  probe,      \* what it has worked out: [port, host, unit, fc]
  calm        \* the process has served with a free slot since the check began

procVars == <<launch, proc, code, restarts, listening, full, tmp, file>>
hcVars == <<hc, probe>>
vars == <<procVars, hcVars, calm>>

Serving == proc = "serve" /\ ~full

Parsed == Parse(launch.args, launch.env, FALSE)
cfg == Parsed.cfg
HcParsed == Parse(NoSource, launch.env, TRUE)
hcCfg == HcParsed.cfg

NoFile == [what |-> "none"]
Torn == [what |-> "torn"]
StateOf(c) == [what |-> "state", bind |-> c.bind, port |-> c.port,
               unit |-> c.unit, any |-> c.any, codes |-> c.codes]

NoProbe == [port |-> 0, host |-> "", unit |-> 0, fc |-> 0]

Init ==
  /\ launch \in Launches
  /\ proc = "parse" /\ code = -1 /\ restarts = 0
  /\ listening = FALSE /\ full = FALSE
  /\ tmp = NoFile /\ file = NoFile
  /\ hc = "none" /\ probe = NoProbe
  /\ calm = FALSE

\* calm survives a step that leaves the process serving with a free slot.
Watch == calm' = (calm /\ Serving')

-----------------------------------------------------------------------------
(* run(). *)

\* The end of the first process of a container ends the healthcheck with it.
Exit(c) == /\ proc' = "exited" /\ code' = c
           /\ listening' = FALSE /\ full' = FALSE
           /\ hc' = "none" /\ probe' = NoProbe

\* -h prints the usage before anything else is looked at, and is no error.
ParseConfig ==
  /\ proc = "parse"
  /\ \/ launch.help /\ Exit(0)
     \/ ~launch.help /\ ~Parsed.ok /\ Exit(2)
     \/ /\ ~launch.help /\ Parsed.ok
        /\ proc' = "listen" /\ UNCHANGED <<code, listening, full, hcVars>>
  /\ UNCHANGED <<launch, restarts, tmp, file>> /\ Watch

\* JoinHostPort makes "[[::]]:port", no address, of the bracketed wildcard.
Listen ==
  /\ proc = "listen"
  /\ \/ /\ cfg.bind # "[::]"
        /\ proc' = IF cfg.stateFile # Nowhere THEN "write" ELSE "notify"
        /\ listening' = TRUE
        /\ UNCHANGED <<code, full, hcVars>>
     \/ Exit(1)   \* the port is taken, or the address is not ours
  /\ UNCHANGED <<launch, restarts, tmp, file>> /\ Watch

\* Mutated: the state file is written in place.
WriteStateInPlace ==
  /\ proc \in {"write", "torn"}
  /\ IF proc = "write" THEN file' = Torn /\ proc' = "torn"
                       ELSE file' = StateOf(cfg) /\ proc' = "notify"
  /\ UNCHANGED <<launch, code, restarts, listening, full, tmp, hcVars>> /\ Watch

\* state.Write up to the rename: the temporary file is first torn, then whole;
\* a failure at any point is logged and ignored.
WriteState ==
  /\ proc \in {"write", "torn"}
  /\ \/ proc = "write" /\ tmp' = Torn /\ proc' = "torn"
     \/ proc = "torn" /\ tmp' = StateOf(cfg) /\ proc' = "rename"
     \/ UNCHANGED tmp /\ proc' = "notify"
  /\ UNCHANGED <<launch, code, restarts, listening, full, file, hcVars>> /\ Watch

RenameState ==
  /\ proc = "rename"
  /\ \/ file' = tmp /\ tmp' = NoFile
     \/ UNCHANGED <<file, tmp>>
  /\ proc' = "notify"
  /\ UNCHANGED <<launch, code, restarts, listening, full, hcVars>> /\ Watch

\* signal.NotifyContext, then Serve.
StartServing ==
  /\ proc = "notify"
  /\ proc' = "serve"
  /\ UNCHANGED <<launch, code, restarts, listening, full, tmp, file, hcVars>> /\ Watch

\* Clients take the last slot, or give one back.
Saturate ==
  /\ proc = "serve"
  /\ full' = ~full
  /\ UNCHANGED <<launch, proc, code, restarts, listening, tmp, file, hcVars>> /\ Watch

\* Mutated: the listener is left open.
TerminateListening ==
  /\ proc = "serve"
  /\ proc' = "stopping"
  /\ UNCHANGED <<launch, code, restarts, listening, full, tmp, file, hcVars>> /\ Watch

\* SIGTERM after NotifyContext: Shutdown closes the listener.
Terminate ==
  /\ proc = "serve"
  /\ proc' = "stopping" /\ listening' = FALSE
  /\ UNCHANGED <<launch, code, restarts, full, tmp, file, hcVars>> /\ Watch

\* Serve fails on its own: run() returns 1, through its deferred calls.
ServeFails ==
  /\ proc = "serve"
  /\ proc' = "failed"
  /\ UNCHANGED <<launch, code, restarts, listening, full, tmp, file, hcVars>> /\ Watch

\* The deferred state.Remove, whose failure is ignored, then os.Exit.
Leave ==
  /\ proc \in {"stopping", "failed"}
  /\ Exit(IF proc = "failed" THEN 1 ELSE 0)
  /\ file' = file \/ (cfg.stateFile # Nowhere /\ file' = NoFile)
  /\ UNCHANGED <<launch, restarts, tmp>> /\ Watch

\* SIGKILL, a crash, or SIGTERM while no handler is installed.
Kill ==
  /\ proc # "exited"
  /\ Exit(137)
  /\ UNCHANGED <<launch, restarts, tmp, file>> /\ Watch

Restart ==
  /\ proc = "exited" /\ restarts < MaxRestarts
  /\ proc' = "parse" /\ code' = -1 /\ restarts' = restarts + 1
  /\ UNCHANGED <<launch, listening, full, tmp, file, hcVars>> /\ Watch

ProcStep == \/ ParseConfig \/ Listen \/ WriteState \/ RenameState \/ StartServing \/ Leave

-----------------------------------------------------------------------------
(* health.Run. *)

\* dialHost: a wildcard address is reached through loopback.
DialHost(bind) == CASE bind \in {"", "0.0.0.0"} -> "127.0.0.1"
                    [] bind \in {"::", "[::]"}  -> "::1"
                    [] OTHER                    -> bind

\* Mutated: the healthcheck always asks with function code 3.
FirstReadFCFixed(codes) == 3

\* firstReadFC: every code that can be configured is a read.
FirstReadFC(codes) == codes[SelectInSeq(codes, LAMBDA fc : fc \in ReadCodes)]

StartCheck ==
  /\ hc = "none" /\ proc # "exited"
  /\ hc' = IF HcParsed.ok THEN (IF hcCfg.port = 0 THEN "read" ELSE "dial") ELSE "fail"
  /\ probe' = IF HcParsed.ok
              THEN [port |-> hcCfg.port, host |-> DialHost(hcCfg.bind),
                    unit |-> IF hcCfg.any THEN 1 ELSE hcCfg.unit,
                    fc |-> FirstReadFC(hcCfg.codes)]
              ELSE NoProbe
  /\ calm' = Serving
  /\ UNCHANGED procVars

\* What is where the healthcheck looks for a state file.
Found == IF hcCfg.stateFile = cfg.stateFile THEN file ELSE NoFile

\* Port, unit and codes come from the state file; the address does not.
ReadState ==
  /\ hc = "read"
  /\ IF Found.what = "state" /\ Found.port # 0
     THEN /\ hc' = "dial"
          /\ probe' = [probe EXCEPT !.port = Found.port,
                                    !.unit = IF Found.any THEN 1 ELSE Found.unit,
                                    !.fc = FirstReadFC(Found.codes)]
     ELSE hc' = (IF Found.what = "torn" THEN "tornRead" ELSE "fail") /\ UNCHANGED probe
  /\ UNCHANGED <<procVars, calm>>

\* Who the listener answers: a wildcard address everyone on the host - that of
\* IPv4 those who dial IPv4 - and any other address those who dial exactly it.
Reaches == /\ listening /\ probe.port = cfg.port
           /\ \/ DialHost(cfg.bind) = probe.host
              \/ cfg.bind \in {"", "::"}
              \/ cfg.bind = "0.0.0.0" /\ probe.host # "::1"

DialSelf ==
  /\ hc = "dial"
  /\ hc' = IF Reaches THEN "ask" ELSE "fail"
  /\ UNCHANGED <<procVars, probe, calm>>

Accepted == cfg.any \/ probe.unit = cfg.unit

\* The request for one register.
ReadOne(fc, start) == [len |-> 5, fc |-> fc, start |-> start, qty |-> 1]

Reply == Handle(NewHandler(cfg.registers, ToSet(cfg.codes)), ReadOne(probe.fc, 0))

\* The connection is accepted and the request answered.
Answered ==
  /\ hc = "ask" /\ Serving /\ Accepted
  /\ hc' = IF Reply.fc = probe.fc THEN "pass" ELSE "fail"
  /\ UNCHANGED <<procVars, probe, calm>>

\* The connection is refused or broken.
Refused ==
  /\ hc = "ask" /\ (full \/ ~listening)
  /\ hc' = "fail"
  /\ UNCHANGED <<procVars, probe, calm>>

\* Mutated: without SetDeadline a silent server is waited for.
TimedOutNever == FALSE

\* No answer comes: the unit is not ours, or nobody accepts yet.
TimedOut ==
  /\ hc = "ask" /\ (~Accepted \/ ~Serving)
  /\ hc' = "fail"
  /\ UNCHANGED <<procVars, probe, calm>>

CheckOver ==
  /\ hc \in {"pass", "fail", "tornRead"}
  /\ hc' = "none" /\ probe' = NoProbe /\ calm' = FALSE
  /\ UNCHANGED procVars

CheckStep == ReadState \/ DialSelf \/ Answered \/ Refused \/ TimedOut \/ CheckOver

-----------------------------------------------------------------------------
Stopped == proc = "exited" /\ restarts = MaxRestarts /\ hc = "none" /\ UNCHANGED vars

Next == \/ ProcStep \/ Saturate \/ Terminate \/ ServeFails \/ Kill \/ Restart
        \/ StartCheck \/ CheckStep
        \/ Stopped

\* The healthcheck process runs and its deadline passes.
Spec == Init /\ [][Next]_vars /\ WF_vars(CheckStep)

TypeOK ==
  /\ launch \in Launches
  /\ proc \in {"parse", "listen", "write", "torn", "rename", "notify", "serve",
               "stopping", "failed", "exited"}
  /\ code \in {-1, 0, 1, 2, 137} /\ restarts \in 0..MaxRestarts
  /\ code = -1 <=> proc # "exited"
  /\ listening => proc \in {"write", "torn", "rename", "notify", "serve", "failed"}
  /\ {listening, full, calm} \subseteq BOOLEAN
  /\ {tmp, file} \subseteq {NoFile, Torn, StateOf(cfg)}
  /\ hc \in {"none", "read", "dial", "ask", "pass", "fail", "tornRead"}
  /\ probe \in [port : Ports, host : Addresses, unit : Byte, fc : Byte]

(* The temporary file and the rename of state.go:38-42 keep a healthcheck    *)
(* from ever reading half a state file, through any number of crashes.       *)
NeverTorn == hc # "tornRead"

(* Whatever mixture of flags and variables a process starts with, it keeps   *)
(* what it was told: every function code given is answered, from the first   *)
(* to the last register given, and so is the first read code, with which its *)
(* healthcheck asks; the unit given is the only one it has, or it has them   *)
(* all (config.go:107-130).  What it could not keep, it does not start with. *)
ConfigServable ==
  LET given   == Effective(launch.args, launch.env)
      handler == NewHandler(cfg.registers, ToSet(cfg.codes))
  IN  proc \notin {"parse", "exited"} =>
        /\ cfg.port = given.port /\ cfg.port >= 1 /\ cfg.port <= 65535
        /\ IF given.unit = 0 THEN cfg.any ELSE ~cfg.any /\ cfg.unit = given.unit
        /\ handler \in Handlers
        /\ \A fc \in ToSet(given.codes) : \A start \in {0, given.registers - 1} :
             start <= 65535 /\ Handle(handler, ReadOne(fc, start)).fc = fc
        /\ FirstReadFC(cfg.codes) \in ToSet(given.codes)

\* What the arguments of a launch leave to its environment, so that the
\* healthcheck, which has no arguments, knows where to ask and what: the address
\* always; all that it asks with, when the environment gives a port; and else
\* the path of the state file, if there is to be one.
SharesSettings(l) ==
  Parse(l.args, l.env, FALSE).ok =>
    /\ Parse(NoSource, l.env, TRUE).ok
    /\ "bind" \notin DOMAIN l.args.vals
    /\ IF Effective(NoSource, l.env).port # 0
       THEN DOMAIN l.args.vals \cap {"port", "unit", "codes"} = {}
       ELSE Effective(l.args, l.env).stateFile \in {Nowhere, Effective(NoSource, l.env).stateFile}

(* README.md:130: the healthcheck asks the server with the server's own      *)
(* settings - so a process that serves with a free slot for as long as the   *)
(* check takes passes it, when it managed to write its state file.           *)
ServingPasses == hc = "fail" /\ calm => file = NoFile /\ hcCfg.port = 0

(* A healthcheck ends, whatever the server does (health.go:56).              *)
HealthcheckEnds == hc # "none" ~> hc = "none"
=============================================================================
