------------------------------- MODULE Config -------------------------------
(***************************************************************************)
(* internal/config: how command-line arguments, environment variables and  *)
(* defaults become the configuration of one process, or an error.          *)
(*                                                                         *)
(* A source of settings is a record: `vals` maps the settings it gives to  *)
(* their values, `bad` holds those whose text is not a number.  Function   *)
(* codes are the sequence of numbers between the commas.                   *)
(***************************************************************************)
EXTENDS ModbusPDU, Sequences, SequencesExt

CONSTANTS Addresses,  \* what a listener can be told to bind to
          Paths       \* where a state file can be

Nowhere == ""  \* no state file is kept
DefaultStateFile == "/run/modbus/state.json"

ASSUME ConfigAssumption ==
  /\ {"", "0.0.0.0", "127.0.0.1", "::1"} \subseteq Addresses
  /\ {Nowhere, DefaultStateFile} \subseteq Paths

Ports == 0..65535

Settings == {"bind", "port", "registers", "unit", "codes", "maxConns", "idle", "stateFile"}

Defaults == [bind |-> "0.0.0.0", port |-> 0, registers |-> 1000, unit |-> 1,
             codes |-> <<3>>, maxConns |-> 256, idle |-> 0,
             stateFile |-> DefaultStateFile]

\* What flag and strconv make of a setting's text.
ValuesOf == [bind |-> Addresses, port |-> Int, registers |-> Int, unit |-> Int,
             codes |-> Seq(Int), maxConns |-> Int, idle |-> Int, stateFile |-> Paths]

Numbers == {"port", "registers", "unit", "maxConns", "idle"}

IsSource(source) ==
  /\ DOMAIN source.vals \subseteq Settings /\ source.bad \subseteq Numbers
  /\ \A s \in DOMAIN source.vals : source.vals[s] \in ValuesOf[s]

NoSource == [vals |-> << >>, bad |-> {}]

\* Flags win over the environment, and the environment over the defaults.
Effective(args, env) ==
  [s \in Settings |-> IF s \in DOMAIN args.vals THEN args.vals[s]
                     ELSE IF s \in DOMAIN env.vals THEN env.vals[s] ELSE Defaults[s]]

\* ParseFunctionCodes after each of its rounds: a repeated code counts once, in
\* the order first given.
CodesAfter(spec) ==
  LET out[n \in 0..Len(spec)] ==
        IF n = 0 THEN <<>>
        ELSE IF spec[n] \in ToSet(out[n - 1]) THEN out[n - 1] ELSE Append(out[n - 1], spec[n])
  IN  out

FunctionCodes(spec) == CodesAfter(spec)[Len(spec)]

\* Mutated: a code that is not implemented is let through.
FunctionCodesOKAnyCode(spec) == spec # <<>>

FunctionCodesOK(spec) == spec # <<>> /\ ToSet(spec) \subseteq Implemented

\* Mutated: the address space is not bounded above.
ValidateNoMaximum(c) ==
  /\ c.healthcheck \/ c.port # 0
  /\ c.port \in Ports
  /\ c.registers >= 1
  /\ c.maxConns >= 1
  /\ c.idle >= 0

Validate(c) ==
  /\ c.healthcheck \/ c.port # 0
  /\ c.port \in Ports
  /\ c.registers \in 1..MaxRegisters
  /\ c.maxConns >= 1
  /\ c.idle >= 0

\* A number that does not parse is an error wherever it stands, even in a
\* variable that a flag overrides.
Parse(args, env, healthcheck) ==
  LET e == Effective(args, env)
      c == [bind |-> e.bind, port |-> e.port, registers |-> e.registers,
            unit |-> e.unit % 256, any |-> e.unit = 0, codes |-> FunctionCodes(e.codes),
            maxConns |-> e.maxConns, idle |-> e.idle, stateFile |-> e.stateFile,
            healthcheck |-> healthcheck]
      ok == /\ args.bad = {} /\ env.bad = {}
            /\ FunctionCodesOK(e.codes)
            /\ e.unit \in 0..255
            /\ Validate(c)
  IN  [ok |-> ok, cfg |-> c]
=============================================================================
