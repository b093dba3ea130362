--------------------------- MODULE ContainerProofs ---------------------------
(***************************************************************************)
(* The configuration of a process, its state file and its healthcheck, for *)
(* every launch, any number of restarts and a kill at any step.            *)
(***************************************************************************)
EXTENDS Container, TLAPS, FiniteSetTheorems, SequenceTheorems, WellFoundedInduction

-----------------------------------------------------------------------------
(* The function codes.                                                       *)

LEMMA Smallest ==
  ASSUME NEW T \in SUBSET Nat, T # {}
  PROVE  \E m \in T : \A k \in T : m <= k
<1>1. PICK m \in T : \A k \in T : <<k, m>> \notin OpToRel(<, Nat)
  BY WFMin, NatLessThanWellFounded
<1>2. \A k \in T : ~(k < m)
  BY <1>1 DEF OpToRel
<1> QED BY <1>2

(* What ParseFunctionCodes has after n rounds is what one more makes of what   *)
(* it had before: the recursion of CodesAfter has a solution.                  *)
Round(spec, out, n) ==
  IF n = 0 THEN <<>>
  ELSE IF spec[n] \in ToSet(out[n - 1]) THEN out[n - 1] ELSE Append(out[n - 1], spec[n])

Rounds(spec, n, out) == out = [k \in 0..n |-> Round(spec, out, k)]

LEMMA MoreRounds ==
  ASSUME NEW spec, NEW n \in Nat, \E out : Rounds(spec, n, out)
  PROVE  \E out : Rounds(spec, n + 1, out)
<1>1. PICK f : Rounds(spec, n, f)
  OBVIOUS
<1> DEFINE g == [k \in 0..n + 1 |-> IF k <= n THEN f[k] ELSE Round(spec, f, k)]
<1>2. \A k \in 0..n : g[k] = f[k] /\ f[k] = Round(spec, f, k)
  BY <1>1 DEF Rounds
<1>3. ASSUME NEW k \in 0..n + 1 PROVE g[k] = Round(spec, g, k)
  <2>1. k = 0 \/ (k # 0 /\ k - 1 \in 0..n)
    OBVIOUS
  <2>2. Round(spec, g, k) = Round(spec, f, k)
    <3>1. CASE k = 0 BY <3>1 DEF Round
    <3>2. CASE k # 0 /\ k - 1 \in 0..n
      <4>1. g[k - 1] = f[k - 1]
        BY <1>2, <3>2
      <4> QED BY <4>1 DEF Round
    <3> QED BY <2>1, <3>1, <3>2
  <2>3. CASE k <= n
    <3>1. k \in 0..n
      BY <2>3
    <3> QED BY <1>2, <2>2, <3>1
  <2>4. CASE ~(k <= n)
    BY <2>2, <2>4
  <2> QED BY <2>3, <2>4
<1>4. g = [k \in 0..n + 1 |-> Round(spec, g, k)]
  <2>1. g = [k \in 0..n + 1 |-> g[k]]
    OBVIOUS
  <2> HIDE DEF g
  <2> QED BY <1>3, <2>1
<1> QED BY <1>4 DEF Rounds

LEMMA SomeRounds ==
  ASSUME NEW spec, NEW n \in Nat PROVE \E out : Rounds(spec, n, out)
<1> DEFINE T == {k \in Nat : ~\E out : Rounds(spec, k, out)}
<1> SUFFICES ASSUME T # {} PROVE FALSE
  OBVIOUS
<1>1. PICK m \in T : \A k \in T : m <= k
  BY Smallest
<1>2. m # 0
  <2> DEFINE g == [k \in 0..0 |-> <<>>]
  <2>1. g = [k \in 0..0 |-> Round(spec, g, k)]
    BY DEF Round
  <2>2. Rounds(spec, 0, g)
    BY <2>1 DEF Rounds
  <2> QED BY <2>2
<1>3. m - 1 \in Nat /\ m - 1 + 1 = m /\ m - 1 \notin T
  BY <1>1, <1>2
<1>4. \E out : Rounds(spec, m - 1 + 1, out)
  BY <1>3, MoreRounds
<1> QED BY <1>3, <1>4

LEMMA CodesAreRounds ==
  ASSUME NEW spec, Len(spec) \in Nat
  PROVE  \A n \in 0..Len(spec) : CodesAfter(spec)[n] = Round(spec, CodesAfter(spec), n)
<1>1. CodesAfter(spec) = CHOOSE out : Rounds(spec, Len(spec), out)
  BY DEF CodesAfter, Rounds, Round
<1>2. Rounds(spec, Len(spec), CodesAfter(spec))
  BY <1>1, SomeRounds
<1> HIDE DEF CodesAfter
<1> QED BY <1>2 DEF Rounds

(* ParseFunctionCodes returns the codes of the text, each once and in the     *)
(* order first given: before a code come exactly those given before it        *)
(* (config.go:183-209). firstReadFC depends on that order.                    *)
THEOREM CodesOnce ==
  ASSUME NEW S, NEW spec \in Seq(S)
  PROVE  LET codes == FunctionCodes(spec) IN
         /\ codes \in Seq(S) /\ ToSet(codes) = ToSet(spec)
         /\ IsFiniteSet(ToSet(codes)) /\ Cardinality(ToSet(codes)) = Len(codes)
         /\ \A k \in 1..Len(codes) : \E i \in 1..Len(spec) :
              codes[k] = spec[i] /\ {codes[j] : j \in 1..k - 1} = {spec[j] : j \in 1..i - 1}
<1> DEFINE out == CodesAfter(spec)
           Follows(codes, k, i) ==
             codes[k] = spec[i] /\ {codes[j] : j \in 1..k - 1} = {spec[j] : j \in 1..i - 1}
           Good(n) == /\ out[n] \in Seq(S) /\ ToSet(out[n]) = {spec[i] : i \in 1..n}
                      /\ IsFiniteSet(ToSet(out[n])) /\ Cardinality(ToSet(out[n])) = Len(out[n])
                      /\ \A k \in 1..Len(out[n]) : \E i \in 1..n : Follows(out[n], k, i)
           T == {n \in 0..Len(spec) : ~Good(n)}
<1>1. Len(spec) \in Nat /\ DOMAIN spec = 1..Len(spec) /\ \A i \in 1..Len(spec) : spec[i] \in S
  BY LenProperties
<1>2. \A n \in 0..Len(spec) : out[n] = Round(spec, out, n)
  BY <1>1, CodesAreRounds
<1> HIDE DEF out
<1>3. Good(0)
  <2>1. out[0] = <<>>
    BY <1>1, <1>2 DEF Round
  <2>2. ToSet(<<>>) = {}
    BY DEF ToSet
  <2>3. {spec[i] : i \in 1..0} = {}
    OBVIOUS
  <2>4. <<>> \in Seq(S) /\ Len(<<>>) = 0
    BY EmptySeq
  <2>5. 1..0 = {}
    OBVIOUS
  <2> HIDE DEF Follows
  <2> QED BY <2>1, <2>2, <2>3, <2>4, <2>5, FS_EmptySet
<1>4. ASSUME NEW n \in 1..Len(spec), Good(n - 1) PROVE Good(n)
  <2> DEFINE old == out[n - 1]
             seen == {spec[i] : i \in 1..n - 1}
  <2>1. out[n] = IF spec[n] \in seen THEN old ELSE Append(old, spec[n])
    BY <1>1, <1>2, <1>4 DEF Round
  <2>2. {spec[i] : i \in 1..n} = seen \cup {spec[n]}
    <3>1. \A i : i \in 1..n <=> i \in 1..n - 1 \/ i = n
      OBVIOUS
    <3> QED BY <3>1
  <2> HIDE DEF Follows
  <2>3. CASE spec[n] \in seen
    <3>1. out[n] = old
      BY <2>1, <2>3
    <3>2. \A k \in 1..Len(old) : \E i \in 1..n : Follows(old, k, i)
      <4>1. 1..n - 1 \subseteq 1..n
        OBVIOUS
      <4> QED BY <1>4, <4>1
    <3> QED BY <1>4, <2>2, <2>3, <3>1, <3>2
  <2>4. CASE spec[n] \notin seen
    <3>1. old \in Seq(S) /\ spec[n] \in S /\ Len(old) \in Nat /\ DOMAIN old = 1..Len(old)
      BY <1>1, <1>4, LenProperties
    <3>2. /\ Append(old, spec[n]) \in Seq(S) /\ Len(Append(old, spec[n])) = Len(old) + 1
          /\ DOMAIN Append(old, spec[n]) = 1..Len(old) + 1
          /\ \A i \in 1..Len(old) : Append(old, spec[n])[i] = old[i]
          /\ Append(old, spec[n])[Len(old) + 1] = spec[n]
      BY <3>1, AppendProperties, LenProperties
    <3>3. ToSet(Append(old, spec[n])) = ToSet(old) \cup {spec[n]}
      <4>1. \A i : i \in 1..Len(old) + 1 <=> i \in 1..Len(old) \/ i = Len(old) + 1
        BY <3>1
      <4> HIDE DEF old
      <4> QED BY <3>1, <3>2, <4>1 DEF ToSet
    <3> HIDE DEF seen, old
    <3>4. ToSet(old) = seen /\ IsFiniteSet(seen) /\ Cardinality(seen) = Len(old)
      BY <1>4 DEF seen, old
    <3>5. out[n] = Append(old, spec[n])
      BY <2>1, <2>4
    <3>6. IsFiniteSet(seen \cup {spec[n]}) /\ Cardinality(seen \cup {spec[n]}) = Len(old) + 1
      BY <2>4, <3>4, FS_AddElement
    <3>7. \A k \in 1..Len(old) + 1 : \E i \in 1..n : Follows(Append(old, spec[n]), k, i)
      <4>1. ASSUME NEW k \in 1..Len(old)
            PROVE  \E i \in 1..n : Follows(Append(old, spec[n]), k, i)
        <5>1. PICK i \in 1..n - 1 : Follows(old, k, i)
          BY <1>4 DEF old
        <5>2. Append(old, spec[n])[k] = old[k] /\ i \in 1..n
          BY <3>2, <5>1
        <5>3. \A j \in 1..k - 1 : Append(old, spec[n])[j] = old[j]
          BY <3>1, <3>2
        <5>4. {Append(old, spec[n])[j] : j \in 1..k - 1} = {old[j] : j \in 1..k - 1}
          BY <5>3
        <5> QED BY <5>1, <5>2, <5>4 DEF Follows
      <4>2. Follows(Append(old, spec[n]), Len(old) + 1, n)
        <5>1. \A j \in 1..(Len(old) + 1) - 1 : j \in DOMAIN old /\ Append(old, spec[n])[j] = old[j]
          BY <3>1, <3>2
        <5>2. {Append(old, spec[n])[j] : j \in 1..(Len(old) + 1) - 1} = ToSet(old)
          BY <3>1, <5>1 DEF ToSet
        <5> QED BY <3>2, <3>4, <5>2 DEF Follows, seen
      <4>3. \A k : k \in 1..Len(old) + 1 <=> k \in 1..Len(old) \/ k = Len(old) + 1
        BY <3>1
      <4> QED BY <4>1, <4>2, <4>3
    <3> QED BY <2>2, <3>2, <3>3, <3>4, <3>5, <3>6, <3>7
  <2> QED BY <2>3, <2>4
<1>5. T = {}
  <2> SUFFICES ASSUME T # {} PROVE FALSE
    OBVIOUS
  <2>1. PICK m \in T : \A k \in T : m <= k
    <3>1. T \in SUBSET Nat
      BY <1>1
    <3> QED BY <3>1, Smallest
  <2> HIDE DEF Good
  <2>2. m \in 1..Len(spec) /\ m - 1 \in 0..Len(spec) /\ m - 1 \notin T
    BY <1>1, <1>3, <2>1
  <2> QED BY <1>4, <2>1, <2>2
<1>6. Good(Len(spec))
  <2>1. Len(spec) \in 0..Len(spec)
    BY <1>1
  <2> HIDE DEF Good
  <2> QED BY <1>5, <2>1
<1>7. {spec[i] : i \in 1..Len(spec)} = ToSet(spec)
  BY <1>1 DEF ToSet
<1> QED BY <1>6, <1>7 DEF FunctionCodes, out, Follows

(* The settings of a launch have their types.                                 *)
LEMMA NoSourceIsSource == IsSource(NoSource) /\ DOMAIN NoSource.vals = {}
BY DEF NoSource, IsSource

LEMMA DefaultsFit == \A s \in Settings : Defaults[s] \in ValuesOf[s]
<1>1. <<3>> \in Seq(Int)
  OBVIOUS
<1>2. /\ Defaults["bind"] \in Addresses /\ Defaults["port"] \in Int /\ Defaults["registers"] \in Int
      /\ Defaults["unit"] \in Int /\ Defaults["codes"] \in Seq(Int) /\ Defaults["maxConns"] \in Int
      /\ Defaults["idle"] \in Int /\ Defaults["stateFile"] \in Paths
  <2>1. /\ Defaults["bind"] = "0.0.0.0" /\ Defaults["port"] = 0 /\ Defaults["registers"] = 1000
        /\ Defaults["unit"] = 1 /\ Defaults["codes"] = <<3>> /\ Defaults["maxConns"] = 256
        /\ Defaults["idle"] = 0 /\ Defaults["stateFile"] = DefaultStateFile
    BY DEF Defaults
  <2>2. "0.0.0.0" \in Addresses /\ DefaultStateFile \in Paths
    BY ConfigAssumption
  <2>3. 0 \in Int /\ 1000 \in Int /\ 1 \in Int /\ 256 \in Int
    OBVIOUS
  <2>4. Defaults["bind"] \in Addresses /\ Defaults["stateFile"] \in Paths
    BY <2>1, <2>2, Zenon
  <2>5. Defaults["codes"] \in Seq(Int)
    BY <1>1, <2>1, Zenon
  <2>6. /\ Defaults["port"] \in Int /\ Defaults["registers"] \in Int /\ Defaults["unit"] \in Int
        /\ Defaults["maxConns"] \in Int /\ Defaults["idle"] \in Int
    BY <2>1, <2>3
  <2> QED BY <2>4, <2>5, <2>6
<1>3. /\ ValuesOf["bind"] = Addresses /\ ValuesOf["port"] = Int /\ ValuesOf["registers"] = Int
      /\ ValuesOf["unit"] = Int /\ ValuesOf["codes"] = Seq(Int) /\ ValuesOf["maxConns"] = Int
      /\ ValuesOf["idle"] = Int /\ ValuesOf["stateFile"] = Paths
  BY DEF ValuesOf
<1> QED BY <1>2, <1>3, Zenon DEF Settings

LEMMA EffectiveTypes ==
  ASSUME NEW args, NEW env, IsSource(args), IsSource(env)
  PROVE  \A s \in Settings : Effective(args, env)[s] \in ValuesOf[s]
<1> SUFFICES ASSUME NEW s \in Settings PROVE Effective(args, env)[s] \in ValuesOf[s]
  OBVIOUS
<1>1. Effective(args, env)[s] =
        IF s \in DOMAIN args.vals THEN args.vals[s]
        ELSE IF s \in DOMAIN env.vals THEN env.vals[s] ELSE Defaults[s]
  BY DEF Effective
<1> QED BY <1>1, DefaultsFit DEF IsSource

LEMMA EffectiveFields ==
  ASSUME NEW args, NEW env, IsSource(args), IsSource(env)
  PROVE  LET e == Effective(args, env) IN
         /\ e.bind \in Addresses /\ e.port \in Int /\ e.registers \in Int /\ e.unit \in Int
         /\ e.codes \in Seq(Int) /\ e.maxConns \in Int /\ e.stateFile \in Paths
<1> DEFINE e == Effective(args, env)
<1>1. \A s \in Settings : e[s] \in ValuesOf[s]
  BY EffectiveTypes
<1> HIDE DEF e
<1>2. {"bind", "port", "registers", "unit", "codes", "maxConns", "stateFile"} \subseteq Settings
  BY DEF Settings
<1>3. /\ e["bind"] \in ValuesOf["bind"] /\ e["port"] \in ValuesOf["port"]
      /\ e["registers"] \in ValuesOf["registers"] /\ e["unit"] \in ValuesOf["unit"]
      /\ e["codes"] \in ValuesOf["codes"] /\ e["maxConns"] \in ValuesOf["maxConns"]
      /\ e["stateFile"] \in ValuesOf["stateFile"]
  BY <1>1, <1>2
<1> QED BY <1>3 DEF ValuesOf, e

(* The first read code is the first code: every code is one.                  *)
LEMMA FirstCode ==
  ASSUME NEW codes, DOMAIN codes = 1..Len(codes), Len(codes) \in Nat, Len(codes) # 0,
         ToSet(codes) \subseteq Implemented
  PROVE  FirstReadFC(codes) \in ToSet(codes) /\ FirstReadFC(codes) \in Byte
<1> DEFINE I == {i \in 1..Len(codes) : codes[i] \in ReadCodes}
<1>1. 1 \in 1..Len(codes)
  OBVIOUS
<1>2. \A i \in 1..Len(codes) : codes[i] \in ToSet(codes)
  BY DEF ToSet
<1>3. \A c \in Implemented : c \in ReadCodes /\ c \in Byte
  BY DEF Implemented, ReadCodes, Byte
<1>4. I = 1..Len(codes)
  BY <1>2, <1>3
<1>5. SelectInSeq(codes, LAMBDA fc : fc \in ReadCodes) = Min(I)
  BY <1>1, <1>4 DEF SelectInSeq
<1>6. Min(I) \in I
  BY <1>1, <1>4 DEF Min
<1> QED BY <1>2, <1>3, <1>5, <1>6 DEF FirstReadFC

(* A configuration that parses.                                               *)
LEMMA ParsedFields ==
  ASSUME NEW args, NEW env, IsSource(args), IsSource(env), NEW healthcheck \in BOOLEAN,
         Parse(args, env, healthcheck).ok,
         NEW e, e = Effective(args, env), NEW c, c = Parse(args, env, healthcheck).cfg
  PROVE  /\ c.bind = e.bind /\ c.port = e.port /\ c.unit = e.unit
         /\ c.any \in BOOLEAN /\ (c.any <=> e.unit = 0)
         /\ c.codes = FunctionCodes(e.codes) /\ c.stateFile = e.stateFile
         /\ c.registers = e.registers /\ ToSet(c.codes) = ToSet(e.codes)
         /\ c.bind \in Addresses /\ c.port \in Ports /\ c.unit \in Byte
         /\ c.registers \in 1..MaxRegisters /\ c.maxConns >= 1 /\ c.stateFile \in Paths
         /\ ~healthcheck => c.port # 0
         /\ c.codes \in Seq(Int) /\ c.codes # <<>> /\ Cardinality(ToSet(c.codes)) = Len(c.codes)
         /\ ToSet(c.codes) \subseteq Implemented
         /\ FirstReadFC(c.codes) \in ToSet(c.codes) /\ FirstReadFC(c.codes) \in Byte
<1>1. /\ e.bind \in Addresses /\ e.port \in Int /\ e.registers \in Int /\ e.unit \in Int
      /\ e.codes \in Seq(Int) /\ e.maxConns \in Int /\ e.stateFile \in Paths
  BY EffectiveFields
<1>2. /\ c.bind = e.bind /\ c.port = e.port /\ c.registers = e.registers
      /\ c.unit = e.unit % 256 /\ c.codes = FunctionCodes(e.codes)
      /\ c.maxConns = e.maxConns /\ c.stateFile = e.stateFile
      /\ FunctionCodesOK(e.codes) /\ e.unit \in 0..255
  BY DEF Parse
<1>12. c.any \in BOOLEAN /\ (c.any <=> e.unit = 0)
  <2>1. c.any = (e.unit = 0)
    BY DEF Parse
  <2> QED BY <2>1
<1>13. Validate(c)
  BY DEF Parse
<1>3. e.unit % 256 = e.unit /\ e.unit \in Byte
  <2>1. e.unit \in 0..255
    BY <1>2
  <2> DEFINE top == 255
  <2>2. \A n \in Int : 0 <= n /\ n <= top => n % 256 = n
    OBVIOUS
  <2>3. e.unit \in 0..top /\ Byte = 0..top /\ top \in Int
    BY <2>1 DEF Byte
  <2> HIDE DEF top
  <2>4. e.unit \in Int /\ 0 <= e.unit /\ e.unit <= top
    BY <1>1, <2>3
  <2> QED BY <2>2, <2>3, <2>4
<1>4. /\ c.port \in Ports /\ c.registers \in 1..MaxRegisters /\ c.maxConns >= 1
  BY <1>13 DEF Validate
<1>5. /\ c.codes \in Seq(Int) /\ ToSet(c.codes) = ToSet(e.codes)
      /\ Cardinality(ToSet(c.codes)) = Len(c.codes) /\ IsFiniteSet(ToSet(c.codes))
  BY <1>1, <1>2, CodesOnce
<1>6. ToSet(c.codes) \subseteq Implemented /\ e.codes # <<>>
  BY <1>2, <1>5 DEF FunctionCodesOK
<1>7. /\ DOMAIN c.codes = 1..Len(c.codes) /\ Len(c.codes) \in Nat
      /\ DOMAIN e.codes = 1..Len(e.codes) /\ Len(e.codes) \in Nat \ {0}
  BY <1>1, <1>5, <1>6, LenProperties, EmptySeq
<1>8. ToSet(c.codes) # {}
  <2>1. e.codes[1] \in ToSet(e.codes)
    BY <1>7 DEF ToSet
  <2> QED BY <1>5, <2>1
<1>9. Len(c.codes) # 0 /\ c.codes # <<>>
  <2>1. Len(c.codes) # 0
    BY <1>5, <1>8, FS_EmptySet
  <2>2. Len(<<>>) = 0
    OBVIOUS
  <2> QED BY <2>1, <2>2
<1>10. FirstReadFC(c.codes) \in ToSet(c.codes) /\ FirstReadFC(c.codes) \in Byte
  BY <1>6, <1>7, <1>9, FirstCode
<1>11. ASSUME ~healthcheck PROVE c.port # 0
  <2>1. healthcheck = FALSE
    BY <1>11
  <2>2. ~c.healthcheck
    BY <2>1 DEF Parse
  <2> QED BY <1>13, <2>2, Zenon DEF Validate
<1> QED BY <1>1, <1>2, <1>3, <1>4, <1>5, <1>6, <1>9, <1>10, <1>11, <1>12

(* The process and its healthcheck.                                           *)
LEMMA LaunchFits ==
  ASSUME launch \in Launches PROVE IsSource(launch.args) /\ IsSource(launch.env)
BY ContainerAssumption

(* The configuration of a process that has parsed it.                         *)
LEMMA CfgFits ==
  ASSUME launch \in Launches, Parsed.ok
  PROVE  /\ NewHandler(cfg.registers, ToSet(cfg.codes)) \in Handlers
         /\ cfg.port \in Ports /\ cfg.port # 0
         /\ LET given == Effective(launch.args, launch.env) IN
              /\ cfg.any <=> given.unit = 0
              /\ cfg.port = given.port /\ cfg.unit = given.unit
              /\ cfg.registers = given.registers /\ ToSet(cfg.codes) = ToSet(given.codes)
         /\ cfg.registers \in 1..MaxRegisters
         /\ cfg.unit \in Byte /\ cfg.any \in BOOLEAN /\ ToSet(cfg.codes) \subseteq Implemented
         /\ FirstReadFC(cfg.codes) \in ToSet(cfg.codes) /\ FirstReadFC(cfg.codes) \in Byte
<1>1. IsSource(launch.args) /\ IsSource(launch.env) /\ FALSE \in BOOLEAN /\ Parse(launch.args, launch.env, FALSE).ok
  BY LaunchFits DEF Parsed
<1>2. cfg = Parse(launch.args, launch.env, FALSE).cfg
  BY DEF cfg, Parsed
<1> DEFINE e == Effective(launch.args, launch.env)
<1>3. e = Effective(launch.args, launch.env)
  OBVIOUS
<1> HIDE DEF e
<1>4. /\ cfg.any \in BOOLEAN /\ (cfg.any <=> e.unit = 0)
      /\ cfg.port = e.port /\ cfg.unit = e.unit
      /\ cfg.registers = e.registers /\ ToSet(cfg.codes) = ToSet(e.codes)
      /\ cfg.port \in Ports /\ cfg.unit \in Byte
      /\ cfg.registers \in 1..MaxRegisters
      /\ cfg.port # 0
      /\ ToSet(cfg.codes) \subseteq Implemented
      /\ FirstReadFC(cfg.codes) \in ToSet(cfg.codes) /\ FirstReadFC(cfg.codes) \in Byte
  <2> DEFINE c == cfg
             f == FALSE
  <2>1. /\ IsSource(launch.args) /\ IsSource(launch.env) /\ f \in BOOLEAN
        /\ Parse(launch.args, launch.env, f).ok /\ c = Parse(launch.args, launch.env, f).cfg
    BY <1>1, <1>2
  <2> HIDE DEF f, c
  <2>2. /\ c.any \in BOOLEAN /\ (c.any <=> e.unit = 0)
        /\ c.port = e.port /\ c.unit = e.unit
        /\ c.registers = e.registers /\ ToSet(c.codes) = ToSet(e.codes)
        /\ c.port \in Ports /\ c.unit \in Byte
        /\ c.registers \in 1..MaxRegisters
        /\ ~f => c.port # 0
        /\ ToSet(c.codes) \subseteq Implemented
        /\ FirstReadFC(c.codes) \in ToSet(c.codes) /\ FirstReadFC(c.codes) \in Byte
    BY <1>3, <2>1, ParsedFields
  <2>3. ~f
    BY DEF f
  <2> QED BY <2>2, <2>3, Zenon DEF c
<1>5. NewHandler(cfg.registers, ToSet(cfg.codes)) \in Handlers
  BY <1>4 DEF NewHandler, Handlers
<1> QED BY <1>4, <1>5 DEF e

(* What the healthcheck makes of the environment.                             *)
LEMMA HcFits ==
  ASSUME launch \in Launches, HcParsed.ok
  PROVE  /\ hcCfg.port \in Ports /\ DialHost(hcCfg.bind) \in Addresses
         /\ hcCfg.unit \in Byte /\ hcCfg.any \in BOOLEAN
         /\ FirstReadFC(hcCfg.codes) \in Byte
<1>1. IsSource(NoSource) /\ IsSource(launch.env) /\ TRUE \in BOOLEAN /\ Parse(NoSource, launch.env, TRUE).ok
  BY LaunchFits, NoSourceIsSource DEF HcParsed
<1>2. hcCfg = Parse(NoSource, launch.env, TRUE).cfg
  BY DEF hcCfg, HcParsed
<1>3. /\ hcCfg.bind \in Addresses /\ hcCfg.port \in Ports
      /\ hcCfg.unit \in Byte /\ hcCfg.any \in BOOLEAN
      /\ FirstReadFC(hcCfg.codes) \in Byte
  BY <1>1, <1>2, ParsedFields
<1> QED BY <1>3, ConfigAssumption DEF DialHost

Probes == [port : Ports, host : Addresses, unit : Byte, fc : Byte]

LEMMA Bytes == 0 \in Byte /\ 1 \in Byte /\ 0 \in Ports
BY DEF Byte, Ports

(* A process that has got past its settings has settings that parse, and so   *)
(* has one whose state file there is; it listens until it stops.              *)
ContInv ==
  /\ TypeOK
  /\ proc \notin {"parse", "exited"} => Parsed.ok
  /\ tmp.what = "state" \/ file.what = "state" => Parsed.ok
  /\ proc \in {"write", "torn", "rename", "notify", "serve", "failed"} => listening

LEMMA InitCont == Init => ContInv
<1> SUFFICES ASSUME Init PROVE ContInv
  OBVIOUS
<1>1. NoProbe \in Probes
  BY Bytes, ConfigAssumption DEF NoProbe, Probes
<1>2. NoFile.what = "none"
  BY DEF NoFile
<1>3. 0 \in 0..MaxRestarts
  BY ContainerAssumption
<1> QED BY <1>1, <1>2, <1>3 DEF Init, ContInv, TypeOK, Probes

LEMMA ExitCont ==
  ASSUME ContInv, NEW c \in {0, 1, 2, 137}, Exit(c), launch' = launch, restarts' = restarts,
         calm' \in BOOLEAN, tmp' = tmp, file' \in {file, NoFile}
  PROVE  ContInv'
<1>1. cfg' = cfg /\ Parsed' = Parsed
  BY DEF cfg, Parsed
<1>2. NoProbe \in Probes
  BY Bytes, ConfigAssumption DEF NoProbe, Probes
<1>3. NoFile.what = "none"
  BY DEF NoFile
<1>4. StateOf(cfg)' = StateOf(cfg)
  BY <1>1 DEF StateOf
<1>5. /\ proc' = "exited" /\ code' = c /\ listening' = FALSE /\ full' = FALSE
      /\ hc' = "none" /\ probe' = NoProbe
  BY DEF Exit
<1>6. code' \in {-1, 0, 1, 2, 137} /\ code' # -1
  BY <1>5
<1> HIDE DEF cfg, Parsed
<1>7. {tmp', file'} \subseteq {NoFile, Torn, StateOf(cfg)'}
  BY <1>4 DEF ContInv, TypeOK
<1>8. TypeOK'
  BY <1>2, <1>5, <1>6, <1>7 DEF ContInv, TypeOK, Probes
<1>9. tmp'.what = "state" \/ file'.what = "state" => Parsed.ok
  BY <1>3 DEF ContInv
<1> QED BY <1>1, <1>5, <1>8, <1>9 DEF ContInv

LEMMA ProcCont ==
  ASSUME ContInv, ParseConfig \/ Listen \/ WriteState \/ RenameState \/ StartServing \/ Leave
                  \/ Saturate \/ Terminate \/ ServeFails \/ Kill \/ Restart
  PROVE  ContInv'
<1>1. launch' = launch /\ cfg' = cfg /\ Parsed' = Parsed
  BY DEF ParseConfig, Listen, WriteState, RenameState, StartServing, Leave, Saturate,
         Terminate, ServeFails, Kill, Restart, cfg, Parsed
<1>2. calm' \in BOOLEAN
  BY DEF ParseConfig, Listen, WriteState, RenameState, StartServing, Leave, Saturate,
         Terminate, ServeFails, Kill, Restart, Watch
<1>3. NoProbe \in Probes
  BY Bytes, ConfigAssumption DEF NoProbe, Probes
<1>4. StateOf(cfg).what = "state" /\ NoFile.what = "none" /\ Torn.what = "torn"
  BY DEF StateOf, NoFile, Torn
<1>5. StateOf(cfg)' = StateOf(cfg)
  BY <1>1 DEF StateOf
<1> USE DEF ContInv, TypeOK, Probes
<1> HIDE DEF cfg, Parsed
<1>6. CASE ParseConfig
  <2>1. CASE Parsed.ok /\ proc' = "listen" /\ UNCHANGED <<code, listening, full, hcVars>>
    BY <1>1, <1>2, <1>5, <1>6, <2>1 DEF ParseConfig, hcVars
  <2>2. ASSUME NEW c \in {0, 2}, Exit(c) PROVE ContInv'
    <3>1. launch' = launch /\ restarts' = restarts /\ tmp' = tmp /\ file' = file
      BY <1>6 DEF ParseConfig
    <3> QED BY <1>2, <2>2, <3>1, ExitCont
  <2> QED BY <1>6, <2>1, <2>2 DEF ParseConfig
<1>7. CASE Listen
  <2>1. CASE Exit(1)
    BY <1>2, <1>7, <2>1, ExitCont DEF Listen
  <2>2. CASE ~Exit(1)
    BY <1>1, <1>2, <1>5, <1>7, <2>2 DEF Listen, hcVars
  <2> QED BY <2>1, <2>2
<1>8. CASE WriteState
  BY <1>1, <1>2, <1>4, <1>5, <1>8 DEF WriteState, hcVars
<1>9. CASE RenameState
  BY <1>1, <1>2, <1>4, <1>5, <1>9 DEF RenameState, hcVars
<1>10. CASE StartServing \/ Terminate \/ ServeFails
  BY <1>1, <1>2, <1>5, <1>10 DEF StartServing, Terminate, ServeFails, hcVars
<1>11. CASE Saturate
  BY <1>1, <1>2, <1>5, <1>11 DEF Saturate, hcVars
<1>12. CASE Leave
  <2>1. \E c \in {0, 1, 2, 137} : Exit(c)
    BY <1>12 DEF Leave
  <2>2. launch' = launch /\ restarts' = restarts /\ tmp' = tmp /\ file' \in {file, NoFile}
    BY <1>12 DEF Leave
  <2> QED BY <1>2, <2>1, <2>2, ExitCont
<1>13. CASE Kill
  BY <1>2, <1>13, ExitCont DEF Kill
<1>14. CASE Restart
  <2>1. restarts + 1 \in 0..MaxRestarts
    BY <1>14, ContainerAssumption DEF Restart
  <2> QED BY <1>1, <1>2, <1>5, <1>14, <2>1 DEF Restart, hcVars
<1> QED BY <1>6, <1>7, <1>8, <1>9, <1>10, <1>11, <1>12, <1>13, <1>14

(* What a state file tells is the configuration of the process.               *)
LEMMA StateFileIs ==
  ASSUME ContInv, file.what = "state"
  PROVE  /\ Parsed.ok /\ launch \in Launches
         /\ file.port = cfg.port /\ file.unit = cfg.unit /\ file.any = cfg.any
         /\ file.codes = cfg.codes
<1>1. file = StateOf(cfg)
  BY DEF ContInv, TypeOK, NoFile, Torn
<1> QED BY <1>1 DEF ContInv, TypeOK, StateOf

LEMMA CheckCont ==
  ASSUME ContInv, StartCheck \/ ReadState \/ DialSelf \/ Answered \/ Refused \/ TimedOut \/ CheckOver
                  \/ Stopped \/ UNCHANGED vars
  PROVE  ContInv'
<1>1. UNCHANGED procVars
  BY DEF StartCheck, ReadState, DialSelf, Answered, Refused, TimedOut, CheckOver, Stopped, vars
<1>2. cfg' = cfg /\ Parsed' = Parsed /\ StateOf(cfg)' = StateOf(cfg)
  BY <1>1 DEF cfg, Parsed, StateOf, procVars
<1> SUFFICES /\ hc' \in {"none", "read", "dial", "ask", "pass", "fail", "tornRead"}
             /\ probe' \in Probes /\ calm' \in BOOLEAN
  <2> HIDE DEF cfg, Parsed
  <2> QED BY <1>1, <1>2 DEF ContInv, TypeOK, procVars, Probes
<1>3. NoProbe \in Probes
  BY Bytes, ConfigAssumption DEF NoProbe, Probes
<1>4. /\ hc \in {"none", "read", "dial", "ask", "pass", "fail", "tornRead"}
      /\ probe \in Probes /\ calm \in BOOLEAN /\ launch \in Launches
  BY DEF ContInv, TypeOK, Probes
<1>5. CASE StartCheck
  <2>1. probe' \in Probes
    <3>1. CASE HcParsed.ok
      <4>1. /\ hcCfg.port \in Ports /\ DialHost(hcCfg.bind) \in Addresses
            /\ (IF hcCfg.any THEN 1 ELSE hcCfg.unit) \in Byte
            /\ FirstReadFC(hcCfg.codes) \in Byte
        BY <1>4, <3>1, HcFits, Bytes
      <4> QED BY <1>5, <3>1, <4>1 DEF StartCheck, Probes
    <3>2. CASE ~HcParsed.ok
      BY <1>3, <1>5, <3>2 DEF StartCheck
    <3> QED BY <3>1, <3>2
  <2>2. calm' \in BOOLEAN
    BY <1>5 DEF StartCheck, Serving
  <2> QED BY <1>5, <2>1, <2>2 DEF StartCheck
<1>6. CASE ReadState
  <2>1. CASE Found.what = "state" /\ Found.port # 0
    <3>1. Found = file
      BY <2>1 DEF Found, NoFile
    <3>2. /\ Found.port \in Ports /\ (IF Found.any THEN 1 ELSE Found.unit) \in Byte
          /\ FirstReadFC(Found.codes) \in Byte
      BY <2>1, <3>1, StateFileIs, CfgFits, Bytes
    <3>3. probe' \in Probes
      BY <1>4, <1>6, <2>1, <3>2 DEF ReadState, Probes
    <3> QED BY <1>4, <1>6, <2>1, <3>3 DEF ReadState
  <2>2. CASE ~(Found.what = "state" /\ Found.port # 0)
    BY <1>4, <1>6, <2>2 DEF ReadState
  <2> QED BY <2>1, <2>2
<1>7. CASE DialSelf \/ Answered \/ Refused \/ TimedOut
  BY <1>4, <1>7 DEF DialSelf, Answered, Refused, TimedOut
<1>8. CASE CheckOver
  BY <1>3, <1>8 DEF CheckOver
<1>9. CASE Stopped \/ UNCHANGED vars
  BY <1>4, <1>9 DEF Stopped, vars, hcVars
<1> QED BY <1>5, <1>6, <1>7, <1>8, <1>9

LEMMA NextCont == ContInv /\ [Next]_vars => ContInv'
BY ProcCont, CheckCont DEF Next, ProcStep, CheckStep

LEMMA ContInvariant == Spec => []ContInv
BY InitCont, NextCont, PTL DEF Spec

(* Every record, address and exit code of the process and its healthcheck has *)
(* its type, and the state file only ever holds nothing, half a state or the  *)
(* configuration of this very launch (state.go:25-61).                        *)
THEOREM ContainerTypeCorrect == Spec => []TypeOK
<1>1. ContInv => TypeOK BY DEF ContInv
<1> QED BY <1>1, ContInvariant, PTL

(* The request for one register the handler has, with an active function -    *)
(* the question of the healthcheck is one - is answered normally by every     *)
(* handler config.validate lets the server build (health.go:63-66).           *)
THEOREM ProbeAnswered ==
  ASSUME NEW h \in Handlers, NEW fc \in h.active, NEW start \in Nat, start < h.registers
  PROVE  Handle(h, ReadOne(fc, start)).fc = fc /\ Handle(h, ReadOne(fc, start)).len = 4
<1> DEFINE pdu == ReadOne(fc, start)
<1>1. h.registers \in Nat
  <2>1. h.registers \in 1..MaxRegisters
    BY DEF Handlers
  <2>2. MaxRegisters \in Int
    BY DEF MaxRegisters
  <2> QED BY <2>1, <2>2
<1>2. pdu.len = 5 /\ pdu.fc = fc /\ pdu.start = start /\ pdu.qty = 1
  BY DEF ReadOne
<1> HIDE DEF pdu
<1>3. pdu.len # 0 /\ pdu.qty \in 1..125 /\ InRange(h, pdu)
  BY <1>1, <1>2 DEF InRange
<1>4. Handle(h, pdu) = ReadReply(pdu)
  BY <1>2, <1>3 DEF Handle, ReadRegisters, MinReadQuantity, MaxReadQuantity
<1>5. Handle(h, pdu).fc = fc /\ Handle(h, pdu).len = 4
  BY <1>2, <1>4 DEF ReadReply
<1> QED BY <1>5 DEF pdu

LEMMA EdgesOfRanges ==
  /\ \A n \in Ports : n \in Int /\ 0 <= n /\ n <= 65535
  /\ \A n \in 1..MaxRegisters : n \in Int /\ 1 <= n /\ n <= 65536
<1>1. ASSUME NEW n \in Ports PROVE n \in Int /\ 0 <= n /\ n <= 65535
  <2> DEFINE top == 65535
  <2>1. n \in 0..top /\ top \in Int
    BY DEF Ports
  <2> HIDE DEF top
  <2>2. n \in Int /\ 0 <= n /\ n <= top
    BY <2>1
  <2> QED BY <2>2 DEF top
<1>2. ASSUME NEW n \in 1..MaxRegisters PROVE n \in Int /\ 1 <= n /\ n <= 65536
  <2>1. MaxRegisters = 65536 /\ MaxRegisters \in Int
    BY DEF MaxRegisters
  <2>2. n \in Int /\ 1 <= n /\ n <= MaxRegisters
    BY <2>1
  <2> QED BY <2>1, <2>2
<1> QED BY <1>1, <1>2

(* Whatever the flags and variables of a launch, a process that starts keeps  *)
(* them: each function code given is answered from the first to the last      *)
(* register given, for the unit given, and its healthcheck asks with one of   *)
(* those codes (config.go:66-209).                                            *)
THEOREM ConfigsServable == Spec => []ConfigServable
<1>1. ContInv => ConfigServable
  <2> DEFINE given   == Effective(launch.args, launch.env)
             handler == NewHandler(cfg.registers, ToSet(cfg.codes))
             c == cfg
  <2> SUFFICES ASSUME ContInv, proc \notin {"parse", "exited"}
               PROVE  /\ c.port = given.port /\ c.port >= 1 /\ c.port <= 65535
                      /\ IF given.unit = 0 THEN c.any ELSE ~c.any /\ c.unit = given.unit
                      /\ FirstReadFC(c.codes) \in ToSet(given.codes)
                      /\ handler \in Handlers
                      /\ \A fc \in ToSet(given.codes) : \A start \in {0, given.registers - 1} :
                           start <= 65535 /\ Handle(handler, ReadOne(fc, start)).fc = fc
    BY DEF ConfigServable
  <2>1. launch \in Launches /\ Parsed.ok
    BY DEF ContInv, TypeOK
  <2>2. handler.registers = c.registers /\ handler.active = ToSet(c.codes) \cap Implemented
    BY DEF NewHandler
  <2>3. /\ handler \in Handlers /\ c.port \in Ports /\ c.port # 0
        /\ c.any \in BOOLEAN /\ (c.any <=> given.unit = 0)
        /\ c.port = given.port /\ c.unit = given.unit
        /\ c.registers = given.registers /\ c.registers \in 1..MaxRegisters
        /\ ToSet(c.codes) = ToSet(given.codes) /\ ToSet(c.codes) \subseteq Implemented
        /\ FirstReadFC(c.codes) \in ToSet(c.codes)
    BY <2>1, CfgFits
  <2> HIDE DEF given, handler, c
  <2>4. c.port >= 1 /\ c.port <= 65535
    <3>1. c.port \in Int /\ 0 <= c.port /\ c.port <= 65535
      BY <2>3, EdgesOfRanges
    <3> QED BY <2>3, <3>1
  <2>5. IF given.unit = 0 THEN c.any ELSE ~c.any /\ c.unit = given.unit
    BY <2>3
  <2>6. handler.registers >= 1 /\ handler.registers <= 65536 /\ handler.registers \in Int
    BY <2>2, <2>3, EdgesOfRanges
  <2>7. ASSUME NEW fc \in ToSet(given.codes), NEW start \in {0, given.registers - 1}
        PROVE  start <= 65535 /\ Handle(handler, ReadOne(fc, start)).fc = fc
    <3>1. start \in Nat /\ start < handler.registers /\ start <= 65535
      BY <2>2, <2>3, <2>6
    <3>2. fc \in handler.active
      BY <2>2, <2>3
    <3> QED BY <2>3, <3>1, <3>2, ProbeAnswered
  <2> QED BY <2>3, <2>4, <2>5, <2>7
<1> QED BY <1>1, ContInvariant, PTL

-----------------------------------------------------------------------------
(* The state file.                                                           *)

(* Only the temporary file is ever torn, and never when it is renamed; only a *)
(* process that keeps a state file writes one.                                *)
FileInv ==
  /\ file.what # "torn"
  /\ proc = "rename" => tmp.what # "torn"
  /\ proc \in {"write", "torn", "rename"} \/ file # NoFile => cfg.stateFile # Nowhere

Inv == FileInv /\ NeverTorn

LEMMA StateIsNoTorn ==
  ASSUME NEW c PROVE StateOf(c).what = "state" /\ NoFile.what = "none"
BY DEF StateOf, NoFile

LEMMA InitFile == Init => Inv
BY StateIsNoTorn DEF Init, Inv, FileInv, NeverTorn

LEMMA ProcFile ==
  ASSUME Inv, ParseConfig \/ Listen \/ WriteState \/ RenameState \/ StartServing \/ Leave
              \/ Saturate \/ Terminate \/ ServeFails \/ Kill \/ Restart
  PROVE  FileInv'
<1> USE DEF Inv, FileInv
<1>0. launch' = launch /\ cfg' = cfg
  BY DEF ParseConfig, Listen, WriteState, RenameState, StartServing, Leave, Saturate,
         Terminate, ServeFails, Kill, Restart, cfg, Parsed
<1> HIDE DEF cfg
<1>1. CASE ParseConfig BY <1>0, <1>1 DEF ParseConfig, Exit
<1>2. CASE Listen BY <1>0, <1>2 DEF Listen, Exit
<1>3. CASE WriteState
  <2>1. StateOf(cfg).what # "torn"
    BY StateIsNoTorn
  <2> QED BY <1>0, <1>3, <2>1 DEF WriteState
<1>4. CASE RenameState BY <1>0, <1>4, StateIsNoTorn DEF RenameState
<1>5. CASE StartServing \/ Saturate \/ Terminate \/ ServeFails
  BY <1>0, <1>5 DEF StartServing, Saturate, Terminate, ServeFails
<1>6. CASE Leave BY <1>0, <1>6, StateIsNoTorn DEF Leave, Exit
<1>7. CASE Kill BY <1>0, <1>7 DEF Kill, Exit
<1>8. CASE Restart BY <1>0, <1>8 DEF Restart
<1> QED BY <1>1, <1>2, <1>3, <1>4, <1>5, <1>6, <1>7, <1>8

LEMMA NextFile == Inv /\ [Next]_vars => Inv'
<1> SUFFICES ASSUME Inv, [Next]_vars PROVE Inv'
  OBVIOUS
<1>1. CASE ProcStep \/ Saturate \/ Terminate \/ ServeFails \/ Kill \/ Restart
  <2>1. FileInv'
    BY <1>1, ProcFile DEF ProcStep
  <2>2. hc' \in {hc, "none"}
    BY <1>1 DEF ProcStep, ParseConfig, Listen, WriteState, RenameState, StartServing, Leave,
                Saturate, Terminate, ServeFails, Kill, Restart, Exit, hcVars
  <2> QED BY <2>1, <2>2 DEF Inv, NeverTorn
<1>2. ASSUME UNCHANGED <<launch, proc, code, tmp, file>> PROVE FileInv'
  BY <1>2 DEF Inv, FileInv, cfg, Parsed
<1>3. CASE ReadState
  <2>1. FileInv'
    BY <1>2, <1>3 DEF ReadState, procVars
  <2>2. Found.what # "torn"
    BY DEF Found, NoFile, Inv, FileInv
  <2> QED BY <1>3, <2>1, <2>2 DEF ReadState, Inv, NeverTorn
<1>4. CASE StartCheck \/ DialSelf \/ Answered \/ Refused \/ TimedOut \/ CheckOver
  <2>1. FileInv'
    BY <1>2, <1>4 DEF StartCheck, DialSelf, Answered, Refused, TimedOut, CheckOver, procVars
  <2>2. hc' # "tornRead"
    BY <1>4 DEF StartCheck, DialSelf, Answered, Refused, TimedOut, CheckOver
  <2> QED BY <2>1, <2>2 DEF Inv, NeverTorn
<1>5. CASE Stopped \/ UNCHANGED vars
  <2>1. FileInv' /\ hc' = hc
    BY <1>2, <1>5 DEF Stopped, vars, procVars, hcVars
  <2> QED BY <2>1 DEF Inv, NeverTorn
<1> QED BY <1>1, <1>3, <1>4, <1>5 DEF Next, CheckStep

(* Through any number of kills and restarts a healthcheck never reads half a  *)
(* state file (state.go:38-42).                                               *)
THEOREM NeverReadTorn == Spec => []NeverTorn
<1>1. Inv => NeverTorn BY DEF Inv
<1> QED BY <1>1, InitFile, NextFile, PTL DEF Spec

-----------------------------------------------------------------------------
(* The healthcheck.                                                          *)

(* A launch whose arguments leave the healthcheck its settings: the check knows *)
(* the address, and the port only if it knows the rest (health.go:40-66).      *)
LEMMA SharedSettings ==
  ASSUME launch \in Launches, Parsed.ok, SharesSettings(launch)
  PROVE  /\ HcParsed.ok /\ hcCfg.bind = cfg.bind
         /\ hcCfg.port # 0 => /\ hcCfg.port = cfg.port /\ hcCfg.unit = cfg.unit
                              /\ (hcCfg.any <=> cfg.any) /\ hcCfg.codes = cfg.codes
         /\ hcCfg.port = 0 => cfg.stateFile \in {Nowhere, hcCfg.stateFile}
<1>1. IsSource(launch.args) /\ IsSource(launch.env) /\ IsSource(NoSource) /\ DOMAIN NoSource.vals = {}
  BY LaunchFits, NoSourceIsSource
<1>2. Parse(launch.args, launch.env, FALSE).ok /\ cfg = Parse(launch.args, launch.env, FALSE).cfg
  BY DEF cfg, Parsed
<1>3. Parse(NoSource, launch.env, TRUE).ok /\ hcCfg = Parse(NoSource, launch.env, TRUE).cfg
  BY <1>2 DEF SharesSettings, hcCfg, HcParsed
<1> DEFINE e == Effective(launch.args, launch.env)
           o == Effective(NoSource, launch.env)
           c == cfg
           d == hcCfg
           f == FALSE
           t == TRUE
<1>4. \A s \in Settings : s \notin DOMAIN launch.args.vals => e[s] = o[s]
  BY <1>1 DEF Effective
<1>5. {"bind", "port", "unit", "codes"} \subseteq Settings
  BY DEF Settings
<1>6. "bind" \notin DOMAIN launch.args.vals
      /\ (o.port # 0 => DOMAIN launch.args.vals \cap {"port", "unit", "codes"} = {})
      /\ (o.port = 0 => e.stateFile \in {Nowhere, o.stateFile})
  BY <1>2 DEF SharesSettings
<1>7. e = Effective(launch.args, launch.env) /\ o = Effective(NoSource, launch.env)
  OBVIOUS
<1>8. /\ f \in BOOLEAN /\ Parse(launch.args, launch.env, f).ok
      /\ c = Parse(launch.args, launch.env, f).cfg
  BY <1>2
<1>9. /\ t \in BOOLEAN /\ Parse(NoSource, launch.env, t).ok
       /\ d = Parse(NoSource, launch.env, t).cfg
  BY <1>3
<1> HIDE DEF e, o, c, d, f, t
<1>10. /\ c.bind = e.bind /\ c.port = e.port /\ c.unit = e.unit /\ (c.any <=> e.unit = 0)
      /\ c.codes = FunctionCodes(e.codes) /\ c.stateFile = e.stateFile
  BY <1>1, <1>7, <1>8, ParsedFields
<1>11. /\ d.bind = o.bind /\ d.port = o.port /\ d.unit = o.unit /\ (d.any <=> o.unit = 0)
       /\ d.codes = FunctionCodes(o.codes) /\ d.stateFile = o.stateFile
  BY <1>1, <1>7, <1>9, ParsedFields
<1>12. e.bind = o.bind /\ (o.port # 0 => e.port = o.port /\ e.unit = o.unit /\ e.codes = o.codes)
  BY <1>4, <1>5, <1>6
<1>13. d.bind = c.bind
  BY <1>10, <1>11, <1>12
<1>14. ASSUME d.port # 0
       PROVE  d.port = c.port /\ d.unit = c.unit /\ (d.any <=> c.any) /\ d.codes = c.codes
  BY <1>10, <1>11, <1>12, <1>14
<1>15. d.port = 0 => c.stateFile \in {Nowhere, d.stateFile}
  BY <1>6, <1>10, <1>11
<1> QED BY <1>3, <1>13, <1>14, <1>15 DEF c, d, HcParsed

(* The question a check will ask is one this server answers.                  *)
Matches ==
  /\ probe.host = DialHost(cfg.bind) /\ probe.port = cfg.port
  /\ cfg.any \/ probe.unit = cfg.unit
  /\ probe.fc \in ToSet(cfg.codes)

\* A check that still runs beside a calm process cannot go wrong, and one that
\* failed had neither port nor state file.
CalmInv ==
  /\ calm => Serving
  /\ calm /\ hc = "read" => hcCfg.port = 0 /\ probe.host = DialHost(cfg.bind)
  /\ calm /\ hc \in {"dial", "ask"} => Matches
  /\ ServingPasses

LEMMA StartCalm ==
  ASSUME ContInv, \A l \in Launches : SharesSettings(l), StartCheck
  PROVE  CalmInv'
<1>1. UNCHANGED procVars
  BY DEF StartCheck
<1>2. cfg' = cfg /\ hcCfg' = hcCfg /\ (Serving' <=> Serving) /\ file' = file
  BY <1>1 DEF cfg, Parsed, hcCfg, HcParsed, Serving, procVars
<1>3. calm' <=> Serving
  BY DEF StartCheck, Serving
<1>4. CASE ~Serving
  BY <1>2, <1>3, <1>4 DEF CalmInv, ServingPasses
<1>5. CASE Serving
  <2>1. launch \in Launches /\ Parsed.ok /\ SharesSettings(launch)
    BY <1>5 DEF ContInv, TypeOK, Serving
  <2>2. /\ HcParsed.ok /\ hcCfg.bind = cfg.bind
        /\ hcCfg.port # 0 => /\ hcCfg.port = cfg.port /\ hcCfg.unit = cfg.unit
                             /\ (hcCfg.any <=> cfg.any) /\ hcCfg.codes = cfg.codes
    BY <2>1, SharedSettings
  <2>3. FirstReadFC(cfg.codes) \in ToSet(cfg.codes)
    BY <2>1, CfgFits
  <2> HIDE DEF cfg, hcCfg
  <2>4. /\ probe'.port = hcCfg.port /\ probe'.host = DialHost(hcCfg.bind)
        /\ probe'.unit = (IF hcCfg.any THEN 1 ELSE hcCfg.unit)
        /\ probe'.fc = FirstReadFC(hcCfg.codes)
    BY <2>2 DEF StartCheck
  <2>5. hc' = IF hcCfg.port = 0 THEN "read" ELSE "dial"
    BY <2>2 DEF StartCheck
  <2>6. probe'.host = DialHost(cfg.bind)
    BY <2>2, <2>4
  <2>7. hcCfg.port # 0 => Matches'
    BY <1>2, <2>2, <2>3, <2>4, <2>6 DEF Matches, DialHost
  <2> QED BY <1>2, <1>5, <2>5, <2>6, <2>7 DEF CalmInv, ServingPasses, DialHost
<1> QED BY <1>4, <1>5

LEMMA ReadCalm ==
  ASSUME \A l \in Launches : SharesSettings(l), ContInv, Inv, CalmInv, ReadState
  PROVE  CalmInv'
<1>1. UNCHANGED <<procVars, calm>> /\ hc = "read"
  BY DEF ReadState
<1>2. cfg' = cfg /\ hcCfg' = hcCfg /\ (Serving' <=> Serving) /\ file' = file /\ calm' = calm
  BY <1>1 DEF cfg, Parsed, hcCfg, HcParsed, Serving, procVars
<1>3. CASE ~calm
  <2> HIDE DEF cfg, hcCfg
  <2> QED BY <1>2, <1>3 DEF CalmInv, ServingPasses
<1>4. CASE calm /\ file.what = "state"
  <2>1. /\ Parsed.ok /\ launch \in Launches /\ file.port = cfg.port /\ file.unit = cfg.unit
        /\ file.any = cfg.any /\ file.codes = cfg.codes
    BY <1>4, StateFileIs
  <2>2. FirstReadFC(cfg.codes) \in ToSet(cfg.codes) /\ cfg.port # 0
    BY <2>1, CfgFits
  <2>3. hcCfg.port = 0 => cfg.stateFile \in {Nowhere, hcCfg.stateFile}
    BY <2>1, SharedSettings
  <2> HIDE DEF cfg, hcCfg
  <2>4. Found = file
    <3>1. hcCfg.port = 0
      BY <1>1, <1>4 DEF CalmInv
    <3>2. cfg.stateFile # Nowhere
      BY <1>4 DEF Inv, FileInv, NoFile
    <3> QED BY <2>3, <3>1, <3>2 DEF Found
  <2>5. /\ hc' = "dial"
        /\ probe' = [probe EXCEPT !.port = file.port,
                                  !.unit = IF file.any THEN 1 ELSE file.unit,
                                  !.fc = FirstReadFC(file.codes)]
    BY <1>4, <2>1, <2>2, <2>4 DEF ReadState
  <2>6. probe \in Probes
    BY DEF ContInv, TypeOK, Probes
  <2>7. /\ probe'.host = probe.host /\ probe'.port = cfg.port
        /\ probe'.unit = (IF cfg.any THEN 1 ELSE cfg.unit)
        /\ probe'.fc = FirstReadFC(cfg.codes)
    BY <2>1, <2>5, <2>6 DEF Probes
  <2>8. Matches'
    BY <1>1, <1>2, <1>4, <2>2, <2>7 DEF Matches, CalmInv, DialHost
  <2> QED BY <1>2, <1>4, <2>5, <2>8 DEF CalmInv, ServingPasses
<1>5. CASE calm /\ file.what # "state"
  <2> HIDE DEF cfg, hcCfg
  <2>1. file = NoFile
    BY <1>5 DEF ContInv, TypeOK, StateOf, Inv, FileInv, Torn
  <2>2. hc' = "fail"
    BY <2>1 DEF ReadState, Found, NoFile
  <2>3. hcCfg.port = 0
    BY <1>1, <1>5 DEF CalmInv
  <2> QED BY <1>2, <1>5, <2>1, <2>2, <2>3 DEF CalmInv, ServingPasses
<1> QED BY <1>3, <1>4, <1>5

LEMMA AskCalm ==
  ASSUME ContInv, CalmInv, DialSelf \/ Answered \/ Refused \/ TimedOut PROVE CalmInv'
<1>1. UNCHANGED <<procVars, probe, calm>> /\ hc \in {"dial", "ask"}
  BY DEF DialSelf, Answered, Refused, TimedOut
<1>2. /\ cfg' = cfg /\ hcCfg' = hcCfg /\ (Serving' <=> Serving) /\ file' = file
      /\ calm' = calm /\ probe' = probe
  BY <1>1 DEF cfg, Parsed, hcCfg, HcParsed, Serving, procVars
<1>3. CASE ~calm
  <2> HIDE DEF cfg, hcCfg
  <2> QED BY <1>2, <1>3 DEF CalmInv, ServingPasses
<1>4. CASE calm
  <2>1. Serving /\ Matches /\ listening
    BY <1>1, <1>4 DEF CalmInv, ContInv, Serving
  <2>2. launch \in Launches /\ Parsed.ok
    BY <2>1 DEF ContInv, TypeOK, Serving
  <2>3. CASE DialSelf
    <3>1. Reaches
      BY <2>1 DEF Reaches, Matches
    <3>2. hc' = "ask"
      BY <2>3, <3>1 DEF DialSelf
    <3>3. Matches'
      BY <1>2, <2>1 DEF Matches
    <3> HIDE DEF cfg, hcCfg
    <3> QED BY <1>2, <2>1, <3>2, <3>3 DEF CalmInv, ServingPasses
  <2>4. CASE Answered
    <3> DEFINE h == NewHandler(cfg.registers, ToSet(cfg.codes))
    <3>1. /\ h \in Handlers /\ ToSet(cfg.codes) \subseteq Implemented
          /\ h.registers = cfg.registers /\ cfg.registers \in 1..MaxRegisters
      BY <2>2, CfgFits DEF NewHandler
    <3>2. probe.fc \in h.active
      BY <2>1, <3>1 DEF NewHandler, Matches
    <3>3. Reply = Handle(h, ReadOne(probe.fc, 0))
      BY DEF Reply
    <3> HIDE DEF h
    <3>4. Reply.fc = probe.fc
      <4>1. 0 \in Nat /\ 0 < h.registers
        <5>1. h.registers \in Int /\ 1 <= h.registers
          BY <3>1, EdgesOfRanges
        <5> QED BY <5>1
      <4> QED BY <3>1, <3>2, <3>3, <4>1, ProbeAnswered
    <3>5. hc' = "pass"
      BY <2>4, <3>4 DEF Answered
    <3> HIDE DEF cfg, hcCfg
    <3> QED BY <1>2, <2>1, <3>5 DEF CalmInv, ServingPasses
  <2>5. CASE Refused \/ TimedOut
    BY <2>1, <2>5 DEF Refused, TimedOut, Serving, Accepted, Matches
  <2> QED BY <2>3, <2>4, <2>5
<1> QED BY <1>3, <1>4

(* Whatever the process does but go on serving, it is not calm.               *)
LEMMA ProcCalm ==
  ASSUME CalmInv, ProcStep \/ Saturate \/ Terminate \/ ServeFails \/ Kill \/ Restart
  PROVE  CalmInv'
<1>1. calm' = (calm /\ Serving')
  BY DEF ProcStep, ParseConfig, Listen, WriteState, RenameState, StartServing, Leave, Saturate,
         Terminate, ServeFails, Kill, Restart, Watch
<1>2. CASE ~calm
  BY <1>1, <1>2 DEF CalmInv, ServingPasses
<1>3. CASE calm
  <2>1. proc = "serve" /\ ~full
    BY <1>3 DEF CalmInv, Serving
  <2>2. ~Serving'
    BY <2>1 DEF ProcStep, ParseConfig, Listen, WriteState, RenameState, StartServing, Leave,
                Saturate, Terminate, ServeFails, Kill, Restart, Exit, Serving
  <2> QED BY <1>1, <2>2 DEF CalmInv, ServingPasses
<1> QED BY <1>2, <1>3

LEMMA NextCalm ==
  ASSUME \A l \in Launches : SharesSettings(l), ContInv, Inv, CalmInv, [Next]_vars
  PROVE  CalmInv'
<1>1. CASE CheckOver
  BY <1>1 DEF CheckOver, CalmInv, ServingPasses
<1>2. CASE Stopped \/ UNCHANGED vars
  <2>1. UNCHANGED <<launch, proc, full, file, hc, probe, calm>>
    BY <1>2 DEF Stopped, vars, procVars, hcVars
  <2>2. /\ cfg' = cfg /\ hcCfg' = hcCfg /\ (Serving' <=> Serving)
    BY <2>1 DEF cfg, Parsed, hcCfg, HcParsed, Serving
  <2> HIDE DEF cfg, hcCfg
  <2> QED BY <2>1, <2>2 DEF CalmInv, Matches, ServingPasses
<1> QED BY <1>1, <1>2, ProcCalm, StartCalm, ReadCalm, AskCalm DEF Next, CheckStep

(* A process that goes on serving with a free slot passes its healthcheck,    *)
(* unless it could not write its state file and its port is not in the        *)
(* environment - provided its arguments leave the healthcheck, which has      *)
(* none, the settings it asks with (README.md:130).                           *)
THEOREM CalmServerPasses ==
  ASSUME \A l \in Launches : SharesSettings(l)
  PROVE  Spec => []ServingPasses
<1>1. Init => CalmInv
  BY DEF Init, CalmInv, ServingPasses
<1>2. ContInv /\ Inv /\ CalmInv /\ [Next]_vars => CalmInv'
  BY NextCalm
<1>3. CalmInv => ServingPasses
  BY DEF CalmInv
<1> QED BY <1>1, <1>2, <1>3, InitFile, NextFile, ContInvariant, PTL DEF Spec
=============================================================================
