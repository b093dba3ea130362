-------------------------- MODULE AgentStartProofs --------------------------
(***************************************************************************)
(* For every collector file, command line and number of ports: an agent    *)
(* that measures has refused nothing right and accepted nothing wrong, and *)
(* the labels it puts on a container are those of the one line for it.     *)
(***************************************************************************)
EXTENDS AgentStart, SequenceTheorems, TLAPS

(* A file is a sequence of lines.                                            *)
LEMMA FileLines ==
  ASSUME file \in Files
  PROVE  /\ Len(file.lines) \in Nat /\ DOMAIN file.lines = 1..Len(file.lines)
         /\ \A k \in 1..Len(file.lines) : file.lines[k] \in Lines
<1>1. PICK n \in 0..MaxLines : file.lines \in [1..n -> Lines]
  BY DEF Files
<1>2. n \in Nat
  BY AgentStartAssumption
<1>3. file.lines \in Seq(Lines)
  BY <1>1, <1>2, SeqDef
<1> QED BY <1>3, LenProperties, ElementOfSeq

-----------------------------------------------------------------------------
(* The loop of parseCollectors: after its first lines the map is exactly what *)
(* those lines say, and they agree.                                           *)
RangeOf(k) == Ports(file.lines[k].fields[2])
Entries == {k \in 1..line : Entry(file.lines[k])}

Agree == \A j, k \in Entries : j # k => RangeOf(j) \cap RangeOf(k) = {}

MapIsFile ==
  /\ \A k \in 1..line : Skipped(file.lines[k]) \/ Entry(file.lines[k])
  /\ \A p : p \in DOMAIN m <=> \E k \in Entries : p \in RangeOf(k)
  /\ \A k \in Entries : \A p \in RangeOf(k) : m[p] = Info(file.lines[k].fields)

LinesRead ==
  /\ line \in 0..Len(file.lines)
  /\ pc \in {"flags", "watch", "load"} => line = 0
  /\ pc \in {"serve", "loop"} => line = IF Used THEN Len(file.lines) ELSE 0

BadArgs == args.unknown \/ ~Valid(Effective(args))

Progress ==
  /\ pc \in {"flags", "watch", "load", "parse", "serve", "loop", "exit"}
  /\ pc \in {"flags", "watch", "load"} => m = NoMap /\ cmap = NoMap
  /\ pc = "parse" => Used
  /\ pc \in {"serve", "loop"} =>
       cmap = m /\ (file.state = "denied" => cfg.collectors = "")
  /\ pc \notin {"flags", "exit"} => Valid(cfg)
  /\ pc # "exit" => code = -1

Refusal == code = 2 => BadFile \/ BadArgs

IndInv == /\ file \in Files /\ LinesRead /\ MapIsFile /\ Agree
          /\ Progress /\ Refusal

LEMMA InitStart == Init => IndInv
<1> SUFFICES ASSUME Init PROVE IndInv
  OBVIOUS
<1>1. LinesRead
  BY FileLines DEF Init, LinesRead
<1>2. MapIsFile /\ Agree
  BY DEF Init, MapIsFile, Agree, Entries, NoMap
<1>3. Progress /\ Refusal
  BY DEF Init, Progress, Refusal
<1> QED BY <1>1, <1>2, <1>3 DEF Init, IndInv

(* One more line, an entry whose ports are free: the map takes it in.         *)
LEMMA EntryTaken ==
  ASSUME IndInv, line < Len(file.lines), file' = file, line' = line + 1,
         NEW l, l = file.lines[line + 1], Entry(l), Ports(l.fields[2]) \cap DOMAIN m = {},
         m' = [p \in DOMAIN m \cup Ports(l.fields[2]) |->
                 IF p \in Ports(l.fields[2]) THEN Info(l.fields) ELSE m[p]]
  PROVE  MapIsFile' /\ Agree'
<1>1. line \in Nat /\ 1..line' = 1..line \cup {line + 1} /\ line + 1 \notin 1..line
  BY FileLines DEF IndInv, LinesRead
<1>2. Entries' = Entries \cup {line + 1} /\ line + 1 \notin Entries
  BY <1>1 DEF Entries
<1>3. \A k \in Entries' : RangeOf(k)' = RangeOf(k)
  BY DEF RangeOf
<1>4. RangeOf(line + 1) = Ports(l.fields[2])
  BY DEF RangeOf
<1>5. \A k \in Entries : RangeOf(k) \subseteq DOMAIN m
  BY DEF IndInv, MapIsFile
<1>6. Agree'
  BY <1>2, <1>3, <1>4, <1>5 DEF IndInv, Agree
<1>7. \A k \in 1..line' : Skipped(file'.lines[k]) \/ Entry(file'.lines[k])
  BY <1>1 DEF IndInv, MapIsFile
<1>8. ASSUME NEW p PROVE p \in DOMAIN m' <=> \E k \in Entries' : p \in RangeOf(k)'
  BY <1>2, <1>3, <1>4 DEF IndInv, MapIsFile
<1>9. ASSUME NEW k \in Entries', NEW p \in RangeOf(k)'
      PROVE  m'[p] = Info(file'.lines[k].fields)
  BY <1>2, <1>3, <1>4, <1>5 DEF IndInv, MapIsFile
<1> QED BY <1>6, <1>7, <1>8, <1>9 DEF MapIsFile

(* A blank line or a comment changes nothing.                                 *)
LEMMA LineSkipped ==
  ASSUME IndInv, line < Len(file.lines), Skipped(file.lines[line + 1]),
         file' = file, line' = line + 1, m' = m
  PROVE  MapIsFile' /\ Agree'
<1>1. line \in Nat /\ 1..line' = 1..line \cup {line + 1}
  BY FileLines DEF IndInv, LinesRead
<1>2. Entries' = Entries
  BY <1>1 DEF Entries, Entry
<1> QED BY <1>1, <1>2 DEF IndInv, MapIsFile, Agree, RangeOf

(* The lines not read yet, a port already given: the file is bad.             *)
LEMMA RefusedLine ==
  ASSUME IndInv, Used, line < Len(file.lines), ~Skipped(file.lines[line + 1]),
         Entry(file.lines[line + 1]) =>
           Ports(file.lines[line + 1].fields[2]) \cap DOMAIN m # {}
  PROVE  BadFile
<1>1. line \in Nat /\ line + 1 \in DOMAIN file.lines /\ 1..line \subseteq DOMAIN file.lines
  BY FileLines DEF IndInv, LinesRead
<1>2. CASE ~Entry(file.lines[line + 1])
  BY <1>1, <1>2 DEF BadFile
<1>3. CASE Entry(file.lines[line + 1])
  <2>1. PICK p : p \in Ports(file.lines[line + 1].fields[2]) /\ p \in DOMAIN m
    BY <1>3
  <2>2. PICK k \in Entries : p \in RangeOf(k)
    BY <2>1 DEF IndInv, MapIsFile
  <2>3. k \in DOMAIN file.lines /\ k # line + 1 /\ Entry(file.lines[k])
    BY <1>1, <2>2 DEF Entries
  <2> QED BY <1>1, <1>3, <2>1, <2>2, <2>3 DEF BadFile, RangeOf
<1> QED BY <1>2, <1>3

(* An action that reads no line keeps what was read.                          *)
LEMMA MapKept == ASSUME IndInv, UNCHANGED <<file, line, m>>
                 PROVE  file' \in Files /\ MapIsFile' /\ Agree'
BY DEF IndInv, MapIsFile, Agree, Entries, RangeOf

LEMMA ParseLineStart == IndInv /\ ParseLine => IndInv'
<1> SUFFICES ASSUME IndInv, ParseLine PROVE IndInv'
  OBVIOUS
<1> DEFINE l == file.lines[line + 1]
<1>1. Len(file.lines) \in Nat /\ line \in 0..Len(file.lines) /\ pc = "parse" /\ Used
      /\ code = -1 /\ line < Len(file.lines) /\ UNCHANGED <<args, cfg, file, cmap>>
  BY FileLines DEF IndInv, LinesRead, Progress, ParseLine, config
<1>2. ASSUME line' = line + 1, UNCHANGED <<pc, code>>
      PROVE  LinesRead' /\ Progress' /\ Refusal'
  <2>1. LinesRead' BY <1>1, <1>2 DEF LinesRead
  <2>2. Progress' BY <1>1, <1>2 DEF IndInv, Progress, Used
  <2>3. Refusal' BY <1>1, <1>2 DEF Refusal
  <2> QED BY <2>1, <2>2, <2>3
<1>3. CASE Skipped(l) /\ line' = line + 1 /\ UNCHANGED <<pc, code, m>>
  BY <1>1, <1>2, <1>3, LineSkipped DEF IndInv
<1>4. CASE /\ Entry(l) /\ Ports(l.fields[2]) \cap DOMAIN m = {}
           /\ line' = line + 1
           /\ m' = [p \in DOMAIN m \cup Ports(l.fields[2]) |->
                      IF p \in Ports(l.fields[2]) THEN Info(l.fields) ELSE m[p]]
           /\ UNCHANGED <<pc, code>>
  <2>1. MapIsFile' /\ Agree' BY <1>1, <1>4, EntryTaken
  <2> QED BY <1>1, <1>2, <1>4, <2>1 DEF IndInv
<1>5. CASE /\ ~Skipped(l) /\ (Entry(l) => Ports(l.fields[2]) \cap DOMAIN m # {})
           /\ Exit(2) /\ UNCHANGED <<line, m>>
  <2>1. BadFile BY <1>1, <1>5, RefusedLine
  <2>2. BadFile' BY <1>1, <2>1 DEF BadFile, Used
  <2>3. LinesRead' BY <1>1, <1>5 DEF Exit, LinesRead
  <2>4. Progress' BY <1>1, <1>5 DEF Exit, Progress
  <2> QED BY <1>1, <1>5, <2>2, <2>3, <2>4, MapKept DEF IndInv, Refusal
<1> QED BY <1>3, <1>4, <1>5 DEF ParseLine

LEMMA NextStart == IndInv /\ [Next]_vars => IndInv'
<1> SUFFICES ASSUME IndInv, [Next]_vars PROVE IndInv'
  OBVIOUS
<1> USE DEF config
<1>1. CASE ParseFlags
  <2>1. Progress'
    BY <1>1 DEF ParseFlags, Exit, IndInv, Progress, Used
  <2>2. LinesRead'
    BY <1>1, FileLines DEF ParseFlags, Exit, IndInv, LinesRead, Progress, Used
  <2>3. code' = 2 => BadArgs'
    BY <1>1 DEF ParseFlags, Exit, BadArgs, IndInv, Progress
  <2> QED BY <1>1, <2>1, <2>2, <2>3, MapKept DEF ParseFlags, IndInv, config, Refusal
<1>2. CASE Watch
  <2>1. Progress'
    BY <1>2 DEF Watch, IndInv, Progress, Used
  <2>2. LinesRead'
    BY <1>2, FileLines DEF Watch, IndInv, LinesRead, Progress, Used
  <2>3. code' \in {-1, 0, 143}
    BY <1>2 DEF Watch, IndInv, Progress
  <2>4. Refusal'
    BY <2>3 DEF Refusal
  <2> QED BY <1>2, <2>1, <2>2, <2>4, MapKept DEF Watch, IndInv, config
<1>3. CASE LoadCollectors
  <2> file.state \in {"absent", "denied", "there"} BY DEF IndInv, Files
  <2>0. /\ Valid(cfg) /\ code = -1 /\ cfg' = cfg /\ file' = file /\ m' = m /\ cmap' = cmap
        /\ pc = "load" /\ cmap = m
    BY <1>3 DEF LoadCollectors, IndInv, Progress
  <2>1. Progress'
    BY <1>3, <2>0 DEF LoadCollectors, Exit, Progress, Used
  <2>2. LinesRead'
    BY <1>3, FileLines DEF LoadCollectors, Exit, IndInv, LinesRead, Progress, Used, Init
  <2>3. code' = 2 => BadFile'
    <3>1. ~(cfg.collectors # "" /\ file.state = "denied") => code' = code
      BY <1>3 DEF LoadCollectors
    <3>2. code # 2
      BY <2>0
    <3> QED BY <2>0, <3>1, <3>2 DEF BadFile
  <2> QED BY <1>3, <2>1, <2>2, <2>3, MapKept DEF LoadCollectors, IndInv, config, Refusal
<1>4. CASE ParseLine BY <1>4, ParseLineStart
<1>5. CASE EndOfFile
  <2>1. Progress'
    BY <1>5 DEF EndOfFile, IndInv, Progress, Used
  <2>2. LinesRead'
    BY <1>5 DEF EndOfFile, IndInv, LinesRead, Progress, Used
  <2>3. code' \in {-1, 0, 143}
    BY <1>5 DEF EndOfFile, IndInv, Progress
  <2>4. Refusal'
    BY <2>3 DEF Refusal
  <2> QED BY <1>5, <2>1, <2>2, <2>4, MapKept DEF EndOfFile, IndInv, config
<1>6. CASE ServeMetrics
  <2>1. Progress'
    BY <1>6 DEF ServeMetrics, IndInv, Progress, Used
  <2>2. LinesRead'
    BY <1>6 DEF ServeMetrics, IndInv, LinesRead, Progress, Used
  <2>3. code' \in {-1, 0, 143}
    BY <1>6 DEF ServeMetrics, IndInv, Progress
  <2>4. Refusal'
    BY <2>3 DEF Refusal
  <2> QED BY <1>6, <2>1, <2>2, <2>4, MapKept DEF ServeMetrics, IndInv, config
<1>7. CASE ListenAndServe
  <2>1. Progress'
    BY <1>7 DEF ListenAndServe, IndInv, Progress, Used
  <2>2. LinesRead'
    BY <1>7 DEF ListenAndServe, IndInv, LinesRead, Progress, Used
  <2>3. code' \in {-1, 0, 143}
    BY <1>7 DEF ListenAndServe, IndInv, Progress
  <2>4. Refusal'
    BY <2>3 DEF Refusal
  <2> QED BY <1>7, <2>1, <2>2, <2>4, MapKept DEF ListenAndServe, IndInv, config
<1>8. CASE LoopEnds
  <2>1. Progress'
    BY <1>8 DEF LoopEnds, Exit, IndInv, Progress, Used
  <2>2. LinesRead'
    BY <1>8 DEF LoopEnds, Exit, IndInv, LinesRead, Progress, Used
  <2>3. code' \in {-1, 0, 143}
    BY <1>8 DEF LoopEnds, Exit, IndInv, Progress
  <2>4. Refusal'
    BY <2>3 DEF Refusal
  <2> QED BY <1>8, <2>1, <2>2, <2>4, MapKept DEF LoopEnds, IndInv, config
<1>9. CASE Signal
  <2>1. Progress'
    BY <1>9 DEF Signal, Exit, IndInv, Progress, Used
  <2>2. LinesRead'
    BY <1>9 DEF Signal, Exit, IndInv, LinesRead, Progress, Used
  <2>3. code' \in {-1, 0, 143}
    BY <1>9 DEF Signal, Exit, IndInv, Progress
  <2>4. Refusal'
    BY <2>3 DEF Refusal
  <2> QED BY <1>9, <2>1, <2>2, <2>4, MapKept DEF Signal, IndInv, config
<1>10. CASE Running \/ UNCHANGED vars
  <2>1. Progress'
    BY <1>10 DEF Running, vars, IndInv, Progress, Used
  <2>2. LinesRead'
    BY <1>10 DEF Running, vars, IndInv, LinesRead, Progress, Used
  <2>3. Refusal'
    BY <1>10 DEF Running, vars, Refusal, BadFile, BadArgs, Used, IndInv
  <2> QED BY <1>10, <2>1, <2>2, <2>3, MapKept DEF Running, vars, IndInv, config
<1> QED BY <1>1, <1>2, <1>3, <1>4, <1>5, <1>6, <1>7, <1>8, <1>9, <1>10 DEF Next, RunStep

-----------------------------------------------------------------------------
(* Where the agent measures, the entries of the file are those it has read,   *)
(* and a port has the collector of the one entry for it.                      *)
LEMMA LoopLabels == IndInv => LabelsRight
<1> SUFFICES ASSUME IndInv, pc = "loop", NEW p \in 0..MaxPort + 1
             PROVE  LET claims == IF Used THEN Claims(p) ELSE {} IN
                      \/ claims = {} /\ Labels(p) = {<<"port", p>>}
                      \/ \E k \in claims :
                           LET i == Info(file.lines[k].fields) IN
                           /\ claims = {k}
                           /\ Labels(p) = {<<"port", p>>, <<"collector", i.collector>>,
                                           <<"server", i.server>>}
                                \cup (IF i.ip # "" THEN {<<"server_ip", i.ip>>} ELSE {})
  BY DEF LabelsRight
<1> DEFINE claims == IF Used THEN Claims(p) ELSE {}
<1>1. p \in Int
  BY AgentStartAssumption
<1>2. cmap = m
  BY DEF IndInv, Progress
<1>3. claims = {k \in Entries : p \in RangeOf(k)}
  <2>1. CASE Used
    BY <2>1, FileLines DEF IndInv, LinesRead, Claims, Entries, RangeOf
  <2>2. CASE ~Used
    BY <2>2 DEF IndInv, LinesRead, Entries
  <2> QED BY <2>1, <2>2
<1>4. CASE claims = {}
  <2>1. p \notin DOMAIN cmap
    BY <1>1, <1>2, <1>3, <1>4 DEF IndInv, MapIsFile
  <2> QED BY <1>4, <2>1 DEF Labels, Found
<1>5. CASE claims # {}
  <2>1. PICK k \in Entries : p \in RangeOf(k) /\ k \in claims
    BY <1>3, <1>5
  <2>2. claims = {k}
    BY <1>3, <2>1 DEF IndInv, Agree
  <2>3. p \in DOMAIN cmap /\ cmap[p] = Info(file.lines[k].fields)
    BY <1>2, <2>1 DEF IndInv, MapIsFile
  <2>4. Labels(p) = LET i == Info(file.lines[k].fields) IN
                    {<<"port", p>>, <<"collector", i.collector>>, <<"server", i.server>>}
                      \cup (IF i.ip # "" THEN {<<"server_ip", i.ip>>} ELSE {})
    BY <1>1, <2>3 DEF Labels, Found
  <2> QED BY <2>1, <2>2, <2>4
<1> QED BY <1>4, <1>5

LEMMA LoopRefuses == IndInv => RefusesExactly
<1> SUFFICES ASSUME IndInv PROVE RefusesExactly
  OBVIOUS
<1>1. ASSUME pc = "loop" PROVE ~BadFile
  <2>1. ~(cfg.collectors # "" /\ file.state = "denied")
    BY <1>1 DEF IndInv, Progress
  <2>2. CASE Used
    <3>1. line = Len(file.lines) /\ DOMAIN file.lines = 1..line
      BY <1>1, <2>2, FileLines DEF IndInv, LinesRead
    <3> QED BY <2>1, <3>1 DEF IndInv, BadFile, MapIsFile, Agree, Entries, RangeOf
  <2> QED BY <2>1, <2>2 DEF BadFile
<1>2. ASSUME pc = "loop" PROVE cfg.addr # "" /\ cfg.db >= 0 /\ cfg.interval >= 1
  <2>1. Valid(cfg)
    BY <1>2 DEF IndInv, Progress
  <2>2. cfg.db \in Nat
    BY <2>1, Zenon DEF Valid
  <2>3. cfg.db >= 0
    BY <2>2
  <2> QED BY <2>1, <2>3, Zenon DEF Valid
<1>3. code = 2 => BadFile \/ args.unknown \/ ~Valid(Effective(args))
  BY DEF IndInv, Refusal, BadArgs
<1> QED BY <1>1, <1>2, <1>3 DEF RefusesExactly

(* For every file: an agent that measures labels each container with the one  *)
(* entry that has its port, and with none when there is none (main.go:80-85,  *)
(* collectors.go:77-84).                                                      *)
THEOREM LabelsAreTheFile == Spec => []LabelsRight
BY InitStart, NextStart, LoopLabels, PTL DEF Spec

(* For every file and command line: what is wrong is refused, and nothing     *)
(* else (main.go:266-300, collectors.go:35-91).                               *)
THEOREM RefusesWhatIsWrong == Spec => []RefusesExactly
BY InitStart, NextStart, LoopRefuses, PTL DEF Spec
=============================================================================
