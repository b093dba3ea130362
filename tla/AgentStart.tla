----------------------------- MODULE AgentStart -----------------------------
(***************************************************************************)
(* metrics-agent from its first statement to its measuring loop: flags and *)
(* variables, the collector file read line by line into a map from ports   *)
(* to collectors, the metrics server, and the labels that a scrape puts on *)
(* a container from then on.                                               *)
(*                                                                         *)
(* A number in a text is an integer, any other text is NaN. A file name, a *)
(* collector, a server or an address is a value of no structure.           *)
(***************************************************************************)
EXTENDS Integers, Sequences

CONSTANTS NaN,      \* what strconv.Atoi refuses
          Unset,    \* a flag not given; an empty variable
          Args,     \* the command lines and environments considered
          Lines,    \* the lines a collector file may hold
          MaxLines, \* and how many
          MaxPort   \* 65535 in the code

Words == Int \cup {NaN}

ASSUME AgentStartAssumption ==
  /\ NaN \notin Int /\ MaxPort \in Nat /\ MaxLines \in Nat
  /\ \A l \in Lines : l.comment \in BOOLEAN /\ l.broken \in BOOLEAN

VARIABLES
  pc,        \* where run() is
  args,      \* what the process was started with
  cfg,       \* what parseFlags makes of it
  file,      \* the collector file: its state, and its lines
  line, m,   \* of parseCollectors: lines read, and the map so far
  cmap,      \* the exporter's map
  web,       \* the metrics server: off, starting, up, failed
  code,      \* the exit status
  watching,  \* NotifyContext catches the signals
  signalled  \* SIGTERM has been sent

vars == <<pc, args, cfg, file, line, m, cmap, web, code, watching, signalled>>
config == <<args, cfg, file>>

NoMap == <<>>
NoConfig == [addr |-> Unset, port |-> NaN, db |-> 0, interval |-> 0,
             metrics |-> Unset, collectors |-> Unset]

Files == [state : {"absent", "denied", "there"}, lines : UNION {[1..n -> Lines] : n \in 0..MaxLines}]

Init ==
  /\ pc = "flags" /\ args \in Args /\ cfg = NoConfig
  /\ file \in Files /\ (file.state # "there" => file.lines = <<>>)
  /\ line = 0 /\ m = NoMap /\ cmap = NoMap /\ web = "off" /\ code = -1
  /\ watching = FALSE /\ signalled = FALSE

Exit(c) == pc' = "exit" /\ code' = c

-----------------------------------------------------------------------------
(* parseFlags. Times are in seconds; interval is a flag only. The host of an *)
(* address is "" when its text is empty.                                     *)

Setting(flag, env, default) ==
  IF flag # Unset THEN flag ELSE IF env # Unset THEN env ELSE default

Effective(a) ==
  LET addr == Setting(a.addr.flag, a.addr.env, [host |-> "", port |-> NaN])
  IN  [addr |-> addr.host,
       port |-> IF addr.port = NaN THEN 6379 ELSE addr.port,
       db |-> Setting(a.db.flag, a.db.env, 0),
       interval |-> IF a.interval = Unset THEN 3 ELSE a.interval,
       metrics |-> Setting(a.metrics.flag, a.metrics.env, ":9101"),
       collectors |-> Setting(a.collectors.flag, a.collectors.env, "collectors.conf")]

Valid(c) == c.addr # "" /\ c.db \in Nat /\ c.interval >= 1

ParseFlags ==
  /\ pc = "flags"
  /\ IF args.help THEN Exit(0) /\ UNCHANGED cfg
     ELSE IF args.unknown \/ ~Valid(Effective(args)) THEN Exit(2) /\ UNCHANGED cfg
     ELSE pc' = "watch" /\ cfg' = Effective(args) /\ UNCHANGED code
  /\ UNCHANGED <<args, file, line, m, cmap, web, watching, signalled>>

Watch ==
  /\ pc = "watch"
  /\ pc' = "load" /\ watching' = TRUE
  /\ UNCHANGED <<config, line, m, cmap, web, code, signalled>>

-----------------------------------------------------------------------------
(* The collector file. A line has its fields, unless it is blank (none) or a *)
(* comment; broken is a line that the scanner cannot deliver. The second     *)
(* field is a port range, the words that strings.Cut parts at the dash.      *)

\* parsePortRange: a range of one word is one port.
InRange(range) ==
  LET first == range[1]
      last == range[Len(range)]
  IN  first \in Int /\ last \in Int /\ 1 <= first /\ last <= MaxPort /\ first <= last

Ports(range) == range[1]..range[Len(range)]

Skipped(l) == ~l.broken /\ (l.comment \/ Len(l.fields) = 0)
Entry(l) == ~l.broken /\ ~Skipped(l) /\ Len(l.fields) >= 2 /\ InRange(l.fields[2])

Info(f) == [collector |-> f[1],
            server |-> IF Len(f) > 2 THEN f[3] ELSE "",
            ip |-> IF Len(f) > 3 THEN f[4] ELSE ""]

LoadCollectors ==
  /\ pc = "load"
  /\ IF cfg.collectors = "" \/ file.state = "absent" THEN pc' = "serve" /\ UNCHANGED code
     ELSE IF file.state = "denied" THEN Exit(2)
     ELSE pc' = "parse" /\ UNCHANGED code
  /\ UNCHANGED <<config, line, m, cmap, web, watching, signalled>>

\* Mutated: a later line takes over the ports of an earlier one.
ParseLineLastWins ==
  /\ pc = "parse" /\ line < Len(file.lines)
  /\ LET l == file.lines[line + 1] IN
       \/ Skipped(l) /\ line' = line + 1 /\ UNCHANGED <<pc, code, m>>
       \/ /\ Entry(l)
          /\ line' = line + 1
          /\ m' = [p \in DOMAIN m \cup Ports(l.fields[2]) |->
                     IF p \in Ports(l.fields[2]) THEN Info(l.fields) ELSE m[p]]
          /\ UNCHANGED <<pc, code>>
       \/ ~Skipped(l) /\ ~Entry(l) /\ Exit(2) /\ UNCHANGED <<line, m>>
  /\ UNCHANGED <<config, cmap, web, watching, signalled>>

\* One round of parseCollectors' loop. A port that is taken ends it.
ParseLine ==
  /\ pc = "parse" /\ line < Len(file.lines)
  /\ LET l == file.lines[line + 1] IN
       \/ Skipped(l) /\ line' = line + 1 /\ UNCHANGED <<pc, code, m>>
       \/ /\ Entry(l) /\ Ports(l.fields[2]) \cap DOMAIN m = {}
          /\ line' = line + 1
          /\ m' = [p \in DOMAIN m \cup Ports(l.fields[2]) |->
                     IF p \in Ports(l.fields[2]) THEN Info(l.fields) ELSE m[p]]
          /\ UNCHANGED <<pc, code>>
       \/ /\ ~Skipped(l) /\ (Entry(l) => Ports(l.fields[2]) \cap DOMAIN m # {})
          /\ Exit(2) /\ UNCHANGED <<line, m>>
  /\ UNCHANGED <<config, cmap, web, watching, signalled>>

\* Mutated: the scanner's error is not looked at.
EndOfFileUnchecked ==
  /\ pc = "parse"
  /\ line < Len(file.lines) => file.lines[line + 1].broken
  /\ pc' = "serve" /\ cmap' = m
  /\ UNCHANGED <<config, line, m, web, code, watching, signalled>>

EndOfFile ==
  /\ pc = "parse" /\ line = Len(file.lines)
  /\ pc' = "serve" /\ cmap' = m
  /\ UNCHANGED <<config, line, m, web, code, watching, signalled>>

-----------------------------------------------------------------------------
(* From the metrics server to the end. *)

\* Mutated: ListenAndServe on run()'s own goroutine.
ServeMetricsInline ==
  /\ pc = "serve"
  /\ IF cfg.metrics = "" THEN pc' = "loop" /\ UNCHANGED web
                         ELSE web' = "starting" /\ UNCHANGED pc
  /\ UNCHANGED <<config, line, m, cmap, code, watching, signalled>>

\* serveMetrics starts a goroutine and returns.
ServeMetrics ==
  /\ pc = "serve"
  /\ pc' = "loop"
  /\ web' = IF cfg.metrics = "" THEN "off" ELSE "starting"
  /\ UNCHANGED <<config, line, m, cmap, code, watching, signalled>>

\* ListenAndServe; an error is only logged.
ListenAndServe ==
  /\ pc # "exit" /\ web \in {"starting", "up"}
  /\ web' \in IF web = "starting" THEN {"up", "failed"} ELSE {"failed"}
  /\ UNCHANGED <<pc, config, line, m, cmap, code, watching, signalled>>

\* The first round of the loop that finds the context cancelled, see Sampler.
LoopEnds ==
  /\ pc = "loop" /\ signalled
  /\ Exit(0)
  /\ UNCHANGED <<config, line, m, cmap, web, watching, signalled>>

\* SIGTERM: before NotifyContext it kills the process.
Signal ==
  /\ pc # "exit" /\ ~signalled
  /\ signalled' = TRUE
  /\ IF watching THEN UNCHANGED <<pc, code>> ELSE Exit(143)
  /\ UNCHANGED <<config, line, m, cmap, web, watching>>

RunStep == \/ ParseFlags \/ Watch \/ LoadCollectors \/ ParseLine \/ EndOfFile
           \/ ServeMetrics \/ LoopEnds

Running == pc \in {"loop", "exit"} /\ UNCHANGED vars

Next == RunStep \/ ListenAndServe \/ Signal \/ Running

Spec == Init /\ [][Next]_vars /\ WF_vars(RunStep)

-----------------------------------------------------------------------------
(* The labels of a container, as a set of name and value pairs. container is *)
(* the number its name ends in, after the last dash; NaN if it ends in none. *)

\* collectorMap.lookup of fieldName's result.
Found(container) == container \in Int /\ container \in DOMAIN cmap

Labels(container) ==
  {<<"port", container>>} \cup
  IF Found(container)
  THEN {<<"collector", cmap[container].collector>>, <<"server", cmap[container].server>>} \cup
       (IF cmap[container].ip # "" THEN {<<"server_ip", cmap[container].ip>>} ELSE {})
  ELSE {}

-----------------------------------------------------------------------------
Infos == {Info(l.fields) : l \in {k \in Lines : Len(k.fields) >= 2}}

TypeOK ==
  /\ pc \in {"flags", "watch", "load", "parse", "serve", "loop", "exit"}
  /\ args \in Args /\ file \in Files
  /\ line \in 0..Len(file.lines)
  /\ DOMAIN m \subseteq 1..MaxPort /\ \A p \in DOMAIN m : m[p] \in Infos
  /\ cmap \in {m, NoMap}
  /\ web \in {"off", "starting", "up", "failed"} /\ code \in {-1, 0, 2, 143}
  /\ watching \in BOOLEAN /\ signalled \in BOOLEAN

\* The file is used, and the entries that give port p a collector.
Used == cfg.collectors # "" /\ file.state = "there"
Claims(p) == {k \in DOMAIN file.lines :
                Entry(file.lines[k]) /\ p \in Ports(file.lines[k].fields[2])}

\* What is wrong with the file: a line that is none, or two claims to a port.
BadFile ==
  \/ cfg.collectors # "" /\ file.state = "denied"
  \/ /\ Used
     /\ \/ \E k \in DOMAIN file.lines : ~Skipped(file.lines[k]) /\ ~Entry(file.lines[k])
        \/ \E j, k \in DOMAIN file.lines :
             /\ j # k /\ Entry(file.lines[j]) /\ Entry(file.lines[k])
             /\ Ports(file.lines[j].fields[2]) \cap Ports(file.lines[k].fields[2]) # {}

(* A label that is silently wrong is worse than no start (main.go:80-85): an  *)
(* agent that measures labels each container with the one entry of the file   *)
(* whose range holds its port, whatever the order of the lines, and with no    *)
(* collector when there is none.                                               *)
LabelsRight ==
  pc = "loop" => \A p \in 0..MaxPort + 1 :
    LET claims == IF Used THEN Claims(p) ELSE {} IN
    \/ claims = {} /\ Labels(p) = {<<"port", p>>}
    \/ \E k \in claims :
         LET i == Info(file.lines[k].fields) IN
         /\ claims = {k}
         /\ Labels(p) = {<<"port", p>>, <<"collector", i.collector>>, <<"server", i.server>>}
                        \cup (IF i.ip # "" THEN {<<"server_ip", i.ip>>} ELSE {})

(* The agent measures only with settings its parts can work with - the ticker *)
(* of AgentKey, the database of RedisClient - and refuses a start exactly for  *)
(* a wrong setting or a wrong file, not for a file that is missing.            *)
RefusesExactly ==
  /\ pc = "loop" => ~BadFile /\ cfg.interval >= 1 /\ cfg.db >= 0 /\ cfg.addr # ""
  /\ code = 2 => BadFile \/ args.unknown \/ ~Valid(Effective(args))

(* Whatever becomes of the metrics server, the agent comes to measure or has  *)
(* ended (metrics.go:105-106), and a signal sent at any point of the start     *)
(* ends it instead of being lost.                                              *)
StartsOrEnds ==
  /\ <>(pc \in {"loop", "exit"})
  /\ signalled ~> pc = "exit"
=============================================================================
