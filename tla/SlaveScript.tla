---------------------------- MODULE SlaveScript ----------------------------
(***************************************************************************)
(* slave.sh: the commands that start, renew, restart and remove the slaves *)
(* of one host, one after the other, each of which may fail or be          *)
(* interrupted between any two of its steps, beside the Docker daemon      *)
(* whose containers fall ill, recover and are restarted meanwhile.         *)
(*                                                                         *)
(* A slave is named by its host port. The compose file is the set of ports *)
(* it declares, an image is the version of the sources it was built from.  *)
(* set -e: a command that fails ends the script.                           *)
(***************************************************************************)
EXTENDS Integers, FiniteSets, Sequences, Functions

CONSTANTS NaN,         \* a word that is no number
          Args,        \* the arguments given to up: the words between dashes
          Tags,        \* what IMAGE may name, the default among them
          MaxPort,     \* 65535 in the script
          MaxCount,    \* 200 in the script
          MaxTries,    \* 60 in the script
          MaxCommands, \* bound on the commands given
          MaxVersion   \* bound on the versions of the sources

\* gen-compose.sh writes this tag, whatever IMAGE is; IMAGE's default too.
Declared == "modbus-slave"

ASSUME SlaveScriptAssumption ==
  /\ NaN \notin Nat /\ {MaxPort, MaxCount, MaxTries, MaxCommands, MaxVersion} \subseteq Nat
  /\ MaxVersion # 0
  /\ Args \subseteq Seq(Nat \cup {NaN}) /\ Declared \in Tags

VARIABLES
  pc,       \* the step of the script; idle: no script runs
  cmd,      \* the command given last
  tag,      \* IMAGE in the environment of the last up or update: the tag it builds
  count,    \* commands given
  want,     \* START to END of up
  tries,    \* i of wait_healthy
  total,    \* its argument
  result,   \* of the last command: none yet, ok, failed
  file,     \* docker-compose.yml
  todo,     \* what the running docker compose command still has to do
  box,      \* Docker: the project's containers, [status, image] by port
  young,    \* Docker: those started since the command was given and its image built
  images,   \* Docker: tags and the version behind each, 0: none
  sources,  \* the version checked out
  built,    \* history: the version this command built
  seen      \* history: the statuses on which wait_healthy decided

scriptVars == <<pc, cmd, tag, count, want, tries, total, result, file, todo, sources, built, seen>>
vars == <<scriptVars, box, young, images>>

NoFile == {0}   \* no port is 0
Nothing == <<>>

Init ==
  /\ pc = "idle" /\ cmd = "none" /\ tag = Declared /\ count = 0 /\ want = {} /\ tries = 0 /\ total = 0
  /\ result = "none" /\ file = NoFile /\ todo = {}
  /\ box = Nothing /\ young = {} /\ images = [t \in Tags |-> 0]
  /\ sources = 1 /\ built = 0 /\ seen = Nothing

End(r) == pc' = "idle" /\ result' = r

-----------------------------------------------------------------------------
(* The Docker daemon. *)

With(p, c) == [q \in DOMAIN box \cup {p} |-> IF q = p THEN c ELSE box[q]]
Without(p) == Restrict(box, DOMAIN box \ {p})
New == [status |-> "starting", image |-> images[Declared]]

\* The HEALTHCHECK, a crash, and the restart policy. A slave is called unhealthy
\* after three failed checks thirty seconds apart: while a command is at work on
\* the slaves, only if it ran before that.
Turns(p) ==
  CASE box[p].status = "restarting" -> {"starting"}
    [] p \in young /\ pc # "idle" -> {"healthy", "restarting"}
    [] OTHER -> {"healthy", "unhealthy", "restarting"}

Docker ==
  /\ \E p \in DOMAIN box : \E s \in Turns(p) \ {box[p].status} :
       /\ box' = [box EXCEPT ![p].status = s]
       /\ young' = IF s = "starting" /\ pc \notin {"idle", "pull", "build"} THEN young \cup {p} ELSE young
  /\ UNCHANGED <<scriptVars, images>>

-----------------------------------------------------------------------------
(* The commands. *)

\* Mutated: the upper bound is checked against the start.
InRangeNoCount(arg) ==
  LET start == arg[1]
      end == arg[Len(arg)]
  IN  start \in Nat /\ end \in Nat /\ start >= 1 /\ start <= MaxPort /\ start <= end

\* parse_range: what stands before the first dash and after the last.
InRange(arg) ==
  LET start == arg[1]
      end == arg[Len(arg)]
  IN  /\ start \in Nat /\ end \in Nat /\ start >= 1 /\ end <= MaxPort
      /\ start <= end /\ end - start + 1 <= MaxCount

Give(c) ==
  /\ pc = "idle" /\ count < MaxCommands
  /\ cmd' = c /\ count' = count + 1
  /\ tries' = 0 /\ seen' = Nothing /\ built' = 0 /\ young' = {}
  /\ UNCHANGED <<total, file, box, images, sources>>

Up(arg) ==
  /\ Give("up") /\ tag' \in Tags
  /\ IF InRange(arg)
     THEN /\ want' = arg[1]..arg[Len(arg)]
          /\ pc' = "build" /\ result' = "none"
     ELSE End("failed") /\ want' = {}
  /\ UNCHANGED todo

Update == Give("update") /\ tag' \in Tags /\ pc' = "pull" /\ result' = "none" /\ want' = {} /\ UNCHANGED todo

\* docker compose refuses a file without a service.
Compose(step, ports) ==
  IF file \in {NoFile, {}} THEN End("failed") /\ UNCHANGED todo
                           ELSE pc' = step /\ todo' = ports /\ result' = "none"

\* All slaves, or the one named.
RestartCmd ==
  /\ Give("restart") /\ want' = {} /\ UNCHANGED tag
  /\ \E ports \in {file} \cup {{p} : p \in file} : Compose("restart", ports \cap DOMAIN box)

Down == Give("down") /\ want' = {} /\ UNCHANGED tag /\ Compose("down", DOMAIN box)

Pull ==
  /\ pc = "pull"
  /\ sources' \in sources..MaxVersion
  /\ pc' = "build"
  /\ UNCHANGED <<cmd, tag, count, want, tries, total, result, file, todo, built, seen, box, young, images>>

\* Mutated: the image is built only when there is none.
BuildIfMissing ==
  /\ pc = "build"
  /\ built' = sources
  /\ images' = IF images[tag] = 0 THEN [images EXCEPT ![tag] = sources] ELSE images
  /\ IF cmd = "up" THEN pc' = "open" /\ UNCHANGED result
     ELSE IF file = NoFile THEN End("ok")
     ELSE pc' = "compose" /\ UNCHANGED result
  /\ UNCHANGED <<cmd, tag, count, want, tries, total, file, todo, sources, seen, box, young>>

\* ensure_image, cmd_build.
Build ==
  /\ pc = "build"
  /\ built' = sources
  /\ images' = [images EXCEPT ![tag] = sources]
  /\ IF cmd = "up" THEN pc' = "open" /\ UNCHANGED result
     ELSE IF file = NoFile THEN End("ok")
     ELSE pc' = "compose" /\ UNCHANGED result
  /\ UNCHANGED <<cmd, tag, count, want, tries, total, file, todo, sources, seen, box, young>>

\* The shell empties the file before gen-compose.sh runs.
OpenFile ==
  /\ pc = "open"
  /\ pc' = "gen" /\ file' = {}
  /\ UNCHANGED <<cmd, tag, count, want, tries, total, result, todo, sources, built, seen, box, young, images>>

\* gen-compose.sh, one service at a time.
Generate ==
  /\ pc = "gen"
  /\ \/ \E p \in want \ file :
          /\ \A q \in want \ file : p <= q
          /\ file' = file \cup {p} /\ UNCHANGED pc
     \/ want = file /\ pc' = "compose" /\ UNCHANGED file
  /\ UNCHANGED <<cmd, tag, count, want, tries, total, result, todo, sources, built, seen, box, young, images>>

-----------------------------------------------------------------------------
(* docker compose: what a command has to do, and each part of it. *)

Outdated == {p \in DOMAIN box : box[p].image # images[Declared]}

\* Mutated: without --remove-orphans.
ComposeUpKeepsOrphans ==
  /\ pc = "compose"
  /\ IF images[Declared] = 0 THEN End("failed") /\ UNCHANGED todo
     ELSE Compose("up", (file \ DOMAIN box) \cup (file \cap Outdated))
  /\ UNCHANGED <<cmd, tag, count, want, tries, total, file, sources, built, seen, box, young, images>>

\* up -d --remove-orphans: new services, those whose image has changed, and
\* the containers of services that are no more.
ComposeUp ==
  /\ pc = "compose"
  /\ IF images[Declared] = 0 THEN End("failed") /\ UNCHANGED todo
     ELSE Compose("up", (file \ DOMAIN box) \cup (file \cap Outdated) \cup (DOMAIN box \ file))
  /\ UNCHANGED <<cmd, tag, count, want, tries, total, file, sources, built, seen, box, young, images>>

ComposeDoes(p) ==
  /\ pc \in {"up", "restart", "down"} /\ p \in todo
  /\ todo' = todo \ {p}
  /\ IF pc = "down" \/ p \notin file THEN box' = Without(p) /\ young' = young \ {p}
     ELSE /\ box' = IF pc = "up" THEN With(p, New) ELSE [box EXCEPT ![p].status = "starting"]
          /\ young' = young \cup {p}
  /\ UNCHANGED <<pc, cmd, tag, count, want, tries, total, result, file, sources, built, seen, images>>

ComposeReturns ==
  /\ pc \in {"up", "restart", "down"} /\ todo = {}
  /\ IF pc = "down" THEN End("ok")
     ELSE pc' = (IF cmd = "up" THEN "wait" ELSE "count") /\ UNCHANGED result
  /\ total' = Cardinality(want)
  /\ UNCHANGED <<cmd, tag, count, want, tries, file, todo, sources, built, seen, box, young, images>>

\* restart and update wait for as many as docker compose ps lists, which may fail.
CountNames ==
  /\ pc = "count"
  /\ total' \in {Cardinality(DOMAIN box), 0}
  /\ pc' = "wait"
  /\ UNCHANGED <<cmd, tag, count, want, tries, result, file, todo, sources, built, seen, box, young, images>>

-----------------------------------------------------------------------------
(* wait_healthy. *)

\* grep -c healthy: the status line of an unhealthy slave has the word too.
Matches(status) == status \in {"healthy", "unhealthy"}

Counted == Cardinality({p \in DOMAIN box : Matches(box[p].status)})

\* Mutated: the loop does not count its rounds.
WaitHealthyForever ==
  /\ pc = "wait"
  /\ \E n \in {Counted, 0} :
       \/ /\ n >= total
          /\ End("ok") /\ seen' = [p \in DOMAIN box |-> box[p].status] /\ UNCHANGED tries
       \/ n < total /\ UNCHANGED <<pc, result, seen, tries>>
  /\ UNCHANGED <<cmd, tag, count, want, total, file, todo, sources, built, box, young, images>>

\* One round, or the end of the loop; docker compose ps may fail.
WaitHealthy ==
  /\ pc = "wait"
  /\ \E n \in {Counted, 0} :
       \/ /\ tries < MaxTries /\ n >= total
          /\ End("ok") /\ seen' = [p \in DOMAIN box |-> box[p].status] /\ UNCHANGED tries
       \/ tries < MaxTries /\ n < total /\ tries' = tries + 1 /\ UNCHANGED <<pc, result, seen>>
       \/ tries = MaxTries /\ End("failed") /\ UNCHANGED <<tries, seen>>
  /\ UNCHANGED <<cmd, tag, count, want, total, file, todo, sources, built, box, young, images>>

\* A step fails, or the operator interrupts the script.
Abort ==
  /\ pc # "idle"
  /\ End("failed") /\ todo' = {}
  /\ UNCHANGED <<cmd, tag, count, want, tries, total, file, sources, built, seen, box, young, images>>

ScriptStep == \/ Pull \/ Build \/ OpenFile \/ Generate \/ ComposeUp
              \/ (\E p \in todo : ComposeDoes(p)) \/ ComposeReturns \/ CountNames \/ WaitHealthy

Over == count = MaxCommands /\ pc = "idle" /\ UNCHANGED vars

Next == \/ (\E arg \in Args : Up(arg)) \/ Update \/ RestartCmd \/ Down
        \/ ScriptStep \/ Abort \/ Docker \/ Over

\* git, docker build and docker compose return.
Spec == Init /\ [][Next]_vars /\ WF_vars(ScriptStep)

-----------------------------------------------------------------------------
Ports == 1..MaxPort
Statuses == {"starting", "healthy", "unhealthy", "restarting"}

TypeOK ==
  /\ pc \in {"idle", "pull", "build", "open", "gen", "compose", "up", "restart", "down", "count", "wait"}
  /\ cmd \in {"none", "up", "update", "restart", "down"} /\ tag \in Tags
  /\ result \in {"none", "ok", "failed"}
  /\ count \in 0..MaxCommands /\ tries \in 0..MaxTries
  /\ want \subseteq Ports /\ (file = NoFile \/ file \subseteq Ports) /\ todo \subseteq Ports
  /\ Cardinality(want) <= MaxCount /\ total \in 0..MaxPort
  /\ young \subseteq DOMAIN box /\ DOMAIN box \subseteq Ports
  /\ \A p \in DOMAIN box : box[p].status \in Statuses /\ box[p].image \in 1..sources
  /\ images \in [Tags -> 0..sources]
  /\ sources \in 1..MaxVersion /\ built \in 0..sources
  /\ DOMAIN seen \subseteq Ports /\ Range(seen) \subseteq Statuses

UpSucceeded == cmd = "up" /\ result = "ok"

(* Whatever commands failed or were interrupted before, and whatever compose  *)
(* file and containers they left, an up that succeeds leaves exactly the       *)
(* slaves of its range, each of them up and past its first health check when   *)
(* it was counted (slave.sh:94-120).                                           *)
UpDelivers ==
  UpSucceeded => /\ DOMAIN box = want /\ DOMAIN seen = want
                 /\ Range(seen) \subseteq {"healthy", "unhealthy"}

RenewSucceeded == cmd \in {"up", "update"} /\ result = "ok"

(* After up and update every slave, those that were up before included, runs   *)
(* what the compose file's tag stands for now; and that is what this very      *)
(* command built, not an older image, unless IMAGE had it build under another  *)
(* tag (slave.sh:85-91, gen-compose.sh:25).                                    *)
UpFresh ==
  RenewSucceeded => \A p \in DOMAIN box : /\ box[p].image = images[Declared]
                                         /\ tag = Declared => box[p].image = built

(* Every command ends: no slave that never comes up holds the script, nor does *)
(* one that keeps crashing (slave.sh:93-103).                                   *)
ScriptEnds == pc # "idle" ~> pc = "idle"

(* DEPLOY.md:81: up waits until all of them are healthy.                        *)
UpAllHealthy == UpSucceeded => Range(seen) \subseteq {"healthy"}

(* DEPLOY.md:111: IMAGE is the name of the image to use - the slaves run what  *)
(* was built under it.                                                         *)
UpRunsItsImage == RenewSucceeded => \A p \in DOMAIN box : box[p].image = images[tag]
=============================================================================
