---------------------------- MODULE SlaveProofs ----------------------------
(***************************************************************************)
(* What an up or an update that succeeds leaves behind, for every sequence *)
(* of commands, failures and interruptions, every range and every number   *)
(* of slaves.  The argument: once gen-compose.sh is through, the file      *)
(* declares the range; docker compose up settles every port it does not    *)
(* list as still to be done; so when it returns, the containers are the    *)
(* file's and run its image, and wait_healthy can only count to their      *)
(* number if each of them matches.                                         *)
(***************************************************************************)
EXTENDS SlaveScript, FiniteSetTheorems, TLAPS

Renews == cmd \in {"up", "update"}

\* The steps each command passes through.
Phases ==
  /\ pc # "idle" => result = "none"
  /\ cmd = "up" => pc \in {"idle", "build", "open", "gen", "compose", "up", "wait"}
  /\ cmd = "update" => pc \in {"idle", "pull", "build", "compose", "up", "count", "wait"}
  /\ cmd \notin {"up", "update"} => pc \in {"idle", "restart", "down", "count", "wait"}

Wanted == IsFiniteSet(want) /\ 0 \notin want /\ (cmd = "up" /\ pc # "idle" => want # {})

\* IMAGE is the tag this command built.
Renewed ==
  /\ tag \in Tags /\ images \in [Tags -> Int] /\ sources \in Int /\ built \in Int
  /\ Renews /\ pc \in {"open", "gen", "compose", "up", "count", "wait"} => images[tag] = built

Boxes == \A p \in DOMAIN box : box[p] \in [status : Statuses, image : Int]

\* Containers come from a compose file, and up's file is its range.
FileFirst ==
  /\ file = NoFile => DOMAIN box = {}
  /\ pc \in {"up", "restart", "down"} => file # NoFile
  /\ cmd = "up" /\ pc \in {"compose", "up", "wait"} => file = want

\* The containers the file asks for, of the image it names, but for what
\* docker compose has still to do.
Settled(p) == p \in DOMAIN box <=> p \in file
Composed ==
  /\ pc = "up" => \A p \in file \cup DOMAIN box : p \notin todo => Settled(p)
  /\ pc = "up" => \A p \in DOMAIN box : p \notin todo => box[p].image = images[Declared]
  /\ cmd = "up" /\ pc = "wait" => DOMAIN box = want /\ total = Cardinality(want)
  /\ Renews /\ pc \in {"count", "wait"} => \A p \in DOMAIN box : box[p].image = images[Declared]

IInv == /\ Phases /\ Wanted /\ Renewed /\ Boxes /\ FileFirst /\ Composed
        /\ UpDelivers /\ UpFresh

-----------------------------------------------------------------------------
LEMMA Starts == Init => IInv
<1> SUFFICES ASSUME Init PROVE IInv
  OBVIOUS
<1>1. IsFiniteSet(want)
  BY FS_EmptySet DEF Init
<1>2. DOMAIN box = {}
  BY DEF Init, Nothing
<1>3. Phases /\ Wanted /\ Renewed
  BY <1>1, SlaveScriptAssumption DEF Init, Phases, Wanted, Renewed, Renews
<1>4. Boxes /\ FileFirst /\ Composed
  BY <1>2 DEF Init, Boxes, FileFirst, Composed, Renews
<1>5. UpDelivers /\ UpFresh
  BY DEF Init, UpDelivers, UpFresh, RenewSucceeded, UpSucceeded
<1> QED BY <1>3, <1>4, <1>5 DEF IInv

(* Docker changes statuses, never which containers there are nor their image. *)
LEMMA DockerKeeps == IInv /\ Docker => IInv'
<1> SUFFICES ASSUME IInv, Docker PROVE IInv'
  OBVIOUS
<1>1. PICK p \in DOMAIN box, s \in Statuses : box' = [box EXCEPT ![p].status = s]
  <2>1. \A p \in DOMAIN box : Turns(p) \subseteq Statuses
    BY DEF Turns, Statuses
  <2> QED BY <2>1 DEF Docker
<1>2. s \in Statuses
  OBVIOUS
<1>3. UNCHANGED <<pc, cmd, tag, want, total, result, file, todo, sources, built, seen, images>>
  BY DEF Docker, scriptVars
<1>4. DOMAIN box' = DOMAIN box
  BY <1>1
<1>5. \A q \in DOMAIN box : /\ box'[q] \in [status : Statuses, image : Int]
                            /\ box'[q].image = box[q].image
  <2> TAKE q \in DOMAIN box
  <2>1. box[q] \in [status : Statuses, image : Int]
    BY DEF IInv, Boxes
  <2>2. box'[q] = IF q = p THEN [box[p] EXCEPT !.status = s] ELSE box[q]
    BY <1>1
  <2> QED BY <1>2, <2>1, <2>2
<1>6. Phases' /\ Wanted' /\ Renewed'
  BY <1>3 DEF IInv, Phases, Wanted, Renewed, Renews
<1>7. Boxes' /\ FileFirst'
  BY <1>3, <1>4, <1>5 DEF IInv, Boxes, FileFirst
<1>8. Composed'
  BY <1>3, <1>4, <1>5 DEF IInv, Composed, Settled, Renews
<1>9. UpDelivers' /\ UpFresh'
  BY <1>3, <1>4, <1>5 DEF IInv, UpDelivers, UpFresh, RenewSucceeded, UpSucceeded
<1> QED BY <1>6, <1>7, <1>8, <1>9 DEF IInv

-----------------------------------------------------------------------------
(* Giving a command. *)
LEMMA UpKeeps ==
  ASSUME IInv, NEW arg \in Args, Up(arg)
  PROVE  IInv'
<1>1. /\ cmd' = "up"
      /\ UNCHANGED <<total, file, box, images, sources>> /\ built' = 0 /\ tag' \in Tags
  BY DEF Up, Give
<1>2. \/ /\ InRange(arg) /\ want' = arg[1]..arg[Len(arg)] /\ pc' = "build" /\ result' = "none"
      \/ pc' = "idle" /\ result' = "failed" /\ want' = {}
  BY DEF Up, End
<1>3. IsFiniteSet(want') /\ 0 \notin want' /\ (pc' # "idle" => want' # {})
  <2>1. CASE InRange(arg) /\ want' = arg[1]..arg[Len(arg)]
    <3>1. arg[1] \in Int /\ arg[Len(arg)] \in Int /\ arg[1] >= 1 /\ arg[1] <= arg[Len(arg)]
      BY <2>1 DEF InRange
    <3>2. IsFiniteSet(want')
      BY <2>1, <3>1, FS_Interval
    <3>3. arg[1] \in want' /\ 0 \notin want'
      BY <2>1, <3>1
    <3> QED BY <3>2, <3>3
  <2>2. CASE pc' = "idle" /\ want' = {}
    BY <2>2, FS_EmptySet
  <2> QED BY <1>2, <2>1, <2>2
<1>4. Phases' /\ Wanted' /\ Renewed'
  BY <1>1, <1>2, <1>3 DEF IInv, Phases, Wanted, Renewed, Renews
<1>5. Boxes' /\ FileFirst' /\ Composed'
  BY <1>1, <1>2 DEF IInv, Boxes, FileFirst, Composed
<1>6. UpDelivers' /\ UpFresh'
  BY <1>2 DEF UpDelivers, UpFresh, RenewSucceeded, UpSucceeded
<1> QED BY <1>4, <1>5, <1>6 DEF IInv

LEMMA UpdateKeeps == IInv /\ Update => IInv'
<1> SUFFICES ASSUME IInv, Update PROVE IInv'
  OBVIOUS
<1>1. /\ tag' \in Tags /\ cmd' = "update" /\ pc' = "pull" /\ result' = "none" /\ want' = {} /\ built' = 0
      /\ UNCHANGED <<total, file, box, images, sources>>
  BY DEF Update, Give
<1>2. Phases' /\ Wanted' /\ Renewed'
  BY <1>1, FS_EmptySet DEF IInv, Phases, Wanted, Renewed, Renews
<1>3. Boxes' /\ FileFirst' /\ Composed'
  BY <1>1 DEF IInv, Boxes, FileFirst, Composed
<1>4. UpDelivers' /\ UpFresh'
  BY <1>1 DEF UpDelivers, UpFresh, RenewSucceeded, UpSucceeded
<1> QED BY <1>2, <1>3, <1>4 DEF IInv

LEMMA OtherCommandKeeps == IInv /\ (RestartCmd \/ Down) => IInv'
<1> SUFFICES ASSUME IInv, RestartCmd \/ Down PROVE IInv'
  OBVIOUS
<1>1. /\ tag' = tag /\ cmd' \in {"restart", "down"} /\ want' = {} /\ built' = 0
      /\ UNCHANGED <<total, file, box, images, sources>>
  BY DEF RestartCmd, Down, Give
<1>2. \/ pc' = "idle"
      \/ pc' \in {"restart", "down"} /\ file # NoFile /\ result' = "none"
  BY DEF RestartCmd, Down, Compose, End
<1>3. Phases' /\ Wanted' /\ Renewed'
  BY <1>1, <1>2, FS_EmptySet DEF IInv, Phases, Wanted, Renewed, Renews
<1>4. Boxes' /\ FileFirst' /\ Composed'
  BY <1>1, <1>2 DEF IInv, Boxes, FileFirst, Composed, Renews
<1>5. UpDelivers' /\ UpFresh'
  BY <1>1 DEF UpDelivers, UpFresh, RenewSucceeded, UpSucceeded
<1> QED BY <1>3, <1>4, <1>5 DEF IInv

-----------------------------------------------------------------------------
(* The steps of a command. *)
LEMMA PullKeeps == IInv /\ Pull => IInv'
<1> SUFFICES ASSUME IInv, Pull PROVE IInv'
  OBVIOUS
<1>1. /\ pc = "pull" /\ pc' = "build" /\ sources' \in Int
      /\ UNCHANGED <<cmd, tag, want, total, result, file, todo, built, seen, box, images>>
  BY DEF Pull, IInv, Renewed
<1>2. Phases' /\ Wanted' /\ Renewed'
  BY <1>1 DEF IInv, Phases, Wanted, Renewed, Renews
<1>3. Boxes' /\ FileFirst' /\ Composed'
  BY <1>1 DEF IInv, Boxes, FileFirst, Composed, Renews
<1>4. UpDelivers' /\ UpFresh'
  BY <1>1 DEF IInv, Phases, UpDelivers, UpFresh, RenewSucceeded, UpSucceeded
<1> QED BY <1>2, <1>3, <1>4 DEF IInv

LEMMA BuildKeeps == IInv /\ Build => IInv'
<1> SUFFICES ASSUME IInv, Build PROVE IInv'
  OBVIOUS
<1>1. /\ pc = "build" /\ built' = sources
      /\ images' = [images EXCEPT ![tag] = sources]
      /\ UNCHANGED <<cmd, tag, want, total, file, todo, sources, seen, box>>
  BY DEF Build
<1>2. \/ cmd = "up" /\ pc' = "open" /\ result' = result
      \/ cmd # "up" /\ file = NoFile /\ pc' = "idle"
      \/ cmd # "up" /\ pc' = "compose" /\ result' = result
  BY DEF Build, End
<1>3. Renewed' /\ images'[tag'] = built'
  BY <1>1 DEF IInv, Renewed
<1>4. Phases' /\ Wanted'
  BY <1>1, <1>2 DEF IInv, Phases, Wanted
<1>5. Boxes' /\ FileFirst' /\ Composed'
  BY <1>1, <1>2 DEF IInv, Boxes, FileFirst, Composed, Renews
<1>6. UpDelivers' /\ UpFresh'
  BY <1>1, <1>2 DEF IInv, Phases, FileFirst, UpDelivers, UpFresh, RenewSucceeded, UpSucceeded
<1> QED BY <1>3, <1>4, <1>5, <1>6 DEF IInv

LEMMA FileKeeps == IInv /\ (OpenFile \/ Generate) => IInv'
<1> SUFFICES ASSUME IInv, OpenFile \/ Generate PROVE IInv'
  OBVIOUS
<1>1. /\ UNCHANGED <<cmd, tag, want, total, result, todo, sources, built, seen, box, images>>
      /\ pc \in {"open", "gen"} /\ cmd = "up"
  BY DEF OpenFile, Generate, IInv, Phases
<1>2. \/ pc' = "gen" /\ file' = {}
      \/ pc' = "gen" /\ \E p \in want \ file : file' = file \cup {p}
      \/ pc' = "compose" /\ file' = file /\ file = want
  BY <1>1 DEF OpenFile, Generate
<1>3. file' = NoFile => DOMAIN box = {}
  BY <1>2 DEF IInv, FileFirst, Wanted, NoFile
<1>4. Phases' /\ Wanted' /\ Renewed'
  BY <1>1, <1>2 DEF IInv, Phases, Wanted, Renewed, Renews
<1>5. Boxes' /\ FileFirst' /\ Composed'
  BY <1>1, <1>2, <1>3 DEF IInv, Boxes, FileFirst, Composed, Renews
<1>6. UpDelivers' /\ UpFresh'
  BY <1>1, <1>2 DEF IInv, Phases, UpDelivers, UpFresh, RenewSucceeded, UpSucceeded
<1> QED BY <1>4, <1>5, <1>6 DEF IInv

(* What docker compose leaves alone is what the file asks for already. *)
LEMMA ComposeUpKeeps == IInv /\ ComposeUp => IInv'
<1> SUFFICES ASSUME IInv, ComposeUp PROVE IInv'
  OBVIOUS
<1>1. /\ pc = "compose"
      /\ UNCHANGED <<cmd, tag, want, total, file, sources, built, seen, box, images>>
  BY DEF ComposeUp
<1>2. CASE pc' = "idle" /\ result' = "failed"
  <2>1. Phases' /\ Wanted' /\ Renewed'
    BY <1>1, <1>2 DEF IInv, Phases, Wanted, Renewed, Renews
  <2>2. Boxes' /\ FileFirst' /\ Composed'
    BY <1>1, <1>2 DEF IInv, Boxes, FileFirst, Composed
  <2> QED BY <1>2, <2>1, <2>2 DEF IInv, UpDelivers, UpFresh, RenewSucceeded, UpSucceeded
<1>3. CASE /\ file # NoFile /\ pc' = "up" /\ result' = "none"
           /\ todo' = (file \ DOMAIN box) \cup (file \cap Outdated) \cup (DOMAIN box \ file)
  <2>1. \A p \in file \cup DOMAIN box : p \notin todo' => Settled(p)
    BY <1>3 DEF Settled
  <2>2. \A p \in DOMAIN box : p \notin todo' => box[p].image = images[Declared]
    BY <1>3 DEF Outdated
  <2>3. Phases' /\ Wanted' /\ Renewed'
    BY <1>1, <1>3 DEF IInv, Phases, Wanted, Renewed, Renews
  <2>4. Boxes' /\ FileFirst' /\ Composed'
    BY <1>1, <1>3, <2>1, <2>2 DEF IInv, Boxes, FileFirst, Composed, Settled
  <2> QED BY <1>3, <2>3, <2>4 DEF IInv, UpDelivers, UpFresh, RenewSucceeded, UpSucceeded
<1> QED BY <1>2, <1>3 DEF ComposeUp, Compose, End

LEMMA ComposeDoesKeeps ==
  ASSUME IInv, NEW p \in todo, ComposeDoes(p)
  PROVE  IInv'
<1>1. /\ pc \in {"up", "restart", "down"} /\ todo' = todo \ {p}
      /\ UNCHANGED <<pc, cmd, tag, want, total, result, file, sources, built, seen, images>>
  BY DEF ComposeDoes
<1>2. file # NoFile /\ result = "none"
  BY <1>1 DEF IInv, FileFirst, Phases
<1>3. New \in [status : Statuses, image : Int] /\ New.image = images[Declared]
  BY SlaveScriptAssumption DEF New, IInv, Renewed, Statuses
<1>4. CASE pc = "down" \/ p \notin file
  <2>1. /\ DOMAIN box' = DOMAIN box \ {p}
        /\ \A q \in DOMAIN box' : box'[q] = box[q]
    BY <1>4 DEF ComposeDoes, Without, Restrict
  <2>2. Boxes'
    BY <2>1 DEF IInv, Boxes
  <2>3. pc = "up" => \A q \in file \cup DOMAIN box' : q \notin todo' => (q \in DOMAIN box' <=> q \in file)
    BY <1>1, <1>4, <2>1 DEF IInv, Composed, Settled
  <2>4. pc = "up" => \A q \in DOMAIN box' : q \notin todo' => box'[q].image = images[Declared]
    BY <1>1, <2>1 DEF IInv, Composed
  <2>5. Phases' /\ Wanted' /\ Renewed' /\ FileFirst'
    BY <1>1, <1>2 DEF IInv, Phases, Wanted, Renewed, Renews, FileFirst
  <2>6. Composed'
    BY <1>1, <2>3, <2>4 DEF Composed, Settled
  <2> QED BY <1>1, <1>2, <2>2, <2>5, <2>6 DEF IInv, UpDelivers, UpFresh, RenewSucceeded, UpSucceeded
<1>5. CASE pc = "up" /\ p \in file
  <2>1. box' = With(p, New)
    BY <1>5 DEF ComposeDoes
  <2>2. /\ DOMAIN box' = DOMAIN box \cup {p}
        /\ \A q \in DOMAIN box' : box'[q] = IF q = p THEN New ELSE box[q]
    BY <2>1 DEF With
  <2>3. Boxes'
    BY <1>3, <2>2 DEF IInv, Boxes
  <2>4. \A q \in file \cup DOMAIN box' : q \notin todo' => (q \in DOMAIN box' <=> q \in file)
    BY <1>1, <1>5, <2>2 DEF IInv, Composed, Settled
  <2>5. \A q \in DOMAIN box' : q \notin todo' => box'[q].image = images[Declared]
    BY <1>1, <1>3, <1>5, <2>2 DEF IInv, Composed
  <2>6. Phases' /\ Wanted' /\ Renewed' /\ FileFirst'
    BY <1>1, <1>2 DEF IInv, Phases, Wanted, Renewed, Renews, FileFirst
  <2>7. Composed'
    BY <1>1, <1>5, <2>4, <2>5 DEF Composed, Settled
  <2> QED BY <1>1, <1>2, <2>3, <2>6, <2>7 DEF IInv, UpDelivers, UpFresh, RenewSucceeded, UpSucceeded
<1>6. CASE pc = "restart" /\ p \in file
  <2>1. box' = [box EXCEPT ![p].status = "starting"]
    BY <1>6 DEF ComposeDoes
  <2>2. DOMAIN box' = DOMAIN box
    BY <2>1
  <2>3. Boxes'
    <3> SUFFICES ASSUME NEW q \in DOMAIN box
                 PROVE  box'[q] \in [status : Statuses, image : Int]
      BY <2>2 DEF Boxes
    <3>1. box[q] \in [status : Statuses, image : Int]
      BY DEF IInv, Boxes
    <3>2. box'[q] = IF q = p THEN [box[q] EXCEPT !.status = "starting"] ELSE box[q]
      BY <2>1
    <3>3. "starting" \in Statuses
      BY DEF Statuses
    <3> QED BY <3>1, <3>2, <3>3
  <2>4. Phases' /\ Wanted' /\ Renewed' /\ FileFirst' /\ Composed'
    BY <1>1, <1>2, <1>6 DEF IInv, Phases, Wanted, Renewed, Renews, FileFirst, Composed
  <2> QED BY <1>1, <1>2, <2>3, <2>4 DEF IInv, UpDelivers, UpFresh, RenewSucceeded, UpSucceeded
<1> QED BY <1>1, <1>4, <1>5, <1>6

LEMMA ComposeReturnsKeeps == IInv /\ ComposeReturns => IInv'
<1> SUFFICES ASSUME IInv, ComposeReturns PROVE IInv'
  OBVIOUS
<1>1. /\ pc \in {"up", "restart", "down"} /\ todo = {} /\ total' = Cardinality(want)
      /\ UNCHANGED <<cmd, tag, want, file, todo, sources, built, seen, box, images>>
  BY DEF ComposeReturns
<1>2. \/ pc = "down" /\ pc' = "idle" /\ result' = "ok"
      \/ pc # "down" /\ cmd = "up" /\ pc' = "wait" /\ result' = result
      \/ pc # "down" /\ cmd # "up" /\ pc' = "count" /\ result' = result
  BY DEF ComposeReturns, End
<1>3. pc = "up" => /\ DOMAIN box = file
                   /\ \A p \in DOMAIN box : box[p].image = images[Declared]
  BY <1>1 DEF IInv, Composed, Settled
<1>4. cmd = "up" => pc = "up" /\ file = want
  BY <1>1 DEF IInv, Phases, FileFirst
<1>5. cmd = "update" => pc = "up"
  BY <1>1 DEF IInv, Phases
<1>6. Phases' /\ Wanted' /\ Renewed'
  BY <1>1, <1>2, <1>4, <1>5 DEF IInv, Phases, Wanted, Renewed, Renews
<1>7. Boxes' /\ FileFirst'
  BY <1>1, <1>2, <1>4 DEF IInv, Boxes, FileFirst
<1>8. Composed'
  BY <1>1, <1>2, <1>3, <1>4, <1>5 DEF Composed, Renews
<1>9. UpDelivers' /\ UpFresh'
  BY <1>1, <1>2, <1>4, <1>5 DEF IInv, Phases, UpDelivers, UpFresh, RenewSucceeded, UpSucceeded
<1> QED BY <1>6, <1>7, <1>8, <1>9 DEF IInv

LEMMA CountNamesKeeps == IInv /\ CountNames => IInv'
<1> SUFFICES ASSUME IInv, CountNames PROVE IInv'
  OBVIOUS
<1>1. /\ pc = "count" /\ pc' = "wait" /\ cmd # "up"
      /\ UNCHANGED <<cmd, tag, want, result, file, todo, sources, built, seen, box, images>>
  BY DEF CountNames, IInv, Phases
<1>2. Phases' /\ Wanted' /\ Renewed'
  BY <1>1 DEF IInv, Phases, Wanted, Renewed, Renews
<1>3. Boxes' /\ FileFirst' /\ Composed'
  BY <1>1 DEF IInv, Boxes, FileFirst, Composed, Renews
<1> QED BY <1>1, <1>2, <1>3 DEF IInv, Phases, UpDelivers, UpFresh, RenewSucceeded, UpSucceeded

(* The count reaches the number of slaves only if every one of them matches. *)
LEMMA AllMatch ==
  ASSUME IInv, pc = "wait", cmd = "up", NEW n \in {Counted, 0}, n >= total
  PROVE  /\ DOMAIN box = want
         /\ \A p \in DOMAIN box : box[p].status \in {"healthy", "unhealthy"}
<1> DEFINE M == {p \in DOMAIN box : Matches(box[p].status)}
<1>1. /\ DOMAIN box = want /\ total = Cardinality(want)
      /\ IsFiniteSet(want) /\ want # {}
  BY DEF IInv, Composed, Wanted
<1>2. M \subseteq want /\ IsFiniteSet(M) /\ Cardinality(M) <= Cardinality(want)
  <2>1. M \in SUBSET want
    BY <1>1
  <2> QED BY <1>1, <2>1, FS_Subset
<1>3. Cardinality(want) \in Nat /\ Cardinality(M) \in Nat /\ Cardinality(want) # 0
  BY <1>1, <1>2, FS_CardinalityType, FS_EmptySet
<1>4. n = Cardinality(M)
  BY <1>1, <1>3 DEF Counted
<1>5. Cardinality(M) = Cardinality(want)
  BY <1>1, <1>2, <1>3, <1>4
<1>6. M = want
  BY <1>1, <1>2, <1>5, FS_Subset
<1> QED BY <1>1, <1>6 DEF Matches

LEMMA WaitHealthyKeeps == IInv /\ WaitHealthy => IInv'
<1> SUFFICES ASSUME IInv, WaitHealthy PROVE IInv'
  OBVIOUS
<1>1. /\ pc = "wait"
      /\ UNCHANGED <<cmd, tag, want, total, file, todo, sources, built, box, images>>
  BY DEF WaitHealthy
<1>2. PICK n \in {Counted, 0} :
        \/ /\ n >= total /\ pc' = "idle" /\ result' = "ok"
           /\ seen' = [p \in DOMAIN box |-> box[p].status]
        \/ UNCHANGED <<pc, result, seen>>
        \/ pc' = "idle" /\ result' = "failed"
  BY DEF WaitHealthy, End
<1>3. Phases' /\ Wanted' /\ Renewed'
  BY <1>1, <1>2 DEF IInv, Phases, Wanted, Renewed, Renews
<1>4. Boxes' /\ FileFirst' /\ Composed'
  BY <1>1, <1>2 DEF IInv, Boxes, FileFirst, Composed, Renews
<1>5. UpDelivers'
  <2> SUFFICES ASSUME cmd = "up", result' = "ok"
               PROVE  /\ DOMAIN box = want /\ DOMAIN seen' = want
                      /\ Range(seen') \subseteq {"healthy", "unhealthy"}
    BY <1>1 DEF UpDelivers, UpSucceeded
  <2>1. n >= total /\ seen' = [p \in DOMAIN box |-> box[p].status]
    BY <1>1, <1>2 DEF IInv, Phases
  <2>2. /\ DOMAIN box = want
        /\ \A p \in DOMAIN box : box[p].status \in {"healthy", "unhealthy"}
    BY <1>1, <2>1, AllMatch
  <2> QED BY <2>1, <2>2 DEF Range
<1>6. UpFresh'
  <2> SUFFICES ASSUME Renews, result' = "ok", NEW p \in DOMAIN box
               PROVE  box[p].image = images[Declared] /\ (tag = Declared => box[p].image = built)
    BY <1>1 DEF UpFresh, RenewSucceeded, Renews
  <2> QED BY <1>1 DEF IInv, Composed, Renewed
<1> QED BY <1>3, <1>4, <1>5, <1>6 DEF IInv

LEMMA AbortKeeps == IInv /\ Abort => IInv'
<1> SUFFICES ASSUME IInv, Abort PROVE IInv'
  OBVIOUS
<1>1. /\ pc' = "idle" /\ result' = "failed"
      /\ UNCHANGED <<cmd, tag, want, total, file, sources, built, seen, box, images>>
  BY DEF Abort, End
<1>2. Phases' /\ Wanted' /\ Renewed'
  BY <1>1 DEF IInv, Phases, Wanted, Renewed, Renews
<1>3. Boxes' /\ FileFirst' /\ Composed'
  BY <1>1 DEF IInv, Boxes, FileFirst, Composed
<1> QED BY <1>1, <1>2, <1>3 DEF IInv, UpDelivers, UpFresh, RenewSucceeded, UpSucceeded

LEMMA StutterKeeps == IInv /\ UNCHANGED vars => IInv'
<1> SUFFICES ASSUME IInv, UNCHANGED vars PROVE IInv'
  OBVIOUS
<1>1. UNCHANGED <<pc, cmd, tag, want, total, result, file, todo, sources, built, seen, box, images>>
  BY DEF vars, scriptVars
<1>2. Phases' /\ Wanted' /\ Renewed'
  BY <1>1 DEF IInv, Phases, Wanted, Renewed, Renews
<1>3. Boxes' /\ FileFirst' /\ Composed'
  BY <1>1 DEF IInv, Boxes, FileFirst, Composed, Renews, Settled
<1>4. UpDelivers' /\ UpFresh'
  BY <1>1 DEF IInv, UpDelivers, UpFresh, RenewSucceeded, UpSucceeded
<1> QED BY <1>2, <1>3, <1>4 DEF IInv

LEMMA Invariance == Spec => []IInv
<1>1. Init => IInv
  BY Starts
<1>2. IInv /\ [Next]_vars => IInv'
  <2> SUFFICES ASSUME IInv, [Next]_vars PROVE IInv'
    OBVIOUS
  <2>1. CASE \E arg \in Args : Up(arg)
    BY <2>1, UpKeeps
  <2>2. CASE Update \/ RestartCmd \/ Down
    BY <2>2, UpdateKeeps, OtherCommandKeeps
  <2>3. CASE ScriptStep
    <3>1. CASE Pull \/ Build \/ OpenFile \/ Generate
      BY <3>1, PullKeeps, BuildKeeps, FileKeeps
    <3>2. CASE ComposeUp \/ ComposeReturns \/ CountNames \/ WaitHealthy
      BY <3>2, ComposeUpKeeps, ComposeReturnsKeeps, CountNamesKeeps, WaitHealthyKeeps
    <3>3. CASE \E p \in todo : ComposeDoes(p)
      BY <3>3, ComposeDoesKeeps
    <3> QED BY <2>3, <3>1, <3>2, <3>3 DEF ScriptStep
  <2>4. CASE Abort \/ Docker
    BY <2>4, AbortKeeps, DockerKeeps
  <2>5. CASE UNCHANGED vars
    BY <2>5, StutterKeeps
  <2> QED BY <2>1, <2>2, <2>3, <2>4, <2>5 DEF Next, Over
<1> QED BY <1>1, <1>2, PTL DEF Spec

-----------------------------------------------------------------------------
(* An up that succeeds leaves exactly the slaves of its range, whatever was *)
(* interrupted before it (slave.sh:94-120).                                 *)
THEOREM UpAlwaysDelivers == Spec => []UpDelivers
<1>1. IInv => UpDelivers
  BY DEF IInv
<1> QED BY <1>1, Invariance, PTL

(* Whatever IMAGE names in each command, and whatever was interrupted       *)
(* before: after up and update every slave runs what the compose file's tag *)
(* stands for now, and that is what this very command built unless IMAGE    *)
(* had it build under another tag (slave.sh:85-91).                         *)
THEOREM UpNeverStale == Spec => []UpFresh
<1>1. IInv => UpFresh
  BY DEF IInv
<1> QED BY <1>1, Invariance, PTL

-----------------------------------------------------------------------------
(* Types and bounds. *)
Control ==
  /\ pc \in {"idle", "pull", "build", "open", "gen", "compose", "up", "restart", "down", "count", "wait"}
  /\ cmd \in {"none", "up", "update", "restart", "down"} /\ tag \in Tags /\ result \in {"none", "ok", "failed"}
  /\ count \in 0..MaxCommands /\ tries \in 0..MaxTries

\* docker compose restart works on slaves there are.
PortSets ==
  /\ want \subseteq Ports /\ Cardinality(want) <= MaxCount /\ total \in 0..MaxPort
  /\ (file = NoFile \/ file \subseteq Ports) /\ (pc = "gen" => file \subseteq Ports)
  /\ todo \subseteq Ports /\ (pc = "restart" => todo \subseteq DOMAIN box)
  /\ young \subseteq DOMAIN box /\ DOMAIN box \subseteq Ports

\* docker compose up does not start without an image, and no container is of a
\* version that was never built.
Versions ==
  /\ sources \in 1..MaxVersion /\ built \in 0..sources
  /\ images \in [Tags -> 0..sources] /\ (pc = "up" => images[Declared] # 0)
  /\ \A p \in DOMAIN box : box[p].image \in 1..sources

Decided == DOMAIN seen \subseteq Ports /\ Range(seen) \subseteq Statuses

BoundInv == Control /\ PortSets /\ Versions /\ Decided

LEMMA PortsFinite ==
  ASSUME NEW S \in SUBSET Ports PROVE Cardinality(S) \in 0..MaxPort
<1>1. MaxPort \in Nat
  BY SlaveScriptAssumption
<1>2. IsFiniteSet(1..MaxPort) /\ Cardinality(1..MaxPort) = MaxPort
  BY <1>1, FS_Interval
<1>3. /\ Cardinality(S) \in Nat /\ Cardinality(S) <= MaxPort
  BY <1>1, <1>2, FS_Subset, FS_CardinalityType DEF Ports
<1> QED BY <1>1, <1>3

LEMMA BoundsAtStart == Init => BoundInv
<1> SUFFICES ASSUME Init PROVE BoundInv
  OBVIOUS
<1>1. DOMAIN box = {} /\ DOMAIN seen = {} /\ Range(seen) = {}
  BY DEF Init, Nothing, Range
<1>2. Cardinality(want) = 0
  BY FS_EmptySet DEF Init
<1>3. /\ MaxCommands \in Nat /\ MaxTries \in Nat /\ MaxCount \in Nat /\ MaxPort \in Nat
      /\ MaxVersion \in Nat /\ MaxVersion # 0 /\ Declared \in Tags
  BY SlaveScriptAssumption
<1>4. Control /\ PortSets
  BY <1>1, <1>2, <1>3 DEF Init, Control, PortSets
<1>5. Versions /\ Decided
  BY <1>1, <1>3 DEF Init, Versions, Decided
<1> QED BY <1>4, <1>5 DEF BoundInv

(* A range that parse_range lets through is of ports, and not too long. *)
LEMMA RangeFits ==
  ASSUME NEW arg, InRange(arg), NEW S, S = arg[1]..arg[Len(arg)]
  PROVE  S \subseteq Ports /\ Cardinality(S) <= MaxCount
<1> DEFINE a == arg[1]
           b == arg[Len(arg)]
<1>1. /\ a \in Nat /\ b \in Nat /\ a >= 1 /\ b <= MaxPort /\ a <= b /\ b - a + 1 <= MaxCount
      /\ S = a..b
  BY DEF InRange
<1> HIDE DEF a, b
<1>2. MaxPort \in Nat
  BY SlaveScriptAssumption
<1>3. Cardinality(a..b) = b - a + 1
  BY <1>1, FS_Interval
<1>4. a..b \subseteq 1..MaxPort
  BY <1>1, <1>2
<1>5. Cardinality(S) <= MaxCount
  BY <1>1, <1>3
<1> QED BY <1>1, <1>4, <1>5 DEF Ports

LEMMA CommandBounds ==
  ASSUME IInv, BoundInv, (\E arg \in Args : Up(arg)) \/ Update \/ RestartCmd \/ Down
  PROVE  BoundInv'
<1>1. /\ count' \in 0..MaxCommands /\ tries' \in 0..MaxTries /\ cmd' \in {"up", "update", "restart", "down"}
      /\ seen' = Nothing /\ built' = 0 /\ young' = {} /\ tag' \in Tags
      /\ UNCHANGED <<total, file, box, images, sources>>
  <2>1. \E c \in {"up", "update", "restart", "down"} : Give(c)
    BY DEF Up, Update, RestartCmd, Down
  <2>2. \A n \in 0..MaxCommands : n < MaxCommands => n + 1 \in 0..MaxCommands
    BY SlaveScriptAssumption
  <2>3. 0 \in 0..MaxTries
    BY SlaveScriptAssumption
  <2>4. tag' \in Tags
    BY DEF Up, Update, RestartCmd, Down, BoundInv, Control
  <2> QED BY <2>1, <2>2, <2>3, <2>4 DEF Give, BoundInv, Control
<1>2. /\ pc' \in {"idle", "build", "pull", "restart", "down"} /\ result' \in {"none", "failed"}
      /\ todo' \subseteq Ports /\ (pc' = "restart" => todo' \subseteq DOMAIN box)
  BY DEF Up, Update, RestartCmd, Down, Compose, End, BoundInv, PortSets
<1>3. want' \subseteq Ports /\ Cardinality(want') <= MaxCount
  <2>1. want' = {} \/ \E arg \in Args : InRange(arg) /\ want' = arg[1]..arg[Len(arg)]
    BY DEF Up, Update, RestartCmd, Down
  <2>2. Cardinality({}) <= MaxCount
    BY FS_EmptySet, SlaveScriptAssumption
  <2> QED BY <2>1, <2>2, RangeFits
<1>4. DOMAIN seen' = {} /\ Range(seen') = {}
  BY <1>1 DEF Nothing, Range
<1>5. Control'
  BY <1>1, <1>2 DEF Control
<1>6. PortSets'
  BY <1>1, <1>2, <1>3 DEF BoundInv, PortSets
<1>7. Versions'
  BY <1>1, <1>2 DEF BoundInv, Versions
<1> QED BY <1>4, <1>5, <1>6, <1>7 DEF BoundInv, Decided

LEMMA BuildBounds ==
  ASSUME IInv, BoundInv, Pull \/ Build \/ OpenFile \/ Generate
  PROVE  BoundInv'
<1>1. UNCHANGED <<cmd, tag, count, want, tries, total, todo, seen, box, young>>
  BY DEF Pull, Build, OpenFile, Generate
<1>2. pc' \in {"idle", "build", "open", "compose", "gen"} /\ result' \in {result, "ok"}
  BY DEF Pull, Build, OpenFile, Generate, End
<1>3. Control' /\ Decided'
  BY <1>1, <1>2 DEF BoundInv, Control, Decided
<1>4. PortSets'
  <2>1. /\ file' = NoFile \/ file' \subseteq Ports
        /\ pc' = "gen" => file' \subseteq Ports
    BY <1>1 DEF Pull, Build, OpenFile, Generate, End, BoundInv, PortSets
  <2> QED BY <1>1, <1>2, <2>1 DEF BoundInv, PortSets
<1>5. Versions'
  <2>1. CASE Pull
    <3>1. sources' \in sources..MaxVersion /\ UNCHANGED <<images, built>>
      BY <2>1 DEF Pull
    <3>2. /\ sources \in Nat /\ sources >= 1 /\ MaxVersion \in Nat /\ sources' \in Nat
          /\ sources <= sources' /\ sources' <= MaxVersion
      BY <3>1, SlaveScriptAssumption DEF BoundInv, Versions
    <3>3. \A n \in 0..sources : n \in 0..sources'
      BY <3>2
    <3>4. \A n \in 1..sources : n \in 1..sources'
      BY <3>2
    <3>5. images \in [Tags -> 0..sources']
      BY <3>3 DEF BoundInv, Versions
    <3>6. sources' \in 1..MaxVersion
      BY <3>2
    <3> QED BY <1>1, <1>2, <3>1, <3>3, <3>4, <3>5, <3>6 DEF BoundInv, Versions
  <2>2. CASE Build
    <3>1. built' = sources /\ images' = [images EXCEPT ![tag] = sources] /\ sources' = sources
      BY <2>2 DEF Build
    <3>2. sources \in 0..sources
      BY DEF BoundInv, Versions
    <3> QED BY <1>1, <1>2, <3>1, <3>2 DEF BoundInv, Versions
  <2>3. CASE OpenFile \/ Generate
    <3>1. UNCHANGED <<images, sources, built>>
      BY <2>3 DEF OpenFile, Generate
    <3> QED BY <1>1, <1>2, <3>1 DEF BoundInv, Versions
  <2> QED BY <2>1, <2>2, <2>3
<1> QED BY <1>3, <1>4, <1>5 DEF BoundInv

LEMMA ComposeUpBounds ==
  ASSUME IInv, BoundInv, ComposeUp
  PROVE  BoundInv'
<1>1. UNCHANGED <<cmd, tag, count, want, tries, total, file, sources, built, seen, box, young, images>>
  BY DEF ComposeUp
<1>2. \/ pc' = "idle" /\ result' = "failed" /\ todo' = todo
      \/ /\ pc' = "up" /\ result' = "none" /\ file # NoFile /\ images[Declared] # 0
         /\ todo' = (file \ DOMAIN box) \cup (file \cap Outdated) \cup (DOMAIN box \ file)
  BY DEF ComposeUp, Compose, End
<1>3. todo' \subseteq Ports
  BY <1>2 DEF BoundInv, PortSets
<1>4. Control' /\ PortSets'
  BY <1>1, <1>2, <1>3 DEF BoundInv, Control, PortSets
<1>5. Versions' /\ Decided'
  BY <1>1, <1>2 DEF BoundInv, Versions, Decided
<1> QED BY <1>4, <1>5 DEF BoundInv

LEMMA ComposeDoesBounds ==
  ASSUME IInv, BoundInv, NEW p \in todo, ComposeDoes(p)
  PROVE  BoundInv'
<1>1. /\ pc \in {"up", "restart", "down"} /\ todo' = todo \ {p}
      /\ UNCHANGED <<pc, cmd, tag, count, want, tries, total, result, file, sources, built, seen, images>>
  BY DEF ComposeDoes
<1>2. Control' /\ Decided'
  BY <1>1 DEF BoundInv, Control, Decided
<1>3. p \in Ports
  BY DEF BoundInv, PortSets
<1>4. CASE pc = "down" \/ p \notin file
  <2>1. /\ DOMAIN box' = DOMAIN box \ {p} /\ \A q \in DOMAIN box' : box'[q] = box[q]
        /\ young' = young \ {p}
    BY <1>4 DEF ComposeDoes, Without, Restrict
  <2>2. PortSets'
    BY <1>1, <2>1 DEF BoundInv, PortSets
  <2>3. Versions'
    BY <1>1, <2>1 DEF BoundInv, Versions
  <2> QED BY <1>2, <2>2, <2>3 DEF BoundInv
<1>5. CASE pc = "up" /\ p \in file
  <2>1. /\ DOMAIN box' = DOMAIN box \cup {p}
        /\ \A q \in DOMAIN box' : box'[q] = IF q = p THEN New ELSE box[q]
        /\ young' = young \cup {p}
    BY <1>5 DEF ComposeDoes, With
  <2>2. New.image \in 1..sources
    <3>1. images[Declared] \in 0..sources /\ images[Declared] # 0
      BY <1>5, SlaveScriptAssumption DEF BoundInv, Versions
    <3>2. sources \in Nat
      BY SlaveScriptAssumption DEF BoundInv, Versions
    <3> QED BY <3>1, <3>2 DEF New
  <2>3. PortSets'
    BY <1>1, <1>3, <1>5, <2>1 DEF BoundInv, PortSets
  <2>4. Versions'
    BY <1>1, <2>1, <2>2 DEF BoundInv, Versions
  <2> QED BY <1>2, <2>3, <2>4 DEF BoundInv
<1>6. CASE pc = "restart" /\ p \in file
  <2>1. box' = [box EXCEPT ![p].status = "starting"] /\ young' = young \cup {p}
    BY <1>6 DEF ComposeDoes
  <2>2. DOMAIN box' = DOMAIN box /\ p \in DOMAIN box
    BY <1>6, <2>1 DEF BoundInv, PortSets
  <2>3. \A q \in DOMAIN box : box'[q].image = box[q].image
    <3> SUFFICES ASSUME NEW q \in DOMAIN box PROVE box'[q].image = box[q].image
      OBVIOUS
    <3>1. box[q] \in [status : Statuses, image : Int]
      BY DEF IInv, Boxes
    <3>2. box'[q] = IF q = p THEN [box[q] EXCEPT !.status = "starting"] ELSE box[q]
      BY <2>1
    <3> QED BY <3>1, <3>2
  <2>4. PortSets'
    BY <1>1, <1>6, <2>1, <2>2 DEF BoundInv, PortSets
  <2>5. Versions'
    BY <1>1, <2>2, <2>3 DEF BoundInv, Versions
  <2> QED BY <1>2, <2>4, <2>5 DEF BoundInv
<1> QED BY <1>1, <1>4, <1>5, <1>6

LEMMA CountBounds ==
  ASSUME IInv, BoundInv, ComposeReturns \/ CountNames \/ Abort
  PROVE  BoundInv'
<1>1. UNCHANGED <<cmd, tag, count, want, tries, file, sources, built, seen, box, young, images>>
  BY DEF ComposeReturns, CountNames, Abort
<1>2. /\ pc' \in {"idle", "wait", "count"} /\ result' \in {result, "ok", "failed"}
      /\ todo' \in {todo, {}}
  BY DEF ComposeReturns, CountNames, Abort, End
<1>3. total' \in 0..MaxPort
  <2>1. /\ Cardinality(want) \in 0..MaxPort /\ Cardinality(DOMAIN box) \in 0..MaxPort
        /\ total \in 0..MaxPort /\ 0 \in 0..MaxPort
    BY PortsFinite, SlaveScriptAssumption DEF BoundInv, PortSets
  <2>2. total' \in {Cardinality(want), Cardinality(DOMAIN box), 0, total}
    BY DEF ComposeReturns, CountNames, Abort
  <2> QED BY <2>1, <2>2
<1>4. Control' /\ PortSets'
  BY <1>1, <1>2, <1>3 DEF BoundInv, Control, PortSets
<1>5. Versions' /\ Decided'
  BY <1>1, <1>2 DEF BoundInv, Versions, Decided
<1> QED BY <1>4, <1>5 DEF BoundInv

LEMMA WaitBounds ==
  ASSUME IInv, BoundInv, WaitHealthy
  PROVE  BoundInv'
<1>1. UNCHANGED <<cmd, tag, count, want, total, file, todo, sources, built, box, young, images>>
  BY DEF WaitHealthy
<1>2. pc' \in {pc, "idle"} /\ pc = "wait" /\ result' \in {result, "ok", "failed"}
  BY DEF WaitHealthy, End
<1>3. tries' \in 0..MaxTries
  <2>1. \A n \in 0..MaxTries : n < MaxTries => n + 1 \in 0..MaxTries
    BY SlaveScriptAssumption
  <2>2. tries' = tries \/ (tries < MaxTries /\ tries' = tries + 1)
    BY DEF WaitHealthy
  <2> QED BY <2>1, <2>2 DEF BoundInv, Control
<1>4. Decided'
  <2>1. seen' = seen \/ seen' = [p \in DOMAIN box |-> box[p].status]
    BY DEF WaitHealthy
  <2>2. \A p \in DOMAIN box : box[p].status \in Statuses /\ p \in Ports
    BY DEF IInv, Boxes, BoundInv, PortSets
  <2> QED BY <2>1, <2>2 DEF BoundInv, Decided, Range
<1>5. Control' /\ PortSets' /\ Versions'
  BY <1>1, <1>2, <1>3 DEF BoundInv, Control, PortSets, Versions
<1> QED BY <1>4, <1>5 DEF BoundInv

LEMMA DockerBounds ==
  ASSUME IInv, BoundInv, Docker
  PROVE  BoundInv'
<1>1. PICK p \in DOMAIN box : \E s \in Turns(p) \ {box[p].status} :
          /\ box' = [box EXCEPT ![p].status = s]
          /\ young' \in {young, young \cup {p}}
  BY DEF Docker
<1>2. PICK s \in Turns(p) :
          /\ box' = [box EXCEPT ![p].status = s]
          /\ young' \in {young, young \cup {p}}
  BY <1>1
<1>3. UNCHANGED <<pc, cmd, tag, count, want, tries, total, result, file, todo, sources, built, seen, images>>
  BY DEF Docker, scriptVars
<1>4. DOMAIN box' = DOMAIN box
  BY <1>2
<1>5. \A q \in DOMAIN box : box'[q].image = box[q].image
  <2> SUFFICES ASSUME NEW q \in DOMAIN box PROVE box'[q].image = box[q].image
    OBVIOUS
  <2>1. box[q] \in [status : Statuses, image : Int]
    BY DEF IInv, Boxes
  <2>2. box'[q] = IF q = p THEN [box[q] EXCEPT !.status = s] ELSE box[q]
    BY <1>2
  <2> QED BY <2>1, <2>2
<1>6. Control' /\ Decided'
  BY <1>3 DEF BoundInv, Control, Decided
<1>7. PortSets'
  BY <1>2, <1>3, <1>4 DEF BoundInv, PortSets
<1>8. Versions'
  BY <1>3, <1>4, <1>5 DEF BoundInv, Versions
<1> QED BY <1>6, <1>7, <1>8 DEF BoundInv

LEMMA NextBounds == IInv /\ BoundInv /\ [Next]_vars => BoundInv'
<1> SUFFICES ASSUME IInv, BoundInv, [Next]_vars PROVE BoundInv'
  OBVIOUS
<1>1. CASE UNCHANGED vars
  <2>1. UNCHANGED <<pc, cmd, tag, count, want, tries, total, result, file, todo, sources, built, seen,
                    box, young, images>>
    BY <1>1 DEF vars, scriptVars
  <2> QED BY <2>1 DEF BoundInv, Control, PortSets, Versions, Decided
<1>2. CASE ScriptStep
  BY <1>2, BuildBounds, ComposeUpBounds, ComposeDoesBounds, CountBounds, WaitBounds DEF ScriptStep
<1>3. CASE Next /\ ~ScriptStep
  BY <1>1, <1>3, CommandBounds, CountBounds, DockerBounds DEF Next, Over
<1> QED BY <1>1, <1>2, <1>3

(* Ports, counts and versions stay within their bounds: no command, however   *)
(* interrupted, has docker compose work on a port outside parse_range's, or   *)
(* leaves a container of an image that was never built (slave.sh:60-120).      *)
THEOREM SlaveTypeCorrect == Spec => []TypeOK
<1>1. IInv /\ BoundInv => TypeOK
  BY DEF IInv, Boxes, BoundInv, Control, PortSets, Versions, Decided, TypeOK
<1> QED BY <1>1, BoundsAtStart, NextBounds, Invariance, PTL DEF Spec
=============================================================================
