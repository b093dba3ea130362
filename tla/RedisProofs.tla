---------------------------- MODULE RedisProofs ----------------------------
(***************************************************************************)
(* The safety of the Redis connection, for every set of setups and every   *)
(* number of calls and connections.  The argument: a connection never      *)
(* carries more than one command or reply, because the client reads one    *)
(* reply for each command and gives the connection up when it cannot.  So  *)
(* the reply that is read is the awaited one, and the server has carried   *)
(* out SELECT before it sees a SET of the same connection.                 *)
(***************************************************************************)
EXTENDS RedisClient, TLAPS

Quiet(c) == in[c] = <<>> /\ out[c] = <<>>
Asked(c, m) == in[c] = <<m>> /\ out[c] = <<>>
Answered(c, m, ok) == in[c] = <<>> /\ out[c] = <<[to |-> m, ok |-> ok]>>

\* One command or one reply is under way on a connection, or nothing.
OneUnderWay ==
  \A c \in Conns : \/ Quiet(c)
                   \/ \E m \in Commands : Asked(c, m)
                   \/ \E m \in Commands, ok \in BOOLEAN : Answered(c, m, ok)

\* On the client's own connection it is what the client waits for.
Awaited ==
  conn # 0 => \/ Quiet(conn)
              \/ waits /\ Asked(conn, Command(step, call))
              \/ waits /\ \E ok \in BOOLEAN : Answered(conn, Command(step, call), ok)

\* A SET is sent only where the database was selected, abandoned or not.
SetsInOurs ==
  \A c \in Conns, m \in Commands : Asked(c, m) /\ m.cmd = "SET" => session[c].db = DB

\* What the server says it did, it did.
RepliesTrue ==
  \A c \in Conns, m \in Commands : Answered(c, m, TRUE) =>
    /\ m.cmd = "SET" => <<m.of, DB>> \in applied
    /\ m.cmd = "SELECT" => session[c].db = DB

\* Past SELECT the client's connection is in its database.
Selected == conn # 0 /\ step \notin {"AUTH", "SELECT"} => session[conn].db = DB

\* Connections not made yet are as they will be found.
Unmade == \A c \in Conns : c > dials => Quiet(c) /\ session[c] = Fresh

WireTypes ==
  /\ in \in [Conns -> Seq(Commands)]
  /\ out \in [Conns -> Seq([to : Commands, ok : BOOLEAN])]
  /\ session \in [Conns -> [open : BOOLEAN, authed : BOOLEAN, db : {0, DB}]]
  /\ applied \subseteq (1..MaxCalls) \X {0, DB}

ClientTypes ==
  /\ setup \in Setups
  /\ call \in 0..MaxCalls /\ dials \in 0..MaxDials /\ conn \in 0..dials
  /\ step \in {"idle", "dial", "AUTH", "SELECT", "PING", "SET"} /\ waits \in BOOLEAN
  /\ acked \subseteq 1..call
  /\ step \notin {"idle", "dial"} => conn # 0
  /\ step = "dial" => conn = 0
  /\ waits => step \notin {"idle", "dial"}
  /\ step # "idle" => call > 0

IInv == /\ WireTypes /\ ClientTypes /\ OneUnderWay /\ Awaited /\ SetsInOurs /\ RepliesTrue
        /\ Selected /\ Unmade /\ AckedApplied /\ OnlyOurDatabase

-----------------------------------------------------------------------------
(* Sequences of at most one element. *)
LEMMA OneElement ==
  ASSUME NEW S, NEW m \in S
  PROVE  /\ Append(<<>>, m) = <<m>> /\ Head(<<m>>) = m /\ Tail(<<m>>) = <<>>
         /\ <<m>> # <<>> /\ <<m>> \in Seq(S) /\ <<>> \in Seq(S)
  OBVIOUS

LEMMA Bounds == MaxCalls \in Nat /\ MaxDials \in Nat
  BY RedisAssumption

LEMMA Setup ==
  ASSUME setup \in Setups
  PROVE  /\ DB \in Nat
         /\ setup.guarded \in BOOLEAN
  BY RedisAssumption DEF DB

LEMMA Starts == Init => IInv
<1> SUFFICES ASSUME Init PROVE IInv
  OBVIOUS
<1>1. DB \in Nat /\ setup.guarded \in BOOLEAN
  BY Setup DEF Init
<1>2. WireTypes /\ ClientTypes
  <2>1. in \in [Conns -> Seq(Commands)] /\ out \in [Conns -> Seq([to : Commands, ok : BOOLEAN])]
    BY DEF Init
  <2>2. session \in [Conns -> [open : BOOLEAN, authed : BOOLEAN, db : {0, DB}]]
    BY <1>1 DEF Init, Fresh
  <2>3. ClientTypes
    <3>1. waits \in BOOLEAN /\ ~waits
      BY DEF Init
    <3> QED BY <3>1, Bounds DEF Init, ClientTypes
  <2> QED BY <2>1, <2>2, <2>3 DEF Init, WireTypes
<1>3. \A c \in Conns : Quiet(c) /\ session[c] = Fresh
  BY DEF Init, Quiet
<1>4. OneUnderWay /\ Awaited /\ Selected /\ Unmade
  BY <1>3 DEF Init, OneUnderWay, Awaited, Selected, Unmade
<1>5. SetsInOurs /\ RepliesTrue
  <2>1. \A c \in Conns, m \in Commands : ~Asked(c, m)
    BY <1>3, OneElement DEF Asked, Quiet
  <2>2. \A c \in Conns, m \in Commands : ~Answered(c, m, TRUE)
    BY <1>3, OneElement DEF Answered, Quiet
  <2> QED BY <2>1, <2>2 DEF SetsInOurs, RepliesTrue
<1>6. AckedApplied /\ OnlyOurDatabase
  BY DEF Init, AckedApplied, OnlyOurDatabase
<1> QED BY <1>2, <1>4, <1>5, <1>6 DEF IInv

-----------------------------------------------------------------------------
(* What the client does without touching a connection's contents: the wires *)
(* and the server's sessions keep their part of the invariant.              *)
WiresKept == UNCHANGED <<setup, in, out, session, applied>>

LEMMA WiresStay ==
  ASSUME IInv, WiresKept
  PROVE  /\ WireTypes' /\ OneUnderWay' /\ SetsInOurs' /\ RepliesTrue' /\ OnlyOurDatabase'
         /\ DB' = DB
         /\ \A c \in Conns : Quiet(c)' = Quiet(c)
<1>1. /\ DB' = DB
      /\ \A c : Quiet(c)' = Quiet(c)
      /\ \A c, m : Asked(c, m)' = Asked(c, m)
      /\ \A c, m, ok : Answered(c, m, ok)' = Answered(c, m, ok)
  BY DEF WiresKept, DB, Quiet, Asked, Answered
<1>2. OneUnderWay'
  BY <1>1 DEF IInv, OneUnderWay
<1>3. SetsInOurs' /\ RepliesTrue' /\ OnlyOurDatabase'
  BY <1>1 DEF IInv, SetsInOurs, RepliesTrue, OnlyOurDatabase, WiresKept
<1>4. WireTypes'
  BY <1>1 DEF IInv, WireTypes, WiresKept
<1> QED BY <1>1, <1>2, <1>3, <1>4

LEMMA CallKeeps == IInv /\ Call => IInv'
<1> SUFFICES ASSUME IInv, Call PROVE IInv'
  OBVIOUS
<1>1. WiresKept
  BY DEF Call, WiresKept
<1>2. /\ WireTypes' /\ OneUnderWay' /\ SetsInOurs' /\ RepliesTrue' /\ OnlyOurDatabase'
      /\ DB' = DB
  BY <1>1, WiresStay
<1>3. ClientTypes'
  BY Bounds DEF IInv, ClientTypes, Call
<1>4. Awaited'
  <2>1. conn # 0 => Quiet(conn)
    BY DEF IInv, Awaited, ClientTypes, Call
  <2> QED BY <2>1 DEF Awaited, Quiet, Call
<1>5. Selected'
  BY <1>2 DEF IInv, Selected, Call, ClientTypes
<1>6. Unmade' /\ AckedApplied'
  BY <1>2 DEF IInv, Unmade, AckedApplied, Quiet, Fresh, Call
<1> QED BY <1>2, <1>3, <1>4, <1>5, <1>6 DEF IInv

(* Set gives up: whatever is on the connection stays there, unread. *)
LEMMA FailsKeeps ==
  ASSUME IInv, WiresKept, Fails, UNCHANGED <<call, dials, acked>>
  PROVE  IInv'
<1>2. /\ WireTypes' /\ OneUnderWay' /\ SetsInOurs' /\ RepliesTrue' /\ OnlyOurDatabase'
      /\ DB' = DB
  BY WiresStay
<1>3. ClientTypes'
  <2>1. waits' \in BOOLEAN /\ ~waits'
    BY DEF Fails
  <2> QED BY <2>1, Bounds DEF IInv, ClientTypes, Fails, WiresKept
<1>4. Awaited' /\ Selected'
  BY DEF Awaited, Selected, Fails
<1>5. Unmade' /\ AckedApplied'
  BY <1>2 DEF IInv, Unmade, AckedApplied, Quiet, Fresh, WiresKept
<1> QED BY <1>2, <1>3, <1>4, <1>5 DEF IInv

LEMMA DialKeeps == IInv /\ Dial => IInv'
<1> SUFFICES ASSUME IInv, Dial PROVE IInv'
  OBVIOUS
<1>1. WiresKept
  BY DEF Dial, WiresKept
<1>2. /\ WireTypes' /\ OneUnderWay' /\ SetsInOurs' /\ RepliesTrue' /\ OnlyOurDatabase'
      /\ DB' = DB
  BY <1>1, WiresStay
<1>3. CASE Fails /\ UNCHANGED dials
  BY <1>1, <1>3, FailsKeeps DEF Dial
<1>4. CASE /\ dials < MaxDials
           /\ conn' = dials + 1 /\ dials' = dials + 1 /\ step' = First
           /\ UNCHANGED waits
  <2>1. First \in {"AUTH", "SELECT", "PING"}
    BY DEF First
  <2>2. dials + 1 \in Conns /\ dials \in Nat
    BY <1>4, Bounds DEF IInv, ClientTypes, Conns
  <2>3. ClientTypes'
    BY <1>4, <2>1, <2>2, Bounds DEF IInv, ClientTypes, Dial
  <2>4. Quiet(dials + 1) /\ session[dials + 1] = Fresh
    BY <2>2 DEF IInv, Unmade
  <2>5. Awaited'
    BY <2>4, <1>4 DEF Awaited, Quiet, Dial
  <2>6. Selected'
    <3>1. First = "PING" => DB = 0
      BY DEF First
    <3>2. session[dials + 1].db = 0
      BY <2>4 DEF Fresh
    <3> QED BY <1>2, <1>4, <2>1, <3>1, <3>2 DEF Selected, Dial
  <2>7. Unmade' /\ AckedApplied'
    <3>1. \A c \in Conns : c > dials + 1 => c > dials
      BY <2>2, RedisAssumption DEF Conns
    <3> QED BY <1>2, <1>4, <3>1 DEF IInv, Unmade, AckedApplied, Quiet, Fresh, Dial
  <2> QED BY <1>2, <2>3, <2>5, <2>6, <2>7 DEF IInv
<1> QED BY <1>3, <1>4 DEF Dial

LEMMA GivingUpKeeps == IInv /\ ReadFails => IInv'
<1> SUFFICES ASSUME IInv, ReadFails PROVE IInv'
  OBVIOUS
<1>1. WiresKept
  BY DEF ReadFails, WiresKept
<1>2. IInv'
  BY <1>1, FailsKeeps DEF ReadFails
<1> QED BY <1>2

(* The command goes out on a connection that carries nothing. *)
LEMMA WriteKeeps == IInv /\ Write => IInv'
<1> SUFFICES ASSUME IInv, Write PROVE IInv'
  OBVIOUS
<1> DEFINE m == Command(step, call)
<1>1. CASE Fails /\ UNCHANGED in
  BY <1>1, FailsKeeps DEF Write, WiresKept
<1>2. CASE /\ in' = [in EXCEPT ![conn] = IF session[conn].open
                                          THEN Append(@, m) ELSE @]
           /\ waits' = TRUE /\ UNCHANGED <<step, conn>>
  <2>1. conn \in Conns /\ conn # 0 /\ m \in Commands /\ m.cmd = step /\ m.of = call
    BY Bounds DEF IInv, ClientTypes, Write, Conns, Commands, Command
  <2>2. Quiet(conn)
    BY <2>1 DEF IInv, Awaited, Write
  <2>3. /\ in \in [Conns -> Seq(Commands)] /\ DOMAIN in = Conns
        /\ UNCHANGED <<setup, call, step, conn, dials, acked, out, session, applied>>
        /\ DB' = DB /\ Command(step, call)' = m
    BY <1>2 DEF IInv, WireTypes, Write, DB
  <2>4. \A c \in Conns : c # conn => in'[c] = in[c]
    BY <1>2, <2>3
  <2>5. out'[conn] = <<>> /\ (in'[conn] = <<>> \/ in'[conn] = <<m>>)
    BY <1>2, <2>1, <2>2, <2>3, OneElement DEF Quiet
  <2>6. \A c \in Conns : c # conn => /\ Quiet(c)' = Quiet(c)
                                     /\ \A n : Asked(c, n)' = Asked(c, n)
                                     /\ \A n, ok : Answered(c, n, ok)' = Answered(c, n, ok)
    BY <2>3, <2>4 DEF Quiet, Asked, Answered
  <2>7. WireTypes'
    <3>1. in'[conn] \in Seq(Commands)
      BY <2>1, <2>5, OneElement
    <3>2. in' \in [Conns -> Seq(Commands)]
      <4>1. in' = [in EXCEPT ![conn] = in'[conn]]
        BY <1>2, <2>1, <2>3
      <4> HIDE DEF m
      <4> QED BY <2>1, <2>3, <3>1, <4>1
    <3> QED BY <2>3, <3>2 DEF IInv, WireTypes
  <2>8. ClientTypes'
    <3>1. waits' \in BOOLEAN /\ step \notin {"idle", "dial"}
      BY <1>2 DEF Write
    <3> QED BY <2>3, <3>1 DEF IInv, ClientTypes
  <2>9. OneUnderWay'
    <3>1. Quiet(conn)' \/ Asked(conn, m)'
      BY <2>3, <2>5 DEF Quiet, Asked
    <3> QED BY <2>1, <2>3, <2>6, <3>1 DEF IInv, OneUnderWay
  <2>10. Awaited'
    BY <1>2, <2>3, <2>5 DEF Awaited, Quiet, Asked
  <2>11. SetsInOurs'
    <3> SUFFICES ASSUME NEW c \in Conns, NEW n \in Commands, Asked(c, n)', n.cmd = "SET"
                 PROVE  session[c].db = DB
      BY <2>3 DEF SetsInOurs
    <3>1. CASE c # conn
      <4>1. Asked(c, n)
        BY <2>6, <3>1
      <4> QED BY <4>1 DEF IInv, SetsInOurs
    <3>2. CASE c = conn
      <4>1. n = m
        BY <2>1, <2>5, <3>2, OneElement DEF Asked
      <4> QED BY <2>1, <3>2, <4>1 DEF IInv, Selected
    <3> QED BY <3>1, <3>2
  <2>12. RepliesTrue'
    <3> SUFFICES ASSUME NEW c \in Conns, NEW n \in Commands, Answered(c, n, TRUE)'
                 PROVE  /\ n.cmd = "SET" => <<n.of, DB>> \in applied
                        /\ n.cmd = "SELECT" => session[c].db = DB
      BY <2>3 DEF RepliesTrue
    <3>1. c # conn
      BY <2>5, OneElement DEF Answered
    <3>2. Answered(c, n, TRUE)
      BY <2>6, <3>1
    <3> QED BY <3>2 DEF IInv, RepliesTrue
  <2>13. Unmade'
    <3>1. ~(conn > dials)
      BY Bounds DEF IInv, ClientTypes
    <3>2. setup' = setup /\ session' = session /\ dials' = dials
      BY <2>3
    <3> QED BY <2>6, <3>1, <3>2 DEF IInv, Unmade, Fresh
  <2>14. Selected' /\ AckedApplied' /\ OnlyOurDatabase'
    BY <2>3 DEF IInv, Selected, AckedApplied, OnlyOurDatabase
  <2> QED BY <2>7, <2>8, <2>9, <2>10, <2>11, <2>12, <2>13, <2>14 DEF IInv
<1> QED BY <1>1, <1>2 DEF Write

(* The reply that is read answers the awaited command. *)
LEMMA ReadsAwaited ==
  ASSUME IInv, waits, out[conn] # <<>>
  PROVE  /\ conn \in Conns /\ conn # 0
         /\ \E ok \in BOOLEAN : Answered(conn, Command(step, call), ok)
<1>1. conn \in Conns /\ conn # 0
  BY Bounds DEF IInv, ClientTypes, Conns
<1>2. ~Quiet(conn) /\ ~Asked(conn, Command(step, call))
  BY DEF Quiet, Asked
<1> QED BY <1>1, <1>2 DEF IInv, Awaited

LEMMA ReadKeeps == IInv /\ Read => IInv'
<1> SUFFICES ASSUME IInv, Read PROVE IInv'
  OBVIOUS
<1> DEFINE m == Command(step, call)
<1>1. waits /\ out[conn] # <<>>
  BY DEF Read
<1>2. conn \in Conns /\ conn # 0 /\ \E ok \in BOOLEAN : Answered(conn, m, ok)
  BY <1>1, ReadsAwaited
<1>3. PICK ok \in BOOLEAN : Answered(conn, m, ok)
  BY <1>2
<1>4. m \in Commands /\ m.cmd = step /\ m.of = call
  BY <1>1, Bounds DEF IInv, ClientTypes, Commands, Command
<1>5. Head(out[conn]) = [to |-> m, ok |-> ok] /\ Tail(out[conn]) = <<>>
  BY <1>3, OneElement DEF Answered
<1>6. /\ UNCHANGED <<setup, call, dials, in, session, applied>>
      /\ DB' = DB
      /\ out' = [out EXCEPT ![conn] = <<>>]
  BY <1>5 DEF Read, DB
<1>7. DOMAIN out = Conns /\ out \in [Conns -> Seq([to : Commands, ok : BOOLEAN])]
  BY DEF IInv, WireTypes
<1>8. \A c \in Conns : out'[c] = IF c = conn THEN <<>> ELSE out[c]
  BY <1>2, <1>6, <1>7
<1>9. in'[conn] = <<>> /\ out'[conn] = <<>>
  BY <1>2, <1>3, <1>6, <1>8 DEF Answered
<1>10. \A c \in Conns : c # conn => /\ Quiet(c)' = Quiet(c)
                                    /\ \A n : Asked(c, n)' = Asked(c, n)
                                    /\ \A n, b : Answered(c, n, b)' = Answered(c, n, b)
  BY <1>6, <1>8 DEF Quiet, Asked, Answered
<1>11. WireTypes'
  <2>1. out' \in [Conns -> Seq([to : Commands, ok : BOOLEAN])]
    <3>1. <<>> \in Seq([to : Commands, ok : BOOLEAN])
      OBVIOUS
    <3> QED BY <1>6, <1>7, <3>1
  <2> QED BY <1>6, <2>1 DEF IInv, WireTypes
<1>12. OneUnderWay'
  <2> SUFFICES ASSUME NEW c \in Conns
               PROVE  \/ Quiet(c)'
                      \/ \E n \in Commands : Asked(c, n)'
                      \/ \E n \in Commands, b \in BOOLEAN : Answered(c, n, b)'
    BY DEF OneUnderWay
  <2>1. CASE c = conn
    BY <1>9, <2>1 DEF Quiet
  <2>2. CASE c # conn
    BY <1>10, <2>2 DEF IInv, OneUnderWay
  <2> QED BY <2>1, <2>2
<1>13. SetsInOurs'
  <2> SUFFICES ASSUME NEW c \in Conns, NEW n \in Commands, Asked(c, n)', n.cmd = "SET"
               PROVE  session[c].db = DB
    BY <1>6 DEF SetsInOurs
  <2>1. c # conn
    BY <1>9, OneElement DEF Asked
  <2>2. Asked(c, n)
    BY <1>10, <2>1
  <2> QED BY <2>2 DEF IInv, SetsInOurs
<1>14. RepliesTrue'
  <2> SUFFICES ASSUME NEW c \in Conns, NEW n \in Commands, Answered(c, n, TRUE)'
               PROVE  /\ n.cmd = "SET" => <<n.of, DB>> \in applied
                      /\ n.cmd = "SELECT" => session[c].db = DB
    BY <1>6 DEF RepliesTrue
  <2>1. c # conn
    BY <1>9, OneElement DEF Answered
  <2>2. Answered(c, n, TRUE)
    BY <1>10, <2>1
  <2> QED BY <2>2 DEF IInv, RepliesTrue
<1>15. Unmade'
  <2>1. ~(conn > dials)
    BY Bounds DEF IInv, ClientTypes
  <2>2. setup' = setup /\ session' = session /\ dials' = dials
    BY <1>6
  <2> QED BY <1>10, <2>1, <2>2 DEF IInv, Unmade, Fresh
<1>16. OnlyOurDatabase'
  BY <1>6 DEF IInv, OnlyOurDatabase
<1>17. ClientTypes' /\ Awaited' /\ Selected' /\ AckedApplied'
  <2>1. CASE ok
    <3>1. /\ waits' = FALSE /\ conn' = conn
          /\ step' = IF step = "SET" THEN "idle" ELSE After(step)
          /\ acked' = IF step = "SET" THEN acked \cup {call} ELSE acked
      BY <1>5, <2>1 DEF Read
    <3>2. waits' \in BOOLEAN /\ ~waits' /\ step \in {"AUTH", "SELECT", "PING", "SET"}
      BY <1>1, <3>1 DEF IInv, ClientTypes
    <3>3. Answered(conn, m, TRUE)
      BY <1>3, <2>1
    <3>4. /\ step = "SET" => <<call, DB>> \in applied
          /\ step = "SELECT" => session[conn].db = DB
      BY <1>2, <1>4, <3>3 DEF IInv, RepliesTrue
    <3>5. /\ After("AUTH") = IF DB # 0 THEN "SELECT" ELSE "PING"
          /\ After("SELECT") = "PING" /\ After("PING") = "SET"
      BY DEF After
    <3>6. ClientTypes'
      BY <1>6, <3>1, <3>2, <3>5, Bounds DEF IInv, ClientTypes
    <3>7. Awaited'
      BY <1>9, <3>1 DEF Awaited, Quiet
    <3>8. Selected'
      <4>1. step = "AUTH" /\ DB = 0 => session[conn].db = DB
        BY <1>2 DEF IInv, WireTypes
      <4>2. step \in {"PING", "SET"} => session[conn].db = DB
        BY <1>2 DEF IInv, Selected
      <4> QED BY <1>6, <3>1, <3>2, <3>4, <3>5, <4>1, <4>2 DEF Selected
    <3>9. AckedApplied'
      BY <1>6, <3>1, <3>4 DEF IInv, AckedApplied
    <3> QED BY <3>6, <3>7, <3>8, <3>9
  <2>2. CASE ~ok
    <3>1. Fails /\ acked' = acked
      BY <1>5, <2>2 DEF Read
    <3>2. waits' \in BOOLEAN /\ ~waits'
      BY <3>1 DEF Fails
    <3>3. ClientTypes'
      BY <1>6, <3>1, <3>2, Bounds DEF IInv, ClientTypes, Fails
    <3> QED BY <1>6, <3>1, <3>3 DEF IInv, Awaited, Selected, AckedApplied, Fails
  <2> QED BY <2>1, <2>2
<1> QED BY <1>11, <1>12, <1>13, <1>14, <1>15, <1>16, <1>17 DEF IInv

-----------------------------------------------------------------------------
(* The server takes the one command of a connection and may answer it; it   *)
(* says "+OK" to a SET only after it applied it, and to a SELECT only after *)
(* it changed the session.                                                  *)
LEMMA ServeKeeps ==
  ASSUME IInv, NEW c \in Conns, Serve(c)
  PROVE  IInv'
<1>1. PICK m \in Commands : Asked(c, m)
  BY OneElement DEF IInv, OneUnderWay, Serve, Quiet, Answered
<1>2. /\ Head(in[c]) = m /\ Tail(in[c]) = <<>> /\ out[c] = <<>>
      /\ m.of \in 1..MaxCalls
  BY <1>1, OneElement DEF Asked, Commands
<1>3. /\ UNCHANGED <<setup, call, step, waits, conn, dials, acked>>
      /\ DB' = DB /\ in' = [in EXCEPT ![c] = <<>>]
      /\ Command(step, call)' = Command(step, call)
  BY <1>2 DEF Serve, DB, clientVars
<1>4. PICK ok \in BOOLEAN :
         /\ out' = [out EXCEPT ![c] = Append(@, [to |-> m, ok |-> ok])]
         /\ IF ok THEN /\ session' = [session EXCEPT
                            ![c].authed = (@ \/ m.cmd = "AUTH"),
                            ![c].db = IF m.cmd = "SELECT" THEN DB ELSE @]
                       /\ applied' = IF m.cmd = "SET"
                                     THEN applied \cup {<<m.of, session[c].db>>}
                                     ELSE applied
                  ELSE UNCHANGED <<session, applied>>
  <2> DEFINE R(ok) == out' = [out EXCEPT ![c] = Append(@, [to |-> m, ok |-> ok])]
  <2>1. \/ /\ R(TRUE)
           /\ session' = [session EXCEPT
                 ![c].authed = (@ \/ m.cmd = "AUTH"),
                 ![c].db = IF m.cmd = "SELECT" THEN DB ELSE @]
           /\ applied' = IF m.cmd = "SET" THEN applied \cup {<<m.of, session[c].db>>}
                                          ELSE applied
        \/ R(FALSE) /\ UNCHANGED <<session, applied>>
    BY <1>2 DEF Serve
  <2> QED BY <2>1
<1>5. /\ DOMAIN in = Conns /\ DOMAIN out = Conns /\ DOMAIN session = Conns
      /\ session[c].db \in {0, DB} /\ session[c].authed \in BOOLEAN
      /\ session[c].open \in BOOLEAN
      /\ session[c] \in [open : BOOLEAN, authed : BOOLEAN, db : {0, DB}]
  BY DEF IInv, WireTypes
<1> DEFINE r == [to |-> m, ok |-> ok]
<1>6. in'[c] = <<>> /\ out'[c] = <<r>>
  BY <1>2, <1>3, <1>4, <1>5, OneElement
<1>7. \A d \in Conns : d # c => in'[d] = in[d] /\ out'[d] = out[d] /\ session'[d] = session[d]
  BY <1>3, <1>4, <1>5
<1>8. \A d \in Conns : d # c => /\ Quiet(d)' = Quiet(d)
                                /\ \A n : Asked(d, n)' = Asked(d, n)
                                /\ \A n, b : Answered(d, n, b)' = Answered(d, n, b)
  BY <1>7 DEF Quiet, Asked, Answered
<1>9. Answered(c, m, ok)'
  BY <1>6 DEF Answered
<1>10. /\ session'[c].db = IF ok /\ m.cmd = "SELECT" THEN DB ELSE session[c].db
       /\ session'[c] \in [open : BOOLEAN, authed : BOOLEAN, db : {0, DB}]
  <2>1. CASE ok
    <3>1. session'[c] = [session[c] EXCEPT
                !.authed = (@ \/ m.cmd = "AUTH"),
                !.db = IF m.cmd = "SELECT" THEN DB ELSE @]
      BY <1>4, <1>5, <2>1
    <3>2. (session[c].authed \/ m.cmd = "AUTH") \in BOOLEAN
      OBVIOUS
    <3> QED BY <1>5, <2>1, <3>1, <3>2
  <2>2. CASE ~ok
    BY <1>4, <1>5, <2>2
  <2> QED BY <2>1, <2>2
<1>11. \A d \in Conns : session[d].db = DB => session'[d].db = DB
  BY <1>7, <1>10
<1>12. applied \subseteq applied' /\ \A a \in applied' : a \in applied \/ a = <<m.of, DB>>
  <2>1. m.cmd = "SET" => session[c].db = DB
    BY <1>1 DEF IInv, SetsInOurs
  <2> QED BY <1>4, <2>1
<1>13. WireTypes'
  <2>1. in' \in [Conns -> Seq(Commands)]
    BY <1>3, OneElement DEF IInv, WireTypes
  <2>2. out' \in [Conns -> Seq([to : Commands, ok : BOOLEAN])]
    <3>1. r \in [to : Commands, ok : BOOLEAN]
      OBVIOUS
    <3>2. Append(out[c], r) \in Seq([to : Commands, ok : BOOLEAN])
      BY <3>1, <1>2, OneElement
    <3> QED BY <1>4, <3>2 DEF IInv, WireTypes
  <2>3. session' \in [Conns -> [open : BOOLEAN, authed : BOOLEAN, db : {0, DB}]]
    <3>1. \A d \in Conns : session'[d] \in [open : BOOLEAN, authed : BOOLEAN, db : {0, DB}]
      BY <1>7, <1>10 DEF IInv, WireTypes
    <3>2. CASE ok
      <4>1. session' = [d \in Conns |-> session'[d]]
        BY <1>4, <1>5, <3>2
      <4> QED BY <3>1, <4>1
    <3>3. CASE ~ok
      BY <1>4, <3>3 DEF IInv, WireTypes
    <3> QED BY <3>2, <3>3
  <2>4. applied' \subseteq (1..MaxCalls) \X {0, DB}
    BY <1>2, <1>12 DEF IInv, WireTypes
  <2> QED BY <1>3, <2>1, <2>2, <2>3, <2>4 DEF WireTypes
<1>14. ClientTypes'
  BY <1>3 DEF IInv, ClientTypes
<1>15. OneUnderWay'
  <2> SUFFICES ASSUME NEW d \in Conns
               PROVE  \/ Quiet(d)'
                      \/ \E n \in Commands : Asked(d, n)'
                      \/ \E n \in Commands, b \in BOOLEAN : Answered(d, n, b)'
    BY DEF OneUnderWay
  <2>1. CASE d = c
    BY <1>9, <2>1
  <2>2. CASE d # c
    BY <1>8, <2>2 DEF IInv, OneUnderWay
  <2> QED BY <2>1, <2>2
<1>16. Awaited'
  <2>1. CASE conn = c
    <3>1. conn # 0 => waits /\ m = Command(step, call)
      BY <1>1, <2>1, OneElement DEF IInv, Awaited, Quiet, Asked, Answered
    <3>2. conn # 0 => Answered(conn, Command(step, call), ok)'
      BY <1>3, <1>9, <2>1, <3>1 DEF Answered
    <3> QED BY <1>3, <3>1, <3>2 DEF Awaited
  <2>2. CASE conn # c
    <3>1. conn # 0 => conn \in Conns
      BY Bounds DEF IInv, ClientTypes, Conns
    <3>2. conn # 0 => in'[conn] = in[conn] /\ out'[conn] = out[conn]
      BY <1>7, <2>2, <3>1
    <3> QED BY <1>3, <3>2 DEF IInv, Awaited, Quiet, Asked, Answered
  <2> QED BY <2>1, <2>2
<1>17. SetsInOurs'
  <2> SUFFICES ASSUME NEW d \in Conns, NEW n \in Commands, Asked(d, n)', n.cmd = "SET"
               PROVE  session'[d].db = DB
    BY <1>3 DEF SetsInOurs
  <2>1. d # c
    BY <1>6, OneElement DEF Asked
  <2>2. Asked(d, n)
    BY <1>8, <2>1
  <2>3. session[d].db = DB
    BY <2>2 DEF IInv, SetsInOurs
  <2> QED BY <1>11, <2>3
<1>18. RepliesTrue'
  <2> SUFFICES ASSUME NEW d \in Conns, NEW n \in Commands, Answered(d, n, TRUE)'
               PROVE  /\ n.cmd = "SET" => <<n.of, DB>> \in applied'
                      /\ n.cmd = "SELECT" => session'[d].db = DB
    BY <1>3 DEF RepliesTrue
  <2>1. CASE d # c
    <3>1. Answered(d, n, TRUE)
      BY <1>8, <2>1
    <3>2. /\ n.cmd = "SET" => <<n.of, DB>> \in applied
          /\ n.cmd = "SELECT" => session[d].db = DB
      BY <3>1 DEF IInv, RepliesTrue
    <3> QED BY <1>11, <1>12, <3>2
  <2>2. CASE d = c
    <3>1. <<[to |-> n, ok |-> TRUE]>>[1] = <<r>>[1]
      BY <1>6, <2>2 DEF Answered
    <3>2. n = m /\ ok
      BY <3>1
    <3>3. m.cmd = "SET" => session[c].db = DB
      BY <1>1 DEF IInv, SetsInOurs
    <3> QED BY <1>4, <1>10, <2>2, <3>2, <3>3
  <2> QED BY <2>1, <2>2
<1>19. Selected'
  <2>1. conn # 0 => conn \in Conns
    BY Bounds DEF IInv, ClientTypes, Conns
  <2> QED BY <1>3, <1>11, <2>1 DEF IInv, Selected
<1>20. Unmade'
  <2>1. ~(c > dials)
    BY <1>1, OneElement DEF IInv, Unmade, Quiet, Asked
  <2>2. Fresh' = Fresh
    BY <1>3 DEF Fresh
  <2> QED BY <1>3, <1>7, <1>8, <2>1, <2>2 DEF IInv, Unmade
<1>21. AckedApplied'
  BY <1>3, <1>12 DEF IInv, AckedApplied
<1>22. OnlyOurDatabase'
  BY <1>3, <1>12 DEF IInv, OnlyOurDatabase
<1> QED BY <1>13, <1>14, <1>15, <1>16, <1>17, <1>18, <1>19, <1>20, <1>21, <1>22 DEF IInv

(* A connection that breaks loses what it carried. *)
LEMMA DropKeeps ==
  ASSUME IInv, NEW c \in Conns, Drop(c)
  PROVE  IInv'
<1>1. /\ UNCHANGED <<setup, call, step, waits, conn, dials, acked, applied>>
      /\ DB' = DB /\ in' = [in EXCEPT ![c] = <<>>] /\ out' = [out EXCEPT ![c] = <<>>]
      /\ session' = [session EXCEPT ![c].open = FALSE]
      /\ Command(step, call)' = Command(step, call)
  BY DEF Drop, DB, clientVars
<1>2. /\ DOMAIN in = Conns /\ DOMAIN out = Conns /\ DOMAIN session = Conns
      /\ session[c] \in [open : BOOLEAN, authed : BOOLEAN, db : {0, DB}]
  BY DEF IInv, WireTypes
<1>3. /\ in'[c] = <<>> /\ out'[c] = <<>>
      /\ \A d \in Conns : d # c => in'[d] = in[d] /\ out'[d] = out[d] /\ session'[d] = session[d]
      /\ \A d \in Conns : session'[d].db = session[d].db
  BY <1>1, <1>2
<1>4. \A d \in Conns : d # c => /\ Quiet(d)' = Quiet(d)
                                /\ \A n : Asked(d, n)' = Asked(d, n)
                                /\ \A n, b : Answered(d, n, b)' = Answered(d, n, b)
  BY <1>3 DEF Quiet, Asked, Answered
<1>5. Quiet(c)'
  BY <1>3 DEF Quiet
<1>6. WireTypes'
  <2>1. <<>> \in Seq(Commands) /\ <<>> \in Seq([to : Commands, ok : BOOLEAN])
    OBVIOUS
  <2>2. in' \in [Conns -> Seq(Commands)] /\ out' \in [Conns -> Seq([to : Commands, ok : BOOLEAN])]
    BY <1>1, <2>1 DEF IInv, WireTypes
  <2>3. session' \in [Conns -> [open : BOOLEAN, authed : BOOLEAN, db : {0, DB}]]
    BY <1>1 DEF IInv, WireTypes
  <2> QED BY <1>1, <2>2, <2>3 DEF IInv, WireTypes
<1>7. ClientTypes'
  BY <1>1 DEF IInv, ClientTypes
<1>8. OneUnderWay'
  <2> SUFFICES ASSUME NEW d \in Conns
               PROVE  \/ Quiet(d)'
                      \/ \E n \in Commands : Asked(d, n)'
                      \/ \E n \in Commands, b \in BOOLEAN : Answered(d, n, b)'
    BY DEF OneUnderWay
  <2>1. CASE d = c
    BY <1>5, <2>1
  <2>2. CASE d # c
    BY <1>4, <2>2 DEF IInv, OneUnderWay
  <2> QED BY <2>1, <2>2
<1>9. Awaited'
  <2>1. conn # 0 => conn \in Conns
    BY Bounds DEF IInv, ClientTypes, Conns
  <2>2. CASE conn = c
    BY <1>1, <1>3, <2>2 DEF Awaited, Quiet
  <2>3. CASE conn # c
    <3>1. conn # 0 => in'[conn] = in[conn] /\ out'[conn] = out[conn]
      BY <1>3, <2>1, <2>3
    <3> QED BY <1>1, <3>1 DEF IInv, Awaited, Quiet, Asked, Answered
  <2> QED BY <2>2, <2>3
<1>10. SetsInOurs'
  <2> SUFFICES ASSUME NEW d \in Conns, NEW n \in Commands, Asked(d, n)', n.cmd = "SET"
               PROVE  session'[d].db = DB
    BY <1>1 DEF SetsInOurs
  <2>1. d # c
    BY <1>3, OneElement DEF Asked
  <2>2. Asked(d, n)
    BY <1>4, <2>1
  <2>3. session[d].db = DB
    BY <2>2 DEF IInv, SetsInOurs
  <2> QED BY <1>3, <2>3
<1>11. RepliesTrue'
  <2> SUFFICES ASSUME NEW d \in Conns, NEW n \in Commands, Answered(d, n, TRUE)'
               PROVE  /\ n.cmd = "SET" => <<n.of, DB>> \in applied
                      /\ n.cmd = "SELECT" => session'[d].db = DB
    BY <1>1 DEF RepliesTrue
  <2>1. d # c
    BY <1>3, OneElement DEF Answered
  <2>2. Answered(d, n, TRUE)
    BY <1>4, <2>1
  <2>3. /\ n.cmd = "SET" => <<n.of, DB>> \in applied
        /\ n.cmd = "SELECT" => session[d].db = DB
    BY <2>2 DEF IInv, RepliesTrue
  <2> QED BY <1>3, <2>3
<1>12. Selected'
  <2>1. conn # 0 => conn \in Conns
    BY Bounds DEF IInv, ClientTypes, Conns
  <2> QED BY <1>1, <1>3, <2>1 DEF IInv, Selected
<1>13. Unmade'
  <2>1. ~(c > dials)
    BY Bounds DEF Drop, IInv, ClientTypes, Conns
  <2>2. Fresh' = Fresh
    BY <1>1 DEF Fresh
  <2> QED BY <1>1, <1>3, <1>4, <2>1, <2>2 DEF IInv, Unmade
<1>14. AckedApplied' /\ OnlyOurDatabase'
  BY <1>1 DEF IInv, AckedApplied, OnlyOurDatabase
<1> QED BY <1>6, <1>7, <1>8, <1>9, <1>10, <1>11, <1>12, <1>13, <1>14 DEF IInv

LEMMA StutterKeeps == IInv /\ UNCHANGED vars => IInv'
<1> SUFFICES ASSUME IInv, UNCHANGED vars PROVE IInv'
  OBVIOUS
<1>1. /\ WiresKept
      /\ UNCHANGED <<call, step, waits, conn, dials, acked>>
      /\ DB' = DB /\ Command(step, call)' = Command(step, call)
  BY DEF vars, clientVars, WiresKept, DB
<1>2. WireTypes' /\ OneUnderWay' /\ SetsInOurs' /\ RepliesTrue' /\ OnlyOurDatabase'
  BY <1>1, WiresStay
<1>3. ClientTypes' /\ Awaited'
  BY <1>1 DEF IInv, ClientTypes, Awaited, Quiet, Asked, Answered, WiresKept
<1>4. Selected' /\ Unmade' /\ AckedApplied'
  BY <1>1 DEF IInv, Selected, Unmade, AckedApplied, Quiet, Fresh, WiresKept
<1> QED BY <1>2, <1>3, <1>4 DEF IInv

LEMMA Invariance == Spec => []IInv
<1>1. Init => IInv
  BY Starts
<1>2. IInv /\ [Next]_vars => IInv'
  <2> SUFFICES ASSUME IInv, [Next]_vars PROVE IInv'
    OBVIOUS
  <2>1. CASE Call
    BY <2>1, CallKeeps
  <2>2. CASE Client
    BY <2>2, DialKeeps, WriteKeeps, ReadKeeps, GivingUpKeeps DEF Client
  <2>3. CASE \E c \in Conns : Serve(c) \/ Drop(c)
    BY <2>3, ServeKeeps, DropKeeps
  <2>4. CASE UNCHANGED vars
    BY <2>4, StutterKeeps
  <2> QED BY <2>1, <2>2, <2>3, <2>4 DEF Next, Over
<1> QED BY <1>1, <1>2, PTL DEF Spec

-----------------------------------------------------------------------------
(* The client's and the server's state stay in their ranges: one command or *)
(* reply per connection, a connection whenever a command is at hand.        *)
THEOREM RedisTypeCorrect == Spec => []TypeOK
<1>1. IInv => TypeOK
  BY DEF IInv, WireTypes, ClientTypes, TypeOK
<1> QED BY <1>1, Invariance, PTL

(* A reply is read by the command it answers, however late it comes and     *)
(* however many connections were given up (redisc.go:112-115).              *)
THEOREM RepliesAlwaysMatch == Spec => []RepliesMatch
<1>1. IInv => RepliesMatch
  <2> SUFFICES ASSUME IInv, waits, out[conn] # <<>>
               PROVE  Head(out[conn]).to = Command(step, call)
    BY DEF RepliesMatch
  <2>1. PICK ok \in BOOLEAN : Answered(conn, Command(step, call), ok)
    BY ReadsAwaited
  <2> QED BY <2>1 DEF Answered
<1> QED BY <1>1, Invariance, PTL

(* A Set that returned nil is in Redis, in the database asked for           *)
(* (redisc.go:100-109).                                                       *)
THEOREM AcksAreApplied == Spec => []AckedApplied
<1>1. IInv => AckedApplied
  BY DEF IInv
<1> QED BY <1>1, Invariance, PTL

(* No SET reaches another database, through any reconnection                *)
(* (redisc.go:53-67).                                                       *)
THEOREM NeverAnotherDatabase == Spec => []OnlyOurDatabase
<1>1. IInv => OnlyOurDatabase
  BY DEF IInv
<1> QED BY <1>1, Invariance, PTL
=============================================================================
