---------------------------- MODULE RedisClient ----------------------------
(***************************************************************************)
(* The Redis connection of metrics-agent (internal/redisc): Set, connect   *)
(* with its AUTH, SELECT and PING, one reply read for each command, Close  *)
(* after any error; and the Redis server at the other end, which answers   *)
(* the commands of a connection in order, late, not at all or with an      *)
(* error, and which still serves what an abandoned connection had sent.    *)
(*                                                                         *)
(* A SET carries the number of the call it belongs to.                     *)
(***************************************************************************)
EXTENDS Naturals, Sequences, FiniteSets

CONSTANTS Setups,    \* the client's password and database, and whether the
                     \* server wants a password
          MaxCalls,  \* bound on the calls of Set
          MaxDials   \* bound on the connections made

ASSUME RedisAssumption ==
  /\ Setups \subseteq [password : {"none", "right", "wrong"}, db : Nat, guarded : BOOLEAN]
  /\ MaxCalls \in Nat /\ MaxDials \in Nat

VARIABLES
  setup,    \* the member of Setups
  call,     \* calls of Set begun
  step,     \* "idle", or what Set is at: dial, AUTH, SELECT, PING, SET
  waits,    \* the command is written and its reply awaited
  conn,     \* the client's connection; 0: none
  dials,    \* connections made so far
  in, out,  \* per connection: commands not served, replies not read
  session,  \* per connection, at the server: [open, authed, db]
  applied,  \* history: the SETs applied, as <<call, database>>
  acked     \* history: the calls of Set that returned nil

clientVars == <<call, step, waits, conn, dials, acked>>
vars == <<setup, clientVars, in, out, session, applied>>

DB == setup.db

Conns == 1..MaxDials
Fresh == [open |-> TRUE, authed |-> ~setup.guarded, db |-> 0]

Command(s, n) == [cmd |-> s, of |-> n]

Init ==
  /\ setup \in Setups
  /\ call = 0 /\ step = "idle" /\ waits = FALSE /\ conn = 0 /\ dials = 0
  /\ in = [c \in Conns |-> <<>>] /\ out = [c \in Conns |-> <<>>]
  /\ session = [c \in Conns |-> Fresh]
  /\ applied = {} /\ acked = {}

-----------------------------------------------------------------------------
(* The client. *)

\* Set gives up: every error path closes the connection.
Fails == step' = "idle" /\ waits' = FALSE /\ conn' = 0

\* Mutated: Set goes on after connect() failed.
CallConnected ==
  /\ step = "idle" /\ call < MaxCalls
  /\ call' = call + 1
  /\ step' = "SET"
  /\ UNCHANGED <<setup, waits, conn, dials, acked, in, out, session, applied>>

\* Set: connect() dials only without a connection.
Call ==
  /\ step = "idle" /\ call < MaxCalls
  /\ call' = call + 1
  /\ step' = IF conn = 0 THEN "dial" ELSE "SET"
  /\ UNCHANGED <<setup, waits, conn, dials, acked, in, out, session, applied>>

\* What connect() sends first, and after each command.
First == IF setup.password # "none" THEN "AUTH" ELSE IF DB # 0 THEN "SELECT" ELSE "PING"
After(s) == CASE s = "AUTH" -> IF DB # 0 THEN "SELECT" ELSE "PING"
              [] s = "SELECT" -> "PING"
              [] s = "PING" -> "SET"

\* Mutated: a connection made again is taken to be set up already.
DialAgain ==
  /\ step = "dial"
  /\ \/ /\ dials < MaxDials
        /\ conn' = dials + 1 /\ dials' = dials + 1
        /\ step' = IF dials = 0 THEN First ELSE "PING"
        /\ UNCHANGED waits
     \/ Fails /\ UNCHANGED dials
  /\ UNCHANGED <<setup, call, acked, in, out, session, applied>>

Dial ==
  /\ step = "dial"
  /\ \/ /\ dials < MaxDials
        /\ conn' = dials + 1 /\ dials' = dials + 1 /\ step' = First
        /\ UNCHANGED waits
     \/ Fails /\ UNCHANGED dials
  /\ UNCHANGED <<setup, call, acked, in, out, session, applied>>

\* do(): the command is written, or the write fails.
Write ==
  /\ step \notin {"idle", "dial"} /\ ~waits
  /\ \/ /\ in' = [in EXCEPT ![conn] = IF session[conn].open
                                      THEN Append(@, Command(step, call)) ELSE @]
        /\ waits' = TRUE /\ UNCHANGED <<step, conn>>
     \/ Fails /\ UNCHANGED in
  /\ UNCHANGED <<setup, call, dials, acked, out, session, applied>>

\* Mutated: an error reply counts as a reply like any other.
ReadIgnoresError ==
  /\ waits /\ out[conn] # <<>>
  /\ out' = [out EXCEPT ![conn] = Tail(@)]
  /\ waits' = FALSE
  /\ step' = IF step = "SET" THEN "idle" ELSE After(step)
  /\ acked' = IF step = "SET" THEN acked \cup {call} ELSE acked
  /\ UNCHANGED <<setup, call, conn, dials, in, session, applied>>

\* readReply: "+" is success, "-" the server's error.
Read ==
  /\ waits /\ out[conn] # <<>>
  /\ out' = [out EXCEPT ![conn] = Tail(@)]
  /\ IF Head(out[conn]).ok
     THEN /\ waits' = FALSE /\ UNCHANGED conn
          /\ step' = IF step = "SET" THEN "idle" ELSE After(step)
          /\ acked' = IF step = "SET" THEN acked \cup {call} ELSE acked
     ELSE Fails /\ UNCHANGED acked
  /\ UNCHANGED <<setup, call, dials, in, session, applied>>

\* Mutated: after a failed SET the connection is kept.
ReadFailsKeeps ==
  /\ waits
  /\ step' = "idle" /\ waits' = FALSE
  /\ conn' = IF step = "SET" THEN conn ELSE 0
  /\ UNCHANGED <<setup, call, dials, acked, in, out, session, applied>>

\* Mutated: connect() sets no deadline, so only a broken connection ends it.
ReadFailsNoDeadline ==
  /\ waits /\ (step = "SET" \/ ~session[conn].open)
  /\ Fails
  /\ UNCHANGED <<setup, call, dials, acked, in, out, session, applied>>

\* The deadline passes or the connection breaks before a reply is read.
ReadFails ==
  /\ waits /\ Fails
  /\ UNCHANGED <<setup, call, dials, acked, in, out, session, applied>>

Client == Dial \/ Write \/ Read \/ ReadFails

-----------------------------------------------------------------------------
(* The server. *)

\* Commands it carries out; it may refuse any other time as well.
Accepts(c, cmd) ==
  CASE cmd = "AUTH" -> setup.guarded /\ setup.password = "right"
    [] OTHER -> session[c].authed

Serve(c) ==
  /\ session[c].open /\ in[c] # <<>>
  /\ LET m == Head(in[c])
         Reply(ok) == out' = [out EXCEPT ![c] = Append(@, [to |-> m, ok |-> ok])]
     IN  /\ in' = [in EXCEPT ![c] = Tail(@)]
         /\ \/ /\ Accepts(c, m.cmd) /\ Reply(TRUE)
               /\ session' = [session EXCEPT
                    ![c].authed = (@ \/ m.cmd = "AUTH"),
                    ![c].db = IF m.cmd = "SELECT" THEN DB ELSE @]
               /\ applied' = IF m.cmd = "SET" THEN applied \cup {<<m.of, session[c].db>>}
                                              ELSE applied
            \/ Reply(FALSE) /\ UNCHANGED <<session, applied>>
  /\ UNCHANGED <<setup, clientVars>>

\* The server or the network ends a connection; what it had sent is lost.
Drop(c) ==
  /\ c <= dials /\ session[c].open
  /\ session' = [session EXCEPT ![c].open = FALSE]
  /\ in' = [in EXCEPT ![c] = <<>>] /\ out' = [out EXCEPT ![c] = <<>>]
  /\ UNCHANGED <<setup, clientVars, applied>>

Over == call = MaxCalls /\ step = "idle" /\ UNCHANGED vars

Next == Call \/ Client \/ (\E c \in Conns : Serve(c) \/ Drop(c)) \/ Over

\* The goroutine runs and its deadlines pass; the server owes nothing.
Spec == Init /\ [][Next]_vars /\ WF_vars(Client)

-----------------------------------------------------------------------------
Commands == [cmd : {"AUTH", "SELECT", "PING", "SET"}, of : 1..MaxCalls]

TypeOK ==
  /\ setup \in Setups
  /\ call \in 0..MaxCalls /\ dials \in 0..MaxDials /\ conn \in 0..dials
  /\ step \in {"idle", "dial", "AUTH", "SELECT", "PING", "SET"} /\ waits \in BOOLEAN
  /\ in \in [Conns -> Seq(Commands)]
  /\ out \in [Conns -> Seq([to : Commands, ok : BOOLEAN])]
  /\ session \in [Conns -> [open : BOOLEAN, authed : BOOLEAN, db : {0, DB}]]
  /\ applied \subseteq (1..MaxCalls) \X {0, DB} /\ acked \subseteq 1..call
  /\ step \notin {"idle", "dial"} => conn # 0
  /\ waits => step \notin {"idle", "dial"}

(* A reply is read by the command it answers: no late answer of a timed-out   *)
(* command is taken for the answer of the next one (redisc.go:112-115).       *)
RepliesMatch == waits /\ out[conn] # <<>> => Head(out[conn]).to = Command(step, call)

(* Set returns nil only when Redis applied that very SET in the database      *)
(* asked for.                                                                 *)
AckedApplied == \A n \in acked : <<n, DB>> \in applied

(* Through any reconnection no SET reaches another database                   *)
(* (redisc.go:53-67).                                                         *)
OnlyOurDatabase == \A s \in applied : s[2] = DB

(* Set returns, whatever the server does (redisc.go:51, 111).                 *)
SetReturns == step # "idle" ~> step = "idle"
=============================================================================
