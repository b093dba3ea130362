------------------------------ MODULE ConnLoop ------------------------------
(***************************************************************************)
(* One connection: the loop of handleConn (internal/server/conn.go) and    *)
(* the client at the other end, joined by two bounded streams.             *)
(*                                                                         *)
(* A stream carries tokens: the header and the PDU of a frame on the way   *)
(* in, a whole reply on the way out.  Any bytes a client sends are, for    *)
(* the server, a sequence of frames that may end in an invalid header or   *)
(* in the middle of a frame, so frames are what the client chooses from.   *)
(* Time is abstract: a deadline that is set may pass at any moment.        *)
(***************************************************************************)
EXTENDS ModbusPDU, Sequences, SequencesExt

CONSTANTS Cases,        \* the servers and clients considered: [server, habit] by name
          InCapacity,   \* tokens the kernel buffers towards the server
          OutCapacity   \* replies the kernel buffers towards the client

\* The PDU bytes of a frame; how many there are is what its header says.
Bodies == [fc : Byte, start : Word, qty : Word]

RequestOf(h, body) ==
  [len |-> PDULen(h), fc |-> body.fc, start |-> body.start, qty |-> body.qty]

\* The frames a client sends, and how many; whether it reads only after it
\* has written everything; and whether it goes on reading and completes the
\* frames it begins.
Habits == [frames : SUBSET [hdr : Headers, body : Bodies], max : Nat \ {0},
           late : BOOLEAN, polite : BOOLEAN]

\* The settings the loop uses; idle stands for cfg.IdleTimeout > 0.
ServerConfigs == [handler : Handlers, unit : Byte, any : BOOLEAN, idle : BOOLEAN]

ASSUME ConnAssumption ==
  /\ \A c \in DOMAIN Cases :
       Cases[c].server \in ServerConfigs /\ Cases[c].habit \in Habits
  /\ InCapacity \in Nat \ {0} /\ OutCapacity \in Nat \ {0}

VARIABLES
  case,      \* which server this is, and which client
  pc,        \* where handleConn is
  hdr,       \* the header just decoded
  out,       \* the reply to be written, a Replies record
  deadline,  \* of the blocking call handleConn is in: "off", "set", "passed"
  buf,       \* the bufio.Reader
  in,        \* client-to-server stream
  back,      \* server-to-client stream
  sockOpen,  \* the server's socket is open
  client,    \* "open" or "gone"
  half,      \* the client has written a header and not yet its PDU
  sent,      \* the frames the client has written in full
  got        \* the replies the client has read

serverVars == <<case, pc, hdr, out, deadline, buf>>
clientVars == <<client, half, sent, got>>
vars == <<serverVars, in, back, sockOpen, clientVars>>

server == Cases[case].server
habit == Cases[case].habit

Accepts(s, unit) == s.any \/ unit = s.unit

HdrToken(f) == [part |-> "hdr", frame |-> f]
PduToken(f) == [part |-> "pdu", frame |-> f]
ReplyTo(h, r) == [hdr |-> ReplyHeader(h, r), pdu |-> r]

NoReply == [hdr |-> [tid |-> 0, protocol |-> 0, length |-> 0, unit |-> 0], pdu |-> Nil]

Init ==
  /\ case \in DOMAIN Cases
  /\ pc = "top"
  /\ hdr = NoReply.hdr
  /\ out = NoReply
  /\ deadline = "off"
  /\ buf = <<>> /\ in = <<>> /\ back = <<>>
  /\ sockOpen = TRUE
  /\ client = "open" /\ half = <<>> /\ sent = <<>> /\ got = <<>>

-----------------------------------------------------------------------------
(* The client. *)

Done == Len(sent) = habit.max /\ half = <<>>

SendHeader(f) ==
  /\ client = "open" /\ sockOpen /\ half = <<>> /\ Len(sent) < habit.max
  /\ Len(in) < InCapacity
  /\ in' = Append(in, HdrToken(f))
  /\ half' = <<f>>
  /\ UNCHANGED <<serverVars, back, sockOpen, client, sent, got>>

SendPDU ==
  /\ client = "open" /\ sockOpen /\ half # <<>>
  /\ Len(in) < InCapacity
  /\ in' = Append(in, PduToken(Head(half)))
  /\ sent' = Append(sent, Head(half))
  /\ half' = <<>>
  /\ UNCHANGED <<serverVars, back, sockOpen, client, got>>

ReadReplyFrame ==
  /\ client = "open" /\ back # <<>>
  /\ habit.late => Done \/ ~sockOpen
  /\ got' = Append(got, Head(back))
  /\ back' = Tail(back)
  /\ UNCHANGED <<serverVars, in, sockOpen, client, half, sent>>

\* A write to a socket the server has closed draws a reset, which may cost the
\* client the replies it has not read.
LateSend ==
  /\ client = "open" /\ ~sockOpen /\ ~Done
  /\ back' \in {back, <<>>}
  /\ UNCHANGED <<serverVars, in, sockOpen, clientVars>>

\* The client closes; a reset may overtake what it has sent.
HangUp ==
  /\ client = "open"
  /\ client' = "gone"
  /\ back' = <<>>
  /\ in' \in {in, <<>>}
  /\ UNCHANGED <<serverVars, sockOpen, half, sent, got>>

-----------------------------------------------------------------------------
(* handleConn. *)

\* Closing a socket with unread data resets the connection, which may cost the
\* client the replies on their way.
CloseSocket ==
  /\ sockOpen' = FALSE
  /\ back' \in IF sockOpen /\ in # <<>> THEN {back, <<>>} ELSE {back}

Return == pc' = "ended" /\ CloseSocket

\* Mutated: the deadline is set only for replies.
LoopTopNoDeadline ==
  /\ pc = "top"
  /\ pc' = "hdr"
  /\ deadline' = "off"
  /\ UNCHANGED <<case, hdr, out, buf, in, back, sockOpen, clientVars>>

LoopTop ==
  /\ pc = "top"
  /\ pc' = "hdr"
  /\ deadline' = IF server.idle THEN "set" ELSE "off"
  /\ UNCHANGED <<case, hdr, out, buf, in, back, sockOpen, clientVars>>

\* The reader is out of data: one Read takes what the kernel has.
FillBuffer ==
  /\ pc \in {"hdr", "pdu"} /\ buf = <<>>
  /\ sockOpen /\ deadline # "passed" /\ in # <<>>
  /\ \E k \in 1..Len(in) : buf' = SubSeq(in, 1, k) /\ in' = SubSeq(in, k + 1, Len(in))
  /\ UNCHANGED <<case, pc, hdr, out, deadline, back, sockOpen, clientVars>>

ReadFails ==
  /\ pc \in {"hdr", "pdu"} /\ buf = <<>>
  /\ ~sockOpen \/ deadline = "passed" \/ (client = "gone" /\ in = <<>>)
  /\ Return
  /\ UNCHANGED <<case, hdr, out, deadline, buf, in, clientVars>>

\* Mutated: a frame with a bad header is skipped instead of ending the connection.
ReadHeaderLenient ==
  /\ pc = "hdr" /\ buf # <<>>
  /\ hdr' = Head(buf).frame.hdr
  /\ buf' = Tail(buf)
  /\ pc' = "pdu"
  /\ UNCHANGED <<case, out, deadline, in, back, sockOpen, clientVars>>

ReadHeader ==
  /\ pc = "hdr" /\ buf # <<>>
  /\ hdr' = Head(buf).frame.hdr
  /\ buf' = Tail(buf)
  /\ IF Valid(hdr') THEN pc' = "pdu" /\ UNCHANGED <<back, sockOpen>>
                    ELSE Return
  /\ UNCHANGED <<case, out, deadline, in, clientVars>>

\* Mutated: an exception counts as no reply.
ReadPDUSilent ==
  /\ pc = "pdu" /\ buf # <<>>
  /\ buf' = Tail(buf)
  /\ LET reply == Handle(server.handler, RequestOf(hdr, Head(buf).frame.body)) IN
       IF Accepts(server, hdr.unit) /\ reply.len > 2
       THEN /\ pc' = "write"
            /\ out' = ReplyTo(hdr, reply)
            /\ deadline' = IF server.idle THEN "set" ELSE "off"
       ELSE pc' = "top" /\ UNCHANGED <<out, deadline>>
  /\ UNCHANGED <<case, hdr, in, back, sockOpen, clientVars>>

\* The PDU is read; a frame for another unit, and one the handler has no reply
\* to, send the loop back to its top.
ReadPDU ==
  /\ pc = "pdu" /\ buf # <<>>
  /\ buf' = Tail(buf)
  /\ LET reply == Handle(server.handler, RequestOf(hdr, Head(buf).frame.body)) IN
       IF Accepts(server, hdr.unit) /\ reply # Nil
       THEN /\ pc' = "write"
            /\ out' = ReplyTo(hdr, reply)
            /\ deadline' = IF server.idle THEN "set" ELSE "off"
       ELSE pc' = "top" /\ UNCHANGED <<out, deadline>>
  /\ UNCHANGED <<case, hdr, in, back, sockOpen, clientVars>>

\* Mutated: a reply that does not fit the send buffer is dropped.
WriteReplyLossy ==
  /\ pc = "write" /\ sockOpen /\ deadline # "passed"
  /\ back' = IF client = "open" /\ Len(back) < OutCapacity THEN Append(back, out) ELSE back
  /\ pc' = "top"
  /\ UNCHANGED <<case, hdr, out, deadline, buf, in, sockOpen, clientVars>>

\* Write blocks until the kernel has room; a client that has gone takes nothing.
WriteReply ==
  /\ pc = "write" /\ sockOpen /\ deadline # "passed"
  /\ IF client = "open" THEN Len(back) < OutCapacity /\ back' = Append(back, out)
                        ELSE UNCHANGED back
  /\ pc' = "top"
  /\ UNCHANGED <<case, hdr, out, deadline, buf, in, sockOpen, clientVars>>

WriteFails ==
  /\ pc = "write"
  /\ ~sockOpen \/ deadline = "passed" \/ client = "gone"
  /\ Return
  /\ UNCHANGED <<case, hdr, out, deadline, buf, in, clientVars>>

HandlerStep == \/ LoopTop \/ FillBuffer \/ ReadFails \/ ReadHeader \/ ReadPDU
               \/ WriteReply \/ WriteFails

-----------------------------------------------------------------------------
(* Around them: the clock, Shutdown, and the end. *)

Blocked == \/ pc \in {"hdr", "pdu"} /\ buf = <<>> /\ in = <<>>
           \/ pc = "write" /\ Len(back) = OutCapacity

DeadlinePasses ==
  /\ deadline = "set" /\ pc \in {"hdr", "pdu", "write"}
  /\ deadline' = "passed"
  /\ UNCHANGED <<case, pc, hdr, out, buf, in, back, sockOpen, clientVars>>

\* closeAll closes the socket under the handler.
ForceClose ==
  /\ sockOpen /\ pc # "ended"
  /\ CloseSocket
  /\ UNCHANGED <<serverVars, in, clientVars>>

Ended == pc = "ended" /\ UNCHANGED vars

Next == \/ \E f \in habit.frames : SendHeader(f)
        \/ SendPDU \/ ReadReplyFrame \/ LateSend \/ HangUp
        \/ HandlerStep \/ DeadlinePasses \/ ForceClose \/ Ended

\* The handler runs, and the deadline of a blocked call passes.  Only a polite
\* client has to do anything.
Fairness == /\ WF_vars(HandlerStep) /\ WF_vars(Blocked /\ DeadlinePasses)
            /\ WF_vars(habit.polite /\ ReadReplyFrame)
            /\ WF_vars(habit.polite /\ SendPDU)

Spec == Init /\ [][Next]_vars /\ Fairness

-----------------------------------------------------------------------------
Tokens == [part : {"hdr", "pdu"}, frame : habit.frames]
ReplyRecords == [hdr : Headers, pdu : [len : 0..MaxPDULen, fc : Byte, second : Byte]]

TypeOK ==
  /\ case \in DOMAIN Cases
  /\ pc \in {"top", "hdr", "pdu", "write", "ended"}
  /\ hdr \in Headers /\ out \in ReplyRecords
  /\ deadline \in {"off", "set", "passed"}
  /\ buf \in Seq(Tokens) /\ in \in Seq(Tokens)
  /\ back \in Seq(ReplyRecords) /\ got \in Seq(ReplyRecords)
  /\ Len(in) <= InCapacity /\ Len(back) <= OutCapacity
  /\ sockOpen \in BOOLEAN /\ client \in {"open", "gone"}
  /\ half \in Seq(habit.frames) /\ sent \in Seq(habit.frames) /\ Len(half) <= 1

\* Of the frames sent, those that are answered: before the first bad header,
\* the ones addressed to this unit.
Answered == {i \in DOMAIN sent : /\ \A j \in 1..i : Framed(sent[j].hdr)
                                /\ Accepts(server, sent[i].hdr.unit)}

\* How many of the first n frames are answered; the place of the n-th frame's
\* reply among all replies, if it has one.
Place(n) == Cardinality({i \in Answered : i <= n})

ReplyFor(f) == ReplyTo(f.hdr, Handle(server.handler, RequestOf(f.hdr, f.body)))

Replies == got \o back

\* The frames whose two tokens have both left the streams.
Taken == (2 * Len(sent) + Len(half) - Len(buf) - Len(in)) \div 2

(* Pipelined requests are answered in the order they were sent, each once,   *)
(* frames for other units not at all, and nothing is answered after a bad    *)
(* header (conn.go:45-85) - whatever is lost when the connection breaks.     *)
AnswersInOrder ==
  /\ Len(Replies) <= Cardinality(Answered)
  /\ \A i \in Answered : Place(i) <= Len(Replies) => Replies[Place(i)] = ReplyFor(sent[i])

(* While the connection stands, no request the loop has taken is left        *)
(* without its reply: no `continue` of conn.go:34-86 skips one it should not.*)
NothingSkipped ==
  pc \in {"top", "hdr", "pdu"} /\ sockOpen /\ client = "open" =>
    Len(Replies) = Place(Taken)

(* The client can trust a reply: it is framed by the protocol's own rules,   *)
(* carries the transaction it answers, is normal exactly when the read was   *)
(* legal for the configured registers and function codes, and else has the   *)
(* highest bit of its function code set and says what was wrong              *)
(* (handler.go:47-76, conn.go:66-77).                                        *)
AnswersHonest ==
  \A i \in Answered :
    Place(i) <= Len(Replies) =>
      LET r == Replies[Place(i)] IN
      /\ WellFramed(sent[i].hdr, r.pdu) /\ r.hdr.length = r.pdu.len + 1
      /\ r.hdr.tid = sent[i].hdr.tid
      /\ Answers(server.handler, RequestOf(sent[i].hdr, sent[i].body), r.pdu)

(* While the socket stands, the client is there and no deadline has passed,  *)
(* the handler hangs up for one reason only: a header that is no frame's. A  *)
(* frame of the smallest or the largest size is none (frame.go:45).          *)
HangsUpRightly ==
  [][pc # "ended" /\ pc' = "ended" /\ sockOpen /\ client = "open" /\ deadline # "passed" =>
       ~Framed(hdr')]_vars

(* With an idle timeout no client can hold a handler, and the slot it        *)
(* occupies, in one blocking call: not by silence, not by half a frame, not  *)
(* by never reading (conn.go:35, conn.go:79). With or without one, once       *)
(* either end has closed the handler returns, so that its slot comes back     *)
(* and Shutdown can finish: what Server assumes of every handler.             *)
HandlerReturns ==
  /\ \A p \in {"hdr", "pdu", "write"} : server.idle /\ pc = p ~> pc # p
  /\ (~sockOpen \/ client = "gone") ~> pc = "ended"

(* A client that reads its replies gets every one of them, with or without a *)
(* deadline, as long as the connection stands.                               *)
EveryRequestAnswered ==
  habit.polite /\ Len(got) < Cardinality(Answered) ~>
    \/ Len(got) = Cardinality(Answered) \/ ~sockOpen \/ client = "gone"
=============================================================================
