--------------------------- MODULE ModbusClients ---------------------------
(***************************************************************************)
(* The Modbus clients of scripts/: what poll.go and probe.go ask a server  *)
(* for, and what they make of the handler's reply. The connection between  *)
(* them is that of ConnLoop.                                               *)
(***************************************************************************)
EXTENDS ModbusPDU

AsByte(n) == n % 256
AsWord(n) == n % 65536

Request(fc, start, qty) ==
  [len |-> 5, fc |-> AsByte(fc), start |-> AsWord(start), qty |-> AsWord(qty)]

-----------------------------------------------------------------------------
(* poll.go reads all registers of a server once an interval, in chunks. *)

maxQty == 125

Chunks(registers) ==
  [i \in 1..(registers + maxQty - 1) \div maxQty |->
     LET a == (i - 1) * maxQty IN
     [start |-> a, qty |-> IF registers - a > maxQty THEN maxQty ELSE registers - a]]

PollRequest(chunk) == Request(3, chunk.start, chunk.qty)

\* poll.go waits for exactly these many bytes of PDU, until its deadline.
Expected(chunk) == 2 + 2 * chunk.qty

\* The addresses a chunk reads.
Addresses(chunk) == chunk.start..chunk.start + chunk.qty - 1

-----------------------------------------------------------------------------
(* probe.go asks once and exits: 0 for a normal reply of the right length. *)

\* heard: the server accepts the unit, else it says nothing.
ProbeExit(h, heard, pdu) ==
  LET reply == Handle(h, pdu) IN
  IF /\ heard
     /\ reply.fc < 128
     /\ reply.second = 2 * pdu.qty /\ reply.len = 2 + 2 * pdu.qty
  THEN 0 ELSE 1
=============================================================================
