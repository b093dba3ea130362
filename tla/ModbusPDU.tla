----------------------------- MODULE ModbusPDU -----------------------------
(***************************************************************************)
(* internal/modbus: the MBAP header and the request handler, as functions. *)
(* A request PDU is a record of its length and of the fields the handler   *)
(* reads from it; a reply PDU is a record of its length and of its first   *)
(* two bytes, everything after them being zero bytes.  Byte and word       *)
(* fields keep their width.                                                *)
(***************************************************************************)
EXTENDS Integers

Byte == 0..255
Word == 0..65535

HeaderLen == 7
MaxPDULen == 253
MinLengthField == 1 + 1

\* Mutated: without the byte of the unit.
MaxLengthFieldOfPDU == MaxPDULen

MaxLengthField == 1 + MaxPDULen

\* Mutated: one register more than a reply has room for.
MaxReadQuantityOneMore == 126

MinReadQuantity == 1
MaxReadQuantity == 125
MaxRegisters == 65536

IllegalFunction == 1
IllegalDataAddress == 2
IllegalDataValue == 3

Implemented == {3, 4}
ReadCodes == {1, 2, 3, 4}

Headers == [tid : Word, protocol : Word, length : Word, unit : Byte]
Requests == [len : 1..MaxPDULen, fc : Byte, start : Word, qty : Word]
Handlers == [registers : 1..MaxRegisters, active : SUBSET Implemented]

-----------------------------------------------------------------------------
Valid(h) == h.protocol = 0 /\ h.length >= MinLengthField /\ h.length <= MaxLengthField

PDULen(h) == h.length - 1

-----------------------------------------------------------------------------
NewHandler(registers, fcs) == [registers |-> registers, active |-> fcs \cap Implemented]

\* Mutated: 0x80 is added to the byte, which wraps.
MaskedByAdding(fc) == (fc + 128) % 256

\* fc | 0x80
Masked(fc) == IF fc < 128 THEN fc + 128 ELSE fc

Nil == [len |-> 0, fc |-> 0, second |-> 0]

Exception(fc, code) == [len |-> 2, fc |-> Masked(fc), second |-> code]

\* Mutated: start + qty is computed in sixteen bits.
InRangeWord(h, pdu) == (pdu.start + pdu.qty) % 65536 <= h.registers

InRange(h, pdu) == pdu.start + pdu.qty <= h.registers

ReadReply(pdu) ==
  [len |-> 2 + 2 * pdu.qty, fc |-> pdu.fc, second |-> (2 * pdu.qty) % 256]

ReadRegisters(h, pdu) ==
  IF pdu.len # 5 \/ pdu.qty \notin MinReadQuantity..MaxReadQuantity
  THEN Exception(pdu.fc, IllegalDataValue)
  ELSE IF ~InRange(h, pdu) THEN Exception(pdu.fc, IllegalDataAddress)
                           ELSE ReadReply(pdu)

Handle(h, pdu) ==
  IF pdu.len = 0 THEN Nil
  ELSE IF pdu.fc \in h.active THEN ReadRegisters(h, pdu)
                              ELSE Exception(pdu.fc, IllegalFunction)

ReplyHeader(hdr, reply) ==
  [tid |-> hdr.tid, protocol |-> 0, length |-> (reply.len + 1) % 65536, unit |-> hdr.unit]

-----------------------------------------------------------------------------
(* What the Modbus rules say, in their own numbers. *)

\* The header of a frame: a length field of 2 to 254.
Framed(h) == h.protocol = 0 /\ h.length \in 2..254

\* The reply is a frame, its length fields agree with what is sent, and it
\* fits the response buffer.
WellFramed(hdr, reply) ==
  /\ Framed(ReplyHeader(hdr, reply))
  /\ PDULen(ReplyHeader(hdr, reply)) = reply.len
  /\ reply.len <= 253
  /\ reply.len > 2 => reply.second = reply.len - 2

\* The answer is normal exactly when the rules allow the read: an active
\* function, a legal quantity, and no address the device lacks.
Legal(h, pdu) ==
  /\ pdu.fc \in h.active /\ pdu.len = 5
  /\ pdu.qty \in 1..125
  /\ \A a \in {pdu.start, pdu.start + pdu.qty - 1} : a < h.registers

\* What the first byte of a reply tells: the function asked for, and by its
\* highest bit that it is refused; then the code says why.
Answers(h, pdu, reply) ==
  IF Legal(h, pdu)
  THEN reply.fc = pdu.fc /\ reply.len = 2 + 2 * pdu.qty
  ELSE /\ reply.fc \in 128..255 /\ reply.fc \in {pdu.fc, pdu.fc + 128} /\ reply.len = 2
       /\ reply.second = IF pdu.fc \notin h.active THEN 1
                          ELSE IF pdu.len = 5 /\ pdu.qty \in 1..125 THEN 2 ELSE 3
=============================================================================
