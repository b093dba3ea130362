---------------------------- MODULE ModbusProofs ----------------------------
(***************************************************************************)
(* Facts about the frame and handler functions of ModbusPDU; what the      *)
(* clients of scripts/ can say of a server, for every request, every       *)
(* register count and every argument; and the connection of ConnLoop, for  *)
(* every set of servers and clients and every buffer size.                 *)
(***************************************************************************)
EXTENDS ModbusClients, ConnLoop, FiniteSetTheorems, SequenceTheorems, TLAPS

LEMMA HandlerFields ==
  ASSUME NEW h \in Handlers
  PROVE  h.registers \in Nat /\ h.registers >= 1
<1>1. h.registers \in 1..MaxRegisters
  BY DEF Handlers
<1>2. MaxRegisters \in Int
  BY DEF MaxRegisters
<1>3. QED
  BY <1>1, <1>2

LEMMA RequestFields ==
  ASSUME NEW pdu \in Requests
  PROVE  pdu.len \in Nat /\ pdu.len # 0 /\ pdu.start \in Nat /\ pdu.qty \in Nat
<1>1. pdu.len \in 1..MaxPDULen /\ pdu.start \in Word /\ pdu.qty \in Word
  BY DEF Requests
<1>2. MaxPDULen \in Int
  BY DEF MaxPDULen
<1>3. Word \subseteq Nat
  BY DEF Word
<1>4. pdu.len \in Nat /\ pdu.len # 0
  BY <1>1, <1>2
<1>5. QED
  BY <1>1, <1>3, <1>4, Zenon

(* The handler never stays silent to a non-empty PDU, and every reply it   *)
(* makes is a frame of at most 253 PDU bytes whose length fields match     *)
(* what is sent (handler.go:40-76, conn.go:66-77).                         *)
THEOREM RepliesWellFramed ==
  ASSUME NEW h \in Handlers, NEW pdu \in Requests, NEW head \in Headers
  PROVE  WellFramed(head, Handle(h, pdu))
<1> DEFINE r == Handle(h, pdu)
<1>1. \/ r = Exception(pdu.fc, 1) \/ r = Exception(pdu.fc, 2) \/ r = Exception(pdu.fc, 3)
      \/ pdu.qty \in 1..125 /\ r = ReadReply(pdu)
  <2>1. pdu.len # 0
    BY RequestFields
  <2>2. \/ r = Exception(pdu.fc, 1) \/ r = ReadRegisters(h, pdu)
    BY <2>1 DEF Handle, IllegalFunction
  <2>3. \/ ReadRegisters(h, pdu) = Exception(pdu.fc, 2)
        \/ ReadRegisters(h, pdu) = Exception(pdu.fc, 3)
        \/ pdu.qty \in 1..125 /\ ReadRegisters(h, pdu) = ReadReply(pdu)
    BY DEF ReadRegisters, IllegalDataAddress, IllegalDataValue, MinReadQuantity, MaxReadQuantity
  <2>4. QED
    BY <2>2, <2>3
<1>2. \/ r.len = 2
      \/ r.len \in 4..252 /\ r.second = r.len - 2
  BY <1>1 DEF Exception, ReadReply
<1>3. (r.len + 1) % 65536 = r.len + 1 /\ r.len \in 2..252
  BY <1>2
<1> HIDE DEF r
<1>4. WellFramed(head, r)
  BY <1>2, <1>3 DEF WellFramed, Framed, PDULen, ReplyHeader
<1>5. QED
  BY <1>4 DEF r

(* A normal answer is given exactly to the reads the device can serve: no  *)
(* address past the last register, no quantity out of 1..125, and start +  *)
(* qty does not wrap at 65536 (handler.go:55-60).                          *)
THEOREM NormalIffLegal ==
  ASSUME NEW h \in Handlers, NEW pdu \in Requests
  PROVE  (Handle(h, pdu).len > 2) <=> Legal(h, pdu)
<1>1. /\ pdu.len # 0 /\ pdu.start \in Nat /\ pdu.qty \in Nat /\ h.registers \in Nat
  BY RequestFields, HandlerFields
<1>2. CASE Legal(h, pdu)
  <2>1. /\ pdu.len # 0 /\ pdu.fc \in h.active /\ pdu.len = 5
        /\ pdu.qty \in 1..125 /\ InRange(h, pdu)
    BY <1>1, <1>2 DEF Legal, InRange
  <2>2. Handle(h, pdu) = ReadReply(pdu)
    BY <2>1 DEF Handle, ReadRegisters, MinReadQuantity, MaxReadQuantity
  <2>3. QED
    BY <1>2, <2>1, <2>2 DEF ReadReply
<1>3. CASE ~Legal(h, pdu)
  <2>1. \/ Handle(h, pdu) = Exception(pdu.fc, 1)
        \/ Handle(h, pdu) = Exception(pdu.fc, 2)
        \/ Handle(h, pdu) = Exception(pdu.fc, 3)
    <3>1. pdu.len # 0
      BY <1>1
    <3>2. ~(/\ pdu.fc \in h.active /\ pdu.len = 5
            /\ pdu.qty \in 1..125 /\ InRange(h, pdu))
      BY <1>1, <1>3 DEF Legal, InRange
    <3>3. QED
      BY <3>1, <3>2 DEF Handle, ReadRegisters, MinReadQuantity, MaxReadQuantity,
        IllegalFunction, IllegalDataAddress, IllegalDataValue
  <2>2. QED
    BY <1>3, <2>1 DEF Exception
<1>4. QED
  BY <1>2, <1>3

(* A reply tells by its first byte what it answers: the function of the      *)
(* request, and by the highest bit that it is refused, for the reason the    *)
(* second byte gives (handler.go:47-76).                                     *)
THEOREM RepliesAnswer ==
  ASSUME NEW h \in Handlers, NEW pdu \in Requests
  PROVE  Answers(h, pdu, Handle(h, pdu))
<1>1. /\ pdu.len # 0 /\ pdu.start \in Nat /\ pdu.qty \in Nat /\ h.registers \in Nat
  BY RequestFields, HandlerFields
<1>2. CASE Legal(h, pdu)
  <2>1. /\ pdu.len # 0 /\ pdu.fc \in h.active /\ pdu.len = 5
        /\ pdu.qty \in 1..125 /\ InRange(h, pdu)
    BY <1>1, <1>2 DEF Legal, InRange
  <2>2. Handle(h, pdu) = ReadReply(pdu)
    BY <2>1 DEF Handle, ReadRegisters, MinReadQuantity, MaxReadQuantity
  <2>3. QED
    BY <1>2, <2>2 DEF ReadReply, Answers
<1>3. CASE ~Legal(h, pdu)
  <2> DEFINE code == IF pdu.fc \notin h.active THEN 1
                     ELSE IF pdu.len = 5 /\ pdu.qty \in 1..125 THEN 2 ELSE 3
  <2>1. ~(/\ pdu.fc \in h.active /\ pdu.len = 5
          /\ pdu.qty \in 1..125 /\ InRange(h, pdu))
    BY <1>1, <1>3 DEF Legal, InRange
  <2>2. Handle(h, pdu) = Exception(pdu.fc, code)
    BY <1>1, <2>1 DEF Handle, ReadRegisters, MinReadQuantity, MaxReadQuantity,
      IllegalFunction, IllegalDataAddress, IllegalDataValue
  <2>3. Masked(pdu.fc) \in 128..255 /\ Masked(pdu.fc) \in {pdu.fc, pdu.fc + 128}
    <3>1. pdu.fc \in Byte
      BY DEF Requests
    <3> QED BY <3>1 DEF Masked, Byte
  <2> HIDE DEF code
  <2>4. /\ Handle(h, pdu).fc = Masked(pdu.fc) /\ Handle(h, pdu).len = 2
        /\ Handle(h, pdu).second = code
    BY <2>2 DEF Exception
  <2>5. QED
    BY <1>3, <2>3, <2>4 DEF Answers, code
<1>4. QED
  BY <1>2, <1>3

(* The loop takes for a frame exactly what the rules call one (frame.go:45).  *)
LEMMA ValidIsFramed ==
  ASSUME NEW h, h.length \in Int
  PROVE  Valid(h) <=> Framed(h)
BY DEF Valid, Framed, MinLengthField, MaxLengthField, MaxPDULen

-----------------------------------------------------------------------------
(* The clients of scripts/.                                                  *)

(* What a conversion to a byte or to 16 bits leaves fits in one.              *)
LEMMA ByteRange == ASSUME NEW n \in Int PROVE AsByte(n) \in Byte
<1>1. n % 256 \in 0..255
  BY SMTT(30)
<1> QED BY <1>1 DEF AsByte, Byte

LEMMA WordRange == ASSUME NEW n \in Int PROVE AsWord(n) \in Word
<1> DEFINE top == 65535
<1>1. Word = 0..top
  BY DEF Word
<1>2. AsWord(n) \in Int /\ 0 <= AsWord(n) /\ AsWord(n) <= top
  BY DEF AsWord
<1>3. top \in Int
  OBVIOUS
<1> HIDE DEF top
<1> QED BY <1>1, <1>2, <1>3

LEMMA RequestIsPDU ==
  ASSUME NEW fc \in Int, NEW start \in Int, NEW qty \in Int
  PROVE  Request(fc, start, qty) \in Requests
<1>1. AsByte(fc) \in Byte
  BY ByteRange
<1>2. AsWord(start) \in Word /\ AsWord(qty) \in Word
  BY WordRange
<1>3. 5 \in 1..MaxPDULen
  BY DEF MaxPDULen
<1> QED BY <1>1, <1>2, <1>3 DEF Request, Requests

(* A read that is not legal gets an exception.                                *)
LEMMA Refused ==
  ASSUME NEW h \in Handlers, NEW pdu \in Requests, ~Legal(h, pdu)
  PROVE  \E code \in 1..3 : Handle(h, pdu) = Exception(pdu.fc, code)
<1>1. ~(Handle(h, pdu).len > 2)
  BY NormalIffLegal
<1>2. pdu.len # 0 /\ pdu.qty \in Nat
  BY RequestFields
<1>3. CASE Handle(h, pdu) = ReadReply(pdu) /\ pdu.qty \in 1..125
  BY <1>1, <1>3 DEF ReadReply
<1> QED BY <1>2, <1>3 DEF Handle, ReadRegisters, MinReadQuantity, MaxReadQuantity,
             IllegalFunction, IllegalDataAddress, IllegalDataValue

(* A chunk is what the loop of poll.go:33-39 makes of one start address.      *)
LEMMA ChunkOf ==
  ASSUME NEW registers \in Nat, NEW i \in DOMAIN Chunks(registers)
  PROVE  LET chunk == Chunks(registers)[i] IN
         /\ i \in Nat \ {0} /\ chunk.start = 125 * (i - 1) /\ chunk.start \in Nat
         /\ chunk.qty \in Nat /\ 1 <= chunk.qty /\ chunk.qty <= 125
         /\ chunk.start + chunk.qty <= registers
         /\ chunk.start + chunk.qty = 125 * i \/ chunk.start + chunk.qty = registers
<1>1. i \in 1..(registers + 124) \div 125
  BY DEF Chunks, maxQty
<1>2. i \in Nat \ {0} /\ 125 * (i - 1) < registers
  BY <1>1
<1>3. /\ Chunks(registers)[i].start = 125 * (i - 1)
      /\ Chunks(registers)[i].qty = IF registers - 125 * (i - 1) > 125 THEN 125
                                    ELSE registers - 125 * (i - 1)
  BY <1>1, <1>2 DEF Chunks, maxQty
<1> QED BY <1>2, <1>3

(* poll.go reads every register of a server of that many registers, none      *)
(* twice and none that is not there (poll.go:31-39).                          *)
THEOREM ChunksTile ==
  ASSUME NEW registers \in Nat
  PROVE  LET chunks == Chunks(registers) IN
         /\ \A a \in 0..registers - 1 : \E i \in DOMAIN chunks : a \in Addresses(chunks[i])
         /\ \A i \in DOMAIN chunks : Addresses(chunks[i]) \subseteq 0..registers - 1
         /\ \A i, j \in DOMAIN chunks :
              i # j => Addresses(chunks[i]) \cap Addresses(chunks[j]) = {}
<1> DEFINE chunks == Chunks(registers)
<1>1. ASSUME NEW a \in 0..registers - 1
      PROVE  \E i \in DOMAIN chunks : a \in Addresses(chunks[i])
  <2> DEFINE i == a \div 125 + 1
  <2>1. i \in 1..(registers + 124) \div 125 /\ 125 * (i - 1) <= a /\ a < 125 * i
    BY SMTT(30)
  <2>2. i \in DOMAIN chunks
    BY <2>1 DEF Chunks, maxQty
  <2> HIDE DEF i
  <2>3. /\ chunks[i].start = 125 * (i - 1) /\ chunks[i].start \in Int /\ chunks[i].qty \in Int
        /\ \/ chunks[i].start + chunks[i].qty = 125 * i
           \/ chunks[i].start + chunks[i].qty = registers
    BY <2>2, ChunkOf
  <2> HIDE DEF chunks
  <2>4. i \in Int /\ a < registers /\ a \in Int /\ registers \in Int
    BY <2>1, <1>1
  <2>5. chunks[i].start <= a
    BY <2>1, <2>3
  <2>6. a <= chunks[i].start + chunks[i].qty - 1
    <3> DEFINE end == chunks[i].start + chunks[i].qty
    <3> end \in Int
      BY <2>3
    <3>1. end = chunks[i].start + chunks[i].qty
      OBVIOUS
    <3>2. end = 125 * i \/ end = registers
      BY <2>3
    <3> HIDE DEF end
    <3>3. a <= end - 1
      BY <3>2, <2>1, <2>4
    <3> QED BY <2>3, <3>1, <3>3
  <2> QED BY <2>2, <2>3, <2>4, <2>5, <2>6 DEF Addresses
<1>2. ASSUME NEW i \in DOMAIN chunks PROVE Addresses(chunks[i]) \subseteq 0..registers - 1
  <2>1. /\ chunks[i].start \in Nat /\ chunks[i].qty \in Nat
        /\ chunks[i].start + chunks[i].qty <= registers
    BY ChunkOf
  <2> HIDE DEF chunks
  <2> QED BY <2>1 DEF Addresses
<1>3. ASSUME NEW i \in DOMAIN chunks, NEW j \in DOMAIN chunks, i < j
      PROVE  Addresses(chunks[i]) \cap Addresses(chunks[j]) = {}
  <2> DEFINE c == chunks[i]
             d == chunks[j]
  <2>1. c.start \in Nat /\ c.qty \in Nat /\ d.start \in Nat /\ d.qty \in Nat
    BY ChunkOf
  <2>2. i \in Nat /\ j \in Nat /\ c.start = 125 * (i - 1) /\ d.start = 125 * (j - 1)
    BY ChunkOf
  <2>3. c.start + c.qty <= d.start
    <3>1. c.qty <= 125
      BY ChunkOf
    <3> HIDE DEF c, d
    <3> QED BY <3>1, <2>1, <2>2, <1>3
  <2> HIDE DEF c, d
  <2> QED BY <2>1, <2>3 DEF Addresses, c, d
<1>4. \A i \in DOMAIN chunks : i \in Nat
  BY ChunkOf
<1>5. ASSUME NEW i \in DOMAIN chunks, NEW j \in DOMAIN chunks, i # j
      PROVE  Addresses(chunks[i]) \cap Addresses(chunks[j]) = {}
  <2>1. i < j \/ j < i
    BY <1>4, <1>5
  <2> QED BY <2>1, <1>3
<1> QED BY <1>1, <1>2, <1>5

(* Every request of poll.go is answered with the bytes it waits for, by every *)
(* server that has the registers and function 3 (poll.go:76-89).              *)
THEOREM PollAnswered ==
  ASSUME NEW h \in Handlers, 3 \in h.active,
         NEW registers \in Nat, registers <= h.registers,
         NEW i \in DOMAIN Chunks(registers)
  PROVE  LET chunk == Chunks(registers)[i] IN
         Handle(h, PollRequest(chunk)).len = Expected(chunk)
<1> DEFINE chunk == Chunks(registers)[i]
<1>1. /\ chunk.start \in Nat /\ chunk.qty \in Nat /\ 1 <= chunk.qty /\ chunk.qty <= 125
      /\ chunk.start + chunk.qty <= registers
  BY ChunkOf
<1>2. h.registers \in Nat /\ h.registers <= 65536
  <2>1. h.registers \in 1..MaxRegisters
    BY DEF Handlers
  <2>2. MaxRegisters \in Int /\ MaxRegisters <= 65536
    BY DEF MaxRegisters
  <2>3. h.registers \in Nat
    BY HandlerFields
  <2> QED BY <2>1, <2>2, <2>3
<1> HIDE DEF chunk
<1>3. AsWord(chunk.start) = chunk.start /\ AsWord(chunk.qty) = chunk.qty /\ AsByte(3) = 3
  BY <1>1, <1>2 DEF AsWord, AsByte
<1>4. PollRequest(chunk) = [len |-> 5, fc |-> 3, start |-> chunk.start, qty |-> chunk.qty]
  BY <1>3 DEF PollRequest, Request
<1>5. InRange(h, PollRequest(chunk))
  BY <1>1, <1>2, <1>4 DEF InRange
<1>6. Handle(h, PollRequest(chunk)) = ReadReply(PollRequest(chunk))
  BY <1>1, <1>4, <1>5 DEF Handle, ReadRegisters, MinReadQuantity, MaxReadQuantity
<1>7. Handle(h, PollRequest(chunk)).len = Expected(chunk)
  BY <1>4, <1>6 DEF ReadReply, Expected
<1> QED BY <1>7 DEF chunk

(* probe.go passes exactly when the read it was told to make is legal on the  *)
(* server and the server accepts its unit (probe.go:52-65): for any numbers    *)
(* of its command line, which it cuts to their fields.                         *)
THEOREM ProbeVerdict ==
  ASSUME NEW h \in Handlers, NEW heard \in BOOLEAN,
         NEW fc \in Int, NEW start \in Int, NEW qty \in Int
  PROVE  LET pdu == Request(fc, start, qty) IN
         ProbeExit(h, heard, pdu) = 0 <=> heard /\ Legal(h, pdu)
<1> DEFINE pdu == Request(fc, start, qty)
<1>1. pdu \in Requests
  BY RequestIsPDU
<1> HIDE DEF pdu
<1>2. CASE Legal(h, pdu)
  <2>1. pdu.fc \in {3, 4} /\ pdu.qty \in 1..125 /\ pdu.start \in Nat /\ h.registers \in Nat
    BY <1>1, <1>2, HandlerFields, RequestFields DEF Legal, Handlers, Implemented
  <2>2. pdu.fc \in h.active /\ pdu.len = 5 /\ InRange(h, pdu)
    BY <1>2, <2>1 DEF Legal, InRange
  <2>3. Handle(h, pdu) = ReadReply(pdu)
    BY <2>1, <2>2 DEF Handle, ReadRegisters, MinReadQuantity, MaxReadQuantity
  <2>4. /\ Handle(h, pdu).fc < 128 /\ Handle(h, pdu).second = 2 * pdu.qty
        /\ Handle(h, pdu).len = 2 + 2 * pdu.qty
    BY <2>1, <2>3 DEF ReadReply
  <2> QED BY <1>2, <2>4 DEF ProbeExit, pdu
<1>3. CASE ~Legal(h, pdu)
  <2>1. pdu.fc \in 0..255
    BY <1>1 DEF Requests, Byte
  <2>2. Masked(pdu.fc) >= 128 /\ Masked(pdu.fc) \in Nat
    BY <2>1 DEF Masked
  <2>3. \E code \in 1..3 : Handle(h, pdu) = Exception(pdu.fc, code)
    BY <1>1, <1>3, Refused
  <2>4. Handle(h, pdu).fc = Masked(pdu.fc)
    BY <2>3 DEF Exception
  <2>5. ~(Handle(h, pdu).fc < 128)
    BY <2>2, <2>4
  <2> QED BY <1>3, <2>5 DEF ProbeExit, pdu
<1> QED BY <1>2, <1>3

-----------------------------------------------------------------------------
(* The connection (ConnLoop).                                                *)

(* The frames the client has begun to write, and the tokens that have not     *)
(* been read by handleConn, in order.                                         *)
FrameAt(i) == IF i <= Len(sent) THEN sent[i] ELSE half[1]
Unread == Len(buf) + Len(in)
TokenAt(k) == IF k <= Len(buf) THEN buf[k] ELSE in[k - Len(buf)]

(* The tokens read when n frames have been, and a header between two reads.   *)
ReadBy(n) == IF pc = "pdu" THEN 2 * n + 1 ELSE 2 * n

(* handleConn has read n frames, all with good headers; what is left of the   *)
(* stream begins where it stopped, and ends where the client did, unless that *)
(* one has gone.                                                              *)
InStep(n) ==
  /\ n \in 0..Len(sent)
  /\ ReadBy(n) + Unread <= 2 * Len(sent) + Len(half)
  /\ client = "open" => ReadBy(n) + Unread = 2 * Len(sent) + Len(half)
  /\ \A k \in 1..Unread : \A i \in 1..Len(sent) + Len(half) :
       /\ ReadBy(n) + k = 2 * i - 1 => TokenAt(k) = HdrToken(FrameAt(i))
       /\ ReadBy(n) + k = 2 * i => TokenAt(k) = PduToken(FrameAt(i))
  /\ \A i \in 1..n : Framed(sent[i].hdr)
  /\ pc = "pdu" => Valid(hdr) /\ hdr = FrameAt(n + 1).hdr
  /\ pc = "write" => n \in Answered /\ out = ReplyFor(sent[n])

(* The replies written, and the one in hand, are all of the first n frames,   *)
(* unless the connection has broken.                                          *)
InHand == IF pc = "write" THEN 1 ELSE 0
AllReplied(n) ==
  /\ Len(Replies) + InHand <= Place(n)
  /\ sockOpen /\ client = "open" => Len(Replies) + InHand = Place(n)

(* The inductive invariant of the loop.                                       *)
ConnInv == /\ TypeOK /\ AnswersInOrder
           /\ pc # "ended" => \E n \in Nat : InStep(n) /\ AllReplied(n)

(* The place of a frame's reply: one more with every answered frame.          *)
LEMMA AnsweredFinite ==
  ASSUME TypeOK
  PROVE  /\ Len(sent) \in Nat /\ Answered \subseteq 1..Len(sent)
         /\ IsFiniteSet(Answered) /\ Cardinality(Answered) \in Nat
         /\ \A n \in Nat : IsFiniteSet({i \in Answered : i <= n}) /\ Place(n) \in Nat
<1>1. Len(sent) \in Nat /\ DOMAIN sent = 1..Len(sent)
  BY LenProperties DEF TypeOK
<1>2. Answered \subseteq 1..Len(sent)
  BY <1>1 DEF Answered
<1>3. IsFiniteSet(1..Len(sent))
  BY <1>1, FS_Interval
<1>4. IsFiniteSet(Answered)
  BY <1>2, <1>3, FS_Subset
<1>5. ASSUME NEW n \in Nat PROVE IsFiniteSet({i \in Answered : i <= n})
  BY <1>4, FS_Subset
<1> QED BY <1>1, <1>2, <1>4, <1>5, FS_CardinalityType DEF Place

LEMMA PlaceNext ==
  ASSUME TypeOK, NEW n \in Nat
  PROVE  Place(n + 1) = IF n + 1 \in Answered THEN Place(n) + 1 ELSE Place(n)
<1> DEFINE S == {i \in Answered : i <= n}
<1>1. IsFiniteSet(S) /\ \A i \in Answered : i \in Nat
  BY AnsweredFinite
<1>4. \A i \in Answered : i <= n + 1 <=> i <= n \/ i = n + 1
  BY <1>1
<1>5. n + 1 \notin S
  OBVIOUS
<1>2. CASE n + 1 \in Answered
  <2>1. {i \in Answered : i <= n + 1} = S \cup {n + 1}
    BY <1>4, <1>2
  <2> QED BY <1>1, <1>2, <1>5, <2>1, FS_AddElement DEF Place
<1>3. CASE n + 1 \notin Answered
  <2>1. {i \in Answered : i <= n + 1} = S
    BY <1>4, <1>3
  <2> QED BY <1>3, <2>1 DEF Place
<1> QED BY <1>2, <1>3

LEMMA PlaceMonotonic ==
  ASSUME TypeOK, NEW m \in Nat, NEW n \in Nat, m <= n
  PROVE  Place(m) <= Place(n)
<1>1. {i \in Answered : i <= m} \subseteq {i \in Answered : i <= n}
  BY AnsweredFinite
<1> QED BY <1>1, AnsweredFinite, FS_Subset DEF Place

(* No two answered frames have the same place.                                *)
LEMMA PlaceInjective ==
  ASSUME TypeOK, NEW i \in Answered, NEW j \in Answered, Place(i) = Place(j)
  PROVE  i = j
<1>1. ASSUME NEW k \in Answered, NEW l \in Answered, k < l PROVE Place(k) < Place(l)
  <2>1. k \in Nat /\ l \in Nat /\ l - 1 \in Nat /\ k <= l - 1
    BY <1>1, AnsweredFinite
  <2>2. Place(k) <= Place(l - 1)
    BY <2>1, PlaceMonotonic
  <2>3. Place(l) = Place(l - 1) + 1
    BY <2>1, PlaceNext
  <2>4. Place(k) \in Nat /\ Place(l - 1) \in Nat
    BY <2>1, AnsweredFinite
  <2> QED BY <2>2, <2>3, <2>4
<1>2. i \in Nat /\ j \in Nat
  BY AnsweredFinite
<1>3. Place(i) \in Nat
  BY <1>2, AnsweredFinite
<1>4. ~(i < j) /\ ~(j < i)
  BY <1>1, <1>3
<1> QED BY <1>2, <1>4

LEMMA PlaceLast ==
  ASSUME TypeOK PROVE Place(Len(sent)) = Cardinality(Answered)
<1>1. {i \in Answered : i <= Len(sent)} = Answered
  BY AnsweredFinite
<1> QED BY <1>1 DEF Place

(* What the handler makes of any PDU is a reply that fits its fields.         *)
LEMMA BytesAndWords ==
  /\ \A n \in Byte : n \in Nat /\ n <= 255
  /\ \A n \in Int : 0 <= n /\ n <= 255 => n \in Byte
  /\ 0 \in Word
<1> DEFINE top == 255
<1>1. Byte = 0..top
  BY DEF Byte
<1>2. top \in Nat
  OBVIOUS
<1>3. 0 \in Word
  BY WordRange DEF AsWord
<1> HIDE DEF top
<1>4. \A n \in Byte : n \in Nat /\ n <= top
  BY <1>1, <1>2
<1>5. \A n \in Int : 0 <= n /\ n <= top => n \in Byte
  BY <1>1, <1>2
<1> QED BY <1>3, <1>4, <1>5 DEF top

LEMMA ReplyFits ==
  ASSUME NEW handler \in Handlers, NEW h \in Headers, NEW body \in Bodies
  PROVE  ReplyTo(h, Handle(handler, RequestOf(h, body))) \in ReplyRecords
<1> DEFINE pdu == RequestOf(h, body)
           r == Handle(handler, pdu)
           PDUs == [len : 0..MaxPDULen, fc : Byte, second : Byte]
<1>1. pdu.fc \in Byte /\ pdu.qty = body.qty
  BY DEF RequestOf, Bodies
<1>2. 0 \in Byte /\ 1 \in Byte /\ 2 \in Byte /\ 3 \in Byte /\ Masked(pdu.fc) \in Byte
  <2>1. pdu.fc \in Nat /\ pdu.fc <= 255
    BY <1>1, BytesAndWords
  <2>2. Masked(pdu.fc) \in Int /\ 0 <= Masked(pdu.fc) /\ Masked(pdu.fc) <= 255
    BY <2>1 DEF Masked
  <2> QED BY <2>2, BytesAndWords
<1>3. 0 \in 0..MaxPDULen /\ 2 \in 0..MaxPDULen /\ \A n \in 1..125 : 2 + 2 * n \in 0..MaxPDULen
  BY DEF MaxPDULen
<1>4. Nil \in PDUs /\ \A code \in {1, 2, 3} : Exception(pdu.fc, code) \in PDUs
  BY <1>2, <1>3 DEF Nil, Exception
<1>5. ASSUME pdu.qty \in 1..125 PROVE ReadReply(pdu) \in PDUs
  <2>1. 2 * pdu.qty \in Int
    BY <1>5
  <2>2. (2 * pdu.qty) % 256 \in Byte
    BY <2>1, ByteRange DEF AsByte
  <2> QED BY <1>1, <1>3, <1>5, <2>2 DEF ReadReply
<1>6. r \in PDUs
  BY <1>4, <1>5 DEF Handle, ReadRegisters, IllegalFunction, IllegalDataAddress,
                    IllegalDataValue, MinReadQuantity, MaxReadQuantity
<1>7. ReplyHeader(h, r) \in Headers
  <2> HIDE DEF r
  <2>1. r.len \in Int
    BY <1>6 DEF MaxPDULen
  <2>2. (r.len + 1) % 65536 \in Word
    BY <2>1, WordRange DEF AsWord
  <2> QED BY <2>2, BytesAndWords DEF ReplyHeader, Headers
<1> QED BY <1>6, <1>7 DEF ReplyTo, ReplyRecords

LEMMA CaseTypes ==
  ASSUME TypeOK
  PROVE  /\ server.handler \in Handlers /\ server.unit \in Byte
         /\ habit.frames \subseteq [hdr : Headers, body : Bodies]
BY ConnAssumption DEF TypeOK, server, habit, ServerConfigs, Habits

LEMMA NoReplyFits == NoReply \in ReplyRecords /\ NoReply.hdr \in Headers
<1>1. 0 \in Byte /\ 0 \in Word /\ 0 \in 0..MaxPDULen
  BY BytesAndWords DEF MaxPDULen
<1> QED BY <1>1 DEF NoReply, ReplyRecords, Headers, Nil

LEMMA InitTypes == Init => TypeOK
<1> SUFFICES ASSUME Init PROVE TypeOK
  OBVIOUS
<1>1. \A S : <<>> \in Seq(S)
  OBVIOUS
<1> QED BY <1>1, NoReplyFits, ConnAssumption DEF Init, TypeOK

(* The streams.                                                               *)
LEMMA Capacities == InCapacity \in Nat \ {0} /\ OutCapacity \in Nat \ {0}
BY ConnAssumption

LEMMA EmptyFits == \A S : <<>> \in Seq(S) /\ Len(<<>>) = 0
OBVIOUS

LEMMA CloseTypes ==
  ASSUME TypeOK, CloseSocket
  PROVE  /\ back' \in Seq(ReplyRecords) /\ Len(back') <= OutCapacity
         /\ sockOpen' = FALSE
<1>1. back' \in {back, <<>>} /\ sockOpen' = FALSE
  BY DEF CloseSocket
<1>2. Len(<<>>) <= OutCapacity
  BY EmptyFits, Capacities
<1> QED BY <1>1, <1>2, EmptyFits DEF TypeOK

LEMMA FrameTypes ==
  ASSUME TypeOK, NEW s, s \in {buf, in}, s # <<>>
  PROVE  /\ Head(s) \in Tokens /\ Tail(s) \in Seq(Tokens) /\ Len(Tail(s)) = Len(s) - 1
         /\ Head(s).frame.hdr \in Headers /\ Head(s).frame.body \in Bodies
<1>1. s \in Seq(Tokens)
  BY DEF TypeOK
<1>2. Head(s) \in Tokens /\ Tail(s) \in Seq(Tokens) /\ Len(Tail(s)) = Len(s) - 1
  BY <1>1, HeadTailProperties
<1>3. Head(s).frame \in habit.frames
  BY <1>2 DEF Tokens
<1> QED BY <1>2, <1>3, CaseTypes

(* Cutting what has arrived in two, as a Read does.                           *)
LEMMA CutInTwo ==
  ASSUME NEW S, NEW s \in Seq(S), NEW k \in 1..Len(s)
  PROVE  /\ SubSeq(s, 1, k) \in Seq(S) /\ Len(SubSeq(s, 1, k)) = k
         /\ SubSeq(s, k + 1, Len(s)) \in Seq(S) /\ Len(SubSeq(s, k + 1, Len(s))) = Len(s) - k
         /\ \A i \in 1..k : SubSeq(s, 1, k)[i] = s[i]
         /\ \A i \in 1..Len(s) - k : SubSeq(s, k + 1, Len(s))[i] = s[k + i]
<1>1. Len(s) \in Nat /\ \A i \in 1..Len(s) : s[i] \in S
  BY LenProperties
<1>2. \A i \in 1..k : s[i] \in S
  BY <1>1
<1>3. \A i \in k + 1..Len(s) : s[i] \in S
  BY <1>1
<1>4. /\ SubSeq(s, 1, k) \in Seq(S) /\ Len(SubSeq(s, 1, k)) = k
      /\ \A i \in 1..k : SubSeq(s, 1, k)[i] = s[i]
  <2>1. /\ SubSeq(s, 1, k) \in Seq(S)
        /\ Len(SubSeq(s, 1, k)) = IF 1 <= k THEN k - 1 + 1 ELSE 0
        /\ \A i \in 1..k - 1 + 1 : SubSeq(s, 1, k)[i] = s[1 + i - 1]
    BY <1>2, SubSeqProperties
  <2>2. k - 1 + 1 = k /\ 1 <= k /\ \A i \in 1..k : 1 + i - 1 = i
    OBVIOUS
  <2> QED BY <2>1, <2>2
<1>5. /\ SubSeq(s, k + 1, Len(s)) \in Seq(S) /\ Len(SubSeq(s, k + 1, Len(s))) = Len(s) - k
      /\ \A i \in 1..Len(s) - k : SubSeq(s, k + 1, Len(s))[i] = s[k + i]
  <2>0. k + 1 \in Int /\ Len(s) \in Int
    BY <1>1
  <2>1. /\ SubSeq(s, k + 1, Len(s)) \in Seq(S)
        /\ Len(SubSeq(s, k + 1, Len(s))) = IF k + 1 <= Len(s) THEN Len(s) - (k + 1) + 1 ELSE 0
        /\ \A i \in 1..Len(s) - (k + 1) + 1 : SubSeq(s, k + 1, Len(s))[i] = s[k + 1 + i - 1]
    BY <1>3, <2>0, SubSeqProperties
  <2>2. Len(s) - (k + 1) + 1 = Len(s) - k /\ (~(k + 1 <= Len(s)) => Len(s) - k = 0)
    BY <1>1
  <2>3. \A i \in 1..Len(s) - k : k + 1 + i - 1 = k + i
    BY <1>1
  <2> QED BY <2>1, <2>2, <2>3
<1> QED BY <1>4, <1>5

LEMMA ClientTypes ==
  ASSUME TypeOK,
         \/ \E f \in habit.frames : SendHeader(f)
         \/ SendPDU \/ ReadReplyFrame \/ LateSend \/ HangUp
  PROVE  TypeOK'
<1> USE DEF TypeOK
<1>1. /\ \A S : <<>> \in Seq(S)
      /\ Len(<<>>) = 0 /\ Len(<<>>) <= InCapacity /\ Len(<<>>) <= OutCapacity
  BY EmptyFits, Capacities
<1>2. case' = case => habit' = habit /\ Tokens' = Tokens
  BY DEF habit, Tokens
<1>3. ASSUME NEW f \in habit.frames, SendHeader(f) PROVE TypeOK'
  <2>1. HdrToken(f) \in Tokens
    BY DEF HdrToken, Tokens
  <2>2. in' \in Seq(Tokens) /\ Len(in') = Len(in) + 1
    BY <1>3, <2>1, AppendProperties DEF SendHeader
  <2>3. Len(in) \in Nat /\ Len(in) < InCapacity
    BY <1>3, LenProperties DEF SendHeader
  <2>4. <<f>> \in Seq(habit.frames)
    <3> DEFINE S == habit.frames
    <3>1. f \in S
      OBVIOUS
    <3> HIDE DEF S
    <3>2. <<f>> \in Seq(S)
      BY <3>1
    <3> QED BY <3>2 DEF S
  <2>5. Len(<<f>>) <= 1
    OBVIOUS
  <2>6. Len(in') <= InCapacity
    BY <2>2, <2>3, Capacities
  <2> QED BY <1>2, <1>3, <2>2, <2>4, <2>5, <2>6 DEF SendHeader, serverVars
<1>4. CASE SendPDU
  <2>1. Head(half) \in habit.frames
    BY <1>4, HeadTailProperties DEF SendPDU
  <2>2. PduToken(Head(half)) \in Tokens
    BY <2>1 DEF PduToken, Tokens
  <2>3. in' \in Seq(Tokens) /\ Len(in') = Len(in) + 1
    BY <1>4, <2>2, AppendProperties DEF SendPDU
  <2>4. sent' \in Seq(habit.frames)
    BY <1>4, <2>1, AppendProperties DEF SendPDU
  <2>5. Len(in) \in Nat /\ Len(in) < InCapacity
    BY <1>4, LenProperties DEF SendPDU
  <2> QED BY <1>1, <1>2, <1>4, <2>3, <2>4, <2>5, Capacities DEF SendPDU, serverVars
<1>5. CASE ReadReplyFrame
  <2>1. Head(back) \in ReplyRecords /\ Tail(back) \in Seq(ReplyRecords) /\ Len(Tail(back)) = Len(back) - 1
    BY <1>5, HeadTailProperties DEF ReadReplyFrame
  <2>2. got' \in Seq(ReplyRecords)
    BY <1>5, <2>1, AppendProperties DEF ReadReplyFrame
  <2>3. Len(back) \in Nat
    BY LenProperties
  <2>4. Len(back') <= OutCapacity
    BY <1>5, <2>1, <2>3, Capacities DEF ReadReplyFrame
  <2> QED BY <1>2, <1>5, <2>1, <2>2, <2>4 DEF ReadReplyFrame, serverVars
<1>6. CASE LateSend BY <1>1, <1>2, <1>6 DEF LateSend, serverVars, clientVars
<1>7. CASE HangUp BY <1>1, <1>2, <1>7 DEF HangUp, serverVars
<1> QED BY <1>3, <1>4, <1>5, <1>6, <1>7

LEMMA HandlerTypes ==
  ASSUME TypeOK, HandlerStep \/ DeadlinePasses \/ ForceClose \/ Ended \/ UNCHANGED vars
  PROVE  TypeOK'
<1> USE DEF TypeOK
<1>2. case' = case
  BY DEF HandlerStep, LoopTop, FillBuffer, ReadFails, ReadHeader, ReadPDU, WriteReply, WriteFails,
         DeadlinePasses, ForceClose, Ended, vars, serverVars
<1>3. habit' = habit /\ Tokens' = Tokens
  BY <1>2 DEF habit, Tokens
<1>4. CASE LoopTop BY <1>3, <1>4 DEF LoopTop, clientVars
<1>5. CASE FillBuffer
  <2>1. PICK k \in 1..Len(in) : buf' = SubSeq(in, 1, k) /\ in' = SubSeq(in, k + 1, Len(in))
    BY <1>5 DEF FillBuffer
  <2>2. buf' \in Seq(Tokens) /\ in' \in Seq(Tokens) /\ Len(in') = Len(in) - k
    BY <2>1, CutInTwo
  <2>3. Len(in') <= InCapacity
    BY <2>2, LenProperties, Capacities
  <2> QED BY <1>3, <1>5, <2>2, <2>3 DEF FillBuffer, clientVars
<1>6. CASE ReadFails BY <1>3, <1>6, CloseTypes DEF ReadFails, Return, clientVars
<1>7. CASE ReadHeader
  <2>1. hdr' \in Headers /\ buf' \in Seq(Tokens)
    BY <1>7, FrameTypes DEF ReadHeader
  <2>2. /\ back' \in Seq(ReplyRecords) /\ Len(back') <= OutCapacity /\ sockOpen' \in BOOLEAN
        /\ pc' \in {"pdu", "ended"}
    BY <1>7, CloseTypes DEF ReadHeader, Return
  <2> QED BY <1>3, <1>7, <2>1, <2>2 DEF ReadHeader, clientVars
<1>8. CASE ReadPDU
  <2>1. buf' \in Seq(Tokens)
    BY <1>8, FrameTypes DEF ReadPDU
  <2>2. ReplyTo(hdr, Handle(server.handler, RequestOf(hdr, Head(buf).frame.body))) \in ReplyRecords
    BY <1>8, FrameTypes, CaseTypes, ReplyFits DEF ReadPDU
  <2>3. out' \in ReplyRecords /\ pc' \in {"write", "top"} /\ deadline' \in {"off", "set", "passed"}
    BY <1>8, <2>2 DEF ReadPDU
  <2> QED BY <1>3, <1>8, <2>1, <2>3 DEF ReadPDU, clientVars
<1>9. CASE WriteReply
  <2>1. Append(back, out) \in Seq(ReplyRecords) /\ Len(Append(back, out)) = Len(back) + 1
    BY AppendProperties
  <2>2. back' \in Seq(ReplyRecords) /\ Len(back') <= OutCapacity
    <3>1. back \in Seq(ReplyRecords) /\ Len(back) \in Nat /\ Len(back) <= OutCapacity
      BY LenProperties
    <3>2. (back' = Append(back, out) /\ Len(back) < OutCapacity) \/ back' = back
      BY <1>9 DEF WriteReply
    <3>3. CASE back' = Append(back, out) /\ Len(back) < OutCapacity
      <4>1. Len(back) + 1 <= OutCapacity
        BY <3>1, <3>3, Capacities
      <4> QED BY <2>1, <3>3, <4>1
    <3> QED BY <3>1, <3>2, <3>3
  <2> QED BY <1>3, <1>9, <2>2 DEF WriteReply, clientVars
<1>10. CASE WriteFails BY <1>3, <1>10, CloseTypes DEF WriteFails, Return, clientVars
<1>11. CASE DeadlinePasses BY <1>3, <1>11 DEF DeadlinePasses, clientVars
<1>12. CASE ForceClose BY <1>3, <1>12, CloseTypes DEF ForceClose, serverVars, clientVars
<1>13. CASE Ended \/ UNCHANGED vars BY <1>3, <1>13 DEF Ended, vars, serverVars, clientVars
<1> QED BY <1>4, <1>5, <1>6, <1>7, <1>8, <1>9, <1>10, <1>11, <1>12, <1>13 DEF HandlerStep

LEMMA NextTypes == TypeOK /\ [Next]_vars => TypeOK'
BY ClientTypes, HandlerTypes DEF Next

(* Whatever a client sends, the buffers hold whole tokens within their bounds, *)
(* and every reply is a frame whose fields keep their width (conn.go:28-86).   *)
THEOREM ConnTypeCorrect == Spec => []TypeOK
BY InitTypes, NextTypes, PTL DEF Spec

(* The places of the replies, while no frame is added and when one is.        *)
LEMMA SameFrames ==
  ASSUME UNCHANGED <<case, sent>>
  PROVE  /\ server' = server /\ habit' = habit /\ Answered' = Answered
         /\ \A n : Place(n)' = Place(n)
         /\ \A f : ReplyFor(f)' = ReplyFor(f)
BY DEF server, habit, Answered, Place, ReplyFor

LEMMA Grows ==
  ASSUME TypeOK, NEW f \in habit.frames, sent' = Append(sent, f), case' = case
  PROVE  /\ Len(sent) \in Nat /\ Len(sent') = Len(sent) + 1 /\ sent'[Len(sent) + 1] = f
         /\ \A i \in 1..Len(sent) : sent'[i] = sent[i]
         /\ Answered \subseteq Answered' /\ Answered' \subseteq Answered \cup {Len(sent) + 1}
         /\ \A n \in 0..Len(sent) : Place(n)' = Place(n)
         /\ IsFiniteSet(Answered') /\ Cardinality(Answered) <= Cardinality(Answered')
         /\ \A n : n = Len(sent) + 1 /\ n \in Answered' => Place(n)' = Cardinality(Answered) + 1
<1>1. /\ Len(sent) \in Nat /\ DOMAIN sent = 1..Len(sent)
      /\ Len(sent') = Len(sent) + 1 /\ DOMAIN sent' = 1..Len(sent) + 1
      /\ \A i \in 1..Len(sent) : sent'[i] = sent[i]
      /\ sent'[Len(sent) + 1] = f
  <2> DEFINE S == habit.frames
  <2>1. sent \in Seq(S) /\ f \in S
    BY DEF TypeOK
  <2> HIDE DEF S
  <2>2. sent' \in Seq(S) /\ Len(sent') = Len(sent) + 1
    BY <2>1, AppendProperties
  <2>3. Len(sent) \in Nat /\ DOMAIN sent = 1..Len(sent) /\ DOMAIN sent' = 1..Len(sent')
    BY <2>1, <2>2, LenProperties
  <2> QED BY <2>1, <2>2, <2>3, AppendProperties
<1>2. server' = server
  BY DEF server
<1>3. \A i \in 1..Len(sent) : i \in Answered' <=> i \in Answered
  <2> SUFFICES ASSUME NEW i \in 1..Len(sent) PROVE i \in Answered' <=> i \in Answered
    OBVIOUS
  <2>1. \A j \in 1..i : sent'[j] = sent[j]
    BY <1>1
  <2>2. i \in DOMAIN sent /\ i \in DOMAIN sent' /\ sent'[i] = sent[i]
    BY <1>1
  <2> QED BY <1>2, <2>1, <2>2 DEF Answered
<1>4. Answered \subseteq 1..Len(sent) /\ Answered' \subseteq 1..Len(sent) + 1
  BY <1>1 DEF Answered
<1>5. Answered \subseteq Answered' /\ Answered' \subseteq Answered \cup {Len(sent) + 1}
  BY <1>1, <1>3, <1>4
<1>6. ASSUME NEW n \in 0..Len(sent) PROVE Place(n)' = Place(n)
  <2>1. \A i \in Answered' : i <= n => i \in Answered
    BY <1>1, <1>3, <1>4
  <2>2. {i \in Answered' : i <= n} = {i \in Answered : i <= n}
    BY <1>5, <2>1
  <2> QED BY <2>2 DEF Place
<1>7. IsFiniteSet(Answered) /\ IsFiniteSet(Answered') /\ Cardinality(Answered) <= Cardinality(Answered')
  <2>1. IsFiniteSet(1..Len(sent) + 1)
    BY <1>1, FS_Interval
  <2>2. IsFiniteSet(Answered')
    BY <1>4, <2>1, FS_Subset
  <2> QED BY <1>5, <2>2, FS_Subset
<1>8. ASSUME NEW n, n = Len(sent) + 1, n \in Answered'
      PROVE  Place(n)' = Cardinality(Answered) + 1
  <2>1. \A i \in Answered' : i <= n
    BY <1>1, <1>4, <1>8
  <2>2. {i \in Answered' : i <= n} = Answered \cup {n}
    BY <1>5, <1>8, <2>1
  <2>3. n \notin Answered
    BY <1>1, <1>4, <1>8
  <2>4. Place(n)' = Cardinality(Answered \cup {n})
    BY <2>2 DEF Place
  <2> QED BY <1>7, <2>3, <2>4, FS_AddElement
<1> QED BY <1>1, <1>5, <1>6, <1>7, <1>8

(* The replies.                                                               *)
LEMMA RepliesAre ==
  ASSUME TypeOK
  PROVE  /\ Replies \in Seq(ReplyRecords) /\ Len(Replies) \in Nat
         /\ Len(got) \in Nat /\ Len(Replies) = Len(got) + Len(back) /\ Len(back) \in Nat
         /\ \A k \in 1..Len(got) : Replies[k] = got[k]
<1>1. got \in Seq(ReplyRecords) /\ back \in Seq(ReplyRecords)
  BY DEF TypeOK
<1>2. Len(got) \in Nat /\ Len(back) \in Nat
  BY <1>1, LenProperties
<1>3. /\ Replies \in Seq(ReplyRecords) /\ Len(Replies) = Len(got) + Len(back)
      /\ \A k \in 1..Len(got) + Len(back) :
           Replies[k] = IF k <= Len(got) THEN got[k] ELSE back[k - Len(got)]
  BY <1>1, ConcatProperties DEF Replies
<1>4. \A k \in 1..Len(got) : k \in 1..Len(got) + Len(back) /\ k <= Len(got)
  BY <1>2
<1> QED BY <1>2, <1>3, <1>4

LEMMA PlacePositive ==
  ASSUME TypeOK, NEW i \in Answered
  PROVE  i \in Nat /\ i >= 1 /\ Place(i) \in Nat /\ 1 <= Place(i)
<1>1. i \in Nat /\ i >= 1 /\ i - 1 \in Nat
  BY AnsweredFinite
<1>2. Place(i) = Place(i - 1) + 1
  BY <1>1, PlaceNext
<1>3. Place(i - 1) \in Nat
  BY <1>1, AnsweredFinite
<1> QED BY <1>1, <1>2, <1>3

(* What is not written is not wrong: replies may get lost at the end.          *)
LEMMA FewerReplies ==
  ASSUME TypeOK, AnswersInOrder, UNCHANGED <<case, sent>>, got' = got, back' \in {back, <<>>}
  PROVE  AnswersInOrder' /\ Len(Replies') \in Nat /\ Len(Replies') <= Len(Replies)
<1>1. CASE back' = back
  <2>1. Replies' = Replies
    BY <1>1 DEF Replies
  <2> QED BY <2>1, SameFrames, RepliesAre DEF AnswersInOrder
<1>2. CASE back' = <<>>
  <2>1. Replies' = got
    BY <1>2, ConcatEmptySeq DEF Replies, TypeOK
  <2>2. Len(got) \in Nat /\ Len(Replies) \in Nat /\ Len(got) <= Len(Replies)
    BY RepliesAre
  <2>3. Len(Replies') <= Cardinality(Answered)
    BY <2>1, <2>2, AnsweredFinite DEF AnswersInOrder
  <2>4. ASSUME NEW i \in Answered, Place(i) <= Len(Replies')
        PROVE  Replies'[Place(i)] = ReplyFor(sent[i])
    <3>1. Place(i) \in 1..Len(got) /\ Place(i) <= Len(Replies)
      BY <2>1, <2>2, <2>4, PlacePositive
    <3> QED BY <2>1, <3>1, RepliesAre DEF AnswersInOrder
  <2> QED BY <2>1, <2>2, <2>3, <2>4, SameFrames DEF AnswersInOrder
<1> QED BY <1>1, <1>2

LEMMA LengthTypes ==
  ASSUME TypeOK
  PROVE  /\ Len(sent) \in Nat /\ Len(half) \in Nat /\ Len(half) <= 1
         /\ Len(buf) \in Nat /\ Len(in) \in Nat /\ Unread \in Nat
BY LenProperties DEF TypeOK, Unread

(* A step that leaves both ends of the incoming stream where they are.         *)
LEMMA InStepKept ==
  ASSUME NEW n \in Nat, InStep(n),
         UNCHANGED <<case, sent, half, hdr, out, buf, in>>,
         client' = "open" => client = "open",
         pc' = pc \/ (pc = "top" /\ pc' = "hdr")
  PROVE  InStep(n)'
<1>1. Answered' = Answered /\ \A f : ReplyFor(f)' = ReplyFor(f)
  BY SameFrames
<1>2. /\ Unread' = Unread /\ \A k : TokenAt(k)' = TokenAt(k)
      /\ \A i : FrameAt(i)' = FrameAt(i)
  BY DEF Unread, TokenAt, FrameAt
<1>3. ReadBy(n)' = ReadBy(n)
  BY DEF ReadBy
<1>4. pc' = "pdu" <=> pc = "pdu"
  OBVIOUS
<1>5. pc' = "write" <=> pc = "write"
  OBVIOUS
<1> QED BY <1>1, <1>2, <1>3, <1>4, <1>5 DEF InStep

LEMMA RepliedKept ==
  ASSUME TypeOK, NEW n \in Nat, AnswersInOrder, AllReplied(n),
         UNCHANGED <<case, sent>>, got' = got, back' \in {back, <<>>},
         client' = "open" => client = "open", sockOpen' => sockOpen,
         back' = back \/ ~sockOpen' \/ client' # "open",
         InHand' = InHand
  PROVE  AllReplied(n)'
<1>1. Len(Replies') \in Nat /\ Len(Replies') <= Len(Replies) /\ Place(n)' = Place(n)
  BY FewerReplies, SameFrames
<1>2. Len(Replies) \in Nat /\ InHand \in Nat /\ Place(n) \in Nat
  BY RepliesAre, AnsweredFinite DEF InHand
<1>3. Len(Replies') + InHand' <= Place(n)'
  BY <1>1, <1>2 DEF AllReplied
<1>4. back' = back => Len(Replies') = Len(Replies)
  BY DEF Replies
<1> QED BY <1>1, <1>3, <1>4 DEF AllReplied

(* The client writes a token: the stream grows at its end.                     *)
LEMMA SendHeaderKeeps ==
  ASSUME TypeOK, TypeOK', NEW n \in Nat, InStep(n), NEW f \in habit.frames, SendHeader(f)
  PROVE  InStep(n)'
<1>1. /\ Len(sent) \in Nat /\ half = <<>> /\ Len(half) = 0 /\ half' = <<f>>
      /\ Len(half') = 1 /\ half'[1] = f
      /\ sent' = sent /\ buf' = buf /\ client' = client /\ client = "open"
      /\ case' = case /\ pc' = pc /\ hdr' = hdr /\ out' = out
      /\ Len(buf) \in Nat /\ Len(in) \in Nat
  BY LengthTypes DEF SendHeader, serverVars
<1>2. /\ Len(in') = Len(in) + 1 /\ in'[Len(in) + 1] = HdrToken(f)
      /\ \A k \in 1..Len(in) : in'[k] = in[k]
  <2>1. in \in Seq(Tokens) /\ HdrToken(f) \in Tokens /\ in' = Append(in, HdrToken(f))
    BY DEF TypeOK, HdrToken, Tokens, SendHeader
  <2> QED BY <2>1, AppendProperties
<1>3. Unread \in Nat /\ Unread' = Unread + 1 /\ ReadBy(n)' = ReadBy(n) /\ ReadBy(n) \in Nat
  BY <1>1, <1>2 DEF Unread, ReadBy
<1>4. ReadBy(n) + Unread = 2 * Len(sent)
  BY <1>1 DEF InStep
<1>5. \A i \in 1..Len(sent) : FrameAt(i)' = FrameAt(i)
  BY <1>1 DEF FrameAt
<1>6. \A i : i = Len(sent) + 1 => FrameAt(i)' = f
  BY <1>1 DEF FrameAt
<1>7. \A k \in 1..Unread : TokenAt(k)' = TokenAt(k)
  BY <1>1, <1>2 DEF Unread, TokenAt
<1>8. \A k : k = Unread + 1 => TokenAt(k)' = HdrToken(f)
  BY <1>1, <1>2 DEF Unread, TokenAt
<1>9. ASSUME NEW k \in 1..Unread', NEW i \in 1..Len(sent) + 1
      PROVE  /\ ReadBy(n) + k = 2 * i - 1 => TokenAt(k)' = HdrToken(FrameAt(i)')
             /\ ReadBy(n) + k = 2 * i => TokenAt(k)' = PduToken(FrameAt(i)')
  <2>1. k \in 1..Unread \/ k = Unread + 1
    BY <1>3
  <2>2. CASE k \in 1..Unread
    <3>1. CASE i \in 1..Len(sent)
      <4>1. i \in 1..Len(sent) + Len(half)
        BY <1>1, <3>1
      <4> QED BY <1>5, <1>7, <2>2, <3>1, <4>1 DEF InStep
    <3>2. CASE i \notin 1..Len(sent)
      <4>1. ReadBy(n) + k # 2 * i - 1 /\ ReadBy(n) + k # 2 * i
        BY <1>1, <1>3, <1>4, <2>2, <3>2
      <4> QED BY <4>1
    <3> QED BY <3>1, <3>2
  <2>3. CASE k = Unread + 1
    <3>1. ReadBy(n) + k # 2 * i
      BY <1>1, <1>3, <1>4, <2>3
    <3>2. ReadBy(n) + k = 2 * i - 1 => i = Len(sent) + 1
      BY <1>1, <1>3, <1>4, <2>3
    <3> QED BY <1>6, <1>8, <2>3, <3>1, <3>2
  <2> QED BY <2>1, <2>2, <2>3
<1>10. ReadBy(n) + Unread' = 2 * Len(sent) + Len(half')
  BY <1>1, <1>3, <1>4
<1>11. pc = "pdu" => FrameAt(n + 1)' = FrameAt(n + 1)
  <2>1. pc = "pdu" => n + 1 \in 1..Len(sent)
    BY <1>1, <1>3, <1>4 DEF ReadBy
  <2>2. (n + 1)' = n + 1
    OBVIOUS
  <2> QED BY <1>1, <2>1 DEF FrameAt
<1>12. Answered' = Answered /\ \A g : ReplyFor(g)' = ReplyFor(g)
  BY <1>1, SameFrames
<1> QED BY <1>1, <1>3, <1>9, <1>10, <1>11, <1>12 DEF InStep

LEMMA SendPDUKeeps ==
  ASSUME TypeOK, TypeOK', NEW n \in Nat, InStep(n), SendPDU
  PROVE  InStep(n)'
<1> DEFINE f == half[1]
<1>1. /\ Len(sent) \in Nat /\ Len(half) = 1 /\ Head(half) = f /\ f \in habit.frames
      /\ half' = <<>> /\ Len(half') = 0
      /\ sent' = Append(sent, f) /\ buf' = buf /\ client' = client /\ client = "open"
      /\ case' = case /\ pc' = pc /\ hdr' = hdr /\ out' = out
      /\ Len(buf) \in Nat /\ Len(in) \in Nat
  <2>1. half \in Seq(habit.frames) /\ half # <<>> /\ Len(half) <= 1
    BY DEF TypeOK, SendPDU
  <2>2. Len(half) = 1
    <3>1. Len(half) \in Nat \ {0}
      BY <2>1, EmptySeq
    <3>2. Len(half) <= 1
      BY <2>1
    <3>3. \A m \in Nat \ {0} : m <= 1 => m = 1
      OBVIOUS
    <3> QED BY <3>1, <3>2, <3>3, Zenon
  <2>3. Head(half) = f /\ f \in habit.frames
    BY <2>1, <2>2, HeadTailProperties
  <2> QED BY <2>2, <2>3, LengthTypes DEF SendPDU, serverVars
<1>2. /\ Len(in') = Len(in) + 1 /\ in'[Len(in) + 1] = PduToken(f)
      /\ \A k \in 1..Len(in) : in'[k] = in[k]
  <2>1. in \in Seq(Tokens) /\ PduToken(f) \in Tokens /\ in' = Append(in, PduToken(f))
    BY <1>1 DEF TypeOK, PduToken, Tokens, SendPDU
  <2> QED BY <2>1, AppendProperties
<1>3. /\ Len(sent') = Len(sent) + 1 /\ sent'[Len(sent) + 1] = f
      /\ \A i \in 1..Len(sent) : sent'[i] = sent[i]
      /\ Answered \subseteq Answered'
  BY <1>1, Grows
<1> HIDE DEF f
<1>4. Unread \in Nat /\ Unread' = Unread + 1 /\ ReadBy(n)' = ReadBy(n) /\ ReadBy(n) \in Nat
  BY <1>1, <1>2 DEF Unread, ReadBy
<1>5. ReadBy(n) + Unread = 2 * Len(sent) + 1
  BY <1>1 DEF InStep
<1>6. \A i \in 1..Len(sent) + 1 : FrameAt(i)' = FrameAt(i)
  BY <1>1, <1>3 DEF FrameAt, f
<1>7. \A k \in 1..Unread : TokenAt(k)' = TokenAt(k)
  BY <1>1, <1>2 DEF Unread, TokenAt
<1>8. \A k : k = Unread + 1 => TokenAt(k)' = PduToken(f)
  BY <1>1, <1>2 DEF Unread, TokenAt
<1>9. ASSUME NEW k \in 1..Unread', NEW i \in 1..Len(sent) + 1
      PROVE  /\ ReadBy(n) + k = 2 * i - 1 => TokenAt(k)' = HdrToken(FrameAt(i)')
             /\ ReadBy(n) + k = 2 * i => TokenAt(k)' = PduToken(FrameAt(i)')
  <2>1. k \in 1..Unread \/ k = Unread + 1
    BY <1>4
  <2>2. CASE k \in 1..Unread
    <3>1. i \in 1..Len(sent) + Len(half)
      BY <1>1
    <3> QED BY <1>6, <1>7, <2>2, <3>1 DEF InStep
  <2>3. CASE k = Unread + 1
    <3>1. ReadBy(n) + k # 2 * i - 1
      BY <1>1, <1>4, <1>5, <2>3
    <3>2. ReadBy(n) + k = 2 * i => i = Len(sent) + 1
      BY <1>1, <1>4, <1>5, <2>3
    <3>3. \A j : j = Len(sent) + 1 => FrameAt(j)' = f
      BY <1>1, <1>3 DEF FrameAt
    <3> QED BY <1>8, <2>3, <3>1, <3>2, <3>3
  <2> QED BY <2>1, <2>2, <2>3
<1>10. ReadBy(n)' + Unread' = 2 * Len(sent') + Len(half')
  <2>1. Len(sent) \in Nat /\ Len(half') = 0 /\ Len(sent') = Len(sent) + 1
    BY <1>1, <1>3
  <2> QED BY <1>4, <1>5, <2>1
<1>11. pc = "pdu" => FrameAt(n + 1)' = FrameAt(n + 1)
  <2>1. pc = "pdu" => n + 1 \in 1..Len(sent) + 1
    BY <1>1, <1>4, <1>5 DEF ReadBy
  <2>2. \A i : i \in 1..Len(sent) + 1 /\ i = n + 1 => FrameAt(n + 1)' = FrameAt(i)'
    BY DEF FrameAt
  <2> QED BY <1>6, <2>1, <2>2
<1>12. n \in 0..Len(sent') /\ \A i \in 1..n : sent'[i] = sent[i]
  BY <1>1, <1>3 DEF InStep
<1>14. pc = "write" => sent'[n] = sent[n]
  BY <1>3, AnsweredFinite DEF InStep
<1>15. \A k \in 1..Unread' : \A i \in 1..Len(sent') + Len(half') :
         /\ ReadBy(n)' + k = 2 * i - 1 => TokenAt(k)' = HdrToken(FrameAt(i)')
         /\ ReadBy(n)' + k = 2 * i => TokenAt(k)' = PduToken(FrameAt(i)')
  BY <1>1, <1>3, <1>4, <1>9
<1>16. \A i \in 1..n : Framed(sent'[i].hdr)
  BY <1>12 DEF InStep
<1>17. pc = "pdu" => Valid(hdr') /\ hdr' = FrameAt(n + 1)'.hdr
  BY <1>1, <1>11 DEF InStep
<1>18. pc = "write" => n \in Answered' /\ out' = ReplyFor(sent[n])
  BY <1>1, <1>3 DEF InStep
<1>19. pc = "write" => ReplyFor(sent[n])' = ReplyFor(sent[n])
  BY <1>1, <1>14 DEF ReplyFor, server
<1>20. /\ pc' = "pdu" => Valid(hdr') /\ hdr' = FrameAt(n + 1)'.hdr
       /\ pc' = "write" => n \in Answered' /\ out' = ReplyFor(sent[n])'
  BY <1>1, <1>17, <1>18, <1>19
<1>21. ReadBy(n)' + Unread' <= 2 * Len(sent') + Len(half')
  <2>1. ReadBy(n)' + Unread' \in Int
    BY <1>4
  <2> QED BY <1>10, <2>1
<1> QED BY <1>10, <1>12, <1>15, <1>16, <1>20, <1>21, Zenon DEF InStep

(* The client is gone: what it sent may be lost, the end of it too.            *)
LEMMA HangUpKeeps ==
  ASSUME TypeOK, NEW n \in Nat, InStep(n), HangUp
  PROVE  InStep(n)'
<1>1. /\ client' = "gone" /\ in' \in {in, <<>>}
      /\ UNCHANGED <<case, sent, half, pc, hdr, out, buf>>
  BY DEF HangUp, serverVars
<1>2. Len(buf) \in Nat /\ Len(in) \in Nat /\ Len(<<>>) = 0
  BY LengthTypes
<1>3. Unread \in Nat /\ Unread' \in Nat /\ Unread' <= Unread
  BY <1>1, <1>2 DEF Unread
<1>4. \A k \in 1..Unread' : k \in 1..Unread /\ TokenAt(k)' = TokenAt(k)
  <2>1. CASE in' = in
    BY <1>1, <2>1 DEF Unread, TokenAt
  <2>2. CASE in' = <<>>
    <3>1. Unread' = Len(buf)
      BY <1>1, <1>2, <2>2 DEF Unread
    <3> QED BY <1>1, <1>2, <1>3, <3>1 DEF TokenAt
  <2> QED BY <1>1, <2>1, <2>2
<1>5. /\ Answered' = Answered /\ \A f : ReplyFor(f)' = ReplyFor(f)
      /\ \A i : FrameAt(i)' = FrameAt(i)
  BY <1>1, SameFrames DEF FrameAt
<1>6. ReadBy(n)' = ReadBy(n) /\ ReadBy(n) \in Nat
  BY <1>1 DEF ReadBy
<1>7. ReadBy(n)' + Unread' <= 2 * Len(sent') + Len(half')
  <2>1. ReadBy(n) + Unread <= 2 * Len(sent) + Len(half) /\ Len(sent) \in Nat /\ Len(half) \in Nat
    BY LengthTypes DEF InStep
  <2> QED BY <1>1, <1>3, <1>6, <2>1
<1>8. \A k \in 1..Unread' : \A i \in 1..Len(sent') + Len(half') :
        /\ ReadBy(n)' + k = 2 * i - 1 => TokenAt(k)' = HdrToken(FrameAt(i)')
        /\ ReadBy(n)' + k = 2 * i => TokenAt(k)' = PduToken(FrameAt(i)')
  <2> SUFFICES ASSUME NEW k \in 1..Unread', NEW i \in 1..Len(sent') + Len(half')
               PROVE  /\ ReadBy(n) + k = 2 * i - 1 => TokenAt(k) = HdrToken(FrameAt(i))
                      /\ ReadBy(n) + k = 2 * i => TokenAt(k) = PduToken(FrameAt(i))
    BY <1>4, <1>5, <1>6
  <2>1. k \in 1..Unread /\ i \in 1..Len(sent) + Len(half)
    BY <1>1, <1>4
  <2> QED BY <2>1 DEF InStep
<1> QED BY <1>1, <1>5, <1>7, <1>8 DEF InStep

(* A Read moves tokens from one buffer to the other.                           *)
LEMMA FillKeeps ==
  ASSUME TypeOK, NEW n \in Nat, InStep(n), FillBuffer
  PROVE  InStep(n)'
<1>1. UNCHANGED <<case, pc, hdr, out, client, half, sent>> /\ buf = <<>>
  BY DEF FillBuffer, clientVars
<1>2. PICK m \in 1..Len(in) : buf' = SubSeq(in, 1, m) /\ in' = SubSeq(in, m + 1, Len(in))
  BY DEF FillBuffer
<1>3. Len(buf) = 0 /\ Len(in) \in Nat
  BY <1>1, LengthTypes
<1>4. /\ Len(buf') = m /\ Len(in') = Len(in) - m
      /\ \A i \in 1..m : buf'[i] = in[i]
      /\ \A i \in 1..Len(in) - m : in'[i] = in[m + i]
  BY <1>2, CutInTwo DEF TypeOK
<1>5. Unread' = Unread /\ Unread = Len(in)
  BY <1>3, <1>4 DEF Unread
<1>6. ASSUME NEW k \in 1..Unread PROVE TokenAt(k)' = TokenAt(k)
  <2>1. TokenAt(k) = in[k]
    BY <1>3 DEF TokenAt
  <2>2. CASE k <= m
    <3>1. k \in 1..m
      BY <2>2
    <3> QED BY <1>4, <2>1, <2>2, <3>1 DEF TokenAt
  <2>3. CASE ~(k <= m)
    <3>1. k - m \in 1..Len(in) - m /\ m + (k - m) = k
      BY <1>3, <1>5, <2>3
    <3> QED BY <1>4, <2>1, <2>3, <3>1 DEF TokenAt
  <2> QED BY <2>2, <2>3
<1>7. /\ Answered' = Answered /\ \A f : ReplyFor(f)' = ReplyFor(f)
      /\ \A i : FrameAt(i)' = FrameAt(i)
      /\ ReadBy(n)' = ReadBy(n)
  BY <1>1, SameFrames DEF FrameAt, ReadBy
<1>8. \A k \in 1..Unread' : \A i \in 1..Len(sent') + Len(half') :
        /\ ReadBy(n)' + k = 2 * i - 1 => TokenAt(k)' = HdrToken(FrameAt(i)')
        /\ ReadBy(n)' + k = 2 * i => TokenAt(k)' = PduToken(FrameAt(i)')
  BY <1>1, <1>5, <1>6, <1>7 DEF InStep
<1> QED BY <1>1, <1>5, <1>7, <1>8 DEF InStep

(* handleConn takes a token: the stream shrinks at its beginning.              *)
LEMMA Takes ==
  ASSUME TypeOK, buf # <<>>, buf' = Tail(buf), in' = in
  PROVE  /\ Unread \in Nat /\ 1 <= Unread /\ Unread' = Unread - 1
         /\ TokenAt(1) = Head(buf)
         /\ \A k \in 1..Unread' : TokenAt(k)' = TokenAt(k + 1)
<1>1. /\ Len(buf) \in Nat /\ Len(in) \in Nat /\ Unread = Len(buf) + Len(in)
      /\ Len(buf') = Len(buf) - 1
      /\ \A i \in 1..Len(buf') : buf'[i] = buf[i + 1]
  BY HeadTailProperties, LengthTypes DEF TypeOK, Unread
<1>2. Len(buf) >= 1
  <2>1. Len(buf') \in Nat
    BY HeadTailProperties, LenProperties DEF TypeOK
  <2> QED BY <1>1, <2>1
<1>3. Unread' = Unread - 1
  BY <1>1 DEF Unread
<1>4. TokenAt(1) = Head(buf)
  BY <1>2 DEF TokenAt
<1>5. ASSUME NEW k \in 1..Unread' PROVE TokenAt(k)' = TokenAt(k + 1)
  <2>1. CASE k <= Len(buf')
    <3>1. k \in 1..Len(buf') /\ k + 1 <= Len(buf)
      BY <1>1, <2>1
    <3> QED BY <1>1, <2>1, <3>1 DEF TokenAt
  <2>2. CASE ~(k <= Len(buf'))
    <3>1. ~(k + 1 <= Len(buf)) /\ k - Len(buf') = k + 1 - Len(buf)
      BY <1>1, <2>2
    <3> QED BY <2>2, <3>1 DEF TokenAt
  <2> QED BY <2>1, <2>2
<1> QED BY <1>1, <1>2, <1>3, <1>4, <1>5

LEMMA ReadHeaderKeeps ==
  ASSUME TypeOK, NEW n \in Nat, InStep(n), ReadHeader, pc' # "ended"
  PROVE  InStep(n)'
<1>1. /\ UNCHANGED <<case, out, in, client, half, sent>> /\ buf # <<>> /\ buf' = Tail(buf)
      /\ pc = "hdr" /\ pc' = "pdu" /\ Valid(hdr') /\ hdr' = Head(buf).frame.hdr
  BY DEF ReadHeader, Return, clientVars
<1>2. /\ Unread \in Nat /\ 1 <= Unread /\ Unread' = Unread - 1
      /\ TokenAt(1) = Head(buf)
      /\ \A k \in 1..Unread' : TokenAt(k)' = TokenAt(k + 1)
  BY <1>1, Takes
<1>3. Len(sent) \in Nat /\ Len(half) \in Nat /\ Len(half) <= 1
  BY LengthTypes
<1>4. ReadBy(n) = 2 * n /\ ReadBy(n)' = 2 * n + 1
  BY <1>1 DEF ReadBy
<1>5. hdr' = FrameAt(n + 1).hdr
  <2>1. 2 * n + Unread <= 2 * Len(sent) + Len(half)
    BY <1>4 DEF InStep
  <2>2. n + 1 \in 1..Len(sent) + Len(half) /\ 1 \in 1..Unread
    BY <1>2, <1>3, <2>1
  <2>3. \A i \in 1..Len(sent) + Len(half) : ReadBy(n) + 1 = 2 * i - 1 => TokenAt(1) = HdrToken(FrameAt(i))
    BY <2>2 DEF InStep
  <2>4. ReadBy(n) + 1 = 2 * (n + 1) - 1
    BY <1>4
  <2>5. Head(buf) = HdrToken(FrameAt(n + 1))
    BY <1>2, <2>2, <2>3, <2>4
  <2> QED BY <1>1, <2>5 DEF HdrToken
<1>6. /\ Answered' = Answered /\ \A i : FrameAt(i)' = FrameAt(i)
  BY <1>1, SameFrames DEF FrameAt
<1>7. \A k \in 1..Unread' : \A i \in 1..Len(sent') + Len(half') :
        /\ ReadBy(n)' + k = 2 * i - 1 => TokenAt(k)' = HdrToken(FrameAt(i)')
        /\ ReadBy(n)' + k = 2 * i => TokenAt(k)' = PduToken(FrameAt(i)')
  <2> SUFFICES ASSUME NEW k \in 1..Unread', NEW i \in 1..Len(sent) + Len(half)
               PROVE  /\ ReadBy(n)' + k = 2 * i - 1 => TokenAt(k + 1) = HdrToken(FrameAt(i))
                      /\ ReadBy(n)' + k = 2 * i => TokenAt(k + 1) = PduToken(FrameAt(i))
    BY <1>1, <1>2, <1>6
  <2>1. k + 1 \in 1..Unread /\ ReadBy(n)' + k = ReadBy(n) + (k + 1)
    BY <1>2, <1>4
  <2> QED BY <2>1 DEF InStep
<1>8. /\ ReadBy(n)' + Unread' <= 2 * Len(sent') + Len(half')
      /\ client' = "open" => ReadBy(n)' + Unread' = 2 * Len(sent') + Len(half')
  <2>1. ReadBy(n)' + Unread' = ReadBy(n) + Unread
    BY <1>2, <1>4
  <2> QED BY <1>1, <2>1 DEF InStep
<1> QED BY <1>1, <1>5, <1>6, <1>7, <1>8 DEF InStep

(* A frame the handler has read always makes a reply.                          *)
LEMMA HandleNotNil ==
  ASSUME NEW handler, NEW h, Valid(h), h.length \in Int, NEW body
  PROVE  Handle(handler, RequestOf(h, body)) # Nil
<1> DEFINE pdu == RequestOf(h, body)
<1>1. pdu.len # 0
  BY DEF RequestOf, PDULen, Valid, MinLengthField
<1> HIDE DEF pdu
<1>2. \/ \E code \in {1, 2, 3} : Handle(handler, pdu) = Exception(pdu.fc, code)
      \/ pdu.qty \in 1..125 /\ Handle(handler, pdu) = ReadReply(pdu)
  BY <1>1 DEF Handle, ReadRegisters, IllegalFunction, IllegalDataAddress, IllegalDataValue,
              MinReadQuantity, MaxReadQuantity
<1>3. \A code : Exception(pdu.fc, code) # Nil
  BY DEF Exception, Nil
<1>4. pdu.qty \in 1..125 => ReadReply(pdu).len # 0
  BY DEF ReadReply
<1> QED BY <1>2, <1>3, <1>4 DEF pdu, Nil

LEMMA ReadPDUKeeps ==
  ASSUME TypeOK, NEW n \in Nat, InStep(n), AllReplied(n), ReadPDU
  PROVE  n + 1 \in Nat /\ InStep(n + 1)' /\ AllReplied(n + 1)'
<1> DEFINE m == n + 1
           reply == Handle(server.handler, RequestOf(hdr, Head(buf).frame.body))
<1>1. /\ UNCHANGED <<case, hdr, in, back, sockOpen, client, half, sent, got>>
      /\ buf # <<>> /\ buf' = Tail(buf) /\ pc = "pdu"
      /\ IF Accepts(server, hdr.unit) /\ reply # Nil
         THEN pc' = "write" /\ out' = ReplyTo(hdr, reply)
         ELSE pc' = "top" /\ out' = out
  BY DEF ReadPDU, clientVars
<1>2. /\ Unread \in Nat /\ 1 <= Unread /\ Unread' = Unread - 1
      /\ TokenAt(1) = Head(buf)
      /\ \A k \in 1..Unread' : TokenAt(k)' = TokenAt(k + 1)
  BY <1>1, Takes
<1>3. Len(sent) \in Nat /\ Len(half) \in Nat /\ Len(half) <= 1
  BY LengthTypes
<1>4. m \in Nat /\ ReadBy(n) = 2 * n + 1 /\ ReadBy(m)' = 2 * m
  BY <1>1 DEF ReadBy
<1>5. m \in 1..Len(sent) /\ FrameAt(m) = sent[m]
  <2>1. 2 * n + 1 + Unread <= 2 * Len(sent) + Len(half)
    BY <1>4 DEF InStep
  <2>2. m \in 1..Len(sent)
    BY <1>2, <1>3, <2>1
  <2> QED BY <2>2 DEF FrameAt
<1>6. Head(buf).frame = sent[m]
  <2>1. 1 \in 1..Unread /\ m \in 1..Len(sent) + Len(half) /\ ReadBy(n) + 1 = 2 * m
    BY <1>2, <1>3, <1>4, <1>5
  <2>2. TokenAt(1) = PduToken(FrameAt(m))
    BY <2>1 DEF InStep
  <2> QED BY <1>2, <1>5, <2>2 DEF PduToken
<1>7. hdr.length \in Int
  <2>1. hdr.length \in Word /\ Word \subseteq Int
    <3>1. Word \subseteq Int
      BY DEF Word
    <3> QED BY <3>1, Zenon DEF TypeOK, Headers
  <2> QED BY <2>1
<1>8. /\ Valid(hdr) /\ hdr = sent[m].hdr /\ \A i \in 1..m : Framed(sent[i].hdr)
      /\ reply # Nil
  <2>1. Valid(hdr) /\ hdr = sent[m].hdr /\ \A i \in 1..n : Framed(sent[i].hdr)
    BY <1>1, <1>5 DEF InStep
  <2>2. \A i \in 1..m : i \in 1..n \/ i = m
    OBVIOUS
  <2>3. Framed(sent[m].hdr)
    BY <1>7, <2>1, ValidIsFramed
  <2>4. reply # Nil
    BY <1>7, <2>1, HandleNotNil
  <2> QED BY <2>1, <2>2, <2>3, <2>4
<1>9. m \in Answered <=> Accepts(server, hdr.unit)
  <2>1. m \in DOMAIN sent
    BY <1>5, LenProperties DEF TypeOK
  <2> QED BY <1>8, <2>1 DEF Answered
<1>10. Accepts(server, hdr.unit) => reply = Handle(server.handler, RequestOf(sent[m].hdr, sent[m].body))
  BY <1>6, <1>8
<1>11. /\ Answered' = Answered /\ \A i : FrameAt(i)' = FrameAt(i)
       /\ \A k : Place(k)' = Place(k)
       /\ \A f : ReplyFor(f)' = ReplyFor(f)
       /\ Replies' = Replies
  BY <1>1, SameFrames DEF FrameAt, Replies
<1>12. \A k \in 1..Unread' : \A i \in 1..Len(sent') + Len(half') :
        /\ ReadBy(m)' + k = 2 * i - 1 => TokenAt(k)' = HdrToken(FrameAt(i)')
        /\ ReadBy(m)' + k = 2 * i => TokenAt(k)' = PduToken(FrameAt(i)')
  <2> SUFFICES ASSUME NEW k \in 1..Unread', NEW i \in 1..Len(sent) + Len(half)
               PROVE  /\ ReadBy(m)' + k = 2 * i - 1 => TokenAt(k + 1) = HdrToken(FrameAt(i))
                      /\ ReadBy(m)' + k = 2 * i => TokenAt(k + 1) = PduToken(FrameAt(i))
    BY <1>1, <1>2, <1>11
  <2>1. k + 1 \in 1..Unread /\ ReadBy(m)' + k = ReadBy(n) + (k + 1)
    BY <1>2, <1>4
  <2> QED BY <2>1 DEF InStep
<1>13. /\ ReadBy(m)' + Unread' <= 2 * Len(sent') + Len(half')
       /\ client' = "open" => ReadBy(m)' + Unread' = 2 * Len(sent') + Len(half')
  <2>1. ReadBy(m)' + Unread' = ReadBy(n) + Unread
    BY <1>2, <1>4
  <2> QED BY <1>1, <2>1 DEF InStep
<1>14. m \in 0..Len(sent') /\ \A i \in 1..m : Framed(sent'[i].hdr)
  BY <1>1, <1>5, <1>8
<1>15. /\ Len(Replies) \in Nat /\ Place(n) \in Nat
       /\ Len(Replies) <= Place(n)
       /\ sockOpen /\ client = "open" => Len(Replies) = Place(n)
  <2>1. InHand = 0
    BY <1>1 DEF InHand
  <2>2. Len(Replies) \in Nat /\ Place(n) \in Nat
    BY RepliesAre, AnsweredFinite
  <2> QED BY <2>1, <2>2 DEF AllReplied
<1>16. CASE Accepts(server, hdr.unit)
  <2>1. m \in Answered /\ pc' = "write" /\ out' = ReplyFor(sent[m])
    BY <1>1, <1>8, <1>9, <1>10, <1>16 DEF ReplyFor
  <2>2. Place(m) = Place(n) + 1 /\ InHand' = 1
    BY <2>1, PlaceNext DEF InHand
  <2>3. out' = ReplyFor(sent[m])'
    BY <1>1, <1>11, <2>1 DEF ReplyFor
  <2>4. InStep(m)'
    BY <1>11, <1>12, <1>13, <1>14, <2>1, <2>3, Zenon DEF InStep
  <2>5. AllReplied(m)'
    BY <1>1, <1>11, <1>15, <2>2 DEF AllReplied
  <2> QED BY <1>4, <2>4, <2>5
<1>17. CASE ~Accepts(server, hdr.unit)
  <2>1. m \notin Answered /\ pc' = "top"
    BY <1>1, <1>9, <1>17
  <2>2. Place(m) = Place(n) /\ InHand' = 0
    BY <2>1, PlaceNext DEF InHand
  <2>3. ~(pc' = "pdu") /\ ~(pc' = "write")
    BY <2>1
  <2>4. InStep(m)'
    BY <1>12, <1>13, <1>14, <2>3, Zenon DEF InStep
  <2>5. AllReplied(m)'
    BY <1>1, <1>11, <1>15, <2>2 DEF AllReplied
  <2> QED BY <1>4, <2>4, <2>5
<1> QED BY <1>16, <1>17

LEMMA WriteReplyKeeps ==
  ASSUME TypeOK, NEW n \in Nat, InStep(n), AllReplied(n), AnswersInOrder, WriteReply
  PROVE  InStep(n)' /\ AllReplied(n)' /\ AnswersInOrder'
<1>1. /\ UNCHANGED <<case, hdr, out, buf, in, sockOpen, client, half, sent, got>>
      /\ pc = "write" /\ pc' = "top" /\ sockOpen
      /\ client = "open" => back' = Append(back, out)
      /\ client # "open" => back' = back
  BY DEF WriteReply, clientVars
<1>2. /\ Answered' = Answered /\ \A i : FrameAt(i)' = FrameAt(i)
      /\ \A k : Place(k)' = Place(k)
      /\ \A f : ReplyFor(f)' = ReplyFor(f)
      /\ Unread' = Unread /\ \A k : TokenAt(k)' = TokenAt(k)
      /\ ReadBy(n)' = ReadBy(n)
  BY <1>1, SameFrames DEF FrameAt, Unread, TokenAt, ReadBy
<1>3. InStep(n)'
  <2>1. ~(pc' = "pdu") /\ ~(pc' = "write")
    BY <1>1
  <2> QED BY <1>1, <1>2, <2>1 DEF InStep
<1>4. /\ n \in Answered /\ out = ReplyFor(sent[n]) /\ InHand = 1 /\ InHand' = 0
      /\ Len(Replies) + 1 <= Place(n) /\ Place(n) \in Nat /\ Len(Replies) \in Nat
      /\ client = "open" => Len(Replies) + 1 = Place(n)
  BY <1>1, RepliesAre, AnsweredFinite DEF InStep, AllReplied, InHand
<1>5. CASE client # "open"
  <2>1. Replies' = Replies /\ client' # "open"
    BY <1>1, <1>5 DEF Replies
  <2>2. AnswersInOrder'
    BY <1>1, <1>2, <2>1 DEF AnswersInOrder
  <2>3. AllReplied(n)'
    BY <1>2, <1>4, <2>1 DEF AllReplied
  <2> QED BY <1>3, <2>2, <2>3
<1>6. CASE client = "open"
  <2>1. /\ Len(Replies') = Len(Replies) + 1 /\ Replies'[Len(Replies) + 1] = out
        /\ \A k \in 1..Len(Replies) : Replies'[k] = Replies[k]
    <3>1. /\ got \in Seq(ReplyRecords) /\ back \in Seq(ReplyRecords) /\ out \in ReplyRecords
          /\ Replies' = got \o Append(back, out)
      BY <1>1, <1>6 DEF TypeOK, Replies
    <3>2. Replies' = Append(Replies, out)
      BY <3>1 DEF Replies
    <3> QED BY <3>1, <3>2, RepliesAre, AppendProperties
  <2>2. Len(Replies') = Place(n)
    BY <1>4, <1>6, <2>1
  <2>3. Place(n) <= Cardinality(Answered)
    <3>1. {i \in Answered : i <= n} \subseteq Answered
      OBVIOUS
    <3> QED BY <3>1, AnsweredFinite, FS_Subset DEF Place
  <2>4. ASSUME NEW i \in Answered, Place(i) <= Len(Replies')
        PROVE  Replies'[Place(i)] = ReplyFor(sent[i])
    <3>1. CASE Place(i) <= Len(Replies)
      <4>1. Place(i) \in 1..Len(Replies)
        BY <1>4, <3>1, PlacePositive
      <4> QED BY <2>1, <3>1, <4>1 DEF AnswersInOrder
    <3>2. CASE ~(Place(i) <= Len(Replies))
      <4>1. Place(i) = Place(n)
        BY <1>4, <1>6, <2>2, <2>4, <3>2, PlacePositive
      <4>2. i = n
        BY <1>4, <4>1, PlaceInjective
      <4> QED BY <1>4, <1>6, <2>1, <4>2
    <3> QED BY <3>1, <3>2
  <2>5. AnswersInOrder'
    BY <1>1, <1>2, <2>2, <2>3, <2>4 DEF AnswersInOrder
  <2>6. AllReplied(n)'
    BY <1>2, <1>4, <2>2 DEF AllReplied
  <2> QED BY <1>3, <2>5, <2>6
<1> QED BY <1>5, <1>6

LEMMA InitConn == Init => ConnInv
<1> SUFFICES ASSUME Init PROVE ConnInv
  OBVIOUS
<1>1. TypeOK
  BY InitTypes
<1>2. /\ pc = "top" /\ sent = <<>> /\ half = <<>> /\ buf = <<>> /\ in = <<>>
      /\ got = <<>> /\ back = <<>>
  BY DEF Init
<1>3. Len(<<>>) = 0 /\ DOMAIN <<>> = {}
  OBVIOUS
<1>4. Answered = {} /\ Unread = 0 /\ ReadBy(0) = 0
  BY <1>2, <1>3 DEF Answered, Unread, ReadBy
<1>5. Replies = <<>>
  BY <1>2 DEF Replies
<1>6. Cardinality(Answered) \in Nat /\ Place(0) = 0
  <2>1. {i \in Answered : i <= 0} = {}
    BY <1>4
  <2> QED BY <1>1, <2>1, AnsweredFinite, FS_EmptySet DEF Place
<1>7. AnswersInOrder
  BY <1>3, <1>4, <1>5, <1>6 DEF AnswersInOrder
<1>8. InStep(0)
  <2>1. ~(pc = "pdu") /\ ~(pc = "write")
    BY <1>2
  <2> QED BY <1>2, <1>3, <1>4, <2>1 DEF InStep
<1>9. AllReplied(0)
  <2>1. InHand = 0
    BY <1>2 DEF InHand
  <2> QED BY <1>3, <1>5, <1>6, <2>1 DEF AllReplied
<1> QED BY <1>1, <1>7, <1>8, <1>9 DEF ConnInv

(* Each step keeps the number of frames read, but for the two that end one.   *)
LEMMA ClientKeeps ==
  ASSUME ConnInv, TypeOK',
         \/ \E f \in habit.frames : SendHeader(f)
         \/ SendPDU \/ ReadReplyFrame \/ LateSend \/ HangUp
  PROVE  ConnInv'
<1>1. TypeOK /\ AnswersInOrder
  BY DEF ConnInv
<1>2. pc' = pc /\ case' = case
  BY DEF SendHeader, SendPDU, ReadReplyFrame, LateSend, HangUp, serverVars
<1>3. InHand' = InHand
  BY <1>2 DEF InHand
<1>4. ASSUME NEW f \in habit.frames, SendHeader(f) PROVE ConnInv'
  <2>1. UNCHANGED <<case, sent, got, back, client, sockOpen>>
    BY <1>4 DEF SendHeader, serverVars
  <2>2. AnswersInOrder'
    BY <1>1, <2>1, FewerReplies
  <2>3. ASSUME NEW n \in Nat, InStep(n), AllReplied(n) PROVE InStep(n)' /\ AllReplied(n)'
    BY <1>1, <1>3, <1>4, <2>1, <2>3, SendHeaderKeeps, RepliedKept
  <2> QED BY <1>2, <2>2, <2>3 DEF ConnInv
<1>5. CASE SendPDU
  <2> DEFINE f == half[1]
  <2>1. UNCHANGED <<case, got, back, client, sockOpen>> /\ sent' = Append(sent, f) /\ f \in habit.frames
    <3>1. half \in Seq(habit.frames) /\ half # <<>>
      BY <1>1, <1>5 DEF SendPDU, TypeOK
    <3> QED BY <1>5, <3>1, HeadTailProperties DEF SendPDU, serverVars
  <2> HIDE DEF f
  <2>2. Replies' = Replies /\ Len(Replies) \in Nat
    BY <1>1, <2>1, RepliesAre DEF Replies
  <2>3. /\ Len(sent) \in Nat /\ \A i \in 1..Len(sent) : sent'[i] = sent[i]
        /\ Answered \subseteq Answered' /\ Answered' \subseteq Answered \cup {Len(sent) + 1}
        /\ \A n \in 0..Len(sent) : Place(n)' = Place(n)
        /\ Cardinality(Answered) <= Cardinality(Answered')
        /\ \A n : n = Len(sent) + 1 /\ n \in Answered' => Place(n)' = Cardinality(Answered) + 1
    BY <1>1, <2>1, Grows
  <2>4. /\ Answered \subseteq 1..Len(sent) /\ Cardinality(Answered) \in Nat
        /\ Cardinality(Answered') \in Nat /\ Len(Replies) <= Cardinality(Answered)
    <3>1. IsFiniteSet(Answered')
      BY <1>1, <2>1, Grows
    <3> QED BY <1>1, <3>1, AnsweredFinite, FS_CardinalityType DEF AnswersInOrder
  <2>5. ASSUME NEW i \in Answered', Place(i)' <= Len(Replies)
        PROVE  Replies[Place(i)'] = ReplyFor(sent'[i])
    <3>1. i # Len(sent) + 1
      BY <2>2, <2>3, <2>4, <2>5
    <3>2. i \in Answered /\ i \in 1..Len(sent)
      BY <2>3, <2>4, <3>1
    <3>3. Place(i)' = Place(i) /\ sent'[i] = sent[i]
      BY <2>3, <3>2
    <3> QED BY <1>1, <2>5, <3>2, <3>3 DEF AnswersInOrder
  <2>6. AnswersInOrder'
    <3>1. Len(Replies') <= Cardinality(Answered')
      BY <2>2, <2>3, <2>4
    <3>2. \A g : ReplyFor(g)' = ReplyFor(g)
      BY <1>2 DEF ReplyFor, server
    <3>3. \A i \in Answered' : ReplyFor(sent[i])' = ReplyFor(sent'[i])
      BY <1>2 DEF ReplyFor, server
    <3> QED BY <2>2, <2>5, <3>1, <3>3, Zenon DEF AnswersInOrder
  <2>7. ASSUME NEW n \in Nat, InStep(n), AllReplied(n) PROVE InStep(n)' /\ AllReplied(n)'
    <3>1. n \in 0..Len(sent)
      BY <2>7 DEF InStep
    <3>2. Place(n)' = Place(n)
      BY <2>3, <3>1
    <3>3. AllReplied(n)'
      BY <1>3, <2>1, <2>2, <2>7, <3>2 DEF AllReplied
    <3> QED BY <1>1, <1>5, <2>7, <3>3, SendPDUKeeps
  <2> QED BY <1>2, <2>6, <2>7 DEF ConnInv
<1>6. CASE ReadReplyFrame
  <2>1. /\ UNCHANGED <<case, sent, half, hdr, out, buf, in>> /\ UNCHANGED <<client, sockOpen>>
        /\ pc' = pc \/ (pc = "top" /\ pc' = "hdr")
        /\ got' = Append(got, Head(back)) /\ back' = Tail(back) /\ back # <<>>
    BY <1>2, <1>6 DEF ReadReplyFrame, serverVars
  <2>2. Replies' = Replies
    <3>1. got \in Seq(ReplyRecords) /\ back \in Seq(ReplyRecords)
      BY <1>1 DEF TypeOK
    <3>2. Head(back) \in ReplyRecords /\ Tail(back) \in Seq(ReplyRecords)
      BY <2>1, <3>1, HeadTailProperties
    <3>3. Append(got, Head(back)) = got \o <<Head(back)>> /\ back = <<Head(back)>> \o Tail(back)
      BY <2>1, <3>1, <3>2, AppendIsConcat, HeadTailAppend
    <3>4. <<Head(back)>> \in Seq(ReplyRecords)
      BY <3>2
    <3> QED BY <2>1, <3>1, <3>2, <3>3, <3>4, ConcatAssociative DEF Replies
  <2>3. AnswersInOrder'
    BY <1>1, <2>1, <2>2, SameFrames DEF AnswersInOrder
  <2>4. ASSUME NEW n \in Nat, InStep(n), AllReplied(n) PROVE InStep(n)' /\ AllReplied(n)'
    <3>1. InStep(n)'
      BY <1>2, <2>1, <2>4, InStepKept
    <3> QED BY <1>3, <2>1, <2>2, <2>4, <3>1, SameFrames DEF AllReplied
  <2> QED BY <1>2, <2>3, <2>4 DEF ConnInv
<1>7. CASE LateSend
  <2>1. /\ UNCHANGED <<case, sent, half, hdr, out, buf, in>> /\ UNCHANGED <<client, sockOpen, got>>
        /\ back' \in {back, <<>>} /\ ~sockOpen
        /\ pc' = pc \/ (pc = "top" /\ pc' = "hdr")
    BY <1>2, <1>7 DEF LateSend, serverVars, clientVars
  <2>2. AnswersInOrder'
    BY <1>1, <2>1, FewerReplies
  <2>3. ASSUME NEW n \in Nat, InStep(n), AllReplied(n) PROVE InStep(n)' /\ AllReplied(n)'
    <3>1. InStep(n)'
      BY <1>2, <2>1, <2>3, InStepKept
    <3>2. AllReplied(n)'
      BY <1>1, <1>3, <2>1, <2>3, RepliedKept
    <3> QED BY <3>1, <3>2
  <2> QED BY <1>2, <2>2, <2>3 DEF ConnInv
<1>8. CASE HangUp
  <2>1. UNCHANGED <<case, sent, got, sockOpen>> /\ back' \in {back, <<>>} /\ client' = "gone"
    BY <1>8 DEF HangUp, serverVars
  <2>2. AnswersInOrder'
    BY <1>1, <2>1, FewerReplies
  <2>3. ASSUME NEW n \in Nat, InStep(n), AllReplied(n) PROVE InStep(n)' /\ AllReplied(n)'
    BY <1>1, <1>3, <1>8, <2>1, <2>3, HangUpKeeps, RepliedKept
  <2> QED BY <1>2, <2>2, <2>3 DEF ConnInv
<1> QED BY <1>4, <1>5, <1>6, <1>7, <1>8

(* A step that ends the connection, or closes its socket, costs replies only.  *)
LEMMA CloseKeepsOrder ==
  ASSUME TypeOK, AnswersInOrder, CloseSocket, UNCHANGED <<case, sent, got>>
  PROVE  AnswersInOrder' /\ back' \in {back, <<>>} /\ sockOpen' = FALSE
<1>1. back' \in {back, <<>>} /\ sockOpen' = FALSE
  BY DEF CloseSocket
<1> QED BY <1>1, FewerReplies

LEMMA HandlerKeeps ==
  ASSUME ConnInv, TypeOK', HandlerStep \/ DeadlinePasses \/ ForceClose \/ Ended \/ UNCHANGED vars
  PROVE  ConnInv'
<1>1. TypeOK /\ AnswersInOrder
  BY DEF ConnInv
<1>2. CASE LoopTop \/ DeadlinePasses
  <2>1. /\ UNCHANGED <<case, sent, half, hdr, out, buf, in>> /\ UNCHANGED <<client, sockOpen, got, back>>
        /\ pc' = pc \/ (pc = "top" /\ pc' = "hdr")
        /\ pc # "ended"
    <3>1. CASE LoopTop BY <3>1 DEF LoopTop, clientVars
    <3>2. CASE DeadlinePasses BY <3>2 DEF DeadlinePasses, clientVars
    <3> QED BY <1>2, <3>1, <3>2
  <2>2. AnswersInOrder'
    BY <1>1, <2>1, FewerReplies
  <2>3. ASSUME NEW n \in Nat, InStep(n), AllReplied(n) PROVE InStep(n)' /\ AllReplied(n)'
    <3>1. InStep(n)'
      BY <2>1, <2>3, InStepKept
    <3>2. InHand' = InHand
      BY <2>1 DEF InHand
    <3>3. AllReplied(n)'
      BY <1>1, <2>1, <2>3, <3>2, RepliedKept
    <3> QED BY <3>1, <3>3
  <2> QED BY <2>1, <2>2, <2>3 DEF ConnInv
<1>3. CASE FillBuffer
  <2>1. UNCHANGED <<case, sent, client, sockOpen, got, back, pc>> /\ pc # "ended"
    BY <1>3 DEF FillBuffer, clientVars
  <2>2. AnswersInOrder'
    BY <1>1, <2>1, FewerReplies
  <2>3. ASSUME NEW n \in Nat, InStep(n), AllReplied(n) PROVE InStep(n)' /\ AllReplied(n)'
    <3>1. InStep(n)'
      BY <1>1, <1>3, <2>3, FillKeeps
    <3>2. InHand' = InHand
      BY <2>1 DEF InHand
    <3>3. AllReplied(n)'
      BY <1>1, <2>1, <2>3, <3>2, RepliedKept
    <3> QED BY <3>1, <3>3
  <2> QED BY <2>1, <2>2, <2>3 DEF ConnInv
<1>4. CASE ReadFails \/ WriteFails
  <2>1. CloseSocket /\ UNCHANGED <<case, sent, got>> /\ pc' = "ended"
    BY <1>4 DEF ReadFails, WriteFails, Return, clientVars
  <2>2. AnswersInOrder'
    BY <1>1, <2>1, CloseKeepsOrder
  <2> QED BY <2>1, <2>2 DEF ConnInv
<1>5. CASE ReadHeader
  <2>1. UNCHANGED <<case, sent, got, client>> /\ pc = "hdr"
    BY <1>5 DEF ReadHeader, clientVars
  <2>2. CASE pc' = "ended"
    <3>1. CloseSocket
      BY <1>5, <2>2 DEF ReadHeader, Return
    <3>2. AnswersInOrder'
      BY <1>1, <2>1, <3>1, CloseKeepsOrder
    <3> QED BY <2>2, <3>2 DEF ConnInv
  <2>3. CASE pc' # "ended"
    <3>1. UNCHANGED <<back, sockOpen>> /\ pc' = "pdu"
      BY <1>5, <2>3 DEF ReadHeader, Return
    <3>2. AnswersInOrder'
      BY <1>1, <2>1, <3>1, FewerReplies
    <3>3. ASSUME NEW n \in Nat, InStep(n), AllReplied(n) PROVE InStep(n)' /\ AllReplied(n)'
      <4>1. InStep(n)'
        BY <1>1, <1>5, <2>3, <3>3, ReadHeaderKeeps
      <4>2. InHand' = InHand
        BY <2>1, <3>1 DEF InHand
      <4>3. AllReplied(n)'
        BY <1>1, <2>1, <3>1, <3>3, <4>2, RepliedKept
      <4> QED BY <4>1, <4>3
    <3> QED BY <2>1, <3>2, <3>3 DEF ConnInv
  <2> QED BY <2>2, <2>3
<1>6. CASE ReadPDU
  <2>1. UNCHANGED <<case, sent, got, back>> /\ pc # "ended"
    BY <1>6 DEF ReadPDU, clientVars
  <2>2. AnswersInOrder'
    BY <1>1, <2>1, FewerReplies
  <2>3. ASSUME NEW n \in Nat, InStep(n), AllReplied(n)
        PROVE  n + 1 \in Nat /\ InStep(n + 1)' /\ AllReplied(n + 1)'
    BY <1>1, <1>6, <2>3, ReadPDUKeeps
  <2>4. PICK n \in Nat : InStep(n) /\ AllReplied(n)
    BY <2>1 DEF ConnInv
  <2>5. \E m \in Nat : InStep(m)' /\ AllReplied(m)'
    BY <2>3, <2>4
  <2> QED BY <2>2, <2>5 DEF ConnInv
<1>7. CASE WriteReply
  <2>1. pc # "ended"
    BY <1>7 DEF WriteReply
  <2>2. PICK n \in Nat : InStep(n) /\ AllReplied(n)
    BY <2>1 DEF ConnInv
  <2>3. InStep(n)' /\ AllReplied(n)' /\ AnswersInOrder'
    BY <1>1, <1>7, <2>2, WriteReplyKeeps
  <2> QED BY <2>3 DEF ConnInv
<1>8. CASE ForceClose
  <2>1. /\ UNCHANGED <<case, sent, half, hdr, out, buf, in>> /\ UNCHANGED <<client, got, pc>>
        /\ CloseSocket /\ UNCHANGED <<case, sent, got>>
        /\ pc' = pc \/ (pc = "top" /\ pc' = "hdr")
    BY <1>8 DEF ForceClose, serverVars, clientVars
  <2>2. AnswersInOrder' /\ back' \in {back, <<>>} /\ sockOpen' = FALSE
    BY <1>1, <2>1, CloseKeepsOrder
  <2>3. ASSUME NEW n \in Nat, InStep(n), AllReplied(n) PROVE InStep(n)' /\ AllReplied(n)'
    <3>1. InStep(n)'
      BY <2>1, <2>3, InStepKept
    <3>2. InHand' = InHand
      BY <2>1 DEF InHand
    <3>3. AllReplied(n)'
      BY <1>1, <2>1, <2>2, <2>3, <3>2, RepliedKept
    <3> QED BY <3>1, <3>3
  <2> QED BY <2>1, <2>2, <2>3 DEF ConnInv
<1>9. CASE Ended \/ UNCHANGED vars
  <2>1. /\ UNCHANGED <<case, sent, half, hdr, out, buf, in>> /\ UNCHANGED <<client, sockOpen, got, back, pc>>
        /\ pc' = pc \/ (pc = "top" /\ pc' = "hdr")
    BY <1>9 DEF Ended, vars, serverVars, clientVars
  <2>2. AnswersInOrder'
    BY <1>1, <2>1, FewerReplies
  <2>3. ASSUME NEW n \in Nat, InStep(n), AllReplied(n) PROVE InStep(n)' /\ AllReplied(n)'
    <3>1. InStep(n)'
      BY <2>1, <2>3, InStepKept
    <3>2. InHand' = InHand
      BY <2>1 DEF InHand
    <3>3. AllReplied(n)'
      BY <1>1, <2>1, <2>3, <3>2, RepliedKept
    <3> QED BY <3>1, <3>3
  <2> QED BY <2>1, <2>2, <2>3 DEF ConnInv
<1> QED BY <1>2, <1>3, <1>4, <1>5, <1>6, <1>7, <1>8, <1>9 DEF HandlerStep

LEMMA NextConn == ConnInv /\ [Next]_vars => ConnInv'
BY NextTypes, ClientKeeps, HandlerKeeps DEF Next, ConnInv

LEMMA ConnInvariant == Spec => []ConnInv
BY InitConn, NextConn, PTL DEF Spec

(* Between two frames no reply is in hand, so the places are all written.     *)
LEMMA ReadingMeansNothingSkipped == ConnInv => NothingSkipped
<1> SUFFICES ASSUME ConnInv, pc \in {"top", "hdr", "pdu"}, sockOpen, client = "open"
             PROVE  Len(Replies) = Place(Taken)
  BY DEF NothingSkipped
<1>1. TypeOK
  BY DEF ConnInv
<1>2. pc # "ended"
  OBVIOUS
<1>3. PICK n \in Nat : InStep(n) /\ AllReplied(n)
  BY <1>2 DEF ConnInv
<1>4. Len(Replies) = Place(n)
  <2>1. InHand = 0
    BY DEF InHand
  <2>2. Len(Replies) \in Nat
    BY <1>1, RepliesAre
  <2> QED BY <1>3, <2>1, <2>2 DEF AllReplied
<1>5. Taken = n
  <2>1. ReadBy(n) = 2 * n + 1 \/ ReadBy(n) = 2 * n
    BY DEF ReadBy
  <2>2. ReadBy(n) + Unread = 2 * Len(sent) + Len(half) /\ Unread = Len(buf) + Len(in)
    BY <1>3 DEF InStep, Unread
  <2>3. Len(sent) \in Nat /\ Len(half) \in Nat /\ Len(buf) \in Nat /\ Len(in) \in Nat
    BY <1>1, LengthTypes
  <2>4. 2 * Len(sent) + Len(half) - Len(buf) - Len(in) = ReadBy(n)
    BY <2>1, <2>2, <2>3
  <2>5. (2 * n + 1) \div 2 = n /\ (2 * n) \div 2 = n
    OBVIOUS
  <2> QED BY <2>1, <2>4, <2>5 DEF Taken
<1> QED BY <1>4, <1>5

(* The reply to the right frame is right by the theorems about the handler.   *)
LEMMA OrderMeansHonest == TypeOK /\ AnswersInOrder => AnswersHonest
<1> SUFFICES ASSUME TypeOK, AnswersInOrder, NEW i \in Answered, Place(i) <= Len(Replies)
             PROVE  LET r == Replies[Place(i)] IN
                    /\ WellFramed(sent[i].hdr, r.pdu) /\ r.hdr.length = r.pdu.len + 1
                    /\ r.hdr.tid = sent[i].hdr.tid
                    /\ Answers(server.handler, RequestOf(sent[i].hdr, sent[i].body), r.pdu)
  BY DEF AnswersHonest
<1> DEFINE h == sent[i].hdr
           pdu == RequestOf(h, sent[i].body)
           reply == Handle(server.handler, pdu)
<1>1. Replies[Place(i)] = ReplyTo(h, reply)
  BY DEF AnswersInOrder, ReplyFor
<1>2. i \in DOMAIN sent /\ Framed(h)
  <2>1. i \in Nat /\ i >= 1
    BY PlacePositive
  <2>2. i \in 1..i
    BY <2>1
  <2> QED BY <2>2 DEF Answered
<1>3. h \in Headers /\ sent[i].body \in Bodies
  <2>1. sent[i] \in habit.frames
    BY <1>2, LenProperties, ElementOfSeq DEF TypeOK
  <2> QED BY <2>1, CaseTypes
<1>4. pdu \in Requests
  <2>1. h.length \in Word /\ Word \subseteq Int
    <3>1. Word \subseteq Int
      BY DEF Word
    <3> QED BY <1>3, <3>1, Zenon DEF Headers
  <2>2. h.length \in Int
    BY <2>1
  <2>3. h.length - 1 \in 1..MaxPDULen
    <3>1. h.length >= 1 + 1 /\ h.length <= 1 + MaxPDULen
      BY <1>2, <2>2, ValidIsFramed DEF Valid, MinLengthField, MaxLengthField
    <3>2. \A n, m \in Int : n >= 1 + 1 /\ n <= 1 + m => n - 1 \in 1..m
      OBVIOUS
    <3>3. MaxPDULen \in Int
      BY DEF MaxPDULen
    <3> QED BY <2>2, <3>1, <3>2, <3>3, Zenon
  <2> QED BY <1>3, <2>3 DEF RequestOf, PDULen, Bodies, Requests
<1>5. WellFramed(h, reply) /\ Answers(server.handler, pdu, reply)
  BY <1>3, <1>4, CaseTypes, RepliesWellFramed, RepliesAnswer
<1>6. ReplyHeader(h, reply).length = reply.len + 1 /\ ReplyHeader(h, reply).tid = h.tid
  <2>1. reply.len \in Int
    <3>1. ReplyTo(h, reply) \in ReplyRecords
      BY <1>3, CaseTypes, ReplyFits
    <3>2. reply.len \in 0..MaxPDULen /\ MaxPDULen \in Int
      BY <3>1 DEF ReplyTo, ReplyRecords, MaxPDULen
    <3> QED BY <3>2
  <2>2. ReplyHeader(h, reply).length = (reply.len + 1) % 65536
    BY DEF ReplyHeader
  <2>3. ReplyHeader(h, reply).length - 1 = reply.len
    BY <1>5 DEF WellFramed, PDULen
  <2>4. (reply.len + 1) % 65536 \in Int
    BY <2>1
  <2>5. ReplyHeader(h, reply).length = reply.len + 1
    BY <2>1, <2>2, <2>3, <2>4
  <2> QED BY <2>5 DEF ReplyHeader
<1> HIDE DEF reply, pdu, h
<1> QED BY <1>1, <1>5, <1>6 DEF ReplyTo, pdu, h

(* Every reply the client has or will read is that of the frame whose turn it *)
(* is, whatever is lost when the connection breaks (conn.go:45-85).           *)
THEOREM AnswersStayInOrder == Spec => []AnswersInOrder
<1>1. ConnInv => AnswersInOrder
  BY DEF ConnInv
<1> QED BY <1>1, ConnInvariant, PTL

(* No frame the loop has taken lacks the reply it is owed while the           *)
(* connection stands (conn.go:34-86).                                         *)
THEOREM NothingIsSkipped == Spec => []NothingSkipped
BY ReadingMeansNothingSkipped, ConnInvariant, PTL

(* Every reply is framed by the protocol's rules, carries the transaction it  *)
(* answers and is normal exactly for a legal read (conn.go:66-77,             *)
(* handler.go:40-76).                                                         *)
THEOREM AnswersStayHonest == Spec => []AnswersHonest
<1>1. ConnInv => AnswersHonest
  BY OrderMeansHonest DEF ConnInv
<1> QED BY <1>1, ConnInvariant, PTL

(* The handler hangs up on a client that is there only for a header that is   *)
(* no frame's, or because its deadline passed (conn.go:38-57, conn.go:82).     *)
THEOREM HangsUpOnlyOnBadHeaders == Spec => HangsUpRightly
<1> DEFINE Standing == pc # "ended" /\ sockOpen /\ client = "open" /\ deadline # "passed"
<1>1. TypeOK /\ TypeOK' /\ [Next]_vars => (Standing /\ pc' = "ended" => ~Framed(hdr'))
  <2> SUFFICES ASSUME TypeOK', [Next]_vars, Standing, pc' = "ended"
               PROVE  ~Framed(hdr')
    OBVIOUS
  <2>1. ReadHeader /\ ~Valid(hdr')
    BY DEF Next, vars, serverVars, clientVars, SendHeader, SendPDU, ReadReplyFrame, LateSend,
           HangUp, HandlerStep, LoopTop, FillBuffer, ReadFails, ReadHeader, ReadPDU, WriteReply,
           WriteFails, DeadlinePasses, ForceClose, Ended
  <2>2. hdr'.length \in Word /\ Word \subseteq Int
    <3>1. Word \subseteq Int
      BY DEF Word
    <3> QED BY <3>1, Zenon DEF TypeOK, Headers
  <2>3. hdr'.length \in Int
    BY <2>2
  <2> QED BY <2>1, <2>3, ValidIsFramed
<1>2. Spec => [][TypeOK /\ TypeOK' /\ [Next]_vars]_vars
  BY ConnTypeCorrect, PTL DEF Spec
<1> QED BY <1>1, <1>2, PTL DEF HangsUpRightly

(* The handler waits for a header, and nothing is on its way to it.           *)
AtRest == pc = "hdr" /\ buf = <<>> /\ in = <<>> /\ sockOpen /\ client = "open"

(* The safe half of EveryRequestAnswered: a connection that stands comes to   *)
(* rest only when every frame that is to be answered has its reply, read or   *)
(* ready to be read (conn.go:34-86).                                          *)
THEOREM RestMeansAnswered == Spec => [](AtRest => Len(Replies) = Cardinality(Answered))
<1>1. ConnInv => (AtRest => Len(Replies) = Cardinality(Answered))
  <2> SUFFICES ASSUME ConnInv, AtRest PROVE Len(Replies) = Cardinality(Answered)
    OBVIOUS
  <2>1. TypeOK /\ Len(Replies) = Place(Taken)
    BY ReadingMeansNothingSkipped DEF ConnInv, NothingSkipped, AtRest
  <2>2. Len(buf) = 0 /\ Len(in) = 0
    BY EmptySeq DEF AtRest
  <2>3. Len(half) \in Nat /\ Len(half) <= 1 /\ Len(sent) \in Nat
    BY <2>1, LengthTypes DEF TypeOK
  <2>4. (2 * Len(sent)) \div 2 = Len(sent) /\ (2 * Len(sent) + 1) \div 2 = Len(sent)
    BY <2>3
  <2>5. Taken = (2 * Len(sent) + Len(half)) \div 2
    BY <2>2, <2>3 DEF Taken
  <2>6. Len(half) = 0 \/ Len(half) = 1
    <3>1. \A k \in Nat : k <= 1 => k = 0 \/ k = 1
      OBVIOUS
    <3> QED BY <2>3, <3>1
  <2>7. Taken = Len(sent)
    BY <2>3, <2>4, <2>5, <2>6
  <2> QED BY <2>1, <2>7, PlaceLast
<1> QED BY <1>1, ConnInvariant, PTL

(* The safe half of HandlerReturns: with an idle timeout every call that may  *)
(* block is made under a deadline (conn.go:35, conn.go:79).                   *)
Timed == server.idle /\ pc \in {"hdr", "pdu", "write"} => deadline \in {"set", "passed"}

THEOREM EveryCallIsTimed == Spec => []Timed
<1>1. Init => Timed
  BY DEF Init, Timed
<1>2. Timed /\ [Next]_vars => Timed'
  <2> SUFFICES ASSUME Timed, [Next]_vars PROVE Timed'
    OBVIOUS
  <2>1. CASE UNCHANGED serverVars
    BY <2>1 DEF Timed, serverVars, server
  <2>2. CASE LoopTop \/ FillBuffer \/ DeadlinePasses
    BY <2>2 DEF Timed, server, LoopTop, FillBuffer, DeadlinePasses
  <2>3. CASE ReadHeader \/ ReadPDU
    BY <2>3 DEF Timed, server, ReadHeader, ReadPDU, Return
  <2>4. CASE ReadFails \/ WriteReply \/ WriteFails
    BY <2>4 DEF Timed, server, ReadFails, WriteReply, WriteFails, Return
  <2>5. CASE (\E f \in habit.frames : SendHeader(f)) \/ SendPDU \/ ReadReplyFrame \/ LateSend \/ HangUp
    BY <2>1, <2>5 DEF SendHeader, SendPDU, ReadReplyFrame, LateSend, HangUp
  <2>6. CASE ForceClose \/ Ended \/ UNCHANGED vars
    BY <2>1, <2>6 DEF ForceClose, Ended, vars, serverVars
  <2> QED BY <2>2, <2>3, <2>4, <2>5, <2>6 DEF Next, HandlerStep
<1> QED BY <1>1, <1>2, PTL DEF Spec
=============================================================================
