----------------------------- MODULE MCConnLoop -----------------------------
(* Small instances of ConnLoop: the servers and clients they put together. *)
EXTENDS ConnLoop

Header(tid, proto, len, unit) == [tid |-> tid, protocol |-> proto, length |-> len, unit |-> unit]
Read(fc, start, qty) == [fc |-> fc, start |-> start, qty |-> qty]

ServerWith(n, fcs, any, idle) ==
  [handler |-> NewHandler(n, fcs), unit |-> 1, any |-> any, idle |-> idle]

\* A legal read, an illegal one, a frame for another unit, a bad header.
PipelineFrames == {
  [hdr |-> Header(1, 0, 6, 1), body |-> Read(3, 0, 2)],
  [hdr |-> Header(2, 0, 6, 1), body |-> Read(3, 9, 2)],
  [hdr |-> Header(3, 0, 6, 2), body |-> Read(3, 0, 1)],
  [hdr |-> Header(4, 7, 6, 1), body |-> Read(3, 0, 1)]}

\* A client that fills both streams before it reads a reply, if it reads any.
Pipelining ==
  [server |-> ServerWith(10, {3}, FALSE, TRUE),
   habit |-> [frames |-> PipelineFrames, max |-> 4, late |-> TRUE, polite |-> FALSE]]

\* A client that reads its replies as they come, and no deadline.
Reading ==
  [server |-> ServerWith(10, {3}, FALSE, FALSE),
   habit |-> [frames |-> PipelineFrames, max |-> 3, late |-> FALSE, polite |-> TRUE]]

\* Single frames at the edges of every field the server looks at.
EdgeFrames ==
  {[hdr |-> Header(65535, proto, len, unit), body |-> Read(3, 0, 1)] :
     proto \in {0, 1}, len \in {0, 1, 2, 6, 254, 255}, unit \in {0, 1, 2, 255}}
  \cup
  {[hdr |-> Header(0, 0, n + 1, 1), body |-> Read(fc, start, qty)] :
     n \in {1, 5, 253}, fc \in {3, 4, 6, 131},
     start \in {0, 875, 65411, 65535}, qty \in {0, 1, 125, 126}}

Edge(n, fcs, any) ==
  [server |-> ServerWith(n, fcs, any, FALSE),
   habit |-> [frames |-> EdgeFrames, max |-> 1, late |-> FALSE, polite |-> FALSE]]

ConnCases ==
  [pipelining |-> Pipelining, reading |-> Reading,
   one |-> Edge(1, {3}, TRUE), some |-> Edge(1000, {3, 4}, FALSE), all |-> Edge(65536, {4}, TRUE)]
=============================================================================
