--------------------------- MODULE MCSlaveScript ---------------------------
(* A small instance of SlaveScript: ports 1 to 3, at most two at a time. *)
EXTENDS SlaveScript

\* Ranges of one and two ports; "1-9-2" is taken for "1-2"; a range upside
\* down, one below and one above the ports, one too long, one that is no number.
UpArgs == {<<1>>, <<1, 9, 2>>, <<2, 3>>, <<2, 1>>, <<0, 1>>, <<1, 3>>, <<3, 4>>, <<NaN, 2>>}
=============================================================================
