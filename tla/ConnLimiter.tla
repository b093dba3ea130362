---------------------------- MODULE ConnLimiter ----------------------------
(***************************************************************************)
(* What the accept side of internal/server promises about admission, with  *)
(* no goroutine, channel or WaitGroup in sight: a connection waits, then   *)
(* is either given one of Limit slots or turned away, is turned away only  *)
(* when every slot is taken, and gives its slot back once.                 *)
(***************************************************************************)
EXTENDS Naturals, FiniteSets

CONSTANTS Conns,  \* the connections clients may open
          Limit   \* the number of slots

VARIABLE place    \* where each connection is: "away", "waiting" or holding a "slot",
                  \* and how it ended: "gone", "refused" or "reset"

Holding == {c \in Conns : place[c] = "slot"}

Init == place = [c \in Conns |-> "away"]

Arrive(c) == /\ place[c] = "away"
             /\ place' = [place EXCEPT ![c] = "waiting"]

Admit(c) == /\ place[c] = "waiting"
            /\ Cardinality(Holding) < Limit
            /\ place' = [place EXCEPT ![c] = "slot"]

TurnAway(c) == /\ place[c] = "waiting"
               /\ Cardinality(Holding) = Limit
               /\ place' = [place EXCEPT ![c] = "refused"]

Leave(c) == /\ place[c] = "slot"
            /\ place' = [place EXCEPT ![c] = "gone"]

\* The listener closes: some of the waiting connections are reset.
Reset(R) == /\ \A c \in R : place[c] = "waiting"
            /\ place' = [c \in Conns |-> IF c \in R THEN "reset" ELSE place[c]]

Next == \/ \E c \in Conns : Arrive(c) \/ Admit(c) \/ TurnAway(c) \/ Leave(c)
        \/ \E R \in SUBSET Conns : Reset(R)

Spec == Init /\ [][Next]_place

\* No more than Limit connections hold a slot.
WithinLimit == Cardinality(Holding) <= Limit
=============================================================================
