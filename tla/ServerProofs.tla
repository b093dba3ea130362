---------------------------- MODULE ServerProofs ----------------------------
(***************************************************************************)
(* Theorems about Server, for every set of connections and every limit.    *)
(***************************************************************************)
EXTENDS Server, FiniteSetTheorems, TLAPS

(* At most one connection is in the accept loop's hand, and only while the *)
(* loop is between Accept and its next turn.                               *)
HandInv == /\ serve # "conn" => InHand = {}
           /\ \A c, d \in InHand : c = d

(* A socket is open only in the hand of the loop or of its own handler.    *)
SocketInv == open \subseteq InHand \cup At({"serving"})

(* Whoever finds the listener closed finds closing set: Shutdown runs once, *)
(* only when main calls it, and stores closing before it closes.           *)
ClosingInv == /\ main = "select" => shut = "idle"
              /\ closing = (shut \notin {"idle", "store"})
              /\ lnOpen \/ closing
              /\ serve = "check" => acceptFailed \/ closing
              /\ serve = "err" => acceptFailed

IndInv == TypeOK /\ Accounting /\ HandInv /\ SocketInv /\ ClosingInv

-----------------------------------------------------------------------------
LEMMA AtFinite ==
  ASSUME NEW S
  PROVE  IsFiniteSet(At(S)) /\ Cardinality(At(S)) \in Nat
BY ConnsAssumption, FS_Subset, FS_CardinalityType DEF At

(* How moving one connection changes a set of stages and its size.         *)
LEMMA MoveAt ==
  ASSUME NEW c \in Conns, NEW from, NEW to, NEW S,
         stage \in [Conns -> Stages], Move(c, from, to)
  PROVE  /\ (from \in S) = (to \in S) => At(S)' = At(S)
         /\ from \notin S /\ to \in S =>
              At(S)' = At(S) \cup {c} /\ Cardinality(At(S)') = Cardinality(At(S)) + 1
         /\ from \in S /\ to \notin S =>
              /\ At(S)' = At(S) \ {c} /\ Cardinality(At(S)') = Cardinality(At(S)) - 1
              /\ Cardinality(At(S)) > 0
<1>1. (from \in S) = (to \in S) => At(S)' = At(S)
  BY DEF Move, At
<1>2. ASSUME from \notin S, to \in S
      PROVE  At(S)' = At(S) \cup {c} /\ Cardinality(At(S)') = Cardinality(At(S)) + 1
  <2>1. At(S)' = At(S) \cup {c} /\ c \notin At(S)
    BY <1>2 DEF Move, At
  <2>2. QED
    BY <2>1, AtFinite, FS_AddElement
<1>3. ASSUME from \in S, to \notin S
      PROVE  /\ At(S)' = At(S) \ {c} /\ Cardinality(At(S)') = Cardinality(At(S)) - 1
             /\ Cardinality(At(S)) > 0
  <2>1. At(S)' = At(S) \ {c} /\ c \in At(S)
    BY <1>3 DEF Move, At
  <2>2. Cardinality(At(S)') = Cardinality(At(S)) - 1
    BY <2>1, AtFinite, FS_RemoveElement
  <2>3. Cardinality(At(S)) # 0
    BY <2>1, AtFinite, FS_EmptySet
  <2>4. QED
    BY <2>1, <2>2, <2>3, AtFinite
<1>4. QED
  BY <1>1, <1>2, <1>3

LEMMA InitInd == Init => IndInv
<1> SUFFICES ASSUME Init PROVE IndInv
  OBVIOUS
<1>1. TypeOK /\ ClosingInv
  BY DEF Init, TypeOK, ClosingInv, Stages
<1>2. \A S \in {HandStages, SlotStages, CountStages, TrackStages} : At(S) = {}
  BY DEF Init, At, HandStages, SlotStages, CountStages, TrackStages
<1>3. Cardinality({}) = 0
  BY FS_EmptySet
<1>4. QED
  BY <1>1, <1>2, <1>3, MaxConnsAssumption
  DEF IndInv, Init, Accounting, HandInv, SocketInv, InHand, SlotHolders, Counted, Tracked

(* MoveAt for the three sets the counters count.                           *)
LEMMA MoveCounted ==
  ASSUME NEW c \in Conns, NEW from, NEW to,
         stage \in [Conns -> Stages], Move(c, from, to)
  PROVE  /\ (from \in SlotStages) = (to \in SlotStages) => SlotHolders' = SlotHolders
         /\ from \notin SlotStages /\ to \in SlotStages =>
              Cardinality(SlotHolders') = Cardinality(SlotHolders) + 1
         /\ from \in SlotStages /\ to \notin SlotStages =>
              /\ Cardinality(SlotHolders') = Cardinality(SlotHolders) - 1
              /\ Cardinality(SlotHolders) > 0
         /\ (from \in CountStages) = (to \in CountStages) => Counted' = Counted
         /\ from \notin CountStages /\ to \in CountStages =>
              Cardinality(Counted') = Cardinality(Counted) + 1
         /\ from \in CountStages /\ to \notin CountStages =>
              /\ Cardinality(Counted') = Cardinality(Counted) - 1
              /\ Cardinality(Counted) > 0
         /\ (from \in TrackStages) = (to \in TrackStages) => Tracked' = Tracked
         /\ from \notin TrackStages /\ to \in TrackStages => Tracked' = Tracked \cup {c}
         /\ from \in TrackStages /\ to \notin TrackStages => Tracked' = Tracked \ {c}
<1>1. /\ (from \in SlotStages) = (to \in SlotStages) => SlotHolders' = SlotHolders
      /\ from \notin SlotStages /\ to \in SlotStages =>
           Cardinality(SlotHolders') = Cardinality(SlotHolders) + 1
      /\ from \in SlotStages /\ to \notin SlotStages =>
           /\ Cardinality(SlotHolders') = Cardinality(SlotHolders) - 1
           /\ Cardinality(SlotHolders) > 0
  BY MoveAt DEF SlotHolders
<1>2. /\ (from \in CountStages) = (to \in CountStages) => Counted' = Counted
      /\ from \notin CountStages /\ to \in CountStages =>
           Cardinality(Counted') = Cardinality(Counted) + 1
      /\ from \in CountStages /\ to \notin CountStages =>
           /\ Cardinality(Counted') = Cardinality(Counted) - 1
           /\ Cardinality(Counted) > 0
  BY MoveAt DEF Counted
<1>3. /\ (from \in TrackStages) = (to \in TrackStages) => Tracked' = Tracked
      /\ from \notin TrackStages /\ to \in TrackStages => Tracked' = Tracked \cup {c}
      /\ from \in TrackStages /\ to \notin TrackStages => Tracked' = Tracked \ {c}
  BY MoveAt DEF Tracked
<1>4. QED
  BY <1>1, <1>2, <1>3

(* The steps of one connection keep the three counters right.              *)
LEMMA ConnKeepsAccounting ==
  ASSUME IndInv, NEW c \in Conns,
         \/ Dial(c) \/ HangUp(c) \/ Accept(c) \/ ServeConn(c)
         \/ HandlerReturns(c) \/ HandlerCleanup(c)
  PROVE  Accounting'
<1> USE DEF SlotStages, CountStages, TrackStages
<1>1. /\ stage \in [Conns -> Stages] /\ sem \in Nat /\ wg \in Nat
      /\ sem = Cardinality(SlotHolders) /\ sem <= MaxConns
      /\ wg = Cardinality(Counted) /\ conns = Tracked
  BY DEF IndInv, TypeOK, Accounting
<1>2. SUFFICES /\ sem' = Cardinality(SlotHolders') /\ sem' <= MaxConns
               /\ wg' = Cardinality(Counted') /\ conns' = Tracked'
  BY DEF Accounting
<1>3. CASE Dial(c)
  BY <1>1, <1>3, MoveCounted DEF Dial, serveVars
<1>4. CASE HangUp(c)
  BY <1>1, <1>4 DEF HangUp, serveVars, SlotHolders, Counted, Tracked, At
<1>5. CASE Accept(c)
  BY <1>1, <1>5, MoveCounted DEF Accept
<1>6. CASE TakeSlot(c)
  BY <1>1, <1>6, MoveCounted, MaxConnsAssumption DEF TakeSlot
<1>7. CASE Reject(c)
  <2>1. Move(c, "accepted", "rejected") /\ UNCHANGED <<sem, wg, conns>>
    BY <1>7 DEF Reject
  <2>2. QED
    BY <1>1, <2>1, MoveCounted
<1>8. CASE Track(c)
  BY <1>1, <1>8, MoveCounted DEF Track
<1>9. CASE CountConn(c)
  BY <1>1, <1>9, MoveCounted DEF CountConn
<1>10. CASE Spawn(c)
  BY <1>1, <1>10, MoveCounted DEF Spawn
<1>11. CASE HandlerReturns(c)
  BY <1>1, <1>11, MoveCounted DEF HandlerReturns, serveVars
<1>12. CASE Untrack(c)
  BY <1>1, <1>12, MoveCounted DEF Untrack
<1>13. CASE ReleaseSlot(c)
  BY <1>1, <1>13, MoveCounted, MaxConnsAssumption DEF ReleaseSlot
<1>14. CASE HandlerDone(c)
  BY <1>1, <1>14, MoveCounted DEF HandlerDone
<1>15. QED
  BY <1>3, <1>4, <1>5, <1>6, <1>7, <1>8, <1>9, <1>10, <1>11, <1>12, <1>13, <1>14
  DEF ServeConn, HandlerCleanup

(* The steps that leave every connection where it is.                      *)
LEMMA RestKeepsAccounting ==
  ASSUME Accounting, UNCHANGED <<stage, sem, wg, conns>>
  PROVE  Accounting'
BY DEF Accounting, SlotHolders, Counted, Tracked, At

(* Closing the listener moves connections that hold nothing.               *)
LEMMA CloseListenerKeepsAccounting ==
  ASSUME IndInv, CloseListener
  PROVE  Accounting'
<1>1. /\ stage \in [Conns -> Stages]
      /\ stage' = [c \in Conns |-> IF stage[c] = "backlog" THEN "reset" ELSE stage[c]]
      /\ UNCHANGED <<sem, wg, conns>>
  BY DEF IndInv, TypeOK, CloseListener
<1>2. SlotHolders' = SlotHolders /\ Counted' = Counted /\ Tracked' = Tracked
  BY <1>1 DEF SlotHolders, Counted, Tracked, At, SlotStages, CountStages, TrackStages
<1>3. QED
  BY <1>1, <1>2 DEF IndInv, Accounting

(* The steps of one connection keep the rest of the invariant.             *)
LEMMA ConnKeepsRest ==
  ASSUME IndInv, NEW c \in Conns,
         \/ Dial(c) \/ HangUp(c) \/ Accept(c) \/ ServeConn(c)
         \/ HandlerReturns(c) \/ HandlerCleanup(c)
  PROVE  (TypeOK /\ HandInv /\ SocketInv /\ ClosingInv)'
<1>1. TypeOK'
  <2> USE DEF TypeOK, Stages, Move, connVars, serveVars, shutVars, mainVars
  <2>0. TypeOK /\ (SlotHolders = {} \/ sem > 0) /\ (Counted = {} \/ wg > 0)
    BY AtFinite, FS_EmptySet DEF IndInv, Accounting, SlotHolders, Counted
  <2>1. CASE Dial(c)
    BY <2>0, <2>1 DEF Dial
  <2>2. CASE HangUp(c)
    BY <2>0, <2>2 DEF HangUp
  <2>3. CASE Accept(c)
    BY <2>0, <2>3 DEF Accept
  <2>4. CASE TakeSlot(c)
    BY <2>0, <2>4 DEF TakeSlot
  <2>5. CASE Reject(c)
    BY <2>0, <2>5 DEF Reject
  <2>6. CASE Track(c)
    BY <2>0, <2>6 DEF Track
  <2>7. CASE CountConn(c)
    BY <2>0, <2>7 DEF CountConn
  <2>8. CASE Spawn(c)
    BY <2>0, <2>8 DEF Spawn
  <2>9. CASE HandlerReturns(c)
    BY <2>0, <2>9 DEF HandlerReturns
  <2>10. CASE Untrack(c)
    BY <2>0, <2>10 DEF Untrack
  <2>11. CASE ReleaseSlot(c)
    <3>1. c \in SlotHolders
      BY <2>11 DEF ReleaseSlot, SlotHolders, At, SlotStages
    <3>2. sem' \in Nat
      BY <2>0, <2>11, <3>1 DEF ReleaseSlot
    <3>3. QED
      BY <2>0, <2>11, <3>2 DEF ReleaseSlot
  <2>12. CASE HandlerDone(c)
    <3>1. c \in Counted
      BY <2>12 DEF HandlerDone, Counted, At, CountStages
    <3>2. wg' \in Nat
      BY <2>0, <2>12, <3>1 DEF HandlerDone
    <3>3. QED
      BY <2>0, <2>12, <3>2 DEF HandlerDone
  <2>13. QED
    BY <2>1, <2>2, <2>3, <2>4, <2>5, <2>6, <2>7, <2>8, <2>9, <2>10, <2>11, <2>12
    DEF ServeConn, HandlerCleanup
<1>2. HandInv' /\ SocketInv' /\ ClosingInv'
  <2> USE DEF HandInv, SocketInv, ClosingInv, InHand, SlotHolders, At, HandStages,
      SlotStages, Move, connVars, serveVars, shutVars, mainVars
  <2>0. stage \in [Conns -> Stages] /\ HandInv /\ SocketInv /\ ClosingInv
    BY DEF IndInv, TypeOK
  <2>1. CASE Dial(c)
    BY <2>0, <2>1 DEF Dial
  <2>2. CASE HangUp(c)
    BY <2>0, <2>2 DEF HangUp
  <2>3. CASE Accept(c)
    BY <2>0, <2>3 DEF Accept
  <2>4. CASE TakeSlot(c)
    BY <2>0, <2>4 DEF TakeSlot
  <2>5. CASE Reject(c)
    BY <2>0, <2>5 DEF Reject
  <2>6. CASE Track(c)
    BY <2>0, <2>6 DEF Track
  <2>7. CASE CountConn(c)
    BY <2>0, <2>7 DEF CountConn
  <2>8. CASE Spawn(c)
    BY <2>0, <2>8 DEF Spawn
  <2>9. CASE HandlerReturns(c)
    BY <2>0, <2>9 DEF HandlerReturns
  <2>10. CASE Untrack(c)
    BY <2>0, <2>10 DEF Untrack
  <2>11. CASE ReleaseSlot(c)
    BY <2>0, <2>11 DEF ReleaseSlot
  <2>12. CASE HandlerDone(c)
    BY <2>0, <2>12 DEF HandlerDone
  <2>13. QED
    BY <2>1, <2>2, <2>3, <2>4, <2>5, <2>6, <2>7, <2>8, <2>9, <2>10, <2>11, <2>12
    DEF ServeConn, HandlerCleanup
<1>3. QED
  BY <1>1, <1>2

(* The steps that move no connection: Serve's own, Shutdown's, the waiter's,*)
(* the timer's and main's.                                                 *)
LEMMA ProcessKeepsRest ==
  ASSUME IndInv,
         \/ Signal \/ AcceptClosed \/ AcceptFails \/ CheckClosing \/ StoreClosing
         \/ Drained \/ GiveUpWaiting \/ CloseAll \/ DrainedLate
         \/ WaiterStarts \/ WaiterWakes \/ GraceFires
         \/ ServeEnded \/ SignalReceived \/ ShutdownReturned
  PROVE  (TypeOK /\ HandInv /\ SocketInv /\ ClosingInv)' /\ UNCHANGED <<stage, sem, wg, conns>>
<1> USE DEF TypeOK, HandInv, SocketInv, ClosingInv, InHand, At,
    connVars, serveVars, shutVars, mainVars
<1>0. TypeOK /\ HandInv /\ SocketInv /\ ClosingInv
  BY DEF IndInv
<1>1. CASE Signal
  BY <1>0, <1>1 DEF Signal
<1>2. CASE AcceptClosed
  BY <1>0, <1>2 DEF AcceptClosed
<1>3. CASE AcceptFails
  BY <1>0, <1>3 DEF AcceptFails
<1>4. CASE CheckClosing
  BY <1>0, <1>4 DEF CheckClosing
<1>5. CASE StoreClosing
  BY <1>0, <1>5 DEF StoreClosing
<1>6. CASE Drained
  BY <1>0, <1>6 DEF Drained
<1>7. CASE GiveUpWaiting
  BY <1>0, <1>7 DEF GiveUpWaiting
<1>8. CASE CloseAll
  BY <1>0, <1>8 DEF CloseAll
<1>9. CASE DrainedLate
  BY <1>0, <1>9 DEF DrainedLate
<1>10. CASE WaiterStarts
  BY <1>0, <1>10 DEF WaiterStarts
<1>11. CASE WaiterWakes
  BY <1>0, <1>11 DEF WaiterWakes
<1>12. CASE GraceFires
  BY <1>0, <1>12 DEF GraceFires
<1>13. CASE ServeEnded
  BY <1>0, <1>13 DEF ServeEnded
<1>14. CASE SignalReceived
  BY <1>0, <1>14 DEF SignalReceived
<1>15. CASE ShutdownReturned
  BY <1>0, <1>15 DEF ShutdownReturned
<1>16. QED
  BY <1>1, <1>2, <1>3, <1>4, <1>5, <1>6, <1>7, <1>8, <1>9, <1>10, <1>11, <1>12, <1>13, <1>14, <1>15

LEMMA NextInd ==
  ASSUME IndInv, [Next]_vars
  PROVE  IndInv'
<1> USE DEF connVars, serveVars, shutVars, mainVars
<1>1. CASE UNCHANGED vars
  <2>1. (TypeOK /\ HandInv /\ SocketInv /\ ClosingInv)'
    BY <1>1 DEF vars, IndInv, TypeOK, HandInv, SocketInv, ClosingInv, InHand, At
  <2>2. QED
    BY <1>1, <2>1, RestKeepsAccounting DEF vars, IndInv
<1>2. ASSUME NEW c \in Conns,
             \/ Dial(c) \/ HangUp(c) \/ Accept(c) \/ ServeConn(c)
             \/ HandlerReturns(c) \/ HandlerCleanup(c)
      PROVE  IndInv'
  BY <1>2, ConnKeepsAccounting, ConnKeepsRest DEF IndInv
<1>3. CASE CloseListener
  <2>1. TypeOK'
    BY <1>3 DEF CloseListener, IndInv, TypeOK, Stages
  <2>2. (HandInv /\ SocketInv /\ ClosingInv)'
    BY <1>3 DEF CloseListener, IndInv, TypeOK, HandInv, SocketInv, ClosingInv, InHand, At, HandStages
  <2>3. QED
    BY <1>3, <2>1, <2>2, CloseListenerKeepsAccounting DEF IndInv
<1>4. ASSUME \/ Signal \/ AcceptClosed \/ AcceptFails \/ CheckClosing \/ StoreClosing
             \/ Drained \/ GiveUpWaiting \/ CloseAll \/ DrainedLate
             \/ WaiterStep \/ GraceFires \/ MainStep
      PROVE  IndInv'
  <2>1. (TypeOK /\ HandInv /\ SocketInv /\ ClosingInv)' /\ UNCHANGED <<stage, sem, wg, conns>>
    BY <1>4, ProcessKeepsRest DEF WaiterStep, MainStep
  <2>2. QED
    BY <2>1, RestKeepsAccounting DEF IndInv
<1>5. QED
  BY <1>1, <1>2, <1>3, <1>4 DEF Next, ShutdownStep, Exited
-----------------------------------------------------------------------------
(* The invariant everything below rests on.                                *)
THEOREM Invariance == Spec => []IndInv
<1>1. Init => IndInv
  BY InitInd
<1>2. IndInv /\ [Next]_vars => IndInv'
  BY NextInd
<1>3. QED
  BY <1>1, <1>2, PTL DEF Spec

(* Type correctness of the server process.                                 *)
THEOREM TypeCorrect == Spec => []TypeOK
<1>1. IndInv => TypeOK
  BY DEF IndInv
<1>2. QED
  BY <1>1, Invariance, PTL

(* s.sem, s.wg and s.conns count what they are meant to count, and the     *)
(* connection limit of server.go:80 holds, in every interleaving.          *)
THEOREM AccountingHolds == Spec => []Accounting
<1>1. IndInv => Accounting
  BY DEF IndInv
<1>2. QED
  BY <1>1, Invariance, PTL

(* Serve reports an error only for a failure that is not Shutdown's doing. *)
THEOREM CleanServe == Spec => []CleanServeResult
<1>1. IndInv => CleanServeResult
  BY DEF IndInv, ClosingInv, CleanServeResult
<1>2. QED
  BY <1>1, Invariance, PTL

(* The process never holds more than MaxConns + 1 client sockets.          *)
THEOREM SocketsStayBounded == Spec => []SocketsBounded
<1>1. ASSUME IndInv PROVE SocketsBounded
  <2>1. open \subseteq At({"accepted"}) \cup SlotHolders
    BY <1>1 DEF IndInv, SocketInv, InHand, SlotHolders, At, HandStages, SlotStages
  <2>2. At({"accepted"}) \subseteq InHand
    BY DEF At, InHand, HandStages
  <2>3. Cardinality(open) <= Cardinality(SlotHolders) + 1
    <3>1. CASE At({"accepted"}) = {}
      <4>1. open \subseteq SlotHolders
        BY <2>1, <3>1
      <4>2. QED
        BY <4>1, AtFinite, FS_Subset, FS_CardinalityType DEF SlotHolders
    <3>2. ASSUME NEW c \in At({"accepted"}) PROVE Cardinality(open) <= Cardinality(SlotHolders) + 1
      <4>1. At({"accepted"}) = {c}
        BY <1>1, <2>2, <3>2 DEF IndInv, HandInv
      <4>2. c \notin SlotHolders /\ open \subseteq SlotHolders \cup {c}
        BY <2>1, <3>2, <4>1 DEF At, SlotHolders, SlotStages
      <4>3. /\ IsFiniteSet(SlotHolders \cup {c})
            /\ Cardinality(SlotHolders \cup {c}) = Cardinality(SlotHolders) + 1
        BY <4>2, AtFinite, FS_AddElement DEF SlotHolders
      <4>4. QED
        BY <4>2, <4>3, FS_Subset
    <3>3. QED
      BY <3>1, <3>2
  <2>4. QED
    BY <1>1, <2>3, AtFinite, FS_Subset, FS_CardinalityType, MaxConnsAssumption, ConnsAssumption
    DEF IndInv, TypeOK, Accounting, SocketsBounded, SlotHolders
<1>2. QED
  BY <1>1, Invariance, PTL
-----------------------------------------------------------------------------
(* Once the waiter has seen zero, or closeAll has run, the sockets that are *)
(* open are those of one connection; and the listener was closed before.   *)
Ending == waiter = "done" \/ shut \in {"nil", "drain", "err"}
EscapeInv == /\ waiter # "none" => ~lnOpen
             /\ shut \in {"wait", "closeAll", "drain", "nil", "err"} => waiter # "none"
             /\ Ending => \A c, d \in open : c = d

(* No socket is opened after the listener is closed.                       *)
LEMMA ConnKeepsEscape ==
  ASSUME EscapeInv, NEW c \in Conns,
         \/ Dial(c) \/ HangUp(c) \/ Accept(c) \/ ServeConn(c)
         \/ HandlerReturns(c) \/ HandlerCleanup(c)
  PROVE  EscapeInv'
<1> USE DEF EscapeInv, Ending, serveVars, shutVars, mainVars
<1>1. CASE Accept(c)
  BY <1>1 DEF Accept
<1>2. CASE HandlerDone(c)
  BY <1>2 DEF HandlerDone
<1>3. CASE \/ Dial(c) \/ HangUp(c) \/ HandlerReturns(c) \/ Untrack(c) \/ ReleaseSlot(c)
           \/ TakeSlot(c) \/ Reject(c) \/ Track(c) \/ CountConn(c) \/ Spawn(c)
  <2>1. open' \subseteq open /\ UNCHANGED <<lnOpen, waiter, shut>>
    BY <1>3 DEF Dial, HangUp, HandlerReturns, Untrack, ReleaseSlot, TakeSlot, Reject, Track,
                CountConn, Spawn
  <2>2. QED
    BY <2>1
<1>4. QED
  BY <1>1, <1>2, <1>3 DEF ServeConn, HandlerCleanup

(* What is left when nobody is counted, or when the tracked sockets have    *)
(* been closed, is in the accept loop's hand.                              *)
LEMMA OnlyTheHand ==
  ASSUME IndInv
  PROVE  /\ wg = 0 => open \subseteq InHand
         /\ open \ conns \subseteq InHand
<1>1. /\ open \subseteq InHand \cup At({"serving"})
      /\ wg = Cardinality(Counted) /\ conns = Tracked
  BY DEF IndInv, SocketInv, Accounting
<1>2. At({"serving"}) \subseteq Counted /\ At({"serving"}) \subseteq Tracked
  BY DEF At, Counted, Tracked, CountStages, TrackStages
<1>3. wg = 0 => Counted = {}
  BY <1>1, AtFinite, FS_EmptySet DEF Counted
<1>4. QED
  BY <1>1, <1>2, <1>3

LEMMA ProcessKeepsEscape ==
  ASSUME IndInv, EscapeInv,
         \/ Signal \/ AcceptClosed \/ AcceptFails \/ CheckClosing \/ ShutdownStep
         \/ WaiterStep \/ GraceFires \/ MainStep
  PROVE  EscapeInv'
<1> USE DEF EscapeInv, Ending, connVars, serveVars, shutVars, mainVars
<1>0. \A c, d \in InHand : c = d
  BY DEF IndInv, HandInv
<1>1. CASE CloseListener
  BY <1>1 DEF CloseListener, IndInv, TypeOK
<1>2. CASE WaiterStarts
  BY <1>0, <1>2, OnlyTheHand DEF WaiterStarts
<1>3. CASE WaiterWakes
  BY <1>0, <1>3, OnlyTheHand DEF WaiterWakes
<1>4. CASE CloseAll
  BY <1>0, <1>4, OnlyTheHand DEF CloseAll
<1>5. CASE Drained \/ DrainedLate
  BY <1>5 DEF Drained, DrainedLate
<1>6. CASE StoreClosing \/ GiveUpWaiting
  BY <1>6 DEF StoreClosing, GiveUpWaiting
<1>7. CASE Signal \/ AcceptClosed \/ AcceptFails \/ CheckClosing \/ GraceFires
  BY <1>7 DEF Signal, AcceptClosed, AcceptFails, CheckClosing, GraceFires
<1>8. CASE MainStep
  BY <1>8 DEF MainStep, ServeEnded, SignalReceived, ShutdownReturned, IndInv, ClosingInv
<1>9. QED
  BY <1>1, <1>2, <1>3, <1>4, <1>5, <1>6, <1>7, <1>8 DEF ShutdownStep, WaiterStep

(* At most one connection outlives Shutdown's wait or its closeAll, however *)
(* many were being served: the one the accept loop had in hand.            *)
THEOREM OneEscapes == Spec => []AtMostOneEscapes
<1>1. Init => EscapeInv
  BY DEF Init, EscapeInv, Ending
<1>2. IndInv /\ EscapeInv /\ [Next]_vars => EscapeInv'
  <2> SUFFICES ASSUME IndInv, EscapeInv, [Next]_vars PROVE EscapeInv'
    OBVIOUS
  <2>1. CASE UNCHANGED vars
    BY <2>1 DEF vars, connVars, serveVars, shutVars, EscapeInv, Ending
  <2>2. ASSUME NEW c \in Conns,
               \/ Dial(c) \/ HangUp(c) \/ Accept(c) \/ ServeConn(c)
               \/ HandlerReturns(c) \/ HandlerCleanup(c)
        PROVE  EscapeInv'
    BY <2>2, ConnKeepsEscape
  <2>3. CASE \/ Signal \/ AcceptClosed \/ AcceptFails \/ CheckClosing \/ ShutdownStep
             \/ WaiterStep \/ GraceFires \/ MainStep
    BY <2>3, ProcessKeepsEscape
  <2>4. QED
    BY <2>1, <2>2, <2>3 DEF Next, Exited
<1>3. ASSUME IndInv, EscapeInv PROVE AtMostOneEscapes
  <2> DEFINE Live == {c \in InHand \cup At({"serving"}) : c \in open}
  <2> SUFFICES ASSUME shut \in {"nil", "drain", "err"} PROVE Cardinality(Live) <= 1
    BY DEF AtMostOneEscapes
  <2>1. \A c, d \in Live : c = d
    BY <1>3 DEF EscapeInv, Ending
  <2>2. CASE Live = {}
    BY <2>2, FS_EmptySet
  <2>3. ASSUME NEW c \in Live PROVE Cardinality(Live) <= 1
    <3>1. Live = {c}
      BY <2>1, <2>3
    <3>2. Cardinality({c}) = 1
      BY FS_Singleton
    <3>3. QED
      BY <3>1, <3>2
  <2>4. QED
    BY <2>2, <2>3
<1>4. QED
  BY <1>1, <1>2, <1>3, Invariance, PTL DEF Spec
-----------------------------------------------------------------------------
LEMMA PlaceMoves ==
  ASSUME NEW c \in Conns, NEW from, NEW to,
         stage \in [Conns -> Stages], Move(c, from, to)
  PROVE  /\ Place[c] = PlaceOf(from)
         /\ Place' = [Place EXCEPT ![c] = PlaceOf(to)]
<1>1. Place[c] = PlaceOf(from)
  BY DEF Place, Move
<1>2. \A d \in Conns : stage'[d] = IF d = c THEN to ELSE stage[d]
  BY DEF Move
<1>3. Place' = [d \in Conns |-> PlaceOf(stage'[d])]
  BY DEF Place
<1>4. \A d \in Conns : PlaceOf(stage'[d]) = IF d = c THEN PlaceOf(to) ELSE PlaceOf(stage[d])
  BY <1>2
<1>5. QED
  BY <1>1, <1>3, <1>4 DEF Place

LEMMA PlaceOfStages ==
  /\ PlaceOf("away") = "away"
  /\ \A s \in {"backlog", "accepted"} : PlaceOf(s) = "waiting"
  /\ \A s \in SlotStages : PlaceOf(s) = "slot"
  /\ \A s \in {"released", "ended"} : PlaceOf(s) = "gone"
  /\ PlaceOf("rejected") = "refused" /\ PlaceOf("reset") = "reset"
BY DEF PlaceOf, SlotStages

(* ConnLimiter counts with the same Cardinality.                           *)
LEMMA SameCardinality == \A S : Limiter!Cardinality(S) = Cardinality(S)
BY DEF Limiter!Cardinality, Cardinality

LEMMA HoldingIsSlotHolders == Limiter!Holding = SlotHolders
BY DEF Limiter!Holding, SlotHolders, At, Place, PlaceOf, SlotStages

(* A step of one connection is a step of the limiter, or stutters.         *)
LEMMA ConnRefines ==
  ASSUME IndInv, NEW c \in Conns,
         \/ Dial(c) \/ HangUp(c) \/ Accept(c) \/ ServeConn(c)
         \/ HandlerReturns(c) \/ HandlerCleanup(c)
  PROVE  [Limiter!Next]_Place
<1> DEFINE Arrives == Place[c] = "away" /\ Place' = [Place EXCEPT ![c] = "waiting"]
           Stays == Place' = [Place EXCEPT ![c] = Place[c]]
           Leaves == Place[c] = "slot" /\ Place' = [Place EXCEPT ![c] = "gone"]
<1>0. /\ stage \in [Conns -> Stages] /\ sem = Cardinality(Limiter!Holding)
      /\ sem \in Nat /\ sem <= MaxConns
      /\ Place = [d \in Conns |-> Place[d]]
  BY HoldingIsSlotHolders DEF IndInv, TypeOK, Accounting, Place
<1>1. Stays => UNCHANGED Place
  BY <1>0
<1>2. Arrives => Limiter!Arrive(c)
  BY DEF Limiter!Arrive
<1>3. Leaves => Limiter!Leave(c)
  BY DEF Limiter!Leave
<1>4. CASE Dial(c)
  <2>1. Arrives
    BY <1>0, <1>4, PlaceMoves, PlaceOfStages DEF Dial
  <2>2. QED
    BY <2>1, <1>2 DEF Limiter!Next
<1>5. CASE HangUp(c)
  BY <1>5 DEF HangUp, Place
<1>6. CASE Accept(c) \/ Track(c) \/ CountConn(c) \/ Spawn(c) \/ HandlerReturns(c) \/ Untrack(c)
  <2>1. Stays
    BY <1>0, <1>6, PlaceMoves, PlaceOfStages
    DEF Accept, Track, CountConn, Spawn, HandlerReturns, Untrack, SlotStages
  <2>2. QED
    BY <2>1, <1>1
<1>7. CASE TakeSlot(c)
  <2>1. Place[c] = "waiting" /\ Place' = [Place EXCEPT ![c] = "slot"]
    BY <1>0, <1>7, PlaceMoves, PlaceOfStages DEF TakeSlot, SlotStages
  <2>2. Cardinality(Limiter!Holding) < MaxConns
    BY <1>0, <1>7 DEF TakeSlot
  <2>3. Limiter!Admit(c)
    BY <2>1, <2>2, SameCardinality DEF Limiter!Admit
  <2>4. QED
    BY <2>3 DEF Limiter!Next
<1>8. CASE Reject(c)
  <2>1. Place[c] = "waiting" /\ Place' = [Place EXCEPT ![c] = "refused"]
    BY <1>0, <1>8, PlaceMoves, PlaceOfStages DEF Reject, SlotStages
  <2>2. Cardinality(Limiter!Holding) = MaxConns
    BY <1>0, <1>8 DEF Reject
  <2>3. Limiter!TurnAway(c)
    BY <2>1, <2>2, SameCardinality DEF Limiter!TurnAway
  <2>4. QED
    BY <2>3 DEF Limiter!Next
<1>9. CASE ReleaseSlot(c)
  <2>1. Leaves
    BY <1>0, <1>9, PlaceMoves, PlaceOfStages DEF ReleaseSlot, SlotStages
  <2>2. QED
    BY <2>1, <1>3 DEF Limiter!Next
<1>10. CASE HandlerDone(c)
  <2>1. Stays
    BY <1>0, <1>10, PlaceMoves, PlaceOfStages DEF HandlerDone, SlotStages
  <2>2. QED
    BY <2>1, <1>1
<1>11. QED
  BY <1>4, <1>5, <1>6, <1>7, <1>8, <1>9, <1>10 DEF ServeConn, HandlerCleanup

LEMMA CloseListenerRefines ==
  ASSUME IndInv, CloseListener
  PROVE  [Limiter!Next]_Place
<1> DEFINE R == At({"backlog"})
<1>1. /\ stage \in [Conns -> Stages]
      /\ stage' = [c \in Conns |-> IF stage[c] = "backlog" THEN "reset" ELSE stage[c]]
  BY DEF IndInv, TypeOK, CloseListener
<1>2. \A c \in R : Place[c] = "waiting"
  BY PlaceOfStages DEF At, Place
<1>3. Place' = [c \in Conns |-> IF c \in R THEN "reset" ELSE Place[c]]
  <2>1. \A c \in Conns : PlaceOf(stage'[c]) = IF c \in R THEN "reset" ELSE PlaceOf(stage[c])
    BY <1>1, PlaceOfStages DEF At
  <2>2. QED
    BY <2>1 DEF Place
<1>4. Limiter!Reset(R) /\ R \in SUBSET Conns
  BY <1>2, <1>3 DEF Limiter!Reset, At
<1>5. QED
  BY <1>4 DEF Limiter!Next

(* Serve with its channel, WaitGroup and map, through Shutdown and exit,   *)
(* admits connections exactly as ConnLimiter promises: no more than        *)
(* MaxConns at a time, and none refused while a slot is free.              *)
THEOREM ServerRefinesLimiter == Spec => LimiterSpec
<1>1. Init => Limiter!Init
  BY PlaceOfStages DEF Init, Limiter!Init, Place
<1>2. IndInv /\ [Next]_vars => [Limiter!Next]_Place
  <2> SUFFICES ASSUME IndInv, [Next]_vars PROVE [Limiter!Next]_Place
    OBVIOUS
  <2>1. CASE UNCHANGED vars
    BY <2>1 DEF vars, connVars, Place
  <2>2. CASE CloseListener
    BY <2>2, CloseListenerRefines
  <2>3. ASSUME NEW c \in Conns,
               \/ Dial(c) \/ HangUp(c) \/ Accept(c) \/ ServeConn(c)
               \/ HandlerReturns(c) \/ HandlerCleanup(c)
        PROVE  [Limiter!Next]_Place
    BY <2>3, ConnRefines
  <2>4. ASSUME \/ Signal \/ AcceptClosed \/ AcceptFails \/ CheckClosing \/ StoreClosing
               \/ Drained \/ GiveUpWaiting \/ CloseAll \/ DrainedLate
               \/ WaiterStep \/ GraceFires \/ MainStep
        PROVE  [Limiter!Next]_Place
    <3>1. UNCHANGED stage
      BY <2>4, ProcessKeepsRest DEF WaiterStep, MainStep
    <3>2. QED
      BY <3>1 DEF Place
  <2>5. QED
    BY <2>1, <2>2, <2>3, <2>4 DEF Next, ShutdownStep, Exited
<1>3. QED
  BY <1>1, <1>2, Invariance, PTL DEF Spec, LimiterSpec, Limiter!Spec
=============================================================================
