-------------------------- MODULE PyBindingsProofs --------------------------
(***************************************************************************)
(* What holds of PyBindings for any number of threads, any messages and    *)
(* any exceptions.                                                         *)
(***************************************************************************)
EXTENDS PyBindings, TLAPS

\* A call that is about to release the lock holds it: nobody changes the structure then.
HeldInv ==
  \A t \in Thread : thr[t].at \in {"unlock", "established"} => mutex = t

\* The room getMessage has found out about is that of the message that is pending, from
\* the moment it has read the length, and there is a message.
RoomInv ==
  /\ \A t \in Thread :
       thr[t].at \in {"unlock", "established"} /\ Copies(t) => announced[t] = dc.pending
  /\ \A t \in Thread :
       thr[t].fn = "copyMessage" /\ thr[t].at = "lock" /\ t \notin outdated
         => announced[t] = dc.pending /\ announced[t] # NoMsg

\* The receive thread is only ever in processData.
ReceiverInv ==
  /\ thr[Receiver].fn \in {"none", "processData"}
  /\ thr[Receiver].at \notin Waiting
  /\ \A t \in Caller : thr[t].at \in Waiting => thr[t].fn \in {"connect", "sendMessage"}

PyInv ==
  /\ TypeOK /\ HeldInv /\ RoomInv /\ ReceiverInv
  /\ StateOwned /\ ExceptionsReported

LEMMA InitType == Init => TypeOK
BY BoundAssumption DEF Init, TypeOK, Thread, Call, DeadcomL2, Place, Waiting, Result,
  Outcome, Function, Method, State, LastResponse, NoMsg
LEMMA InitInv == Init => PyInv
<1> SUFFICES ASSUME Init PROVE PyInv OBVIOUS
<1>1. TypeOK BY InitType
<1>2. HeldInv /\ RoomInv /\ ReceiverInv
  BY DEF Init, HeldInv, RoomInv, ReceiverInv, Waiting, Thread, Copies
<1>3. StateOwned /\ ExceptionsReported BY DEF Init, StateOwned, ExceptionsReported
<1> QED BY <1>1, <1>2, <1>3 DEF PyInv
-----------------------------------------------------------------------------
(* Types *)

LEMMA ReturnedType ==
  ASSUME NEW r \in Result, NEW fn, NEW exc \in BOOLEAN
  PROVE  Returned(fn, r, exc) \in Outcome
BY DEF Returned, Outcome, Result

\* Where a thread goes next is a place, whatever the rest of its record.
LEMMA MovedType ==
  ASSUME NEW th \in [Thread -> Call], NEW t \in Thread, NEW at \in Place, NEW r \in Result
  PROVE  /\ [th EXCEPT ![t].at = at] \in [Thread -> Call]
         /\ [th EXCEPT ![t].at = at, ![t].res = r] \in [Thread -> Call]
BY DEF Call

LEMMA EndType ==
  ASSUME TypeOK, NEW t \in Thread, NEW r \in Result, NEW exc \in BOOLEAN, End(t, r, exc)
  PROVE  thr' \in [Thread -> Call]
<1>1. Returned(thr[t].fn, r, exc) \in Outcome BY ReturnedType
<1> QED BY <1>1 DEF TypeOK, Call, End, Place, Result

LEMMA RaiseType == ASSUME TypeOK, NEW m, NEW ok, Py(m, ok) PROVE raises' \in Nat
BY DEF TypeOK, Py

LEMMA AbortType ==
  ASSUME TypeOK, NEW t \in Thread, Abort(t)
  PROVE  mutex' \in Thread \cup {Nobody} /\ thr' \in [Thread -> Call]
BY EndType DEF Abort, Result
LEMMA UnlockingType ==
  ASSUME TypeOK, NEW t \in Thread, NEW r \in Result, Unlocking(t, r)
  PROVE  mutex' \in Thread \cup {Nobody} /\ thr' \in [Thread -> Call]
BY MovedType DEF Unlocking, Place, TypeOK
LEMMA WaitType ==
  ASSUME TypeOK, NEW t \in Thread, Wait(t)
  PROVE  mutex' \in Thread \cup {Nobody} /\ thr' \in [Thread -> Call]
BY MovedType DEF Wait, Place, Waiting, TypeOK, Call
LEMMA SignalType ==
  ASSUME TypeOK, Signal
  PROVE  /\ mutex' \in Thread \cup {Nobody} /\ thr' \in [Thread -> Call]
         /\ raises' \in Nat
<1>1. Receiver \in Thread /\ Caller \subseteq Thread BY DEF Thread
<1>2. \A th \in Notified : th \in [Thread -> Call]
  <2>1. thr \in [Thread -> Call] /\ "woken" \in Place /\ "DC_OK" \in Result
    BY DEF TypeOK, Place, Waiting, Result
  <2>2. \A t \in Caller : [thr EXCEPT ![t].at = "woken"] \in [Thread -> Call]
    BY <1>1, <2>1, MovedType
  <2>3. \A th \in Notified :
          th = thr \/ \E t \in Caller : th = [thr EXCEPT ![t].at = "woken"]
    BY DEF Notified
  <2> QED BY <2>1, <2>2, <2>3
<1>3. PICK ok \in BOOLEAN : Signal!(ok) BY DEF Signal
<1>4. raises' \in Nat BY <1>3, RaiseType
<1>5. CASE ok
  <2>1. PICK th \in Notified :
          thr' = [th EXCEPT ![Receiver].at = "unlock", ![Receiver].res = "DC_OK"]
    BY <1>3, <1>5
  <2>2. "unlock" \in Place /\ "DC_OK" \in Result BY DEF Place, Result
  <2>3. thr' \in [Thread -> Call] BY <1>1, <1>2, <2>1, <2>2, MovedType
  <2> QED BY <1>1, <1>3, <1>4, <1>5, <2>3
<1>6. CASE ~ok
  BY <1>1, <1>3, <1>4, <1>6, AbortType
<1> QED BY <1>4, <1>5, <1>6

LEMMA AttemptType ==
  ASSUME TypeOK, NEW t \in Thread, NEW d \in DeadcomL2, Attempt(t, d)
  PROVE  /\ mutex' \in Thread \cup {Nobody} /\ thr' \in [Thread -> Call]
         /\ dc' \in DeadcomL2 /\ raises' \in Nat
<1>1. PICK ok \in BOOLEAN : Attempt(t, d)!(ok) BY DEF Attempt
<1>2. raises' \in Nat BY <1>1, RaiseType
<1>3. dc' \in DeadcomL2 BY <1>1 DEF DeadcomL2, State
<1> QED BY <1>1, <1>2, <1>3, WaitType, AbortType
LEMMA ResetType ==
  ASSUME TypeOK, NEW s \in State, NEW r \in LastResponse, Reset(s, r)
  PROVE  /\ dc' \in DeadcomL2
         /\ announced' \in [Thread -> Nat] /\ outdated' \subseteq Thread
         /\ overrun' \subseteq Thread
<1>1. 0 \in 0 .. MaxFailures - 1 BY BoundAssumption
<1> QED BY <1>1 DEF Reset, Outdate, Copying, TypeOK, DeadcomL2, NoMsg, Thread

LEMMA EnterType ==
  ASSUME TypeOK, NEW t \in Thread, NEW fn \in Method, Enter(t, fn)
  PROVE  TypeOK'
<1>1. [fn |-> fn, at |-> "lock", res |-> "DC_OK", exc |-> FALSE, ret |-> "None"] \in Call
  BY DEF Call, Place, Result, Outcome, Function
<1>2. thr' \in [Thread -> Call] BY <1>1 DEF Enter, TypeOK
<1> QED BY <1>2 DEF Enter, TypeOK, room
LEMMA CallType ==
  ASSUME TypeOK, NEW t \in Caller, CallMethod(t) \/ BadMessage(t) \/ Expire(t) \/ WaitRaises(t)
  PROVE  TypeOK'
<1>1. t \in Thread BY DEF Thread
<1>2. CASE CallMethod(t)
  <2>1. Uses[t] \subseteq Method BY BoundAssumption DEF Method
  <2> QED BY <1>1, <1>2, <2>1, EnterType DEF CallMethod
<1>3. CASE BadMessage(t)
  <2>1. PICK e \in Outcome : thr' = [thr EXCEPT ![t] = [@ EXCEPT !.exc = FALSE, !.ret = e]]
    BY <1>3 DEF BadMessage, Outcome
  <2>2. [thr[t] EXCEPT !.exc = FALSE, !.ret = e] \in Call BY <1>1 DEF TypeOK, Call
  <2>3. thr' \in [Thread -> Call] BY <2>1, <2>2 DEF TypeOK
  <2> QED BY <1>3, <2>3 DEF BadMessage, TypeOK, room
<1>4. CASE Expire(t)
  <2>1. "late" \in Place BY DEF Place, Waiting
  <2>2. thr' \in [Thread -> Call] BY <1>1, <1>4, <2>1 DEF Expire, TypeOK, Call
  <2> QED BY <1>4, <2>2 DEF Expire, TypeOK, room
<1>5. CASE WaitRaises(t)
  <2>1. "failed" \in Place BY DEF Place, Waiting
  <2>2. thr' \in [Thread -> Call] BY <1>1, <1>5, <2>1 DEF WaitRaises, TypeOK, Call
  <2> QED BY <1>5, <2>2, RaiseType DEF WaitRaises, TypeOK, room
<1> QED BY <1>2, <1>3, <1>4, <1>5

LEMMA ConnectType ==
  ASSUME TypeOK, NEW t \in Caller,
         ConnectRefused(t) \/ ConnectStart(t) \/ ConnectEnds(t) \/ Disconnect(t)
  PROVE  TypeOK'
<1>1. t \in Thread BY DEF Thread
<1>2. CASE ConnectRefused(t)
  BY <1>1, <1>2, UnlockingType DEF ConnectRefused, Refuse, Result, TypeOK, room
<1>3. CASE ConnectStart(t)
  <2>1. PICK ok \in BOOLEAN :
          /\ Py("transmit", ok)
          /\ dc' = [dc EXCEPT !.state = IF ok THEN "DC_CONNECTING" ELSE Abandoned]
          /\ IF ok THEN Wait(t) ELSE Abort(t)
    BY <1>3 DEF ConnectStart
  <2>2. dc' \in DeadcomL2 BY <2>1 DEF TypeOK, DeadcomL2, State, Abandoned
  <2>3. UNCHANGED <<announced, outdated, overrun, object>> BY <1>3 DEF ConnectStart, room
  <2> QED BY <1>1, <2>1, <2>2, <2>3, RaiseType, WaitType, AbortType DEF TypeOK
<1>4. CASE ConnectEnds(t)
  <2>1. CASE ConnectEnds(t)!1
    <3>1. dc.last_response \in LastResponse BY DEF TypeOK, DeadcomL2
    <3>2. thr' \in [Thread -> Call]
      BY <1>1, <2>1, MovedType DEF TypeOK, Place, Result
    <3> QED BY <1>1, <2>1, <3>1, <3>2, ResetType DEF TypeOK, State
  <2>2. CASE ConnectEnds(t)!2
    <3>1. dc' \in DeadcomL2 BY <2>2 DEF TypeOK, DeadcomL2, State
    <3> QED BY <1>1, <2>2, <3>1, UnlockingType, AbortType DEF TypeOK, Result, room
  <2> QED BY <1>4, <2>1, <2>2 DEF ConnectEnds
<1>5. CASE Disconnect(t)
  <2>1. dc' \in DeadcomL2 BY <1>5 DEF Disconnect, TypeOK, DeadcomL2, State
  <2> QED BY <1>1, <1>5, <2>1, UnlockingType DEF Disconnect, Refuse, Result, TypeOK, room
<1> QED BY <1>2, <1>3, <1>4, <1>5

LEMMA SendType ==
  ASSUME TypeOK, NEW t \in Caller,
         \/ SendRefused(t) \/ SendStart(t) \/ SendAgain(t) \/ SendConfirmed(t)
         \/ SendLinkReset(t) \/ SendWaitFailed(t) \/ Interrupted(t)
  PROVE  TypeOK'
<1>1. t \in Thread BY DEF Thread
<1>2. CASE SendRefused(t)
  BY <1>1, <1>2, UnlockingType DEF SendRefused, Refuse, Result, TypeOK, room
<1>3. CASE SendStart(t)
  <2>1. [dc EXCEPT !.state = "DC_TRANSMITTING", !.failure_count = 0] \in DeadcomL2
    <3>1. 0 \in 0 .. MaxFailures - 1 /\ "DC_TRANSMITTING" \in State
      BY BoundAssumption DEF State
    <3> QED BY <3>1 DEF TypeOK, DeadcomL2
  <2> QED BY <1>1, <1>3, <2>1, AttemptType DEF SendStart, TypeOK, room
<1>4. CASE SendAgain(t)
  <2>1. [dc EXCEPT !.failure_count = FailureCount(t)] \in DeadcomL2
    BY <1>4, BoundAssumption DEF SendAgain, Repeats, FailureCount, TypeOK, DeadcomL2
  <2> QED BY <1>1, <1>4, <2>1, AttemptType DEF SendAgain, TypeOK, room
<1>5. CASE SendConfirmed(t) \/ SendWaitFailed(t)
  <2>1. dc' \in DeadcomL2
    BY <1>5 DEF SendConfirmed, SendWaitFailed, TypeOK, DeadcomL2, State
  <2> QED
    BY <1>1, <1>5, <2>1, UnlockingType, AbortType
    DEF SendConfirmed, SendWaitFailed, Result, TypeOK, room
<1>6. CASE SendLinkReset(t)
  <2>1. dc.last_response \in LastResponse /\ "DC_DISCONNECTED" \in State
    BY DEF TypeOK, DeadcomL2, State
  <2> QED
    BY <1>1, <1>6, <2>1, ResetType, UnlockingType DEF SendLinkReset, Result, TypeOK
<1>7. CASE Interrupted(t)
  <2>1. dc' \in DeadcomL2 BY <1>7 DEF Interrupted, TypeOK, DeadcomL2, State
  <2> QED
    BY <1>1, <1>7, <2>1, EndType, RaiseType DEF Interrupted, Result, TypeOK, room
<1> QED BY <1>2, <1>3, <1>4, <1>5, <1>6, <1>7

LEMMA GetType ==
  ASSUME TypeOK, NEW t \in Caller, GetNothing(t) \/ GetSize(t) \/ CopyMessage(t)
  PROVE  TypeOK'
<1>1. t \in Thread BY DEF Thread
<1>2. dc' \in DeadcomL2 BY DEF GetNothing, GetSize, CopyMessage, TypeOK, DeadcomL2, NoMsg
<1>3. announced' \in [Thread -> Nat] /\ outdated' \subseteq Thread
  BY DEF GetNothing, GetSize, CopyMessage, Copying, TypeOK, DeadcomL2, NoMsg, Thread
<1>4. overrun' \subseteq Thread BY <1>1 DEF GetNothing, GetSize, CopyMessage, TypeOK
<1>5. /\ mutex' \in Thread \cup {Nobody} /\ thr' \in [Thread -> Call] /\ raises' \in Nat
      /\ object' = object
  BY <1>1, UnlockingType, AbortType, RaiseType
  DEF GetNothing, GetSize, CopyMessage, Result, TypeOK
<1> QED BY <1>2, <1>3, <1>4, <1>5 DEF TypeOK

LEMMA ProcessType == ASSUME TypeOK, Process PROVE TypeOK'
<1>1. Receiver \in Thread BY DEF Thread
<1>2. CASE ReceiveNothing \/ ReceiveData \/ ReceiveRepeat
  <2>1. dc' \in DeadcomL2
    BY <1>2, BoundAssumption
    DEF ReceiveNothing, ReceiveData, ReceiveRepeat, TypeOK, DeadcomL2
  <2> QED
    BY <1>1, <1>2, <2>1, UnlockingType, AbortType, RaiseType
    DEF ReceiveNothing, ReceiveData, ReceiveRepeat, Result, TypeOK, room
<1>3. CASE ReceiveAnswer \/ ReceiveConnAck
  <2>1. dc' \in DeadcomL2
    BY <1>3 DEF ReceiveAnswer, ReceiveConnAck, TypeOK, DeadcomL2, LastResponse
  <2> QED
    BY <1>3, <2>1, SignalType DEF ReceiveAnswer, ReceiveConnAck, TypeOK, room
<1>4. CASE ReceiveConn
  <2>1. CASE Py("transmit", FALSE) /\ Abort(Receiver) /\ UNCHANGED <<dc, room>>
    BY <1>1, <1>4, <2>1, AbortType, RaiseType DEF ReceiveConn, TypeOK, room
  <2>2. CASE ~(Py("transmit", FALSE) /\ Abort(Receiver) /\ UNCHANGED <<dc, room>>)
    <3>1. PICK s \in State, r \in LastResponse : Reset(s, r)
      BY <1>4, <2>2 DEF ReceiveConn, State, LastResponse, TypeOK, DeadcomL2
    <3>2. Signal \/ (Unlocking(Receiver, "DC_OK") /\ UNCHANGED raises)
      BY <1>4, <2>2 DEF ReceiveConn
    <3>3. object' = object BY <1>4 DEF ReceiveConn
    <3> QED BY <1>1, <3>1, <3>2, <3>3, ResetType, SignalType, UnlockingType DEF Result, TypeOK
  <2> QED BY <2>1, <2>2
<1> QED BY <1>2, <1>3, <1>4 DEF Process

LEMMA BoundaryType ==
  ASSUME TypeOK, NEW t \in Thread, LockRaises(t) \/ Leave(t) \/ UnlockRaises(t)
  PROVE  TypeOK'
<1>1. CASE LockRaises(t)
  BY <1>1, EndType, RaiseType DEF LockRaises, Result, TypeOK, room
<1>2. CASE Unlock(t)
  <2>1. thr[t].res \in Result BY DEF TypeOK, Call
  <2>2. thr' \in [Thread -> Call]
    <3>1. "copyMessage" \in Function /\ "lock" \in Place BY DEF Function, Place
    <3>2. CASE Copies(t) BY <1>2, <3>1, <3>2 DEF Unlock, TypeOK, Call
    <3>3. CASE ~Copies(t) BY <1>2, <2>1, <3>3, EndType DEF Unlock
    <3> QED BY <3>2, <3>3
  <2> QED BY <1>2, <2>2 DEF Unlock, TypeOK, room
<1>3. CASE UndoConnect(t)
  <2>1. dc' \in DeadcomL2 BY <1>3 DEF UndoConnect, TypeOK, DeadcomL2, State
  <2> QED BY <1>3, <2>1, EndType DEF UndoConnect, Result, TypeOK, room
<1>4. CASE UnlockRaises(t)
  <2>1. thr' \in [Thread -> Call]
    <3>1. "undo" \in Place /\ "DC_FAILURE" \in Result BY DEF Place, Result
    <3>2. thr' = [thr EXCEPT ![t].at = "undo"] \/ End(t, "DC_FAILURE", TRUE)
      BY <1>4 DEF UnlockRaises, UnlockFailed
    <3> QED BY <3>1, <3>2, EndType DEF TypeOK, Call
  <2> QED BY <1>4, <2>1, RaiseType DEF UnlockRaises, TypeOK, room
<1> QED BY <1>1, <1>2, <1>3, <1>4 DEF Leave

LEMMA ObjectType ==
  ASSUME TypeOK, Construct \/ Stop \/ ReceiverEnds \/ Read
  PROVE  TypeOK'
<1>1. CASE Construct BY <1>1, RaiseType DEF Construct, TypeOK, room
<1>2. CASE Stop \/ ReceiverEnds
  BY <1>2 DEF Stop, ReceiverEnds, TypeOK, Call, Place, room
<1>3. CASE Read
  BY <1>3 DEF Read, Enter, TypeOK, Call, Place, Result, Outcome, Function, Method, room
<1> QED BY <1>1, <1>2, <1>3

LEMMA TypeNext == TypeOK /\ [Next]_vars => TypeOK'
<1> SUFFICES ASSUME TypeOK, [Next]_vars PROVE TypeOK' OBVIOUS
<1>1. CASE UNCHANGED vars BY <1>1 DEF vars, room, TypeOK
<1>2. CASE Next
  BY <1>2, CallType, ConnectType, SendType, GetType, ProcessType, BoundaryType, ObjectType
  DEF Next, Acquire
<1> QED BY <1>1, <1>2
-----------------------------------------------------------------------------
(* Locks, room and outcomes *)

\* A step in which thread t, and no other, goes on; a signal may wake one that waits.
OnlyMoves(t) ==
  /\ thr' \in [Thread -> Call]
  /\ \A u \in Thread \ {t} :
       \/ thr'[u] = thr[u]
       \/ /\ thr[u].at = "wait"
          /\ thr'[u] = [thr[u] EXCEPT !.at = "woken"]

LEMMA UnlockingMoves ==
  ASSUME TypeOK, TypeOK', NEW t \in Thread, NEW r \in Result, Unlocking(t, r)
  PROVE  /\ OnlyMoves(t) /\ mutex' = t
         /\ thr'[t] = [thr[t] EXCEPT !.at = "unlock", !.res = r]
BY DEF Unlocking, OnlyMoves, TypeOK
LEMMA EndMoves ==
  ASSUME TypeOK, TypeOK', NEW t \in Thread, NEW r \in Result, NEW exc \in BOOLEAN,
         End(t, r, exc)
  PROVE  /\ OnlyMoves(t)
         /\ thr'[t].fn = "none" /\ thr'[t].exc = exc /\ thr'[t].res = "DC_OK"
         /\ thr'[t].ret = Returned(thr[t].fn, r, exc)
         /\ thr'[t].at = IF t = Receiver /\ r # "DC_OK" THEN "ended" ELSE "outside"
BY DEF End, OnlyMoves, TypeOK
LEMMA AbortMoves ==
  ASSUME TypeOK, TypeOK', NEW t \in Thread, Abort(t)
  PROVE  /\ OnlyMoves(t) /\ mutex' = t
         /\ thr'[t].fn = "none" /\ thr'[t].exc /\ thr'[t].ret = "callback's exception"
         /\ thr'[t].at \in {"outside", "ended"}
BY EndMoves DEF Abort, Result, Returned
LEMMA WaitMoves ==
  ASSUME TypeOK, TypeOK', NEW t \in Thread, Wait(t)
  PROVE  /\ OnlyMoves(t) /\ mutex' = Nobody
         /\ thr'[t] = [thr[t] EXCEPT !.at = "wait"]
BY DEF Wait, OnlyMoves, TypeOK
LEMMA SignalMoves ==
  ASSUME TypeOK, TypeOK', Signal
  PROVE  /\ OnlyMoves(Receiver) /\ mutex' = Receiver
         /\ \/ thr'[Receiver] = [thr[Receiver] EXCEPT !.at = "unlock", !.res = "DC_OK"]
            \/ /\ thr'[Receiver].fn = "none" /\ thr'[Receiver].exc
               /\ thr'[Receiver].ret = "callback's exception"
               /\ thr'[Receiver].at \in {"outside", "ended"}
<1>1. Receiver \in Thread /\ Receiver \notin Caller /\ Caller \subseteq Thread
  BY ThreadAssumption DEF Thread
<1>2. PICK ok \in BOOLEAN : Signal!(ok) BY DEF Signal
<1>3. CASE ok
  <2>1. PICK th \in Notified :
          thr' = [th EXCEPT ![Receiver].at = "unlock", ![Receiver].res = "DC_OK"]
    BY <1>2, <1>3
  <2>2. \/ th = thr
        \/ \E u \in Caller : thr[u].at = "wait" /\ th = [thr EXCEPT ![u].at = "woken"]
    BY DEF Notified
  <2> QED BY <1>1, <1>2, <1>3, <2>1, <2>2 DEF OnlyMoves, TypeOK
<1>4. CASE ~ok BY <1>1, <1>2, <1>4, AbortMoves
<1> QED BY <1>3, <1>4
-----------------------------------------------------------------------------
(* What each step must respect for the invariant to hold after it *)

SafeLock(t) ==
  /\ mutex \in {Nobody, t} \/ mutex' = mutex
  /\ thr'[t].at \in {"unlock", "established"} => mutex' = t
SafePlace(t) ==
  IF t = Receiver
    THEN thr'[t].fn \in {"none", "processData"} /\ thr'[t].at \notin Waiting
    ELSE thr'[t].at \in Waiting => thr'[t].fn \in {"connect", "sendMessage"}
SafeOutcome(t) ==
  thr'[t].at \in {"outside", "ended"} =>
    (thr'[t].exc <=> thr'[t].ret = "callback's exception")
\* A thread that stops waiting leaves neither of the states behind that need it.
SafeState(t) ==
  \/ dc'.state \in {"DC_DISCONNECTED", "DC_CONNECTED"}
  \/ /\ t \in Caller /\ thr'[t].at \in Waiting
     /\ dc'.state = IF thr'[t].fn = "connect" THEN "DC_CONNECTING" ELSE "DC_TRANSMITTING"
  \/ /\ dc'.state = dc.state
     /\ thr[t].at \in Waiting => thr'[t].at \in Waiting /\ thr'[t].fn = thr[t].fn
SafeRoom(t) ==
  /\ \A u \in Thread \ {t} : announced'[u] = announced[u]
  /\ dc'.pending = dc.pending \/ mutex = Nobody
  /\ \A u \in Thread \ {t} :
       thr[u].fn = "copyMessage" /\ thr[u].at = "lock" /\ u \notin outdated'
         => u \notin outdated /\ dc'.pending = dc.pending
  /\ thr'[t].at \in {"unlock", "established"} /\ Copies(t)' => announced'[t] = dc'.pending
  /\ thr'[t].fn = "copyMessage" /\ thr'[t].at = "lock" /\ t \notin outdated'
       => announced'[t] = dc'.pending /\ announced'[t] # NoMsg
Safe(t) ==
  OnlyMoves(t) /\ SafeLock(t) /\ SafePlace(t) /\ SafeOutcome(t) /\ SafeState(t) /\ SafeRoom(t)

LEMMA SafeStep ==
  ASSUME PyInv, TypeOK', NEW t \in Thread, Safe(t)
  PROVE  PyInv'
<1>1. Receiver \in Thread /\ Receiver \notin Caller /\ Caller \subseteq Thread /\ Nobody \notin Thread
  BY ThreadAssumption DEF Thread
<1>0. \A u \in Thread \ {t} :
        \/ thr'[u] = thr[u]
        \/ thr[u].at = "wait" /\ thr'[u].at = "woken" /\ thr'[u].fn = thr[u].fn
  BY DEF PyInv, TypeOK, Call, Safe, OnlyMoves
<1>2. HeldInv'
  <2>1. ASSUME NEW u \in Thread, u # t, thr'[u].at \in {"unlock", "established"}
        PROVE  mutex' = u
    BY <1>0, <1>1, <2>1 DEF PyInv, HeldInv, Safe, SafeLock
  <2> QED BY <2>1 DEF HeldInv, Safe, SafeLock
<1>3. ReceiverInv'
  <2>1. \A u \in Thread \ {t} :
          /\ thr'[u].fn = thr[u].fn
          /\ thr'[u].at \in Waiting <=> thr[u].at \in Waiting
    BY DEF Safe, OnlyMoves, Waiting, PyInv, TypeOK, Call
  <2> QED BY <1>1, <2>1 DEF PyInv, ReceiverInv, Safe, SafePlace
<1>4. ExceptionsReported'
  <2>1. ASSUME NEW u \in Thread, u # t, thr'[u].at \in {"outside", "ended"}
        PROVE  thr'[u].exc <=> thr'[u].ret = "callback's exception"
    <3>1. thr'[u] = thr[u] BY <1>0, <2>1
    <3> QED BY <2>1, <3>1 DEF PyInv, ExceptionsReported
  <2> QED BY <2>1 DEF ExceptionsReported, Safe, SafeOutcome
<1>5. StateOwned'
  <2>1. \A u \in Caller \ {t} : thr[u].at \in Waiting =>
          thr'[u].at \in Waiting /\ thr'[u].fn = thr[u].fn
    BY <1>1 DEF Safe, OnlyMoves, Waiting, PyInv, TypeOK, Call
  <2>2. CASE dc'.state \in {"DC_DISCONNECTED", "DC_CONNECTED"}
    BY <2>2 DEF StateOwned
  <2>3. CASE SafeState(t)!2
    BY <2>3 DEF StateOwned, Attempts, Safe, SafePlace
  <2>4. CASE SafeState(t)!3
    BY <2>1, <2>4 DEF StateOwned, Attempts, PyInv
  <2> QED BY <2>2, <2>3, <2>4 DEF Safe, SafeState
<1>6. RoomInv'
  <2>1. \A u \in Thread \ {t} :
          thr'[u].at \in {"unlock", "established"} /\ Copies(u)' => announced'[u] = dc'.pending
    <3>1. ASSUME NEW u \in Thread, u # t,
                 thr'[u].at \in {"unlock", "established"}, Copies(u)'
          PROVE  announced'[u] = dc'.pending
      <4>1. thr'[u] = thr[u] BY <1>0, <3>1
      <4>2. announced'[u] = announced[u] BY <3>1 DEF Safe, SafeRoom
      <4>3. Copies(u) BY <3>1, <4>1, <4>2 DEF Copies
      <4>4. mutex = u BY <3>1, <4>1 DEF PyInv, HeldInv
      <4>5. dc'.pending = dc.pending BY <1>1, <4>4 DEF Safe, SafeRoom
      <4> QED BY <3>1, <4>1, <4>2, <4>3, <4>5 DEF PyInv, RoomInv
    <3> QED BY <3>1
  <2>2. \A u \in Thread \ {t} :
          thr'[u].fn = "copyMessage" /\ thr'[u].at = "lock" /\ u \notin outdated'
            => announced'[u] = dc'.pending /\ announced'[u] # NoMsg
    <3>1. ASSUME NEW u \in Thread, u # t,
                 thr'[u].fn = "copyMessage", thr'[u].at = "lock", u \notin outdated'
          PROVE  announced'[u] = dc'.pending /\ announced'[u] # NoMsg
      <4>1. thr'[u] = thr[u] BY <1>0, <3>1
      <4> QED BY <3>1, <4>1 DEF PyInv, RoomInv, Safe, SafeRoom
    <3> QED BY <3>1
  <2> QED BY <2>1, <2>2 DEF RoomInv, Safe, SafeRoom
<1> QED BY <1>2, <1>3, <1>4, <1>5, <1>6 DEF PyInv

LEMMA ThreadFacts ==
  /\ Receiver \in Thread /\ Receiver \notin Caller /\ Caller \subseteq Thread
  /\ Nobody \notin Thread
BY ThreadAssumption DEF Thread

\* The ways out of a step, for a structure whose pending message and room are untouched.
Untouched == dc'.pending = dc.pending /\ UNCHANGED room

LEMMA QuietUnlocking ==
  ASSUME PyInv, TypeOK', NEW t \in Thread, NEW r \in Result, Unlocking(t, r),
         mutex = Nobody, Untouched, SafeState(t), thr[t].fn # "getMessage"
  PROVE  Safe(t)
<1>1. /\ OnlyMoves(t) /\ mutex' = t
      /\ thr'[t].at = "unlock" /\ thr'[t].fn = thr[t].fn /\ thr'[t].res = r
  <2>1. TypeOK BY DEF PyInv
  <2>2. thr'[t] = [thr[t] EXCEPT !.at = "unlock", !.res = r] BY <2>1, UnlockingMoves
  <2>3. thr[t] \in Call BY <2>1 DEF TypeOK
  <2> QED BY <2>1, <2>2, <2>3, UnlockingMoves DEF Call
<1>2. SafePlace(t) BY <1>1, ThreadFacts DEF PyInv, ReceiverInv, SafePlace, Waiting
<1>3. SafeRoom(t)
  BY <1>1 DEF SafeRoom, Untouched, room, Copies
<1> QED BY <1>1, <1>2, <1>3 DEF Safe, SafeLock, SafeOutcome
LEMMA QuietAbort ==
  ASSUME PyInv, TypeOK', NEW t \in Thread, Abort(t), mutex = Nobody, Untouched, SafeState(t)
  PROVE  Safe(t)
<1>1. /\ OnlyMoves(t) /\ mutex' = t
      /\ thr'[t].fn = "none" /\ thr'[t].exc /\ thr'[t].ret = "callback's exception"
      /\ thr'[t].at \in {"outside", "ended"}
  BY AbortMoves DEF PyInv
<1>2. SafePlace(t) BY <1>1 DEF SafePlace, Waiting
<1>3. SafeRoom(t) BY <1>1 DEF SafeRoom, Untouched, room, Copies
<1> QED BY <1>1, <1>2, <1>3 DEF Safe, SafeLock, SafeOutcome
LEMMA QuietWait ==
  ASSUME PyInv, TypeOK', NEW t \in Caller, Wait(t), mutex = Nobody, Untouched, SafeState(t),
         thr[t].fn \in {"connect", "sendMessage"}
  PROVE  Safe(t)
<1>1. /\ t \in Thread /\ t # Receiver BY ThreadFacts
<1>2. /\ OnlyMoves(t) /\ mutex' = Nobody
      /\ thr'[t].at = "wait" /\ thr'[t].fn = thr[t].fn
  BY <1>1, WaitMoves DEF PyInv, TypeOK, Call
<1>3. SafePlace(t) BY <1>1, <1>2 DEF SafePlace
<1>4. SafeRoom(t) BY <1>2 DEF SafeRoom, Untouched, room, Copies
<1> QED BY <1>2, <1>3, <1>4 DEF Safe, SafeLock, SafeOutcome

\* A reset makes everybody's room outdated who is about to copy.
LEMMA ResetRoom ==
  ASSUME PyInv, NEW t \in Thread, NEW s \in State, NEW r \in LastResponse,
         Reset(s, r), mutex = Nobody
  PROVE  /\ dc'.state = s /\ dc'.pending = NoMsg /\ announced' = announced
         /\ \A u \in Thread : thr[u].fn = "copyMessage" /\ thr[u].at = "lock" => u \in outdated'
<1>1. \A u \in Thread : thr[u].fn = "copyMessage" => u \in Caller
  BY DEF PyInv, ReceiverInv, Thread
<1> QED BY <1>1 DEF Reset, Outdate, Copying

LEMMA ConnectSafe ==
  ASSUME PyInv, TypeOK', NEW t \in Caller,
         ConnectRefused(t) \/ ConnectStart(t) \/ ConnectEnds(t) \/ Disconnect(t)
  PROVE  Safe(t)
<1>0. t \in Thread /\ t # Receiver /\ TypeOK BY ThreadFacts DEF PyInv
<1>1. CASE ConnectRefused(t)
  <2>1. PICK r \in Result : Unlocking(t, r) BY <1>1 DEF ConnectRefused, Refuse, Result
  <2>2. SafeState(t) BY <1>1, <2>1 DEF ConnectRefused, Holds, SafeState, Waiting
  <2> QED BY <1>0, <1>1, <2>1, <2>2, QuietUnlocking DEF ConnectRefused, Holds, Untouched
<1>2. CASE ConnectStart(t)
  <2>1. PICK ok \in BOOLEAN :
          /\ dc' = [dc EXCEPT !.state = IF ok THEN "DC_CONNECTING" ELSE Abandoned]
          /\ IF ok THEN Wait(t) ELSE Abort(t)
    BY <1>2 DEF ConnectStart
  <2>2. /\ mutex = Nobody /\ thr[t].fn = "connect" /\ Untouched
        /\ dc'.state = IF ok THEN "DC_CONNECTING" ELSE "DC_DISCONNECTED"
    BY <1>0, <1>2, <2>1 DEF ConnectStart, Holds, Untouched, Abandoned, TypeOK, DeadcomL2
  <2>3. CASE ok
    <3>1. thr'[t] = [thr[t] EXCEPT !.at = "wait"] BY <1>0, <2>1, <2>3, WaitMoves
    <3>2. thr'[t].at = "wait" /\ thr'[t].fn = "connect"
      BY <1>0, <2>2, <3>1 DEF TypeOK, Call
    <3>3. SafeState(t) BY <2>2, <2>3, <3>2 DEF SafeState, Waiting
    <3> QED BY <2>1, <2>2, <2>3, <3>3, QuietWait
  <2>4. CASE ~ok
    <3>1. SafeState(t) BY <2>2, <2>4 DEF SafeState
    <3> QED BY <1>0, <2>1, <2>2, <2>4, <3>1, QuietAbort
  <2> QED BY <2>3, <2>4
<1>3. CASE ConnectEnds(t)!1
  <2>1. /\ mutex = Nobody /\ mutex' = t /\ thr[t].fn = "connect"
        /\ Reset("DC_CONNECTED", dc.last_response)
        /\ thr' = [thr EXCEPT ![t].at = "established", ![t].res = "DC_OK"]
    BY <1>3 DEF Resumes
  <2>2. OnlyMoves(t) /\ thr'[t].at = "established" /\ thr'[t].fn = "connect"
    BY <1>0, <2>1 DEF OnlyMoves, TypeOK, Call
  <2>3. dc.last_response \in LastResponse /\ "DC_CONNECTED" \in State
    BY <1>0 DEF TypeOK, DeadcomL2, State
  <2>4. /\ dc'.state = "DC_CONNECTED" /\ announced' = announced
        /\ \A u \in Thread : thr[u].fn = "copyMessage" /\ thr[u].at = "lock" => u \in outdated'
    BY <1>0, <2>1, <2>3, ResetRoom
  <2>5. SafeRoom(t) BY <2>1, <2>2, <2>4 DEF SafeRoom, Copies
  <2> QED
    BY <1>0, <2>1, <2>2, <2>4, <2>5
    DEF Safe, SafeLock, SafePlace, SafeOutcome, SafeState, Waiting
<1>4. CASE ConnectEnds(t)!2
  <2>1. /\ mutex = Nobody /\ thr[t].fn = "connect" /\ Untouched
        /\ dc'.state = "DC_DISCONNECTED"
        /\ Unlocking(t, "DC_NOT_CONNECTED") \/ Abort(t)
    BY <1>0, <1>4 DEF Resumes, Untouched, TypeOK, DeadcomL2
  <2>2. SafeState(t) BY <2>1 DEF SafeState
  <2> QED BY <1>0, <2>1, <2>2, QuietUnlocking, QuietAbort DEF Result
<1>5. CASE Disconnect(t)
  <2>1. /\ mutex = Nobody /\ thr[t].fn = "disconnect" /\ thr[t].at = "lock" /\ Untouched
        /\ dc'.state \in {"DC_DISCONNECTED", dc.state}
    BY <1>0, <1>5 DEF Disconnect, Holds, Untouched, TypeOK, DeadcomL2
  <2>2. SafeState(t) BY <2>1 DEF SafeState, Waiting
  <2>3. PICK r \in Result : Unlocking(t, r) BY <1>5 DEF Disconnect, Refuse, Result
  <2> QED BY <1>0, <2>1, <2>2, <2>3, QuietUnlocking
<1> QED BY <1>1, <1>2, <1>3, <1>4, <1>5 DEF ConnectEnds

\* An attempt of a thread that is in sendMessage, from a structure in which it is allowed.
LEMMA AttemptSafe ==
  ASSUME PyInv, TypeOK', NEW t \in Caller, NEW d \in DeadcomL2, Attempt(t, d),
         mutex = Nobody, thr[t].fn = "sendMessage", d.pending = dc.pending, UNCHANGED room,
         d.state = "DC_TRANSMITTING" \/ (thr[t].at \in Waiting /\ d.state = dc.state)
  PROVE  Safe(t)
<1>0. t \in Thread /\ TypeOK BY ThreadFacts DEF PyInv
<1>1. PICK ok \in BOOLEAN : Attempt(t, d)!(ok) BY DEF Attempt
<1>2. dc'.pending = dc.pending /\ dc'.state = IF ok THEN d.state ELSE "DC_CONNECTED"
  BY <1>1 DEF DeadcomL2
<1>3. Untouched BY <1>2 DEF Untouched
<1>4. CASE ok
  <2>1. thr'[t] = [thr[t] EXCEPT !.at = "wait"] BY <1>0, <1>1, <1>4, WaitMoves
  <2>2. thr'[t].at = "wait" /\ thr'[t].fn = "sendMessage" BY <1>0, <2>1 DEF TypeOK, Call
  <2>3. SafeState(t) BY <1>2, <1>4, <2>2 DEF SafeState, Waiting
  <2> QED BY <1>1, <1>3, <1>4, <2>3, QuietWait
<1>5. CASE ~ok
  <2>1. SafeState(t) BY <1>2, <1>5 DEF SafeState
  <2> QED BY <1>0, <1>1, <1>3, <1>5, <2>1, QuietAbort
<1> QED BY <1>4, <1>5

LEMMA SendSafe ==
  ASSUME PyInv, TypeOK', NEW t \in Caller,
         \/ SendRefused(t) \/ SendStart(t) \/ SendAgain(t) \/ SendConfirmed(t)
         \/ SendLinkReset(t) \/ SendWaitFailed(t)
  PROVE  Safe(t)
<1>0. t \in Thread /\ t # Receiver /\ TypeOK BY ThreadFacts DEF PyInv
<1>1. CASE SendRefused(t)
  <2>1. PICK r \in Result : Unlocking(t, r) BY <1>1 DEF SendRefused, Refuse, Result
  <2>2. SafeState(t) BY <1>1 DEF SendRefused, Holds, SafeState, Waiting
  <2> QED BY <1>0, <1>1, <2>1, <2>2, QuietUnlocking DEF SendRefused, Holds, Untouched
<1>2. CASE SendStart(t)
  <2>1. 0 \in 0 .. MaxFailures - 1 /\ "DC_TRANSMITTING" \in State
    BY BoundAssumption DEF State
  <2>2. PICK d \in DeadcomL2 :
          Attempt(t, d) /\ d.pending = dc.pending /\ d.state = "DC_TRANSMITTING"
    <3>1. PICK d : /\ d = [dc EXCEPT !.state = "DC_TRANSMITTING", !.failure_count = 0]
                   /\ Attempt(t, d)
      BY <1>2 DEF SendStart
    <3>2. d \in DeadcomL2 /\ d.pending = dc.pending /\ d.state = "DC_TRANSMITTING"
      BY <1>0, <2>1, <3>1 DEF TypeOK, DeadcomL2
    <3> QED BY <3>1, <3>2
  <2>3. mutex = Nobody /\ thr[t].fn = "sendMessage" /\ UNCHANGED room
    BY <1>2 DEF SendStart, Holds
  <2>4. d.state = "DC_TRANSMITTING" \/ (thr[t].at \in Waiting /\ d.state = dc.state)
    BY <2>2
  <2> QED BY <2>2, <2>3, <2>4, AttemptSafe
<1>3. CASE SendAgain(t)
  <2> DEFINE d == [dc EXCEPT !.failure_count = FailureCount(t)]
  <2>1. mutex = Nobody /\ thr[t].fn = "sendMessage" /\ thr[t].at \in Waiting
    BY <1>3 DEF SendAgain, Unanswered, Resumes, Waiting
  <2>2. d \in DeadcomL2 /\ d.pending = dc.pending /\ d.state = dc.state
    BY <1>0, <1>3, BoundAssumption DEF SendAgain, Repeats, FailureCount, TypeOK, DeadcomL2
  <2> QED BY <1>3, <2>1, <2>2, AttemptSafe DEF SendAgain
<1>4. CASE SendConfirmed(t) \/ SendWaitFailed(t)
  <2>1. /\ mutex = Nobody /\ thr[t].fn = "sendMessage" /\ Untouched
        /\ dc'.state = "DC_CONNECTED"
        /\ Unlocking(t, "DC_OK") \/ Abort(t)
    BY <1>0, <1>4
    DEF SendConfirmed, SendWaitFailed, Resumes, Untouched, TypeOK, DeadcomL2
  <2>2. SafeState(t) BY <2>1 DEF SafeState
  <2> QED BY <1>0, <2>1, <2>2, QuietUnlocking, QuietAbort DEF Result
<1>5. CASE SendLinkReset(t)
  <2>1. /\ mutex = Nobody /\ thr[t].fn = "sendMessage"
        /\ Reset("DC_DISCONNECTED", dc.last_response) /\ Unlocking(t, "DC_LINK_RESET")
    BY <1>5 DEF SendLinkReset, Unanswered, Resumes
  <2>2. dc.last_response \in LastResponse /\ "DC_DISCONNECTED" \in State
        /\ "DC_LINK_RESET" \in Result
    BY <1>0 DEF TypeOK, DeadcomL2, State, Result
  <2>3. /\ dc'.state = "DC_DISCONNECTED" /\ announced' = announced
        /\ \A u \in Thread : thr[u].fn = "copyMessage" /\ thr[u].at = "lock" => u \in outdated'
    BY <1>0, <2>1, <2>2, ResetRoom
  <2>4. /\ OnlyMoves(t) /\ mutex' = t
        /\ thr'[t] = [thr[t] EXCEPT !.at = "unlock", !.res = "DC_LINK_RESET"]
    BY <1>0, <2>1, <2>2, UnlockingMoves
  <2>5. thr'[t].at = "unlock" /\ thr'[t].fn = "sendMessage"
    BY <1>0, <2>1, <2>4 DEF TypeOK, Call
  <2>6. SafeRoom(t) BY <2>1, <2>3, <2>5 DEF SafeRoom, Copies
  <2> QED
    BY <1>0, <2>1, <2>3, <2>4, <2>5, <2>6
    DEF Safe, SafeLock, SafePlace, SafeOutcome, SafeState, Waiting
<1> QED BY <1>1, <1>2, <1>3, <1>4, <1>5

LEMMA GetSafe ==
  ASSUME PyInv, TypeOK', NEW t \in Caller, GetNothing(t) \/ GetSize(t) \/ CopyMessage(t)
  PROVE  Safe(t)
<1>0. t \in Thread /\ t # Receiver /\ TypeOK BY ThreadFacts DEF PyInv
<1>1. /\ mutex = Nobody /\ thr[t].at = "lock" /\ thr[t].fn \in {"getMessage", "copyMessage"}
      /\ dc'.state = dc.state
      /\ \A u \in Thread \ {t} : announced'[u] = announced[u]
  BY <1>0 DEF GetNothing, GetSize, CopyMessage, Holds, TypeOK, DeadcomL2, room
<1>2. SafeState(t) BY <1>1 DEF SafeState, Waiting
<1>3. CASE GetNothing(t) \/ GetSize(t)
  <2>1. PICK r \in Result : Unlocking(t, r) BY <1>3 DEF GetNothing, GetSize, Result
  <2>2. OnlyMoves(t) /\ mutex' = t /\ thr'[t] = [thr[t] EXCEPT !.at = "unlock", !.res = r]
    BY <1>0, <2>1, UnlockingMoves
  <2>3. thr'[t].at = "unlock" /\ thr'[t].fn = thr[t].fn BY <1>0, <2>2 DEF TypeOK, Call
  <2>4. /\ dc' = dc /\ outdated' = outdated \ {t}
        /\ announced'[t] \in {NoMsg, dc.pending}
    BY <1>0, <1>3 DEF GetNothing, GetSize, TypeOK
  <2>5. SafeRoom(t) BY <1>1, <2>3, <2>4 DEF SafeRoom, Copies
  <2> QED BY <1>0, <1>1, <1>2, <2>2, <2>3, <2>5 DEF Safe, SafeLock, SafePlace, SafeOutcome, Waiting
<1>4. CASE CopyMessage(t)
  <2>1. PICK ok \in BOOLEAN :
          /\ IF ok THEN Unlocking(t, "DC_OK") /\ dc' = [dc EXCEPT !.pending = NoMsg]
                   ELSE Abort(t) /\ UNCHANGED dc
          /\ outdated' = IF ok THEN Copying \ {t} ELSE outdated \ {t}
    BY <1>4 DEF CopyMessage
  <2>2. thr[t].fn = "copyMessage" BY <1>4 DEF CopyMessage, Holds
  <2>3. \A u \in Thread : thr[u].fn = "copyMessage" => u \in Caller
    BY DEF PyInv, ReceiverInv, Thread
  <2>4. CASE ok
    <3>1. OnlyMoves(t) /\ mutex' = t /\ thr'[t] = [thr[t] EXCEPT !.at = "unlock", !.res = "DC_OK"]
      BY <1>0, <2>1, <2>4, UnlockingMoves DEF Result
    <3>2. thr'[t].at = "unlock" /\ thr'[t].fn = "copyMessage"
      BY <1>0, <2>2, <3>1 DEF TypeOK, Call
    <3>3. SafeRoom(t) BY <1>1, <2>1, <2>3, <2>4, <3>2 DEF SafeRoom, Copies, Copying
    <3> QED
      BY <1>0, <1>1, <1>2, <3>1, <3>2, <3>3 DEF Safe, SafeLock, SafePlace, SafeOutcome, Waiting
  <2>5. CASE ~ok
    <3>1. /\ OnlyMoves(t) /\ mutex' = t
          /\ thr'[t].fn = "none" /\ thr'[t].exc /\ thr'[t].ret = "callback's exception"
          /\ thr'[t].at \in {"outside", "ended"}
      BY <1>0, <2>1, <2>5, AbortMoves
    <3>2. SafeRoom(t) BY <1>1, <2>1, <2>5, <3>1 DEF SafeRoom
    <3> QED
      BY <1>0, <1>1, <1>2, <3>1, <3>2 DEF Safe, SafeLock, SafePlace, SafeOutcome, Waiting
  <2> QED BY <2>4, <2>5
<1> QED BY <1>3, <1>4

\* The steps in which a thread enters, waits or is interrupted.
LEMMA CallSafe ==
  ASSUME PyInv, TypeOK', NEW t \in Caller,
         \/ CallMethod(t) \/ BadMessage(t) \/ Expire(t) \/ WaitRaises(t) \/ Interrupted(t)
  PROVE  Safe(t)
<1>0. t \in Thread /\ t # Receiver /\ TypeOK BY ThreadFacts DEF PyInv
<1>1. /\ mutex' = mutex /\ announced' = announced /\ outdated' = outdated
      /\ dc'.pending = dc.pending
  BY <1>0
  DEF CallMethod, Enter, BadMessage, Expire, WaitRaises, Interrupted, room, TypeOK, DeadcomL2
<1>2. CASE CallMethod(t)
  <2>1. PICK fn \in Uses[t] : Enter(t, fn) BY <1>2 DEF CallMethod
  <2>2. fn # "copyMessage" BY <2>1, BoundAssumption
  <2>3. /\ OnlyMoves(t) /\ thr'[t].at = "lock" /\ thr'[t].fn = fn /\ dc' = dc
        /\ thr[t].at = "outside"
    BY <1>0, <2>1 DEF Enter, OnlyMoves, TypeOK
  <2> QED
    BY <1>0, <1>1, <2>2, <2>3
    DEF Safe, SafeLock, SafePlace, SafeOutcome, SafeState, SafeRoom, Waiting
<1>3. CASE BadMessage(t)
  <2>1. PICK e \in {"TypeError", "RuntimeError"} :
          thr' = [thr EXCEPT ![t] = [@ EXCEPT !.exc = FALSE, !.ret = e]]
    BY <1>3 DEF BadMessage
  <2>2. /\ OnlyMoves(t) /\ thr'[t].at = "outside" /\ thr[t].at = "outside" /\ dc' = dc
        /\ thr'[t].exc = FALSE /\ thr'[t].ret = e
    <3>1. thr \in [Thread -> Call] /\ thr[t] \in Call /\ thr' \in [Thread -> Call]
      BY <1>0 DEF TypeOK
    <3>2. thr[t].at = "outside" /\ dc' = dc BY <1>3 DEF BadMessage
    <3>3. thr'[t] = [thr[t] EXCEPT !.exc = FALSE, !.ret = e] BY <1>0, <2>1, <3>1
    <3>4. OnlyMoves(t) BY <1>0, <2>1, <3>1 DEF OnlyMoves
    <3> QED BY <3>1, <3>2, <3>3, <3>4 DEF Call
  <2> QED
    BY <1>0, <1>1, <2>2
    DEF Safe, SafeLock, SafePlace, SafeOutcome, SafeState, SafeRoom, Waiting
<1>4. CASE Expire(t) \/ WaitRaises(t)
  <2>1. /\ OnlyMoves(t) /\ thr[t].at = "wait" /\ thr'[t].at \in {"late", "failed"}
        /\ thr'[t].fn = thr[t].fn /\ dc' = dc
    <3>1. thr \in [Thread -> Call] /\ thr[t] \in Call /\ thr' \in [Thread -> Call]
      BY <1>0 DEF TypeOK
    <3>2. CASE Expire(t) BY <1>0, <3>1, <3>2 DEF Expire, OnlyMoves, Call
    <3>3. CASE WaitRaises(t) BY <1>0, <3>1, <3>3 DEF WaitRaises, OnlyMoves, Call
    <3> QED BY <1>4, <3>2, <3>3
  <2>2. SafePlace(t) BY <1>0, <2>1 DEF SafePlace, Waiting, PyInv, ReceiverInv
  <2> QED
    BY <1>0, <1>1, <2>1, <2>2 DEF Safe, SafeLock, SafeOutcome, SafeState, SafeRoom, Waiting
<1>5. CASE Interrupted(t)
  <2>1. "DC_FAILURE" \in Result /\ End(t, "DC_FAILURE", TRUE)
    BY <1>5 DEF Interrupted, Result
  <2>2. /\ OnlyMoves(t) /\ thr'[t].fn = "none" /\ thr'[t].exc
        /\ thr'[t].ret = "callback's exception" /\ thr'[t].at = "outside"
    BY <1>0, <2>1, EndMoves DEF Returned
  <2>3. dc'.state \in {"DC_DISCONNECTED", "DC_CONNECTED"}
    BY <1>0, <1>5 DEF Interrupted, TypeOK, DeadcomL2
  <2> QED
    BY <1>0, <1>1, <2>2, <2>3
    DEF Safe, SafeLock, SafePlace, SafeOutcome, SafeState, SafeRoom, Waiting
<1> QED BY <1>2, <1>3, <1>4, <1>5

LEMMA ProcessSafe == ASSUME PyInv, TypeOK', Process PROVE Safe(Receiver)
<1> DEFINE t == Receiver
<1>0. t \in Thread /\ TypeOK BY ThreadFacts DEF PyInv
<1>1. mutex = Nobody /\ thr[t].at = "lock" /\ thr[t].fn = "processData"
  BY DEF Process, ReceiveNothing, ReceiveData, ReceiveRepeat, ReceiveAnswer, ReceiveConn,
     ReceiveConnAck, Receives, Holds
\* Wherever the receive thread goes, only what it does to the message matters.
<1>2. ASSUME OnlyMoves(t), mutex' = t, thr'[t].at # "lock", thr'[t].at \notin Waiting,
             thr'[t].fn \in {"none", "processData"}, SafeOutcome(t),
             dc'.state \in {dc.state, "DC_CONNECTED"}, announced' = announced,
             \A u \in Thread : thr[u].fn = "copyMessage" /\ thr[u].at = "lock" /\ u \notin outdated'
               => u \notin outdated /\ dc'.pending = dc.pending
      PROVE  Safe(t)
  BY <1>1, <1>2 DEF Safe, SafeLock, SafePlace, SafeState, SafeRoom, Waiting, Copies
<1>3. ASSUME Unlocking(t, "DC_OK") \/ Abort(t) \/ Signal
      PROVE  /\ OnlyMoves(t) /\ mutex' = t /\ thr'[t].at # "lock" /\ thr'[t].at \notin Waiting
             /\ thr'[t].fn \in {"none", "processData"} /\ SafeOutcome(t)
  <2>1. \/ thr'[t] = [thr[t] EXCEPT !.at = "unlock", !.res = "DC_OK"]
        \/ /\ thr'[t].fn = "none" /\ thr'[t].exc /\ thr'[t].ret = "callback's exception"
           /\ thr'[t].at \in {"outside", "ended"}
    BY <1>0, <1>3, UnlockingMoves, AbortMoves, SignalMoves DEF Result
  <2>2. OnlyMoves(t) /\ mutex' = t
    BY <1>0, <1>3, UnlockingMoves, AbortMoves, SignalMoves DEF Result
  <2>3. CASE thr'[t] = [thr[t] EXCEPT !.at = "unlock", !.res = "DC_OK"]
    <3>1. thr'[t].at = "unlock" /\ thr'[t].fn = "processData"
      BY <1>0, <1>1, <2>3 DEF TypeOK, Call
    <3> QED BY <2>2, <3>1 DEF SafeOutcome, Waiting
  <2> QED BY <2>1, <2>2, <2>3 DEF SafeOutcome, Waiting
<1>4. CASE ReceiveNothing \/ ReceiveRepeat \/ ReceiveAnswer \/ ReceiveConnAck
  <2>1. /\ dc'.state = dc.state /\ dc'.pending = dc.pending /\ UNCHANGED room
        /\ Unlocking(t, "DC_OK") \/ Abort(t) \/ Signal
    BY <1>0, <1>4
    DEF ReceiveNothing, ReceiveRepeat, ReceiveAnswer, ReceiveConnAck, TypeOK, DeadcomL2
  <2> QED BY <1>2, <1>3, <2>1 DEF room
<1>5. CASE ReceiveData
  <2>1. dc'.state = dc.state /\ UNCHANGED room /\ dc.pending = NoMsg /\ Unlocking(t, "DC_OK")
    BY <1>0, <1>5 DEF ReceiveData, AcceptsData, TypeOK, DeadcomL2
  <2>2. \A u \in Thread : thr[u].fn = "copyMessage" /\ thr[u].at = "lock" => u \in outdated'
    BY <2>1 DEF PyInv, RoomInv, room
  <2> QED BY <1>2, <1>3, <2>1, <2>2 DEF room
<1>6. CASE ReceiveConn
  <2>1. CASE Py("transmit", FALSE) /\ Abort(t) /\ UNCHANGED <<dc, room>>
    BY <1>2, <1>3, <2>1 DEF room
  <2>2. CASE ~(Py("transmit", FALSE) /\ Abort(t) /\ UNCHANGED <<dc, room>>)
    <3>1. PICK s \in {dc.state, "DC_CONNECTED"}, r \in LastResponse : Reset(s, r)
      BY <1>0, <1>6, <2>2 DEF ReceiveConn, LastResponse, TypeOK, DeadcomL2
    <3>2. Signal \/ Unlocking(t, "DC_OK") BY <1>6, <2>2 DEF ReceiveConn
    <3>3. s \in State BY <1>0, <3>1 DEF TypeOK, DeadcomL2, State
    <3>4. /\ dc'.state = s /\ announced' = announced
          /\ \A u \in Thread : thr[u].fn = "copyMessage" /\ thr[u].at = "lock" => u \in outdated'
      BY <1>0, <1>1, <3>1, <3>3, ResetRoom
    <3> QED BY <1>2, <1>3, <3>1, <3>2, <3>4
  <2> QED BY <2>1, <2>2
<1> QED BY <1>4, <1>5, <1>6 DEF Process

LEMMA BoundarySafe ==
  ASSUME PyInv, TypeOK', NEW t \in Thread, LockRaises(t) \/ Leave(t) \/ UnlockRaises(t)
  PROVE  Safe(t)
<1>0. TypeOK /\ thr[t] \in Call BY DEF PyInv, TypeOK
<1>1. /\ announced' = announced /\ outdated' = outdated /\ dc'.pending = dc.pending
      /\ thr[t].at \notin Waiting
      /\ dc'.state \in {dc.state, "DC_DISCONNECTED"}
  BY <1>0 DEF LockRaises, Leave, Unlock, UndoConnect, UnlockRaises, room, Waiting, TypeOK, DeadcomL2
<1>2. SafeState(t) BY <1>1 DEF SafeState
<1>3. mutex \in {Nobody, t} \/ mutex' = mutex
  BY <1>0 DEF PyInv, HeldInv, LockRaises, Leave, Unlock, UndoConnect, UnlockRaises
\* A call that ends.
<1>4. ASSUME NEW r \in Result, NEW exc \in BOOLEAN, End(t, r, exc),
             exc => r = "DC_FAILURE"
      PROVE  Safe(t)
  <2>1. /\ OnlyMoves(t) /\ thr'[t].fn = "none" /\ thr'[t].at \in {"outside", "ended"}
        /\ thr'[t].exc = exc /\ thr'[t].ret = Returned(thr[t].fn, r, exc)
    BY <1>0, <1>4, EndMoves
  <2>2. SafeOutcome(t) BY <1>4, <2>1 DEF SafeOutcome, Returned, Result
  <2> QED
    BY <1>1, <1>2, <1>3, <2>1, <2>2 DEF Safe, SafeLock, SafePlace, SafeRoom, Waiting
<1>5. CASE LockRaises(t) \/ UndoConnect(t)
  BY <1>4, <1>5 DEF LockRaises, UndoConnect, Result
<1>6. CASE Unlock(t)
  <2>1. CASE Copies(t)
    <3>1. /\ OnlyMoves(t) /\ thr'[t].fn = "copyMessage" /\ thr'[t].at = "lock" /\ dc' = dc
      BY <1>0, <1>6, <2>1 DEF Unlock, OnlyMoves, TypeOK, Call
    <3>2. announced[t] = dc.pending /\ announced[t] # NoMsg
      BY <1>6, <2>1 DEF Unlock, PyInv, RoomInv, Copies
    <3>3. SafePlace(t)
      BY <2>1, <3>1 DEF SafePlace, Waiting, Copies, PyInv, ReceiverInv
    <3> QED
      BY <1>1, <1>2, <1>3, <3>1, <3>2, <3>3 DEF Safe, SafeLock, SafeOutcome, SafeRoom
  <2>2. CASE ~Copies(t)
    <3>1. thr[t].res \in Result /\ End(t, thr[t].res, FALSE)
      BY <1>0, <1>6, <2>2 DEF Unlock, Call
    <3> QED BY <1>4, <3>1
  <2> QED BY <2>1, <2>2
<1>7. CASE UnlockRaises(t)
  <2>1. CASE thr[t].at = "established"
    <3>1. /\ OnlyMoves(t) /\ thr'[t].fn = thr[t].fn /\ thr'[t].at = "undo"
      BY <1>0, <1>7, <2>1 DEF UnlockRaises, OnlyMoves, TypeOK, Call
    <3>2. SafePlace(t) BY <3>1 DEF SafePlace, Waiting, PyInv, ReceiverInv
    <3> QED
      BY <1>1, <1>2, <1>3, <3>1, <3>2 DEF Safe, SafeLock, SafeOutcome, SafeRoom
  <2>2. CASE thr[t].at # "established"
    BY <1>4, <1>7, <2>2 DEF UnlockRaises, UnlockFailed, Result
  <2> QED BY <2>1, <2>2
<1> QED BY <1>5, <1>6, <1>7 DEF Leave

\* The object comes and goes without the lock, and the receive thread begins and ends.
LEMMA ObjectSafe ==
  ASSUME PyInv, TypeOK', Construct \/ Stop \/ ReceiverEnds \/ Read
  PROVE  Safe(Receiver)
<1>0. Receiver \in Thread /\ Receiver \notin Caller /\ TypeOK BY ThreadFacts DEF PyInv
<1>1. mutex' = mutex /\ dc' = dc /\ announced' = announced /\ outdated' = outdated
  BY DEF Construct, Stop, ReceiverEnds, Read, Enter, room
<1>2. thr \in [Thread -> Call] /\ thr[Receiver] \in Call /\ thr' \in [Thread -> Call]
  BY <1>0 DEF TypeOK
<1>3. thr[Receiver].at \notin Waiting /\ thr[Receiver].fn \in {"none", "processData"}
  BY DEF PyInv, ReceiverInv
<1>4. CASE Construct \/ Stop
  <2>1. thr' = thr BY <1>4 DEF Construct, Stop
  <2>2. OnlyMoves(Receiver) BY <1>2, <2>1 DEF OnlyMoves
  <2>3. SafeLock(Receiver) BY <1>0, <1>1, <2>1 DEF SafeLock, PyInv, HeldInv
  <2>4. SafePlace(Receiver) BY <1>3, <2>1 DEF SafePlace
  <2>5. SafeOutcome(Receiver) BY <1>0, <2>1 DEF SafeOutcome, PyInv, ExceptionsReported
  <2>6. SafeState(Receiver) BY <1>1, <1>3 DEF SafeState
  <2>7. SafeRoom(Receiver) BY <1>0, <1>1, <2>1 DEF SafeRoom, PyInv, RoomInv, Copies
  <2> QED BY <2>2, <2>3, <2>4, <2>5, <2>6, <2>7 DEF Safe
<1>5. CASE ReceiverEnds \/ Read
  <2>1. /\ OnlyMoves(Receiver) /\ thr'[Receiver].at \in {"ended", "lock"}
        /\ thr'[Receiver].fn \in {"none", "processData"}
        /\ thr'[Receiver].at = "ended" =>
             /\ thr[Receiver].at = "outside"
             /\ thr'[Receiver].exc = thr[Receiver].exc /\ thr'[Receiver].ret = thr[Receiver].ret
    <3>1. CASE ReceiverEnds BY <1>0, <1>2, <1>3, <3>1 DEF ReceiverEnds, OnlyMoves, Call
    <3>2. CASE Read BY <1>0, <1>2, <3>2 DEF Read, Enter, OnlyMoves, Call
    <3> QED BY <1>5, <3>1, <3>2
  <2>2. SafeOutcome(Receiver) BY <1>0, <2>1 DEF SafeOutcome, PyInv, ExceptionsReported
  <2>3. SafeState(Receiver) BY <1>1, <1>3 DEF SafeState
  <2>4. SafeRoom(Receiver) BY <1>1, <2>1 DEF SafeRoom
  <2> QED BY <1>1, <2>1, <2>2, <2>3, <2>4 DEF Safe, SafeLock, SafePlace, Waiting
<1> QED BY <1>4, <1>5

\* Every step is the step of one thread, and respects the invariant.
LEMMA NextSafe ==
  ASSUME PyInv, TypeOK', Next
  PROVE  \E t \in Thread : Safe(t)
<1>1. Receiver \in Thread /\ Caller \subseteq Thread BY ThreadFacts
<1>2. CASE Construct \/ Stop \/ ReceiverEnds \/ Read BY <1>1, <1>2, ObjectSafe
<1>3. CASE Process BY <1>1, <1>3, ProcessSafe
<1>4. ASSUME NEW t \in Caller,
             \/ CallMethod(t) \/ BadMessage(t) \/ Acquire(t) \/ Expire(t)
             \/ WaitRaises(t) \/ Interrupted(t)
      PROVE  Safe(t)
  BY <1>4, CallSafe, ConnectSafe, SendSafe, GetSafe DEF Acquire
<1>5. ASSUME NEW t \in Thread, LockRaises(t) \/ Leave(t) \/ UnlockRaises(t)
      PROVE  Safe(t)
  BY <1>5, BoundarySafe
<1> QED BY <1>1, <1>2, <1>3, <1>4, <1>5 DEF Next

LEMMA InvNext == PyInv /\ [Next]_vars => PyInv'
<1> SUFFICES ASSUME PyInv, [Next]_vars PROVE PyInv' OBVIOUS
<1>1. TypeOK' BY TypeNext DEF PyInv
<1>2. CASE Next BY <1>1, <1>2, NextSafe, SafeStep
<1>3. CASE UNCHANGED vars
  BY <1>3
  DEF vars, room, PyInv, TypeOK, HeldInv, RoomInv, Copies, ReceiverInv, StateOwned, Attempts,
      ExceptionsReported
<1> QED BY <1>2, <1>3
-----------------------------------------------------------------------------
(* Theorems *)

\* Nothing but the copy of getMessage overruns its room.
LEMMA OverrunCopies ==
  ASSUME Next, NEW t \in overrun' \ overrun
  PROVE  t \in Caller /\ CopyMessage(t) /\ dc.pending > announced[t]
<1>1. CASE Construct \/ Stop \/ ReceiverEnds \/ Read
  BY <1>1 DEF Construct, Stop, ReceiverEnds, Read, Enter, room
<1>2. CASE Process
  BY <1>2
  DEF Process, ReceiveNothing, ReceiveData, ReceiveRepeat, ReceiveAnswer, ReceiveConn,
      ReceiveConnAck, Reset, Outdate, room
<1>3. ASSUME NEW u \in Caller,
             \/ CallMethod(u) \/ BadMessage(u) \/ Expire(u) \/ WaitRaises(u)
             \/ Interrupted(u)
      PROVE  overrun' \subseteq overrun
  BY <1>3 DEF CallMethod, Enter, BadMessage, Expire, WaitRaises, Interrupted, room
<1>4. ASSUME NEW u \in Caller, Acquire(u), ~CopyMessage(u) PROVE overrun' \subseteq overrun
  BY <1>4
  DEF Acquire, ConnectRefused, ConnectStart, ConnectEnds, Disconnect, SendRefused, SendStart,
      SendAgain, SendConfirmed, SendLinkReset, SendWaitFailed, GetNothing, GetSize,
      Reset, Outdate, room
<1>5. ASSUME NEW u \in Thread, LockRaises(u) \/ Leave(u) \/ UnlockRaises(u)
      PROVE  overrun' \subseteq overrun
  BY <1>5 DEF LockRaises, Leave, Unlock, UndoConnect, UnlockRaises, room
<1>6. ASSUME NEW u \in Caller, CopyMessage(u)
      PROVE  t = u /\ dc.pending > announced[u]
  BY <1>6 DEF CopyMessage
<1> QED BY <1>1, <1>2, <1>3, <1>4, <1>5, <1>6 DEF Next

\* Whatever the threads call, the peer sends and the callbacks raise: the structure is
\* typed, the lock is held where a function is about to release it, and the three
\* properties below hold.
THEOREM PyInvCorrect == Spec => []PyInv
BY InitInv, InvNext, PTL DEF Spec

\* The link is never left connecting or transmitting by a call that is over (dcl2.c, the
\* failing branches of dcConnect and dcSendMessage).
THEOREM StateOwnedCorrect == Spec => []StateOwned
<1>1. PyInv => StateOwned BY DEF PyInv
<1> QED BY <1>1, PyInvCorrect, PTL

\* A method raises what its callback raised and nothing else (_dcl2_type_methods.c, the
\* DC_FAILURE branches).
THEOREM ExceptionsReportedCorrect == Spec => []ExceptionsReported
<1>1. PyInv => ExceptionsReported BY DEF PyInv
<1> QED BY <1>1, PyInvCorrect, PTL

\* The array of getMessage overflows only where the link was reset, or another thread took
\* the message, after the length was found out, and a longer message has come; with
\* whatever other threads call, the receive thread receives and the callbacks raise in
\* between (_dcl2_type_methods.c, getMessage).
THEOREM OverrunsOnlyReplacedCorrect == Spec => OverrunsOnlyReplaced
<1> DEFINE Replaced(t) == t \in Copying \cap outdated /\ dc.pending > announced[t]
<1>1. ASSUME PyInv, Next, NEW t \in overrun' \ overrun PROVE Replaced(t)
  <2>1. t \in Caller /\ CopyMessage(t) /\ dc.pending > announced[t]
    BY <1>1, OverrunCopies
  <2>2. t \in Copying BY <2>1 DEF CopyMessage, Holds, Copying
  <2>3. t \in Thread /\ dc.pending \in Nat
    BY <1>1, <2>1, ThreadFacts DEF PyInv, TypeOK, DeadcomL2
  <2>4. t \notin outdated => announced[t] = dc.pending
    BY <1>1, <2>2, <2>3 DEF PyInv, RoomInv, Copying
  <2> QED BY <2>1, <2>2, <2>3, <2>4
<1>2. PyInv /\ [Next]_vars => [\A t \in overrun' \ overrun : Replaced(t)]_vars
  BY <1>1
<1> QED BY <1>2, PyInvCorrect, PTL DEF Spec, OverrunsOnlyReplaced

\* Every record, counter and state keeps its range; the failure count stays below
\* DEADCOM_MAX_FAILURE_COUNT.
THEOREM PyTypeCorrect == Spec => []TypeOK
<1>1. PyInv => TypeOK BY DEF PyInv
<1> QED BY <1>1, PyInvCorrect, PTL
-----------------------------------------------------------------------------
(* The lock when a call ends *)

\* The step of thread t ends no call, or ends it with an exception.
Continues(t) == thr[t].fn = "none" \/ thr'[t].fn # "none" \/ thr'[t].exc

LEMMA WaysOut ==
  ASSUME TypeOK, TypeOK', NEW t \in Thread,
         \/ Wait(t) \/ Abort(t)
         \/ \E r \in Result : Unlocking(t, r)
         \/ \E r \in Result : End(t, r, TRUE)
  PROVE  Continues(t)
<1>1. thr[t] \in Call BY DEF TypeOK
<1>2. CASE Wait(t)
  BY <1>1, <1>2, WaitMoves DEF Continues, Call
<1>3. CASE Abort(t) BY <1>3, AbortMoves DEF Continues
<1>4. CASE \E r \in Result : Unlocking(t, r)
  BY <1>1, <1>4, UnlockingMoves DEF Continues, Call
<1>5. CASE \E r \in Result : End(t, r, TRUE) BY <1>5, EndMoves DEF Continues
<1> QED BY <1>2, <1>3, <1>4, <1>5

LEMMA CallerContinues ==
  ASSUME PyInv, TypeOK', NEW t \in Caller,
         \/ CallMethod(t) \/ BadMessage(t) \/ Acquire(t) \/ Expire(t)
         \/ WaitRaises(t) \/ Interrupted(t)
  PROVE  Continues(t)
<1>0. t \in Thread /\ TypeOK /\ thr[t] \in Call BY ThreadFacts DEF PyInv, TypeOK
<1>1. CASE CallMethod(t)
  <2>1. PICK fn \in Uses[t] : Enter(t, fn) BY <1>1 DEF CallMethod
  <2>2. fn # "none" BY <2>1, BoundAssumption
  <2>3. thr'[t].fn = fn BY <1>0, <2>1 DEF Enter, TypeOK
  <2> QED BY <2>2, <2>3 DEF Continues
<1>2. CASE BadMessage(t) \/ Expire(t) \/ WaitRaises(t)
  <2>1. CASE BadMessage(t) BY <1>0, <2>1 DEF BadMessage, Continues, TypeOK, Call
  <2>2. CASE Expire(t) BY <1>0, <2>2 DEF Expire, Continues, TypeOK, Call
  <2>3. CASE WaitRaises(t) BY <1>0, <2>3 DEF WaitRaises, Continues, TypeOK, Call
  <2> QED BY <1>2, <2>1, <2>2, <2>3
<1>3. CASE Interrupted(t)
  BY <1>0, <1>3, WaysOut DEF Interrupted, Result
<1>4. CASE Acquire(t)
  <2>1. CASE ConnectEnds(t)!1
    BY <1>0, <2>1 DEF Continues, TypeOK, Call
  <2>2. CASE ~ConnectEnds(t)!1
    <3>1. Wait(t) \/ Abort(t) \/ \E r \in Result : Unlocking(t, r)
      BY <1>4, <2>2
      DEF Acquire, ConnectRefused, ConnectStart, ConnectEnds, Disconnect, SendRefused,
          SendStart, SendAgain, SendConfirmed, SendLinkReset, SendWaitFailed, Attempt,
          GetNothing, GetSize, CopyMessage, Refuse, Result
    <3> QED BY <1>0, <3>1, WaysOut
  <2> QED BY <2>1, <2>2
<1> QED BY <1>1, <1>2, <1>3, <1>4

LEMMA ReceiverContinues ==
  ASSUME PyInv, TypeOK', Process \/ ReceiverEnds \/ Read \/ Construct \/ Stop
  PROVE  Continues(Receiver)
<1>0. Receiver \in Thread /\ TypeOK /\ thr[Receiver] \in Call
  BY ThreadFacts DEF PyInv, TypeOK
<1>1. CASE Process
  <2>1. Unlocking(Receiver, "DC_OK") \/ Abort(Receiver) \/ Signal
    BY <1>1
    DEF Process, ReceiveNothing, ReceiveData, ReceiveRepeat, ReceiveAnswer, ReceiveConn,
        ReceiveConnAck
  <2>2. CASE Signal BY <1>0, <2>2, SignalMoves DEF Continues, Call
  <2> QED BY <1>0, <2>1, <2>2, WaysOut DEF Result
<1>2. CASE ReceiverEnds BY <1>0, <1>2 DEF ReceiverEnds, Continues, TypeOK, Call
<1>3. CASE Read BY <1>0, <1>3 DEF Read, Enter, Continues, TypeOK
<1>4. CASE Construct \/ Stop BY <1>4 DEF Construct, Stop, Continues
<1> QED BY <1>1, <1>2, <1>3, <1>4

\* Where a call ends without an exception it is Unlock, which releases the lock.
LEMMA BoundaryContinues ==
  ASSUME PyInv, TypeOK', NEW t \in Thread, LockRaises(t) \/ Leave(t) \/ UnlockRaises(t)
  PROVE  Continues(t) \/ mutex' = Nobody
<1>0. TypeOK /\ thr[t] \in Call BY DEF PyInv, TypeOK
<1>1. CASE LockRaises(t) \/ UndoConnect(t)
  BY <1>0, <1>1, WaysOut DEF LockRaises, UndoConnect, Result
<1>2. CASE Unlock(t) BY <1>2 DEF Unlock
<1>3. CASE UnlockRaises(t)
  <2>1. CASE thr' = [thr EXCEPT ![t].at = "undo"]
    BY <1>0, <2>1 DEF Continues, TypeOK, Call
  <2>2. CASE End(t, "DC_FAILURE", TRUE) BY <1>0, <2>2, WaysOut DEF Result
  <2> QED BY <1>3, <2>1, <2>2 DEF UnlockRaises, UnlockFailed
<1> QED BY <1>1, <1>2, <1>3 DEF Leave

\* Threads other than the one that goes on neither end a call nor begin one.
LEMMA OthersContinue ==
  ASSUME TypeOK, NEW t \in Thread, OnlyMoves(t), NEW u \in Thread, u # t
  PROVE  thr'[u].fn = thr[u].fn
BY DEF OnlyMoves, TypeOK, Call

\* A call that ends without an exception has released the lock, on whichever of the ways
\* out of dcl2.c it took.
THEOREM ReleasedOnReturnCorrect == Spec => ReleasedOnReturn
<1> DEFINE Released == \A t \in Thread : Ends(t) /\ mutex' = t => thr'[t].exc
<1>1. PyInv /\ PyInv' /\ [Next]_vars => [Released]_vars
  <2> SUFFICES ASSUME PyInv, PyInv', Next PROVE Released OBVIOUS
  <2>1. TypeOK /\ TypeOK' BY DEF PyInv
  <2>2. \E t \in Thread : OnlyMoves(t) /\ (Continues(t) \/ mutex' = Nobody)
    <3>1. Receiver \in Thread /\ Caller \subseteq Thread BY ThreadFacts
    <3>2. CASE Construct \/ Stop \/ ReceiverEnds \/ Read \/ Process
      BY <2>1, <3>1, <3>2, ReceiverContinues, ObjectSafe, ProcessSafe DEF Safe
    <3>3. ASSUME NEW t \in Caller,
                 \/ CallMethod(t) \/ BadMessage(t) \/ Acquire(t) \/ Expire(t)
                 \/ WaitRaises(t) \/ Interrupted(t)
          PROVE  OnlyMoves(t) /\ Continues(t)
      BY <2>1, <3>3, CallerContinues, CallSafe, ConnectSafe, SendSafe, GetSafe
      DEF Acquire, Safe
    <3>4. ASSUME NEW t \in Thread, LockRaises(t) \/ Leave(t) \/ UnlockRaises(t)
          PROVE  OnlyMoves(t) /\ (Continues(t) \/ mutex' = Nobody)
      BY <2>1, <3>4, BoundarySafe, BoundaryContinues DEF Safe
    <3> QED BY <3>1, <3>2, <3>3, <3>4 DEF Next
  <2>3. PICK t \in Thread : OnlyMoves(t) /\ (Continues(t) \/ mutex' = Nobody) BY <2>2
  <2>4. ASSUME NEW u \in Thread, Ends(u), mutex' = u PROVE thr'[u].exc
    <3>1. mutex' # Nobody BY <2>4, ThreadFacts
    <3>2. CASE u = t BY <2>3, <2>4, <3>1, <3>2 DEF Continues, Ends
    <3>3. CASE u # t BY <2>1, <2>3, <2>4, <3>3, OthersContinue DEF Ends
    <3> QED BY <3>2, <3>3
  <2> QED BY <2>4
<1> QED BY <1>1, PyInvCorrect, PTL DEF Spec, ReleasedOnReturn
=============================================================================
