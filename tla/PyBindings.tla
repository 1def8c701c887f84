---------------------------- MODULE PyBindings ----------------------------
(***************************************************************************)
(* The Python bindings: the class dcl2.DeadcomL2, the C functions of dcl2  *)
(* its methods call and the bridge over which those call back to Python.   *)
(* One station: callers in the methods, and the receive thread, which      *)
(* feeds processData octet by octet.                                       *)
(*                                                                         *)
(* Every callback may raise.  While an exception is pending the bridge     *)
(* calls no Python, so that the mutex stays locked: its owner is explicit  *)
(* here.  Sequence numbers, which Dcl2 models, are left out: a frame may   *)
(* be the expected one or not.  A message is its length.                   *)
(***************************************************************************)
EXTENDS Naturals

CONSTANTS
  Caller, Receiver, Nobody,
  Uses,               \* Uses[t]: methods caller t calls
  Size,               \* lengths of messages
  MaxFailures,        \* DEADCOM_MAX_FAILURE_COUNT
  Raising, MaxRaise   \* callbacks that may raise; bound: exceptions in all

Thread == Caller \cup {Receiver}
Callback == {"mutexInit", "mutexLock", "mutexUnlock",
             "condvarInit", "condvarWait", "condvarSignal", "transmit"}

ASSUME ThreadAssumption == Receiver \notin Caller /\ Nobody \notin Thread
ASSUME BoundAssumption ==
  /\ Uses \in [Caller -> SUBSET {"connect", "disconnect", "sendMessage", "getMessage"}]
  /\ Size \subseteq Nat \ {0}
  /\ MaxFailures \in Nat \ {0} /\ MaxRaise \in Nat
  /\ Raising \subseteq Callback

VARIABLES
  mutex,      \* the thread that has acquired the lock, or Nobody
  thr,        \* thr[t]: the method thread t is in and where, or its last outcome
  dc,         \* the DeadcomL2 structure
  announced,  \* announced[t]: length getMessage of t has made room for
  outdated,   \* threads since whose announcement there was a reset or a pick-up
  overrun,    \* threads whose last getMessage copied a message longer than its room
  object,     \* "new", and "open" from the end of the constructor to stop
  raises      \* exceptions raised by callbacks so far

room == <<announced, outdated, overrun>>
vars == <<mutex, thr, dc, room, object, raises>>

NoMsg == 0
State == {"DC_DISCONNECTED", "DC_CONNECTING", "DC_CONNECTED", "DC_TRANSMITTING"}
LastResponse == {"DC_RESP_OK", "DC_RESP_REJECT", "DC_RESP_NOLINK"}
Result == {"DC_OK", "DC_FAILURE", "DC_NOT_CONNECTED", "DC_LINK_RESET"}
Method == {"connect", "disconnect", "sendMessage", "getMessage", "processData"}
\* getMessage calls dcGetReceivedMsg twice; the second time it has a buffer.
Function == Method \cup {"copyMessage"}
Outcome == {"True", "False", "None", "bytes", "BrokenPipeError", "ConnectionError",
            "RuntimeError", "TypeError", "callback's exception"}
\* In condvarWait a thread waits for the condition and then for the lock.
Waiting == {"wait", "woken", "late", "failed"}
Place == {"outside", "lock", "unlock", "established", "undo", "ended"} \cup Waiting

Call ==
  [fn : Function \cup {"none"}, at : Place, res : Result, exc : BOOLEAN, ret : Outcome]
DeadcomL2 ==
  [state : State, failure_count : 0 .. MaxFailures - 1, last_response : LastResponse,
   pending : Nat]

Init ==
  /\ mutex = Nobody
  /\ thr = [t \in Thread |->
              [fn |-> "none", at |-> "outside", res |-> "DC_OK", exc |-> FALSE, ret |-> "None"]]
  /\ dc = [state |-> "DC_DISCONNECTED", failure_count |-> 0,
           last_response |-> "DC_RESP_OK", pending |-> NoMsg]
  /\ announced = [t \in Thread |-> NoMsg]
  /\ outdated = {} /\ overrun = {}
  /\ object = "new"
  /\ raises = 0
-----------------------------------------------------------------------------
(* Callbacks, and the ends of a function *)

\* Callback m returns, or raises.
Py(m, ok) ==
  IF ok THEN UNCHANGED raises
        ELSE m \in Raising /\ raises < MaxRaise /\ raises' = raises + 1

\* What a method makes of the result of its function and a pending exception.
Returned(fn, r, exc) ==
  CASE r = "DC_FAILURE" -> IF exc THEN "callback's exception"
                           ELSE IF fn = "processData" THEN "TypeError" ELSE "RuntimeError"
    [] r = "DC_NOT_CONNECTED" -> IF fn = "connect" THEN "False"
                                 ELSE IF fn = "sendMessage" THEN "BrokenPipeError" ELSE "None"
    [] r = "DC_LINK_RESET" -> "ConnectionError"
    [] r = "DC_OK" -> IF fn = "connect" THEN "True"
                      ELSE IF fn = "copyMessage" THEN "bytes" ELSE "None"

\* The receive thread ends with an exception that nobody catches.
End(t, r, exc) ==
  thr' = [thr EXCEPT ![t] =
            [fn |-> "none", res |-> "DC_OK", exc |-> exc, ret |-> Returned(thr[t].fn, r, exc),
             at |-> IF t = Receiver /\ r # "DC_OK" THEN "ended" ELSE "outside"]]

Holds(t, fn) == thr[t].at = "lock" /\ thr[t].fn = fn /\ mutex = Nobody
Resumes(t, fn, at) == thr[t].at \in at /\ thr[t].fn = fn /\ mutex = Nobody

Unlocking(t, r) ==
  mutex' = t /\ thr' = [thr EXCEPT ![t].at = "unlock", ![t].res = r]
\* Variant: an early return that forgets the lock.
RefuseLocked(t, r) == mutex' = t /\ End(t, r, FALSE)
Refuse(t, r) == Unlocking(t, r)
Wait(t) ==
  mutex' = Nobody /\ thr' = [thr EXCEPT ![t].at = "wait"]

\* A callback has raised: the bridge refuses the mutexUnlock of the cleanup.
Abort(t) == mutex' = t /\ End(t, "DC_FAILURE", TRUE)

Copying == {t \in Caller : thr[t].fn = "copyMessage" /\ thr[t].at = "lock"}
\* What was announced to anybody need not be pending any more.
Outdate ==
  /\ outdated' = Copying
  /\ UNCHANGED <<announced, overrun>>
\* resetLink, and the state the link is in afterwards.
Reset(s, response) ==
  /\ dc' = [state |-> s, failure_count |-> 0, last_response |-> response, pending |-> NoMsg]
  /\ Outdate
-----------------------------------------------------------------------------
(* The object and its methods *)

Construct ==
  /\ object = "new"
  /\ \/ object' = "open" /\ UNCHANGED raises
     \/ object' = "void" /\ \E m \in {"mutexInit", "condvarInit"} : Py(m, FALSE)
  /\ UNCHANGED <<mutex, thr, dc, room>>

\* stop() closes the pipe and joins the receive thread.
Stop ==
  /\ object = "open"
  /\ object' = "closed"
  /\ UNCHANGED <<mutex, thr, dc, room, raises>>
\* Variant: the end of the pipe is not noticed.
ReceiverReadsOn ==
  object = "closed" /\ thr[Receiver].at = "outside" /\ UNCHANGED vars
ReceiverEnds ==
  /\ object = "closed" /\ thr[Receiver].at = "outside"
  /\ thr' = [thr EXCEPT ![Receiver].at = "ended"]
  /\ UNCHANGED <<mutex, dc, room, object, raises>>

Enter(t, fn) ==
  /\ thr[t].at = "outside"
  /\ thr' = [thr EXCEPT ![t] =
                [fn |-> fn, at |-> "lock", res |-> "DC_OK", exc |-> FALSE, ret |-> "None"]]
  /\ overrun' = overrun \ {t}
  /\ UNCHANGED <<mutex, dc, announced, outdated, object, raises>>
CallMethod(t) ==
  object = "open" /\ \E fn \in Uses[t] : Enter(t, fn)
Read == object = "open" /\ Enter(Receiver, "processData")

\* A message that is no bytes object, is empty or too long.
BadMessage(t) ==
  /\ object = "open" /\ thr[t].at = "outside" /\ "sendMessage" \in Uses[t]
  /\ \E e \in {"TypeError", "RuntimeError"} :
       thr' = [thr EXCEPT ![t] = [@ EXCEPT !.exc = FALSE, !.ret = e]]
  /\ UNCHANGED <<mutex, dc, room, object, raises>>

\* An interrupt may come before the lock is acquired, or after.
LockRaises(t) ==
  /\ thr[t].at = "lock"
  /\ Py("mutexLock", FALSE)
  /\ UNCHANGED mutex \/ (mutex = Nobody /\ mutex' = t)
  /\ End(t, "DC_FAILURE", TRUE)
  /\ UNCHANGED <<dc, room, object>>

\* getMessage goes on to copy the message of which it has just learnt the length.
Copies(t) == thr[t].fn = "getMessage" /\ thr[t].res = "DC_OK" /\ announced[t] # NoMsg

Unlock(t) ==
  /\ thr[t].at \in {"unlock", "established"}
  /\ mutex' = Nobody
  /\ IF Copies(t) THEN thr' = [thr EXCEPT ![t].fn = "copyMessage", ![t].at = "lock"]
                  ELSE End(t, thr[t].res, FALSE)
  /\ UNCHANGED <<dc, room, object, raises>>

\* Variant: the result of mutexUnlock is not looked at.
UnlockIgnored(t) == thr[t].res
UnlockFailed(t) == "DC_FAILURE"

\* dcConnect takes back a new connection when it cannot unlock, locked or not.
UnlockRaises(t) ==
  /\ thr[t].at \in {"unlock", "established"}
  /\ Py("mutexUnlock", FALSE)
  /\ mutex' \in {t, Nobody}
  /\ IF thr[t].at = "established"
       THEN thr' = [thr EXCEPT ![t].at = "undo"]
       ELSE End(t, UnlockFailed(t), TRUE)
  /\ UNCHANGED <<dc, room, object>>
UndoConnect(t) ==
  /\ thr[t].at = "undo"
  /\ dc' = [dc EXCEPT !.state = "DC_DISCONNECTED"]
  /\ End(t, "DC_FAILURE", TRUE)
  /\ UNCHANGED <<mutex, room, object, raises>>
-----------------------------------------------------------------------------
(* connect and disconnect *)

ConnectRefused(t) ==
  /\ Holds(t, "connect")
  /\ dc.state \in {"DC_CONNECTED", "DC_CONNECTING"}
  /\ Refuse(t, IF dc.state = "DC_CONNECTED" THEN "DC_OK" ELSE "DC_FAILURE")
  /\ UNCHANGED <<dc, room, object, raises>>

\* Variant: a connection attempt that could not be transmitted is not taken back.
Unsent == "DC_CONNECTING"
Abandoned == "DC_DISCONNECTED"

ConnectStart(t) ==
  /\ Holds(t, "connect")
  /\ dc.state \notin {"DC_CONNECTED", "DC_CONNECTING"}
  /\ \E ok \in BOOLEAN :
       /\ Py("transmit", ok)
       /\ dc' = [dc EXCEPT !.state = IF ok THEN "DC_CONNECTING" ELSE Abandoned]
       /\ IF ok THEN Wait(t) ELSE Abort(t)
  /\ UNCHANGED <<room, object>>

ConnectEnds(t) ==
  \/ /\ Resumes(t, "connect", {"woken"})
     /\ Reset("DC_CONNECTED", dc.last_response)
     /\ mutex' = t /\ thr' = [thr EXCEPT ![t].at = "established", ![t].res = "DC_OK"]
     /\ UNCHANGED <<object, raises>>
  \/ /\ Resumes(t, "connect", {"late", "failed"})
     /\ dc' = [dc EXCEPT !.state = "DC_DISCONNECTED"]
     /\ IF thr[t].at = "late" THEN Unlocking(t, "DC_NOT_CONNECTED") ELSE Abort(t)
     /\ UNCHANGED <<room, object, raises>>

Disconnect(t) ==
  /\ Holds(t, "disconnect")
  /\ IF dc.state = "DC_CONNECTING"
       THEN Refuse(t, "DC_FAILURE") /\ UNCHANGED dc
       ELSE Unlocking(t, "DC_OK") /\ dc' = [dc EXCEPT !.state = "DC_DISCONNECTED"]
  /\ UNCHANGED <<room, object, raises>>
-----------------------------------------------------------------------------
(* sendMessage and getMessage *)

SendRefused(t) ==
  /\ Holds(t, "sendMessage")
  /\ dc.state # "DC_CONNECTED"
  /\ Refuse(t, IF dc.state = "DC_TRANSMITTING" THEN "DC_FAILURE" ELSE "DC_NOT_CONNECTED")
  /\ UNCHANGED <<dc, room, object, raises>>

\* One attempt, from structure d: the frame is written and the thread waits.
Attempt(t, d) ==
  \E ok \in BOOLEAN :
    /\ Py("transmit", ok)
    /\ dc' = IF ok THEN d ELSE [d EXCEPT !.state = "DC_CONNECTED"]
    /\ IF ok THEN Wait(t) ELSE Abort(t)

SendStart(t) ==
  /\ Holds(t, "sendMessage")
  /\ dc.state = "DC_CONNECTED"
  /\ Attempt(t, [dc EXCEPT !.state = "DC_TRANSMITTING", !.failure_count = 0])
  /\ UNCHANGED <<room, object>>

Unanswered(t) ==
  \/ Resumes(t, "sendMessage", {"late"})
  \/ Resumes(t, "sendMessage", {"woken"}) /\ dc.last_response = "DC_RESP_REJECT"
\* Variant: a NACK is no failure.
TimeoutsOnly(t) == IF thr[t].at = "late" THEN dc.failure_count + 1 ELSE dc.failure_count
FailureCount(t) == dc.failure_count + 1
\* Variant: one attempt too many.
RepeatsOnce(t) == FailureCount(t) <= MaxFailures
Repeats(t) == FailureCount(t) < MaxFailures

SendAgain(t) ==
  /\ Unanswered(t) /\ Repeats(t)
  /\ Attempt(t, [dc EXCEPT !.failure_count = FailureCount(t)])
  /\ UNCHANGED <<room, object>>
SendConfirmed(t) ==
  /\ Resumes(t, "sendMessage", {"woken"}) /\ dc.last_response = "DC_RESP_OK"
  /\ dc' = [dc EXCEPT !.state = "DC_CONNECTED"]
  /\ Unlocking(t, "DC_OK")
  /\ UNCHANGED <<room, object, raises>>
SendLinkReset(t) ==
  /\ \/ Resumes(t, "sendMessage", {"woken"}) /\ dc.last_response = "DC_RESP_NOLINK"
     \/ Unanswered(t) /\ ~Repeats(t)
  /\ Reset("DC_DISCONNECTED", dc.last_response)
  /\ Unlocking(t, "DC_LINK_RESET")
  /\ UNCHANGED <<object, raises>>
SendWaitFailed(t) ==
  /\ Resumes(t, "sendMessage", {"failed"})
  /\ dc' = [dc EXCEPT !.state = "DC_CONNECTED"]
  /\ Abort(t)
  /\ UNCHANGED <<room, object, raises>>

LinkUp == dc.state \in {"DC_CONNECTED", "DC_TRANSMITTING"}

GetNothing(t) ==
  /\ Holds(t, "getMessage") \/ Holds(t, "copyMessage")
  /\ ~LinkUp \/ dc.pending = NoMsg
  /\ announced' = [announced EXCEPT ![t] = NoMsg] /\ outdated' = outdated \ {t}
  /\ Unlocking(t, IF LinkUp THEN "DC_OK" ELSE "DC_NOT_CONNECTED")
  /\ UNCHANGED <<dc, overrun, object, raises>>
GetSize(t) ==
  /\ Holds(t, "getMessage") /\ LinkUp /\ dc.pending # NoMsg
  /\ announced' = [announced EXCEPT ![t] = dc.pending] /\ outdated' = outdated \ {t}
  /\ Unlocking(t, "DC_OK")
  /\ UNCHANGED <<dc, overrun, object, raises>>
\* Nothing looks whether the message still fits: a longer one is written past the array on
\* the stack.  What that does is undefined; the steps after an overrun stand for the
\* outcome in which nothing that lay behind the array is used again.
CopyMessage(t) ==
  /\ Holds(t, "copyMessage") /\ LinkUp /\ dc.pending # NoMsg
  /\ \E ok \in BOOLEAN :
       /\ Py("transmit", ok)
       /\ IF ok THEN /\ Unlocking(t, "DC_OK")
                     /\ dc' = [dc EXCEPT !.pending = NoMsg]
                ELSE Abort(t) /\ UNCHANGED dc
       /\ announced' = [announced EXCEPT ![t] = NoMsg]
       /\ outdated' = IF ok THEN Copying \ {t} ELSE outdated \ {t}
  /\ overrun' = IF dc.pending > announced[t] THEN overrun \cup {t} ELSE overrun
  /\ UNCHANGED object
-----------------------------------------------------------------------------
(* processData, on the receive thread: an octet completes a frame, or does not *)

Receives == Holds(Receiver, "processData")
\* An octet inside a frame, a damaged frame, or one that the state makes no use of.
ReceiveNothing ==
  /\ Receives
  /\ Unlocking(Receiver, "DC_OK")
  /\ UNCHANGED <<dc, room, object, raises>>

\* Variant: the message that waits to be picked up is overwritten.
AcceptsAnyData == LinkUp
AcceptsData == LinkUp /\ dc.pending = NoMsg

ReceiveData ==
  /\ Receives /\ AcceptsData
  /\ \E n \in Size : dc' = [dc EXCEPT !.pending = n]
  /\ Unlocking(Receiver, "DC_OK")
  /\ UNCHANGED <<room, object, raises>>
\* A repeated frame is acknowledged again.
ReceiveRepeat ==
  /\ Receives /\ LinkUp /\ dc.pending = NoMsg
  /\ \E ok \in BOOLEAN :
       /\ Py("transmit", ok)
       /\ IF ok THEN Unlocking(Receiver, "DC_OK") ELSE Abort(Receiver)
  /\ UNCHANGED <<dc, room, object>>

\* notify() wakes one thread that waits.  Its choice may fall on a thread whose time is
\* up but which is still listed; then nobody is woken.
Notified ==
  LET asleep == {t \in Caller : thr[t].at = "wait"}
      late == {t \in Caller : thr[t].at = "late"}
  IN  {[thr EXCEPT ![t].at = "woken"] : t \in asleep}
        \cup (IF asleep = {} \/ late # {} THEN {thr} ELSE {})
Signal ==
  \E ok \in BOOLEAN :
    /\ Py("condvarSignal", ok)
    /\ IF ok
         THEN /\ mutex' = Receiver
              /\ \E th \in Notified :
                   thr' = [th EXCEPT ![Receiver].at = "unlock", ![Receiver].res = "DC_OK"]
         ELSE Abort(Receiver)

\* The expected ACK, or a NACK.
ReceiveAnswer ==
  /\ Receives /\ dc.state = "DC_TRANSMITTING"
  /\ \E r \in {"DC_RESP_OK", "DC_RESP_REJECT"} : dc' = [dc EXCEPT !.last_response = r]
  /\ Signal
  /\ UNCHANGED <<room, object>>
ReceiveConn ==
  /\ Receives
  /\ \/ Py("transmit", FALSE) /\ Abort(Receiver) /\ UNCHANGED <<dc, room>>
     \/ /\ Reset(IF dc.state = "DC_CONNECTING" THEN "DC_CONNECTING" ELSE "DC_CONNECTED",
                 CASE dc.state = "DC_TRANSMITTING" -> "DC_RESP_NOLINK"
                   [] dc.state = "DC_CONNECTING" -> "DC_RESP_OK"
                   [] OTHER -> dc.last_response)
        /\ IF dc.state \in {"DC_TRANSMITTING", "DC_CONNECTING"}
             THEN Signal
             ELSE Unlocking(Receiver, "DC_OK") /\ UNCHANGED raises
  /\ UNCHANGED object
ReceiveConnAck ==
  /\ Receives /\ dc.state = "DC_CONNECTING"
  /\ dc' = [dc EXCEPT !.last_response = "DC_RESP_OK"]
  /\ Signal
  /\ UNCHANGED <<room, object>>
-----------------------------------------------------------------------------
(* The end of a wait *)

Expire(t) ==
  /\ thr[t].at = "wait"
  /\ thr' = [thr EXCEPT ![t].at = "late"]
  /\ UNCHANGED <<mutex, dc, room, object, raises>>
WaitRaises(t) ==
  /\ thr[t].at = "wait"
  /\ Py("condvarWait", FALSE)
  /\ thr' = [thr EXCEPT ![t].at = "failed", ![t].exc = TRUE]
  /\ UNCHANGED <<mutex, dc, room, object>>

\* An interrupt while the wait is getting the lock back: the cleanup runs without it.
Interrupted(t) ==
  /\ thr[t].at \in {"woken", "late", "failed"}
  /\ Py("condvarWait", FALSE)
  /\ dc' = [dc EXCEPT !.state =
              IF thr[t].fn = "connect" THEN "DC_DISCONNECTED" ELSE "DC_CONNECTED"]
  /\ End(t, "DC_FAILURE", TRUE)
  /\ UNCHANGED <<mutex, room, object>>

\* A step that begins with the acquisition of the lock.
Acquire(t) ==
  \/ ConnectRefused(t) \/ ConnectStart(t) \/ ConnectEnds(t) \/ Disconnect(t)
  \/ SendRefused(t) \/ SendStart(t) \/ SendAgain(t) \/ SendConfirmed(t)
  \/ SendLinkReset(t) \/ SendWaitFailed(t)
  \/ GetNothing(t) \/ GetSize(t) \/ CopyMessage(t)
Process ==
  \/ ReceiveNothing \/ ReceiveData \/ ReceiveRepeat \/ ReceiveAnswer
  \/ ReceiveConn \/ ReceiveConnAck
Leave(t) == Unlock(t) \/ UndoConnect(t)

Next ==
  \/ Construct \/ Stop \/ ReceiverEnds \/ Read \/ Process
  \/ \E t \in Caller :
       CallMethod(t) \/ BadMessage(t) \/ Acquire(t) \/ Expire(t)
       \/ WaitRaises(t) \/ Interrupted(t)
  \/ \E t \in Thread : LockRaises(t) \/ Leave(t) \/ UnlockRaises(t)
Spec == Init /\ [][Next]_vars

\* Waits time out, a thread that asks for the lock again and again gets it, no thread
\* stops between two callbacks, and a closed pipe ends the receive thread.
Fairness ==
  /\ \A t \in Caller : WF_vars(Expire(t)) /\ SF_vars(Acquire(t))
  /\ \A t \in Thread : WF_vars(Leave(t))
  /\ SF_vars(Process) /\ WF_vars(ReceiverEnds)
\* Each connection starts the count of failures of a transmission under way anew: peers
\* and threads that connect again and again could keep the call from returning.
LinkSettles == <>[][~ReceiveConn /\ \A t \in Caller : ~ConnectStart(t)]_vars
LiveSpec == Spec /\ Fairness /\ LinkSettles
-----------------------------------------------------------------------------
TypeOK ==
  /\ mutex \in Thread \cup {Nobody}
  /\ thr \in [Thread -> Call]
  /\ dc \in DeadcomL2
  /\ announced \in [Thread -> Nat] /\ outdated \subseteq Thread
  /\ overrun \subseteq Thread
  /\ object \in {"new", "open", "closed", "void"}
  /\ raises \in Nat

\* Whatever raises, no call leaves the link in a state that only its own end could
\* have changed: somebody waits in connect while it is connecting, and in sendMessage
\* while it is transmitting.  (Otherwise every later call would be refused.)
Attempts(fn) == \E t \in Caller : thr[t].fn = fn /\ thr[t].at \in Waiting
StateOwned ==
  /\ dc.state = "DC_CONNECTING" => Attempts("connect")
  /\ dc.state = "DC_TRANSMITTING" => Attempts("sendMessage")

\* An exception that a callback raised is what the caller gets, and no other outcome is
\* returned with an exception pending.
ExceptionsReported ==
  \A t \in Thread :
    thr[t].at \in {"outside", "ended"} => (thr[t].exc <=> thr[t].ret = "callback's exception")

\* getMessage copies a message into room too small for it only if, since it found out
\* the length, the link was reset or another thread picked the message up, and a longer
\* message came.  Then it does: nothing in getMessage or dcGetReceivedMsg prevents it.
\* As long as neither happens the lock, though it is free between the two calls, lets
\* nobody replace the message.
OverrunsOnlyReplaced ==
  [][\A t \in overrun' \ overrun : t \in Copying \cap outdated /\ dc.pending > announced[t]]_vars

\* A call that ends without a callback's exception leaves the lock released, on each of
\* the many ways out of dcl2.c.
Ends(t) == thr[t].fn # "none" /\ thr'[t].fn = "none"
ReleasedOnReturn == [][\A t \in Thread : Ends(t) /\ mutex' = t => thr'[t].exc]_vars

\* No thread keeps the lock when its call is over (dcl2.h: mutexUnlock "may be called
\* again during the cleanup").
LockReleased == \A t \in Thread : thr[t].at \in {"outside", "ended"} => mutex # t

\* Every call returns and so does stop, unless some call has kept the lock.
LockKept == \E t \in Thread : mutex = t /\ thr[t].at \in {"outside", "lock", "ended"}
CallsReturn == \A t \in Caller : thr[t].fn # "none" ~> thr[t].fn = "none" \/ LockKept
StopReturns == object = "closed" ~> thr[Receiver].at = "ended" \/ LockKept
=============================================================================
