------------------------------ MODULE Pthreads ------------------------------
(***************************************************************************)
(* The mutex and the condition variable of dcl2-pthreads.c.  Callers are   *)
(* threads in dcConnect or dcSendMessage, which wait; receivers are        *)
(* threads in dcProcessData, which signal.  pthread_cond_timedwait may     *)
(* return for no reason, so a flag shared by all waiters says whether      *)
(* somebody has signalled.                                                 *)
(***************************************************************************)
CONSTANTS Caller, Receiver, Nobody

ASSUME ThreadAssumption ==
  /\ Caller \cap Receiver = {}
  /\ Nobody \notin Caller \cup Receiver

VARIABLES
  owner,               \* who holds the mutex
  pc,                  \* where each thread is
  wakeup_is_spurious,  \* the flag in dcl2_pthread_cond_t
  overdue,             \* callers whose deadline ts has passed
  timed_out,           \* what the last wait of a caller returned
  signalled            \* callers for whom there was a signal during this wait

vars == <<owner, pc, wakeup_is_spurious, overdue, timed_out, signalled>>

Thread == Caller \cup Receiver
\* In pthread_cond_timedwait a thread is asleep until it is woken or its time is up
\* ("late"); to return it needs the mutex again.
Waiting == {"asleep", "woken", "late"}
Place == {"outside", "inside"} \cup Waiting

Init ==
  /\ owner = Nobody
  /\ pc = [t \in Thread |-> "outside"]
  /\ wakeup_is_spurious = TRUE
  /\ overdue = {}
  /\ timed_out = [t \in Caller |-> FALSE]
  /\ signalled = {}

mutexLock(t) ==
  /\ pc[t] = "outside" /\ owner = Nobody
  /\ owner' = t
  /\ pc' = [pc EXCEPT ![t] = "inside"]
  /\ UNCHANGED <<wakeup_is_spurious, overdue, timed_out, signalled>>

mutexUnlock(t) ==
  /\ owner = t
  /\ owner' = Nobody
  /\ pc' = [pc EXCEPT ![t] = "outside"]
  /\ UNCHANGED <<wakeup_is_spurious, overdue, timed_out, signalled>>

\* Variant: a signal from before the wait is not cleared.
WaitForOldSignal(t) == UNCHANGED wakeup_is_spurious
ExpectSignal(t) == wakeup_is_spurious' = TRUE

condvarWait(t) ==
  /\ owner = t
  /\ ExpectSignal(t)
  /\ owner' = Nobody
  /\ pc' = [pc EXCEPT ![t] = "asleep"]
  /\ overdue' = overdue \ {t}
  /\ signalled' = signalled \ {t}
  /\ UNCHANGED timed_out

Asleep == {t \in Caller : pc[t] = "asleep"}
\* Variant: the flag is set, but nobody is woken to see it.
WakeNobody == UNCHANGED pc
WakeOne ==
  \/ Asleep = {} /\ UNCHANGED pc
  \/ \E t \in Asleep : pc' = [pc EXCEPT ![t] = "woken"]

condvarSignal(r) ==
  /\ owner = r
  /\ wakeup_is_spurious' = FALSE
  /\ WakeOne
  /\ signalled' = signalled \cup {t \in Caller : pc[t] \in Waiting}
  /\ UNCHANGED <<owner, overdue, timed_out>>

\* The deadline of t passes.
Deadline(t) ==
  /\ pc[t] \in {"asleep", "woken"} /\ t \notin overdue
  /\ overdue' = overdue \cup {t}
  /\ UNCHANGED <<owner, pc, wakeup_is_spurious, timed_out, signalled>>

TimeUp(t) ==
  /\ pc[t] = "asleep" /\ t \in overdue
  /\ pc' = [pc EXCEPT ![t] = "late"]
  /\ UNCHANGED <<owner, wakeup_is_spurious, overdue, timed_out, signalled>>

SpuriousWakeup(t) ==
  /\ pc[t] = "asleep"
  /\ pc' = [pc EXCEPT ![t] = "woken"]
  /\ UNCHANGED <<owner, wakeup_is_spurious, overdue, timed_out, signalled>>

Return(t, expired) ==
  /\ owner' = t
  /\ pc' = [pc EXCEPT ![t] = "inside"]
  /\ timed_out' = [timed_out EXCEPT ![t] = expired]
  /\ UNCHANGED <<wakeup_is_spurious, overdue, signalled>>
\* Past the deadline pthread_cond_timedwait returns ETIMEDOUT at once.
SleepAgain(t) ==
  /\ pc' = [pc EXCEPT ![t] = IF t \in overdue THEN "late" ELSE "asleep"]
  /\ UNCHANGED <<owner, wakeup_is_spurious, overdue, timed_out, signalled>>

\* Variant: the flag is not looked at.
ReturnOnWakeup(t) == Return(t, FALSE)
Recheck(t) == IF wakeup_is_spurious THEN SleepAgain(t) ELSE Return(t, FALSE)

Woken(t) == pc[t] = "woken" /\ owner = Nobody /\ Recheck(t)

\* Variant: a timeout does not leave the loop.
LoopOnTimeout(t) == IF wakeup_is_spurious THEN SleepAgain(t) ELSE Return(t, TRUE)
LeaveOnTimeout(t) == Return(t, TRUE)

Late(t) == pc[t] = "late" /\ owner = Nobody /\ LeaveOnTimeout(t)

Next ==
  \/ \E t \in Thread : mutexLock(t) \/ mutexUnlock(t)
  \/ \E r \in Receiver : condvarSignal(r)
  \/ \E t \in Caller :
       \/ condvarWait(t) \/ Deadline(t) \/ TimeUp(t) \/ SpuriousWakeup(t)
       \/ Woken(t) \/ Late(t)
Spec == Init /\ [][Next]_vars

\* Time passes, nobody keeps the mutex for ever (neither a signal nor a wait is a
\* step the holder must take), and who asks for it again and again gets it.
Fairness ==
  /\ \A t \in Caller : WF_vars(Deadline(t)) /\ WF_vars(TimeUp(t))
  /\ \A t \in Thread : WF_vars(mutexUnlock(t))
  /\ \A t \in Caller : SF_vars(Woken(t)) /\ SF_vars(Late(t))
FairSpec == Spec /\ Fairness
-----------------------------------------------------------------------------
TypeOK ==
  /\ owner \in Thread \cup {Nobody}
  /\ pc \in [Thread -> Place]
  /\ wakeup_is_spurious \in BOOLEAN
  /\ overdue \subseteq Caller /\ signalled \subseteq Caller
  /\ timed_out \in [Caller -> BOOLEAN]

\* No waiter sleeps through a signal: the flag that says so is seen by a thread that is
\* on its way out.  (Of two waiters, one is woken; the other sleeps on.)
NoMissedSignal == \A t \in Caller : pc[t] = "asleep" => wakeup_is_spurious

\* A wait that reports a signal has been signalled since it began, with any number of
\* waiters: neither a spurious wakeup nor an old signal ends it.
ReportsSignal(t) == pc[t] = "woken" /\ pc'[t] = "inside" /\ ~timed_out'[t]
SignalsOnly == [][\A t \in Caller : ReportsSignal(t) => t \in signalled]_vars

\* A wait ends, whatever wakes the thread up and however often.
WaitReturns == \A t \in Caller : pc[t] \in Waiting ~> pc[t] = "inside"

\* A signal sets the flag, and the waiter will see it, whether or not it was the signal
\* that woke it.
CV ==
  INSTANCE Condvar WITH
    wait <- [t \in Caller |->
               CASE pc[t] \in {"outside", "inside"} -> "none"
                 [] pc[t] = "late" -> "expired"
                 [] pc[t] \in {"asleep", "woken"} ->
                      IF wakeup_is_spurious THEN "blocked" ELSE "signaled"]
\* With one waiter this is the condition variable dcl2 counts on: a wait ends by the
\* first of a signal and the timeout, and returns which of them it was.
ImplementsCondvar == CV!Spec
=============================================================================
