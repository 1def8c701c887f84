--------------------------- MODULE PthreadsProofs ---------------------------
(* With one waiter, the condition variable of Pthreads is the one of Condvar. *)
EXTENDS Pthreads, TLAPS

\* Who holds the mutex is inside the library, and nobody else is.
MutexInv == \A t \in Thread : pc[t] = "inside" <=> owner = t

PthreadsInv == TypeOK /\ MutexInv

\* The mutex is what makes every step of a thread in the library a step of its own:
\* for any number of waiters, only its holder is inside.
THEOREM MutexCorrect == Spec => []PthreadsInv
<1> USE ThreadAssumption DEF Thread, PthreadsInv
<1>1. Init => PthreadsInv
  BY DEF Init, TypeOK, MutexInv, Place
<1>2. PthreadsInv /\ [Next]_vars => PthreadsInv'
  <2> SUFFICES ASSUME PthreadsInv, [Next]_vars PROVE PthreadsInv'
    OBVIOUS
  <2> USE DEF TypeOK, MutexInv, Place, Waiting
  <2>1. ASSUME NEW t \in Thread, mutexLock(t) PROVE PthreadsInv'
    BY <2>1 DEF mutexLock
  <2>2. ASSUME NEW t \in Thread, mutexUnlock(t) PROVE PthreadsInv'
    BY <2>2 DEF mutexUnlock
  <2>3. ASSUME NEW r \in Receiver, condvarSignal(r) PROVE PthreadsInv'
    BY <2>3 DEF condvarSignal, WakeOne, Asleep
  <2>4. ASSUME NEW t \in Caller, condvarWait(t) PROVE PthreadsInv'
    BY <2>4 DEF condvarWait, ExpectSignal
  <2>5. ASSUME NEW t \in Caller, Deadline(t) PROVE PthreadsInv'
    BY <2>5 DEF Deadline
  <2>6. ASSUME NEW t \in Caller, TimeUp(t) PROVE PthreadsInv'
    BY <2>6 DEF TimeUp
  <2>7. ASSUME NEW t \in Caller, SpuriousWakeup(t) PROVE PthreadsInv'
    BY <2>7 DEF SpuriousWakeup
  <2>8. ASSUME NEW t \in Caller, Woken(t) PROVE PthreadsInv'
    <3>1. CASE wakeup_is_spurious
      <4>1. PICK p \in {"late", "asleep"} : pc' = [pc EXCEPT ![t] = p]
        BY <2>8, <3>1 DEF Woken, Recheck, SleepAgain
      <4> QED BY <2>8, <3>1, <4>1 DEF Woken, Recheck, SleepAgain
    <3>2. CASE ~wakeup_is_spurious
      <4>1. /\ pc' = [pc EXCEPT ![t] = "inside"]
            /\ owner = Nobody /\ owner' = t
        BY <2>8, <3>2 DEF Woken, Recheck, Return
      <4>2. MutexInv'
        BY <4>1
      <4>3. TypeOK'
        BY <2>8, <3>2, <4>1 DEF Woken, Recheck, Return
      <4> QED BY <4>2, <4>3
    <3> QED BY <3>1, <3>2
  <2>9. ASSUME NEW t \in Caller, Late(t) PROVE PthreadsInv'
    BY <2>9 DEF Late, LeaveOnTimeout, Return
  <2>10. CASE UNCHANGED vars
    BY <2>10 DEF vars
  <2> QED BY <2>1, <2>2, <2>3, <2>4, <2>5, <2>6, <2>7, <2>8, <2>9, <2>10 DEF Next
<1> QED BY <1>1, <1>2, PTL DEF Spec

\* A signal ends a wait of a single waiter: it finds the waiter asleep and wakes it, or
\* awake and about to look at the flag.
THEOREM NoMissedSignalCorrect ==
  ASSUME NEW c, Caller = {c}
  PROVE  Spec => []NoMissedSignal
<1>1. Init => NoMissedSignal
  BY DEF Init, NoMissedSignal
<1>2. PthreadsInv /\ NoMissedSignal /\ [Next]_vars => NoMissedSignal'
  <2> SUFFICES ASSUME PthreadsInv, NoMissedSignal, [Next]_vars PROVE NoMissedSignal'
    OBVIOUS
  <2> USE ThreadAssumption DEF Thread, PthreadsInv, TypeOK, NoMissedSignal
  <2>1. ASSUME NEW t \in Thread, mutexLock(t) \/ mutexUnlock(t) PROVE NoMissedSignal'
    BY <2>1 DEF mutexLock, mutexUnlock
  <2>2. ASSUME NEW r \in Receiver, condvarSignal(r) PROVE NoMissedSignal'
    BY <2>2 DEF condvarSignal, WakeOne, Asleep
  <2>3. ASSUME NEW t \in Caller, condvarWait(t) PROVE NoMissedSignal'
    BY <2>3 DEF condvarWait, ExpectSignal
  <2>4. ASSUME NEW t \in Caller, Deadline(t) \/ TimeUp(t) \/ SpuriousWakeup(t)
        PROVE  NoMissedSignal'
    BY <2>4 DEF Deadline, TimeUp, SpuriousWakeup
  <2>5. ASSUME NEW t \in Caller, Woken(t) \/ Late(t) PROVE NoMissedSignal'
    BY <2>5 DEF Woken, Recheck, Late, LeaveOnTimeout, SleepAgain, Return
  <2>6. CASE UNCHANGED vars
    BY <2>6 DEF vars
  <2> QED BY <2>1, <2>2, <2>3, <2>4, <2>5, <2>6 DEF Next
<1> QED BY <1>1, <1>2, MutexCorrect, PTL DEF Spec

\* For any number of waiters: if the flag would end a wait, there was a signal during
\* that wait.
FlagMeansSignal == ~wakeup_is_spurious => \A t \in Caller : pc[t] \in Waiting => t \in signalled

\* Neither a spurious wakeup nor a signal from before the wait makes condvarWait report
\* a signal, with any number of waiters.
THEOREM SignalsOnlyCorrect == Spec => SignalsOnly
<1>1. Init => FlagMeansSignal
  BY DEF Init, FlagMeansSignal
<1>2. PthreadsInv /\ FlagMeansSignal /\ [Next]_vars => FlagMeansSignal'
  <2> SUFFICES ASSUME PthreadsInv, FlagMeansSignal, [Next]_vars PROVE FlagMeansSignal'
    OBVIOUS
  <2> USE ThreadAssumption
      DEF Thread, PthreadsInv, TypeOK, MutexInv, Waiting, FlagMeansSignal
  <2>1. ASSUME NEW t \in Thread, mutexLock(t) \/ mutexUnlock(t) PROVE FlagMeansSignal'
    BY <2>1 DEF mutexLock, mutexUnlock
  <2>2. ASSUME NEW r \in Receiver, condvarSignal(r) PROVE FlagMeansSignal'
    BY <2>2 DEF condvarSignal, WakeOne, Asleep
  <2>3. ASSUME NEW t \in Caller, condvarWait(t) PROVE FlagMeansSignal'
    BY <2>3 DEF condvarWait, ExpectSignal
  <2>4. ASSUME NEW t \in Caller, Deadline(t) \/ TimeUp(t) \/ SpuriousWakeup(t)
        PROVE  FlagMeansSignal'
    BY <2>4 DEF Deadline, TimeUp, SpuriousWakeup
  <2>5. ASSUME NEW t \in Caller, Woken(t) \/ Late(t) PROVE FlagMeansSignal'
    BY <2>5 DEF Woken, Recheck, Late, LeaveOnTimeout, SleepAgain, Return
  <2>6. CASE UNCHANGED vars
    BY <2>6 DEF vars
  <2> QED BY <2>1, <2>2, <2>3, <2>4, <2>5, <2>6 DEF Next
<1>3. PthreadsInv /\ FlagMeansSignal /\ [Next]_vars
        => [\A t \in Caller : ReportsSignal(t) => t \in signalled]_vars
  <2> SUFFICES ASSUME PthreadsInv, FlagMeansSignal, [Next]_vars,
                      NEW u \in Caller, ReportsSignal(u)
               PROVE  u \in signalled
    OBVIOUS
  <2>1. pc[u] = "woken" /\ pc'[u] = "inside" /\ ~timed_out'[u]
    BY DEF ReportsSignal
  <2>2. u \in signalled \/ wakeup_is_spurious
    BY <2>1 DEF FlagMeansSignal, Waiting
  <2>3. SUFFICES ASSUME wakeup_is_spurious PROVE FALSE
    BY <2>2
  <2> USE <2>1, <2>3, ThreadAssumption DEF Thread, PthreadsInv, TypeOK, MutexInv
  <2>4. ASSUME NEW t \in Thread, mutexLock(t) \/ mutexUnlock(t) PROVE FALSE
    BY <2>4 DEF mutexLock, mutexUnlock
  <2>5. ASSUME NEW r \in Receiver, condvarSignal(r) PROVE FALSE
    BY <2>5 DEF condvarSignal, WakeOne, Asleep
  <2>6. ASSUME NEW t \in Caller,
               condvarWait(t) \/ Deadline(t) \/ TimeUp(t) \/ SpuriousWakeup(t)
        PROVE  FALSE
    BY <2>6 DEF condvarWait, Deadline, TimeUp, SpuriousWakeup
  <2>7. ASSUME NEW t \in Caller, Woken(t) PROVE FALSE
    <3>1. pc' = [pc EXCEPT ![t] = "late"] \/ pc' = [pc EXCEPT ![t] = "asleep"]
      BY <2>7 DEF Woken, Recheck, SleepAgain
    <3> QED BY <3>1
  <2>8. ASSUME NEW t \in Caller, Late(t) PROVE FALSE
    BY <2>8 DEF Late, LeaveOnTimeout, Return
  <2>9. CASE UNCHANGED vars
    BY <2>9 DEF vars
  <2> QED BY <2>4, <2>5, <2>6, <2>7, <2>8, <2>9 DEF Next
<1> QED BY <1>1, <1>2, <1>3, MutexCorrect, PTL DEF Spec, SignalsOnly

\* The refinement, for one waiter and any number of threads that signal: every step of
\* the code is a step of the condition variable that dcl2 counts on, or a stutter.
THEOREM CondvarImplemented ==
  ASSUME NEW c, Caller = {c}
  PROVE  Spec => ImplementsCondvar
<1> USE DEF CV!Init, CV!vars
<1>1. Init => CV!Init
  BY DEF Init, Thread
<1>2. PthreadsInv /\ NoMissedSignal /\ [Next]_vars => [CV!Next]_(CV!vars)
  <2> SUFFICES ASSUME PthreadsInv, NoMissedSignal, [Next]_vars
               PROVE  [CV!Next]_(CV!vars)
    OBVIOUS
  <2> USE ThreadAssumption DEF Thread, PthreadsInv, TypeOK, MutexInv, NoMissedSignal
  <2>1. ASSUME NEW t \in Thread, mutexLock(t) \/ mutexUnlock(t) PROVE UNCHANGED CV!vars
    <3>1. /\ pc[t] \in {"outside", "inside"}
          /\ \/ pc' = [pc EXCEPT ![t] = "inside"]
             \/ pc' = [pc EXCEPT ![t] = "outside"]
          /\ UNCHANGED <<wakeup_is_spurious, timed_out>>
      BY <2>1 DEF mutexLock, mutexUnlock
    <3>2. CASE t = c
      BY <3>1, <3>2
    <3>3. CASE t # c
      <4>1. pc'[c] = pc[c] /\ pc[c] \in Place
        BY <3>1, <3>3
      <4> QED BY <3>1, <4>1 DEF Place, Waiting
    <3> QED BY <3>2, <3>3
  <2>2. ASSUME NEW r \in Receiver, condvarSignal(r) PROVE CV!Signal \/ UNCHANGED CV!vars
    <3>1. ~wakeup_is_spurious' /\ UNCHANGED timed_out
      BY <2>2 DEF condvarSignal
    <3>2. CASE pc[c] = "asleep"
      <4>1. pc'[c] = "woken" /\ wakeup_is_spurious
        BY <2>2, <3>2 DEF condvarSignal, WakeOne, Asleep
      <4> QED BY <3>1, <3>2, <4>1 DEF CV!Signal
    <3>3. CASE pc[c] # "asleep"
      <4>1. pc' = pc
        BY <2>2, <3>3 DEF condvarSignal, WakeOne, Asleep
      <4>2. CASE pc[c] = "woken" /\ wakeup_is_spurious
        BY <3>1, <4>1, <4>2 DEF CV!Signal
      <4>3. CASE pc[c] # "woken" \/ ~wakeup_is_spurious
        BY <3>1, <3>3, <4>1, <4>3 DEF Place, Waiting
      <4> QED BY <4>2, <4>3
    <3> QED BY <3>2, <3>3
  <2>3. ASSUME NEW t \in Caller, condvarWait(t) PROVE CV!Wait(t)
    BY <2>3 DEF condvarWait, ExpectSignal, CV!Wait
  <2>4. ASSUME NEW t \in Caller, Deadline(t) \/ SpuriousWakeup(t) PROVE UNCHANGED CV!vars
    BY <2>4 DEF Deadline, SpuriousWakeup
  <2>5. ASSUME NEW t \in Caller, TimeUp(t) PROVE CV!Expire(t)
    BY <2>5 DEF TimeUp, CV!Expire
  <2>6. ASSUME NEW t \in Caller, Woken(t)
        PROVE  CV!Return(t) \/ CV!Expire(t) \/ UNCHANGED CV!vars
    <3>1. CASE wakeup_is_spurious /\ t \in overdue
      BY <2>6, <3>1 DEF Woken, Recheck, SleepAgain, CV!Expire
    <3>2. CASE wakeup_is_spurious /\ t \notin overdue
      BY <2>6, <3>2 DEF Woken, Recheck, SleepAgain
    <3>3. CASE ~wakeup_is_spurious
      BY <2>6, <3>3 DEF Woken, Recheck, Return, CV!Return
    <3> QED BY <3>1, <3>2, <3>3
  <2>7. ASSUME NEW t \in Caller, Late(t) PROVE CV!Return(t)
    BY <2>7 DEF Late, LeaveOnTimeout, Return, CV!Return
  <2>8. CASE UNCHANGED vars
    BY <2>8 DEF vars
  <2> QED BY <2>1, <2>2, <2>3, <2>4, <2>5, <2>6, <2>7, <2>8 DEF Next, CV!Next
<1> QED BY <1>1, <1>2, MutexCorrect, NoMissedSignalCorrect, PTL
        DEF Spec, ImplementsCondvar, CV!Spec
=============================================================================
