------------------------------ MODULE Condvar ------------------------------
(***************************************************************************)
(* The condition variable dcl2 counts on (DeadcomL2ThreadingMethods): a    *)
(* wait ends by a signal or by its timeout, whichever is first, and the    *)
(* thread is told which.  Block, Signal and Expire of Dcl2 are its steps.  *)
(***************************************************************************)
CONSTANT Caller

VARIABLES
  wait,      \* wait[t]: "none", or what became of the wait of t
  timed_out  \* timed_out[t]: what the last wait of t returned

vars == <<wait, timed_out>>

Init ==
  /\ wait = [t \in Caller |-> "none"]
  /\ timed_out = [t \in Caller |-> FALSE]

Wait(t) ==
  /\ wait[t] = "none"
  /\ wait' = [wait EXCEPT ![t] = "blocked"]
  /\ UNCHANGED timed_out

\* One waiter is woken; without one, the signal is lost.
Signal ==
  /\ \E t \in Caller : wait[t] = "blocked" /\ wait' = [wait EXCEPT ![t] = "signaled"]
  /\ UNCHANGED timed_out

Expire(t) ==
  /\ wait[t] = "blocked"
  /\ wait' = [wait EXCEPT ![t] = "expired"]
  /\ UNCHANGED timed_out

Return(t) ==
  /\ wait[t] \in {"signaled", "expired"}
  /\ timed_out' = [timed_out EXCEPT ![t] = wait[t] = "expired"]
  /\ wait' = [wait EXCEPT ![t] = "none"]

Next == Signal \/ \E t \in Caller : Wait(t) \/ Expire(t) \/ Return(t)
Spec == Init /\ [][Next]_vars
=============================================================================
