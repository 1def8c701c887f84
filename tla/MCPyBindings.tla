---------------------------- MODULE MCPyBindings ----------------------------
(***************************************************************************)
(* Instances of PyBindings for TLC: two threads of an application, both of *)
(* which connect; one disconnects, the other one sends and reads.          *)
(***************************************************************************)
EXTENDS PyBindings, TLC

CONSTANTS t1, t2

TwoUses == (t1 :> {"connect", "disconnect"}) @@
           (t2 :> {"connect", "sendMessage", "getMessage"})
\* The pipe fails, or an interrupt comes while a thread waits for the lock or a signal.
AnyCallback == Callback
=============================================================================
