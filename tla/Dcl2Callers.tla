---------------------------- MODULE Dcl2Callers ----------------------------
(***************************************************************************)
(* Why the threads of a station do not get in each other's way within one  *)
(* session: the inductive invariant behind OneSender and CopiesAnnounced   *)
(* of Dcl2, for any number of threads and whatever is lost, late or fails. *)
(*                                                                         *)
(* dcSendMessage keeps others out by DC_TRANSMITTING alone, and the size   *)
(* of the pending message is announced with the mutex free afterwards.     *)
(* Both are undone by whatever resets the structure.  With one connection  *)
(* attempt in all this happens when the link comes up, which is before a   *)
(* station has done anything else, or when dcSendMessage gives up, after   *)
(* which the station is left alone.                                        *)
(***************************************************************************)
EXTENDS Dcl2

\* The hypothesis: the two stations together attempt to connect at most once.
OneSession == \A s \in Station : MaxConnect[s] + MaxConnect[Peer(s)] <= 1

CONN(s) == {i \in 1 .. Len(link[s]) : link[s][i].frame = "CONN"}
AllIdle(s) == \A t \in Thread : Idle(s, t)

\* Nothing has happened at s.
Untouched(s) ==
  dc[s].state = "DC_DISCONNECTED" /\ AllIdle(s) /\ msg_len[s] = NoMsg

\* A CONN reaches a station to which nothing has happened, and no second one follows.
ConnInv(s) ==
  /\ conns[s] <= MaxConnect[s]
  /\ conns[s] + conns[Peer(s)] = 0 => Untouched(s) /\ CONN(s) = {}
  /\ CONN(s) # {} => Untouched(s)
  /\ \A i, j \in CONN(s) : i = j

\* A connect call is alone at its station, a send call alone among send calls.
CallsInv(s) ==
  \A t \in Thread :
    /\ thr[s][t].fn = "dcConnect" =>
         /\ dc[s].state = "DC_CONNECTING" /\ msg_len[s] = NoMsg
         /\ \A u \in Thread : u # t => Idle(s, u)
    /\ thr[s][t].fn = "dcSendMessage" =>
         /\ dc[s].state \in {"DC_TRANSMITTING", "DC_DISCONNECTED"}
         /\ thr[s][t].frame.frame = "DATA"
         /\ \A u \in Thread : thr[s][u].fn = "dcSendMessage" => u = t

\* The message whose size was announced is still there, or the link is down for good.
AnnouncedInv(s) ==
  msg_len[s] # NoMsg =>
    \/ dc[s].extractionComplete /\ dc[s].extractionBuffer = msg_len[s]
    \/ dc[s].state = "DC_DISCONNECTED" /\ AllIdle(s)

CallersInv == \A s \in Station : ConnInv(s) /\ CallsInv(s) /\ AnnouncedInv(s)
=============================================================================
