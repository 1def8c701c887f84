------------------------- MODULE LinkServiceProofs -------------------------
(***************************************************************************)
(* Proofs of what dcl2 promises the applications.  It implements           *)
(* LinkService: of the history variables, three actions change one each,   *)
(* and the inductive invariant of Dcl2Inv says that such a change is a     *)
(* step of the service.  And the threads of a station keep out of each     *)
(* other's way within a session: CallersInv of Dcl2Callers is inductive.   *)
(***************************************************************************)
EXTENDS Dcl2Once, Dcl2Callers

\* The actions of a thread that leave the history alone.
LEMMA SilentSteps ==
  ASSUME NEW s \in Station, NEW t \in Thread,
         \/ ConnectRefused(s, t) \/ ConnectStart(s, t) \/ ConnectResume(s, t)
         \/ Disconnect(s, t) \/ SendRefused(s, t) \/ SendAgain(s, t)
         \/ SendLinkReset(s, t) \/ SendWaitFailed(s, t)
         \/ Expire(s, t) \/ WaitFails(s, t)
  PROVE  UNCHANGED history
BY DEF ConnectRefused, ConnectStart, ConnectResume, Disconnect, SendRefused, SendAgain,
   SendLinkReset, SendWaitFailed, Expire, WaitFails

\* A message that is handed over is newer than all before it, and was accepted.
LEMMA PickUpStep ==
  ASSUME NEW s \in Station, TypeOK, CallInv(s), PickupInv(s), GetMessage(s)
  PROVE  Service!PickUp(s) \/ UNCHANGED history
<1> DEFINE m == dc[s].extractionBuffer
<1>1. CASE delivered' = [delivered EXCEPT ![s] = Append(@, m)]
  <2>1. m # NoMsg /\ m \in Nat
    BY DEF GetMessage, Pending, CallInv, TypeOK, DeadcomL2
  <2>2. m <= sent[Peer(s)] /\ sent[Peer(s)] \in Nat
    BY <2>1, PeerType DEF PickupInv, Newest, TypeOK
  <2>3. m \in 1 .. sent[Peer(s)]
    BY <2>1, <2>2 DEF NoMsg
  <2>4. \A i \in 1 .. Len(delivered[s]) : delivered[s][i] < m
    BY <2>1 DEF PickupInv
  <2>5. Service!Peer(s) = Peer(s)
    BY DEF Service!Peer, Peer
  <2>6. UNCHANGED <<sent, confirmed>>
    BY DEF GetMessage
  <2> HIDE DEF m
  <2> QED BY <1>1, <2>3, <2>4, <2>5, <2>6 DEF Service!PickUp
<1>2. CASE UNCHANGED delivered
  BY <1>2 DEF GetMessage, history
<1> QED BY <1>1, <1>2 DEF GetMessage

\* A message that is confirmed is one the station has accepted.
LEMMA ConfirmStep ==
  ASSUME NEW s \in Station, NEW t \in Thread, TypeOK, CallInv(s), SendConfirmed(s, t)
  PROVE  Service!Confirm(s)
<1> DEFINE m == thr[s][t].frame.msg
<1>1. Sending(s, t)
  BY DEF SendConfirmed, InSend, Sending
<1>2. m = sent[s] /\ sent[s] >= 1 /\ sent[s] \in Nat
  BY <1>1 DEF CallInv, TypeOK
<1>3. m \in 1 .. sent[s]
  BY <1>2
<1>4. confirmed' = [confirmed EXCEPT ![s] = @ \cup {m}] /\ UNCHANGED <<sent, delivered>>
  BY DEF SendConfirmed
<1> HIDE DEF m
<1> QED BY <1>3, <1>4 DEF Service!Confirm

LEMMA ServiceStep ==
  ASSUME TypeOK, AtMostOnceInv, [Next]_vars
  PROVE  Service!Next \/ UNCHANGED history
<1>1. Service!Station = Station
  BY DEF Service!Station, Station
<1>2. CASE UNCHANGED vars
  BY <1>2 DEF vars, history
<1>3. CASE Next
  <2>1. PICK s \in Station : StationStep(s) \/ \E t \in Thread : ThreadStep(s, t)
    BY <1>3 DEF Next
  <2>2. CallInv(s) /\ PickupInv(s)
    BY DEF AtMostOnceInv
  <2>3. CASE GetMessage(s)
    BY <1>1, <2>2, <2>3, PickUpStep DEF Service!Next
  <2>4. ASSUME NEW t \in Thread, SendStart(s, t)
        PROVE  Service!Next
    BY <1>1, <2>4 DEF SendStart, Service!Next, Service!Accept
  <2>5. ASSUME NEW t \in Thread, SendConfirmed(s, t)
        PROVE  Service!Next
    BY <1>1, <2>2, <2>5, ConfirmStep DEF Service!Next
  <2>6. ASSUME NEW t \in Thread, ThreadStep(s, t), ~SendStart(s, t), ~SendConfirmed(s, t)
        PROVE  UNCHANGED history
    BY <2>6, SilentSteps DEF ThreadStep, SendResume
  <2>7. ASSUME StationStep(s), ~GetMessage(s)
        PROVE  UNCHANGED history
    BY <2>7 DEF StationStep, GetSize, Receive, ReceiveData, ReceiveAck, ReceiveNack,
       ReceiveConn, ReceiveConnAck, LoseFrame, ForeignNack
  <2> QED BY <1>1, <2>1, <2>3, <2>4, <2>5, <2>6, <2>7
<1> QED BY <1>2, <1>3

\* The inductive invariant itself, for every value of the constants.
THEOREM AtMostOnceInvCorrect ==
  ASSUME SingleThread, PromptWakeup, SignalsSucceed
  PROVE  Spec => []AtMostOnceInv
<1>1. Init => TypeOK /\ AtMostOnceInv BY TypeInit, OnceInit
<1>2. TypeOK /\ AtMostOnceInv /\ [Next]_vars => TypeOK' /\ AtMostOnceInv'
  BY TypeNext, OnceNext
<1> QED BY <1>1, <1>2, PTL DEF Spec

\* dcl2 implements the service: with one call at a time per station, expired waiters that
\* go on before the next frame and signals that do not fail, everything that happens to
\* frames and connections is invisible to the applications, or a step of the service.
THEOREM ServiceImplemented ==
  ASSUME SingleThread, PromptWakeup, SignalsSucceed
  PROVE  Spec => ImplementsService
<1>1. Init => Service!Init
  BY DEF Init, Service!Init, Service!Station, Station
<1>2. Spec => []TypeOK BY TypeCorrect
<1>3. Spec => []AtMostOnceInv BY AtMostOnceInvCorrect
<1>4. TypeOK /\ AtMostOnceInv /\ [Next]_vars => [Service!Next]_(Service!vars)
  BY ServiceStep DEF Service!vars, history
<1> QED BY <1>1, <1>2, <1>3, <1>4, PTL DEF Spec, ImplementsService, Service!Spec
-----------------------------------------------------------------------------
(* The threads of a station *)

\* What a step does to the calls in progress at x.
SameCalls(x) ==
  \A u \in Thread : /\ thr'[x][u].fn = thr[x][u].fn
                    /\ thr'[x][u].frame = thr[x][u].frame
CallEnds(x, t) ==
  /\ thr'[x][t].fn = "none"
  /\ \A u \in Thread : u # t => thr'[x][u] = thr[x][u]

\* No CONN is put on the wire towards x.
NoConnAdded(x) ==
  /\ CONN(x)' # {} => CONN(x) # {}
  /\ (\A i, j \in CONN(x) : i = j) => (\A i, j \in CONN(x)' : i = j)

\* The step leaves the pending message of s and its announced size alone.
SameMessage(s) ==
  /\ msg_len'[s] = msg_len[s]
  /\ dc'[s].extractionBuffer = dc[s].extractionBuffer
  /\ dc'[s].extractionComplete = dc[s].extractionComplete

LEMMA ReturnEnds ==
  ASSUME TypeOK, NEW s \in Station, NEW t \in Thread, NEW r, Return(s, t, r)
  PROVE  CallEnds(s, t) /\ SameCalls(Peer(s))
BY PeerType DEF TypeOK, Return, CallEnds, SameCalls

LEMMA WaitKeepsCalls ==
  ASSUME TypeOK, NEW s \in Station, NEW t \in Thread, NEW w,
         thr' = [thr EXCEPT ![s][t].wait = w]
  PROVE  SameCalls(s) /\ SameCalls(Peer(s))
<1>1. \A x \in Station : \A u \in Thread : thr[x][u] \in Call BY DEF TypeOK
<1>2. \A x \in Station : \A u \in Thread :
        thr'[x][u] = IF x = s /\ u = t THEN [thr[x][u] EXCEPT !.wait = w] ELSE thr[x][u]
  BY DEF TypeOK
<1> QED BY <1>1, <1>2, PeerType DEF Call, SameCalls

LEMMA SignalKeepsCalls ==
  ASSUME TypeOK, NEW s \in Station, NEW ok, Signal(s, ok)
  PROVE  SameCalls(s) /\ SameCalls(Peer(s))
<1>1. CASE UNCHANGED thr
  BY <1>1 DEF SameCalls
<1>2. CASE \E t \in Thread : thr' = [thr EXCEPT ![s][t].wait = "signaled"]
  BY <1>2, WaitKeepsCalls
<1> QED BY <1>1, <1>2 DEF Signal

LEMMA DroppedConns ==
  ASSUME TypeOK, NEW x \in Station, NEW k, Dropped(x, k)
  PROVE  NoConnAdded(x)
<1>1. k \in Nat /\ Len(link[x]) \in Nat /\ Len(link'[x]) = Len(link[x]) - k
  BY FrameFacts DEF Dropped
<1>2. \A i \in CONN(x)' : i \in Nat /\ i + k \in CONN(x)
  BY <1>1 DEF Dropped, CONN
<1> QED BY <1>1, <1>2 DEF NoConnAdded

LEMMA AppendedConns ==
  ASSUME TypeOK, NEW x \in Station, NEW g \in Frame, Appended(x, g), g.frame # "CONN"
  PROVE  NoConnAdded(x)
<1>1. CONN(x)' = CONN(x)
  BY AppendFacts DEF CONN
<1> QED BY <1>1 DEF NoConnAdded

LEMMA KeptConns ==
  ASSUME NEW x \in Station, link'[x] = link[x]
  PROVE  NoConnAdded(x)
BY DEF NoConnAdded, CONN

\* A step of station s that is no attempt to connect.
LEMMA CallersTogether ==
  ASSUME CallersInv, NEW s \in Station, UNCHANGED conns,
         dc'[Peer(s)] = dc[Peer(s)], msg_len'[Peer(s)] = msg_len[Peer(s)],
         SameCalls(Peer(s)), NoConnAdded(Peer(s)),
         ConnInv(s)', CallsInv(s)', AnnouncedInv(s)'
  PROVE  CallersInv'
<1> DEFINE q == Peer(s)
<1>1. q \in Station /\ \A x \in Station : x = s \/ x = q
  BY PeerType DEF Station, Peer
<1>2. ConnInv(q) /\ CallsInv(q) /\ AnnouncedInv(q) BY <1>1 DEF CallersInv
<1>3. Untouched(q) => Untouched(q)' BY DEF SameCalls, Untouched, AllIdle, Idle
<1>4. ConnInv(q)' BY <1>2, <1>3 DEF ConnInv, NoConnAdded
<1>5. CallsInv(q)' BY <1>2 DEF CallsInv, SameCalls, Idle
<1>6. AnnouncedInv(q)' BY <1>2 DEF AnnouncedInv, SameCalls, AllIdle, Idle
<1> QED BY <1>1, <1>4, <1>5, <1>6 DEF CallersInv

LEMMA ConnsKept ==
  ASSUME NEW s \in Station, ConnInv(s), UNCHANGED conns, NoConnAdded(s),
         Untouched(s) => Untouched(s)'
  PROVE  ConnInv(s)'
BY DEF ConnInv, NoConnAdded

\* A call ends, or was refused, with no frame sent.
LEMMA CallersEnd ==
  ASSUME TypeOK, CallersInv, NEW s \in Station, NEW t \in Thread, NEW r, Return(s, t, r),
         UNCHANGED <<conns, link, msg_len>>, dc'[Peer(s)] = dc[Peer(s)],
         \/ /\ Idle(s, t) /\ SameMessage(s)
            /\ \/ dc'[s].state = dc[s].state
               \/ dc[s].state # "DC_CONNECTING" /\ dc'[s].state = "DC_DISCONNECTED"
         \/ thr[s][t].fn = "dcConnect"
         \/ /\ thr[s][t].fn = "dcSendMessage"
            /\ SameMessage(s) \/ dc'[s].state = "DC_DISCONNECTED"
  PROVE  CallersInv'
<1>1. CallEnds(s, t) /\ SameCalls(Peer(s)) BY ReturnEnds
<1>2. ConnInv(s) /\ CallsInv(s) /\ AnnouncedInv(s) BY DEF CallersInv
<1>3. NoConnAdded(s) /\ NoConnAdded(Peer(s)) BY KeptConns, PeerType
<1>4. CASE /\ Idle(s, t) /\ SameMessage(s)
           /\ \/ dc'[s].state = dc[s].state
              \/ dc[s].state # "DC_CONNECTING" /\ dc'[s].state = "DC_DISCONNECTED"
  <2>1. Untouched(s) => Untouched(s)'
    BY <1>1, <1>4 DEF CallEnds, SameMessage, Untouched, AllIdle, Idle
  <2>2. CallsInv(s)'
    BY <1>1, <1>2, <1>4 DEF CallEnds, SameMessage, CallsInv, Idle
  <2>3. AnnouncedInv(s)'
    BY <1>1, <1>2, <1>4 DEF CallEnds, SameMessage, AnnouncedInv, AllIdle, Idle
  <2> QED BY <1>1, <1>2, <1>3, <2>1, <2>2, <2>3, ConnsKept, CallersTogether
<1>5. CASE \/ thr[s][t].fn = "dcConnect"
           \/ /\ thr[s][t].fn = "dcSendMessage"
              /\ SameMessage(s) \/ dc'[s].state = "DC_DISCONNECTED"
  <2>1. ~Untouched(s) BY <1>5 DEF Untouched, AllIdle, Idle
  <2>2. AllIdle(s)'
    <3>1. \A u \in Thread : thr[s][u].fn \in {"none", "dcConnect", "dcSendMessage"}
      BY DEF TypeOK, Call
    <3>2. ASSUME NEW u \in Thread, u # t
          PROVE  thr[s][u].fn = "none"
      BY <1>2, <1>5, <3>1, <3>2 DEF CallsInv, Idle
    <3> QED BY <1>1, <3>2 DEF CallEnds, AllIdle, Idle
  <2>3. CallsInv(s)' BY <2>2 DEF CallsInv, AllIdle, Idle
  <2>4. AnnouncedInv(s)'
    BY <1>2, <1>5, <2>2 DEF SameMessage, AnnouncedInv, CallsInv, AllIdle, Idle
  <2> QED BY <1>1, <1>2, <1>3, <2>1, <2>3, <2>4, ConnsKept, CallersTogether
<1> QED BY <1>4, <1>5

\* A message is put on the wire, for the first time or again.
LEMMA CallersSend ==
  ASSUME TypeOK, CallersInv, NEW s \in Station, NEW t \in Thread, NEW f \in Frame,
         Block(s, t, "dcSendMessage", f), f.frame = "DATA", Appended(Peer(s), f),
         link'[s] = link[s], UNCHANGED <<conns, msg_len>>, dc'[Peer(s)] = dc[Peer(s)],
         SameMessage(s),
         \/ /\ Idle(s, t) /\ dc[s].state = "DC_CONNECTED"
            /\ dc'[s].state = "DC_TRANSMITTING"
         \/ thr[s][t].fn = "dcSendMessage" /\ dc'[s].state = dc[s].state
  PROVE  CallersInv'
<1>1. /\ thr'[s][t].fn = "dcSendMessage" /\ thr'[s][t].frame = f
      /\ \A u \in Thread : u # t => thr'[s][u] = thr[s][u]
      /\ SameCalls(Peer(s))
  BY PeerType DEF TypeOK, Block, SameCalls
<1>2. ConnInv(s) /\ CallsInv(s) /\ AnnouncedInv(s) BY DEF CallersInv
<1>3. NoConnAdded(s) /\ NoConnAdded(Peer(s)) BY KeptConns, AppendedConns, PeerType
<1>4. ~Untouched(s) BY DEF Untouched, AllIdle, Idle
<1>5. CallsInv(s)' BY <1>1, <1>2 DEF SameMessage, CallsInv, Idle
<1>6. AnnouncedInv(s)' BY <1>2 DEF SameMessage, AnnouncedInv, AllIdle, Idle
<1> QED BY <1>1, <1>2, <1>3, <1>4, <1>5, <1>6, ConnsKept, CallersTogether

\* The one attempt to connect.
LEMMA CallersConnect ==
  ASSUME OneSession, TypeOK, CallersInv,
         NEW s \in Station, NEW t \in Thread, ConnectStart(s, t)
  PROVE  CallersInv'
<1> DEFINE q == Peer(s)
           f == Control("CONN", 0)
<1>0. q \in Station /\ q # s /\ Peer(q) = s /\ \A x \in Station : x = s \/ x = q
  BY PeerType DEF Station, Peer
<1>1. PICK ok \in BOOLEAN :
        /\ Transmit(s, f, ok)
        /\ dc' = [dc EXCEPT ![s].state = IF ok THEN "DC_CONNECTING" ELSE "DC_DISCONNECTED"]
        /\ IF ok THEN Block(s, t, "dcConnect", f) ELSE Return(s, t, "DC_FAILURE")
  BY DEF ConnectStart
<1>2. /\ conns[s] < MaxConnect[s] /\ conns'[s] = conns[s] + 1 /\ conns'[q] = conns[q]
      /\ UNCHANGED msg_len /\ Idle(s, t)
  BY <1>0 DEF ConnectStart, TypeOK
<1>3. /\ conns[s] \in Nat /\ conns[q] \in Nat
      /\ MaxConnect[s] \in Nat /\ MaxConnect[q] \in Nat /\ MaxConnect[s] + MaxConnect[q] <= 1
  BY <1>0, BoundAssumption DEF TypeOK, OneSession
<1>4. \A x \in Station : ConnInv(x) /\ CallsInv(x) /\ AnnouncedInv(x) BY DEF CallersInv
<1>5. conns[s] = 0 /\ conns[q] = 0 BY <1>0, <1>2, <1>3, <1>4 DEF ConnInv
<1>6. /\ conns'[s] <= MaxConnect[s] /\ conns'[q] <= MaxConnect[q]
      /\ conns'[s] + conns'[q] # 0 /\ conns'[q] + conns'[s] # 0
  BY <1>2, <1>3, <1>5
<1>7. \A x \in Station : Untouched(x) /\ CONN(x) = {}
  BY <1>0, <1>4, <1>5 DEF ConnInv
<1>8. dc'[q] = dc[q] /\ thr'[q] = thr[q] /\ msg_len'[q] = msg_len[q]
  BY <1>0, <1>1, <1>2 DEF TypeOK, Block, Return
<1>9. Untouched(q)' BY <1>0, <1>7, <1>8 DEF Untouched, AllIdle, Idle
<1>10. link'[s] = link[s] BY <1>0, <1>1 DEF Transmit, TypeOK
<1>11. CONN(s)' = {} BY <1>7, <1>10 DEF CONN
<1>12. \A i, j \in CONN(q)' : i = j
  <2>1. CASE ok
    <3>1. f \in Frame BY FrameFormed, ZeroType DEF FrameType
    <3>2. Appended(q, f) BY <1>0, <1>1, <2>1 DEF Transmit, Appended, TypeOK
    <3>3. CONN(q)' \subseteq {Len(link[q]) + 1}
      BY <1>0, <1>7, <3>1, <3>2, AppendFacts DEF CONN
    <3> QED BY <3>3
  <2>2. CASE ~ok
    BY <1>0, <1>1, <1>7, <2>2 DEF Transmit, CONN
  <2> QED BY <2>1, <2>2
<1>13. ConnInv(s)' /\ ConnInv(q)' BY <1>0, <1>6, <1>9, <1>11, <1>12 DEF ConnInv
<1>14. dc'[s].state = IF ok THEN "DC_CONNECTING" ELSE "DC_DISCONNECTED"
  BY <1>1 DEF TypeOK, DeadcomL2
<1>15. /\ thr'[s][t].fn = IF ok THEN "dcConnect" ELSE "none"
       /\ \A u \in Thread : u # t => thr'[s][u] = thr[s][u]
  BY <1>1 DEF TypeOK, Block, Return
<1>16. CallsInv(s)'
  BY <1>2, <1>7, <1>14, <1>15 DEF CallsInv, Untouched, AllIdle, Idle
<1>17. AnnouncedInv(s)' BY <1>2, <1>7 DEF AnnouncedInv, Untouched
<1>18. CallsInv(q)' /\ AnnouncedInv(q)'
  BY <1>9 DEF CallsInv, AnnouncedInv, Untouched, AllIdle, Idle
<1> QED BY <1>0, <1>13, <1>16, <1>17, <1>18 DEF CallersInv

LEMMA CallersThread ==
  ASSUME OneSession, TypeOK, CallersInv,
         NEW s \in Station, NEW t \in Thread, ThreadStep(s, t)
  PROVE  CallersInv'
<1>0. /\ dc \in [Station -> DeadcomL2] /\ dc[s] \in DeadcomL2 /\ thr[s][t] \in Call
      /\ Peer(s) \in Station /\ Peer(s) # s
  BY PeerType DEF TypeOK
<1>1. CASE ConnectRefused(s, t) \/ SendRefused(s, t)
  BY <1>1, CallersEnd DEF ConnectRefused, SendRefused, SameMessage
<1>2. CASE ConnectStart(s, t)
  BY <1>2, CallersConnect
<1>3. CASE ConnectResume(s, t)
  <2>1. thr[s][t].fn = "dcConnect" /\ UNCHANGED <<conns, link, msg_len>>
    BY <1>3 DEF ConnectResume
  <2>2. dc'[Peer(s)] = dc[Peer(s)] BY <1>0, <1>3 DEF ConnectResume
  <2>3. \E r : Return(s, t, r) BY <1>3 DEF ConnectResume
  <2> QED BY <2>1, <2>2, <2>3, CallersEnd
<1>4. CASE Disconnect(s, t)
  <2>1. Idle(s, t) /\ UNCHANGED <<conns, link, msg_len>> BY <1>4 DEF Disconnect
  <2>2. dc'[Peer(s)] = dc[Peer(s)] /\ SameMessage(s)
    BY <1>0, <1>4, <2>1 DEF Disconnect, SameMessage, DeadcomL2
  <2>3. \/ dc'[s].state = dc[s].state
        \/ dc[s].state # "DC_CONNECTING" /\ dc'[s].state = "DC_DISCONNECTED"
    BY <1>0, <1>4 DEF Disconnect, DeadcomL2
  <2>4. \E r : Return(s, t, r) BY <1>4 DEF Disconnect
  <2> QED BY <2>1, <2>2, <2>3, <2>4, CallersEnd
<1>5. CASE SendStart(s, t)
  <2> DEFINE f == Data(dc[s].send_number, sent[s] + 1)
             d == [dc[s] EXCEPT !.send_number = Succ(@), !.failure_count = 0,
                                !.state = "DC_TRANSMITTING"]
  <2>1. /\ Idle(s, t) /\ dc[s].state = "DC_CONNECTED" /\ UNCHANGED <<conns, msg_len>>
    BY <1>5 DEF SendStart, MaySend
  <2>2. PICK ok \in BOOLEAN :
          /\ Transmit(s, f, ok)
          /\ dc' = [dc EXCEPT ![s] = IF ok THEN d ELSE RolledBack(d)]
          /\ IF ok THEN Block(s, t, "dcSendMessage", f) ELSE Return(s, t, "DC_FAILURE")
    BY <1>5 DEF SendStart
  <2>3. dc'[Peer(s)] = dc[Peer(s)] /\ SameMessage(s)
    BY <1>0, <2>1, <2>2 DEF SameMessage, RolledBack, DeadcomL2
  <2>4. CASE ok
    <3>1. f \in Frame /\ f.frame = "DATA"
      <4>1. dc[s].send_number \in SeqNumber /\ sent[s] + 1 \in Nat
        BY <1>0 DEF TypeOK, DeadcomL2
      <4> QED BY <4>1, FrameFormed DEF Data
    <3>2. Appended(Peer(s), f) /\ link'[s] = link[s]
      BY <1>0, <2>2, <2>4 DEF Transmit, Appended, TypeOK
    <3>3. dc'[s].state = "DC_TRANSMITTING" BY <1>0, <2>2, <2>4 DEF DeadcomL2
    <3> HIDE DEF f, d
    <3> QED BY <2>1, <2>2, <2>3, <2>4, <3>1, <3>2, <3>3, CallersSend
  <2>5. CASE ~ok
    <3>1. dc'[s].state = dc[s].state
      BY <1>0, <2>1, <2>2, <2>5 DEF RolledBack, DeadcomL2
    <3>2. link' = link BY <2>2, <2>5 DEF Transmit
    <3> HIDE DEF f, d
    <3> QED BY <2>1, <2>2, <2>3, <2>5, <3>1, <3>2, CallersEnd
  <2> QED BY <2>4, <2>5
<1>6. CASE SendAgain(s, t)
  <2> DEFINE f == thr[s][t].frame
             d == [dc[s] EXCEPT !.failure_count = @ + 1]
  <2>1. thr[s][t].fn = "dcSendMessage" /\ UNCHANGED <<conns, msg_len>>
    BY <1>6 DEF SendAgain, Unanswered, InSend
  <2>2. PICK ok \in BOOLEAN :
          /\ Transmit(s, f, ok)
          /\ dc' = [dc EXCEPT ![s] = IF ok THEN d ELSE RolledBack(d)]
          /\ IF ok THEN Block(s, t, "dcSendMessage", f) ELSE Return(s, t, "DC_FAILURE")
    BY <1>6 DEF SendAgain
  <2>3. dc'[Peer(s)] = dc[Peer(s)] /\ SameMessage(s)
    BY <1>0, <2>1, <2>2 DEF SameMessage, RolledBack, DeadcomL2
  <2>4. CASE ok
    <3>1. f \in Frame /\ f.frame = "DATA"
      BY <1>0, <2>1 DEF Call, CallersInv, CallsInv
    <3>2. Appended(Peer(s), f) /\ link'[s] = link[s]
      BY <1>0, <2>2, <2>4 DEF Transmit, Appended, TypeOK
    <3>3. dc'[s].state = dc[s].state BY <1>0, <2>2, <2>4 DEF DeadcomL2
    <3> HIDE DEF f, d
    <3> QED BY <2>1, <2>2, <2>3, <2>4, <3>1, <3>2, <3>3, CallersSend
  <2>5. CASE ~ok
    <3>1. link' = link BY <2>2, <2>5 DEF Transmit
    <3> HIDE DEF f, d
    <3> QED BY <2>1, <2>2, <2>3, <2>5, <3>1, CallersEnd
  <2> QED BY <2>4, <2>5
<1>7. CASE SendConfirmed(s, t) \/ SendLinkReset(s, t) \/ SendWaitFailed(s, t)
  <2>1. thr[s][t].fn = "dcSendMessage" /\ UNCHANGED <<conns, link, msg_len>>
    BY <1>7 DEF SendConfirmed, SendLinkReset, SendWaitFailed, InSend, Unanswered
  <2>2. dc'[Peer(s)] = dc[Peer(s)]
    BY <1>0, <1>7 DEF SendConfirmed, SendLinkReset, SendWaitFailed
  <2>3. SameMessage(s) \/ dc'[s].state = "DC_DISCONNECTED"
    <3>1. CASE SendConfirmed(s, t)
      BY <1>0, <2>1, <3>1 DEF SendConfirmed, SameMessage, DeadcomL2
    <3>2. CASE SendLinkReset(s, t)
      BY <1>0, <3>2 DEF SendLinkReset, resetLink, DeadcomL2
    <3>3. CASE SendWaitFailed(s, t)
      BY <1>0, <2>1, <3>3 DEF SendWaitFailed, SameMessage, RolledBack, DeadcomL2
    <3> QED BY <1>7, <3>1, <3>2, <3>3
  <2>4. \E r : Return(s, t, r)
    BY <1>7 DEF SendConfirmed, SendLinkReset, SendWaitFailed
  <2> QED BY <2>1, <2>2, <2>3, <2>4, CallersEnd
<1>8. CASE Expire(s, t) \/ WaitFails(s, t)
  <2>1. SameCalls(s) /\ SameCalls(Peer(s))
    BY <1>8, WaitKeepsCalls DEF Expire, WaitFails
  <2>2. UNCHANGED <<dc, link, msg_len, conns>> BY <1>8 DEF Expire, WaitFails
  <2>3. NoConnAdded(s) /\ NoConnAdded(Peer(s)) BY <1>0, <2>2, KeptConns
  <2>4. ConnInv(s) /\ CallsInv(s) /\ AnnouncedInv(s) BY DEF CallersInv
  <2>5. Untouched(s) => Untouched(s)'
    BY <2>1, <2>2 DEF SameCalls, Untouched, AllIdle, Idle
  <2>6. CallsInv(s)' /\ AnnouncedInv(s)'
    BY <2>1, <2>2, <2>4 DEF SameCalls, CallsInv, AnnouncedInv, AllIdle, Idle
  <2> QED BY <2>1, <2>2, <2>3, <2>4, <2>5, <2>6, ConnsKept, CallersTogether
<1> QED BY <1>1, <1>2, <1>3, <1>4, <1>5, <1>6, <1>7, <1>8 DEF ThreadStep, SendResume

\* The receive thread, or the wire, changes nothing that CallersInv speaks of.
LEMMA CallersQuiet ==
  ASSUME TypeOK, CallersInv, NEW s \in Station, UNCHANGED conns,
         dc'[Peer(s)] = dc[Peer(s)], msg_len'[Peer(s)] = msg_len[Peer(s)],
         SameCalls(s), SameCalls(Peer(s)), NoConnAdded(s), NoConnAdded(Peer(s)),
         dc'[s].state = dc[s].state, SameMessage(s)
  PROVE  CallersInv'
<1>1. ConnInv(s) /\ CallsInv(s) /\ AnnouncedInv(s) BY DEF CallersInv
<1>2. Untouched(s) => Untouched(s)'
  BY DEF SameMessage, SameCalls, Untouched, AllIdle, Idle
<1>3. CallsInv(s)' BY <1>1 DEF SameMessage, SameCalls, CallsInv, Idle
<1>4. AnnouncedInv(s)' BY <1>1 DEF SameMessage, SameCalls, AnnouncedInv, AllIdle, Idle
<1> QED BY <1>1, <1>2, <1>3, <1>4, ConnsKept, CallersTogether

LEMMA ProcessAddsNoConn ==
  ASSUME TypeOK, NEW s \in Station, link[s] # <<>>, NEW m, NEW ok \in BOOLEAN,
         NEW reply, reply \in Frame \cup {NoFrame}, reply.frame # "CONN",
         Process(s, m, ok, reply)
  PROVE  NoConnAdded(s) /\ NoConnAdded(Peer(s))
<1>1. /\ \E k : Dropped(s, k)
      /\ IF reply = NoFrame THEN link'[Peer(s)] = link[Peer(s)]
                            ELSE Appended(Peer(s), reply)
  BY Taken
<1> QED BY <1>1, DroppedConns, KeptConns, AppendedConns, PeerType

LEMMA IgnoreAddsNoConn ==
  ASSUME TypeOK, NEW s \in Station, link[s] # <<>>, link' = [link EXCEPT ![s] = Tail(@)]
  PROVE  NoConnAdded(s) /\ NoConnAdded(Peer(s))
BY Skipped, DroppedConns, KeptConns, PeerType

\* A CONN brings up a station to which nothing has happened, and is the last one.
LEMMA CallersReceiveConn ==
  ASSUME TypeOK, CallersInv, NEW s \in Station, ReceiveConn(s)
  PROVE  CallersInv'
<1> DEFINE q == Peer(s)
           f == Control("CONN_ACK", 0)
<1>0. /\ q \in Station /\ q # s /\ dc \in [Station -> DeadcomL2] /\ dc[s] \in DeadcomL2
      /\ UNCHANGED <<conns, msg_len>>
  BY PeerType DEF TypeOK, ReceiveConn
<1>1. link[s] # <<>> /\ Head(link[s]).frame = "CONN" BY DEF ReceiveConn, Incoming
<1>2. link[s] \in Seq(Frame) /\ Len(link[s]) \in Nat \ {0} /\ Head(link[s]) = link[s][1]
  BY <1>1, EmptySeq, FrameFacts DEF TypeOK
<1>3. 1 \in CONN(s) BY <1>1, <1>2 DEF CONN
<1>4. ConnInv(s) /\ CallsInv(s) /\ AnnouncedInv(s) BY DEF CallersInv
<1>5. Untouched(s) /\ CONN(s) = {1} BY <1>3, <1>4 DEF ConnInv
<1>6. CASE Process(s, "transmitBytes", FALSE, NoFrame) /\ UNCHANGED <<dc, thr>>
  <2>1. NoConnAdded(s) /\ NoConnAdded(q)
    BY <1>1, <1>6, ProcessAddsNoConn DEF NoFrame
  <2> QED BY <1>0, <1>6, <2>1, CallersQuiet DEF SameCalls, SameMessage
<1>7. CASE /\ Process(s, "condvarSignal", TRUE, f)
           /\ dc' = [dc EXCEPT ![s] = ConnAccepted(@)] /\ UNCHANGED thr
  <2>1. f \in Frame /\ f.frame = "CONN_ACK" /\ f # NoFrame
    <3>1. f \in Frame BY FrameFormed, ZeroType DEF FrameType
    <3> QED BY <3>1, FrameFormed DEF Control
  <2>2. link'[s] = SubSeq(link[s], 2, Len(link[s]))
    BY <1>0, <1>7 DEF Process, TypeOK
  <2>3. /\ Len(link'[s]) = Len(link[s]) - 2 + 1
        /\ \A i \in 1 .. Len(link[s]) - 2 + 1 : link'[s][i] = link[s][i + 2 - 1]
    BY <1>2, <2>2, DropType
  <2>4. CONN(s)' = {}
    <3>1. \A i \in CONN(s)' : i \in Nat /\ i >= 1 /\ i + 1 \in CONN(s)
      BY <1>2, <2>3 DEF CONN
    <3> QED BY <1>5, <3>1
  <2> HIDE DEF f
  <2>5. NoConnAdded(q) BY <1>1, <1>7, <2>1, ProcessAddsNoConn
  <2>6. conns[s] + conns[q] # 0 BY <1>3, <1>4 DEF ConnInv
  <2>7. ConnInv(s)' BY <1>0, <1>4, <2>4, <2>6 DEF ConnInv
  <2>8. CallsInv(s)' BY <1>5, <1>7 DEF CallsInv, Untouched, AllIdle, Idle
  <2>9. AnnouncedInv(s)' BY <1>0, <1>5 DEF AnnouncedInv, Untouched
  <2>10. dc'[q] = dc[q] /\ msg_len'[q] = msg_len[q] /\ SameCalls(q)
    BY <1>0, <1>7 DEF SameCalls
  <2> QED BY <1>0, <2>5, <2>7, <2>8, <2>9, <2>10, CallersTogether
<1> QED BY <1>5, <1>6, <1>7 DEF ReceiveConn, Untouched

LEMMA CallersReceive ==
  ASSUME TypeOK, CallersInv, NEW s \in Station, Receive(s)
  PROVE  CallersInv'
<1> DEFINE q == Peer(s)
<1>0. /\ q \in Station /\ q # s /\ dc \in [Station -> DeadcomL2] /\ dc[s] \in DeadcomL2
  BY PeerType DEF TypeOK
<1>1. CASE ReceiveData(s)
  <2> DEFINE d == dc[s]
             f == Head(link[s])
             g == Control("ACK", Pred(d.recv_number))
  <2>1. UNCHANGED <<thr, msg_len, conns>> /\ link[s] # <<>>
    BY <1>1 DEF ReceiveData, Incoming
  <2>2. SameCalls(s) /\ SameCalls(q) BY <2>1 DEF SameCalls
  <2>3. CASE AcceptsData(d, f) /\ Ignore(s) /\ dc' = [dc EXCEPT ![s] = Stored(d, f)]
    <3>1. NoConnAdded(s) /\ NoConnAdded(q) BY <2>1, <2>3, IgnoreAddsNoConn DEF Ignore
    <3>2. dc'[q] = dc[q] /\ dc'[s].state = dc[s].state
      BY <1>0, <2>3 DEF Stored, DeadcomL2
    <3>3. ConnInv(s) /\ CallsInv(s) /\ AnnouncedInv(s) BY DEF CallersInv
    <3>4. ~Untouched(s) /\ msg_len[s] = NoMsg
      BY <2>3, <3>3 DEF AcceptsData, LinkUp, Untouched, AnnouncedInv
    <3>5. CallsInv(s)' BY <2>1, <3>2, <3>3 DEF CallsInv, Idle
    <3>6. AnnouncedInv(s)' BY <2>1, <3>4 DEF AnnouncedInv
    <3> QED BY <2>1, <2>2, <3>1, <3>2, <3>3, <3>4, <3>5, <3>6, ConnsKept, CallersTogether
  <2>4. CASE UNCHANGED dc /\ \E ok \in BOOLEAN :
               Process(s, "transmitBytes", ok, IF ok THEN g ELSE NoFrame)
    <3>1. g \in Frame /\ g.frame = "ACK"
      <4>1. Pred(d.recv_number) \in SeqNumber BY <1>0, SuccPredType DEF DeadcomL2
      <4>2. g \in Frame BY <4>1, FrameFormed DEF FrameType
      <4> QED BY <4>2 DEF Control
    <3> HIDE DEF g
    <3>2. NoConnAdded(s) /\ NoConnAdded(q)
      BY <2>1, <2>4, <3>1, ProcessAddsNoConn DEF NoFrame
    <3> QED BY <2>1, <2>2, <2>4, <3>2, CallersQuiet DEF SameMessage
  <2>5. CASE Ignore(s) /\ UNCHANGED dc
    <3>1. NoConnAdded(s) /\ NoConnAdded(q) BY <2>1, <2>5, IgnoreAddsNoConn DEF Ignore
    <3> QED BY <2>1, <2>2, <2>5, <3>1, CallersQuiet DEF SameMessage
  <2> QED BY <1>1, <2>3, <2>4, <2>5 DEF ReceiveData
<1>2. CASE ReceiveConn(s)
  BY <1>2, CallersReceiveConn
<1>3. CASE ReceiveAck(s) \/ ReceiveNack(s) \/ ReceiveConnAck(s)
  <2>1. UNCHANGED <<msg_len, conns>> /\ link[s] # <<>>
    BY <1>3 DEF ReceiveAck, ReceiveNack, ReceiveConnAck, Incoming
  <2>2. dc'[q] = dc[q] BY <1>0, <1>3 DEF ReceiveAck, ReceiveNack, ReceiveConnAck
  <2>3. dc'[s].state = dc[s].state /\ SameMessage(s)
    <3>1. CASE ReceiveAck(s)
      BY <1>0, <2>1, <3>1 DEF ReceiveAck, SameMessage, DeadcomL2
    <3>2. CASE ReceiveNack(s)
      BY <1>0, <2>1, <3>2 DEF ReceiveNack, SameMessage, DeadcomL2
    <3>3. CASE ReceiveConnAck(s)
      BY <1>0, <2>1, <3>3 DEF ReceiveConnAck, SameMessage, DeadcomL2
    <3> QED BY <1>3, <3>1, <3>2, <3>3
  <2>4. \/ Ignore(s) /\ UNCHANGED thr
        \/ \E ok \in BOOLEAN : Signal(s, ok) /\ Process(s, "condvarSignal", ok, NoFrame)
    BY <1>3 DEF ReceiveAck, ReceiveNack, ReceiveConnAck
  <2>5. SameCalls(s) /\ SameCalls(q) BY <2>4, SignalKeepsCalls DEF SameCalls
  <2>6. NoConnAdded(s) /\ NoConnAdded(q)
    <3>1. NoFrame.frame # "CONN" BY DEF NoFrame
    <3> QED BY <2>1, <2>4, <3>1, ProcessAddsNoConn, IgnoreAddsNoConn DEF Ignore
  <2> QED BY <2>1, <2>2, <2>3, <2>5, <2>6, CallersQuiet
<1> QED BY <1>1, <1>2, <1>3 DEF Receive

LEMMA CallersStation ==
  ASSUME TypeOK, CallersInv, NEW s \in Station, StationStep(s)
  PROVE  CallersInv'
<1> DEFINE q == Peer(s)
<1>0. /\ q \in Station /\ q # s /\ dc \in [Station -> DeadcomL2] /\ dc[s] \in DeadcomL2
      /\ msg_len \in [Station -> Nat]
  BY PeerType DEF TypeOK
<1>1. ConnInv(s) /\ CallsInv(s) /\ AnnouncedInv(s) BY DEF CallersInv
<1>2. CASE GetSize(s)
  <2>1. /\ UNCHANGED <<dc, thr, link, conns>> /\ msg_len'[q] = msg_len[q]
        /\ msg_len'[s] = IF Pending(dc[s]) THEN dc[s].extractionBuffer ELSE NoMsg
    BY <1>0, <1>2 DEF GetSize
  <2>2. NoConnAdded(s) /\ NoConnAdded(q) /\ SameCalls(q)
    BY <1>0, <2>1, KeptConns DEF SameCalls
  <2>3. Untouched(s) => Untouched(s)'
    BY <2>1 DEF Untouched, AllIdle, Idle, Pending, LinkUp
  <2>4. CallsInv(s)' BY <1>1, <2>1 DEF CallsInv, Idle, Pending, LinkUp
  <2>5. AnnouncedInv(s)' BY <2>1 DEF AnnouncedInv, Pending
  <2> QED BY <1>1, <2>1, <2>2, <2>3, <2>4, <2>5, ConnsKept, CallersTogether
<1>3. CASE GetMessage(s)
  <2> DEFINE g == Control("ACK", Pred(dc[s].recv_number))
  <2>1. UNCHANGED <<thr, conns>> /\ LinkUp(dc[s])
    BY <1>3 DEF GetMessage, Pending
  <2>2. PICK ok \in BOOLEAN :
          /\ Transmit(s, g, ok)
          /\ IF ok THEN /\ dc' = [dc EXCEPT ![s] = PickedUp(@)]
                        /\ msg_len' = [msg_len EXCEPT ![s] = NoMsg]
                   ELSE UNCHANGED <<dc, msg_len>>
    BY <1>3 DEF GetMessage
  <2>3. g \in Frame /\ g.frame = "ACK"
    <3>1. Pred(dc[s].recv_number) \in SeqNumber BY <1>0, SuccPredType DEF DeadcomL2
    <3>2. g \in Frame BY <3>1, FrameFormed DEF FrameType
    <3> QED BY <3>2 DEF Control
  <2>4. /\ link'[s] = link[s]
        /\ link'[q] = link[q] \/ Appended(q, g)
    BY <1>0, <2>2 DEF Transmit, Appended, TypeOK
  <2> HIDE DEF g
  <2>5. NoConnAdded(s) /\ NoConnAdded(q)
    BY <1>0, <2>3, <2>4, KeptConns, AppendedConns
  <2>6. /\ dc'[q] = dc[q] /\ msg_len'[q] = msg_len[q]
        /\ dc'[s].state = dc[s].state
        /\ (dc'[s] = dc[s] /\ msg_len'[s] = msg_len[s]) \/ msg_len'[s] = NoMsg
    <3>1. CASE ok
      <4>1. PickedUp(dc[s]).state = dc[s].state BY <1>0 DEF PickedUp, DeadcomL2
      <4> QED BY <1>0, <2>2, <3>1, <4>1
    <3>2. CASE ~ok
      BY <1>0, <2>2, <3>2
    <3> QED BY <3>1, <3>2
  <2>7. ~Untouched(s) BY <2>1 DEF Untouched, LinkUp
  <2>8. CallsInv(s)' BY <1>1, <2>1, <2>6 DEF CallsInv, Idle
  <2>9. AnnouncedInv(s)' BY <1>1, <2>1, <2>6 DEF AnnouncedInv, AllIdle, Idle
  <2>10. SameCalls(q) BY <2>1 DEF SameCalls
  <2> QED BY <1>1, <2>1, <2>5, <2>6, <2>7, <2>8, <2>9, <2>10, ConnsKept, CallersTogether
<1>4. CASE Receive(s)
  BY <1>4, CallersReceive
<1>5. CASE LoseFrame(s)
  <2>1. link[s] # <<>> /\ link' = [link EXCEPT ![s] = Tail(@)]
        /\ UNCHANGED <<dc, thr, msg_len, conns>>
    BY <1>5 DEF LoseFrame
  <2>2. NoConnAdded(s) /\ NoConnAdded(q) BY <2>1, IgnoreAddsNoConn
  <2> QED BY <2>1, <2>2, CallersQuiet DEF SameCalls, SameMessage
<1>6. CASE ForeignNack(s)
  <2>1. link' = [link EXCEPT ![s] = Append(@, Control("NACK", 0))]
        /\ UNCHANGED <<dc, thr, msg_len, conns>>
    BY <1>6 DEF ForeignNack
  <2>2. Control("NACK", 0) \in Frame BY FrameFormed, ZeroType DEF FrameType
  <2>3. Control("NACK", 0).frame # "CONN" BY DEF Control
  <2>4. Appended(s, Control("NACK", 0)) /\ link'[q] = link[q]
    BY <1>0, <2>1 DEF TypeOK, Appended
  <2>5. NoConnAdded(s) /\ NoConnAdded(q)
    BY <1>0, <2>2, <2>3, <2>4, AppendedConns, KeptConns
  <2> QED BY <2>1, <2>5, CallersQuiet DEF SameCalls, SameMessage
<1> QED BY <1>2, <1>3, <1>4, <1>5, <1>6 DEF StationStep

\* A message that is copied after a size query is the one whose size was announced.
LEMMA CopyStep ==
  ASSUME TypeOK, CallersInv, Next, NEW s \in Station,
         delivered'[s] # delivered[s], msg_len[s] # NoMsg
  PROVE  delivered'[s][Len(delivered'[s])] = msg_len[s]
<1>1. PICK x \in Station : StationStep(x) \/ \E t \in Thread : ThreadStep(x, t)
  BY DEF Next
<1>2. ~UNCHANGED delivered
  OBVIOUS
<1>3. ~\E t \in Thread : ThreadStep(x, t)
  BY <1>2 DEF ThreadStep, ConnectRefused, ConnectStart, ConnectResume, Disconnect,
     SendRefused, SendStart, SendResume, SendConfirmed, SendAgain, SendLinkReset,
     SendWaitFailed, Expire, WaitFails, history
<1>4. GetMessage(x)
  BY <1>1, <1>2, <1>3 DEF StationStep, GetSize, Receive, ReceiveData, ReceiveAck,
     ReceiveNack, ReceiveConn, ReceiveConnAck, LoseFrame, ForeignNack, history
<1>5. /\ LinkUp(dc[x])
      /\ delivered' = [delivered EXCEPT ![x] = Append(@, dc[x].extractionBuffer)]
  BY <1>2, <1>4 DEF GetMessage, Pending
<1>6. x = s BY <1>5 DEF TypeOK
<1>7. delivered[s] \in Seq(Nat) /\ delivered'[s] = Append(delivered[s], dc[s].extractionBuffer)
  BY <1>5, <1>6 DEF TypeOK
<1>8. delivered'[s][Len(delivered'[s])] = dc[s].extractionBuffer
  <2>1. dc[s].extractionBuffer \in Nat BY DEF TypeOK, DeadcomL2
  <2> QED BY <1>7, <2>1, AppendProperties
<1>9. dc[s].extractionBuffer = msg_len[s]
  BY <1>5, <1>6 DEF CallersInv, AnnouncedInv, LinkUp
<1> QED BY <1>8, <1>9

LEMMA CallersInit == Init => CallersInv
<1> SUFFICES ASSUME Init, NEW s \in Station
             PROVE  ConnInv(s) /\ CallsInv(s) /\ AnnouncedInv(s)
  BY DEF CallersInv
<1>1. Untouched(s) BY DEF Init, Untouched, AllIdle, Idle
<1>2. CONN(s) = {} /\ conns[s] = 0 /\ MaxConnect[s] \in Nat
  BY BoundAssumption DEF Init, CONN
<1>3. ConnInv(s) BY <1>1, <1>2 DEF ConnInv
<1> QED BY <1>1, <1>3 DEF CallsInv, AnnouncedInv, Untouched, AllIdle, Idle

\* The invariant of the threads of a station, in one session.
THEOREM CallersInvCorrect ==
  ASSUME OneSession
  PROVE  Spec => []CallersInv
<1>1. Spec => []TypeOK BY TypeCorrect
<1>2. Init => CallersInv BY CallersInit
<1>3. TypeOK /\ CallersInv /\ [Next]_vars => CallersInv'
  <2>1. ASSUME TypeOK, CallersInv, Next
        PROVE  CallersInv'
    BY <2>1, CallersThread, CallersStation DEF Next
  <2>2. ASSUME CallersInv, UNCHANGED vars
        PROVE  CallersInv'
    BY <2>2 DEF vars, CallersInv, ConnInv, CallsInv, AnnouncedInv, Untouched, AllIdle,
       Idle, CONN
  <2> QED BY <2>1, <2>2
<1> QED BY <1>1, <1>2, <1>3, PTL DEF Spec

\* In one session no two threads of a station are in dcSendMessage, however many there
\* are and whatever fails.
THEOREM OneSenderCorrect ==
  ASSUME OneSession
  PROVE  Spec => []OneSender
<1>1. Spec => []CallersInv BY CallersInvCorrect
<1>2. CallersInv => OneSender BY DEF CallersInv, CallsInv, OneSender
<1> QED BY <1>1, <1>2, PTL

\* In one session a reader that asks for the size first copies the message whose size
\* it was told.
THEOREM CopiesAnnouncedCorrect ==
  ASSUME OneSession
  PROVE  Spec => CopiesAnnounced
<1> DEFINE Step ==
      \A s \in Station :
        delivered'[s] # delivered[s] /\ msg_len[s] # NoMsg
          => delivered'[s][Len(delivered'[s])] = msg_len[s]
<1>1. Spec => []TypeOK BY TypeCorrect
<1>2. Spec => []CallersInv BY CallersInvCorrect
<1>3. TypeOK /\ CallersInv /\ [Next]_vars => [Step]_vars
  BY CopyStep
<1> QED BY <1>1, <1>2, <1>3, PTL DEF Spec, CopiesAnnounced
=============================================================================
