-------------------------- MODULE Dcl2SessionProofs --------------------------
(***************************************************************************)
(* Proof that TimelyInv is inductive, and of what follows from it.  Every  *)
(* conjunct speaks of the two wires and of what one station, or both, have *)
(* reached.  For each there is a lemma saying which steps cannot disturb   *)
(* it: those that take frames off a wire, put harmless ones on it and      *)
(* leave a station where it is.  The steps that are left (a CONN is sent   *)
(* or answered, an answer is taken, a message is accepted, picked up or    *)
(* acknowledged) have a lemma each.                                        *)
(***************************************************************************)
EXTENDS Dcl2Session, LinkServiceProofs

\* The wire towards x loses its first frame or none, or it gains one of these types.
Loses(x) == \E m \in {0, 1} : Dropped(x, m)
Gains(x, types) == \E g \in Frame : g.frame \in types /\ Appended(x, g)

\* The step does not touch what x keeps.
Rests(x) ==
  /\ dc'[x] = dc[x] /\ thr'[x] = thr[x] /\ sent'[x] = sent[x]
  /\ delivered'[x] = delivered[x] /\ confirmed'[x] = confirmed[x]
-----------------------------------------------------------------------------
(* Positions on a wire, and where a station is *)

LEMMA AtFacts ==
  ASSUME TypeOK, NEW x \in Station, NEW type
  PROVE  /\ Len(link[x]) \in Nat
         /\ \A i \in At(x, type) : /\ i \in 1 .. Len(link[x]) /\ i \in Nat /\ i >= 1
                                   /\ link[x][i] \in Frame /\ link[x][i].frame = type
BY FrameFacts DEF At

LEMMA AtLoses ==
  ASSUME TypeOK, NEW x \in Station, NEW m \in {0, 1}, Dropped(x, m), NEW type
  PROVE  /\ Len(link'[x]) \in Nat /\ Len(link[x]) = Len(link'[x]) + m
         /\ \A i \in At(x, type)' : /\ i \in Nat /\ i >= 1 /\ i + m \in At(x, type)
                                    /\ link'[x][i] = link[x][i + m]
         /\ \A i \in At(x, type) : i > m => i - m \in At(x, type)'
<1>1. Len(link[x]) \in Nat BY FrameFacts
<1>2. Len(link'[x]) \in Nat /\ Len(link[x]) = Len(link'[x]) + m
  BY <1>1 DEF Dropped
<1>3. ASSUME NEW i \in At(x, type)'
      PROVE  i \in Nat /\ i >= 1 /\ i + m \in At(x, type) /\ link'[x][i] = link[x][i + m]
  BY <1>1, <1>2, <1>3 DEF Dropped, At
<1>4. ASSUME NEW i \in At(x, type), i > m
      PROVE  i - m \in At(x, type)'
  <2>1. i \in 1 .. Len(link[x]) /\ link[x][i].frame = type BY DEF At
  <2>2. i - m \in 1 .. Len(link'[x]) BY <1>1, <1>2, <1>4, <2>1
  <2>3. (i - m) + m = i /\ i - m \in 1 .. Len(link[x]) - m BY <1>1, <1>2, <2>1, <2>2
  <2>4. link'[x][i - m] = link[x][i] BY <2>3 DEF Dropped
  <2> QED BY <2>1, <2>2, <2>4 DEF At
<1> QED BY <1>2, <1>3, <1>4

LEMMA AtGains ==
  ASSUME TypeOK, NEW x \in Station, NEW g \in Frame, Appended(x, g), NEW type
  PROVE  /\ Len(link[x]) \in Nat /\ Len(link'[x]) = Len(link[x]) + 1
         /\ link'[x][Len(link[x]) + 1] = g
         /\ \A i \in 1 .. Len(link[x]) : link'[x][i] = link[x][i]
         /\ g.frame # type => At(x, type)' = At(x, type)
         /\ g.frame = type => At(x, type)' = At(x, type) \cup {Len(link[x]) + 1}
<1>1. /\ Len(link[x]) \in Nat /\ Len(link'[x]) = Len(link[x]) + 1
      /\ \A i \in 1 .. Len(link[x]) : link'[x][i] = link[x][i]
      /\ link'[x][Len(link[x]) + 1] = g
  BY AppendFacts
<1>2. /\ g.frame # type => At(x, type)' = At(x, type)
      /\ g.frame = type => At(x, type)' = At(x, type) \cup {Len(link[x]) + 1}
  BY <1>1 DEF At
<1> QED BY <1>1, <1>2

\* A station is up, or waits for an answer to its CONN, or has no handshake.
LEMMA Trichotomy ==
  ASSUME TypeOK, NEW x \in Station
  PROVE  /\ Up(x) \/ Asking(x) \/ Over(x)
         /\ AtMostOnceInv => ~(Up(x) /\ Asking(x))
<1>1. dc[x].state \in State BY FrameFacts DEF DeadcomL2
<1> QED BY <1>1 DEF Up, Asking, Over, LinkUp, State, AtMostOnceInv, CallInv, Connected

LEMMA RestsStatus ==
  ASSUME NEW x \in Station, Rests(x)
  PROVE  /\ Up(x)' <=> Up(x)
         /\ Asking(x)' <=> Asking(x)
         /\ Over(x)' <=> Over(x)
         /\ Awaiting(x)' <=> Awaiting(x)
         /\ Acknowledged(x)' <=> Acknowledged(x)
         /\ Newest(x)' = Newest(x)
         /\ \A m : IsDelivered(m, x)' <=> IsDelivered(m, x)
BY DEF Rests, Up, Asking, Over, Awaiting, Acknowledged, Newest, IsDelivered, LinkUp,
   Connected, Sending, Doomed
-----------------------------------------------------------------------------
(* Handshakes: the steps that do not disturb them *)

LEMMA HandshakeQuiet ==
  ASSUME TypeOK, NEW s \in Station, HandshakeInv(s),
         Loses(s) \/ Gains(s, FrameType \ {"CONN_ACK"}),
         \/ Loses(Peer(s))
         \/ ~Asking(s)' /\ Gains(Peer(s), FrameType \ {"CONN"}),
         Up(s)' => Up(s), Asking(s)' => Asking(s),
         Over(s)' => Over(s) \/ (At(Peer(s), "CONN") = {} /\ At(s, "CONN_ACK") = {})
  PROVE  HandshakeInv(s)'
<1> DEFINE r == Peer(s)
<1>0. r \in Station BY PeerType
<1>1. /\ \A i, j \in At(r, "CONN") : i = j
      /\ \A i, j \in At(s, "CONN_ACK") : i = j
      /\ At(r, "CONN") = {} \/ At(s, "CONN_ACK") = {}
      /\ Over(s) => At(r, "CONN") = {} /\ At(s, "CONN_ACK") = {}
  BY DEF HandshakeInv, OneHandshake
\* What is on the wires now was there before, at most one position further.
<1>2. PICK a \in {0, 1} :
        /\ \A i \in At(s, "CONN_ACK")' : i \in Nat /\ i >= 1 /\ i + a \in At(s, "CONN_ACK")
  <2>1. CASE Loses(s)
    <3>1. PICK m \in {0, 1} : Dropped(s, m) BY <2>1 DEF Loses
    <3> QED BY <3>1, AtLoses
  <2>2. CASE Gains(s, FrameType \ {"CONN_ACK"})
    <3>1. PICK g \in Frame : g.frame # "CONN_ACK" /\ Appended(s, g) BY <2>2 DEF Gains
    <3>2. At(s, "CONN_ACK")' = At(s, "CONN_ACK") BY <3>1, AtGains
    <3>3. \A i \in At(s, "CONN_ACK") : i + 0 = i /\ i \in Nat /\ i >= 1 BY AtFacts
    <3> QED BY <3>2, <3>3
  <2> QED BY <2>1, <2>2
<1>3. PICK b \in {0, 1} :
        /\ \A i \in At(r, "CONN")' : i \in Nat /\ i >= 1 /\ i + b \in At(r, "CONN")
        /\ \A i \in At(r, "CONN_ACK") : i > b => i - b \in At(r, "CONN_ACK")'
        /\ Asking(s)' => Len(link'[r]) \in Nat /\ Len(link[r]) = Len(link'[r]) + b
  <2>1. CASE Loses(r)
    <3>1. PICK m \in {0, 1} : Dropped(r, m) BY <2>1 DEF Loses
    <3> QED BY <1>0, <3>1, AtLoses
  <2>2. CASE ~Asking(s)' /\ Gains(r, FrameType \ {"CONN"})
    <3>1. PICK g \in Frame : g.frame # "CONN" /\ Appended(r, g) BY <2>2 DEF Gains
    <3>2. At(r, "CONN")' = At(r, "CONN") BY <1>0, <3>1, AtGains
    <3>3. At(r, "CONN_ACK") \subseteq At(r, "CONN_ACK")' BY <1>0, <3>1, AtGains
    <3>4. \A type : \A i \in At(r, type) : i + 0 = i /\ i - 0 = i /\ i \in Nat /\ i >= 1
      BY <1>0, AtFacts
    <3> QED BY <2>2, <3>2, <3>3, <3>4
  <2> QED BY <2>1, <2>2
<1>4. OneHandshake(s)'
  <2>1. \A i, j \in At(r, "CONN")' : i = j BY <1>1, <1>3
  <2>2. \A i, j \in At(s, "CONN_ACK")' : i = j BY <1>1, <1>2
  <2>3. At(r, "CONN")' = {} \/ At(s, "CONN_ACK")' = {} BY <1>1, <1>2, <1>3
  <2>4. Over(s)' => At(r, "CONN")' = {} /\ At(s, "CONN_ACK")' = {} BY <1>1, <1>2, <1>3
  <2> QED BY <2>1, <2>2, <2>3, <2>4 DEF OneHandshake
<1>5. AskedLast(s)'
  <2> SUFFICES ASSUME Asking(s)'
               PROVE  /\ \A i \in At(r, "CONN")' : i = Len(link'[r])
                      /\ At(s, "CONN_ACK")' # {} => link'[r] = <<>>
    BY DEF AskedLast
  <2>1. /\ \A i \in At(r, "CONN") : i = Len(link[r])
        /\ At(s, "CONN_ACK") # {} => link[r] = <<>>
    BY DEF HandshakeInv, AskedLast
  <2>2. \A i \in At(r, "CONN")' : i = Len(link'[r]) BY <1>3, <2>1
  <2>3. ASSUME At(s, "CONN_ACK")' # {} PROVE link'[r] = <<>>
    <3>1. link[r] = <<>> BY <1>2, <2>1, <2>3
    <3>2. Len(link[r]) = 0 BY <3>1
    <3>3. Loses(r) OBVIOUS
    <3>4. PICK m \in {0, 1} : Dropped(r, m) BY <3>3 DEF Loses
    <3>5. Len(link'[r]) = 0 BY <1>0, <3>2, <3>4, AtLoses
    <3> QED BY <1>3, <3>5
  <2> QED BY <2>2, <2>3
<1>6. UpCrossed(s)'
  <2> SUFFICES ASSUME Up(s)'
               PROVE  /\ \A i \in At(r, "CONN")' : i + 1 \in At(r, "CONN_ACK")'
                      /\ \A i \in At(s, "CONN_ACK")' : i = 1
    BY DEF UpCrossed
  <2>1. /\ \A i \in At(r, "CONN") : i + 1 \in At(r, "CONN_ACK")
        /\ \A i \in At(s, "CONN_ACK") : i = 1
    BY DEF HandshakeInv, UpCrossed
  <2>2. ASSUME NEW i \in At(r, "CONN")' PROVE i + 1 \in At(r, "CONN_ACK")'
    <3>1. i \in Nat /\ i >= 1 /\ (i + b) + 1 \in At(r, "CONN_ACK") BY <1>3, <2>1
    <3>2. (i + b) + 1 > b /\ ((i + b) + 1) - b = i + 1 BY <3>1
    <3> QED BY <1>3, <3>1, <3>2
  <2>3. \A i \in At(s, "CONN_ACK")' : i = 1 BY <1>2, <2>1
  <2> QED BY <2>2, <2>3
<1> QED BY <1>4, <1>5, <1>6 DEF HandshakeInv
-----------------------------------------------------------------------------
(* Sessions: the steps that do not disturb them *)

\* If s is up, it was so before the step, and expects the same acknowledgement.
StillUp(s) ==
  Up(s)' => /\ Up(s) /\ dc'[s].next_expected_ack = dc[s].next_expected_ack
            /\ Awaiting(s) => Awaiting(s)' /\ sent'[s] = sent[s]

\* What was picked up at r stays so.
Remembers(r) == \A m : IsDelivered(m, r) => IsDelivered(m, r)'

LEMMA FreshQuiet ==
  ASSUME TypeOK, NEW s \in Station, AnsweredFresh(s),
         Loses(s) \/ Gains(s, FrameType \ {"CONN_ACK", "ACK"}),
         Asking(s)' => Asking(s),
         dc'[Peer(s)].recv_number \in {dc[Peer(s)].recv_number, 0},
         dc'[Peer(s)].next_expected_ack \in {dc[Peer(s)].next_expected_ack, 0},
         dc'[Peer(s)].extractionBuffer \in {dc[Peer(s)].extractionBuffer, NoMsg}
  PROVE  AnsweredFresh(s)'
<1> DEFINE r == Peer(s)
<1> SUFFICES ASSUME Asking(s)', NEW i \in At(s, "CONN_ACK")'
             PROVE  /\ dc'[r].recv_number = 0 /\ dc'[r].next_expected_ack = 0
                    /\ dc'[r].extractionBuffer = NoMsg
                    /\ \A k \in At(s, "ACK")' : k < i
  BY DEF AnsweredFresh
<1>1. \A j \in At(s, "CONN_ACK") :
        /\ dc[r].recv_number = 0 /\ dc[r].next_expected_ack = 0
        /\ dc[r].extractionBuffer = NoMsg
        /\ \A k \in At(s, "ACK") : k < j
  BY DEF AnsweredFresh
<1>2. CASE Loses(s)
  <2>1. PICK m \in {0, 1} : Dropped(s, m) BY <1>2 DEF Loses
  <2>2. i + m \in At(s, "CONN_ACK") /\ i \in Nat BY <2>1, AtLoses
  <2>3. \A k \in At(s, "ACK")' : k \in Nat /\ k + m \in At(s, "ACK") BY <2>1, AtLoses
  <2>4. \A k \in At(s, "ACK")' : k + m < i + m BY <1>1, <2>2, <2>3
  <2>5. \A k \in At(s, "ACK")' : k < i BY <2>2, <2>3, <2>4
  <2> QED BY <1>1, <2>2, <2>5
<1>3. CASE Gains(s, FrameType \ {"CONN_ACK", "ACK"})
  <2>1. PICK g \in Frame : g.frame \notin {"CONN_ACK", "ACK"} /\ Appended(s, g)
    BY <1>3 DEF Gains
  <2>2. At(s, "CONN_ACK")' = At(s, "CONN_ACK") /\ At(s, "ACK")' = At(s, "ACK")
    BY <2>1, AtGains
  <2> QED BY <1>1, <2>2
<1> QED BY <1>2, <1>3

LEMMA AckQuiet ==
  ASSUME TypeOK, NEW s \in Station, AckInv(s),
         Loses(s) \/ Gains(s, FrameType \ {"ACK"}),
         StillUp(s), Remembers(Peer(s))
  PROVE  AckInv(s)'
<1> DEFINE n == dc[s].next_expected_ack
           r == Peer(s)
<1>1. /\ \A i \in At(s, "CONN"), k \in At(s, "ACK") : k < i
      /\ Up(s) => \A i \in At(s, "ACK") :
           /\ link[s][i].seq # n => Succ(link[s][i].seq) = n
           /\ link[s][i].seq = n =>
                /\ Awaiting(s) /\ IsDelivered(sent[s], r)
                /\ \A k \in At(s, "ACK") : i < k => link[s][k].seq = n
  BY DEF AckInv
\* An acknowledgement was on the wire before the step.
<1>2. PICK a \in {0, 1} :
        /\ \A i \in At(s, "ACK")' : /\ i \in Nat /\ i + a \in At(s, "ACK")
                                    /\ link'[s][i] = link[s][i + a]
        /\ \A i \in At(s, "CONN")', k \in At(s, "ACK")' : k < i
  <2>1. CASE Loses(s)
    <3>1. PICK m \in {0, 1} : Dropped(s, m) BY <2>1 DEF Loses
    <3>2. /\ \A i \in At(s, "ACK")' : /\ i \in Nat /\ i + m \in At(s, "ACK")
                                      /\ link'[s][i] = link[s][i + m]
          /\ \A i \in At(s, "CONN")' : i \in Nat /\ i + m \in At(s, "CONN")
      BY <3>1, AtLoses
    <3>3. ASSUME NEW i \in At(s, "CONN")', NEW k \in At(s, "ACK")'
          PROVE  k < i
      <4>1. i \in Nat /\ k \in Nat /\ k + m < i + m BY <1>1, <3>2
      <4> QED BY <4>1
    <3> QED BY <3>2, <3>3
  <2>2. CASE Gains(s, FrameType \ {"ACK"})
    <3>1. PICK g \in Frame : g.frame # "ACK" /\ Appended(s, g) BY <2>2 DEF Gains
    <3>2. /\ At(s, "ACK")' = At(s, "ACK")
          /\ \A i \in At(s, "ACK") : /\ i + 0 = i /\ i \in Nat /\ i <= Len(link[s])
                                     /\ link'[s][i] = link[s][i]
      BY <3>1, AtGains, AtFacts
    <3>3. \A i \in At(s, "CONN")' : i \in At(s, "CONN") \/ i = Len(link[s]) + 1
      BY <3>1, AtGains
    <3>4. ASSUME NEW i \in At(s, "CONN")', NEW k \in At(s, "ACK")'
          PROVE  k < i
      <4>1. CASE i \in At(s, "CONN") BY <1>1, <3>2, <4>1
      <4>2. CASE i = Len(link[s]) + 1 BY <3>2, <4>2, FrameFacts
      <4> QED BY <3>3, <4>1, <4>2
    <3> QED BY <3>2, <3>4
  <2> QED BY <2>1, <2>2
<1>3. ASSUME Up(s)', NEW i \in At(s, "ACK")'
      PROVE  /\ link'[s][i].seq # n => Succ(link'[s][i].seq) = n
             /\ link'[s][i].seq = n =>
                  /\ Awaiting(s)' /\ IsDelivered(sent[s], r)'
                  /\ \A k \in At(s, "ACK")' : i < k => link'[s][k].seq = n
  <2>1. Up(s) BY <1>3 DEF StillUp
  <2>2. /\ link[s][i + a].seq # n => Succ(link[s][i + a].seq) = n
        /\ link[s][i + a].seq = n =>
             /\ Awaiting(s) /\ IsDelivered(sent[s], r)
             /\ \A k \in At(s, "ACK") : i + a < k => link[s][k].seq = n
    BY <1>1, <1>2, <2>1
  <2>3. \A k \in At(s, "ACK")' : i < k => i + a < k + a BY <1>2
  <2>4. Awaiting(s) /\ IsDelivered(sent[s], r) => Awaiting(s)' /\ IsDelivered(sent[s], r)'
    <3>1. Awaiting(s) => Awaiting(s)' /\ sent'[s] = sent[s] BY <1>3 DEF StillUp
    <3>2. IsDelivered(sent[s], r) /\ sent'[s] = sent[s] => IsDelivered(sent[s], r)'
      BY DEF Remembers, IsDelivered
    <3> QED BY <3>1, <3>2
  <2> QED BY <1>2, <2>2, <2>3, <2>4
<1>4. Up(s)' => dc'[s].next_expected_ack = n BY DEF StillUp
<1> QED BY <1>2, <1>3, <1>4 DEF AckInv

LEMMA DataQuiet ==
  ASSUME TypeOK, NEW s \in Station, DataInv(s),
         \/ Loses(Peer(s))
         \/ \E g \in Frame :
              /\ Appended(Peer(s), g)
              /\ IsData(g) => /\ g.seq = dc[s].next_expected_ack
                              /\ Awaiting(s)' /\ g.msg = sent'[s],
         StillUp(s)
  PROVE  DataInv(s)'
<1> DEFINE n == dc[s].next_expected_ack
           r == Peer(s)
           Last(i) == \A k \in i .. Len(link[r]) : ~IsBorder(link[r][k])
<1>0. r \in Station BY PeerType
<1>1. Up(s) => \A i \in At(r, "DATA") : Last(i) =>
        /\ link[r][i].seq # n => Succ(link[r][i].seq) = n
        /\ link[r][i].seq = n => Awaiting(s) /\ link[r][i].msg = sent[s]
  BY DEF DataInv
<1>2. ASSUME Up(s)', NEW i \in At(r, "DATA")',
             \A k \in i .. Len(link'[r]) : ~IsBorder(link'[r][k])
      PROVE  /\ link'[r][i].seq # n => Succ(link'[r][i].seq) = n
             /\ link'[r][i].seq = n => Awaiting(s)' /\ link'[r][i].msg = sent'[s]
  <2>0. Up(s) /\ (Awaiting(s) => Awaiting(s)' /\ sent'[s] = sent[s]) BY <1>2 DEF StillUp
  \* A copy that was on the wire before.
  <2>1. ASSUME NEW j \in At(r, "DATA"), Last(j), link'[r][i] = link[r][j]
        PROVE  /\ link'[r][i].seq # n => Succ(link'[r][i].seq) = n
               /\ link'[r][i].seq = n => Awaiting(s)' /\ link'[r][i].msg = sent'[s]
    <3> HIDE DEF Last
    <3> QED BY <1>1, <2>0, <2>1
  <2>2. CASE Loses(r)
    <3>1. PICK m \in {0, 1} : Dropped(r, m) BY <2>2 DEF Loses
    <3>2. /\ Len(link'[r]) \in Nat /\ Len(link[r]) = Len(link'[r]) + m
          /\ i \in Nat /\ i >= 1 /\ i + m \in At(r, "DATA") /\ link'[r][i] = link[r][i + m]
      BY <1>0, <3>1, AtLoses
    <3>3. ASSUME NEW k \in i + m .. Len(link[r])
          PROVE  ~IsBorder(link[r][k])
      <4>1. k - m \in i .. Len(link'[r]) /\ k - m \in 1 .. Len(link[r]) - m /\ (k - m) + m = k
        BY <3>2
      <4>2. link'[r][k - m] = link[r][k] BY <3>1, <4>1 DEF Dropped
      <4> QED BY <1>2, <4>1, <4>2
    <3> QED BY <2>1, <3>2, <3>3
  <2>3. ASSUME NEW g \in Frame, Appended(r, g),
               IsData(g) => /\ g.seq = n
                            /\ Awaiting(s)' /\ g.msg = sent'[s]
        PROVE  /\ link'[r][i].seq # n => Succ(link'[r][i].seq) = n
               /\ link'[r][i].seq = n => Awaiting(s)' /\ link'[r][i].msg = sent'[s]
    <3>1. /\ Len(link[r]) \in Nat /\ Len(link'[r]) = Len(link[r]) + 1
          /\ link'[r][Len(link[r]) + 1] = g
          /\ \A k \in 1 .. Len(link[r]) : link'[r][k] = link[r][k]
          /\ i \in At(r, "DATA") \/ (i = Len(link[r]) + 1 /\ IsData(g))
      BY <1>0, <1>2, <2>3, AtGains DEF IsData
    <3>2. CASE i = Len(link[r]) + 1 /\ IsData(g)
      BY <2>3, <3>1, <3>2
    <3>3. CASE i \in At(r, "DATA")
      <4>1. i \in 1 .. Len(link[r]) BY <3>3 DEF At
      <4>2. \A k \in i .. Len(link[r]) : k \in 1 .. Len(link[r]) /\ k \in i .. Len(link'[r])
        BY <3>1, <4>1
      <4> QED BY <1>2, <2>1, <3>1, <3>3, <4>1, <4>2
    <3> QED BY <3>1, <3>2, <3>3
  <2> QED BY <2>2, <2>3
<1>3. Up(s)' => dc'[s].next_expected_ack = n BY DEF StillUp
<1> QED BY <1>2, <1>3 DEF DataInv

LEMMA RecvQuiet ==
  ASSUME TypeOK, NEW s \in Station, RecvInv(s),
         Loses(s) \/ Gains(s, FrameType \ {"ACK"}), StillUp(s),
         Up(s)' /\ Up(Peer(s))' =>
           /\ Up(Peer(s)) /\ Newest(Peer(s))' = Newest(Peer(s))
           /\ dc'[Peer(s)].recv_number = dc[Peer(s)].recv_number
  PROVE  RecvInv(s)'
<1> DEFINE n == dc[s].next_expected_ack
           r == Peer(s)
<1> SUFFICES ASSUME Up(s)', Up(r)'
             PROVE  /\ dc'[r].recv_number # dc'[s].next_expected_ack =>
                         /\ dc'[r].recv_number = Succ(dc'[s].next_expected_ack)
                         /\ Awaiting(s)' /\ Newest(r)' = sent'[s]
                    /\ \A i \in At(s, "ACK")' :
                         link'[s][i].seq = dc'[s].next_expected_ack
                           => dc'[r].recv_number # dc'[s].next_expected_ack
  BY DEF RecvInv
<1>1. /\ Up(s) /\ Up(r) /\ Newest(r)' = Newest(r) /\ dc'[r].recv_number = dc[r].recv_number
      /\ dc'[s].next_expected_ack = n
      /\ Awaiting(s) => Awaiting(s)' /\ sent'[s] = sent[s]
  BY DEF StillUp
<1>2. /\ dc[r].recv_number # n =>
           dc[r].recv_number = Succ(n) /\ Awaiting(s) /\ Newest(r) = sent[s]
      /\ \A i \in At(s, "ACK") : link[s][i].seq = n => dc[r].recv_number # n
  BY <1>1 DEF RecvInv
<1>3. \A i \in At(s, "ACK")' : \E j \in At(s, "ACK") : link'[s][i] = link[s][j]
  <2>1. CASE Loses(s)
    <3>1. PICK m \in {0, 1} : Dropped(s, m) BY <2>1 DEF Loses
    <3> QED BY <3>1, AtLoses
  <2>2. CASE Gains(s, FrameType \ {"ACK"})
    <3>1. PICK g \in Frame : g.frame # "ACK" /\ Appended(s, g) BY <2>2 DEF Gains
    <3> QED BY <3>1, AtGains, AtFacts
  <2> QED BY <2>1, <2>2
<1> QED BY <1>1, <1>2, <1>3

LEMMA ConfirmQuiet ==
  ASSUME NEW s \in Station, ConfirmInv(s), Remembers(Peer(s)), confirmed'[s] = confirmed[s],
         Acknowledged(s)' => Acknowledged(s) /\ sent'[s] = sent[s]
  PROVE  ConfirmInv(s)'
<1>1. Acknowledged(s)' => IsDelivered(sent[s], Peer(s))'
  BY DEF ConfirmInv, Remembers, IsDelivered
<1>2. \A m \in confirmed'[s] : IsDelivered(m, Peer(s))'
  BY DEF ConfirmInv, Remembers
<1> QED BY <1>1, <1>2 DEF ConfirmInv

LEMMA RestsSession ==
  ASSUME NEW s \in Station, Rests(s)
  PROVE  /\ StillUp(s) /\ Remembers(s)
         /\ Acknowledged(s)' => Acknowledged(s) /\ sent'[s] = sent[s]
         /\ NumbersInv(s) => NumbersInv(s)'
<1>1. StillUp(s) /\ Remembers(s) BY RestsStatus DEF Rests, StillUp, Remembers
<1>2. Acknowledged(s)' => Acknowledged(s) /\ sent'[s] = sent[s] BY RestsStatus DEF Rests
<1>3. NumbersInv(s) => NumbersInv(s)' BY RestsStatus DEF NumbersInv, Rests, Sending
<1> QED BY <1>1, <1>2, <1>3
-----------------------------------------------------------------------------
(* A step of station s, its peer q resting *)

\* With one calling thread, that thread tells where its station is.
LEMMA OneCaller ==
  ASSUME SingleThread, NEW s \in Station, NEW t \in Thread
  PROVE  /\ Up(s) <=> LinkUp(dc[s]) \/ Connected(s, t)
         /\ Asking(s) <=> dc[s].state = "DC_CONNECTING" /\ ~Connected(s, t)
         /\ Over(s) <=> \/ dc[s].state = "DC_DISCONNECTED"
                        \/ thr[s][t].wait = "expired" \/ (Sending(s, t) /\ Doomed(s, t))
         /\ Awaiting(s) <=> Sending(s, t) /\ thr[s][t].wait \in {"blocked", "expired"}
         /\ Acknowledged(s) <=> /\ Sending(s, t) /\ thr[s][t].wait = "signaled"
                                /\ dc[s].last_response = "DC_RESP_OK"
BY DEF SingleThread, Up, Asking, Over, Awaiting, Acknowledged

LEMMA OneCallerPrime ==
  ASSUME SingleThread, NEW s \in Station, NEW t \in Thread
  PROVE  /\ Up(s)' <=> LinkUp(dc'[s]) \/ Connected(s, t)'
         /\ Asking(s)' <=> dc'[s].state = "DC_CONNECTING" /\ ~Connected(s, t)'
         /\ Over(s)' <=> \/ dc'[s].state = "DC_DISCONNECTED"
                         \/ thr'[s][t].wait = "expired" \/ (Sending(s, t)' /\ Doomed(s, t)')
         /\ Awaiting(s)' <=> Sending(s, t)' /\ thr'[s][t].wait \in {"blocked", "expired"}
         /\ Acknowledged(s)' <=> /\ Sending(s, t)' /\ thr'[s][t].wait = "signaled"
                                 /\ dc'[s].last_response = "DC_RESP_OK"
BY DEF SingleThread, Up, Asking, Over, Awaiting, Acknowledged

LEMMA PeerFacts ==
  ASSUME NEW s \in Station
  PROVE  /\ Peer(s) \in Station /\ Peer(s) # s /\ Peer(Peer(s)) = s
         /\ \A x \in Station : x = s \/ x = Peer(s)
BY PeerType DEF Station, Peer

LEMMA KeptWire ==
  ASSUME TypeOK, NEW x \in Station, link'[x] = link[x]
  PROVE  Loses(x)
<1>1. Dropped(x, 0) BY NothingDropped
<1> QED BY <1>1 DEF Loses

LEMMA TimelyTogether ==
  ASSUME NEW s \in Station, NEW q \in Station, q = Peer(s),
         CallerInv(s)', HandshakeInv(s)', SessionInv(s)',
         CallerInv(q)', HandshakeInv(q)', SessionInv(q)'
  PROVE  TimelyInv'
<1>1. \A x \in Station : x = s \/ x = q BY PeerFacts
<1> QED BY <1>1 DEF TimelyInv

\* No NACK reaches a wire.
LEMMA CallerRests ==
  ASSUME TypeOK, NEW q \in Station, Rests(q), CallerInv(q),
         Loses(q) \/ Gains(q, FrameType \ {"NACK"})
  PROVE  CallerInv(q)'
<1>1. At(q, "NACK") = {} BY DEF CallerInv
<1>2. At(q, "NACK")' = {}
  <2>1. CASE Loses(q)
    <3>1. PICK m \in {0, 1} : Dropped(q, m) BY <2>1 DEF Loses
    <3> QED BY <1>1, <3>1, AtLoses
  <2>2. CASE Gains(q, FrameType \ {"NACK"})
    <3>1. PICK g \in Frame : g.frame # "NACK" /\ Appended(q, g) BY <2>2 DEF Gains
    <3> QED BY <1>1, <3>1, AtGains
  <2> QED BY <2>1, <2>2
<1> QED BY <1>2 DEF CallerInv, Rests, Sending, Live, Doomed

\* A station whose peer takes a frame has no answered handshake that is fresh.
LEMMA FreshTaken ==
  ASSUME TypeOK, NEW s \in Station, NEW q \in Station, q = Peer(s), Rests(q),
         HandshakeInv(q), link[s] # <<>>,
         Loses(q) \/ Gains(q, FrameType \ {"CONN_ACK"})
  PROVE  AnsweredFresh(q)'
<1>0. Peer(q) = s BY PeerFacts
<1>1. Asking(q)' <=> Asking(q) BY RestsStatus
<1>2. Asking(q) => At(q, "CONN_ACK") = {} BY <1>0 DEF HandshakeInv, AskedLast
<1>3. At(q, "CONN_ACK") = {} => At(q, "CONN_ACK")' = {}
  <2>1. CASE Loses(q)
    <3>1. PICK m \in {0, 1} : Dropped(q, m) BY <2>1 DEF Loses
    <3> QED BY <3>1, AtLoses
  <2>2. CASE Gains(q, FrameType \ {"CONN_ACK"})
    <3>1. PICK g \in Frame : g.frame # "CONN_ACK" /\ Appended(q, g) BY <2>2 DEF Gains
    <3> QED BY <3>1, AtGains
  <2> QED BY <2>1, <2>2
<1> QED BY <1>1, <1>2, <1>3 DEF AnsweredFresh

\* What the peer relies on is kept by a step of s that puts no answer on its wire.
LEMMA PeerQuiet ==
  ASSUME TypeOK, TimelyInv, NEW s \in Station, NEW q \in Station, q = Peer(s), Rests(q),
         Loses(s), Loses(q) \/ Gains(q, {"DATA", "CONN"}),
         AnsweredFresh(q)', RecvInv(q)', Remembers(s)
  PROVE  CallerInv(q)' /\ HandshakeInv(q)' /\ SessionInv(q)'
<1>0. Peer(q) = s BY PeerFacts
<1>1. CallerInv(q) /\ HandshakeInv(q) /\ SessionInv(q) BY DEF TimelyInv
<1>2. \A T : Gains(q, {"DATA", "CONN"}) /\ {"DATA", "CONN"} \subseteq T => Gains(q, T)
  BY DEF Gains
<1>3. /\ Loses(q) \/ Gains(q, FrameType \ {"NACK"})
      /\ Loses(q) \/ Gains(q, FrameType \ {"CONN_ACK"})
      /\ Loses(q) \/ Gains(q, FrameType \ {"ACK"})
  BY <1>2 DEF FrameType
<1>4. CallerInv(q)' BY <1>1, <1>3, CallerRests
<1>5. Loses(Peer(q)) BY <1>0
<1>6. HandshakeInv(q)' BY <1>1, <1>3, <1>5, RestsStatus, HandshakeQuiet
<1>7. NumbersInv(q)' /\ StillUp(q) BY <1>1, RestsSession DEF SessionInv
<1>8. Remembers(Peer(q)) BY <1>0
<1>9. AckInv(q)' BY <1>1, <1>3, <1>7, <1>8, AckQuiet DEF SessionInv
<1>10. DataInv(q)' BY <1>1, <1>5, <1>7, DataQuiet DEF SessionInv
<1>11. ConfirmInv(q)' BY <1>1, <1>8, RestsSession, ConfirmQuiet DEF SessionInv, Rests
<1> QED BY <1>4, <1>6, <1>7, <1>9, <1>10, <1>11 DEF SessionInv

\* What s relies on is kept by its own step, if that leaves it up or waiting.
LEMMA OwnQuiet ==
  ASSUME TypeOK, TimelyInv, NEW s \in Station, NEW q \in Station, q = Peer(s), Rests(q),
         Loses(s), Asking(s)' => Asking(s), StillUp(s),
         \/ Loses(q)
         \/ \E g \in Frame :
              /\ Appended(q, g)
              /\ IsData(g) => /\ g.seq = dc[s].next_expected_ack
                              /\ Awaiting(s)' /\ g.msg = sent'[s],
         NumbersInv(s)', ConfirmInv(s)'
  PROVE  SessionInv(s)'
<1>1. SessionInv(s) BY DEF TimelyInv
<1>2. dc'[q] = dc[q] /\ Remembers(q) /\ Newest(q)' = Newest(q) /\ (Up(q)' <=> Up(q))
  BY RestsSession, RestsStatus DEF Rests
<1>3. AnsweredFresh(s)' BY <1>1, <1>2, FreshQuiet DEF SessionInv
<1>4. AckInv(s)' BY <1>1, <1>2, AckQuiet DEF SessionInv
<1>5. DataInv(s)' BY <1>1, DataQuiet DEF SessionInv
<1>6. RecvInv(s)' BY <1>1, <1>2, RecvQuiet DEF SessionInv
<1> QED BY <1>3, <1>4, <1>5, <1>6 DEF SessionInv

\* A step of s that at most repeats its message and takes a frame off its wire.
LEMMA QuietStep ==
  ASSUME TypeOK, TimelyInv, NEW s \in Station, NEW q \in Station, q = Peer(s), Rests(q),
         Loses(s), Remembers(s), StillUp(s), Asking(s)' => Asking(s),
         \/ Loses(q)
         \/ /\ ~Asking(s)'
            /\ \E g \in Frame :
                 /\ Appended(q, g) /\ IsData(g)
                 /\ g.seq = dc[s].next_expected_ack /\ Awaiting(s)' /\ g.msg = sent'[s],
         Over(s)' => Over(s) \/ (At(q, "CONN") = {} /\ At(s, "CONN_ACK") = {}),
         dc'[s].recv_number \in {dc[s].recv_number, 0},
         dc'[s].next_expected_ack \in {dc[s].next_expected_ack, 0},
         dc'[s].extractionBuffer \in {dc[s].extractionBuffer, NoMsg},
         Up(s)' => Newest(s)' = Newest(s) /\ dc'[s].recv_number = dc[s].recv_number,
         At(s, "NACK")' = {} => CallerInv(s)', NumbersInv(s)', ConfirmInv(s)'
  PROVE  TimelyInv'
<1>0. Peer(q) = s BY PeerFacts
<1>1. /\ CallerInv(s) /\ HandshakeInv(s) /\ SessionInv(s)
      /\ HandshakeInv(q) /\ SessionInv(q)
  BY DEF TimelyInv
<1>2. /\ Loses(q) \/ Gains(q, {"DATA", "CONN"})
      /\ Loses(q) \/ (~Asking(s)' /\ Gains(q, FrameType \ {"CONN"}))
  BY DEF Gains, IsData, FrameType
<1>3. At(s, "NACK")' = {}
  <2>1. PICK m \in {0, 1} : Dropped(s, m) BY DEF Loses
  <2> QED BY <1>1, <2>1, AtLoses DEF CallerInv
<1>4. HandshakeInv(s)'
  <2>1. Up(s)' => Up(s) BY DEF StillUp
  <2> QED BY <1>1, <1>2, <2>1, HandshakeQuiet
<1>5. SessionInv(s)' BY OwnQuiet
<1>6. Loses(q) \/ Gains(q, FrameType \ {"CONN_ACK", "ACK"})
  BY DEF Gains, IsData, FrameType
<1>7. AnsweredFresh(q)'
  BY <1>0, <1>1, <1>6, RestsStatus, FreshQuiet DEF SessionInv
<1>8. RecvInv(q)'
  <2>1. StillUp(q) BY RestsSession
  <2>2. Loses(q) \/ Gains(q, FrameType \ {"ACK"}) BY DEF Gains, IsData, FrameType
  <2>3. Up(s)' => Up(s) BY DEF StillUp
  <2> QED BY <1>0, <1>1, <2>1, <2>2, <2>3, RecvQuiet DEF SessionInv
<1>9. CallerInv(q)' /\ HandshakeInv(q)' /\ SessionInv(q)'
  BY <1>2, <1>7, <1>8, PeerQuiet
<1> QED BY <1>3, <1>4, <1>5, <1>9, TimelyTogether
-----------------------------------------------------------------------------
(* Steps of threads *)

\* A call that finds nothing to do.
LEMMA Refused ==
  ASSUME TypeOK, TypeOK', AtMostOnceInv, TimelyInv, SingleThread,
         NEW s \in Station, NEW t \in Thread, Idle(s, t), NEW r, Return(s, t, r),
         UNCHANGED <<dc, link, history>>
  PROVE  TimelyInv'
<1> DEFINE q == Peer(s)
<1>0. q \in Station /\ q # s BY PeerFacts
<1>1. /\ link' = link /\ delivered' = delivered /\ confirmed' = confirmed
      /\ dc'[s] = dc[s] /\ sent'[s] = sent[s]
      /\ thr'[s][t] = [fn |-> "none", wait |-> "none", frame |-> NoFrame, ret |-> r]
      /\ dc'[q] = dc[q] /\ sent'[q] = sent[q] /\ thr'[q] = thr[q]
  BY <1>0 DEF Return, TypeOK, history
<1>2. Rests(q) BY <1>1 DEF Rests
<1>3. thr[s][t].fn = "none" /\ thr[s][t].wait = "none"
  BY DEF Idle, AtMostOnceInv, CallInv
<1>4. /\ Up(s)' <=> Up(s)
      /\ Asking(s)' <=> Asking(s)
      /\ Over(s)' <=> Over(s)
      /\ ~Awaiting(s) /\ ~Awaiting(s)' /\ ~Acknowledged(s)'
  BY <1>1, <1>3, OneCaller, OneCallerPrime DEF Connected, Sending, Doomed
<1>5. CallerInv(s) /\ NumbersInv(s) /\ ConfirmInv(s) BY DEF TimelyInv, SessionInv
<1>6. At(s, "NACK")' = {} => CallerInv(s)'
  BY <1>1, <1>3, <1>5 DEF CallerInv, SingleThread, Sending, Live, Doomed
<1>7. NumbersInv(s)'
  BY <1>1, <1>4, <1>5 DEF NumbersInv, SingleThread, Sending
<1>8. Remembers(q) /\ Remembers(s) BY <1>1 DEF Remembers, IsDelivered
<1>9. ConfirmInv(s)'
  BY <1>0, <1>1, <1>4, <1>5, <1>8, ConfirmQuiet
<1>10. StillUp(s) BY <1>1, <1>4 DEF StillUp
<1>11. Loses(s) /\ Loses(q) BY <1>0, <1>1, KeptWire
<1>12. Newest(s)' = Newest(s) BY <1>1 DEF Newest
<1> QED
  BY <1>0, <1>1, <1>2, <1>4, <1>6, <1>7, <1>8, <1>9, <1>10, <1>11, <1>12, QuietStep

\* A call that ends with the link up, as it was before, or with a reset.
LEMMA Ends ==
  ASSUME TypeOK, TypeOK', AtMostOnceInv, TimelyInv, SingleThread,
         NEW s \in Station, NEW t \in Thread, NEW r, Return(s, t, r),
         link' = link, sent' = sent, delivered' = delivered,
         NEW d, dc' = [dc EXCEPT ![s] = d],
         confirmed'[Peer(s)] = confirmed[Peer(s)],
         \A m \in confirmed'[s] : m \in confirmed[s] \/ IsDelivered(m, Peer(s)),
         d.send_number = d.next_expected_ack,
         \/ /\ d.state = "DC_CONNECTED" /\ Up(s) /\ ~Awaiting(s)
            /\ d.recv_number = dc[s].recv_number
            /\ d.next_expected_ack = dc[s].next_expected_ack
            /\ d.extractionBuffer = dc[s].extractionBuffer
         \/ /\ d.state = "DC_DISCONNECTED" /\ Over(s)
            /\ d.recv_number = 0 /\ d.next_expected_ack = 0 /\ d.extractionBuffer = NoMsg
  PROVE  TimelyInv'
<1> DEFINE q == Peer(s)
<1>0. q \in Station /\ q # s BY PeerFacts
<1>1. /\ dc'[s] = d /\ sent'[s] = sent[s]
      /\ thr'[s][t] = [fn |-> "none", wait |-> "none", frame |-> NoFrame, ret |-> r]
      /\ dc'[q] = dc[q] /\ sent'[q] = sent[q] /\ thr'[q] = thr[q]
  BY <1>0 DEF Return, TypeOK
<1>2. Rests(q) BY <1>1 DEF Rests
<1>3. \A u \in Thread : ~Sending(s, u)' /\ thr'[s][u].wait = "none"
  BY <1>1 DEF SingleThread, Sending
<1>4. /\ Up(s)' <=> LinkUp(d)
      /\ ~Asking(s)' /\ ~Awaiting(s)' /\ ~Acknowledged(s)'
      /\ Over(s)' <=> d.state = "DC_DISCONNECTED"
  BY <1>1, <1>3, OneCallerPrime DEF Connected, LinkUp
<1>5. CallerInv(s) /\ NumbersInv(s) /\ ConfirmInv(s) BY DEF TimelyInv, SessionInv
<1>6. At(s, "NACK")' = {} => CallerInv(s)'
  BY <1>1, <1>3 DEF CallerInv, LinkUp
<1>7. NumbersInv(s)' BY <1>1, <1>3, <1>4 DEF NumbersInv
<1>8. Remembers(q) /\ Remembers(s) BY DEF Remembers, IsDelivered
<1>9. ConfirmInv(s)'
  BY <1>4, <1>5, <1>8 DEF ConfirmInv, Remembers
<1>10. StillUp(s) BY <1>1, <1>4 DEF StillUp, LinkUp
<1>11. Loses(s) /\ Loses(q) BY <1>0, KeptWire
<1>12. Up(s)' => Newest(s)' = Newest(s) /\ dc'[s].recv_number = dc[s].recv_number
  BY <1>1, <1>4 DEF Newest, LinkUp
<1>13. /\ dc'[s].recv_number \in {dc[s].recv_number, 0}
       /\ dc'[s].next_expected_ack \in {dc[s].next_expected_ack, 0}
       /\ dc'[s].extractionBuffer \in {dc[s].extractionBuffer, NoMsg}
       /\ Over(s)' => Over(s)
  BY <1>1, <1>4
<1> QED
  BY <1>0, <1>2, <1>4, <1>6, <1>7, <1>8, <1>9, <1>10, <1>11, <1>12, <1>13, QuietStep

LEMMA TimelyConnectResume ==
  ASSUME Timely, TypeOK, TypeOK', AtMostOnceInv, TimelyInv,
         NEW s \in Station, NEW t \in Thread, ConnectResume(s, t)
  PROVE  TimelyInv'
<1>1. /\ SingleThread /\ dc[s] \in DeadcomL2 /\ dc \in [Station -> DeadcomL2]
      /\ thr[s][t].fn = "dcConnect" /\ dc[s].state = "DC_CONNECTING"
  BY DEF Timely, TypeOK, ConnectResume, AtMostOnceInv, CallInv
<1>2. /\ dc[s].send_number = 0 /\ dc[s].next_expected_ack = 0
      /\ dc[s].recv_number = 0 /\ dc[s].extractionBuffer = NoMsg
      /\ thr[s][t].wait # "failed"
  BY <1>1 DEF TimelyInv, CallerInv, LinkUp
<1>3. /\ link' = link /\ sent' = sent /\ delivered' = delivered /\ confirmed' = confirmed
      /\ ~Awaiting(s)
  BY <1>1, OneCaller DEF ConnectResume, history, Sending
<1>4. PICK r, d : /\ Return(s, t, r) /\ dc' = [dc EXCEPT ![s] = d]
                  /\ \/ /\ thr[s][t].wait = "signaled"
                        /\ d = [resetLink(dc[s]) EXCEPT !.state = "DC_CONNECTED"]
                     \/ /\ thr[s][t].wait = "expired"
                        /\ d = [dc[s] EXCEPT !.state = "DC_DISCONNECTED"]
  BY <1>1, <1>2 DEF ConnectResume
<1>5. CASE thr[s][t].wait = "signaled" /\ d = [resetLink(dc[s]) EXCEPT !.state = "DC_CONNECTED"]
  <2>1. Up(s) BY <1>1, <1>5, OneCaller DEF Connected
  <2>2. /\ d.state = "DC_CONNECTED" /\ d.send_number = 0 /\ d.next_expected_ack = 0
        /\ d.recv_number = 0 /\ d.extractionBuffer = NoMsg
    BY <1>1, <1>5 DEF resetLink, DeadcomL2
  <2> QED BY <1>1, <1>2, <1>3, <1>4, <2>1, <2>2, Ends
<1>6. CASE thr[s][t].wait = "expired" /\ d = [dc[s] EXCEPT !.state = "DC_DISCONNECTED"]
  <2>1. Over(s) BY <1>6 DEF Over
  <2>2. /\ d.state = "DC_DISCONNECTED" /\ d.send_number = 0 /\ d.next_expected_ack = 0
        /\ d.recv_number = 0 /\ d.extractionBuffer = NoMsg
    BY <1>1, <1>2, <1>6 DEF DeadcomL2
  <2> QED BY <1>1, <1>2, <1>3, <1>4, <2>1, <2>2, Ends
<1> QED BY <1>4, <1>5, <1>6

\* What is said about a call that waits in dcSendMessage.
LEMMA SendingFacts ==
  ASSUME Timely, TypeOK, AtMostOnceInv, TimelyInv,
         NEW s \in Station, NEW t \in Thread, thr[s][t].fn = "dcSendMessage"
  PROVE  /\ SingleThread /\ Up(s) /\ LinkUp(dc[s]) /\ dc[s] \in DeadcomL2
         /\ dc \in [Station -> DeadcomL2]
         /\ thr[s][t].wait \in {"blocked", "signaled", "expired"}
         /\ thr[s][t].frame \in Frame /\ IsData(thr[s][t].frame)
         /\ thr[s][t].frame.msg = sent[s]
         /\ Awaiting(s) <=> thr[s][t].wait \in {"blocked", "expired"}
         /\ Acknowledged(s) <=> /\ thr[s][t].wait = "signaled"
                                /\ dc[s].last_response = "DC_RESP_OK"
         /\ Over(s) <=> \/ thr[s][t].wait = "expired"
                        \/ /\ thr[s][t].wait = "signaled"
                           /\ dc[s].last_response = "DC_RESP_NOLINK"
         /\ thr[s][t].wait = "signaled" =>
              dc[s].last_response \in {"DC_RESP_OK", "DC_RESP_NOLINK"}
<1>1. Sending(s, t) BY DEF Sending
<1>2. /\ thr[s][t] \in Call /\ dc[s] \in DeadcomL2 /\ dc \in [Station -> DeadcomL2]
  BY DEF TypeOK
<1>3. /\ thr[s][t].wait \in {"blocked", "signaled", "expired", "failed"}
      /\ thr[s][t].frame \in Frame
      /\ dc[s].last_response \in {"DC_RESP_OK", "DC_RESP_REJECT", "DC_RESP_NOLINK"}
  BY <1>2 DEF Call, DeadcomL2, LastResponse
<1>4. /\ thr[s][t].wait # "failed"
      /\ thr[s][t].wait = "signaled" => dc[s].last_response # "DC_RESP_REJECT"
  BY <1>1 DEF TimelyInv, CallerInv
<1>5. /\ LinkUp(dc[s]) /\ IsData(thr[s][t].frame) /\ thr[s][t].frame.msg = sent[s]
      /\ dc[s].state # "DC_DISCONNECTED"
  BY <1>1 DEF AtMostOnceInv, CallInv, LinkUp
<1> QED BY <1>1, <1>2, <1>3, <1>4, <1>5, OneCaller DEF Timely, Doomed

LEMMA TimelySendConfirmed ==
  ASSUME Timely, TypeOK, TypeOK', AtMostOnceInv, TimelyInv,
         NEW s \in Station, NEW t \in Thread, SendConfirmed(s, t)
  PROVE  TimelyInv'
<1> DEFINE d == [dc[s] EXCEPT !.state = "DC_CONNECTED"]
<1>1. /\ thr[s][t].fn = "dcSendMessage" /\ thr[s][t].wait = "signaled"
      /\ dc[s].last_response = "DC_RESP_OK"
      /\ Return(s, t, "DC_OK") /\ dc' = [dc EXCEPT ![s] = d]
      /\ link' = link /\ sent' = sent /\ delivered' = delivered
      /\ confirmed' = [confirmed EXCEPT ![s] = @ \cup {thr[s][t].frame.msg}]
  BY DEF SendConfirmed, InSend
<1>2. /\ SingleThread /\ Up(s) /\ ~Awaiting(s) /\ Acknowledged(s) /\ dc[s] \in DeadcomL2
      /\ thr[s][t].frame.msg = sent[s]
  BY <1>1, SendingFacts
<1>3. NumbersInv(s) /\ ConfirmInv(s) BY DEF TimelyInv, SessionInv
<1>4. dc[s].send_number = dc[s].next_expected_ack BY <1>2, <1>3 DEF NumbersInv
<1>5. /\ confirmed'[Peer(s)] = confirmed[Peer(s)]
      /\ \A m \in confirmed'[s] : m \in confirmed[s] \/ IsDelivered(m, Peer(s))
  BY <1>1, <1>2, <1>3, PeerFacts DEF TypeOK, ConfirmInv
<1>6. /\ d.state = "DC_CONNECTED" /\ d.send_number = dc[s].send_number
      /\ d.recv_number = dc[s].recv_number
      /\ d.next_expected_ack = dc[s].next_expected_ack
      /\ d.extractionBuffer = dc[s].extractionBuffer
  BY <1>2 DEF DeadcomL2
<1> HIDE DEF d
<1> QED BY <1>1, <1>2, <1>4, <1>5, <1>6, Ends

LEMMA TimelySendLinkReset ==
  ASSUME Timely, TypeOK, TypeOK', AtMostOnceInv, TimelyInv,
         NEW s \in Station, NEW t \in Thread, SendLinkReset(s, t)
  PROVE  TimelyInv'
<1> DEFINE d == resetLink(dc[s])
<1>1. /\ thr[s][t].fn = "dcSendMessage"
      /\ Return(s, t, "DC_LINK_RESET") /\ dc' = [dc EXCEPT ![s] = d]
      /\ link' = link /\ sent' = sent /\ delivered' = delivered /\ confirmed' = confirmed
  BY DEF SendLinkReset, InSend, Unanswered, history
<1>2. SingleThread /\ Over(s) /\ dc[s] \in DeadcomL2
  BY <1>1, SendingFacts DEF SendLinkReset, InSend, Unanswered
<1>3. /\ d.state = "DC_DISCONNECTED" /\ d.send_number = 0 /\ d.next_expected_ack = 0
      /\ d.recv_number = 0 /\ d.extractionBuffer = NoMsg
  BY <1>2 DEF resetLink, DeadcomL2
<1> HIDE DEF d
<1> QED BY <1>1, <1>2, <1>3, Ends

LEMMA Sent ==
  ASSUME NoFailures, TypeOK, NEW s \in Station, NEW ok \in BOOLEAN, NEW f, Transmit(s, f, ok)
  PROVE  ok /\ Appended(Peer(s), f) /\ link'[s] = link[s]
BY PeerFacts DEF NoFailures, Transmit, Ext, Appended, TypeOK

LEMMA TimelySendStart ==
  ASSUME Timely, TypeOK, TypeOK', AtMostOnceInv, TimelyInv,
         NEW s \in Station, NEW t \in Thread, SendStart(s, t)
  PROVE  TimelyInv'
<1> DEFINE q == Peer(s)
           e == [dc[s] EXCEPT !.send_number = Succ(@), !.failure_count = 0,
                              !.state = "DC_TRANSMITTING"]
<1>0. q \in Station /\ q # s BY PeerFacts
<1>1. SingleThread /\ NoFailures /\ dc[s] \in DeadcomL2 /\ sent[s] \in Nat
  BY DEF Timely, TypeOK
<1>2. PICK f \in Frame : /\ f = Data(dc[s].send_number, sent[s] + 1)
                         /\ IsData(f) /\ f.seq = dc[s].send_number /\ f.msg = sent[s] + 1
  <2>1. dc[s].send_number \in SeqNumber /\ sent[s] + 1 \in Nat BY <1>1 DEF DeadcomL2
  <2>2. Data(dc[s].send_number, sent[s] + 1) \in Frame BY <2>1, FrameFormed
  <2> QED BY <2>2 DEF Data, IsData
<1>3. PICK ok \in BOOLEAN :
        /\ Transmit(s, f, ok)
        /\ dc' = [dc EXCEPT ![s] = IF ok THEN e ELSE RolledBack(e)]
        /\ IF ok THEN Block(s, t, "dcSendMessage", f) ELSE Return(s, t, "DC_FAILURE")
  BY <1>2 DEF SendStart
<1>4. ok /\ Appended(q, f) /\ link'[s] = link[s] BY <1>1, <1>3, Sent
<1>5. /\ dc'[s] = e /\ dc'[q] = dc[q] /\ sent'[s] = sent[s] + 1 /\ sent'[q] = sent[q]
      /\ thr'[s][t] = [fn |-> "dcSendMessage", wait |-> "blocked", frame |-> f, ret |-> "none"]
      /\ thr'[q] = thr[q] /\ delivered' = delivered /\ confirmed' = confirmed
  BY <1>0, <1>3, <1>4 DEF TypeOK, Block, SendStart
<1>6. /\ dc'[s].state = "DC_TRANSMITTING" /\ dc'[s].recv_number = dc[s].recv_number
      /\ dc'[s].next_expected_ack = dc[s].next_expected_ack
      /\ dc'[s].send_number = Succ(dc[s].send_number)
      /\ dc'[s].extractionBuffer = dc[s].extractionBuffer
      /\ dc'[s].extractionComplete = dc[s].extractionComplete
  BY <1>1, <1>5 DEF DeadcomL2
<1> HIDE DEF e
<1>7. /\ thr[s][t].wait = "none" /\ thr[s][t].fn = "none" /\ dc[s].state = "DC_CONNECTED"
  BY DEF SendStart, Idle, MaySend, AtMostOnceInv, CallInv
<1>8. /\ Up(s) /\ ~Awaiting(s)
      /\ Up(s)' /\ Awaiting(s)' /\ ~Asking(s)' /\ ~Over(s)' /\ ~Acknowledged(s)'
  <2>1. Up(s) /\ ~Awaiting(s)
    BY <1>1, <1>7, OneCaller DEF LinkUp, Sending
  <2>2. Sending(s, t)' /\ ~Doomed(s, t)' /\ thr'[s][t].wait = "blocked"
    BY <1>5 DEF Sending, Doomed
  <2> QED BY <1>1, <1>6, <2>1, <2>2, OneCallerPrime DEF LinkUp
<1>9. CallerInv(s) /\ NumbersInv(s) /\ ConfirmInv(s) BY DEF TimelyInv, SessionInv
<1>10. dc[s].send_number = dc[s].next_expected_ack BY <1>8, <1>9 DEF NumbersInv
<1>11. At(s, "NACK")' = {} => CallerInv(s)'
  BY <1>1, <1>5, <1>6 DEF CallerInv, LinkUp, SingleThread, Sending, Live, Doomed
<1>12. NumbersInv(s)'
  BY <1>1, <1>2, <1>5, <1>6, <1>8, <1>10 DEF NumbersInv, SingleThread, Sending
<1>13. Rests(q) /\ Remembers(q) /\ Remembers(s) BY <1>5 DEF Rests, Remembers, IsDelivered
<1>14. ConfirmInv(s)' BY <1>5, <1>8, <1>9, <1>13, ConfirmQuiet
<1>15. Loses(s) BY <1>4, KeptWire
<1>16. StillUp(s) BY <1>6, <1>8 DEF StillUp
<1>17. Newest(s)' = Newest(s) BY <1>5, <1>6 DEF Newest
<1>18. \E g \in Frame :
         /\ Appended(q, g) /\ IsData(g)
         /\ g.seq = dc[s].next_expected_ack /\ Awaiting(s)' /\ g.msg = sent'[s]
  BY <1>2, <1>4, <1>5, <1>8, <1>10
<1> HIDE DEF q
<1> QED
  BY <1>0, <1>6, <1>8, <1>11, <1>12, <1>13, <1>14, <1>15, <1>16, <1>17, <1>18, QuietStep DEF q

LEMMA TimelySendAgain ==
  ASSUME Timely, TypeOK, TypeOK', AtMostOnceInv, TimelyInv,
         NEW s \in Station, NEW t \in Thread, SendAgain(s, t)
  PROVE  TimelyInv'
<1> DEFINE q == Peer(s)
           e == [dc[s] EXCEPT !.failure_count = @ + 1]
           f == thr[s][t].frame
<1>0. q \in Station /\ q # s BY PeerFacts
<1>1. /\ SingleThread /\ NoFailures /\ dc[s] \in DeadcomL2
      /\ thr[s][t].fn = "dcSendMessage"
  BY DEF Timely, TypeOK, SendAgain, Unanswered, InSend
<1>2. /\ Up(s) /\ LinkUp(dc[s]) /\ Awaiting(s) /\ thr[s][t].wait = "expired"
      /\ f \in Frame /\ IsData(f) /\ f.msg = sent[s]
  BY <1>1, SendingFacts DEF SendAgain, Unanswered, InSend
<1>3. PICK ok \in BOOLEAN :
        /\ Transmit(s, f, ok)
        /\ dc' = [dc EXCEPT ![s] = IF ok THEN e ELSE RolledBack(e)]
        /\ IF ok THEN Block(s, t, "dcSendMessage", f) ELSE Return(s, t, "DC_FAILURE")
  BY DEF SendAgain
<1>4. ok /\ Appended(q, f) /\ link'[s] = link[s] BY <1>1, <1>3, Sent
<1>5. /\ dc'[s] = e /\ dc'[q] = dc[q] /\ sent' = sent
      /\ thr'[s][t] = [fn |-> "dcSendMessage", wait |-> "blocked", frame |-> f, ret |-> "none"]
      /\ thr'[q] = thr[q] /\ delivered' = delivered /\ confirmed' = confirmed
  <2>1. dc' = [dc EXCEPT ![s] = e] /\ Block(s, t, "dcSendMessage", f) BY <1>3, <1>4
  <2>2. sent' = sent /\ delivered' = delivered /\ confirmed' = confirmed
    BY DEF SendAgain, history
  <2> HIDE DEF e, f
  <2> QED BY <1>0, <2>1, <2>2 DEF TypeOK, Block
<1>6. /\ dc'[s].state = dc[s].state /\ dc'[s].recv_number = dc[s].recv_number
      /\ dc'[s].next_expected_ack = dc[s].next_expected_ack
      /\ dc'[s].send_number = dc[s].send_number
      /\ dc'[s].extractionBuffer = dc[s].extractionBuffer
  BY <1>1, <1>5 DEF DeadcomL2
<1> HIDE DEF e
<1>8. Up(s)' /\ Awaiting(s)' /\ ~Asking(s)' /\ ~Over(s)' /\ ~Acknowledged(s)'
  <2>1. Sending(s, t)' /\ ~Doomed(s, t)' /\ thr'[s][t].wait = "blocked"
    BY <1>5 DEF Sending, Doomed
  <2>2. dc'[s].state \in {"DC_CONNECTED", "DC_TRANSMITTING"} BY <1>2, <1>6 DEF LinkUp
  <2> QED BY <1>1, <2>1, <2>2, OneCallerPrime DEF LinkUp
<1>9. CallerInv(s) /\ NumbersInv(s) /\ ConfirmInv(s) BY DEF TimelyInv, SessionInv
<1>10. f.seq = dc[s].next_expected_ack /\ dc[s].send_number = Succ(dc[s].next_expected_ack)
  BY <1>1, <1>2, <1>9 DEF NumbersInv, Sending
<1>11. At(s, "NACK")' = {} => CallerInv(s)'
  BY <1>1, <1>2, <1>5, <1>6, <1>9 DEF CallerInv, LinkUp, SingleThread, Sending, Live, Doomed
<1>12. NumbersInv(s)'
  BY <1>1, <1>5, <1>6, <1>8, <1>10 DEF NumbersInv, SingleThread, Sending
<1>13. Rests(q) /\ Remembers(q) /\ Remembers(s) BY <1>5 DEF Rests, Remembers, IsDelivered
<1>14. ConfirmInv(s)' BY <1>5, <1>8, <1>9, <1>13, ConfirmQuiet
<1>15. Loses(s) BY <1>4, KeptWire
<1>16. StillUp(s) BY <1>2, <1>5, <1>6, <1>8 DEF StillUp
<1>17. Newest(s)' = Newest(s) BY <1>5, <1>6 DEF Newest
<1>18. \E g \in Frame :
         /\ Appended(q, g) /\ IsData(g)
         /\ g.seq = dc[s].next_expected_ack /\ Awaiting(s)' /\ g.msg = sent'[s]
  BY <1>2, <1>4, <1>5, <1>8, <1>10
<1> HIDE DEF q, f
<1> QED
  BY <1>0, <1>6, <1>8, <1>11, <1>12, <1>13, <1>14, <1>15, <1>16, <1>17, <1>18, QuietStep DEF q

\* A wait that expires leaves no handshake of its station behind.
LEMMA TimelyExpire ==
  ASSUME Timely, TypeOK, TypeOK', AtMostOnceInv, TimelyInv,
         NEW s \in Station, NEW t \in Thread, Expire(s, t)
  PROVE  TimelyInv'
<1> DEFINE q == Peer(s)
<1>0. q \in Station /\ q # s BY PeerFacts
<1>1. SingleThread /\ Delay \in {"handshake", "none"}
  BY EnvironmentAssumption DEF Timely, AnswersInTime
<1>2. /\ link' = link /\ dc' = dc /\ sent' = sent /\ delivered' = delivered
      /\ confirmed' = confirmed
      /\ thr' = [thr EXCEPT ![s][t].wait = "expired"] /\ thr[s][t].wait = "blocked"
  BY DEF Expire, history
<1>3. /\ thr'[q] = thr[q] /\ thr'[s][t].wait = "expired"
      /\ thr'[s][t].fn = thr[s][t].fn /\ thr'[s][t].frame = thr[s][t].frame
  <2>1. thr[s][t] \in Call /\ thr'[s][t] = [thr[s][t] EXCEPT !.wait = "expired"]
    BY <1>0, <1>2 DEF TypeOK
  <2> QED BY <1>0, <1>2, <2>1 DEF TypeOK, Call
<1>4. At(q, "CONN") = {} /\ At(s, "CONN_ACK") = {}
  <2>1. CASE Delay = "handshake"
    BY <2>1 DEF Expire, Overdue, OnWire, At
  <2>2. CASE Delay = "none"
    <3>1. Len(link[q]) = 0 /\ Len(link[s]) = 0
      BY <1>0, <2>2 DEF Expire, Overdue
    <3> QED BY <3>1 DEF At
  <2> QED BY <1>1, <2>1, <2>2
<1>5. /\ Up(s)' <=> Up(s)
      /\ Asking(s)' <=> Asking(s)
      /\ Awaiting(s)' <=> Awaiting(s)
      /\ ~Acknowledged(s)'
  BY <1>1, <1>2, <1>3, OneCaller, OneCallerPrime DEF Connected, Sending
<1>6. CallerInv(s) /\ NumbersInv(s) /\ ConfirmInv(s) BY DEF TimelyInv, SessionInv
<1>7. At(s, "NACK")' = {} => CallerInv(s)'
  BY <1>1, <1>2, <1>3, <1>6 DEF CallerInv, SingleThread, Sending, Live, Doomed
<1>8. NumbersInv(s)'
  BY <1>1, <1>2, <1>3, <1>5, <1>6 DEF NumbersInv, SingleThread, Sending
<1>9. Rests(q) /\ Remembers(q) /\ Remembers(s)
  BY <1>2, <1>3 DEF Rests, Remembers, IsDelivered
<1>10. ConfirmInv(s)' BY <1>2, <1>5, <1>6, <1>9, ConfirmQuiet
<1>11. Loses(s) /\ Loses(q) BY <1>0, <1>2, KeptWire
<1>12. StillUp(s) BY <1>2, <1>5 DEF StillUp
<1>13. Newest(s)' = Newest(s) BY <1>2 DEF Newest
<1> HIDE DEF q
<1> QED
  BY <1>0, <1>2, <1>4, <1>5, <1>7, <1>8, <1>9, <1>10, <1>11, <1>12, <1>13, QuietStep DEF q

\* A station that is down sends a CONN: its handshake is the only one it has.
LEMMA TimelyConnectStart ==
  ASSUME Timely, TypeOK, TypeOK', AtMostOnceInv, TimelyInv,
         NEW s \in Station, NEW t \in Thread, ConnectStart(s, t)
  PROVE  TimelyInv'
<1> DEFINE q == Peer(s)
           f == Control("CONN", 0)
<1>0. q \in Station /\ q # s /\ Peer(q) = s BY PeerFacts
<1>1. SingleThread /\ NoFailures /\ dc[s] \in DeadcomL2 /\ thr[s][t].fn = "none"
  BY DEF Timely, TypeOK, ConnectStart, Idle
<1>2. CallerInv(s) /\ HandshakeInv(s) /\ ConfirmInv(s) BY DEF TimelyInv, SessionInv
<1>3. dc[s].state = "DC_DISCONNECTED"
  <2>1. \A u \in Thread : ~Live(s, u) BY <1>1 DEF SingleThread, Live, Sending
  <2> QED BY <1>1, <1>2, <2>1 DEF CallerInv, ConnectStart, DeadcomL2, State
<1>4. /\ dc[s].send_number = 0 /\ dc[s].next_expected_ack = 0
      /\ dc[s].recv_number = 0 /\ dc[s].extractionBuffer = NoMsg
  BY <1>2, <1>3 DEF CallerInv, LinkUp
<1>5. At(q, "CONN") = {} /\ At(s, "CONN_ACK") = {}
  BY <1>2, <1>3 DEF HandshakeInv, OneHandshake, Over
<1>6. f \in Frame /\ f.frame = "CONN"
  BY FrameFormed, ZeroType DEF FrameType, Control
<1> HIDE DEF f
<1>7. PICK ok \in BOOLEAN :
        /\ Transmit(s, f, ok)
        /\ dc' = [dc EXCEPT ![s].state = IF ok THEN "DC_CONNECTING" ELSE "DC_DISCONNECTED"]
        /\ IF ok THEN Block(s, t, "dcConnect", f) ELSE Return(s, t, "DC_FAILURE")
  BY DEF ConnectStart, f
<1>8. ok /\ Appended(q, f) /\ link'[s] = link[s] BY <1>1, <1>7, Sent
<1>9. /\ dc'[s] = [dc[s] EXCEPT !.state = "DC_CONNECTING"] /\ dc'[q] = dc[q]
      /\ thr'[s][t] = [fn |-> "dcConnect", wait |-> "blocked", frame |-> f, ret |-> "none"]
      /\ thr'[q] = thr[q] /\ sent' = sent /\ delivered' = delivered /\ confirmed' = confirmed
  <2>1. dc' = [dc EXCEPT ![s].state = "DC_CONNECTING"] /\ Block(s, t, "dcConnect", f)
    BY <1>7, <1>8
  <2>2. sent' = sent /\ delivered' = delivered /\ confirmed' = confirmed
    BY DEF ConnectStart, history
  <2> QED BY <1>0, <2>1, <2>2 DEF TypeOK, Block
<1>10. /\ dc'[s].state = "DC_CONNECTING" /\ dc'[s].recv_number = 0
       /\ dc'[s].next_expected_ack = 0 /\ dc'[s].send_number = 0
       /\ dc'[s].extractionBuffer = NoMsg
  BY <1>1, <1>4, <1>9 DEF DeadcomL2
<1>11. \A u \in Thread : /\ thr'[s][u].fn = "dcConnect" /\ thr'[s][u].wait = "blocked"
                         /\ ~Sending(s, u)' /\ ~Connected(s, u)'
  BY <1>1, <1>9 DEF SingleThread, Sending, Connected
<1>12. ~Up(s)' /\ ~Over(s)' /\ ~Awaiting(s)' /\ ~Acknowledged(s)'
  BY <1>10, <1>11 DEF Up, Over, Awaiting, Acknowledged, LinkUp
<1>13. At(s, "NACK")' = At(s, "NACK") /\ At(s, "CONN_ACK")' = {}
  BY <1>5, <1>8 DEF At
<1>14. CallerInv(s)'
  BY <1>2, <1>9, <1>10, <1>11, <1>13 DEF CallerInv
<1>15. HandshakeInv(s)'
  <2>1. /\ At(q, "CONN")' = {Len(link[q]) + 1} /\ Len(link'[q]) = Len(link[q]) + 1
    BY <1>0, <1>5, <1>6, <1>8, AtGains
  <2> QED BY <1>12, <1>13, <2>1 DEF HandshakeInv, OneHandshake, AskedLast, UpCrossed
<1>16. SessionInv(s)'
  <2>1. AnsweredFresh(s)' BY <1>13 DEF AnsweredFresh
  <2>2. NumbersInv(s)' BY <1>10, <1>11, <1>12 DEF NumbersInv
  <2>3. AckInv(s)'
    <3>1. AckInv(s) BY DEF TimelyInv, SessionInv
    <3> QED BY <1>8, <1>12, <3>1 DEF AckInv, At
  <2>4. DataInv(s)' /\ RecvInv(s)' BY <1>12 DEF DataInv, RecvInv
  <2>5. Remembers(q) BY <1>9 DEF Remembers, IsDelivered
  <2>6. ConfirmInv(s)' BY <1>2, <1>9, <1>12, <2>5, ConfirmQuiet
  <2> QED BY <2>1, <2>2, <2>3, <2>4, <2>6 DEF SessionInv
<1>17. Rests(q) /\ Remembers(s) BY <1>9 DEF Rests, Remembers, IsDelivered
<1>18. Gains(q, {"DATA", "CONN"}) /\ Gains(q, FrameType \ {"CONN_ACK", "ACK"})
  BY <1>6, <1>8 DEF Gains, FrameType
<1>19. AnsweredFresh(q)'
  <2>1. AnsweredFresh(q) BY <1>0 DEF TimelyInv, SessionInv
  <2> QED BY <1>0, <1>4, <1>10, <1>17, <1>18, <2>1, RestsStatus, FreshQuiet
<1>20. RecvInv(q)' BY <1>0, <1>12 DEF RecvInv
<1>21. Loses(s) BY <1>8, KeptWire
<1>22. CallerInv(q)' /\ HandshakeInv(q)' /\ SessionInv(q)'
  BY <1>0, <1>17, <1>18, <1>19, <1>20, <1>21, PeerQuiet
<1> QED BY <1>0, <1>14, <1>15, <1>16, <1>22, TimelyTogether

LEMMA TimelyThread ==
  ASSUME Timely, TypeOK, TypeOK', AtMostOnceInv, TimelyInv,
         NEW s \in Station, NEW t \in Thread, ThreadStep(s, t)
  PROVE  TimelyInv'
<1>1. SingleThread /\ NoFailures /\ StaysConnected BY DEF Timely
<1>2. CASE ConnectRefused(s, t)
  BY <1>1, <1>2, Refused DEF ConnectRefused
<1>3. CASE SendRefused(s, t)
  BY <1>1, <1>3, Refused DEF SendRefused
<1>4. CASE SendResume(s, t)
  <2>1. ~SendWaitFailed(s, t)
    BY DEF SendWaitFailed, InSend, TimelyInv, CallerInv
  <2> QED BY <1>4, <2>1, TimelySendConfirmed, TimelySendAgain, TimelySendLinkReset
          DEF SendResume
<1>5. ~Disconnect(s, t) /\ ~WaitFails(s, t)
  BY <1>1 DEF Disconnect, StaysConnected, WaitFails, Ext, NoFailures
<1> QED
  BY <1>2, <1>3, <1>4, <1>5, TimelyConnectStart, TimelyConnectResume, TimelySendStart,
     TimelyExpire DEF ThreadStep
-----------------------------------------------------------------------------
(* Steps of the receive thread and of the wire *)

\* With no failures dcProcessData goes on to the next frame.
LEMMA Processed ==
  ASSUME NoFailures, TypeOK, NEW s \in Station, link[s] # <<>>, NEW m, NEW ok \in BOOLEAN,
         NEW reply, reply \in Frame \cup {NoFrame}, Process(s, m, ok, reply)
  PROVE  /\ ok /\ Dropped(s, 1)
         /\ IF reply = NoFrame THEN link'[Peer(s)] = link[Peer(s)]
                               ELSE Appended(Peer(s), reply)
<1>1. ok BY DEF Process, Ext, NoFailures
<1>2. Len(link[s]) \in Nat \ {0} /\ link[s] \in Seq(Frame)
  BY EmptySeq, FrameFacts DEF TypeOK
<1>3. link' = [link EXCEPT ![s] = SubSeq(@, 2, Len(@)),
                           ![Peer(s)] = IF reply = NoFrame THEN @ ELSE Append(@, reply)]
  BY <1>1 DEF Process
<1>4. link'[s] = SubSeq(link[s], 2, Len(link[s]))
  BY <1>3, PeerType DEF TypeOK
<1>5. /\ Len(link'[s]) = Len(link[s]) - 2 + 1
      /\ \A i \in 1 .. Len(link[s]) - 2 + 1 : link'[s][i] = link[s][i + 2 - 1]
  BY <1>2, <1>4, DropType
<1>6. Dropped(s, 1) BY <1>2, <1>5 DEF Dropped
<1> QED BY <1>1, <1>6, Taken

\* The head of a wire, if it has the type that is handled.
LEMMA HeadAt ==
  ASSUME TypeOK, NEW s \in Station, NEW type, Incoming(s, type)
  PROVE  /\ link[s] # <<>> /\ 1 \in 1 .. Len(link[s]) /\ 1 \in At(s, type)
         /\ Head(link[s]) = link[s][1] /\ link[s][1] \in Frame
         /\ PromptWakeup => \A t \in Thread : thr[s][t].wait \notin {"expired", "failed"}
<1>1. link[s] # <<>> /\ Head(link[s]).frame = type BY DEF Incoming
<1>2. link[s] \in Seq(Frame) BY DEF TypeOK
<1>3. Head(link[s]) = link[s][1] /\ 1 \in 1 .. Len(link[s])
  BY <1>1, <1>2, EmptySeq, FrameFacts
<1> QED BY <1>1, <1>3, FrameFacts DEF At, Incoming, PromptWakeup

\* A frame is lost or ignored, or the application asks for a size.
LEMMA TimelyIdle ==
  ASSUME TypeOK, TimelyInv, NEW s \in Station, Rests(s), Rests(Peer(s)),
         Loses(s), link'[Peer(s)] = link[Peer(s)]
  PROVE  TimelyInv'
<1> DEFINE q == Peer(s)
<1>0. q \in Station BY PeerFacts
<1>1. CallerInv(s) /\ NumbersInv(s) /\ ConfirmInv(s) BY DEF TimelyInv, SessionInv
<1>2. StillUp(s) /\ Remembers(s) /\ Remembers(q) /\ NumbersInv(s)'
  BY <1>0, <1>1, RestsSession
<1>3. ConfirmInv(s)' BY <1>1, <1>2, RestsSession, ConfirmQuiet DEF Rests
<1>4. At(s, "NACK")' = {} => CallerInv(s)'
  BY <1>1 DEF CallerInv, Rests, Sending, Live, Doomed
<1>5. Loses(q) BY <1>0, KeptWire
<1>6. /\ Asking(s)' => Asking(s)
      /\ Over(s)' => Over(s)
      /\ Newest(s)' = Newest(s) /\ dc'[s] = dc[s]
  BY RestsStatus DEF Rests
<1> HIDE DEF q
<1> QED BY <1>0, <1>2, <1>3, <1>4, <1>5, <1>6, QuietStep DEF q

LEMMA TimelyIgnored ==
  ASSUME TypeOK, TimelyInv, NEW s \in Station, link[s] # <<>>,
         link' = [link EXCEPT ![s] = Tail(@)], UNCHANGED <<dc, thr, history>>
  PROVE  TimelyInv'
<1>1. Dropped(s, 1) /\ link'[Peer(s)] = link[Peer(s)] BY Skipped
<1>2. Loses(s) BY <1>1 DEF Loses
<1>3. Rests(s) /\ Rests(Peer(s)) BY DEF Rests, history
<1> QED BY <1>1, <1>2, <1>3, TimelyIdle

LEMMA TimelyReceiveAck ==
  ASSUME Timely, TypeOK, TypeOK', AtMostOnceInv, TimelyInv,
         NEW s \in Station, ReceiveAck(s)
  PROVE  TimelyInv'
<1> DEFINE q == Peer(s)
           n == dc[s].next_expected_ack
<1>0. q \in Station /\ q # s /\ Peer(q) = s BY PeerFacts
<1>1. /\ SingleThread /\ NoFailures /\ PromptWakeup /\ dc[s] \in DeadcomL2
      /\ dc \in [Station -> DeadcomL2] /\ n \in SeqNumber
  BY DEF Timely, TypeOK, DeadcomL2
<1>2. /\ link[s] # <<>> /\ 1 \in At(s, "ACK") /\ Head(link[s]) = link[s][1]
      /\ \A t \in Thread : thr[s][t].wait \notin {"expired", "failed"}
  BY <1>1, HeadAt DEF ReceiveAck
<1>3. CASE Ignore(s) /\ UNCHANGED <<dc, thr>>
  BY <1>2, <1>3, TimelyIgnored DEF Ignore, ReceiveAck
<1>4. CASE /\ dc[s].state = "DC_TRANSMITTING" /\ link[s][1].seq = n
           /\ dc' = [dc EXCEPT ![s].next_expected_ack = Succ(@),
                               ![s].last_response = "DC_RESP_OK"]
           /\ \E ok \in BOOLEAN : Signal(s, ok) /\ Process(s, "condvarSignal", ok, NoFrame)
  <2>1. PICK ok \in BOOLEAN : Signal(s, ok) /\ Process(s, "condvarSignal", ok, NoFrame)
    BY <1>4
  <2>2. ok /\ Dropped(s, 1) /\ link'[q] = link[q] BY <1>1, <1>2, <2>1, Processed
  <2>3. /\ thr'[q] = thr[q]
        /\ \A t \in Thread :
             /\ thr'[s][t].fn = thr[s][t].fn /\ thr'[s][t].frame = thr[s][t].frame
             /\ thr'[s][t].wait =
                  IF thr[s][t].wait = "blocked" THEN "signaled" ELSE thr[s][t].wait
    BY <1>1, <2>1, <2>2, Woken
  <2>4. /\ dc'[q] = dc[q]
        /\ dc'[s] = [dc[s] EXCEPT !.next_expected_ack = Succ(n), !.last_response = "DC_RESP_OK"]
        /\ sent' = sent /\ delivered' = delivered /\ confirmed' = confirmed
    BY <1>0, <1>1, <1>4 DEF ReceiveAck, history
  <2>5. /\ dc'[s].state = "DC_TRANSMITTING" /\ dc'[s].next_expected_ack = Succ(n)
        /\ dc'[s].send_number = dc[s].send_number /\ dc'[s].recv_number = dc[s].recv_number
        /\ dc'[s].extractionBuffer = dc[s].extractionBuffer
        /\ dc'[s].last_response = "DC_RESP_OK"
    BY <1>1, <1>4, <2>4 DEF DeadcomL2
  <2>6. /\ CallerInv(s) /\ HandshakeInv(s) /\ NumbersInv(s) /\ AckInv(s) /\ RecvInv(s)
        /\ ConfirmInv(s) /\ HandshakeInv(q) /\ RecvInv(q) /\ CallInv(s)
    BY <1>0 DEF TimelyInv, SessionInv, AtMostOnceInv
  <2>7. PICK t \in Thread : Live(s, t) BY <1>4, <2>6 DEF CallerInv
  <2>8. Up(s) /\ Up(s)' /\ ~Asking(s)' BY <1>4, <2>5 DEF Up, Asking, LinkUp
  <2>9. Awaiting(s) /\ IsDelivered(sent[s], q)
        /\ \A k \in At(s, "ACK") : 1 < k => link[s][k].seq = n
    BY <1>2, <1>4, <2>6, <2>8 DEF AckInv
  <2>10. \A u \in Thread : /\ Sending(s, u)' /\ thr'[s][u].wait = "signaled"
                           /\ Sending(s, u) /\ ~Doomed(s, u)'
    BY <1>1, <1>2, <2>3, <2>5, <2>9 DEF Awaiting, Sending, SingleThread, Doomed
  <2>11. ~Over(s)' /\ ~Awaiting(s)'
    BY <2>5, <2>10 DEF Over, Awaiting, Doomed
  <2>12. Loses(s) /\ Loses(q) BY <1>0, <2>2, KeptWire DEF Loses
  <2>13. Rests(q) /\ Remembers(s) /\ Remembers(q)
    BY <2>3, <2>4 DEF Rests, Remembers, IsDelivered
  <2>14. n # Succ(n) BY <1>1, SuccDiffers
  <2>15. CallerInv(s)'
    <3>1. At(s, "NACK")' = {} BY <2>2, <2>6, AtLoses DEF CallerInv
    <3>2. \A u \in Thread : Live(s, u)' BY <2>10 DEF Live
    <3> QED BY <2>5, <2>7, <2>10, <3>1, <3>2 DEF CallerInv, LinkUp
  <2>16. HandshakeInv(s)' BY <2>6, <2>8, <2>11, <2>12, HandshakeQuiet
  <2>17. NumbersInv(s)'
    BY <2>5, <2>6, <2>9, <2>10, <2>11 DEF NumbersInv
  \* The acknowledgements that are left repeat this one.
  <2>18. AckInv(s)'
    <3>1. \A i \in At(s, "ACK")' : /\ i \in Nat /\ i >= 1 /\ i + 1 \in At(s, "ACK")
                                   /\ link'[s][i] = link[s][i + 1]
      BY <2>2, AtLoses
    <3>2. \A i \in At(s, "ACK")' : 1 < i + 1 /\ link'[s][i].seq = n BY <2>9, <3>1
    <3>3. \A i \in At(s, "CONN")' : i \in Nat /\ i + 1 \in At(s, "CONN") BY <2>2, AtLoses
    <3>4. \A i \in At(s, "CONN")', k \in At(s, "ACK")' : k + 1 < i + 1
      BY <2>6, <3>1, <3>3 DEF AckInv
    <3>5. \A i \in At(s, "CONN")', k \in At(s, "ACK")' : k < i BY <3>1, <3>3, <3>4
    <3> QED BY <2>5, <2>14, <3>2, <3>5 DEF AckInv
  \* The messages that are left are copies of the one that was acknowledged.
  <2>19. DataInv(s)'
    <3>1. Newest(q) = sent[s]
      <4>1. PickupInv(q) /\ sent[s] \in Nat /\ Newest(q) \in Nat
        BY <1>0, NewestType DEF AtMostOnceInv, TypeOK
      <4>2. sent[s] <= Newest(q)
        BY <1>0, <2>9, <4>1, NewestBound DEF IsDelivered
      <4>3. Newest(q) <= sent[s] BY <1>0, <4>1 DEF PickupInv
      <4> QED BY <4>1, <4>2, <4>3
    <3>2. CopyInv(q, thr[s][t].frame) /\ thr[s][t].frame.msg = sent[s]
      BY <1>0, <2>6, <2>7 DEF AtMostOnceInv, RepeatInv, CallInv, Live
    <3>3. thr[s][t].frame.seq = n
      BY <1>1, <2>6, <2>9 DEF NumbersInv, Awaiting, SingleThread
    <3>4. ASSUME NEW i \in At(q, "DATA") PROVE link[q][i].seq = n
      <4>1. /\ i \in 1 .. Len(link[q]) /\ IsData(link[q][i]) /\ link[q][i] \in Frame
        BY <1>0, AtFacts DEF IsData
      <4>2. FrameInv(q, i) BY <1>0, <4>1 DEF AtMostOnceInv, WireInv
      <4>3. link[q][i].msg = sent[s]
        BY <1>0, <3>1, <4>1, <4>2, FrameFacts DEF FrameInv, Frame
      <4> QED BY <3>2, <3>3, <4>1, <4>3 DEF CopyInv
    <3> QED BY <2>2, <2>5, <2>14, <3>4 DEF DataInv, At
  \* The receiver had gone on when it acknowledged.
  <2>20. RecvInv(s)'
    <3>1. \A i \in At(s, "ACK")' : link'[s][i].seq = n
      <4>1. \A i \in At(s, "ACK")' : /\ i \in Nat /\ i >= 1 /\ i + 1 \in At(s, "ACK")
                                     /\ link'[s][i] = link[s][i + 1]
        BY <2>2, AtLoses
      <4>2. \A i \in At(s, "ACK")' : 1 < i + 1 BY <4>1
      <4> QED BY <2>9, <4>1, <4>2
    <3>2. Up(q)' => dc[q].recv_number = Succ(n)
      BY <1>0, <1>2, <1>4, <2>6, <2>8, <2>13, RestsStatus DEF RecvInv
    <3> QED BY <2>4, <2>5, <2>14, <3>1, <3>2 DEF RecvInv
  <2>21. ConfirmInv(s)'
    BY <2>4, <2>6, <2>9, <2>13 DEF ConfirmInv, Remembers, IsDelivered
  <2>22. SessionInv(s)'
    BY <2>8, <2>17, <2>18, <2>19, <2>20, <2>21 DEF SessionInv, AnsweredFresh
  <2>23. AnsweredFresh(q)' BY <1>0, <1>2, <2>6, <2>12, <2>13, FreshTaken
  <2>24. RecvInv(q)'
    <3>1. StillUp(q) BY <1>0, <2>13, RestsSession
    <3>2. Newest(s)' = Newest(s) BY <2>4, <2>5 DEF Newest
    <3> QED BY <1>0, <2>5, <2>6, <2>8, <2>12, <3>1, <3>2, RecvQuiet
  <2>25. CallerInv(q)' /\ HandshakeInv(q)' /\ SessionInv(q)'
    BY <1>0, <2>12, <2>13, <2>23, <2>24, PeerQuiet
  <2> QED BY <1>0, <2>15, <2>16, <2>22, <2>25, TimelyTogether
<1> QED BY <1>2, <1>3, <1>4 DEF ReceiveAck

\* The answer to a CONN: both stations are as they were after their reset.
LEMMA TimelyReceiveConnAck ==
  ASSUME Timely, TypeOK, TypeOK', AtMostOnceInv, TimelyInv,
         NEW s \in Station, ReceiveConnAck(s)
  PROVE  TimelyInv'
<1> DEFINE q == Peer(s)
<1>0. q \in Station /\ q # s /\ Peer(q) = s BY PeerFacts
<1>1. /\ SingleThread /\ NoFailures /\ PromptWakeup /\ dc[s] \in DeadcomL2
      /\ dc \in [Station -> DeadcomL2]
  BY DEF Timely, TypeOK
<1>2. /\ link[s] # <<>> /\ 1 \in At(s, "CONN_ACK") /\ Head(link[s]) = link[s][1]
      /\ \A t \in Thread : thr[s][t].wait \notin {"expired", "failed"}
  BY <1>1, HeadAt DEF ReceiveConnAck
<1>3. CASE Ignore(s) /\ UNCHANGED <<dc, thr>>
  BY <1>2, <1>3, TimelyIgnored DEF Ignore, ReceiveConnAck
<1>4. CASE /\ dc[s].state = "DC_CONNECTING"
           /\ dc' = [dc EXCEPT ![s].last_response = "DC_RESP_OK"]
           /\ \E ok \in BOOLEAN : Signal(s, ok) /\ Process(s, "condvarSignal", ok, NoFrame)
  <2>1. PICK ok \in BOOLEAN : Signal(s, ok) /\ Process(s, "condvarSignal", ok, NoFrame)
    BY <1>4
  <2>2. ok /\ Dropped(s, 1) /\ link'[q] = link[q] BY <1>1, <1>2, <2>1, Processed
  <2>3. /\ thr'[q] = thr[q]
        /\ \A t \in Thread :
             /\ thr'[s][t].fn = thr[s][t].fn /\ thr'[s][t].frame = thr[s][t].frame
             /\ thr'[s][t].wait =
                  IF thr[s][t].wait = "blocked" THEN "signaled" ELSE thr[s][t].wait
    BY <1>1, <2>1, <2>2, Woken
  <2>4. /\ dc'[q] = dc[q]
        /\ dc'[s] = [dc[s] EXCEPT !.last_response = "DC_RESP_OK"]
        /\ sent' = sent /\ delivered' = delivered /\ confirmed' = confirmed
    BY <1>0, <1>1, <1>4 DEF ReceiveConnAck, history
  <2>5. /\ CallerInv(s) /\ HandshakeInv(s) /\ SessionInv(s) /\ CallInv(s)
        /\ HandshakeInv(q) /\ RecvInv(q)
    BY <1>0 DEF TimelyInv, SessionInv, AtMostOnceInv
  <2>6. /\ dc[s].send_number = 0 /\ dc[s].next_expected_ack = 0
        /\ dc[s].recv_number = 0 /\ dc[s].extractionBuffer = NoMsg
    BY <1>4, <2>5 DEF CallerInv, LinkUp
  <2>7. /\ dc'[s].state = "DC_CONNECTING" /\ dc'[s].next_expected_ack = 0
        /\ dc'[s].send_number = 0 /\ dc'[s].recv_number = 0
        /\ dc'[s].extractionBuffer = NoMsg /\ dc'[s].last_response = "DC_RESP_OK"
    BY <1>1, <1>4, <2>4, <2>6 DEF DeadcomL2
  <2>8. PICK t \in Thread : thr[s][t].fn = "dcConnect" BY <1>4, <2>5 DEF CallerInv
  <2>9. /\ thr[s][t].wait \in {"blocked", "signaled"}
        /\ Connected(s, t)' /\ ~Sending(s, t)'
    <3>1. thr[s][t] \in Call BY DEF TypeOK
    <3>2. thr[s][t].wait \in {"blocked", "signaled"} BY <1>2, <2>8, <3>1 DEF Call
    <3> QED BY <2>3, <2>8, <3>2 DEF Connected, Sending
  <2>10. /\ Up(s)' /\ ~Asking(s)' /\ ~Over(s)' /\ ~Awaiting(s)' /\ ~Acknowledged(s)'
    BY <1>1, <2>7, <2>9, OneCallerPrime DEF Connected
  <2>11. Loses(s) /\ Loses(q) BY <1>0, <2>2, KeptWire DEF Loses
  <2>12. Rests(q) /\ Remembers(s) /\ Remembers(q)
    BY <2>3, <2>4 DEF Rests, Remembers, IsDelivered
  <2>13. \A i \in At(s, "CONN_ACK") : i = 1
    BY <1>2, <2>5 DEF HandshakeInv, OneHandshake
  <2>14. At(q, "CONN") = {} BY <1>2, <2>5 DEF HandshakeInv, OneHandshake
  <2>15. At(s, "CONN_ACK")' = {} /\ At(q, "CONN")' = {}
    <3>1. \A i \in At(s, "CONN_ACK")' : i \in Nat /\ i >= 1 /\ i + 1 \in At(s, "CONN_ACK")
      BY <2>2, AtLoses
    <3> QED BY <2>2, <2>13, <2>14, <3>1 DEF At
  <2>16. CallerInv(s)'
    <3>1. At(s, "NACK")' = {} BY <2>2, <2>5, AtLoses DEF CallerInv
    <3>2. \A u \in Thread : thr'[s][u].wait # "failed" /\ ~Sending(s, u)'
      BY <1>1, <2>9 DEF SingleThread, Connected, Sending
    <3> QED BY <2>7, <2>9, <3>1, <3>2 DEF CallerInv, Connected
  <2>17. HandshakeInv(s)'
    BY <2>10, <2>15 DEF HandshakeInv, OneHandshake, AskedLast, UpCrossed
  <2>18. ConfirmInv(s)' BY <2>4, <2>5, <2>10, <2>12, ConfirmQuiet DEF SessionInv
  <2>19. NumbersInv(s)'
    BY <1>1, <2>7, <2>9, <2>10 DEF NumbersInv, SingleThread, Sending
  <2>20. CASE Up(s)
    <3>1. ~Awaiting(s) /\ ~Asking(s)
      BY <1>1, <1>4, <2>8, <2>20, OneCaller DEF Sending, LinkUp
    <3>2. StillUp(s) BY <2>6, <2>7, <2>20, <3>1 DEF StillUp
    <3>3. SessionInv(s)' BY <1>0, <2>10, <2>11, <2>12, <2>18, <2>19, <3>2, OwnQuiet
    <3>4. RecvInv(q)'
      <4>1. StillUp(q) BY <1>0, <2>12, RestsSession
      <4>2. Newest(s)' = Newest(s) BY <2>4, <2>6, <2>7 DEF Newest
      <4> QED BY <1>0, <2>5, <2>6, <2>7, <2>11, <2>20, <4>1, <4>2, RecvQuiet
    <3>5. AnsweredFresh(q)' BY <1>0, <1>2, <2>5, <2>11, <2>12, FreshTaken
    <3>6. CallerInv(q)' /\ HandshakeInv(q)' /\ SessionInv(q)'
      BY <1>0, <2>11, <2>12, <3>4, <3>5, PeerQuiet
    <3> QED BY <1>0, <2>16, <2>17, <3>3, <3>6, TimelyTogether
  <2>21. CASE Asking(s)
    <3>1. link[q] = <<>> /\ link'[q] = <<>>
      BY <1>2, <2>2, <2>5, <2>21 DEF HandshakeInv, AskedLast
    <3>2. /\ dc[q].recv_number = 0 /\ dc[q].next_expected_ack = 0
          /\ \A k \in At(s, "ACK") : k < 1
      BY <1>2, <2>5, <2>21 DEF SessionInv, AnsweredFresh
    <3>3. At(s, "ACK")' = {} /\ At(q, "ACK")' = {} /\ At(q, "DATA")' = {}
      <4>1. At(s, "ACK") = {} BY <3>2, AtFacts
      <4>2. At(s, "ACK")' = {} BY <2>2, <4>1, AtLoses
      <4>3. Len(link'[q]) = 0 BY <3>1
      <4> QED BY <4>2, <4>3 DEF At
    <3>4. AckInv(s)' /\ DataInv(s)' BY <3>3 DEF AckInv, DataInv
    <3>5. RecvInv(s)' /\ RecvInv(q)'
      BY <1>0, <2>4, <2>7, <3>2, <3>3 DEF RecvInv
    <3>6. SessionInv(s)'
      BY <2>10, <2>18, <2>19, <3>4, <3>5 DEF SessionInv, AnsweredFresh
    <3>7. AnsweredFresh(q)' BY <1>0, <1>2, <2>5, <2>11, <2>12, FreshTaken
    <3>8. CallerInv(q)' /\ HandshakeInv(q)' /\ SessionInv(q)'
      BY <1>0, <2>11, <2>12, <3>5, <3>7, PeerQuiet
    <3> QED BY <1>0, <2>16, <2>17, <3>6, <3>8, TimelyTogether
  <2>22. ~Over(s) BY <1>2, <2>5 DEF HandshakeInv, OneHandshake
  <2> QED BY <2>20, <2>21, <2>22, Trichotomy
<1> QED BY <1>2, <1>3, <1>4 DEF ReceiveConnAck

LEMMA SuccPred ==
  \A n \in SeqNumber : /\ Succ(n) \in SeqNumber /\ Pred(n) \in SeqNumber
                       /\ Succ(Pred(n)) = n /\ Pred(Succ(n)) = n /\ Pred(n) # n
BY ParameterAssumption DEF SeqNumber, Succ, Pred

\* Two stations that are up: a frame other than an answer is first only if there is
\* no handshake behind it.
LEMMA NoBorder ==
  ASSUME TypeOK, TimelyInv, NEW s \in Station, NEW q \in Station, q = Peer(s),
         Up(s), Up(q), 1 \in 1 .. Len(link[s]), ~IsBorder(link[s][1])
  PROVE  \A k \in 1 .. Len(link[s]) : ~IsBorder(link[s][k])
<1>0. Peer(q) = s BY PeerFacts
<1>1. \A i \in At(s, "CONN_ACK") : i = 1 BY DEF TimelyInv, HandshakeInv, UpCrossed
<1>2. At(s, "CONN_ACK") = {} BY <1>1 DEF At, IsBorder
<1>3. At(s, "CONN") = {} BY <1>0, <1>2 DEF TimelyInv, HandshakeInv, UpCrossed
<1> QED BY <1>2, <1>3 DEF At, IsBorder

\* Station s acknowledges the last message it accepted, which was picked up.
LEMMA AckAppended ==
  ASSUME TypeOK, AtMostOnceInv, TimelyInv,
         NEW s \in Station, NEW q \in Station, q = Peer(s), Rests(q), LinkUp(dc[s]),
         NEW g \in Frame, g.frame = "ACK", g.seq = Pred(dc[s].recv_number), Appended(q, g),
         At(q, "CONN") = {}, Remembers(s), Newest(s)' = Newest(s),
         Newest(s) # NoMsg => IsDelivered(Newest(s), s)',
         dc'[s].recv_number = dc[s].recv_number, Up(s)' => Up(s)
  PROVE  AckInv(q)' /\ RecvInv(q)'
<1> DEFINE n == dc[q].next_expected_ack
           L == Len(link[q])
<1>0. Peer(q) = s BY PeerFacts
<1>1. /\ n \in SeqNumber /\ dc[s].recv_number \in SeqNumber BY DEF TypeOK, DeadcomL2
<1>2. AckInv(q) /\ RecvInv(q) /\ CallInv(q)
  BY DEF TimelyInv, SessionInv, AtMostOnceInv
<1>3. Up(s) BY DEF Up
<1>4. /\ Up(q)' <=> Up(q)
      /\ Awaiting(q)' <=> Awaiting(q)
      /\ dc'[q] = dc[q] /\ sent'[q] = sent[q]
  BY RestsStatus DEF Rests
<1>5. /\ L \in Nat /\ link'[q][L + 1] = g
      /\ \A i \in 1 .. L : link'[q][i] = link[q][i]
      /\ At(q, "CONN")' = {}
      /\ At(q, "ACK")' = At(q, "ACK") \cup {L + 1}
      /\ \A i \in At(q, "ACK") : i \in 1 .. L
  <2>1. /\ L \in Nat /\ link'[q][L + 1] = g
        /\ \A i \in 1 .. L : link'[q][i] = link[q][i]
    BY AtGains
  <2>2. At(q, "CONN")' = {}
    <3>1. g.frame # "CONN" OBVIOUS
    <3> QED BY <3>1, AtGains
  <2>4. At(q, "ACK")' = At(q, "ACK") \cup {L + 1}
    BY AtGains
  <2>3. \A i \in At(q, "ACK") : i \in 1 .. L BY AtFacts
  <2> QED BY <2>1, <2>2, <2>3, <2>4
<1>6. ASSUME Up(q)
      PROVE  \/ dc[s].recv_number = n
             \/ /\ dc[s].recv_number = Succ(n) /\ Awaiting(q)
                /\ IsDelivered(sent[q], s)'
  <2>1. dc[s].recv_number # n =>
          dc[s].recv_number = Succ(n) /\ Awaiting(q) /\ Newest(s) = sent[q]
    BY <1>0, <1>2, <1>3, <1>6 DEF RecvInv
  <2>2. Awaiting(q) => sent[q] # NoMsg
    BY <1>2 DEF Awaiting, CallInv, NoMsg
  <2>3. Newest(s) = sent[q] /\ Newest(s) # NoMsg => IsDelivered(sent[q], s)'
    BY <1>4 DEF IsDelivered
  <2> QED BY <2>1, <2>2, <2>3
\* The number of the answer.
<1>7. ASSUME Up(q)
      PROVE  /\ g.seq # n => Succ(g.seq) = n
             /\ g.seq = n => /\ Awaiting(q) /\ IsDelivered(sent[q], s)'
                             /\ dc[s].recv_number # n
             /\ g.seq # n => dc[s].recv_number = n
  BY <1>1, <1>6, <1>7, SuccPred
<1>8. RecvInv(q)'
  <2> SUFFICES ASSUME Up(q), Up(s)'
               PROVE  /\ dc[s].recv_number # n =>
                           /\ dc[s].recv_number = Succ(n)
                           /\ Awaiting(q) /\ Newest(s) = sent[q]
                      /\ \A i \in At(q, "ACK")' :
                           link'[q][i].seq = n => dc[s].recv_number # n
    BY <1>0, <1>4 DEF RecvInv
  <2>1. /\ dc[s].recv_number # n =>
             dc[s].recv_number = Succ(n) /\ Awaiting(q) /\ Newest(s) = sent[q]
        /\ \A i \in At(q, "ACK") : link[q][i].seq = n => dc[s].recv_number # n
    BY <1>0, <1>2, <1>3 DEF RecvInv
  <2> QED BY <1>5, <1>7, <2>1
<1>9. AckInv(q)'
  <2> SUFFICES ASSUME Up(q), NEW i \in At(q, "ACK")'
               PROVE  /\ link'[q][i].seq # n => Succ(link'[q][i].seq) = n
                      /\ link'[q][i].seq = n =>
                           /\ Awaiting(q) /\ IsDelivered(sent[q], s)'
                           /\ \A k \in At(q, "ACK")' : i < k => link'[q][k].seq = n
    BY <1>0, <1>4, <1>5 DEF AckInv, IsDelivered
  <2>1. CASE i = L + 1
    <3>1. \A k \in At(q, "ACK")' : ~(i < k) BY <1>5, <2>1
    <3> QED BY <1>5, <1>7, <2>1, <3>1
  <2>2. CASE i \in At(q, "ACK")
    <3>1. /\ link[q][i].seq # n => Succ(link[q][i].seq) = n
          /\ link[q][i].seq = n =>
               /\ Awaiting(q) /\ IsDelivered(sent[q], s)
               /\ \A k \in At(q, "ACK") : i < k => link[q][k].seq = n
      BY <1>0, <1>2, <2>2 DEF AckInv
    <3>2. link[q][i].seq = n => g.seq = n
      <4>1. link[q][i].seq = n => dc[s].recv_number # n
        BY <1>0, <1>2, <1>3, <2>2 DEF RecvInv
      <4> QED BY <1>7, <4>1
    <3>3. IsDelivered(sent[q], s) => IsDelivered(sent[q], s)'
      BY <1>4 DEF Remembers, IsDelivered
    <3> QED BY <1>5, <2>2, <3>1, <3>2, <3>3
  <2> QED BY <1>5, <2>1, <2>2
<1> QED BY <1>8, <1>9

\* dcGetReceivedMsg hands a message over, or dcProcessData answers another copy.
LEMMA AckStep ==
  ASSUME TypeOK, TypeOK', AtMostOnceInv, TimelyInv,
         NEW s \in Station, NEW q \in Station, q = Peer(s), Rests(q), LinkUp(dc[s]),
         NEW g \in Frame, g.frame = "ACK", g.seq = Pred(dc[s].recv_number), Appended(q, g),
         Loses(s), Asking(q) => At(q, "CONN_ACK") = {},
         Remembers(s), Newest(s)' = Newest(s), thr'[s] = thr[s],
         Newest(s) # NoMsg => IsDelivered(Newest(s), s)',
         sent'[s] = sent[s], confirmed'[s] = confirmed[s],
         dc'[s].state = dc[s].state, dc'[s].recv_number = dc[s].recv_number,
         dc'[s].send_number = dc[s].send_number,
         dc'[s].next_expected_ack = dc[s].next_expected_ack,
         dc'[s].last_response = dc[s].last_response
  PROVE  TimelyInv'
<1>0. Peer(q) = s /\ q # s BY PeerFacts
<1>1. /\ CallerInv(s) /\ HandshakeInv(s) /\ SessionInv(s)
      /\ CallerInv(q) /\ HandshakeInv(q) /\ SessionInv(q)
  BY DEF TimelyInv
<1>2. /\ Up(s) /\ ~Asking(s)'
      /\ Up(s)' <=> Up(s)
      /\ Asking(s)' <=> Asking(s)
      /\ Over(s)' <=> Over(s)
      /\ Awaiting(s)' <=> Awaiting(s)
      /\ Acknowledged(s)' <=> Acknowledged(s)
  BY DEF Up, Asking, Over, Awaiting, Acknowledged, LinkUp, Connected, Sending, Doomed
\* No CONN of s is on the wire that its answer goes to.
<1>3. At(q, "CONN") = {}
  <2>1. At(q, "CONN") # {} => At(q, "CONN_ACK") # {}
    BY <1>1, <1>2 DEF HandshakeInv, UpCrossed
  <2>2. Over(q) => At(q, "CONN_ACK") = {} BY <1>1 DEF HandshakeInv, OneHandshake
  <2>3. Up(q) => \A i \in At(q, "CONN_ACK") : i = 1 BY <1>1 DEF HandshakeInv, UpCrossed
  <2>4. Up(q) => At(q, "CONN") = {}
    <3>1. \A i \in At(q, "CONN") : i + 1 \in At(q, "CONN_ACK")
      BY <1>1, <1>2 DEF HandshakeInv, UpCrossed
    <3>2. \A i \in At(q, "CONN") : i \in Nat /\ i >= 1 /\ i + 1 # 1 BY AtFacts
    <3> QED BY <2>3, <3>1, <3>2
  <2> QED BY <2>1, <2>2, <2>4, Trichotomy
<1>4. AckInv(q)' /\ RecvInv(q)' BY <1>2, <1>3, AckAppended
<1>5. Gains(q, {"ACK"}) BY DEF Gains
<1>6. /\ Gains(q, FrameType \ {"NACK"}) /\ Gains(q, FrameType \ {"CONN_ACK"})
      /\ Gains(q, FrameType \ {"CONN"})
  BY DEF Gains, FrameType
<1>7. CallerInv(q)' BY <1>1, <1>6, CallerRests
<1>8. HandshakeInv(q)' BY <1>0, <1>1, <1>6, RestsStatus, HandshakeQuiet
<1>9. StillUp(q) /\ NumbersInv(q)' BY <1>1, RestsSession DEF SessionInv
<1>10. AnsweredFresh(q)'
  <2>1. At(q, "CONN_ACK")' = At(q, "CONN_ACK") BY AtGains
  <2> QED BY <2>1, RestsStatus DEF AnsweredFresh
<1>11. DataInv(q)' BY <1>0, <1>1, <1>9, DataQuiet DEF SessionInv
<1>12. ConfirmInv(q)' BY <1>0, <1>1, RestsSession, ConfirmQuiet DEF SessionInv, Rests
<1>13. SessionInv(q)' BY <1>4, <1>9, <1>10, <1>11, <1>12 DEF SessionInv
<1>14. At(s, "NACK")' = {}
  <2>1. PICK m \in {0, 1} : Dropped(s, m) BY DEF Loses
  <2> QED BY <1>1, <2>1, AtLoses DEF CallerInv
<1>15. CallerInv(s)' BY <1>1, <1>14 DEF CallerInv, LinkUp, Sending, Live, Doomed
<1>16. HandshakeInv(s)' BY <1>1, <1>2, <1>6, HandshakeQuiet
<1>17. NumbersInv(s)' BY <1>1, <1>2 DEF SessionInv, NumbersInv, Sending
<1>18. Remembers(q) BY RestsSession
<1>19. ConfirmInv(s)' BY <1>1, <1>2, <1>18, ConfirmQuiet DEF SessionInv
<1>20. StillUp(s) BY <1>2 DEF StillUp
<1>21. SessionInv(s)'
  <2>1. ~IsData(g) BY DEF IsData
  <2> QED BY <1>2, <1>17, <1>19, <1>20, <2>1, OwnQuiet
<1> QED BY <1>7, <1>8, <1>13, <1>15, <1>16, <1>21, TimelyTogether

LEMMA AckFrame ==
  ASSUME TypeOK, NEW s \in Station
  PROVE  \E g \in Frame : /\ g = Control("ACK", Pred(dc[s].recv_number)) /\ g # NoFrame
                          /\ g.frame = "ACK" /\ g.seq = Pred(dc[s].recv_number)
<1>1. dc[s].recv_number \in SeqNumber BY DEF TypeOK, DeadcomL2
<1>2. Pred(dc[s].recv_number) \in SeqNumber BY <1>1, SuccPred
<1>3. Control("ACK", Pred(dc[s].recv_number)) \in Frame \ {NoFrame}
  BY <1>2, FrameFormed DEF FrameType
<1> QED BY <1>3 DEF Control

LEMMA TimelyGetMessage ==
  ASSUME Timely, TypeOK, TypeOK', AtMostOnceInv, TimelyInv,
         NEW s \in Station, GetMessage(s)
  PROVE  TimelyInv'
<1> DEFINE q == Peer(s)
           m == dc[s].extractionBuffer
<1>0. q \in Station /\ q # s /\ Peer(q) = s BY PeerFacts
<1>1. /\ NoFailures /\ dc[s] \in DeadcomL2 /\ dc \in [Station -> DeadcomL2]
      /\ LinkUp(dc[s]) /\ m # NoMsg /\ m \in Nat
  BY DEF Timely, TypeOK, DeadcomL2, GetMessage, Pending, AtMostOnceInv, CallInv
<1>2. PICK g \in Frame : /\ g = Control("ACK", Pred(dc[s].recv_number))
                         /\ g.frame = "ACK" /\ g.seq = Pred(dc[s].recv_number)
  BY AckFrame
<1>3. /\ Appended(q, g) /\ link'[s] = link[s]
      /\ dc' = [dc EXCEPT ![s] = PickedUp(@)]
      /\ delivered' = [delivered EXCEPT ![s] = Append(@, m)]
      /\ thr' = thr /\ sent' = sent /\ confirmed' = confirmed
  BY <1>1, <1>2, Sent DEF GetMessage
<1>4. /\ dc'[s] = PickedUp(dc[s]) /\ dc'[q] = dc[q] /\ delivered'[q] = delivered[q]
      /\ delivered'[s] = Append(delivered[s], m)
  BY <1>0, <1>1, <1>3 DEF TypeOK
<1>5. Rests(q) BY <1>3, <1>4 DEF Rests
<1>6. /\ dc'[s].state = dc[s].state /\ dc'[s].recv_number = dc[s].recv_number
      /\ dc'[s].send_number = dc[s].send_number
      /\ dc'[s].next_expected_ack = dc[s].next_expected_ack
      /\ dc'[s].last_response = dc[s].last_response
      /\ dc'[s].extractionBuffer = NoMsg
  BY <1>1, <1>4 DEF PickedUp, DeadcomL2
<1>7. /\ Len(delivered[s]) \in Nat /\ Len(delivered'[s]) = Len(delivered[s]) + 1
      /\ \A i \in 1 .. Len(delivered[s]) : delivered'[s][i] = delivered[s][i]
      /\ delivered'[s][Len(delivered[s]) + 1] = m
      /\ delivered'[s] # <<>>
  <2>1. /\ delivered[s] \in Seq(Nat) /\ Len(delivered[s]) \in Nat /\ m \in Nat
        /\ delivered'[s] = Append(delivered[s], m)
    BY <1>1, <1>4, FrameFacts
  <2> HIDE DEF m
  <2>2. /\ Len(delivered'[s]) = Len(delivered[s]) + 1
        /\ \A i \in 1 .. Len(delivered[s]) : delivered'[s][i] = delivered[s][i]
        /\ delivered'[s][Len(delivered[s]) + 1] = m
    BY <2>1, AppendProperties
  <2>3. delivered'[s] # <<>> BY <2>1, AppendProperties
  <2> QED BY <2>1, <2>2, <2>3
<1>8. Newest(s) = m /\ Newest(s)' = m BY <1>1, <1>6, <1>7 DEF Newest
<1>9. Remembers(s) /\ IsDelivered(Newest(s), s)'
  BY <1>7, <1>8 DEF Remembers, IsDelivered
<1>10. Loses(s) BY <1>3, KeptWire
\* A handshake that has been answered finds nothing to pick up.
<1>11. Asking(q) => At(q, "CONN_ACK") = {}
  BY <1>0, <1>1 DEF TimelyInv, SessionInv, AnsweredFresh
<1> HIDE DEF q, m
<1> QED
  BY <1>0, <1>1, <1>2, <1>3, <1>5, <1>6, <1>8, <1>9, <1>10, <1>11, AckStep DEF q

LEMMA TimelyReceiveData ==
  ASSUME Timely, TypeOK, TypeOK', AtMostOnceInv, TimelyInv,
         NEW s \in Station, ReceiveData(s)
  PROVE  TimelyInv'
<1> DEFINE q == Peer(s)
           n == dc[q].next_expected_ack
           f == link[s][1]
<1>0. q \in Station /\ q # s /\ Peer(q) = s BY PeerFacts
<1>1. /\ NoFailures /\ dc[s] \in DeadcomL2 /\ dc \in [Station -> DeadcomL2]
      /\ thr' = thr /\ sent' = sent /\ delivered' = delivered /\ confirmed' = confirmed
  BY DEF Timely, TypeOK, ReceiveData, history
<1>2. /\ link[s] # <<>> /\ 1 \in At(s, "DATA") /\ 1 \in 1 .. Len(link[s])
      /\ Head(link[s]) = f /\ f \in Frame /\ IsData(f) /\ ~IsBorder(f)
  BY HeadAt DEF ReceiveData, At, IsData, IsBorder
<1>3. CASE Ignore(s) /\ UNCHANGED dc
  BY <1>1, <1>2, <1>3, TimelyIgnored DEF Ignore, history
<1>4. CASE /\ AcksAgain(dc[s], f) /\ UNCHANGED dc
           /\ \E ok \in BOOLEAN :
                Process(s, "transmitBytes", ok,
                        IF ok THEN Control("ACK", Pred(dc[s].recv_number)) ELSE NoFrame)
  <2>1. PICK g \in Frame : /\ g = Control("ACK", Pred(dc[s].recv_number)) /\ g # NoFrame
                           /\ g.frame = "ACK" /\ g.seq = Pred(dc[s].recv_number)
    BY AckFrame
  <2>2. PICK ok \in BOOLEAN :
          Process(s, "transmitBytes", ok, IF ok THEN g ELSE NoFrame)
    BY <1>4, <2>1
  <2>3. ok BY <1>1, <2>2 DEF Process, Ext, NoFailures
  <2>4. Process(s, "transmitBytes", ok, g) BY <2>2, <2>3
  <2>5. Dropped(s, 1) /\ Appended(q, g) BY <1>1, <1>2, <2>1, <2>4, Processed
  <2>6. Rests(s) /\ Rests(q) BY <1>1, <1>4 DEF Rests
  <2>7. LinkUp(dc[s]) /\ dc[s].extractionBuffer = NoMsg
    BY <1>4 DEF AcksAgain, AtMostOnceInv, CallInv
  <2>8. Newest(s)' = Newest(s) /\ Remembers(s) BY <2>6, RestsStatus, RestsSession
  <2>9. Newest(s) # NoMsg => IsDelivered(Newest(s), s)'
    <3>1. Newest(s) # NoMsg =>
            delivered[s] # <<>> /\ Newest(s) = delivered[s][Len(delivered[s])]
      BY <2>7 DEF Newest
    <3>2. delivered[s] # <<>> => Len(delivered[s]) \in 1 .. Len(delivered[s])
      BY LastType DEF TypeOK
    <3> QED BY <1>1, <2>8, <3>1, <3>2 DEF IsDelivered
  <2>10. Asking(q) => At(q, "CONN_ACK") = {}
    BY <1>0, <1>2 DEF TimelyInv, HandshakeInv, AskedLast
  <2>11. Loses(s) BY <2>5 DEF Loses
  <2> HIDE DEF q
  <2> QED
    BY <1>0, <1>1, <1>4, <2>1, <2>5, <2>6, <2>7, <2>8, <2>9, <2>10, <2>11, AckStep DEF q
<1>5. CASE AcceptsData(dc[s], f) /\ Ignore(s) /\ dc' = [dc EXCEPT ![s] = Stored(dc[s], f)]
  <2>1. Dropped(s, 1) /\ link'[q] = link[q] BY <1>2, <1>5, Skipped DEF Ignore
  <2>2. dc'[s] = Stored(dc[s], f) /\ dc'[q] = dc[q] BY <1>0, <1>1, <1>5
  <2>3. /\ LinkUp(dc[s]) /\ f.seq = dc[s].recv_number /\ dc'[s].state = dc[s].state
        /\ dc'[s].recv_number = Succ(f.seq) /\ dc'[s].extractionBuffer = f.msg
        /\ dc'[s].send_number = dc[s].send_number
        /\ dc'[s].next_expected_ack = dc[s].next_expected_ack
        /\ dc'[s].last_response = dc[s].last_response
    BY <1>1, <1>5, <2>2 DEF AcceptsData, Stored, DeadcomL2
  <2>4. /\ Up(s) /\ ~Asking(s)'
        /\ Up(s)' <=> Up(s)
        /\ Over(s)' <=> Over(s)
        /\ Awaiting(s)' <=> Awaiting(s)
        /\ Acknowledged(s)' <=> Acknowledged(s)
    BY <1>1, <2>3
    DEF Up, Asking, Over, Awaiting, Acknowledged, LinkUp, Connected, Sending, Doomed
  <2>5. /\ CallerInv(s) /\ HandshakeInv(s) /\ SessionInv(s)
        /\ HandshakeInv(q) /\ SessionInv(q)
    BY <1>0 DEF TimelyInv
  <2>6. Loses(s) /\ Loses(q) BY <1>0, <2>1, KeptWire DEF Loses
  <2>7. Rests(q) /\ Remembers(s) /\ Remembers(q)
    BY <1>1, <2>2 DEF Rests, Remembers, IsDelivered
  <2>8. CallerInv(s)'
    <3>1. At(s, "NACK")' = {} BY <2>1, <2>5, AtLoses DEF CallerInv
    <3> QED BY <1>1, <2>3, <2>5, <3>1 DEF CallerInv, LinkUp, Sending, Live, Doomed
  <2>9. HandshakeInv(s)' BY <2>4, <2>5, <2>6, HandshakeQuiet
  <2>10. SessionInv(s)'
    <3>1. StillUp(s) BY <1>1, <2>3, <2>4 DEF StillUp
    <3>2. NumbersInv(s)' BY <1>1, <2>3, <2>4, <2>5 DEF SessionInv, NumbersInv, Sending
    <3>3. ConfirmInv(s)' BY <1>1, <2>4, <2>5, <2>7, ConfirmQuiet DEF SessionInv
    <3> QED BY <1>0, <2>4, <2>6, <2>7, <3>1, <3>2, <3>3, OwnQuiet
  <2>11. AnsweredFresh(q)' BY <1>0, <1>2, <2>5, <2>6, <2>7, FreshTaken
  \* What is accepted is the message in transmission.
  <2>12. RecvInv(q)'
    <3> SUFFICES ASSUME Up(q)
                 PROVE  /\ Succ(f.seq) # n =>
                             /\ Succ(f.seq) = Succ(n) /\ Awaiting(q) /\ Newest(s)' = sent[q]
                        /\ \A i \in At(q, "ACK") : link[q][i].seq = n => Succ(f.seq) # n
      <4>1. Up(q)' <=> Up(q) BY <1>0, <2>7, RestsStatus
      <4>2. Awaiting(q)' <=> Awaiting(q) BY <1>0, <2>7, RestsStatus
      <4> QED BY <1>0, <1>1, <2>1, <2>2, <2>3, <4>1, <4>2 DEF RecvInv, At
    <3>1. f.seq \in SeqNumber /\ n \in SeqNumber
      BY <1>0, <1>1, <1>2 DEF Frame, DeadcomL2
    <3>2. \A k \in 1 .. Len(link[s]) : ~IsBorder(link[s][k])
      BY <1>0, <1>2, <2>4, NoBorder DEF TimelyInv
    <3>3. /\ f.seq # n => Succ(f.seq) = n
          /\ f.seq = n => Awaiting(q) /\ f.msg = sent[q]
      BY <1>0, <1>2, <2>5, <3>2 DEF SessionInv, DataInv
    <3>4. /\ f.seq # n => f.seq = Succ(n) /\ Awaiting(q) /\ Newest(s) = sent[q]
          /\ \A i \in At(q, "ACK") : link[q][i].seq = n => f.seq # n
      BY <1>0, <2>3, <2>4, <2>5 DEF SessionInv, RecvInv
    <3>5. FrameInv(s, 1) /\ f.msg \in Nat /\ sent[q] \in Nat /\ Newest(s) \in Nat
      BY <1>0, <1>2, NewestType DEF AtMostOnceInv, WireInv, Frame, TypeOK
    <3>6. f.seq = n
      <4>1. Newest(s) = sent[q] => f.msg = Newest(s) BY <1>0, <3>5 DEF FrameInv
      <4>2. f.msg = Newest(s) => Succ(f.seq) = f.seq
        BY <2>3, <3>5 DEF FrameInv, Settled
      <4> QED BY <3>1, <3>4, <4>1, <4>2, SuccDiffers
    <3>7. Newest(s)' = f.msg
      BY <1>0, <2>3, <3>5 DEF Newest, FrameInv, NoMsg
    <3> QED BY <3>1, <3>3, <3>4, <3>6, <3>7, SuccDiffers
  <2>13. CallerInv(q)' /\ HandshakeInv(q)' /\ SessionInv(q)'
    BY <1>0, <2>6, <2>7, <2>11, <2>12, PeerQuiet
  <2> QED BY <1>0, <2>8, <2>9, <2>10, <2>13, TimelyTogether
<1> QED BY <1>2, <1>3, <1>4, <1>5 DEF ReceiveData

\* A CONN resets its receiver, and its answer is the last frame on the wire back.
LEMMA TimelyReceiveConn ==
  ASSUME Timely, TypeOK, TypeOK', AtMostOnceInv, TimelyInv,
         NEW s \in Station, ReceiveConn(s)
  PROVE  TimelyInv'
<1> DEFINE q == Peer(s)
           L == Len(link[q])
<1>0. q \in Station /\ q # s /\ Peer(q) = s BY PeerFacts
<1>1. /\ SingleThread /\ NoFailures /\ PromptWakeup /\ dc[s] \in DeadcomL2
      /\ dc \in [Station -> DeadcomL2] /\ dc[s].state \in State
      /\ sent' = sent /\ delivered' = delivered /\ confirmed' = confirmed
  BY DEF Timely, TypeOK, DeadcomL2, ReceiveConn, history
<1>2. /\ link[s] # <<>> /\ 1 \in At(s, "CONN") /\ 1 \in 1 .. Len(link[s])
      /\ \A t \in Thread : thr[s][t].wait \notin {"expired", "failed"}
  BY <1>1, HeadAt DEF ReceiveConn
<1>3. PICK g \in Frame : g = Control("CONN_ACK", 0) /\ g # NoFrame /\ g.frame = "CONN_ACK"
  <2>1. Control("CONN_ACK", 0) \in Frame \ {NoFrame} BY ZeroType, FrameFormed DEF FrameType
  <2> QED BY <2>1 DEF Control
<1>4. PICK ok \in BOOLEAN :
        /\ Process(s, "condvarSignal", ok, g)
        /\ dc' = [dc EXCEPT ![s] = ConnAccepted(@)]
        /\ IF dc[s].state \in {"DC_TRANSMITTING", "DC_CONNECTING"}
             THEN Signal(s, ok)
             ELSE ok /\ UNCHANGED thr
  <2>1. ~Process(s, "transmitBytes", FALSE, NoFrame)
    BY <1>1 DEF Process, Ext, NoFailures
  <2> QED BY <1>3, <2>1 DEF ReceiveConn
<1>5. ok /\ Dropped(s, 1) /\ Appended(q, g) BY <1>1, <1>2, <1>3, <1>4, Processed
<1>6. dc'[s] = ConnAccepted(dc[s]) /\ dc'[q] = dc[q] BY <1>0, <1>1, <1>4
<1>7. /\ dc'[s].state = IF dc[s].state = "DC_CONNECTING" THEN "DC_CONNECTING"
                                                       ELSE "DC_CONNECTED"
      /\ dc'[s].send_number = 0 /\ dc'[s].next_expected_ack = 0
      /\ dc'[s].recv_number = 0 /\ dc'[s].extractionBuffer = NoMsg
      /\ dc[s].state = "DC_TRANSMITTING" => dc'[s].last_response = "DC_RESP_NOLINK"
      /\ dc[s].state = "DC_CONNECTED" => dc'[s].last_response = dc[s].last_response
  BY <1>1, <1>6 DEF ConnAccepted, resetLink, DeadcomL2
<1>8. /\ thr'[q] = thr[q]
      /\ \A t \in Thread :
           /\ thr'[s][t].fn = thr[s][t].fn /\ thr'[s][t].frame = thr[s][t].frame
           /\ \/ thr'[s][t].wait = thr[s][t].wait
              \/ thr[s][t].wait = "blocked" /\ thr'[s][t].wait = "signaled"
           /\ dc[s].state \in {"DC_TRANSMITTING", "DC_CONNECTING"}
                /\ thr[s][t].wait = "blocked" => thr'[s][t].wait = "signaled"
  BY <1>1, <1>4, <1>5, Woken
<1>9. /\ CallerInv(s) /\ HandshakeInv(s) /\ SessionInv(s) /\ CallInv(s)
      /\ CallerInv(q) /\ HandshakeInv(q) /\ SessionInv(q)
  BY <1>0 DEF TimelyInv, AtMostOnceInv
\* Where s is after the step: its threads are awake and know what happened.
<1>10. ASSUME NEW t \in Thread
       PROVE  /\ thr'[s][t].wait \notin {"expired", "failed"}
              /\ Sending(s, t)' => /\ thr'[s][t].wait = "signaled"
                                   /\ dc'[s].last_response = "DC_RESP_NOLINK"
                                   /\ LinkUp(dc[s])
              /\ thr[s][t].fn = "dcConnect" => Connected(s, t)'
  <2>1. thr[s][t] \in Call BY DEF TypeOK
  <2>2. thr[s][t].fn # "none" => thr[s][t].wait \in {"blocked", "signaled"}
    BY <1>2, <2>1 DEF Call
  <2>3. thr'[s][t].wait \notin {"expired", "failed"} BY <1>2, <1>8
  <2>4. ASSUME thr[s][t].fn = "dcConnect"
        PROVE  Connected(s, t)'
    BY <1>8, <1>9, <2>2, <2>4 DEF CallInv, Connected
  <2>5. ASSUME Sending(s, t)'
        PROVE  /\ thr'[s][t].wait = "signaled"
               /\ dc'[s].last_response = "DC_RESP_NOLINK" /\ LinkUp(dc[s])
    <3>1. Sending(s, t) /\ thr[s][t].wait \in {"blocked", "signaled"}
      BY <1>8, <2>2, <2>5 DEF Sending
    <3>2. CASE Doomed(s, t)
      BY <1>7, <1>8, <1>9, <3>1, <3>2 DEF CallInv, Doomed, LinkUp
    <3>3. CASE ~Doomed(s, t)
      BY <1>7, <1>8, <1>9, <3>1, <3>3 DEF CallInv, LinkUp
    <3> QED BY <3>2, <3>3
  <2> QED BY <2>3, <2>4, <2>5
<1>11. /\ Up(s)' /\ ~Asking(s)' /\ ~Awaiting(s)' /\ ~Acknowledged(s)'
       /\ Over(s)' => Up(s)
  <2>1. dc[s].state = "DC_CONNECTING" => \E t \in Thread : Connected(s, t)'
    BY <1>9, <1>10 DEF CallerInv
  <2>2. Up(s)' /\ ~Asking(s)' BY <1>7, <2>1 DEF Up, Asking, LinkUp
  <2>3. ~Awaiting(s)' /\ ~Acknowledged(s)' BY <1>10 DEF Awaiting, Acknowledged
  <2>4. Over(s)' => Up(s) BY <1>7, <1>10 DEF Over, Up
  <2> QED BY <2>2, <2>3, <2>4
\* The handshakes before the step.
<1>12. /\ At(q, "CONN_ACK") = {} /\ ~Over(q)
       /\ \A i \in At(s, "CONN") : i = 1
  BY <1>0, <1>2, <1>9 DEF HandshakeInv, OneHandshake
<1>13. /\ \A i \in At(s, "CONN_ACK") : i \in Nat /\ i > 1 /\ i <= Len(link[s])
       /\ Up(s) \/ Over(s) => At(q, "CONN") = {} /\ At(s, "CONN_ACK") = {}
  <2>1. \A i \in At(s, "CONN_ACK") : i \in Nat /\ i > 1 /\ i <= Len(link[s])
    <3>1. \A i \in At(s, "CONN_ACK") : i # 1 BY <1>2 DEF At
    <3> QED BY <3>1, AtFacts
  <2>2. Up(s) => At(q, "CONN") = {} /\ At(s, "CONN_ACK") = {}
    BY <1>9, <1>12, <2>1 DEF HandshakeInv, UpCrossed
  <2>3. Over(s) => At(q, "CONN") = {} /\ At(s, "CONN_ACK") = {}
    BY <1>9 DEF HandshakeInv, OneHandshake
  <2> QED BY <2>1, <2>2, <2>3
\* If the peer is up already, s has asked and was answered: both have been reset.
<1>14. ASSUME Up(q)
       PROVE  /\ At(s, "CONN_ACK") # {} /\ link[q] = <<>>
              /\ dc[q].recv_number = 0 /\ dc[q].next_expected_ack = 0
              /\ \A i \in At(s, "CONN_ACK") : i = 2
  <2>1. 2 \in At(s, "CONN_ACK")
    <3>1. 1 + 1 \in At(s, "CONN_ACK") BY <1>0, <1>2, <1>9, <1>14 DEF HandshakeInv, UpCrossed
    <3> QED BY <3>1
  <2>2. Asking(s) BY <1>13, <2>1, Trichotomy
  <2>3. \A i \in At(s, "CONN_ACK") : i = 2
    BY <1>9, <2>1 DEF HandshakeInv, OneHandshake
  <2> QED BY <1>9, <2>1, <2>2, <2>3 DEF HandshakeInv, AskedLast, SessionInv, AnsweredFresh
<1>15. ASSUME Asking(q)
       PROVE  1 = Len(link[s]) /\ At(s, "CONN_ACK") = {}
  <2>1. 1 = Len(link[s]) BY <1>0, <1>2, <1>9, <1>15 DEF HandshakeInv, AskedLast
  <2>2. \A i \in At(s, "CONN_ACK") : i \in Nat /\ i > 1 /\ i <= 1 BY <1>13, <2>1
  <2>3. \A i \in At(s, "CONN_ACK") : FALSE BY <2>2
  <2> QED BY <2>1, <2>3
<1>16. Up(q) \/ Asking(q) BY <1>0, <1>12, Trichotomy
\* The wires after the step.
<1>17. /\ L \in Nat /\ Len(link'[q]) = L + 1 /\ link'[q][L + 1] = g
       /\ At(q, "CONN")' = At(q, "CONN") /\ At(q, "CONN_ACK")' = {L + 1}
       /\ At(q, "ACK")' = At(q, "ACK")
  <2>1. /\ L \in Nat /\ Len(link'[q]) = L + 1 /\ link'[q][L + 1] = g
        /\ At(q, "CONN_ACK")' = {L + 1}
    BY <1>0, <1>3, <1>5, <1>12, AtGains
  <2>2. At(q, "CONN")' = At(q, "CONN") /\ At(q, "ACK")' = At(q, "ACK")
    BY <1>0, <1>3, <1>5, AtGains
  <2> QED BY <2>1, <2>2
<1>18. /\ Len(link'[s]) \in Nat /\ Len(link[s]) = Len(link'[s]) + 1
       /\ At(s, "CONN")' = {} /\ At(s, "NACK")' = {}
       /\ \A i \in At(s, "CONN_ACK")' : i \in Nat /\ i + 1 \in At(s, "CONN_ACK")
       /\ At(s, "ACK") = {} /\ At(s, "ACK")' = {}
  <2>1. Len(link'[s]) \in Nat /\ Len(link[s]) = Len(link'[s]) + 1 BY <1>5, AtLoses
  <2>2. \A i \in At(s, "CONN_ACK")' : i \in Nat /\ i + 1 \in At(s, "CONN_ACK")
    BY <1>5, AtLoses
  <2>3. At(s, "CONN")' = {}
    <3>1. \A i \in At(s, "CONN")' : i \in Nat /\ i >= 1 /\ i + 1 \in At(s, "CONN")
      BY <1>5, AtLoses
    <3> QED BY <1>12, <3>1
  <2>4. At(s, "NACK")' = {} BY <1>5, <1>9, AtLoses DEF CallerInv
  <2>5. At(s, "ACK") = {}
    <3>1. \A k \in At(s, "ACK") : k < 1 BY <1>2, <1>9 DEF SessionInv, AckInv
    <3> QED BY <3>1, AtFacts
  <2>6. At(s, "ACK")' = {} BY <1>5, <2>5, AtLoses
  <2> QED BY <2>1, <2>2, <2>3, <2>4, <2>5, <2>6
<1>19. Rests(q) /\ Remembers(s) /\ Remembers(q)
  BY <1>1, <1>6, <1>8 DEF Rests, Remembers, IsDelivered
<1>20. /\ Up(q)' <=> Up(q)
       /\ Asking(q)' <=> Asking(q)
       /\ Over(q)' <=> Over(q)
  BY <1>0, <1>19, RestsStatus
<1>21. Loses(s) /\ Gains(q, {"CONN_ACK"}) BY <1>3, <1>5 DEF Loses, Gains
<1> HIDE DEF q, L
<1>22. CallerInv(s)'
  <2>1. dc'[s].state = "DC_CONNECTING" => \E t \in Thread : thr'[s][t].fn = "dcConnect"
    BY <1>7, <1>8, <1>9 DEF CallerInv
  <2> QED BY <1>7, <1>10, <1>18, <2>1 DEF CallerInv
<1>23. HandshakeInv(s)'
  <2>1. OneHandshake(s)'
    BY <1>9, <1>11, <1>13, <1>17, <1>18 DEF HandshakeInv, OneHandshake, q
  <2>2. UpCrossed(s)'
    <3>1. ASSUME NEW i \in At(q, "CONN") PROVE i = L
      BY <1>9, <1>13, <3>1, Trichotomy DEF HandshakeInv, AskedLast, q, L
    <3>2. ASSUME NEW i \in At(s, "CONN_ACK")' PROVE i = 1
      <4>1. i \in Nat /\ i + 1 \in At(s, "CONN_ACK") BY <1>18, <3>2
      <4>2. i + 1 = 2 BY <1>14, <1>15, <1>16, <4>1
      <4> QED BY <4>1, <4>2
    <3> QED BY <1>17, <3>1, <3>2 DEF UpCrossed, q
  <2> QED BY <1>11, <2>1, <2>2 DEF HandshakeInv, AskedLast
<1>24. HandshakeInv(q)'
  <2>1. OneHandshake(q)' BY <1>0, <1>12, <1>17, <1>18, <1>20 DEF OneHandshake
  <2>2. AskedLast(q)'
    <3>1. Asking(q) => link'[s] = <<>>
      <4>1. Asking(q) => Len(link'[s]) = 0 BY <1>15, <1>18
      <4> QED BY <4>1, EmptySeq DEF TypeOK
    <3> QED BY <1>0, <1>18, <1>20, <3>1 DEF AskedLast
  <2>3. UpCrossed(q)'
    <3>1. Up(q) => L = 0 BY <1>14 DEF L
    <3> QED BY <1>0, <1>17, <1>18, <1>20, <3>1 DEF UpCrossed
  <2> QED BY <2>1, <2>2, <2>3 DEF HandshakeInv
<1>25. RecvInv(s)' /\ RecvInv(q)'
  <2>1. Up(q) => At(q, "ACK")' = {}
    <3>1. Up(q) => Len(link[q]) = 0 BY <1>14
    <3> QED BY <1>17, <3>1 DEF At
  <2> QED BY <1>0, <1>6, <1>7, <1>14, <1>18, <1>20, <2>1 DEF RecvInv, q
<1>26. SessionInv(s)'
  <2>1. NumbersInv(s)' BY <1>7, <1>10, <1>11 DEF NumbersInv
  <2>2. AckInv(s)' BY <1>18 DEF AckInv
  <2>3. DataInv(s)'
    <3>1. IsBorder(link'[q][L + 1]) BY <1>3, <1>17 DEF IsBorder
    <3>2. \A i \in At(q, "DATA")' : L + 1 \in i .. Len(link'[q]) BY <1>17 DEF At
    <3> QED BY <3>1, <3>2 DEF DataInv, q
  <2>4. ConfirmInv(s)' BY <1>1, <1>9, <1>11, <1>19, ConfirmQuiet DEF SessionInv, q
  <2> QED BY <1>11, <1>25, <2>1, <2>2, <2>3, <2>4 DEF SessionInv, AnsweredFresh
<1>27. SessionInv(q)'
  <2>1. AnsweredFresh(q)'
    <3>1. \A k \in At(q, "ACK")' : k < L + 1
      BY <1>0, <1>17, AtFacts DEF L
    <3> QED BY <1>0, <1>7, <1>17, <3>1 DEF AnsweredFresh
  <2>2. NumbersInv(q)' /\ StillUp(q)
    BY <1>0, <1>9, <1>19, RestsSession DEF SessionInv
  <2>3. AckInv(q)'
    <3>1. Gains(q, FrameType \ {"ACK"}) BY <1>21 DEF Gains, FrameType
    <3> QED BY <1>0, <1>9, <1>19, <2>2, <3>1, AckQuiet DEF SessionInv
  <2>4. DataInv(q)' BY <1>0, <1>9, <1>21, <2>2, DataQuiet DEF SessionInv
  <2>5. ConfirmInv(q)'
    BY <1>0, <1>9, <1>19, RestsSession, ConfirmQuiet DEF SessionInv, Rests
  <2> QED BY <1>25, <2>1, <2>2, <2>3, <2>4, <2>5 DEF SessionInv
<1>28. CallerInv(q)'
  <2>1. Gains(q, FrameType \ {"NACK"}) BY <1>21 DEF Gains, FrameType
  <2> QED BY <1>0, <1>9, <1>19, <2>1, CallerRests
<1> QED BY <1>0, <1>22, <1>23, <1>24, <1>26, <1>27, <1>28, TimelyTogether DEF q

LEMMA TimelyStation ==
  ASSUME Timely, TypeOK, TypeOK', AtMostOnceInv, TimelyInv,
         NEW s \in Station, StationStep(s)
  PROVE  TimelyInv'
<1>1. CASE GetSize(s)
  <2>1. Rests(s) /\ Rests(Peer(s)) BY <1>1 DEF GetSize, Rests, history
  <2>2. link' = link BY <1>1 DEF GetSize
  <2> QED BY <2>1, <2>2, KeptWire, TimelyIdle
<1>2. CASE LoseFrame(s)
  BY <1>2, TimelyIgnored DEF LoseFrame
<1>3. ~ReceiveNack(s)
  <2>1. At(s, "NACK") = {} BY DEF TimelyInv, CallerInv
  <2> QED BY <2>1, HeadAt DEF ReceiveNack
<1>4. ~ForeignNack(s)
  BY DEF ForeignNack, Timely, SameLibrary, TypeOK
<1> QED
  BY <1>1, <1>2, <1>3, <1>4, TimelyGetMessage, TimelyReceiveData, TimelyReceiveAck,
     TimelyReceiveConn, TimelyReceiveConnAck DEF StationStep, Receive
-----------------------------------------------------------------------------
(* The theorems *)

LEMMA TimelyInit == Init => TimelyInv
<1> SUFFICES ASSUME Init, NEW s \in Station PROVE CallerInv(s) /\ HandshakeInv(s) /\ SessionInv(s)
  BY DEF TimelyInv
<1>1. /\ dc[s].state = "DC_DISCONNECTED" /\ dc[s].send_number = 0
      /\ dc[s].next_expected_ack = 0 /\ dc[s].recv_number = 0
      /\ dc[s].extractionBuffer = NoMsg /\ confirmed[s] = {}
      /\ \A t \in Thread : thr[s][t].fn = "none" /\ thr[s][t].wait = "none"
  BY DEF Init
<1>2. ~Up(s) /\ ~Asking(s) /\ ~Awaiting(s) /\ ~Acknowledged(s)
  BY <1>1 DEF Up, Asking, Awaiting, Acknowledged, LinkUp, Connected, Sending
<1>3. \A x \in Station : \A type : At(x, type) = {} BY DEF Init, At
<1>4. CallerInv(s) BY <1>1, <1>3 DEF CallerInv, Sending
<1>5. HandshakeInv(s)
  BY <1>2, <1>3, PeerFacts DEF HandshakeInv, OneHandshake, AskedLast, UpCrossed
<1>6. SessionInv(s)
  BY <1>1, <1>2, <1>3 DEF SessionInv, AnsweredFresh, NumbersInv, AckInv, DataInv, RecvInv,
     ConfirmInv, Sending
<1> QED BY <1>4, <1>5, <1>6

LEMMA TimelyNext ==
  ASSUME Timely, TypeOK, TypeOK', AtMostOnceInv, TimelyInv, [Next]_vars
  PROVE  TimelyInv'
<1>1. CASE Next
  BY <1>1, TimelyThread, TimelyStation DEF Next
<1>2. CASE UNCHANGED vars
  <2>1. UNCHANGED <<dc, thr, link, sent, delivered, confirmed>> BY <1>2 DEF vars, history
  <2> QED BY <2>1 DEF TimelyInv, CallerInv, HandshakeInv, OneHandshake, AskedLast, UpCrossed,
          SessionInv, AnsweredFresh, NumbersInv, AckInv, DataInv, RecvInv, ConfirmInv, Up,
          Asking, Over, Awaiting, Acknowledged, At, IsDelivered, LinkUp, Connected, Sending,
          Live, Doomed, Newest
<1> QED BY <1>1, <1>2

\* What the service confirms was picked up.
LEMMA ConfirmDeliveredStep ==
  ASSUME Timely, TypeOK, AtMostOnceInv, TimelyInv,
         NEW s \in Station, NEW t \in Thread, SendConfirmed(s, t)
  PROVE  Service!ConfirmDelivered(s)
<1>1. Service!Confirm(s)
  BY ConfirmStep DEF AtMostOnceInv
<1>2. /\ thr[s][t].fn = "dcSendMessage" /\ thr[s][t].wait = "signaled"
      /\ dc[s].last_response = "DC_RESP_OK"
      /\ confirmed' = [confirmed EXCEPT ![s] = @ \cup {thr[s][t].frame.msg}]
  BY DEF SendConfirmed, InSend
<1>3. Acknowledged(s) /\ thr[s][t].frame.msg = sent[s]
  BY <1>2, SendingFacts
<1>4. IsDelivered(sent[s], Peer(s))
  BY <1>3 DEF TimelyInv, SessionInv, ConfirmInv
<1>5. \A m \in confirmed'[s] \ confirmed[s] : m = sent[s]
  BY <1>2, <1>3 DEF TypeOK
<1>6. Service!IsDelivered(sent[s], Service!Peer(s))
  BY <1>4 DEF Service!IsDelivered, Service!Peer, IsDelivered, Peer
<1> QED BY <1>1, <1>5, <1>6 DEF Service!ConfirmDelivered

LEMMA ReliableStep ==
  ASSUME Timely, TypeOK, AtMostOnceInv, TimelyInv, [Next]_vars
  PROVE  Service!ReliableNext \/ UNCHANGED history
<1>1. Service!Station = Station
  BY DEF Service!Station, Station
<1>2. CASE UNCHANGED vars
  BY <1>2 DEF vars, history
<1>3. CASE Next
  <2>1. PICK s \in Station : StationStep(s) \/ \E t \in Thread : ThreadStep(s, t)
    BY <1>3 DEF Next
  <2>2. CASE GetMessage(s)
    BY <1>1, <2>2, PickUpStep DEF Service!ReliableNext, AtMostOnceInv
  <2>3. ASSUME NEW t \in Thread, SendStart(s, t)
        PROVE  Service!ReliableNext
    BY <1>1, <2>3 DEF SendStart, Service!ReliableNext, Service!Accept
  <2>4. ASSUME NEW t \in Thread, SendConfirmed(s, t)
        PROVE  Service!ReliableNext
    BY <1>1, <2>4, ConfirmDeliveredStep DEF Service!ReliableNext
  <2>5. ASSUME NEW t \in Thread, ThreadStep(s, t), ~SendStart(s, t), ~SendConfirmed(s, t)
        PROVE  UNCHANGED history
    BY <2>5, SilentSteps DEF ThreadStep, SendResume
  <2>6. ASSUME StationStep(s), ~GetMessage(s)
        PROVE  UNCHANGED history
    BY <2>6 DEF StationStep, GetSize, Receive, ReceiveData, ReceiveAck, ReceiveNack,
       ReceiveConn, ReceiveConnAck, LoseFrame, ForeignNack
  <2> QED BY <1>1, <2>1, <2>2, <2>3, <2>4, <2>5, <2>6
<1> QED BY <1>2, <1>3

\* The inductive invariant itself: one handshake at a time, and numbers, frames and
\* messages of the session that fit together.
THEOREM TimelyInvCorrect ==
  ASSUME Timely
  PROVE  Spec => []TimelyInv
<1>1. Spec => []TypeOK BY TypeCorrect
<1>2. Spec => []AtMostOnceInv
  BY AtMostOnceInvCorrect DEF Timely, NoFailures, SignalsSucceed
<1>3. Init => TimelyInv BY TimelyInit
<1>4. TypeOK /\ TypeOK' /\ AtMostOnceInv /\ TimelyInv /\ [Next]_vars => TimelyInv'
  BY TimelyNext
<1> QED BY <1>1, <1>2, <1>3, <1>4, PTL DEF Spec

\* dcSendMessage returns DC_OK only for a message the other application has picked up.
THEOREM ConfirmedPickedUpCorrect ==
  ASSUME Timely
  PROVE  Spec => []ConfirmedPickedUp
<1>1. Spec => []TimelyInv BY TimelyInvCorrect
<1>2. TimelyInv => ConfirmedPickedUp
  BY DEF TimelyInv, SessionInv, ConfirmInv, IsDelivered, ConfirmedPickedUp
<1> QED BY <1>1, <1>2, PTL

\* Two stations at rest agree on the next sequence number in both directions, so the
\* next message of either is accepted.
THEOREM SequenceAgreementCorrect ==
  ASSUME Timely
  PROVE  Spec => []SequenceAgreement
<1>1. Spec => []TimelyInv BY TimelyInvCorrect
<1>2. TimelyInv => SequenceAgreement
  <2> SUFFICES ASSUME TimelyInv, Quiescent, NEW s \in Station
               PROVE  /\ dc[s].send_number = dc[Peer(s)].recv_number
                      /\ dc[s].next_expected_ack = dc[s].send_number
    BY DEF SequenceAgreement
  <2>1. Up(s) /\ Up(Peer(s)) /\ ~Awaiting(s)
    BY PeerFacts DEF Quiescent, Up, LinkUp, Awaiting, Sending, Idle
  <2>2. NumbersInv(s) /\ RecvInv(s)
    BY DEF TimelyInv, SessionInv
  <2> QED BY <2>1, <2>2 DEF NumbersInv, RecvInv
<1> QED BY <1>1, <1>2, PTL

\* dcl2 implements the service that confirms a message only after it was picked up.
THEOREM ReliableServiceImplemented ==
  ASSUME Timely
  PROVE  Spec => ImplementsReliableService
<1>1. Init => Service!Init
  BY DEF Init, Service!Init, Service!Station, Station
<1>2. Spec => []TypeOK BY TypeCorrect
<1>3. Spec => []AtMostOnceInv
  BY AtMostOnceInvCorrect DEF Timely, NoFailures, SignalsSucceed
<1>4. Spec => []TimelyInv BY TimelyInvCorrect
<1>5. TypeOK /\ AtMostOnceInv /\ TimelyInv /\ [Next]_vars
        => [Service!ReliableNext]_(Service!vars)
  BY ReliableStep DEF Service!vars, history
<1> QED BY <1>1, <1>2, <1>3, <1>4, <1>5, PTL
        DEF Spec, ImplementsReliableService, Service!ReliableSpec
=============================================================================
