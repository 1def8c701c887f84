------------------------------ MODULE Dcl2Once ------------------------------
(***************************************************************************)
(* Proof that no message is picked up twice.  A step of the system changes *)
(* a direction of the link, from Peer(r) to r, in one of six ways: the     *)
(* wire loses frames at its front, it gains a control frame, a first copy  *)
(* or a repetition of a message, or r accepts a message or hands one over. *)
(* There is one lemma for each, then one step per action.                  *)
(***************************************************************************)
EXTENDS Dcl2Proofs

\* The first m frames of the wire towards r are gone.
Dropped(r, m) ==
  /\ m \in 0 .. Len(link[r])
  /\ Len(link'[r]) = Len(link[r]) - m
  /\ \A i \in 1 .. Len(link[r]) - m : link'[r][i] = link[r][i + m]

\* The wire towards r has one more frame.
Appended(r, g) == link'[r] = Append(link[r], g)

\* Only a thread that could transmit its frame before can do so afterwards.
NoNewCopy(s) ==
  \A t \in Thread : Live(s, t)' => Live(s, t) /\ thr'[s][t].frame = thr[s][t].frame

\* What r has settled stays so.
Calmer(r) == \A n \in SeqNumber : Settled(r, n) => Settled(r, n)'

\* A border is the next frame r takes off its wire.
BorderFirst(r) == link[r] # <<>> /\ IsBorder(link[r][1])

\* The step does not touch what r keeps.
Kept(r) ==
  /\ dc'[r] = dc[r] /\ thr'[r] = thr[r]
  /\ sent'[r] = sent[r] /\ delivered'[r] = delivered[r]

DirectionInv(r) == PickupInv(r) /\ WireInv(r) /\ RepeatInv(r)
-----------------------------------------------------------------------------
(* Facts about one state *)

LEMMA FrameFacts ==
  ASSUME TypeOK, NEW r \in Station
  PROVE  /\ Len(link[r]) \in Nat
         /\ \A i \in 1 .. Len(link[r]) : link[r][i] \in Frame
         /\ dc[r] \in DeadcomL2
         /\ sent[r] \in Nat
         /\ delivered[r] \in Seq(Nat) /\ Len(delivered[r]) \in Nat
         /\ \A i \in 1 .. Len(delivered[r]) : delivered[r][i] \in Nat
<1>1. link[r] \in Seq(Frame) /\ delivered[r] \in Seq(Nat) BY DEF TypeOK
<1>2. Len(link[r]) \in Nat /\ Len(delivered[r]) \in Nat BY <1>1, LenProperties
<1> QED BY <1>1, <1>2, ElementOfSeq DEF TypeOK

LEMMA LastType ==
  ASSUME NEW D \in Seq(Nat), D # <<>>
  PROVE  Len(D) \in 1 .. Len(D) /\ D[Len(D)] \in Nat
<1>1. Len(D) \in 1 .. Len(D) BY EmptySeq, LenProperties
<1> QED BY <1>1, ElementOfSeq

LEMMA NewestType ==
  ASSUME NEW r \in Station
  PROVE  (TypeOK => Newest(r) \in Nat) /\ (TypeOK' => Newest(r)' \in Nat)
BY LastType DEF TypeOK, DeadcomL2, Newest, NoMsg

\* The newest message is at least as new as everything picked up.
LEMMA NewestBound ==
  ASSUME TypeOK, NEW r \in Station, PickupInv(r)
  PROVE  \A i \in 1 .. Len(delivered[r]) : delivered[r][i] <= Newest(r)
<1> SUFFICES ASSUME NEW i \in 1 .. Len(delivered[r])
             PROVE  delivered[r][i] <= Newest(r)
  OBVIOUS
<1>1. delivered[r] # <<>> /\ Len(delivered[r]) \in 1 .. Len(delivered[r])
  BY FrameFacts, EmptySeq
<1>2. CASE dc[r].extractionBuffer # NoMsg
  <2>1. delivered[r][i] < dc[r].extractionBuffer BY <1>2 DEF PickupInv
  <2> QED BY <1>2, <2>1, FrameFacts DEF Newest, DeadcomL2
<1>3. CASE dc[r].extractionBuffer = NoMsg
  <2>1. Newest(r) = delivered[r][Len(delivered[r])] BY <1>1, <1>3 DEF Newest
  <2>2. i < Len(delivered[r]) => delivered[r][i] < delivered[r][Len(delivered[r])]
    BY <1>1 DEF PickupInv
  <2> QED BY <2>1, <2>2, <1>1, FrameFacts
<1> QED BY <1>2, <1>3
-----------------------------------------------------------------------------
(* The wire loses frames, r may drop a pending message *)

LEMMA NewestShrinks ==
  ASSUME TypeOK, TypeOK', NEW r \in Station, PickupInv(r), delivered'[r] = delivered[r],
         dc'[r].extractionBuffer \in {dc[r].extractionBuffer, NoMsg}
  PROVE  Newest(r)' <= Newest(r)
<1>1. CASE dc'[r].extractionBuffer = dc[r].extractionBuffer
  BY <1>1, NewestType DEF Newest
<1>2. CASE dc'[r].extractionBuffer = NoMsg /\ delivered[r] = <<>>
  <2>1. Newest(r)' = 0 BY <1>2 DEF Newest, NoMsg
  <2> QED BY <2>1, NewestType
<1>3. CASE dc'[r].extractionBuffer = NoMsg /\ delivered[r] # <<>>
  <2>1. Len(delivered[r]) \in 1 .. Len(delivered[r]) BY <1>3, FrameFacts, EmptySeq
  <2>2. Newest(r)' = delivered[r][Len(delivered[r])] BY <1>3 DEF Newest
  <2> QED BY <2>1, <2>2, NewestBound
<1> QED BY <1>1, <1>2, <1>3

\* The frame of a sending thread carries the last message its station accepted.
LEMMA LiveFrame ==
  ASSUME TypeOK, NEW s \in Station, CallInv(s), NEW t \in Thread, Live(s, t)
  PROVE  /\ thr[s][t].frame \in Frame
         /\ IsData(thr[s][t].frame)
         /\ thr[s][t].frame.msg = sent[s] /\ sent[s] \in Nat \ {0}
         /\ thr[s][t].frame.seq \in SeqNumber
<1>1. thr[s][t] \in Call /\ sent[s] \in Nat BY DEF TypeOK
<1>2. thr[s][t].frame \in Frame BY <1>1 DEF Call, Live, Sending
<1>3. /\ IsData(thr[s][t].frame)
      /\ thr[s][t].frame.msg = sent[s] /\ sent[s] >= 1
  BY DEF CallInv, Live
<1> QED BY <1>1, <1>2, <1>3 DEF Frame

LEMMA Shrink ==
  ASSUME TypeOK, TypeOK', NEW r \in Station, DirectionInv(r), CallInv(Peer(r)),
         NEW m, Dropped(r, m),
         delivered'[r] = delivered[r], sent'[Peer(r)] \in {sent[Peer(r)], sent[Peer(r)] + 1},
         dc'[r].extractionBuffer \in {dc[r].extractionBuffer, NoMsg},
         Calmer(r) \/ BorderFirst(r),
         NoNewCopy(Peer(r))
  PROVE  DirectionInv(r)'
<1> DEFINE p == Peer(r)
           W == link[r]
<1>0. /\ p \in Station /\ Len(W) \in Nat /\ m \in 0 .. Len(W)
      /\ sent[p] \in Nat /\ Newest(r) \in Nat
  BY PeerType, FrameFacts, NewestType DEF Dropped
<1>1. /\ Newest(r)' \in Nat
      /\ Newest(r)' <= Newest(r)
  BY NewestShrinks, NewestType DEF DirectionInv
<1>2. PickupInv(r)'
  BY <1>0, <1>1 DEF DirectionInv, PickupInv
<1>3. /\ Len(link'[r]) \in Nat /\ Len(link'[r]) + m = Len(W)
      /\ \A i \in 1 .. Len(link'[r]) :
           i + m \in 1 .. Len(W) /\ link'[r][i] = W[i + m] /\ W[i + m] \in Frame
  BY <1>0, FrameFacts DEF Dropped
\* If the newest message stays the newest, what is settled stays settled.
<1>4. ASSUME Newest(r) <= Newest(r)', NEW q \in SeqNumber,
             Newest(r) = Newest(r)' => Settled(r, q) /\ ~BorderFirst(r)
      PROVE  Newest(r) = Newest(r)' /\ Settled(r, q)'
  <2>1. Newest(r) = Newest(r)' BY <1>0, <1>1, <1>4
  <2> QED BY <1>4, <2>1 DEF Calmer
<1>5. WireInv(r)'
  <2>1. ASSUME NEW i \in 1 .. Len(link'[r]), IsData(link'[r][i])
        PROVE  FrameInv(r, i)'
    <3>1. FrameInv(r, i + m)
      BY <1>3, <2>1 DEF DirectionInv, WireInv
    <3>2. PICK q \in SeqNumber, n \in Nat : W[i + m].seq = q /\ W[i + m].msg = n
      BY <1>3 DEF Frame
    <3>3. Newest(r)' <= n BY <1>0, <1>1, <3>1, <3>2 DEF FrameInv
    <3>4. ASSUME Newest(r)' = n
          PROVE  Settled(r, q)' /\ \A k \in 1 .. i : ~IsBorder(link'[r][k])
      <4>1. Newest(r) = n => ~BorderFirst(r)
        <5>1. 1 \in 1 .. i + m BY <1>3, <1>0
        <5> QED BY <3>1, <3>2, <5>1 DEF BorderFirst, FrameInv
      <4>2. Newest(r) <= Newest(r)' BY <3>1, <3>2, <3>4 DEF FrameInv
      <4>3. Newest(r) = Newest(r)' => Settled(r, q) /\ ~BorderFirst(r)
        BY <3>1, <3>2, <3>4, <4>1 DEF FrameInv
      <4>4. Newest(r) = n /\ Settled(r, q)'
        BY <1>4, <3>4, <4>2, <4>3
      <4>5. \A k \in 1 .. i : k + m \in 1 .. i + m /\ k \in 1 .. Len(link'[r])
        BY <1>0, <1>3
      <4> QED BY <1>3, <3>1, <3>2, <4>4, <4>5 DEF FrameInv
    <3>5. link'[r][i].seq = q /\ link'[r][i].msg = n BY <1>3, <3>2
    <3>6. n \in 1 .. sent'[p] BY <1>0, <3>1, <3>2 DEF FrameInv
    <3> QED BY <3>3, <3>4, <3>5, <3>6 DEF FrameInv
  <2>2. ASSUME NEW i \in 1 .. Len(link'[r]), NEW j \in 1 .. Len(link'[r]),
               i < j, IsData(link'[r][i]), IsData(link'[r][j])
        PROVE  PairInv(r, i, j)'
    <3>1. PairInv(r, i + m, j + m)
      <4>1. i + m < j + m BY <1>0, <2>2
      <4> QED BY <1>3, <2>2, <4>1 DEF DirectionInv, WireInv
    <3>2. \A k \in i .. j : k + m \in i + m .. j + m /\ k \in 1 .. Len(link'[r])
      BY <1>0, <1>3, <2>2
    <3> QED BY <1>3, <3>1, <3>2 DEF PairInv
  <2> QED BY <2>1, <2>2 DEF WireInv
<1>6. ASSUME NEW t \in Thread, Live(p, t)'
      PROVE  CopyInv(r, thr[p][t].frame)' /\ thr'[p][t].frame = thr[p][t].frame
  <2>1. Live(p, t) /\ thr'[p][t].frame = thr[p][t].frame BY <1>6 DEF NoNewCopy
  <2>3. PICK f \in Frame : /\ f = thr[p][t].frame /\ f = thr'[p][t].frame
                           /\ f.msg = sent[p] /\ f.msg \in Nat /\ f.seq \in SeqNumber
    BY <1>0, <2>1, LiveFrame
  <2>2. CopyInv(r, f) BY <2>1, <2>3 DEF DirectionInv, RepeatInv
  <2>4. Newest(r) <= f.msg BY <2>3 DEF DirectionInv, PickupInv
  <2>5. ASSUME Newest(r)' = f.msg
        PROVE  /\ Settled(r, f.seq)'
               /\ \A k \in 1 .. Len(link'[r]) : ~IsBorder(link'[r][k])
    <3>1. Newest(r) = f.msg => ~BorderFirst(r)
      <4>1. link[r] # <<>> => 1 \in 1 .. Len(W) BY <1>0, EmptySeq DEF TypeOK
      <4> QED BY <2>2, <4>1 DEF BorderFirst, CopyInv
    <3>2. Newest(r) <= Newest(r)' BY <2>4, <2>5
    <3>3. Newest(r) = Newest(r)' => Settled(r, f.seq) /\ ~BorderFirst(r)
      BY <2>2, <2>5, <3>1 DEF CopyInv
    <3>4. Newest(r) = f.msg /\ Settled(r, f.seq)'
      BY <1>4, <2>3, <2>5, <3>2, <3>3
    <3> QED BY <1>3, <2>2, <3>4 DEF CopyInv
  <2>6. ASSUME NEW i \in 1 .. Len(link'[r]), IsData(link'[r][i]), link'[r][i].msg = f.msg
        PROVE  /\ link'[r][i].seq = f.seq
               /\ \A k \in i .. Len(link'[r]) : ~IsBorder(link'[r][k])
    <3>1. W[i + m].seq = f.seq /\ \A k \in i + m .. Len(W) : ~IsBorder(W[k])
      BY <1>3, <2>2, <2>6 DEF CopyInv
    <3>2. \A k \in i .. Len(link'[r]) : k \in 1 .. Len(link'[r]) /\ k + m \in i + m .. Len(W)
      BY <1>0, <1>3
    <3> QED BY <1>3, <3>1, <3>2
  <2>7. CopyInv(r, f)' BY <2>5, <2>6 DEF CopyInv
  <2> QED BY <2>3, <2>7 DEF CopyInv
<1>7. RepeatInv(r)' BY <1>6 DEF RepeatInv
<1> QED BY <1>2, <1>5, <1>7 DEF DirectionInv
-----------------------------------------------------------------------------
(* The wire gains a frame *)

LEMMA AppendFacts ==
  ASSUME TypeOK, NEW r \in Station, NEW g \in Frame, Appended(r, g)
  PROVE  /\ Len(link[r]) \in Nat /\ Len(link'[r]) = Len(link[r]) + 1
         /\ \A i \in 1 .. Len(link[r]) : link'[r][i] = link[r][i]
         /\ link'[r][Len(link[r]) + 1] = g
<1>1. link[r] \in Seq(Frame) BY DEF TypeOK
<1> QED BY <1>1, AppendProperties, LenProperties DEF Appended

LEMMA Grow ==
  ASSUME TypeOK, TypeOK', NEW r \in Station, DirectionInv(r), CallInv(Peer(r)),
         dc'[r] = dc[r], thr'[r] = thr[r], delivered'[r] = delivered[r],
         sent'[Peer(r)] \in {sent[Peer(r)], sent[Peer(r)] + 1},
         NEW g \in Frame, Appended(r, g),
         IsData(g) => /\ CopyInv(r, g)
                      /\ g.msg \in 1 .. sent'[Peer(r)] /\ g.msg >= sent[Peer(r)],
         \A t \in Thread : Live(Peer(r), t)' =>
           /\ ~IsBorder(g)
           /\ IsData(g) => g = thr'[Peer(r)][t].frame
           /\ ~IsData(g) => Live(Peer(r), t) /\ thr'[Peer(r)][t].frame = thr[Peer(r)][t].frame
  PROVE  DirectionInv(r)'
<1> DEFINE p == Peer(r)
           W == link[r]
<1>0. /\ p \in Station /\ Len(W) \in Nat /\ sent[p] \in Nat /\ Newest(r) \in Nat
      /\ \A i \in 1 .. Len(W) : W[i] \in Frame
  BY PeerType, FrameFacts, NewestType
<1>1. /\ Newest(r)' = Newest(r)
      /\ \A q \in SeqNumber : Settled(r, q)' <=> Settled(r, q)
  BY DEF Newest, Settled, LinkUp, Connected
<1>2. PickupInv(r)'
  BY <1>0, <1>1 DEF DirectionInv, PickupInv
<1>3. /\ Len(link'[r]) = Len(W) + 1
      /\ \A i \in 1 .. Len(W) : link'[r][i] = W[i]
      /\ link'[r][Len(W) + 1] = g
  BY AppendFacts
\* The newest message is not newer than the frame that was appended.
<1>4. IsData(g) => Newest(r) <= g.msg /\ g.msg \in Nat /\ g.seq \in SeqNumber
  BY <1>0 DEF DirectionInv, PickupInv, Frame
<1>5. ASSUME NEW i \in 1 .. Len(link'[r]), IsData(link'[r][i])
      PROVE  FrameInv(r, i)'
  <2>1. CASE i \in 1 .. Len(W)
    <3>1. FrameInv(r, i) /\ W[i] \in Frame BY <1>0, <1>3, <1>5, <2>1 DEF DirectionInv, WireInv
    <3>2. PICK q \in SeqNumber, n \in Nat : W[i].seq = q /\ W[i].msg = n
      BY <3>1 DEF Frame
    <3>3. \A k \in 1 .. i : link'[r][k] = W[k] BY <1>0, <1>3, <2>1
    <3>4. link'[r][i].seq = q /\ link'[r][i].msg = n BY <3>2, <1>3, <2>1
    <3>5. n \in 1 .. sent'[p] BY <1>0, <3>1, <3>2 DEF FrameInv
    <3>6. Newest(r)' <= n BY <1>1, <3>1, <3>2 DEF FrameInv
    <3>7. Newest(r)' = n => Settled(r, q)' /\ \A k \in 1 .. i : ~IsBorder(link'[r][k])
      BY <1>1, <3>1, <3>2, <3>3 DEF FrameInv
    <3> QED BY <3>4, <3>5, <3>6, <3>7 DEF FrameInv
  <2>2. CASE i = Len(W) + 1
    <3>1. link'[r][i] = g /\ IsData(g) BY <1>3, <1>5, <2>2
    <3>2. PICK q \in SeqNumber, n \in Nat : g.seq = q /\ g.msg = n BY <1>4, <3>1
    <3>3. Newest(r) = n => Settled(r, q)' /\ \A k \in 1 .. Len(W) : ~IsBorder(W[k])
      BY <1>1, <3>1, <3>2 DEF CopyInv
    <3>4. ~IsBorder(g) BY <3>1 DEF IsData, IsBorder
    <3>5. Newest(r)' = n => Settled(r, q)' /\ \A k \in 1 .. i : ~IsBorder(link'[r][k])
      BY <1>0, <1>1, <1>3, <2>2, <3>3, <3>4
    <3>6. Newest(r)' <= n BY <1>1, <1>4, <3>1, <3>2
    <3>7. link'[r][i].seq = q /\ link'[r][i].msg = n /\ n \in 1 .. sent'[p] BY <3>1, <3>2
    <3> QED BY <3>5, <3>6, <3>7 DEF FrameInv
  <2> QED BY <1>0, <1>3, <2>1, <2>2
<1>6. ASSUME NEW i \in 1 .. Len(link'[r]), NEW j \in 1 .. Len(link'[r]),
             i < j, IsData(link'[r][i]), IsData(link'[r][j])
      PROVE  PairInv(r, i, j)'
  <2>0. i \in 1 .. Len(W) /\ link'[r][i] = W[i] BY <1>0, <1>3, <1>6
  <2>1. CASE j \in 1 .. Len(W)
    <3>1. PairInv(r, i, j) BY <1>3, <1>6, <2>0, <2>1 DEF DirectionInv, WireInv
    <3>2. \A k \in i .. j : link'[r][k] = W[k] BY <1>0, <1>3, <2>0, <2>1
    <3> QED BY <1>3, <2>0, <2>1, <3>1, <3>2 DEF PairInv
  <2>2. CASE j = Len(W) + 1
    <3>1. link'[r][j] = g /\ IsData(g) /\ ~IsBorder(g)
      BY <1>3, <1>6, <2>2 DEF IsData, IsBorder
    <3>2. W[i].msg <= sent[p] /\ W[i].msg \in Nat
      BY <1>0, <1>6, <2>0 DEF DirectionInv, WireInv, FrameInv
    <3>3. W[i].msg <= g.msg BY <1>0, <1>4, <3>1, <3>2
    <3>4. W[i].msg = g.msg => W[i].seq = g.seq /\ \A k \in i .. Len(W) : ~IsBorder(W[k])
      BY <1>6, <2>0, <3>1 DEF CopyInv
    <3>5. \A k \in i .. j : k = j \/ (k \in i .. Len(W) /\ link'[r][k] = W[k])
      BY <1>0, <1>3, <2>0, <2>2
    <3> QED BY <2>0, <3>1, <3>3, <3>4, <3>5 DEF PairInv
  <2> QED BY <1>0, <1>3, <2>1, <2>2
<1>7. ASSUME NEW t \in Thread, Live(p, t)'
      PROVE  CopyInv(r, thr[p][t].frame)'
  <2>1. PICK f \in Frame : f = thr'[p][t].frame /\ CopyInv(r, f)
    <3>1. CASE IsData(g) BY <1>7, <3>1
    <3>2. CASE ~IsData(g)
      <4>1. Live(p, t) /\ thr'[p][t].frame = thr[p][t].frame BY <1>7, <3>2
      <4> QED BY <1>0, <4>1, LiveFrame DEF DirectionInv, RepeatInv
    <3> QED BY <3>1, <3>2
  <2>2. ~IsBorder(g) /\ (IsData(g) => g = f) BY <1>7, <2>1
  <2>3. f.seq \in SeqNumber BY DEF Frame
  <2>4. Newest(r)' = f.msg =>
          /\ Settled(r, f.seq)'
          /\ \A k \in 1 .. Len(link'[r]) : ~IsBorder(link'[r][k])
    BY <1>0, <1>1, <1>3, <2>1, <2>2, <2>3 DEF CopyInv
  <2>5. ASSUME NEW i \in 1 .. Len(link'[r]), IsData(link'[r][i]), link'[r][i].msg = f.msg
        PROVE  /\ link'[r][i].seq = f.seq
               /\ \A k \in i .. Len(link'[r]) : ~IsBorder(link'[r][k])
    <3>1. CASE i \in 1 .. Len(W)
      <4>1. W[i].seq = f.seq /\ \A k \in i .. Len(W) : ~IsBorder(W[k])
        BY <1>3, <2>1, <2>5, <3>1 DEF CopyInv
      <4>2. \A k \in i .. Len(link'[r]) : k = Len(W) + 1 \/ (k \in i .. Len(W) /\ link'[r][k] = W[k])
        BY <1>0, <1>3, <3>1
      <4> QED BY <1>3, <2>2, <3>1, <4>1, <4>2
    <3>2. CASE i = Len(W) + 1
      BY <1>0, <1>3, <2>2, <2>5, <3>2
    <3> QED BY <1>0, <1>3, <3>1, <3>2
  <2>6. CopyInv(r, f)' BY <2>4, <2>5 DEF CopyInv
  <2> QED BY <2>1, <2>6 DEF CopyInv
<1>8. WireInv(r)' BY <1>5, <1>6 DEF WireInv
<1>9. RepeatInv(r)' BY <1>7 DEF RepeatInv
<1> QED BY <1>2, <1>8, <1>9 DEF DirectionInv
-----------------------------------------------------------------------------
(* The receiver accepts a message, or hands it over *)

\* A number is not its own successor.
LEMMA SuccDiffers == \A n \in SeqNumber : Succ(n) # n
BY ParameterAssumption DEF SeqNumber, Succ

LEMMA Accept ==
  ASSUME TypeOK, TypeOK', NEW r \in Station, DirectionInv(r), CallInv(r), CallInv(Peer(r)),
         link[r] # <<>>, IsData(link[r][1]), AcceptsData(dc[r], link[r][1]),
         Dropped(r, 1), dc'[r] = Stored(dc[r], link[r][1]),
         thr'[r] = thr[r], delivered'[r] = delivered[r],
         Kept(Peer(r))
  PROVE  DirectionInv(r)'
<1> DEFINE p == Peer(r)
           W == link[r]
<1>0. /\ p \in Station /\ Len(W) \in Nat /\ 1 \in 1 .. Len(W)
      /\ sent[p] \in Nat /\ sent'[p] = sent[p] /\ Newest(r) \in Nat
      /\ \A i \in 1 .. Len(W) : W[i] \in Frame
  BY PeerType, FrameFacts, NewestType DEF Dropped, Kept
<1>1. PICK q \in SeqNumber, n \in Nat : W[1].seq = q /\ W[1].msg = n
  BY <1>0 DEF Frame
<1>2. /\ LinkUp(dc[r]) /\ q = dc[r].recv_number /\ dc[r].extractionBuffer = NoMsg
      /\ dc'[r].extractionBuffer = n /\ dc'[r].recv_number = Succ(q)
      /\ dc'[r].state = dc[r].state
  BY <1>1, FrameFacts DEF AcceptsData, Stored, DeadcomL2
<1>3. \A t \in Thread : ~Connected(r, t) /\ ~Connected(r, t)'
  BY <1>2 DEF Connected, CallInv, LinkUp
\* Copies of what was accepted before carry another number.
<1>4. /\ n \in 1 .. sent[p] /\ Newest(r) < n
  <2>1. FrameInv(r, 1) BY <1>0 DEF DirectionInv, WireInv
  <2>2. Newest(r) = n => Succ(q) = q BY <1>1, <1>2, <2>1 DEF FrameInv, Settled
  <2>3. Newest(r) # n BY <2>2, SuccDiffers
  <2> QED BY <1>0, <1>1, <2>1, <2>3 DEF FrameInv
<1>5. Newest(r)' = n /\ n # NoMsg BY <1>2, <1>4 DEF Newest, NoMsg
<1>6. Settled(r, q)' BY <1>2, <1>3 DEF Settled
<1>7. PickupInv(r)'
  <2>1. \A i \in 1 .. Len(delivered[r]) : delivered[r][i] < n
    BY <1>0, <1>4, NewestBound, FrameFacts DEF DirectionInv
  <2> QED BY <1>0, <1>2, <1>4, <1>5, <2>1 DEF DirectionInv, PickupInv
<1>8. /\ Len(link'[r]) \in Nat /\ Len(link'[r]) + 1 = Len(W)
      /\ \A i \in 1 .. Len(link'[r]) :
           /\ i + 1 \in 1 .. Len(W) /\ 1 < i + 1
           /\ link'[r][i] = W[i + 1] /\ W[i + 1] \in Frame
  <2>1. Len(link'[r]) \in Nat /\ Len(link'[r]) + 1 = Len(W) BY <1>0 DEF Dropped
  <2>2. ASSUME NEW i \in 1 .. Len(link'[r])
        PROVE  i + 1 \in 1 .. Len(W) /\ 1 < i + 1
    BY <2>1, <1>0
  <2>3. ASSUME NEW i \in 1 .. Len(link'[r])
        PROVE  link'[r][i] = W[i + 1]
    BY DEF Dropped
  <2> QED BY <1>0, <2>1, <2>2, <2>3
<1>9. ASSUME NEW i \in 1 .. Len(link'[r]), IsData(link'[r][i])
      PROVE  FrameInv(r, i)'
  <2>1. PairInv(r, 1, i + 1) /\ FrameInv(r, i + 1)
    BY <1>0, <1>8, <1>9 DEF DirectionInv, WireInv
  <2>2. PICK u \in SeqNumber, k \in Nat : link'[r][i].seq = u /\ link'[r][i].msg = k
    BY <1>8 DEF Frame
  <2>3. k \in 1 .. sent'[p] /\ n <= k
    BY <1>0, <1>1, <1>8, <2>1, <2>2 DEF PairInv, FrameInv
  <2>4. k = n => u = q /\ \A x \in 1 .. i + 1 : ~IsBorder(W[x])
    BY <1>1, <1>8, <2>1, <2>2 DEF PairInv
  <2>5. \A x \in 1 .. i : x + 1 \in 1 .. i + 1 /\ x \in 1 .. Len(link'[r])
    BY <1>8
  <2>6. k = n => \A x \in 1 .. i : ~IsBorder(link'[r][x])
    BY <1>8, <2>4, <2>5
  <2> QED BY <1>5, <1>6, <2>2, <2>3, <2>4, <2>6 DEF FrameInv
<1>10. ASSUME NEW i \in 1 .. Len(link'[r]), NEW j \in 1 .. Len(link'[r]),
              i < j, IsData(link'[r][i]), IsData(link'[r][j])
       PROVE  PairInv(r, i, j)'
  <2>1. PairInv(r, i + 1, j + 1)
    <3>1. i + 1 < j + 1 BY <1>8, <1>10
    <3> QED BY <1>8, <1>10, <3>1 DEF DirectionInv, WireInv
  <2>2. \A k \in i .. j : k + 1 \in i + 1 .. j + 1 /\ k \in 1 .. Len(link'[r])
    BY <1>8, <1>10
  <2> QED BY <1>8, <2>1, <2>2 DEF PairInv
<1>11. ASSUME NEW t \in Thread, Live(p, t)'
       PROVE  CopyInv(r, thr[p][t].frame)'
  <2>1. Live(p, t) /\ thr'[p][t].frame = thr[p][t].frame
    BY <1>11 DEF Kept, Live, Sending, Doomed
  <2>2. PICK f \in Frame : f = thr'[p][t].frame /\ CopyInv(r, f) /\ f.seq \in SeqNumber
    BY <1>0, <2>1, LiveFrame DEF DirectionInv, RepeatInv
  <2>3. n = f.msg => q = f.seq /\ \A k \in 1 .. Len(W) : ~IsBorder(W[k])
    BY <1>0, <1>1, <2>2 DEF CopyInv
  <2>4. n = f.msg => \A k \in 1 .. Len(link'[r]) : ~IsBorder(link'[r][k])
    BY <1>8, <2>3
  <2>5. ASSUME NEW i \in 1 .. Len(link'[r]), IsData(link'[r][i]), link'[r][i].msg = f.msg
        PROVE  /\ link'[r][i].seq = f.seq
               /\ \A k \in i .. Len(link'[r]) : ~IsBorder(link'[r][k])
    <3>1. W[i + 1].seq = f.seq /\ \A k \in i + 1 .. Len(W) : ~IsBorder(W[k])
      BY <1>8, <2>2, <2>5 DEF CopyInv
    <3>2. \A k \in i .. Len(link'[r]) : k \in 1 .. Len(link'[r]) /\ k + 1 \in i + 1 .. Len(W)
      BY <1>0, <1>8
    <3> QED BY <1>8, <3>1, <3>2
  <2>6. CopyInv(r, f)' BY <1>5, <1>6, <2>3, <2>4, <2>5 DEF CopyInv
  <2> QED BY <2>2, <2>6 DEF CopyInv
<1>12. WireInv(r)' BY <1>9, <1>10 DEF WireInv
<1>13. RepeatInv(r)' BY <1>11 DEF RepeatInv
<1> QED BY <1>7, <1>12, <1>13 DEF DirectionInv

LEMMA HandOver ==
  ASSUME TypeOK, TypeOK', NEW r \in Station, DirectionInv(r), CallInv(r),
         dc[r].extractionComplete, dc'[r] = PickedUp(dc[r]),
         delivered'[r] = Append(delivered[r], dc[r].extractionBuffer),
         link'[r] = link[r], thr'[r] = thr[r], Kept(Peer(r))
  PROVE  DirectionInv(r)'
<1> DEFINE p == Peer(r)
           D == delivered[r]
           n == dc[r].extractionBuffer
<1>0. /\ p \in Station /\ sent'[p] = sent[p] /\ Len(D) \in Nat /\ D \in Seq(Nat)
      /\ \A i \in 1 .. Len(D) : D[i] \in Nat
      /\ n \in Nat /\ n # NoMsg
  BY PeerType, FrameFacts DEF Kept, CallInv, DeadcomL2
<1>1. /\ dc'[r].extractionBuffer = NoMsg
      /\ dc'[r].recv_number = dc[r].recv_number /\ dc'[r].state = dc[r].state
  BY FrameFacts DEF PickedUp, DeadcomL2
<1>2. /\ Len(delivered'[r]) = Len(D) + 1
      /\ \A i \in 1 .. Len(D) : delivered'[r][i] = D[i]
      /\ delivered'[r][Len(D) + 1] = n
      /\ delivered'[r] # <<>>
  BY <1>0, AppendProperties
<1>3. Newest(r) = n /\ Newest(r)' = n
  BY <1>0, <1>1, <1>2 DEF Newest
<1>4. \A q : Settled(r, q)' <=> Settled(r, q)
  BY <1>1 DEF Settled, LinkUp, Connected
<1>5. PickupInv(r)'
  <2>1. \A i, j \in 1 .. Len(D) + 1 : i < j =>
          i \in 1 .. Len(D) /\ (j \in 1 .. Len(D) \/ j = Len(D) + 1)
    BY <1>0
  <2>2. \A i \in 1 .. Len(D) : D[i] < n BY <1>0 DEF DirectionInv, PickupInv
  <2>3. n >= 1 BY <1>0 DEF NoMsg
  <2> QED BY <1>0, <1>1, <1>2, <1>3, <2>1, <2>2, <2>3 DEF DirectionInv, PickupInv
<1>6. WireInv(r)'
  BY <1>0, <1>3, <1>4 DEF DirectionInv, WireInv, FrameInv, PairInv
<1>7. RepeatInv(r)'
  BY <1>0, <1>3, <1>4 DEF DirectionInv, RepeatInv, CopyInv, Live, Sending, Doomed, Kept
<1> QED BY <1>5, <1>6, <1>7 DEF DirectionInv
-----------------------------------------------------------------------------
(* A step of station s: one direction ends at s, the other starts there *)

LEMMA NothingDropped ==
  ASSUME TypeOK, NEW r \in Station, link'[r] = link[r]
  PROVE  Dropped(r, 0)
BY FrameFacts DEF Dropped

\* What station s receives, when it neither accepts nor hands over a message.
LEMMA TowardsStep ==
  ASSUME TypeOK, TypeOK', AtMostOnceInv, NEW s \in Station, Kept(Peer(s)),
         NEW m, Dropped(s, m), delivered'[s] = delivered[s],
         dc'[s].extractionBuffer \in {dc[s].extractionBuffer, NoMsg},
         Calmer(s) \/ BorderFirst(s)
  PROVE  DirectionInv(s)'
<1>1. Peer(s) \in Station BY PeerType
<1>2. NoNewCopy(Peer(s)) BY DEF Kept, NoNewCopy, Live, Sending, Doomed
<1>3. sent'[Peer(s)] = sent[Peer(s)] BY DEF Kept
<1>4. DirectionInv(s) /\ CallInv(Peer(s)) BY <1>1 DEF AtMostOnceInv, DirectionInv
<1> QED BY <1>2, <1>3, <1>4, Shrink

\* What the peer of s receives, when s sends nothing.
LEMMA SilentStep ==
  ASSUME TypeOK, TypeOK', AtMostOnceInv, NEW s \in Station, Kept(Peer(s)),
         link'[Peer(s)] = link[Peer(s)],
         sent'[s] \in {sent[s], sent[s] + 1}, NoNewCopy(s)
  PROVE  DirectionInv(Peer(s))'
<1> DEFINE q == Peer(s)
<1>1. q \in Station /\ Peer(q) = s BY PeerType
<1>2. Dropped(q, 0) BY <1>1, NothingDropped
<1>3. Calmer(q) BY DEF Calmer, Settled, Kept, LinkUp, Connected
<1>4. DirectionInv(q) /\ CallInv(s) BY <1>1 DEF AtMostOnceInv, DirectionInv
<1>5. dc'[q].extractionBuffer = dc[q].extractionBuffer /\ delivered'[q] = delivered[q]
  BY DEF Kept
<1> QED BY <1>1, <1>2, <1>3, <1>4, <1>5, Shrink

\* ... and when s sends a control frame, a border only if no thread of s will
\* repeat a message afterwards.
LEMMA ControlStep ==
  ASSUME TypeOK, TypeOK', AtMostOnceInv, NEW s \in Station, Kept(Peer(s)),
         NEW g \in Frame, Appended(Peer(s), g), ~IsData(g),
         sent'[s] = sent[s], NoNewCopy(s),
         IsBorder(g) => \A t \in Thread : ~Live(s, t)'
  PROVE  DirectionInv(Peer(s))'
<1> DEFINE q == Peer(s)
<1>1. q \in Station /\ Peer(q) = s BY PeerType
<1>2. DirectionInv(q) /\ CallInv(s) BY <1>1 DEF AtMostOnceInv, DirectionInv
<1>3. dc'[q] = dc[q] /\ thr'[q] = thr[q] /\ delivered'[q] = delivered[q] BY DEF Kept
<1>4. \A t \in Thread : Live(s, t)' =>
        ~IsBorder(g) /\ Live(s, t) /\ thr'[s][t].frame = thr[s][t].frame
  BY DEF NoNewCopy
<1> QED BY <1>1, <1>2, <1>3, <1>4, Grow

LEMMA Together ==
  ASSUME AtMostOnceInv, NEW s \in Station, Kept(Peer(s)),
         CallInv(s)', DirectionInv(s)', DirectionInv(Peer(s))'
  PROVE  AtMostOnceInv'
<1>1. \A x \in Station : x = s \/ x = Peer(s) BY DEF Station, Peer
<1>2. Peer(s) \in Station BY PeerType
<1>3. CallInv(Peer(s))
  BY <1>2 DEF AtMostOnceInv
<1>4. CallInv(Peer(s))'
  BY <1>3 DEF CallInv, Kept, Sending, Doomed
<1>5. PICK q \in Station : q = Peer(s) BY <1>2
<1>6. CallInv(q)' /\ DirectionInv(q)' BY <1>4, <1>5
<1> QED BY <1>1, <1>5, <1>6 DEF AtMostOnceInv, DirectionInv
-----------------------------------------------------------------------------
(* Steps of threads *)

\* Calls that end: the thread has left the library and nothing was sent.
LEMMA Ending ==
  ASSUME TypeOK, TypeOK', AtMostOnceInv, SingleThread,
         NEW s \in Station, NEW t \in Thread, NEW r, Return(s, t, r),
         link' = link, delivered' = delivered,
         NEW d \in DeadcomL2, dc' = [dc EXCEPT ![s] = d],
         \/ /\ d.extractionBuffer = dc[s].extractionBuffer
            /\ d.extractionComplete = dc[s].extractionComplete
         \/ d.extractionBuffer = NoMsg /\ ~d.extractionComplete,
         LinkUp(d) => \/ LinkUp(dc[s]) /\ d.recv_number = dc[s].recv_number
                      \/ Connected(s, t),
         NEW k \in {sent[s], sent[s] + 1}, sent' = [sent EXCEPT ![s] = k]
  PROVE  AtMostOnceInv'
<1> DEFINE q == Peer(s)
<1>0. q \in Station /\ q # s BY PeerType
<1>1. /\ dc'[s] = d /\ dc'[q] = dc[q] /\ sent'[s] = k /\ sent'[q] = sent[q]
      /\ thr'[q] = thr[q]
      /\ thr'[s][t] = [fn |-> "none", wait |-> "none", frame |-> NoFrame, ret |-> r]
  BY <1>0 DEF TypeOK, Return
<1>2. Kept(q) BY <1>1 DEF Kept
<1>3. \A u \in Thread : /\ thr'[s][u].fn = "none" /\ thr'[s][u].wait = "none"
                        /\ ~Sending(s, u)' /\ ~Connected(s, u)'
  BY <1>1 DEF SingleThread, Sending, Connected
<1>4. CallInv(s)
  BY DEF AtMostOnceInv
<1>5. CallInv(s)'
  BY <1>1, <1>3, <1>4 DEF CallInv
<1>6. Calmer(s)
  BY <1>1, <1>3 DEF Calmer, Settled
<1>7. DirectionInv(s)'
  BY <1>1, <1>2, <1>6, NothingDropped, TowardsStep
<1>8. NoNewCopy(s) BY <1>3 DEF NoNewCopy, Live
<1>9. DirectionInv(q)'
  BY <1>1, <1>2, <1>8, SilentStep
<1> QED BY <1>2, <1>5, <1>7, <1>9, Together

\* Calls that go on to wait, and what is left of a wait when it is over.
LEMMA Waiting ==
  ASSUME TypeOK, TypeOK', AtMostOnceInv, SingleThread,
         NEW s \in Station, NEW t \in Thread, NEW f \in Frame,
         NEW fn \in {"dcConnect", "dcSendMessage"},
         Block(s, t, fn, f), Appended(Peer(s), f), link'[s] = link[s],
         delivered' = delivered, NEW d \in DeadcomL2, dc' = [dc EXCEPT ![s] = d],
         d.extractionBuffer = dc[s].extractionBuffer,
         d.extractionComplete = dc[s].extractionComplete,
         IF fn = "dcConnect"
           THEN d.state = "DC_CONNECTING" /\ ~IsData(f)
           ELSE /\ d.state = "DC_TRANSMITTING" /\ IsData(f)
                /\ LinkUp(dc[s]) /\ d.recv_number = dc[s].recv_number
                /\ f.msg = sent'[s] /\ CopyInv(Peer(s), f),
         NEW k \in {sent[s], sent[s] + 1}, k >= 1 \/ fn = "dcConnect",
         fn = "dcConnect" => k = sent[s],
         sent' = [sent EXCEPT ![s] = k]
  PROVE  AtMostOnceInv'
<1> DEFINE q == Peer(s)
<1>0. /\ q \in Station /\ q # s /\ Peer(q) = s
      /\ sent[s] \in Nat /\ k \in Nat
  BY PeerType, FrameFacts
<1>1. /\ dc'[s] = d /\ dc'[q] = dc[q] /\ sent'[s] = k /\ sent'[q] = sent[q]
      /\ thr'[q] = thr[q]
      /\ thr'[s][t] = [fn |-> fn, wait |-> "blocked", frame |-> f, ret |-> "none"]
  BY <1>0 DEF TypeOK, Block
<1>2. Kept(q) BY <1>1 DEF Kept
<1>3. \A u \in Thread : u = t BY DEF SingleThread
<1>4. \A u \in Thread : ~Connected(s, u)' /\ ~Doomed(s, u)'
  BY <1>1, <1>3 DEF Connected, Doomed
<1>5. CallInv(s) /\ DirectionInv(q) BY <1>0 DEF AtMostOnceInv, DirectionInv
<1>6. CallInv(s)'
  BY <1>0, <1>1, <1>3, <1>4, <1>5 DEF CallInv, Sending
<1>7. Calmer(s)
  BY <1>1, <1>4 DEF Calmer, Settled, LinkUp
<1>8. DirectionInv(s)'
  BY <1>1, <1>2, <1>7, NothingDropped, TowardsStep
<1>9. DirectionInv(q)'
  <2>1. CASE fn = "dcConnect"
    <3>1. \A u \in Thread : ~Live(s, u)'
      BY <1>1, <1>3, <2>1 DEF Live, Sending
    <3>2. NoNewCopy(s) BY <3>1 DEF NoNewCopy
    <3> QED BY <1>1, <1>2, <2>1, <3>1, <3>2, ControlStep
  <2>2. CASE fn = "dcSendMessage"
    <3>1. \A u \in Thread : f = thr'[s][u].frame BY <1>1, <1>3
    <3>2. ~IsBorder(f) BY <2>2 DEF IsData, IsBorder
    <3>3. /\ dc'[q] = dc[q] /\ thr'[q] = thr[q] /\ delivered'[q] = delivered[q]
          /\ sent'[s] \in {sent[s], sent[s] + 1}
          /\ f.msg \in 1 .. sent'[s] /\ f.msg >= sent[s]
      BY <1>0, <1>1, <2>2
    <3> QED BY <1>0, <1>5, <2>2, <3>1, <3>2, <3>3, Grow
  <2> QED BY <2>1, <2>2
<1> QED BY <1>2, <1>6, <1>8, <1>9, Together

\* A wait that ends without a signal: the thread may still repeat its frame.
LEMMA WaitOver ==
  ASSUME TypeOK, TypeOK', AtMostOnceInv, SingleThread,
         NEW s \in Station, NEW t \in Thread, thr[s][t].wait = "blocked",
         NEW w \in {"expired", "failed"}, thr' = [thr EXCEPT ![s][t].wait = w],
         UNCHANGED <<dc, link, sent, delivered>>
  PROVE  AtMostOnceInv'
<1> DEFINE q == Peer(s)
<1>0. q \in Station /\ q # s BY PeerType
<1>1. /\ thr'[q] = thr[q]
      /\ thr'[s][t] = [thr[s][t] EXCEPT !.wait = w]
      /\ thr[s][t] \in Call
  BY <1>0 DEF TypeOK
<1>2. /\ thr'[s][t].wait = w /\ thr'[s][t].fn = thr[s][t].fn
      /\ thr'[s][t].frame = thr[s][t].frame /\ thr[s][t].fn # "none"
  BY <1>1 DEF Call
<1>3. \A u \in Thread : u = t BY DEF SingleThread
<1>4. Kept(q) BY <1>1 DEF Kept
<1>5. \A u \in Thread : /\ ~Connected(s, u)' /\ ~Doomed(s, u)' /\ ~Doomed(s, u)
                        /\ Sending(s, u)' <=> Sending(s, u)
                        /\ thr'[s][u].frame = thr[s][u].frame
  BY <1>2, <1>3 DEF Connected, Doomed, Sending
<1>6. CallInv(s)'
  <2>1. CallInv(s) BY DEF AtMostOnceInv
  <2> QED BY <1>2, <1>3, <1>5, <2>1 DEF CallInv
<1>7. Calmer(s) BY <1>5 DEF Calmer, Settled, LinkUp
<1>8. DirectionInv(s)'
  BY <1>4, <1>7, NothingDropped, TowardsStep
<1>9. NoNewCopy(s) BY <1>5 DEF NoNewCopy, Live
<1>10. DirectionInv(q)' BY <1>4, <1>9, SilentStep
<1> QED BY <1>4, <1>6, <1>8, <1>10, Together

LEMMA ThreadOnce ==
  ASSUME TypeOK, TypeOK', AtMostOnceInv, SingleThread,
         NEW s \in Station, NEW t \in Thread, ThreadStep(s, t)
  PROVE  AtMostOnceInv'
<1>0. /\ dc[s] \in DeadcomL2 /\ thr[s][t] \in Call /\ sent[s] \in Nat
      /\ dc \in [Station -> DeadcomL2] /\ sent \in [Station -> Nat]
      /\ CallInv(s)
  BY DEF TypeOK, AtMostOnceInv
<1>a. sent = [sent EXCEPT ![s] = sent[s]] /\ dc = [dc EXCEPT ![s] = dc[s]]
  BY <1>0
<1>b. \A st \in State : [dc[s] EXCEPT !.state = st] \in DeadcomL2
  BY <1>0 DEF DeadcomL2
\* The three ways in which a structure is left behind by a call that returns.
<1>c. ASSUME NEW r, Return(s, t, r), link' = link, delivered' = delivered, sent' = sent,
             NEW st \in State, dc' = [dc EXCEPT ![s].state = st],
             st \in {"DC_DISCONNECTED", "DC_CONNECTING"} \/ LinkUp(dc[s])
      PROVE  AtMostOnceInv'
  <2> DEFINE d == [dc[s] EXCEPT !.state = st]
  <2>1. /\ d \in DeadcomL2 /\ dc' = [dc EXCEPT ![s] = d]
        /\ d.extractionBuffer = dc[s].extractionBuffer
        /\ d.extractionComplete = dc[s].extractionComplete
        /\ d.recv_number = dc[s].recv_number /\ d.state = st
    BY <1>0, <1>b, <1>c DEF DeadcomL2
  <2>2. LinkUp(d) => LinkUp(dc[s]) BY <1>c, <2>1 DEF LinkUp
  <2> HIDE DEF d
  <2> QED BY <1>a, <1>c, <2>1, <2>2, Ending
<1>d. ASSUME NEW r, Return(s, t, r), link' = link, delivered' = delivered,
             NEW k \in {sent[s], sent[s] + 1}, sent' = [sent EXCEPT ![s] = k],
             NEW d \in DeadcomL2, dc' = [dc EXCEPT ![s] = RolledBack(d)], LinkUp(dc[s]),
             d.extractionBuffer = dc[s].extractionBuffer,
             d.extractionComplete = dc[s].extractionComplete,
             d.recv_number = dc[s].recv_number
      PROVE  AtMostOnceInv'
  <2>1. PICK e \in DeadcomL2 : e = RolledBack(d)
    <3>1. NoFrame \notin Frame /\ Control("CONN", 0) \in Frame
      BY FrameFormed, ZeroType DEF FrameType
    <3> QED BY <3>1, HandlerType
  <2>2. /\ e.extractionBuffer = dc[s].extractionBuffer
        /\ e.extractionComplete = dc[s].extractionComplete
        /\ e.recv_number = dc[s].recv_number
    BY <1>d, <2>1 DEF RolledBack, DeadcomL2
  <2> QED BY <1>d, <2>1, <2>2, Ending
<1>e. ASSUME NEW r, Return(s, t, r), link' = link, delivered' = delivered, sent' = sent,
             NEW st \in State, dc' = [dc EXCEPT ![s] = [resetLink(@) EXCEPT !.state = st]],
             st \in {"DC_DISCONNECTED", "DC_CONNECTING"} \/ Connected(s, t)
      PROVE  AtMostOnceInv'
  <2>1. PICK d \in DeadcomL2 : d = [resetLink(dc[s]) EXCEPT !.state = st]
    <3>1. NoFrame \notin Frame /\ Control("CONN", 0) \in Frame
      BY FrameFormed, ZeroType DEF FrameType
    <3>2. resetLink(dc[s]) \in DeadcomL2 BY <1>0, <3>1, HandlerType
    <3> QED BY <3>2 DEF DeadcomL2
  <2>2. /\ d.extractionBuffer = NoMsg /\ ~d.extractionComplete
        /\ LinkUp(d) => Connected(s, t)
    BY <1>0, <1>e, <2>1 DEF resetLink, DeadcomL2, LinkUp
  <2>3. dc' = [dc EXCEPT ![s] = d] BY <1>0, <1>e, <2>1
  <2> QED BY <1>a, <1>e, <2>2, <2>3, Ending
<1>1. CASE ConnectRefused(s, t)
  <2>1. PICK r : Return(s, t, r) BY <1>1 DEF ConnectRefused
  <2>2. link' = link /\ delivered' = delivered /\ sent' = sent /\ dc' = dc
    BY <1>1 DEF ConnectRefused, history
  <2>3. LinkUp(dc[s]) => LinkUp(dc[s]) /\ dc[s].recv_number = dc[s].recv_number
    OBVIOUS
  <2> QED BY <1>0, <1>a, <2>1, <2>2, Ending
<1>2. CASE ConnectStart(s, t)
  <2>1. PICK ok \in BOOLEAN :
          /\ Transmit(s, Control("CONN", 0), ok)
          /\ dc' = [dc EXCEPT ![s].state = IF ok THEN "DC_CONNECTING" ELSE "DC_DISCONNECTED"]
          /\ IF ok THEN Block(s, t, "dcConnect", Control("CONN", 0))
                   ELSE Return(s, t, "DC_FAILURE")
    BY <1>2 DEF ConnectStart
  <2>2. delivered' = delivered /\ sent' = sent BY <1>2 DEF ConnectStart, history
  <2>3. CASE ~ok
    BY <1>c, <2>1, <2>2, <2>3 DEF Transmit, State
  <2>4. CASE ok
    <3>1. PICK f \in Frame : f = Control("CONN", 0)
      BY FrameFormed, ZeroType DEF FrameType
    <3>2. ~IsData(f) BY <3>1 DEF IsData, Control
    <3>3. Appended(Peer(s), f) /\ link'[s] = link[s]
      BY <2>1, <2>4, <3>1, PeerType DEF Transmit, Appended, TypeOK
    <3>4. PICK d \in DeadcomL2 : d = [dc[s] EXCEPT !.state = "DC_CONNECTING"]
      BY <1>b DEF State
    <3>5. /\ d.extractionBuffer = dc[s].extractionBuffer
          /\ d.extractionComplete = dc[s].extractionComplete
          /\ d.state = "DC_CONNECTING"
      BY <1>0, <3>4 DEF DeadcomL2
    <3>6. dc' = [dc EXCEPT ![s] = d] BY <2>1, <2>4, <3>4
    <3>7. Block(s, t, "dcConnect", f) BY <2>1, <2>4, <3>1
    <3> QED BY <1>a, <2>2, <3>2, <3>3, <3>5, <3>6, <3>7, Waiting
  <2> QED BY <2>3, <2>4
<1>3. CASE ConnectResume(s, t)
  <2>1. link' = link /\ delivered' = delivered /\ sent' = sent
    BY <1>3 DEF ConnectResume, history
  <2>2. CASE thr[s][t].wait = "signaled"
    <3>1. Connected(s, t) BY <1>3, <2>2 DEF ConnectResume, Connected
    <3> QED BY <1>3, <1>e, <2>1, <2>2, <3>1 DEF ConnectResume, State
  <2>3. CASE thr[s][t].wait # "signaled"
    BY <1>3, <1>c, <2>1, <2>3 DEF ConnectResume, State
  <2> QED BY <2>2, <2>3
<1>4. CASE Disconnect(s, t)
  <2>1. link' = link /\ delivered' = delivered /\ sent' = sent
    BY <1>4 DEF Disconnect, history
  <2>2. CASE UNCHANGED dc
    <3>1. PICK r : Return(s, t, r) BY <1>4 DEF Disconnect
    <3>2. LinkUp(dc[s]) => LinkUp(dc[s]) /\ dc[s].recv_number = dc[s].recv_number
      OBVIOUS
    <3> QED BY <1>0, <1>a, <2>1, <2>2, <3>1, Ending
  <2>3. CASE dc' = [dc EXCEPT ![s].state = "DC_DISCONNECTED"]
    BY <1>4, <1>c, <2>1, <2>3 DEF Disconnect, State
  <2> QED BY <1>4, <2>2, <2>3 DEF Disconnect
<1>5. CASE SendRefused(s, t)
  <2>1. PICK r : Return(s, t, r) BY <1>5 DEF SendRefused
  <2>2. link' = link /\ delivered' = delivered /\ sent' = sent /\ dc' = dc
    BY <1>5 DEF SendRefused, history
  <2> QED BY <1>0, <1>a, <2>1, <2>2, Ending
<1>6. CASE SendStart(s, t)
  <2> DEFINE e == [dc[s] EXCEPT !.send_number = Succ(@), !.failure_count = 0,
                                !.state = "DC_TRANSMITTING"]
  <2>1. PICK d \in DeadcomL2, f \in Frame :
          d = e /\ f = Data(dc[s].send_number, sent[s] + 1)
    <3>1. 0 \in 0 .. MaxFailures - 1 BY ParameterAssumption
    <3>2. e \in DeadcomL2 BY <1>0, <3>1, SuccPredType DEF DeadcomL2, State
    <3>3. dc[s].send_number \in SeqNumber /\ sent[s] + 1 \in Nat BY <1>0 DEF DeadcomL2
    <3>4. Data(dc[s].send_number, sent[s] + 1) \in Frame BY <3>3, FrameFormed
    <3> QED BY <3>2, <3>4
  <2>2. /\ d.extractionBuffer = dc[s].extractionBuffer
        /\ d.extractionComplete = dc[s].extractionComplete
        /\ d.recv_number = dc[s].recv_number /\ d.state = "DC_TRANSMITTING"
        /\ IsData(f) /\ f.msg = sent[s] + 1
    BY <1>0, <2>1 DEF DeadcomL2, IsData, Data
  <2>3. PICK ok \in BOOLEAN :
          /\ Transmit(s, f, ok)
          /\ dc' = [dc EXCEPT ![s] = IF ok THEN d ELSE RolledBack(d)]
          /\ IF ok THEN Block(s, t, "dcSendMessage", f) ELSE Return(s, t, "DC_FAILURE")
    BY <1>6, <2>1 DEF SendStart
  <2>4. /\ delivered' = delivered /\ LinkUp(dc[s])
        /\ sent' = [sent EXCEPT ![s] = sent[s] + 1] /\ sent'[s] = sent[s] + 1
    BY <1>0, <1>6 DEF SendStart, MaySend, LinkUp
  <2>5. CASE ~ok
    <3>1. link' = link BY <2>3, <2>5 DEF Transmit
    <3> QED BY <1>d, <2>2, <2>3, <2>4, <2>5, <3>1
  <2>6. CASE ok
    <3>1. Appended(Peer(s), f) /\ link'[s] = link[s]
      BY <2>3, <2>6, PeerType DEF Transmit, Appended, TypeOK
    <3>2. CopyInv(Peer(s), f)
      <4>1. PICK q \in Station : q = Peer(s) /\ Peer(q) = s BY PeerType
      <4>2. PickupInv(q) /\ WireInv(q) BY DEF AtMostOnceInv
      <4>3. Newest(q) # f.msg
        BY <1>0, <2>2, <4>1, <4>2, NewestType DEF PickupInv
      <4>4. \A i \in 1 .. Len(link[q]) : IsData(link[q][i]) => link[q][i].msg # f.msg
        BY <1>0, <2>2, <4>1, <4>2 DEF WireInv, FrameInv
      <4> QED BY <4>1, <4>3, <4>4 DEF CopyInv
    <3>3. sent[s] + 1 >= 1 BY <1>0
    <3> QED BY <2>2, <2>3, <2>4, <2>6, <3>1, <3>2, <3>3, Waiting
  <2> QED BY <2>5, <2>6
<1>7. CASE SendConfirmed(s, t)
  <2>1. link' = link /\ delivered' = delivered /\ sent' = sent
    BY <1>7 DEF SendConfirmed
  <2>2. LinkUp(dc[s])
    BY <1>0, <1>7 DEF SendConfirmed, InSend, CallInv, Sending, LinkUp
  <2> QED BY <1>7, <1>c, <2>1, <2>2 DEF SendConfirmed, State
<1>8. CASE SendAgain(s, t)
  <2>1. Live(s, t)
    BY <1>8 DEF SendAgain, Unanswered, InSend, Live, Sending, Doomed
  <2>2. PICK f \in Frame : /\ f = thr[s][t].frame /\ IsData(f)
                           /\ f.msg = sent[s] /\ sent[s] >= 1
    BY <1>0, <2>1, LiveFrame
  <2>3. PICK d \in DeadcomL2 : d = [dc[s] EXCEPT !.failure_count = @ + 1]
    <3>1. dc[s].failure_count \in 0 .. MaxFailures - 1
      BY <1>0 DEF DeadcomL2
    <3>2. dc[s].failure_count + 1 \in 0 .. MaxFailures - 1
      BY <1>8, <3>1, ParameterAssumption DEF SendAgain, LastAttempt
    <3>3. \A c \in 0 .. MaxFailures - 1 : [dc[s] EXCEPT !.failure_count = c] \in DeadcomL2
      BY <1>0 DEF DeadcomL2
    <3> QED BY <3>2, <3>3
  <2>4. /\ d.extractionBuffer = dc[s].extractionBuffer
        /\ d.extractionComplete = dc[s].extractionComplete
        /\ d.recv_number = dc[s].recv_number /\ d.state = "DC_TRANSMITTING"
        /\ LinkUp(dc[s])
    BY <1>0, <2>1, <2>3 DEF DeadcomL2, CallInv, Live, LinkUp
  <2>5. PICK ok \in BOOLEAN :
          /\ Transmit(s, f, ok)
          /\ dc' = [dc EXCEPT ![s] = IF ok THEN d ELSE RolledBack(d)]
          /\ IF ok THEN Block(s, t, "dcSendMessage", f) ELSE Return(s, t, "DC_FAILURE")
    BY <1>8, <2>2, <2>3 DEF SendAgain
  <2>6. delivered' = delivered /\ sent' = sent /\ sent'[s] = sent[s]
    BY <1>8 DEF SendAgain, history
  <2>7. CASE ~ok
    <3>1. link' = link BY <2>5, <2>7 DEF Transmit
    <3> QED BY <1>a, <1>d, <2>4, <2>5, <2>6, <2>7, <3>1
  <2>8. CASE ok
    <3>1. Appended(Peer(s), f) /\ link'[s] = link[s]
      BY <2>5, <2>8, PeerType DEF Transmit, Appended, TypeOK
    <3>2. CopyInv(Peer(s), f)
      BY <2>1, <2>2, PeerType DEF AtMostOnceInv, RepeatInv
    <3> QED BY <1>a, <2>2, <2>4, <2>5, <2>6, <2>8, <3>1, <3>2, Waiting
  <2> QED BY <2>7, <2>8
<1>9. CASE SendLinkReset(s, t)
  <2>1. link' = link /\ delivered' = delivered /\ sent' = sent
    BY <1>9 DEF SendLinkReset, history
  <2>2. resetLink(dc[s]) = [resetLink(dc[s]) EXCEPT !.state = "DC_DISCONNECTED"]
    BY <1>0 DEF resetLink, DeadcomL2
  <2>3. dc' = [dc EXCEPT ![s] = [resetLink(@) EXCEPT !.state = "DC_DISCONNECTED"]]
    BY <1>9, <2>2 DEF SendLinkReset
  <2> QED BY <1>9, <1>e, <2>1, <2>3 DEF SendLinkReset, State
<1>10. CASE SendWaitFailed(s, t)
  <2>1. link' = link /\ delivered' = delivered /\ sent' = sent
    BY <1>10 DEF SendWaitFailed, history
  <2>2. LinkUp(dc[s])
    BY <1>0, <1>10 DEF SendWaitFailed, InSend, CallInv, Sending, LinkUp
  <2>3. dc' = [dc EXCEPT ![s] = RolledBack(dc[s])] BY <1>10 DEF SendWaitFailed
  <2> QED BY <1>0, <1>10, <1>a, <1>d, <2>1, <2>2, <2>3 DEF SendWaitFailed
<1>11. CASE Expire(s, t)
  <2>1. PICK w \in {"expired", "failed"} : thr' = [thr EXCEPT ![s][t].wait = w]
    BY <1>11 DEF Expire
  <2> QED BY <1>11, <2>1, WaitOver DEF Expire, history
<1>12. CASE WaitFails(s, t)
  <2>1. PICK w \in {"expired", "failed"} : thr' = [thr EXCEPT ![s][t].wait = w]
    BY <1>12 DEF WaitFails
  <2> QED BY <1>12, <2>1, WaitOver DEF WaitFails, history
<1> QED
  BY <1>1, <1>2, <1>3, <1>4, <1>5, <1>6, <1>7, <1>8, <1>9, <1>10, <1>11, <1>12
  DEF ThreadStep, SendResume
-----------------------------------------------------------------------------
(* Steps of the receive thread and of the wire *)

\* What dcProcessData does to the two directions of the link.
LEMMA Taken ==
  ASSUME TypeOK, NEW s \in Station, link[s] # <<>>, NEW m, NEW ok \in BOOLEAN,
         NEW reply, reply \in Frame \cup {NoFrame}, Process(s, m, ok, reply)
  PROVE  /\ \E k : Dropped(s, k)
         /\ IF reply = NoFrame THEN link'[Peer(s)] = link[Peer(s)]
                               ELSE Appended(Peer(s), reply)
<1>1. Len(link[s]) \in Nat \ {0} /\ link[s] \in Seq(Frame)
  BY EmptySeq, FrameFacts DEF TypeOK
<1>2. PICK n \in (IF ok THEN {2} ELSE 2 .. Len(link[s]) + 1) :
        link' = [link EXCEPT ![s] = SubSeq(@, n, Len(@)),
                             ![Peer(s)] = IF reply = NoFrame THEN @ ELSE Append(@, reply)]
  BY DEF Process
<1>3. n \in 1 .. Len(link[s]) + 1 BY <1>1
<1>4. /\ link'[s] = SubSeq(link[s], n, Len(link[s]))
      /\ link'[Peer(s)] = IF reply = NoFrame THEN link[Peer(s)]
                                             ELSE Append(link[Peer(s)], reply)
  BY <1>2, PeerType DEF TypeOK
<1>5. Dropped(s, n - 1)
  <2>1. /\ Len(link'[s]) = Len(link[s]) - n + 1
        /\ \A i \in 1 .. Len(link[s]) - n + 1 : link'[s][i] = link[s][i + n - 1]
    BY <1>1, <1>3, <1>4, DropType
  <2> QED BY <1>1, <1>3, <2>1 DEF Dropped
<1> QED BY <1>4, <1>5 DEF Appended

LEMMA Skipped ==
  ASSUME TypeOK, NEW s \in Station, link[s] # <<>>,
         link' = [link EXCEPT ![s] = Tail(@)]
  PROVE  Dropped(s, 1) /\ link'[Peer(s)] = link[Peer(s)]
<1>1. link[s] \in Seq(Frame) /\ Len(link[s]) \in Nat \ {0}
  BY EmptySeq, FrameFacts DEF TypeOK
<1>2. link'[s] = Tail(link[s]) /\ link'[Peer(s)] = link[Peer(s)]
  BY PeerType DEF TypeOK
<1>3. /\ Len(link'[s]) = Len(link[s]) - 1
      /\ \A i \in 1 .. Len(link[s]) - 1 : link'[s][i] = link[s][i + 1]
  BY <1>1, <1>2, HeadTailProperties
<1> QED BY <1>1, <1>2, <1>3 DEF Dropped

LEMMA Woken ==
  ASSUME TypeOK, NEW s \in Station, SingleThread, NEW ok, Signal(s, ok)
  PROVE  /\ thr'[Peer(s)] = thr[Peer(s)]
         /\ \A t \in Thread :
              /\ thr'[s][t].fn = thr[s][t].fn /\ thr'[s][t].frame = thr[s][t].frame
              /\ thr'[s][t].wait =
                   IF ok /\ thr[s][t].wait = "blocked" THEN "signaled" ELSE thr[s][t].wait
<1>1. CASE ok /\ \E t \in Thread : thr[s][t].wait = "blocked"
  <2>1. PICK t \in Thread : /\ thr[s][t].wait = "blocked"
                            /\ thr' = [thr EXCEPT ![s][t].wait = "signaled"]
    BY <1>1 DEF Signal
  <2>2. thr[s][t] \in Call BY DEF TypeOK
  <2>3. /\ thr'[Peer(s)] = thr[Peer(s)]
        /\ thr'[s][t] = [thr[s][t] EXCEPT !.wait = "signaled"]
    BY <2>1, PeerType DEF TypeOK
  <2>4. /\ thr'[s][t].fn = thr[s][t].fn /\ thr'[s][t].frame = thr[s][t].frame
        /\ thr'[s][t].wait = "signaled"
    BY <2>2, <2>3 DEF Call
  <2> QED BY <1>1, <2>1, <2>3, <2>4 DEF SingleThread
<1>2. CASE ~(ok /\ \E t \in Thread : thr[s][t].wait = "blocked")
  BY <1>2 DEF Signal
<1> QED BY <1>1, <1>2

LEMMA Unmoved ==
  ASSUME NEW s \in Station, CallInv(s), dc'[s] = dc[s], thr'[s] = thr[s], sent'[s] = sent[s]
  PROVE  CallInv(s)' /\ NoNewCopy(s) /\ Calmer(s)
BY DEF CallInv, NoNewCopy, Calmer, Settled, LinkUp, Connected, Live, Sending, Doomed

\* A frame leaves the wire towards s without being accepted, and s may answer.
LEMMA Consume ==
  ASSUME TypeOK, TypeOK', AtMostOnceInv, NEW s \in Station,
         dc'[Peer(s)] = dc[Peer(s)], thr'[Peer(s)] = thr[Peer(s)],
         sent' = sent, delivered' = delivered, NEW k, Dropped(s, k),
         \/ link'[Peer(s)] = link[Peer(s)]
         \/ \E g \in Frame : /\ Appended(Peer(s), g) /\ ~IsData(g)
                             /\ IsBorder(g) => \A t \in Thread : ~Live(s, t)',
         dc'[s].extractionBuffer \in {dc[s].extractionBuffer, NoMsg},
         Calmer(s) \/ BorderFirst(s), NoNewCopy(s), CallInv(s)'
  PROVE  AtMostOnceInv'
<1>1. Kept(Peer(s)) BY DEF Kept
<1>2. DirectionInv(s)' BY <1>1, TowardsStep
<1>3. DirectionInv(Peer(s))' BY <1>1, SilentStep, ControlStep
<1> QED BY <1>1, <1>2, <1>3, Together
LEMMA StationOnce ==
  ASSUME TypeOK, TypeOK', AtMostOnceInv, SingleThread, PromptWakeup, SignalsSucceed,
         NEW s \in Station, StationStep(s)
  PROVE  AtMostOnceInv'
<1> DEFINE q == Peer(s)
           d == dc[s]
<1>0. /\ q \in Station /\ q # s /\ Peer(q) = s
      /\ d \in DeadcomL2 /\ dc \in [Station -> DeadcomL2]
      /\ CallInv(s) /\ CallInv(q)
  BY PeerType DEF TypeOK, AtMostOnceInv
<1>a. \A n \in SeqNumber : \A type \in {"ACK", "NACK", "CONN_ACK"} :
        Control(type, n) \in Frame \ {NoFrame} /\ ~IsData(Control(type, n))
  BY FrameFormed DEF FrameType, IsData, Control
<1>b. Pred(d.recv_number) \in SeqNumber
  BY <1>0, SuccPredType DEF DeadcomL2
<1>c. link[s] # <<>> => Head(link[s]) = link[s][1]
  BY DEF TypeOK
\* A step that leaves the structure and the calls of s alone.
<1>d. ASSUME NEW k, Dropped(s, k), UNCHANGED <<dc, thr, sent, delivered>>,
             \/ link'[q] = link[q]
             \/ \E g \in Frame : Appended(q, g) /\ ~IsData(g) /\ ~IsBorder(g)
      PROVE  AtMostOnceInv'
  BY <1>0, <1>d, Unmoved, Consume
<1>1. CASE GetSize(s)
  BY <1>0, <1>1, <1>d, NothingDropped DEF GetSize, history
<1>2. CASE GetMessage(s)
  <2>1. PICK g \in Frame : /\ g = Control("ACK", Pred(d.recv_number))
                           /\ ~IsData(g) /\ ~IsBorder(g)
    BY <1>a, <1>b DEF IsBorder, Control
  <2>2. PICK ok \in BOOLEAN :
          /\ Transmit(s, g, ok)
          /\ IF ok
               THEN /\ dc' = [dc EXCEPT ![s] = PickedUp(@)]
                    /\ delivered' = [delivered EXCEPT ![s] = Append(@, d.extractionBuffer)]
               ELSE UNCHANGED <<dc, delivered>>
    BY <1>2, <2>1 DEF GetMessage
  <2>3. thr' = thr /\ sent' = sent BY <1>2 DEF GetMessage
  <2>4. CASE ok
    <3>1. /\ Appended(q, g) /\ link'[s] = link[s]
          /\ dc'[s] = PickedUp(d) /\ dc'[q] = dc[q]
          /\ delivered'[s] = Append(delivered[s], d.extractionBuffer)
          /\ delivered'[q] = delivered[q]
      BY <1>0, <2>2, <2>4 DEF Transmit, Appended, TypeOK
    <3>2. Kept(q) BY <2>3, <3>1 DEF Kept
    <3>3. d.extractionComplete BY <1>2 DEF GetMessage, Pending
    <3>4. DirectionInv(s)'
      BY <1>0, <2>3, <3>1, <3>2, <3>3, HandOver DEF AtMostOnceInv, DirectionInv
    <3>5. /\ dc'[s].extractionBuffer = NoMsg /\ ~dc'[s].extractionComplete
          /\ dc'[s].state = d.state /\ dc'[s].last_response = d.last_response
      BY <1>0, <3>1 DEF PickedUp, DeadcomL2
    <3>6. CallInv(s)' /\ NoNewCopy(s)
      BY <1>0, <2>3, <3>5 DEF CallInv, NoNewCopy, Live, Sending, Doomed
    <3>7. DirectionInv(q)'
      BY <2>1, <2>3, <3>1, <3>2, <3>6, ControlStep
    <3> QED BY <3>2, <3>4, <3>6, <3>7, Together
  <2>5. CASE ~ok
    <3>1. link' = link BY <2>2, <2>5 DEF Transmit
    <3> QED BY <1>d, <2>2, <2>3, <2>5, <3>1, NothingDropped
  <2> QED BY <2>4, <2>5
<1>3. CASE ReceiveData(s)
  <2> DEFINE f == Head(link[s])
  <2>0. /\ f \in Frame /\ link[s] # <<>> /\ f = link[s][1] /\ IsData(f)
        /\ thr' = thr /\ sent' = sent /\ delivered' = delivered
    BY <1>3, <1>c, IncomingHead DEF ReceiveData, Incoming, IsData, history, TypeOK
  <2>1. CASE Ignore(s) /\ UNCHANGED dc
    BY <1>d, <2>0, <2>1, Skipped DEF Ignore
  <2>2. CASE /\ AcceptsData(d, f)
             /\ Ignore(s)
             /\ dc' = [dc EXCEPT ![s] = Stored(d, f)]
    <3>1. Dropped(s, 1) /\ link'[q] = link[q] BY <2>0, <2>2, Skipped DEF Ignore
    <3>2. dc'[s] = Stored(d, f) /\ dc'[q] = dc[q] BY <1>0, <2>2
    <3>3. Kept(q) BY <2>0, <3>2 DEF Kept
    <3>4. DirectionInv(s)'
      BY <1>0, <2>0, <2>2, <3>1, <3>2, <3>3, Accept DEF AtMostOnceInv, DirectionInv
    <3>5. /\ dc'[s].extractionBuffer = f.msg /\ dc'[s].extractionComplete
          /\ dc'[s].state = d.state /\ dc'[s].last_response = d.last_response
      BY <1>0, <3>2 DEF Stored, DeadcomL2
    <3>6. f.msg # NoMsg
      <4>1. FrameInv(s, 1)
        <5>1. 1 \in 1 .. Len(link[s]) BY <2>0, EmptySeq, FrameFacts DEF TypeOK
        <5> QED BY <2>0, <5>1 DEF AtMostOnceInv, WireInv
      <4> QED BY <1>0, <2>0, <4>1, FrameFacts DEF FrameInv, NoMsg
    <3>7. CallInv(s)' /\ NoNewCopy(s)
      BY <1>0, <2>0, <3>5, <3>6 DEF CallInv, NoNewCopy, Live, Sending, Doomed
    <3>8. DirectionInv(q)' BY <2>0, <3>1, <3>3, <3>7, SilentStep
    <3> QED BY <3>3, <3>4, <3>7, <3>8, Together
  <2>3. CASE /\ \E ok \in BOOLEAN :
                  Process(s, "transmitBytes", ok,
                          IF ok THEN Control("ACK", Pred(d.recv_number)) ELSE NoFrame)
             /\ UNCHANGED dc
    <3>1. PICK ok \in BOOLEAN :
            Process(s, "transmitBytes", ok,
                    IF ok THEN Control("ACK", Pred(d.recv_number)) ELSE NoFrame)
      BY <2>3
    <3>2. PICK g : /\ g = IF ok THEN Control("ACK", Pred(d.recv_number)) ELSE NoFrame
                   /\ g \in Frame \cup {NoFrame}
                   /\ g # NoFrame => ~IsData(g) /\ ~IsBorder(g)
      <4>1. CASE ~ok BY <4>1
      <4>2. CASE ok
        <5>1. ~IsBorder(Control("ACK", Pred(d.recv_number))) BY DEF IsBorder, Control
        <5> QED BY <1>a, <1>b, <4>2, <5>1
      <4> QED BY <4>1, <4>2
    <3>3. Process(s, "transmitBytes", ok, g) BY <3>1, <3>2
    <3>4. /\ \E k : Dropped(s, k)
          /\ IF g = NoFrame THEN link'[q] = link[q] ELSE Appended(q, g)
      BY <2>0, <3>2, <3>3, Taken
    <3> QED BY <1>d, <2>0, <2>3, <3>2, <3>4
  <2> QED BY <1>3, <2>1, <2>2, <2>3 DEF ReceiveData
\* An answer for a transmitting station: its thread is woken, and still transmits.
<1>e. ASSUME d.state = "DC_TRANSMITTING", dc'[q] = dc[q], link[s] # <<>>,
             dc'[s].state = d.state, dc'[s].recv_number = d.recv_number,
             dc'[s].extractionBuffer = d.extractionBuffer,
             dc'[s].extractionComplete = d.extractionComplete,
             dc'[s].last_response # "DC_RESP_NOLINK",
             NEW ok \in BOOLEAN, Signal(s, ok), Process(s, "condvarSignal", ok, NoFrame),
             sent' = sent, delivered' = delivered
      PROVE  AtMostOnceInv'
  <2>1. /\ thr'[q] = thr[q]
        /\ \A t \in Thread :
             /\ thr'[s][t].fn = thr[s][t].fn /\ thr'[s][t].frame = thr[s][t].frame
             /\ thr'[s][t].wait =
                  IF ok /\ thr[s][t].wait = "blocked" THEN "signaled" ELSE thr[s][t].wait
    BY <1>e, Woken
  <2>2. \A t \in Thread : /\ ~Doomed(s, t)' /\ thr'[s][t].fn # "dcConnect"
                          /\ Sending(s, t)' => Sending(s, t) /\ ~Doomed(s, t)
    BY <1>0, <1>e, <2>1 DEF Doomed, Sending, CallInv
  <2>3. CallInv(s)'
    BY <1>0, <1>e, <2>1, <2>2 DEF CallInv, Sending
  <2>4. NoNewCopy(s) BY <2>1, <2>2 DEF NoNewCopy, Live
  <2>5. Calmer(s) BY <1>e, <2>2 DEF Calmer, Settled, LinkUp, Connected
  <2>6. /\ \E k : Dropped(s, k)
        /\ link'[q] = link[q]
    BY <1>e, Taken
  <2> QED BY <1>e, <2>1, <2>3, <2>4, <2>5, <2>6, Consume
<1>4. CASE ReceiveAck(s)
  <2>0. link[s] # <<>> /\ sent' = sent /\ delivered' = delivered
    BY <1>4 DEF ReceiveAck, Incoming, history
  <2>1. CASE Ignore(s) /\ UNCHANGED <<dc, thr>>
    BY <1>d, <2>0, <2>1, Skipped DEF Ignore
  <2>2. CASE /\ d.state = "DC_TRANSMITTING"
             /\ dc' = [dc EXCEPT ![s].next_expected_ack = Succ(@),
                                 ![s].last_response = "DC_RESP_OK"]
             /\ \E ok \in BOOLEAN : Signal(s, ok) /\ Process(s, "condvarSignal", ok, NoFrame)
    <3>1. /\ dc'[q] = dc[q]
          /\ dc'[s] = [d EXCEPT !.next_expected_ack = Succ(@), !.last_response = "DC_RESP_OK"]
      BY <1>0, <2>2
    <3>2. /\ dc'[s].state = d.state /\ dc'[s].recv_number = d.recv_number
          /\ dc'[s].extractionBuffer = d.extractionBuffer
          /\ dc'[s].extractionComplete = d.extractionComplete
          /\ dc'[s].last_response # "DC_RESP_NOLINK"
      BY <1>0, <3>1 DEF DeadcomL2
    <3> QED BY <1>e, <2>0, <2>2, <3>1, <3>2
  <2> QED BY <1>4, <2>1, <2>2 DEF ReceiveAck
<1>5. CASE ReceiveNack(s)
  <2>0. link[s] # <<>> /\ sent' = sent /\ delivered' = delivered
    BY <1>5 DEF ReceiveNack, Incoming, history
  <2>1. CASE Ignore(s) /\ UNCHANGED <<dc, thr>>
    BY <1>d, <2>0, <2>1, Skipped DEF Ignore
  <2>2. CASE /\ d.state = "DC_TRANSMITTING"
             /\ dc' = [dc EXCEPT ![s].last_response = "DC_RESP_REJECT"]
             /\ \E ok \in BOOLEAN : Signal(s, ok) /\ Process(s, "condvarSignal", ok, NoFrame)
    <3>1. dc'[q] = dc[q] /\ dc'[s] = [d EXCEPT !.last_response = "DC_RESP_REJECT"]
      BY <1>0, <2>2
    <3>2. /\ dc'[s].state = d.state /\ dc'[s].recv_number = d.recv_number
          /\ dc'[s].extractionBuffer = d.extractionBuffer
          /\ dc'[s].extractionComplete = d.extractionComplete
          /\ dc'[s].last_response # "DC_RESP_NOLINK"
      BY <1>0, <3>1 DEF DeadcomL2
    <3> QED BY <1>e, <2>0, <2>2, <3>1, <3>2
  <2> QED BY <1>5, <2>1, <2>2 DEF ReceiveNack
<1>6. CASE ReceiveConn(s)
  <2>0. /\ link[s] # <<>> /\ sent' = sent /\ delivered' = delivered /\ BorderFirst(s)
        /\ \A t \in Thread : thr[s][t].wait \notin {"expired", "failed"}
    BY <1>6, <1>c DEF ReceiveConn, Incoming, history, BorderFirst, IsBorder, PromptWakeup
  <2>1. CASE Process(s, "transmitBytes", FALSE, NoFrame) /\ UNCHANGED <<dc, thr>>
    <3>1. (\E k : Dropped(s, k)) /\ link'[q] = link[q] BY <2>0, <2>1, Taken
    <3> QED BY <1>d, <2>0, <2>1, <3>1
  <2>2. ASSUME NEW ok \in BOOLEAN, Process(s, "condvarSignal", ok, Control("CONN_ACK", 0)),
               dc' = [dc EXCEPT ![s] = ConnAccepted(@)],
               IF d.state \in {"DC_TRANSMITTING", "DC_CONNECTING"}
                 THEN Signal(s, ok)
                 ELSE ok /\ UNCHANGED thr
        PROVE  AtMostOnceInv'
    <3>1. ok BY <2>2 DEF Process, Ext, SignalsSucceed
    <3>2. PICK g \in Frame : g = Control("CONN_ACK", 0) /\ g # NoFrame /\ ~IsData(g)
      BY <1>a, ZeroType
    <3>3. (\E k : Dropped(s, k)) /\ Appended(q, g)
      BY <2>0, <2>2, <3>2, Taken
    <3>4. dc'[s] = ConnAccepted(d) /\ dc'[q] = dc[q] BY <1>0, <2>2
    <3>5. /\ dc'[s].extractionBuffer = NoMsg /\ ~dc'[s].extractionComplete
          /\ dc'[s].state = IF d.state = "DC_CONNECTING" THEN "DC_CONNECTING"
                                                          ELSE "DC_CONNECTED"
          /\ d.state = "DC_TRANSMITTING" => dc'[s].last_response = "DC_RESP_NOLINK"
          /\ d.state = "DC_CONNECTED" => dc'[s].last_response = d.last_response
      BY <1>0, <3>4 DEF ConnAccepted, resetLink, DeadcomL2
    <3>6. /\ thr'[q] = thr[q]
          /\ \A t \in Thread :
               /\ thr'[s][t].fn = thr[s][t].fn /\ thr'[s][t].frame = thr[s][t].frame
               /\ \/ thr'[s][t].wait = thr[s][t].wait
                  \/ thr[s][t].wait = "blocked" /\ thr'[s][t].wait = "signaled"
               /\ d.state = "DC_TRANSMITTING" /\ thr[s][t].wait = "blocked"
                    => thr'[s][t].wait = "signaled"
      BY <2>2, <3>1, Woken
    \* A thread in dcSendMessage knows by now that the link is gone.
    <3>7. ASSUME NEW t \in Thread, Sending(s, t)'
          PROVE  Sending(s, t) /\ Doomed(s, t)' /\ dc'[s].state = "DC_CONNECTED"
      <4>1. Sending(s, t) BY <3>6, <3>7 DEF Sending
      <4>2. thr[s][t] \in Call BY DEF TypeOK
      <4>3. thr[s][t].wait \in {"blocked", "signaled"}
        BY <2>0, <4>1, <4>2 DEF Call, Sending
      <4>4. CASE Doomed(s, t)
        <5>1. d.state = "DC_CONNECTED" BY <1>0, <4>1, <4>4 DEF CallInv
        <5> QED BY <3>5, <3>6, <4>1, <4>4, <5>1 DEF Doomed
      <4>5. CASE ~Doomed(s, t)
        <5>1. d.state = "DC_TRANSMITTING" BY <1>0, <4>1, <4>5 DEF CallInv
        <5> QED BY <3>5, <3>6, <4>1, <4>3, <5>1 DEF Doomed
      <4> QED BY <4>4, <4>5
    <3>8. \A t \in Thread : ~Live(s, t)' BY <3>7 DEF Live
    <3>9. CallInv(s)'
      <4>1. dc'[s].extractionComplete <=> dc'[s].extractionBuffer # NoMsg BY <3>5
      <4>2. ASSUME NEW t \in Thread
            PROVE  thr'[s][t].fn = "none" <=> thr'[s][t].wait = "none"
        BY <1>0, <3>6 DEF CallInv
      <4>3. ASSUME NEW t \in Thread, thr'[s][t].fn = "dcConnect"
            PROVE  dc'[s].state = "DC_CONNECTING"
        BY <1>0, <3>5, <3>6, <4>3 DEF CallInv
      <4>4. ASSUME NEW t \in Thread, Sending(s, t)'
            PROVE  /\ IF Doomed(s, t)' THEN dc'[s].state = "DC_CONNECTED"
                                       ELSE dc'[s].state = "DC_TRANSMITTING"
                   /\ IsData(thr'[s][t].frame)
                   /\ thr'[s][t].frame.msg = sent'[s] /\ sent'[s] >= 1
        BY <1>0, <2>0, <3>6, <3>7, <4>4 DEF CallInv
      <4> QED BY <4>1, <4>2, <4>3, <4>4 DEF CallInv
    <3>10. NoNewCopy(s) BY <3>8 DEF NoNewCopy
    <3> QED BY <2>0, <3>2, <3>3, <3>4, <3>5, <3>6, <3>8, <3>9, <3>10, Consume
  <2>3. CASE \E ok \in BOOLEAN :
               /\ Process(s, "condvarSignal", ok, Control("CONN_ACK", 0))
               /\ dc' = [dc EXCEPT ![s] = ConnAccepted(@)]
               /\ IF d.state \in {"DC_TRANSMITTING", "DC_CONNECTING"}
                    THEN Signal(s, ok)
                    ELSE ok /\ UNCHANGED thr
    BY <2>2, <2>3
  <2> QED BY <1>6, <2>1, <2>3 DEF ReceiveConn
<1>7. CASE ReceiveConnAck(s)
  <2>0. link[s] # <<>> /\ sent' = sent /\ delivered' = delivered /\ BorderFirst(s)
    BY <1>7, <1>c DEF ReceiveConnAck, Incoming, history, BorderFirst, IsBorder
  <2>1. CASE Ignore(s) /\ UNCHANGED <<dc, thr>>
    BY <1>d, <2>0, <2>1, Skipped DEF Ignore
  <2>2. CASE /\ d.state = "DC_CONNECTING"
             /\ dc' = [dc EXCEPT ![s].last_response = "DC_RESP_OK"]
             /\ \E ok \in BOOLEAN : Signal(s, ok) /\ Process(s, "condvarSignal", ok, NoFrame)
    <3>1. dc'[q] = dc[q] /\ dc'[s] = [d EXCEPT !.last_response = "DC_RESP_OK"]
      BY <1>0, <2>2
    <3>2. /\ dc'[s].state = d.state
          /\ dc'[s].extractionBuffer = d.extractionBuffer
          /\ dc'[s].extractionComplete = d.extractionComplete
      BY <1>0, <3>1 DEF DeadcomL2
    <3>3. PICK ok \in BOOLEAN : Signal(s, ok) /\ Process(s, "condvarSignal", ok, NoFrame)
      BY <2>2
    <3>4. /\ thr'[q] = thr[q]
          /\ \A t \in Thread :
               /\ thr'[s][t].fn = thr[s][t].fn /\ thr'[s][t].frame = thr[s][t].frame
               /\ thr'[s][t].wait =
                    IF ok /\ thr[s][t].wait = "blocked" THEN "signaled" ELSE thr[s][t].wait
      BY <3>3, Woken
    <3>5. \A t \in Thread : ~Sending(s, t)' BY <1>0, <2>2, <3>4 DEF CallInv, Sending
    <3>6. CallInv(s)' BY <1>0, <3>2, <3>4, <3>5 DEF CallInv
    <3>7. NoNewCopy(s) BY <3>5 DEF NoNewCopy, Live
    <3>8. (\E k : Dropped(s, k)) /\ link'[q] = link[q] BY <2>0, <3>3, Taken
    <3> QED BY <2>0, <3>1, <3>2, <3>4, <3>6, <3>7, <3>8, Consume
  <2> QED BY <1>7, <2>1, <2>2 DEF ReceiveConnAck
<1>8. CASE LoseFrame(s)
  <2>1. Dropped(s, 1) /\ link'[q] = link[q] BY <1>8, Skipped DEF LoseFrame
  <2> QED BY <1>8, <1>d, <2>1 DEF LoseFrame, history
<1>9. CASE ForeignNack(s)
  <2>1. PICK g \in Frame : g = Control("NACK", 0) /\ ~IsData(g) /\ ~IsBorder(g)
    BY <1>a, ZeroType DEF IsBorder, Control
  <2>2. /\ Appended(s, g) /\ link'[q] = link[q]
        /\ UNCHANGED <<dc, thr, sent, delivered>>
    BY <1>0, <1>9, <2>1 DEF ForeignNack, Appended, TypeOK, history
  <2>3. Dropped(q, 0) BY <1>0, <2>2, NothingDropped
  <2>4. CallInv(q)' /\ NoNewCopy(q) /\ Calmer(q) BY <1>0, <2>2, Unmoved
  <2>5. /\ dc'[s] = dc[s] /\ thr'[s] = thr[s]
        /\ dc'[q].extractionBuffer = dc[q].extractionBuffer
    BY <2>2
  <2> QED BY <1>0, <2>1, <2>2, <2>3, <2>4, <2>5, Consume
<1> QED
  BY <1>1, <1>2, <1>3, <1>4, <1>5, <1>6, <1>7, <1>8, <1>9 DEF StationStep, Receive
-----------------------------------------------------------------------------
(* The theorem *)

LEMMA OnceInit == Init => AtMostOnceInv
<1> SUFFICES ASSUME Init PROVE AtMostOnceInv
  OBVIOUS
<1>1. \A s \in Station : /\ Peer(s) \in Station
                         /\ dc[s].extractionBuffer = NoMsg /\ ~dc[s].extractionComplete
                         /\ link[s] = <<>> /\ delivered[s] = <<>> /\ sent[s] = 0
                         /\ \A t \in Thread : thr[s][t].fn = "none" /\ thr[s][t].wait = "none"
  BY PeerType DEF Init
<1>2. \A s \in Station : CallInv(s) BY <1>1 DEF CallInv, Sending
<1>3. \A s \in Station : PickupInv(s) /\ WireInv(s)
  BY <1>1 DEF PickupInv, WireInv, Newest, NoMsg
<1>4. \A s \in Station : RepeatInv(s)
  BY <1>1 DEF RepeatInv, Live, Sending
<1> QED BY <1>2, <1>3, <1>4 DEF AtMostOnceInv

LEMMA OnceNext ==
  ASSUME SingleThread, PromptWakeup, SignalsSucceed
  PROVE  TypeOK /\ AtMostOnceInv /\ [Next]_vars => AtMostOnceInv'
<1> SUFFICES ASSUME TypeOK, AtMostOnceInv, [Next]_vars
             PROVE  AtMostOnceInv'
  OBVIOUS
<1>1. TypeOK' BY TypeNext
<1>2. CASE UNCHANGED vars
  BY <1>2 DEF AtMostOnceInv, CallInv, PickupInv, WireInv, RepeatInv, FrameInv, PairInv,
     CopyInv, Settled, Newest, Connected, Live, Doomed, Sending, LinkUp, vars, history
<1>3. CASE Next
  <2>1. PICK s \in Station : StationStep(s) \/ \E t \in Thread : ThreadStep(s, t)
    BY <1>3 DEF Next
  <2> QED BY <1>1, <2>1, StationOnce, ThreadOnce
<1> QED BY <1>2, <1>3

\* No message is picked up twice and none out of order, however long frames are
\* delayed and whichever are lost, as long as a station makes one call at a time
\* (py-api.rst: "the main and the receive thread"), an expired waiter goes on
\* before the next frame is processed, and condvarSignal does not fail.
THEOREM AtMostOnceCorrect ==
  ASSUME SingleThread, PromptWakeup, SignalsSucceed
  PROVE  Spec => []AtMostOnce
<1>1. AtMostOnceInv => AtMostOnce
  BY DEF AtMostOnceInv, PickupInv, AtMostOnce
<1>2. Init => TypeOK /\ AtMostOnceInv BY TypeInit, OnceInit
<1>3. TypeOK /\ AtMostOnceInv /\ [Next]_vars => TypeOK' /\ AtMostOnceInv'
  BY TypeNext, OnceNext
<1> QED BY <1>1, <1>2, <1>3, PTL DEF Spec
=============================================================================
