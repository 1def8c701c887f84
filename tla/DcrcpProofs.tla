---------------------------- MODULE DcrcpProofs ----------------------------
(* Theorems about the codec of the reader-controller protocol. *)
EXTENDS Dcrcp, FiniteSetTheorems, TLAPS

\* The numbers of the message types decide every CASE.
USE DEF HEARTBEAT, SYS_QUERY_REQUEST, SYS_QUERY_RESPONSE, ACTIVATE_AUTH_METHOD,
        RDR_FAILURE, UI_UPDATE, AM0_PICC_UID_OBTAINED

\* A nonempty set of message types has a first one: the one the decoder takes.
LEMMA IdKnown ==
  ASSUME NEW doc, Known(doc) # {}
  PROVE  Id(doc) \in Known(doc)
<1> DEFINE S == Known(doc)
<1>1. \E id \in S : \A other \in S : id <= other
  <2>1. S \subseteq 0 .. 6
    BY DEF Known, DeadcomCRPMType
  <2>2. CASE 0 \in S
    BY <2>1, <2>2
  <2>3. CASE 0 \notin S /\ 1 \in S
    BY <2>1, <2>3
  <2>4. CASE 0 \notin S /\ 1 \notin S /\ 2 \in S
    BY <2>1, <2>4
  <2>5. CASE S \subseteq 3 .. 6
    <3>1. CASE 3 \in S
      BY <2>5, <3>1
    <3>2. CASE 3 \notin S /\ 4 \in S
      BY <2>5, <3>2
    <3>3. CASE 3 \notin S /\ 4 \notin S /\ 5 \in S
      BY <2>5, <3>3
    <3>4. CASE S \subseteq {6}
      BY <2>5, <3>4
    <3> QED BY <2>5, <3>1, <3>2, <3>3, <3>4
  <2> QED BY <2>1, <2>2, <2>3, <2>4, <2>5
<1> QED BY <1>1 DEF Id

\* The document of a message has the message's type as its only key.
LEMMA DocumentKnown ==
  ASSUME NEW m, m.type \in DeadcomCRPMType
  PROVE  /\ Known(Document(m)) = {m.type}
         /\ Id(Document(m)) = m.type
         /\ Document(m) # NoDocument
<1>1. DOMAIN Document(m) = {m.type}
  BY DEF Document
<1>2. Known(Document(m)) = {m.type}
  BY <1>1 DEF Known
<1> QED BY <1>1, <1>2, IdKnown DEF NoDocument

-----------------------------------------------------------------------------
(* Each kind of message passes the checks of the decoder and comes back unchanged. *)

Back(m) == Accepted(m.type, Document(m)[m.type]) /\ Decoded(m.type, Document(m)[m.type]) = m

LEMMA ListBack ==
  ASSUME NEW T, NEW s \in Seq(T)
  PROVE  [i \in 1 .. Len(s) |-> s[i]] = s
OBVIOUS

LEMMA BareBack ==
  ASSUME NEW m \in {Bare(HEARTBEAT), Bare(SYS_QUERY_REQUEST)}
  PROVE  m.type \in DeadcomCRPMType /\ Back(m)
<1>1. \A id : Bare(id).type = id
  BY DEF Bare, Zeroed
<1>2. m.type \in {0, 1} /\ m = Bare(m.type)
  BY <1>1
<1>3. ASSUME NEW id \in {0, 1}, NEW x
      PROVE  Accepted(id, x) /\ Decoded(id, x) = Bare(id)
  <2>1. CASE id = 0
    BY <2>1 DEF Accepted, Decoded
  <2>2. CASE id = 1
    BY <2>2 DEF Accepted, Decoded
  <2> QED BY <2>1, <2>2
<1> QED BY <1>2, <1>3 DEF Back, DeadcomCRPMType

LEMMA ActivateAuthMethodBack ==
  ASSUME NEW m \in DeadcomCRPM, m = ActivateAuthMethod(m.authMethods),
         Len(m.authMethods) \in ListLength,
         \A i \in 1 .. Len(m.authMethods) : m.authMethods[i] \in Nat
  PROVE  m.type \in DeadcomCRPMType /\ Back(m)
<1> DEFINE s == m.authMethods
           x == Document(m)[m.type]
           c == [i \in 1 .. Len(s) |-> Uint(s[i])]
<1>1. s \in Seq(Nat \cup {Arbitrary}) /\ Len(s) \in Nat
  BY DEF DeadcomCRPM
<1>2. m.type = 3
  <2>1. ActivateAuthMethod(s).type = ACTIVATE_AUTH_METHOD
    BY DEF ActivateAuthMethod, Zeroed
  <2> QED BY <2>1
<1>3. x = Array(c)
  BY <1>2 DEF Document
<1>4. x.type = "ARRAY" /\ x.children = c
  BY <1>3 DEF Array, Null
<1>5. Len(c) = Len(s)
  BY <1>1
<1>6. \A i \in 1 .. Len(s) : AuthMethod(c[i]) = s[i]
  BY DEF AuthMethod, Uint, Null
<1>7. [i \in 1 .. Len(c) |-> AuthMethod(c[i])] = s
  <2>1. [i \in 1 .. Len(c) |-> AuthMethod(c[i])] = [i \in 1 .. Len(s) |-> s[i]]
    BY <1>5, <1>6
  <2> QED BY <1>1, <2>1, ListBack
<1> HIDE DEF x, c
<1>8. Accepted(3, x)
  BY <1>4, <1>5 DEF Accepted, IsArray, AcceptedLength
<1>9. Decoded(3, x) = ActivateAuthMethod(s)
  BY <1>4, <1>7 DEF Decoded
<1> QED BY <1>2, <1>8, <1>9 DEF Back, x, DeadcomCRPMType

LEMMA PiccUidObtainedBack ==
  ASSUME NEW m \in DeadcomCRPM, m = PiccUidObtained(m.authMethod0UuidObtained),
         Len(m.authMethod0UuidObtained) \in ListLength,
         \A i \in 1 .. Len(m.authMethod0UuidObtained) :
           m.authMethod0UuidObtained[i].length \in UidLengths
  PROVE  m.type \in DeadcomCRPMType /\ Back(m)
<1> DEFINE s == m.authMethod0UuidObtained
           x == Document(m)[m.type]
           c == [i \in 1 .. Len(s) |-> Bytes(s[i])]
<1>1. s \in Seq(Octets) /\ Len(s) \in Nat
  BY DEF DeadcomCRPM
<1>2. m.type = 6
  <2>1. PiccUidObtained(s).type = AM0_PICC_UID_OBTAINED
    BY DEF PiccUidObtained, Zeroed
  <2> QED BY <2>1
<1>3. x = Array(c)
  BY <1>2 DEF Document
<1>4. x.type = "ARRAY" /\ x.children = c
  BY <1>3 DEF Array, Null
<1>5. Len(c) = Len(s)
  BY <1>1
<1>6. \A i \in 1 .. Len(s) : Uid(c[i]) = s[i]
  BY DEF Uid, Bytes, Null
<1>7. [i \in 1 .. Len(c) |-> Uid(c[i])] = s
  <2>1. [i \in 1 .. Len(c) |-> Uid(c[i])] = [i \in 1 .. Len(s) |-> s[i]]
    BY <1>5, <1>6
  <2> QED BY <1>1, <2>1, ListBack
<1> HIDE DEF x, c
<1>8. Accepted(6, x)
  BY <1>4, <1>5, <1>6 DEF Accepted, IsArray, AcceptedLength, UidAccepted
<1>9. Decoded(6, x) = PiccUidObtained(s)
  BY <1>4, <1>7 DEF Decoded
<1> QED BY <1>2, <1>8, <1>9 DEF Back, x, DeadcomCRPMType

LEMMA RdrFailureBack ==
  ASSUME NEW m \in DeadcomCRPM, m = RdrFailure(m.rdrFailure), m.rdrFailure.length <= 200
  PROVE  m.type \in DeadcomCRPMType /\ Back(m)
<1> DEFINE x == Document(m)[m.type]
<1>1. m.type = 4
  <2>1. \A t : RdrFailure(t).type = RDR_FAILURE
    BY DEF RdrFailure, Zeroed
  <2> QED BY <2>1
<1>2. x = Text(m.rdrFailure)
  BY <1>1 DEF Document, FailureText
<1>3. x.type = "TEXT" /\ x.octets = m.rdrFailure
  BY <1>2 DEF Text, Null
<1> HIDE DEF x
<1>4. Accepted(4, x) /\ Decoded(4, x) = RdrFailure(m.rdrFailure)
  BY <1>3 DEF Accepted, Decoded, IsText
<1> QED BY <1>1, <1>4 DEF Back, x, DeadcomCRPMType

LEMMA UiUpdateBack ==
  ASSUME NEW m \in DeadcomCRPM, m = UiUpdate(m.ui_class0_state), m.ui_class0_state <= 255
  PROVE  m.type \in DeadcomCRPMType /\ Back(m)
<1> DEFINE x == Document(m)[m.type]
<1>1. m.type = 5
  <2>1. \A n : UiUpdate(n).type = UI_UPDATE
    BY DEF UiUpdate, Zeroed
  <2> QED BY <2>1
<1>2. x = Uint(m.ui_class0_state)
  BY <1>1 DEF Document
<1>3. x.type = "UINT" /\ x.uint = m.ui_class0_state
  BY <1>2 DEF Uint, Null
<1> HIDE DEF x
<1>4. Accepted(5, x) /\ Decoded(5, x) = UiUpdate(m.ui_class0_state)
  BY <1>3 DEF Accepted, Decoded, IsUint
<1> QED BY <1>1, <1>4 DEF Back, x, DeadcomCRPMType

LEMMA SysQueryResponseBack ==
  ASSUME NEW m \in DeadcomCRPM,
         m = SysQueryResponse(m.rdrClass, m.hwModel, m.hwRev, m.serial, m.swVerMajor,
                              m.swVerMinor),
         m.rdrClass <= 65535, m.hwModel <= 65535, m.hwRev <= 65535,
         m.serial.length <= 25, m.swVerMajor <= 255, m.swVerMinor <= 255
  PROVE  m.type \in DeadcomCRPMType /\ Back(m)
<1> DEFINE x == Document(m)[m.type]
           c == <<Uint(m.rdrClass), Uint(m.hwModel), Uint(m.hwRev), Text(m.serial),
                  Uint(m.swVerMajor), Uint(m.swVerMinor)>>
<1>1. m.type = 2
  <2>1. \A p, q, r, t, u, v : SysQueryResponse(p, q, r, t, u, v).type = SYS_QUERY_RESPONSE
    BY DEF SysQueryResponse, Zeroed
  <2> QED BY <2>1
<1>2. x = Array(c)
  BY <1>1 DEF Document
<1>3. x.type = "ARRAY" /\ x.children = c
  BY <1>2 DEF Array, Null
<1>4. \A n : Uint(n).type = "UINT" /\ Uint(n).uint = n
  BY DEF Uint, Null
<1>5. \A t : Text(t).type = "TEXT" /\ Text(t).octets = t
  BY DEF Text, Null
<1>6. /\ Len(c) = 6
      /\ c[1] = Uint(m.rdrClass) /\ c[2] = Uint(m.hwModel) /\ c[3] = Uint(m.hwRev)
      /\ c[4] = Text(m.serial) /\ c[5] = Uint(m.swVerMajor) /\ c[6] = Uint(m.swVerMinor)
  OBVIOUS
<1> HIDE DEF x, c
<1>7. /\ \A i \in 1 .. 3 : IsUint(c[i], 65535)
      /\ IsText(c[4], 25)
      /\ \A i \in 5 .. 6 : IsUint(c[i], 255)
  <2>1. IsUint(c[1], 65535) /\ IsUint(c[2], 65535) /\ IsUint(c[3], 65535)
    BY <1>4, <1>6 DEF IsUint
  <2>2. IsUint(c[5], 255) /\ IsUint(c[6], 255)
    BY <1>4, <1>6 DEF IsUint
  <2>3. IsText(c[4], 25)
    BY <1>5, <1>6 DEF IsText
  <2> QED BY <2>1, <2>2, <2>3
<1>8. Accepted(2, x)
  BY <1>3, <1>6, <1>7 DEF Accepted
<1>9. Decoded(2, x) = m
  <2>1. Decoded(2, x) = SysQueryResponse(c[1].uint, c[2].uint, c[3].uint, c[4].octets,
                                         c[5].uint, c[6].uint)
    BY <1>3 DEF Decoded
  <2> QED BY <2>1, <1>4, <1>5, <1>6
<1> QED BY <1>1, <1>8, <1>9 DEF Back, x, DeadcomCRPMType

\* What the protocol allows is accepted by the decoder and comes back as it was.
LEMMA ConformingBack ==
  ASSUME NEW m \in Conforming
  PROVE  m.type \in DeadcomCRPMType /\ Back(m)
BY BareBack, ActivateAuthMethodBack, PiccUidObtainedBack, RdrFailureBack, UiUpdateBack,
   SysQueryResponseBack DEF Conforming, Within

-----------------------------------------------------------------------------
(* What the pool and the buffer hold between two calls. *)

\* The buffer is empty or holds the last message, and the pool is large enough for it.
BufferInv ==
  /\ crpm_in \in DeadcomCRPM
  /\ free \in Nat /\ capacity \in Nat
  /\ buf # NoDocument => /\ crpm_in.type \in DeadcomCRPMType
                         /\ buf = Document(crpm_in)
                         /\ HasRoom(buf)

LEMMA BufferInvInductive == Spec => []BufferInv
<1>1. Init => BufferInv
  <2>1. Zeroed \in DeadcomCRPM
    <3>1. NoOctets \in Octets
      BY DEF Octets, NoOctets
    <3>2. \A T : <<>> \in Seq(T)
      OBVIOUS
    <3> QED BY <3>1, <3>2 DEF Zeroed, DeadcomCRPM
  <2> QED BY <2>1, PoolAssumption DEF Init, BufferInv
<1>2. BufferInv /\ [Next]_vars => BufferInv'
  <2> SUFFICES ASSUME BufferInv, [Next]_vars PROVE BufferInv'
    OBVIOUS
  <2>1. ASSUME NEW m \in Messages, NEW size \in BufSizes, dcrcpEncode(m, size)
        PROVE  BufferInv'
    <3>1. m \in DeadcomCRPM
      BY MessagesAssumption
    <3>2. CASE EncodeUnknown(m, size)
      BY <3>1, <3>2 DEF EncodeUnknown, Encode, Return, BufferInv
    <3>3. CASE EncodeExhausted(m, size)
      BY <3>1, <3>3 DEF EncodeExhausted, Encode, Return, BufferInv
    <3>4. CASE EncodeTooLong(m, size)
      BY <3>1, <3>4 DEF EncodeTooLong, Encode, Return, BufferInv, FreeTree, HasRoom
    <3>5. CASE EncodeDone(m, size)
      BY <3>1, <3>5 DEF EncodeDone, Encode, Return, BufferInv, HasRoom
    <3> QED BY <2>1, <3>2, <3>3, <3>4, <3>5 DEF dcrcpEncode
  <2>2. ASSUME NEW doc, NEW from, dcrcpDecode(doc, from)
        PROVE  BufferInv'
    BY <2>2 DEF dcrcpDecode, DecodeExhausted, DecodeRejected, DecodeDone, Decode, Return,
       BufferInv, HasRoom
  <2>3. CASE DecodeGarbled
    BY <2>3 DEF DecodeGarbled, Decode, Return, BufferInv, HasRoom
  <2>4. CASE UNCHANGED vars
    BY <2>4 DEF vars, BufferInv, HasRoom
  <2> QED BY <2>1, <2>2, <2>3, <2>4 DEF Next
<1> QED BY <1>1, <1>2, PTL DEF Spec

\* Every message the protocol allows, of any length and with any contents, survives
\* encoding and decoding, whatever the pool and the buffer.
THEOREM RoundTripCorrect == Spec => []RoundTrip
<1>1. Init => RoundTrip
  BY DEF Init, RoundTrip
<1>2. RoundTrip /\ BufferInv /\ [Next]_vars => RoundTrip'
  <2> SUFFICES ASSUME RoundTrip, BufferInv, [Next]_vars PROVE RoundTrip'
    OBVIOUS
  <2>1. ASSUME NEW m \in Messages, NEW size \in BufSizes, dcrcpEncode(m, size)
        PROVE  RoundTrip'
    BY <2>1 DEF dcrcpEncode, EncodeUnknown, EncodeExhausted, EncodeTooLong, EncodeDone,
       Encode, RoundTrip
  <2>2. ASSUME buf # NoDocument, dcrcpDecode(buf, "own"), crpm_in \in Conforming
        PROVE  RoundTrip'
    <3>1. /\ buf = Document(crpm_in) /\ HasRoom(buf)
          /\ crpm_in.type \in DeadcomCRPMType
      BY <2>2 DEF BufferInv
    <3>2. Known(buf) # {} /\ Id(buf) = crpm_in.type
      BY <3>1, DocumentKnown
    <3>3. Accepted(Id(buf), buf[Id(buf)]) /\ Decoded(Id(buf), buf[Id(buf)]) = crpm_in
      BY <2>2, <3>1, <3>2, ConformingBack DEF Back
    <3>4. ~DecodeRejected(buf, "own")
      BY <3>2, <3>3 DEF DecodeRejected
    <3>5. DecodeDone(buf, "own")
      BY <2>2, <3>1, <3>4 DEF dcrcpDecode, DecodeExhausted
    <3> QED BY <3>3, <3>5 DEF DecodeDone, Decode, Return, RoundTrip
  <2>3. ASSUME dcrcpDecode(buf, "own"), crpm_in \notin Conforming
        PROVE  RoundTrip'
    BY <2>3 DEF dcrcpDecode, DecodeExhausted, DecodeRejected, DecodeDone, Decode, RoundTrip
  <2>4. ASSUME NEW doc \in Foreign, dcrcpDecode(doc, "foreign")
        PROVE  RoundTrip'
    BY <2>4 DEF dcrcpDecode, DecodeExhausted, DecodeRejected, DecodeDone, Decode, RoundTrip
  <2>5. CASE DecodeGarbled
    BY <2>5 DEF DecodeGarbled, Decode, RoundTrip
  <2>6. CASE UNCHANGED vars
    BY <2>6 DEF vars, RoundTrip
  <2> QED BY <2>1, <2>2, <2>3, <2>4, <2>5, <2>6 DEF Next
<1> QED BY <1>1, <1>2, BufferInvInductive, PTL DEF Spec

\* Whatever is encoded and decoded, and however large the pool: nodes are missing from
\* it only if an encoding has run out of them.
THEOREM NothingLeakedCorrect == Spec => []NothingLeaked
<1>1. Init => NothingLeaked
  BY DEF Init, NothingLeaked
<1>2. NothingLeaked /\ [Next]_vars => NothingLeaked'
  <2> SUFFICES ASSUME NothingLeaked, [Next]_vars PROVE NothingLeaked'
    OBVIOUS
  <2>1. ASSUME NEW m \in Messages, NEW size \in BufSizes, dcrcpEncode(m, size)
        PROVE  NothingLeaked'
    BY <2>1 DEF dcrcpEncode, EncodeUnknown, EncodeExhausted, EncodeTooLong, EncodeDone,
       FreeTree, Return, NothingLeaked
  <2>2. ASSUME NEW doc, NEW from, dcrcpDecode(doc, from)
        PROVE  NothingLeaked'
    BY <2>2 DEF dcrcpDecode, DecodeExhausted, DecodeRejected, DecodeDone, Decode, Return,
       NothingLeaked
  <2>3. CASE DecodeGarbled
    BY <2>3 DEF DecodeGarbled, Decode, Return, NothingLeaked
  <2>4. CASE UNCHANGED vars
    BY <2>4 DEF vars, NothingLeaked
  <2> QED BY <2>1, <2>2, <2>3, <2>4 DEF Next
<1> QED BY <1>1, <1>2, PTL DEF Spec

-----------------------------------------------------------------------------
(* What passes the checks of the decoder is written within DeadcomCRPM, except for a *)
(* terminator.                                                                       *)

Overruns(m) == ~Fits(m) <=> m.rdrFailure.length = 200

\* The texts of a payload have a length.
Measured(id, x) ==
  /\ id = RDR_FAILURE => x.octets.length \in Nat
  /\ id = SYS_QUERY_RESPONSE => x.children[4].octets.length \in Nat

LEMMA AcceptedWritten ==
  ASSUME NEW id \in DeadcomCRPMType, NEW x, Accepted(id, x), Measured(id, x)
  PROVE  Overruns(Decoded(id, x))
<1>1. CASE id \in {0, 1}
  <2>1. Decoded(id, x) = Bare(id)
    BY <1>1 DEF Decoded
  <2>2. Overruns(Bare(id))
    BY DEF Overruns, Fits, Written, Bare, Zeroed, NoOctets
  <2> QED BY <2>1, <2>2
<1>2. CASE id = 2
  <2> DEFINE c == x.children
  <2>1. Decoded(id, x) = SysQueryResponse(c[1].uint, c[2].uint, c[3].uint, c[4].octets,
                                          c[5].uint, c[6].uint)
    BY <1>2 DEF Decoded
  <2>2. /\ c[1].uint <= 65535 /\ c[2].uint <= 65535 /\ c[3].uint <= 65535
        /\ c[4].octets.length <= 25 /\ c[5].uint <= 255 /\ c[6].uint <= 255
        /\ c[4].octets.length \in Nat
    BY <1>2 DEF Accepted, IsUint, IsText, Measured
  <2> HIDE DEF c
  <2>3. ASSUME NEW p, NEW q, NEW r, NEW t, NEW u, NEW v, t.length \in Nat,
               p <= 65535, q <= 65535, r <= 65535, t.length <= 25, u <= 255, v <= 255
        PROVE  Overruns(SysQueryResponse(p, q, r, t, u, v))
    BY <2>3 DEF Overruns, Fits, Written, SysQueryResponse, Zeroed, NoOctets
  <2> QED BY <2>1, <2>2, <2>3
<1>3. CASE id = 3
  <2> DEFINE s == [i \in 1 .. Len(x.children) |-> AuthMethod(x.children[i])]
  <2>1. Decoded(id, x) = ActivateAuthMethod(s)
    BY <1>3 DEF Decoded
  <2>2. Len(x.children) \in 1 .. 10
    BY <1>3 DEF Accepted, IsArray, AcceptedLength, ListLength
  <2>3. Len(s) = Len(x.children)
    BY <2>2
  <2> HIDE DEF s
  <2>4. Len(s) <= 10
    <3>1. Len(s) \in 1 .. 10
      BY <2>2, <2>3, Zenon
    <3>2. \A n \in 1 .. 10 : n <= 10
      OBVIOUS
    <3> QED BY <3>1, <3>2, Zenon
  <2>5. Overruns(ActivateAuthMethod(s))
    BY <2>4 DEF Overruns, Fits, Written, ActivateAuthMethod, Zeroed, NoOctets
  <2> QED BY <2>1, <2>5
<1>4. CASE id = 4
  <2>1. /\ Decoded(id, x) = RdrFailure(x.octets)
        /\ x.octets.length \in Nat /\ x.octets.length <= 200
    BY <1>4 DEF Decoded, Accepted, IsText, Measured
  <2>2. ASSUME NEW t, t.length \in Nat, t.length <= 200
        PROVE  Overruns(RdrFailure(t))
    BY <2>2 DEF Overruns, Fits, Written, RdrFailure, Zeroed, NoOctets
  <2> QED BY <2>1, <2>2
<1>5. CASE id = 5
  <2>1. Decoded(id, x) = UiUpdate(x.uint)
    BY <1>5 DEF Decoded
  <2>2. Overruns(UiUpdate(x.uint))
    BY DEF Overruns, Fits, Written, UiUpdate, Zeroed, NoOctets
  <2> QED BY <2>1, <2>2
<1>6. CASE id = 6
  <2> DEFINE s == [i \in 1 .. Len(x.children) |-> Uid(x.children[i])]
  <2>1. Decoded(id, x) = PiccUidObtained(s)
    BY <1>6 DEF Decoded
  <2>2. /\ Len(x.children) \in 1 .. 10
        /\ \A i \in 1 .. Len(x.children) : Uid(x.children[i]).length \in {4, 7, 10}
    BY <1>6 DEF Accepted, IsArray, AcceptedLength, ListLength, UidAccepted, UidLengths
  <2>3. Len(s) <= 10 /\ Len(s) = Len(x.children)
    <3>1. Len(s) = Len(x.children)
      BY <2>2
    <3>2. \A n \in 1 .. 10 : n <= 10
      OBVIOUS
    <3> HIDE DEF s
    <3> QED BY <2>2, <3>1, <3>2, Zenon
  <2>4. \A i \in 1 .. Len(s) : s[i].length <= 10
    BY <2>2, <2>3
  <2> HIDE DEF s
  <2>5. Overruns(PiccUidObtained(s))
    BY <2>3, <2>4 DEF Overruns, Fits, Written, PiccUidObtained, Zeroed, NoOctets
  <2> QED BY <2>1, <2>5
<1> QED BY <1>1, <1>2, <1>3, <1>4, <1>5, <1>6 DEF DeadcomCRPMType

\* What a foreign station sends is a tree of items, nested or not.
LEMMA ForeignMeasured ==
  ASSUME NEW doc \in Foreign, NEW id \in Known(doc), Accepted(id, doc[id])
  PROVE  Measured(id, doc[id])
<1>1. doc[id] \in Item
  BY ForeignAssumption DEF IsDocument, Known
<1>2. \A x \in Element : x.type = "TEXT" => x.octets.length \in Nat
  BY DEF Element, Leaf, Octets
<1>3. CASE id = RDR_FAILURE
  <2>1. doc[id].type = "TEXT"
    BY <1>3 DEF Accepted, IsText
  <2>2. doc[id] \in Element
    BY <1>1, <2>1 DEF Item
  <2> QED BY <1>2, <1>3, <2>1, <2>2 DEF Measured
<1>4. CASE id = SYS_QUERY_RESPONSE
  <2>1. /\ doc[id].type = "ARRAY" /\ Len(doc[id].children) >= 6
        /\ doc[id].children[4].type = "TEXT"
    BY <1>4 DEF Accepted, IsText
  <2>2. doc[id].children \in Seq(Element)
    BY <1>1, <2>1 DEF Item, Element, Leaf
  <2>3. doc[id].children[4] \in Element
    BY <2>1, <2>2
  <2> QED BY <1>2, <1>4, <2>1, <2>3 DEF Measured
<1> QED BY <1>3, <1>4 DEF Measured

LEMMA OwnMeasured ==
  ASSUME NEW m \in DeadcomCRPM, m.type \in DeadcomCRPMType
  PROVE  Measured(m.type, Document(m)[m.type])
<1> DEFINE x == Document(m)[m.type]
<1>1. m.serial.length \in Nat /\ m.rdrFailure.length \in Nat
  <2>1. m.serial \in Octets /\ m.rdrFailure \in Octets
    BY DEF DeadcomCRPM
  <2> QED BY <2>1 DEF Octets
<1>2. \A t : Text(t).octets = t
  BY DEF Text, Null
<1>3. CASE m.type = RDR_FAILURE
  <2>1. x = Text(m.rdrFailure)
    BY <1>3 DEF Document, FailureText
  <2> QED BY <1>1, <1>2, <1>3, <2>1 DEF Measured
<1>4. CASE m.type = SYS_QUERY_RESPONSE
  <2> DEFINE c == <<Uint(m.rdrClass), Uint(m.hwModel), Uint(m.hwRev), Text(m.serial),
                    Uint(m.swVerMajor), Uint(m.swVerMinor)>>
  <2>1. x = Array(c)
    BY <1>4 DEF Document
  <2>2. x.children = c /\ c[4] = Text(m.serial)
    BY <2>1 DEF Array, Null
  <2> HIDE DEF x, c
  <2>3. x.children[4].octets.length \in Nat
    BY <1>1, <1>2, <2>2
  <2> QED BY <1>4, <2>3 DEF Measured, x
<1> QED BY <1>3, <1>4 DEF Measured

\* Whatever document the decoder is given, of any size and nesting, it writes within the
\* members of crpm_out, but for the terminator of a failure text of 200 octets.
THEOREM TerminatorOverrunsCorrect == Spec => []TerminatorOverruns
<1>1. Overruns(Zeroed)
  BY DEF Overruns, Fits, Written, Zeroed, NoOctets
<1>2. TerminatorOverruns <=> Overruns(crpm_out)
  BY DEF TerminatorOverruns, Overruns
<1>3. Init => TerminatorOverruns
  BY <1>1, <1>2 DEF Init
<1>4. TerminatorOverruns /\ BufferInv /\ [Next]_vars => TerminatorOverruns'
  <2> SUFFICES ASSUME TerminatorOverruns, BufferInv, [Next]_vars
               PROVE  TerminatorOverruns'
    OBVIOUS
  <2>1. \/ crpm_out' \in {crpm_out, Zeroed}
        \/ buf # NoDocument /\ DecodeDone(buf, "own")
        \/ \E doc \in Foreign : DecodeDone(doc, "foreign")
    BY DEF Next, dcrcpEncode, EncodeUnknown, EncodeExhausted, EncodeTooLong, EncodeDone,
       Encode, dcrcpDecode, DecodeExhausted, DecodeRejected, DecodeGarbled, vars
  <2>2. CASE crpm_out' \in {crpm_out, Zeroed}
    BY <1>1, <2>2 DEF TerminatorOverruns, Overruns
  <2>3. ASSUME NEW doc, NEW from, DecodeDone(doc, from),
               \A id \in Known(doc) : Accepted(id, doc[id]) => Measured(id, doc[id])
        PROVE  TerminatorOverruns'
    <3>1. /\ Id(doc) \in DeadcomCRPMType /\ Accepted(Id(doc), doc[Id(doc)])
          /\ Measured(Id(doc), doc[Id(doc)])
      BY <2>3, IdKnown DEF DecodeDone, Known
    <3>2. crpm_out' = Decoded(Id(doc), doc[Id(doc)])
      BY <2>3 DEF DecodeDone
    <3>3. Overruns(crpm_out')
      BY <3>1, <3>2, AcceptedWritten
    <3> QED BY <3>3 DEF TerminatorOverruns, Overruns
  <2>4. ASSUME buf # NoDocument
        PROVE  \A id \in Known(buf) : Measured(id, buf[id])
    <3>1. /\ buf = Document(crpm_in) /\ crpm_in \in DeadcomCRPM
          /\ crpm_in.type \in DeadcomCRPMType
      BY <2>4 DEF BufferInv
    <3> QED BY <3>1, DocumentKnown, OwnMeasured
  <2> QED BY <2>1, <2>2, <2>3, <2>4, ForeignMeasured
<1> QED BY <1>3, <1>4, BufferInvInductive, PTL DEF Spec
-----------------------------------------------------------------------------
(* SumFunction is defined by recursion over the subsets of a finite set.  That the     *)
(* recursion has a solution, and what it is bounded by, is shown by looking at a       *)
(* smallest subset for which it is not so.                                             *)

Pick(s) == CHOOSE x \in s : TRUE
\* it sums F over the subsets of S.
SumsUp(it, F, S) ==
  it = [s \in SUBSET S |-> IF s = {} THEN 0 ELSE F[Pick(s)] + it[s \ {Pick(s)}]]

\* A set of subsets of a finite set has a smallest member.
LEMMA Smallest ==
  ASSUME NEW S, IsFiniteSet(S), NEW B, B \subseteq SUBSET S, B # {}
  PROVE  \E T \in B : \A U \in SUBSET T : U # T => U \notin B
<1>1. IsWellFoundedOn(StrictSubsetOrdering(S), SUBSET S)
  BY FS_StrictSubsetOrderingWellFounded, FS_FiniteSubsetsOfFinite
<1>2. PICK T \in B : \A U \in B : <<U, T>> \notin StrictSubsetOrdering(S)
  BY <1>1, WFMin, Zenon
<1> QED BY <1>2 DEF StrictSubsetOrdering

\* The element that is added next is one of them.
LEMMA PickIn == ASSUME NEW s, s # {} PROVE Pick(s) \in s /\ s \ {Pick(s)} # s
BY DEF Pick

\* Sums over the same elements are the same.
LEMMA SumsAgree ==
  ASSUME NEW F, NEW S, IsFiniteSet(S), NEW T, S \subseteq T,
         NEW g, SumsUp(g, F, S), NEW h, SumsUp(h, F, T)
  PROVE  g[S] = h[S]
<1> DEFINE Bad == {s \in SUBSET S : g[s] # h[s]}
<1> SUFFICES ASSUME Bad # {} PROVE FALSE
  OBVIOUS
<1>1. PICK s \in Bad : \A u \in SUBSET s : u # s => u \notin Bad
  <2>1. Bad \subseteq SUBSET S OBVIOUS
  <2> HIDE DEF Bad
  <2> QED BY <2>1, Smallest
<1>2. CASE s = {}
  BY <1>1, <1>2 DEF SumsUp
<1>3. CASE s # {}
  <2> DEFINE u == s \ {Pick(s)}
  <2>1. u \in SUBSET S /\ g[u] = h[u]
    BY <1>1, <1>3, PickIn
  <2>2. g[s] = F[Pick(s)] + g[u] /\ h[s] = F[Pick(s)] + h[u]
    BY <1>1, <1>3, <2>1 DEF SumsUp
  <2> QED BY <1>1, <2>1, <2>2
<1> QED BY <1>2, <1>3

\* There is a sum over each finite set.
LEMMA SumsExist ==
  ASSUME NEW F, NEW S, IsFiniteSet(S)
  PROVE  \E it : SumsUp(it, F, S)
<1> DEFINE Bad == {T \in SUBSET S : ~ \E it : SumsUp(it, F, T)}
<1> SUFFICES ASSUME Bad # {} PROVE FALSE
  BY Zenon
<1>1. PICK T \in Bad : \A U \in SUBSET T : U # T => U \notin Bad
  <2>1. Bad \subseteq SUBSET S OBVIOUS
  <2> HIDE DEF Bad
  <2> QED BY <2>1, Smallest
<1> DEFINE sum(U) == CHOOSE it : SumsUp(it, F, U)
           Over(U) == sum(U)[U]
           it == [s \in SUBSET T |-> IF s = {} THEN 0
                                     ELSE F[Pick(s)] + Over(s \ {Pick(s)})]
<1>2. ASSUME NEW U \in SUBSET T, U # T
      PROVE  SumsUp(sum(U), F, U)
  BY <1>1, <1>2
<1>3. ASSUME NEW U \in SUBSET T, U # T
      PROVE  Over(U) = it[U]
  <2>1. CASE U = {}
    <3>1. \A f : SumsUp(f, F, {}) => f[{}] = 0
      BY DEF SumsUp
    <3>2. SumsUp(sum({}), F, {})
      BY <1>2, <1>3, <2>1
    <3> HIDE DEF sum
    <3> QED BY <2>1, <3>1, <3>2
  <2>2. CASE U # {}
    <3> DEFINE V == U \ {Pick(U)}
    <3>1. V \in SUBSET U /\ V # T /\ IsFiniteSet(V)
      BY <1>3, <2>2, PickIn, FS_Subset
    <3>2. SumsUp(sum(V), F, V) /\ SumsUp(sum(U), F, U)
      BY <1>2, <1>3, <3>1
    <3>3. sum(V)[V] = sum(U)[V]
      BY <3>1, <3>2, SumsAgree
    <3>4. sum(U)[U] = F[Pick(U)] + sum(U)[V]
      BY <2>2, <3>2 DEF SumsUp
    <3> QED BY <2>2, <3>3, <3>4
  <2> QED BY <2>1, <2>2
<1>4. SumsUp(it, F, T)
  <2>1. ASSUME NEW s \in SUBSET T, s # {}
        PROVE  Over(s \ {Pick(s)}) = it[s \ {Pick(s)}]
    BY <1>3, <2>1, PickIn
  <2> HIDE DEF Over
  <2> QED BY <2>1 DEF SumsUp
<1> QED BY <1>1, <1>4

\* SumFunction is one.
LEMMA SumIsChosen ==
  ASSUME NEW F, NEW it, SumsUp(it, F, DOMAIN F)
  PROVE  \E g : SumsUp(g, F, DOMAIN F) /\ SumFunction(F) = g[DOMAIN F]
<1> DEFINE g == CHOOSE h : SumsUp(h, F, DOMAIN F)
<1>1. SumsUp(g, F, DOMAIN F) OBVIOUS
<1>2. SumFunction(F) = g[DOMAIN F]
  BY Zenon DEF SumFunction, SumFunctionOnSet, FoldFunctionOnSet, MapThenFoldSet, SumsUp, Pick
<1> QED BY <1>1, <1>2

\* A sum of numbers up to k is at most k times as many.
LEMMA SumBounded ==
  ASSUME NEW F, IsFiniteSet(DOMAIN F), NEW k \in Nat,
         \A i \in DOMAIN F : F[i] \in 0 .. k
  PROVE  /\ SumFunction(F) \in Nat
         /\ SumFunction(F) <= k * Cardinality(DOMAIN F)
<1>1. PICK g : SumsUp(g, F, DOMAIN F) /\ SumFunction(F) = g[DOMAIN F]
  BY SumsExist, SumIsChosen
<1> DEFINE Bad == {s \in SUBSET (DOMAIN F) : ~(g[s] \in Nat /\ g[s] <= k * Cardinality(s))}
<1> SUFFICES ASSUME Bad # {} PROVE FALSE
  BY <1>1
<1>2. PICK s \in Bad : \A u \in SUBSET s : u # s => u \notin Bad
  <2>1. Bad \subseteq SUBSET (DOMAIN F) OBVIOUS
  <2> HIDE DEF Bad
  <2> QED BY <2>1, Smallest
<1>3. CASE s = {}
  BY <1>1, <1>2, <1>3, FS_EmptySet DEF SumsUp
<1>4. CASE s # {}
  <2> DEFINE u == s \ {Pick(s)}
             n == Cardinality(u)
  <2>1. Pick(s) \in s /\ u \in SUBSET (DOMAIN F) /\ IsFiniteSet(s)
    BY <1>2, <1>4, PickIn, FS_Subset
  <2>2. g[u] \in Nat /\ g[u] <= k * n
    BY <1>2, <1>4, <2>1, PickIn
  <2>3. g[s] = F[Pick(s)] + g[u]
    BY <1>1, <1>2, <1>4 DEF SumsUp
  <2>4. n \in Nat /\ Cardinality(s) = n + 1
    <3>1. IsFiniteSet(u) /\ Pick(s) \notin u /\ s = u \cup {Pick(s)}
      BY <2>1, FS_Subset
    <3> QED BY <3>1, FS_AddElement, FS_CardinalityType
  <2>5. k * (n + 1) = k * n + k
    BY <2>4
  <2>6. F[Pick(s)] \in Nat /\ F[Pick(s)] <= k
    BY <1>2, <2>1
  <2>7. k * n \in Nat
    BY <2>4
  <2> HIDE DEF n, u
  <2>8. g[s] \in Nat /\ g[s] <= k * Cardinality(s)
    BY <2>2, <2>3, <2>4, <2>5, <2>6, <2>7
  <2> QED BY <1>2, <2>8
<1> QED BY <1>3, <1>4
-----------------------------------------------------------------------------
(* What the protocol allows takes 204 octets at most. *)

LEMMA Interval ==
  ASSUME NEW n \in Nat
  PROVE  IsFiniteSet(1 .. n) /\ Cardinality(1 .. n) = n
BY FS_Interval

\* A list of up to ten elements.
LEMMA ArraySize ==
  ASSUME NEW s, NEW n \in 0 .. 10, Len(s) = n, NEW k \in Nat,
         \A i \in 1 .. n : LeafSize(s[i]) \in 0 .. k
  PROVE  ItemSize(Array(s)) \in Nat /\ ItemSize(Array(s)) <= 1 + k * n
<1> DEFINE F == [i \in 1 .. Len(s) |-> LeafSize(s[i])]
<1>1. DOMAIN F = 1 .. n /\ \A i \in DOMAIN F : F[i] \in 0 .. k
  OBVIOUS
<1>2. IsFiniteSet(1 .. n) /\ Cardinality(1 .. n) = n
  BY Interval
<1> HIDE DEF F
<1>3. SumFunction(F) \in Nat /\ SumFunction(F) <= k * n
  BY <1>1, <1>2, SumBounded
<1>4. ItemSize(Array(s)) = HeadSize(Len(s)) + SumFunction(F)
  BY DEF ItemSize, Array, Null, F
<1>5. HeadSize(Len(s)) = 1
  BY DEF HeadSize
<1>6. k * n \in Nat
  OBVIOUS
<1> QED BY <1>3, <1>4, <1>5, <1>6

\* A number.
LEMMA UintSize ==
  ASSUME NEW n \in Nat
  PROVE  LeafSize(Uint(n)) \in 1 .. 5
<1>1. Uint(n).type = "UINT" /\ Uint(n).uint = n
  BY DEF Uint, Null
<1>2. \A x : x.type = "UINT" => LeafSize(x) = HeadSize(x.uint)
  BY DEF LeafSize
<1> QED BY <1>1, <1>2 DEF HeadSize

\* A string, or an array of octets.
LEMMA OctetsSize ==
  ASSUME NEW o, o.length \in Nat, NEW x \in {Text(o), Bytes(o)}
  PROVE  LeafSize(x) = HeadSize(o.length) + o.length
<1>1. x.type \in {"TEXT", "BYTES"} /\ x.octets = o
  BY DEF Text, Bytes, Null
<1> QED BY <1>1 DEF LeafSize

\* The map and the key of a document take two octets.
LEMMA OneItem ==
  ASSUME NEW m, m.type \in DeadcomCRPMType, NEW n \in Nat,
         ItemSize(Document(m)[m.type]) \in 0 .. n
  PROVE  Size(Document(m)) \in Nat /\ Size(Document(m)) <= n + 2
<1> DEFINE doc == Document(m)
           F == [id \in DOMAIN doc |-> HeadSize(id) + ItemSize(doc[id])]
<1>1. DOMAIN doc = {m.type}
  BY DEF Document
<1> HIDE DEF doc
<1>2. HeadSize(m.type) = 1 /\ HeadSize(1) = 1
  BY DEF HeadSize, DeadcomCRPMType
<1>3. DOMAIN F = {m.type} /\ \A id \in DOMAIN F : F[id] \in 0 .. n + 1
  BY <1>1, <1>2 DEF doc
<1>4. Size(doc) = HeadSize(Cardinality(DOMAIN doc)) + SumFunction(F)
  BY DEF Size
<1> HIDE DEF F
<1>5. IsFiniteSet({m.type}) /\ Cardinality({m.type}) = 1
  BY FS_Singleton
<1>6. SumFunction(F) \in Nat /\ SumFunction(F) <= (n + 1) * 1
  BY <1>3, <1>5, SumBounded
<1> QED BY <1>1, <1>2, <1>4, <1>5, <1>6 DEF doc

\* The longest is a failure text of 200 octets with its head of two.
LEMMA ConformingSize ==
  ASSUME NEW m \in Conforming
  PROVE  Size(Document(m)) \in Nat /\ Size(Document(m)) <= 204
<1> DEFINE x == Document(m)[m.type]
<1> SUFFICES ItemSize(x) \in 0 .. 202
  BY OneItem, ConformingBack
<1>1. m \in DeadcomCRPM /\ Within(m)
  BY DEF Conforming
<1>2. /\ \A p, q, r, t, u, v : SysQueryResponse(p, q, r, t, u, v).type = 2
      /\ \A s : ActivateAuthMethod(s).type = 3
      /\ \A t : RdrFailure(t).type = 4
      /\ \A n : UiUpdate(n).type = 5
      /\ \A s : PiccUidObtained(s).type = 6
  BY DEF SysQueryResponse, ActivateAuthMethod, RdrFailure, UiUpdate, PiccUidObtained, Zeroed
<1>3. /\ m.rdrClass \in Nat /\ m.hwModel \in Nat /\ m.hwRev \in Nat
       /\ m.swVerMajor \in Nat /\ m.swVerMinor \in Nat /\ m.ui_class0_state \in Nat
       /\ m.serial.length \in Nat /\ m.rdrFailure.length \in Nat
  <2>1. /\ m.rdrClass \in Nat /\ m.hwModel \in Nat /\ m.hwRev \in Nat
        /\ m.swVerMajor \in Nat /\ m.swVerMinor \in Nat /\ m.ui_class0_state \in Nat
        /\ m.serial \in Octets /\ m.rdrFailure \in Octets
    BY <1>1 DEF DeadcomCRPM
  <2>2. \A o \in Octets : o.length \in Nat
    BY DEF Octets
  <2> QED BY <2>1, <2>2
<1>4. CASE m \in {Bare(HEARTBEAT), Bare(SYS_QUERY_REQUEST)}
  <2>1. m.type \in {0, 1}
    BY <1>4 DEF Bare, Zeroed
  <2>2. x = Null
    BY <2>1 DEF Document
  <2>3. ItemSize(Null) = 1
    BY DEF ItemSize, LeafSize, Null
  <2> QED BY <2>2, <2>3
<1>5. CASE m.type = 2 /\ m.serial.length <= 25
  <2> DEFINE s == <<Uint(m.rdrClass), Uint(m.hwModel), Uint(m.hwRev), Text(m.serial),
                    Uint(m.swVerMajor), Uint(m.swVerMinor)>>
  <2>1. x = Array(s)
    BY <1>5 DEF Document
  <2>2. LeafSize(Text(m.serial)) \in 0 .. 27
    BY <1>5, <1>3, OctetsSize DEF HeadSize
  <2>3. /\ LeafSize(Uint(m.rdrClass)) \in 0 .. 27 /\ LeafSize(Uint(m.hwModel)) \in 0 .. 27
        /\ LeafSize(Uint(m.hwRev)) \in 0 .. 27 /\ LeafSize(Uint(m.swVerMajor)) \in 0 .. 27
        /\ LeafSize(Uint(m.swVerMinor)) \in 0 .. 27
    BY <1>3, UintSize
  <2>4. Len(s) = 6 /\ \A i \in 1 .. 6 : LeafSize(s[i]) \in 0 .. 27
    BY <2>2, <2>3
  <2> HIDE DEF s
  <2>5. ItemSize(Array(s)) \in Nat /\ ItemSize(Array(s)) <= 1 + 27 * 6
    <3>1. 6 \in 0 .. 10 /\ 27 \in Nat
      OBVIOUS
    <3> QED BY <2>4, <3>1, ArraySize, Zenon
  <2> QED BY <2>1, <2>5
<1>6. CASE m.type = 3 /\ Len(m.authMethods) \in ListLength
           /\ \A i \in 1 .. Len(m.authMethods) : m.authMethods[i] \in Nat
  <2> DEFINE n == Len(m.authMethods)
             s == [i \in 1 .. n |-> Uint(m.authMethods[i])]
  <2>1. x = Array(s)
    BY <1>6 DEF Document
  <2>2. n \in 0 .. 10
    BY <1>6 DEF ListLength
  <2>3. Len(s) = n /\ \A i \in 1 .. n : LeafSize(s[i]) \in 0 .. 5
    BY <1>6, <2>2, UintSize
  <2> HIDE DEF s, n
  <2>4. ItemSize(Array(s)) \in Nat /\ ItemSize(Array(s)) <= 1 + 5 * n
    BY <2>2, <2>3, ArraySize
  <2> QED BY <2>1, <2>2, <2>4
<1>7. CASE m.type = 4 /\ m.rdrFailure.length <= 200
  <2>1. x = Text(m.rdrFailure)
    BY <1>7 DEF Document, FailureText
  <2>2. m.rdrFailure.length \in 0 .. 200
    BY <1>7, <1>3
  <2>3. LeafSize(x) = HeadSize(m.rdrFailure.length) + m.rdrFailure.length
    BY <2>1, <2>2, OctetsSize
  <2>4. ItemSize(x) = LeafSize(x)
    BY <2>1 DEF ItemSize, Text, Null
  <2> QED BY <2>2, <2>3, <2>4 DEF HeadSize
<1>8. CASE m.type = 5
  <2>1. x = Uint(m.ui_class0_state)
    BY <1>8 DEF Document
  <2>2. LeafSize(x) \in 1 .. 5
    BY <1>3, <2>1, UintSize
  <2>3. ItemSize(x) = LeafSize(x)
    BY <2>1 DEF ItemSize, Uint, Null
  <2> QED BY <2>2, <2>3
<1>9. CASE m.type = 6 /\ Len(m.authMethod0UuidObtained) \in ListLength
           /\ \A i \in 1 .. Len(m.authMethod0UuidObtained) :
                m.authMethod0UuidObtained[i].length \in UidLengths
  <2> DEFINE n == Len(m.authMethod0UuidObtained)
             s == [i \in 1 .. n |-> Bytes(m.authMethod0UuidObtained[i])]
  <2>1. x = Array(s)
    BY <1>9 DEF Document
  <2>2. ASSUME NEW i \in 1 .. n
        PROVE  LeafSize(s[i]) \in 0 .. 11
    <3> DEFINE o == m.authMethod0UuidObtained[i]
    <3>1. o.length \in {4, 7, 10} /\ s[i] = Bytes(o)
      BY <1>9 DEF UidLengths
    <3> HIDE DEF o, s
    <3>2. LeafSize(s[i]) = HeadSize(o.length) + o.length
      BY <3>1, OctetsSize
    <3> QED BY <3>1, <3>2 DEF HeadSize
  <2>3. n \in 0 .. 10
    BY <1>9 DEF ListLength
  <2>4. Len(s) = n
    BY <2>3
  <2> HIDE DEF s, n
  <2>5. ItemSize(Array(s)) \in Nat /\ ItemSize(Array(s)) <= 1 + 11 * n
    BY <2>2, <2>3, <2>4, ArraySize
  <2> QED BY <2>1, <2>3, <2>5
<1>10. CASE /\ m = SysQueryResponse(m.rdrClass, m.hwModel, m.hwRev, m.serial, m.swVerMajor,
                                m.swVerMinor)
           /\ m.serial.length <= 25
  BY <1>5, <1>2, <1>10
<1>11. CASE /\ m = ActivateAuthMethod(m.authMethods)
           /\ Len(m.authMethods) \in ListLength
           /\ \A i \in 1 .. Len(m.authMethods) : m.authMethods[i] \in Nat
  BY <1>6, <1>2, <1>11
<1>12. CASE m = RdrFailure(m.rdrFailure) /\ m.rdrFailure.length <= 200
  BY <1>7, <1>2, <1>12
<1>13. CASE m = UiUpdate(m.ui_class0_state)
  BY <1>8, <1>2, <1>13
<1>14. CASE /\ m = PiccUidObtained(m.authMethod0UuidObtained)
            /\ Len(m.authMethod0UuidObtained) \in ListLength
            /\ \A i \in 1 .. Len(m.authMethod0UuidObtained) :
                 m.authMethod0UuidObtained[i].length \in UidLengths
  BY <1>9, <1>2, <1>14
<1>15. Within(m) => ItemSize(x) \in 0 .. 202
  BY <1>4, <1>10, <1>11, <1>12, <1>13, <1>14 DEF Within
<1> QED BY <1>1, <1>15

\* Every message the protocol allows fits into 204 octets, whatever its contents: an
\* encoder with such a buffer never reports that it is small.
THEOREM RoomEnoughCorrect == Spec => []RoomEnough
<1>1. Init => RoomEnough
  BY DEF Init, RoomEnough
<1>2. RoomEnough /\ [Next]_vars => RoomEnough'
  <2> SUFFICES ASSUME RoomEnough, [Next]_vars PROVE RoomEnough'
    OBVIOUS
  <2>1. ASSUME NEW m \in Messages, NEW size \in BufSizes, dcrcpEncode(m, size)
        PROVE  RoomEnough'
    <3>1. CASE EncodeTooLong(m, size)
      <4>1. crpm_in' = m /\ buf_size' = size /\ Size(Document(m)) > size /\ size \in Nat
        BY <3>1, PoolAssumption DEF EncodeTooLong, Encode
      <4> QED BY <4>1, ConformingSize DEF RoomEnough
    <3>2. CASE ~EncodeTooLong(m, size)
      BY <2>1, <3>2 DEF dcrcpEncode, EncodeUnknown, EncodeExhausted, EncodeDone, Return,
         RoomEnough
    <3> QED BY <3>1, <3>2
  <2>2. ASSUME NEW doc, NEW from, dcrcpDecode(doc, from)
        PROVE  RoomEnough'
    BY <2>2 DEF dcrcpDecode, DecodeExhausted, DecodeRejected, DecodeDone, Return, RoomEnough
  <2>3. CASE DecodeGarbled
    BY <2>3 DEF DecodeGarbled, Return, RoomEnough
  <2>4. CASE UNCHANGED vars
    BY <2>4 DEF vars, RoomEnough
  <2> QED BY <2>1, <2>2, <2>3, <2>4 DEF Next
<1> QED BY <1>1, <1>2, PTL DEF Spec
-----------------------------------------------------------------------------
(* How many nodes a message takes. *)

\* A list of up to ten elements that have none of their own.
LEMMA ListNodes ==
  ASSUME NEW s, NEW n \in 0 .. 10, Len(s) = n,
         \A i \in 1 .. n : s[i].type # "CONTAINER"
  PROVE  ItemNodes(Array(s)) \in 0 .. 11
<1> DEFINE F == [i \in 1 .. Len(s) |-> ElementNodes(s[i])]
<1>1. DOMAIN F = 1 .. n /\ \A i \in DOMAIN F : F[i] \in 0 .. 1
  BY DEF ElementNodes
<1>2. IsFiniteSet(1 .. n) /\ Cardinality(1 .. n) = n
  BY Interval
<1> HIDE DEF F
<1>3. SumFunction(F) \in Nat /\ SumFunction(F) <= 1 * n
  BY <1>1, <1>2, SumBounded
<1>4. ItemNodes(Array(s)) = 1 + SumFunction(F)
  BY DEF ItemNodes, Array, Null, F
<1> QED BY <1>3, <1>4

\* A list of ten is the largest tree: the map, the key, the list and its elements.
LEMMA ConformingNodes ==
  ASSUME NEW m \in Conforming
  PROVE  Nodes(Document(m)) \in Nat /\ Nodes(Document(m)) <= 13
<1> DEFINE doc == Document(m)
           F == [id \in DOMAIN doc |-> 1 + ItemNodes(doc[id])]
<1>1. m.type \in DeadcomCRPMType /\ Accepted(m.type, doc[m.type])
  BY ConformingBack DEF Back
<1>2. DOMAIN doc = {m.type}
  BY DEF Document
<1>3. /\ \A n : Uint(n).type = "UINT"
      /\ \A t : Text(t).type = "TEXT" /\ Bytes(t).type = "BYTES"
      /\ \A s : Array(s).children = s
  BY DEF Uint, Text, Bytes, Array, Null
<1>4. ItemNodes(doc[m.type]) \in 0 .. 11
  <2>1. CASE m.type \in {0, 1, 4, 5}
    <3>1. doc[m.type] \in {Null, Text(m.rdrFailure), Uint(m.ui_class0_state)}
      BY <2>1 DEF Document, FailureText
    <3> HIDE DEF doc
    <3>2. doc[m.type].type \in {"NULL", "TEXT", "UINT"}
      BY <1>3, <3>1 DEF Null
    <3> QED BY <3>2 DEF ItemNodes, ElementNodes
  <2>2. CASE m.type = 2
    <3> DEFINE s == <<Uint(m.rdrClass), Uint(m.hwModel), Uint(m.hwRev), Text(m.serial),
                      Uint(m.swVerMajor), Uint(m.swVerMinor)>>
    <3>1. doc[m.type] = Array(s)
      BY <2>2 DEF Document
    <3>2. Len(s) = 6 /\ \A i \in 1 .. 6 : s[i].type # "CONTAINER"
      BY <1>3
    <3> HIDE DEF doc, s
    <3> QED BY <3>1, <3>2, ListNodes
  <2>3. CASE m.type = 3
    <3> DEFINE n == Len(m.authMethods)
               s == [i \in 1 .. n |-> Uint(m.authMethods[i])]
    <3>1. doc[m.type] = Array(s)
      BY <2>3 DEF Document
    <3>2. Len(s) \in 0 .. 10
      BY <1>1, <1>3, <2>3, <3>1 DEF Accepted, IsArray, AcceptedLength, ListLength
    <3>3. \A i \in 1 .. Len(s) : s[i].type # "CONTAINER"
      <4>1. m \in DeadcomCRPM
        BY DEF Conforming
      <4>2. n \in Nat
        BY <4>1 DEF DeadcomCRPM
      <4> QED BY <1>3, <4>2
    <3> HIDE DEF doc, s
    <3> QED BY <3>1, <3>2, <3>3, ListNodes
  <2>4. CASE m.type = 6
    <3> DEFINE n == Len(m.authMethod0UuidObtained)
               s == [i \in 1 .. n |-> Bytes(m.authMethod0UuidObtained[i])]
    <3>1. doc[m.type] = Array(s)
      BY <2>4 DEF Document
    <3>2. Len(s) \in 0 .. 10
      BY <1>1, <1>3, <2>4, <3>1 DEF Accepted, IsArray, AcceptedLength, ListLength
    <3>3. \A i \in 1 .. Len(s) : s[i].type # "CONTAINER"
      <4>1. m \in DeadcomCRPM
        BY DEF Conforming
      <4>2. n \in Nat
        BY <4>1 DEF DeadcomCRPM
      <4> QED BY <1>3, <4>2
    <3> HIDE DEF doc, s
    <3> QED BY <3>1, <3>2, <3>3, ListNodes
  <2> QED BY <1>1, <2>1, <2>2, <2>3, <2>4 DEF DeadcomCRPMType
<1>5. Nodes(doc) = 1 + SumFunction(F)
  BY DEF Nodes
<1> HIDE DEF doc
<1>6. DOMAIN F = {m.type} /\ \A id \in DOMAIN F : F[id] \in 0 .. 12
  <2>1. DOMAIN F = {m.type} /\ F[m.type] = 1 + ItemNodes(doc[m.type])
    BY <1>2
  <2>2. \A n \in 0 .. 11 : 1 + n \in 0 .. 12
    OBVIOUS
  <2> HIDE DEF F
  <2>3. F[m.type] \in 0 .. 12
    BY <1>4, <2>1, <2>2, Zenon
  <2> QED BY <2>1, <2>3, Zenon
<1> HIDE DEF F
<1>7. IsFiniteSet({m.type}) /\ Cardinality({m.type}) = 1
  BY FS_Singleton
<1>8. SumFunction(F) \in Nat /\ SumFunction(F) <= 12 * 1
  BY <1>6, <1>7, SumBounded
<1> QED BY <1>5, <1>8 DEF doc

\* A pool of thirteen nodes serves any number of calls, whatever fails in between: as
\* long as no node is missing, it has room for every message the protocol allows.
THEOREM PoolLastsCorrect == Spec => PoolLasts
<1> DEFINE Step == ~exhausted /\ exhausted' /\ crpm_in' \in Conforming => capacity < 13
<1>1. NothingLeaked /\ BufferInv /\ [Next]_vars => [Step]_vars
  <2> SUFFICES ASSUME NothingLeaked, BufferInv, Next, ~exhausted, exhausted',
                      crpm_in' \in Conforming
               PROVE  capacity < 13
    OBVIOUS
  <2>1. PICK m \in Messages, size \in BufSizes : EncodeExhausted(m, size)
    BY DEF Next, dcrcpEncode, EncodeUnknown, EncodeTooLong, EncodeDone, dcrcpDecode,
       DecodeExhausted, DecodeRejected, DecodeDone, DecodeGarbled, Decode
  <2>2. m \in Conforming
    BY <2>1 DEF EncodeExhausted, Encode
  <2>3. m.type \in DeadcomCRPMType /\ ~HasRoom(Document(m))
    BY <2>1, <2>2, ConformingBack DEF EncodeExhausted
  <2>4. free = capacity /\ capacity \in Nat
    BY DEF NothingLeaked, BufferInv
  <2>5. Nodes(Document(m)) \in Nat /\ Nodes(Document(m)) <= 13
    BY <2>2, ConformingNodes
  <2> QED BY <2>3, <2>4, <2>5 DEF HasRoom
<1> QED BY <1>1, NothingLeakedCorrect, BufferInvInductive, PTL DEF Spec, PoolLasts
=============================================================================
