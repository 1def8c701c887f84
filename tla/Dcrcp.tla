-------------------------------- MODULE Dcrcp --------------------------------
(***************************************************************************)
(* The codec of the reader-controller protocol (dcrcp/lib/src/dcrcp.c).  A *)
(* station encodes messages into a buffer and decodes what is in a buffer: *)
(* its own, carried by dcl2 unchanged, or that of a foreign station.       *)
(*                                                                         *)
(* Both calls build a tree of cn_cbor nodes, which come from a pool.  CBOR *)
(* is abstracted to the tree: what is kept of an item is its type, number, *)
(* length and children; of its octets, how many there are.                 *)
(***************************************************************************)
EXTENDS Naturals, Sequences, FiniteSets, Functions

CONSTANTS
  Messages,   \* messages a station encodes
  Foreign,    \* documents a foreign station sends
  PoolSizes,  \* how many nodes the pool may have
  BufSizes,   \* sizes of the buffers to encode into
  Arbitrary   \* what a member of the union v holds when the item has another type

ASSUME PoolAssumption == PoolSizes \subseteq Nat /\ BufSizes \subseteq Nat \ {0}
-----------------------------------------------------------------------------
(* Messages *)

HEARTBEAT == 0
SYS_QUERY_REQUEST == 1
SYS_QUERY_RESPONSE == 2
ACTIVATE_AUTH_METHOD == 3
RDR_FAILURE == 4
UI_UPDATE == 5
AM0_PICC_UID_OBTAINED == 6
DeadcomCRPMType == 0 .. 6

\* A string or an array of octets: how long it is, and which one.
Octets == [length : Nat, content : Nat \cup {Arbitrary}]
NoOctets == [length |-> 0, content |-> 0]

\* struct DeadcomCRPM; the members of its union side by side, those not in use zeroed.
DeadcomCRPM ==
  [type : Nat, rdrClass : Nat, hwModel : Nat, hwRev : Nat, serial : Octets,
   swVerMajor : Nat, swVerMinor : Nat, authMethods : Seq(Nat \cup {Arbitrary}),
   rdrFailure : Octets, ui_class0_state : Nat, authMethod0UuidObtained : Seq(Octets)]
Zeroed ==
  [type |-> 0, rdrClass |-> 0, hwModel |-> 0, hwRev |-> 0, serial |-> NoOctets,
   swVerMajor |-> 0, swVerMinor |-> 0, authMethods |-> <<>>, rdrFailure |-> NoOctets,
   ui_class0_state |-> 0, authMethod0UuidObtained |-> <<>>]

\* One message of each kind; Bare has no payload.
Bare(type) == [Zeroed EXCEPT !.type = type]
SysQueryResponse(class, model, rev, serial, major, minor) ==
  [Zeroed EXCEPT !.type = SYS_QUERY_RESPONSE, !.rdrClass = class, !.hwModel = model,
     !.hwRev = rev, !.serial = serial, !.swVerMajor = major, !.swVerMinor = minor]
ActivateAuthMethod(s) == [Zeroed EXCEPT !.type = ACTIVATE_AUTH_METHOD, !.authMethods = s]
RdrFailure(t) == [Zeroed EXCEPT !.type = RDR_FAILURE, !.rdrFailure = t]
UiUpdate(n) == [Zeroed EXCEPT !.type = UI_UPDATE, !.ui_class0_state = n]
PiccUidObtained(s) ==
  [Zeroed EXCEPT !.type = AM0_PICC_UID_OBTAINED, !.authMethod0UuidObtained = s]

ASSUME MessagesAssumption == Messages \subseteq DeadcomCRPM

\* Messages the protocol allows (protocol.cddl), where both directions of the codec
\* agree to its limits: the member that goes with the type is within them.
UidLengths == {4, 7, 10}
ListLength == 1 .. 10
Within(m) ==
  \/ m \in {Bare(HEARTBEAT), Bare(SYS_QUERY_REQUEST)}
  \/ /\ m = SysQueryResponse(m.rdrClass, m.hwModel, m.hwRev, m.serial, m.swVerMajor,
                             m.swVerMinor)
     /\ m.rdrClass <= 65535 /\ m.hwModel <= 65535 /\ m.hwRev <= 65535
     /\ m.serial.length <= 25 /\ m.swVerMajor <= 255 /\ m.swVerMinor <= 255
  \/ /\ m = ActivateAuthMethod(m.authMethods)
     /\ Len(m.authMethods) \in ListLength
     /\ \A i \in 1 .. Len(m.authMethods) : m.authMethods[i] \in Nat
  \/ m = RdrFailure(m.rdrFailure) /\ m.rdrFailure.length <= 200
  \/ m = UiUpdate(m.ui_class0_state) /\ m.ui_class0_state <= 255
  \/ /\ m = PiccUidObtained(m.authMethod0UuidObtained)
     /\ Len(m.authMethod0UuidObtained) \in ListLength
     /\ \A i \in 1 .. Len(m.authMethod0UuidObtained) :
          m.authMethod0UuidObtained[i].length \in UidLengths
Conforming == {m \in DeadcomCRPM : Within(m)}
-----------------------------------------------------------------------------
(* CBOR items *)

Null == [type |-> "NULL", uint |-> 0, octets |-> NoOctets, children |-> <<>>]
Uint(n) == [Null EXCEPT !.type = "UINT", !.uint = n]
Text(t) == [Null EXCEPT !.type = "TEXT", !.octets = t]
Bytes(b) == [Null EXCEPT !.type = "BYTES", !.octets = b]
Array(s) == [Null EXCEPT !.type = "ARRAY", !.children = s]

\* Something that has items in it where the decoder expects none: an array within an
\* array, a map, a string in chunks.  How many items there are and how many nodes they
\* take, to whatever depth, is all that matters of them.
Container(n, below) == [type |-> "CONTAINER", length |-> n, nodes |-> below]

\* What an item can be; NULL stands for the types without items that the decoder never
\* asks for.
Leaf == [type : {"NULL", "UINT", "TEXT", "BYTES"}, uint : Nat, octets : Octets,
         children : {<<>>}]
Element == Leaf \cup [type : {"CONTAINER"}, length : Nat, nodes : Nat]
Item == Element \cup
        [type : {"ARRAY"}, uint : {0}, octets : {NoOctets}, children : Seq(Element)]
IsDocument(doc) == DOMAIN doc \subseteq Nat /\ \A id \in DOMAIN doc : doc[id] \in Item
ASSUME ForeignAssumption == \A doc \in Foreign : IsDocument(doc)

\* A text is as long as strlen finds it (of 200 octets, by looking past rdrFailure).
\* Variant: the terminator of the string is encoded too.
FailureTextTerminated(m) == Text([m.rdrFailure EXCEPT !.length = @ + 1])
FailureText(m) == Text(m.rdrFailure)

\* A document is a map from keys to items.
Document(m) ==
  [id \in {m.type} |->
     CASE id \in {HEARTBEAT, SYS_QUERY_REQUEST} -> Null
       [] id = SYS_QUERY_RESPONSE ->
            Array(<<Uint(m.rdrClass), Uint(m.hwModel), Uint(m.hwRev), Text(m.serial),
                    Uint(m.swVerMajor), Uint(m.swVerMinor)>>)
       [] id = ACTIVATE_AUTH_METHOD ->
            Array([i \in 1 .. Len(m.authMethods) |-> Uint(m.authMethods[i])])
       [] id = RDR_FAILURE -> FailureText(m)
       [] id = UI_UPDATE -> Uint(m.ui_class0_state)
       [] id = AM0_PICC_UID_OBTAINED ->
            Array([i \in 1 .. Len(m.authMethod0UuidObtained) |->
                     Bytes(m.authMethod0UuidObtained[i])])]

\* Octets that a head with argument n takes on the wire, and what the encoder writes.
HeadSize(n) == IF n < 24 THEN 1 ELSE IF n < 256 THEN 2 ELSE IF n < 65536 THEN 3 ELSE 5
LeafSize(x) ==
  CASE x.type = "NULL" -> 1
    [] x.type = "UINT" -> HeadSize(x.uint)
    [] x.type \in {"TEXT", "BYTES"} -> HeadSize(x.octets.length) + x.octets.length
ItemSize(x) ==
  IF x.type = "ARRAY"
    THEN HeadSize(Len(x.children)) +
           SumFunction([i \in 1 .. Len(x.children) |-> LeafSize(x.children[i])])
    ELSE LeafSize(x)
Size(doc) == HeadSize(Cardinality(DOMAIN doc)) +
             SumFunction([id \in DOMAIN doc |-> HeadSize(id) + ItemSize(doc[id])])

\* Nodes in the tree of a document: the map, its keys, the items and what they hold.
ElementNodes(x) == IF x.type = "CONTAINER" THEN 1 + x.nodes ELSE 1
ItemNodes(x) ==
  IF x.type = "ARRAY"
    THEN 1 + SumFunction([i \in 1 .. Len(x.children) |-> ElementNodes(x.children[i])])
    ELSE ElementNodes(x)
Nodes(doc) == 1 + SumFunction([id \in DOMAIN doc |-> 1 + ItemNodes(doc[id])])
-----------------------------------------------------------------------------
(* Decoding a tree *)

IsUint(x, limit) == x.type = "UINT" /\ x.uint <= limit
IsText(x, limit) == x.type = "TEXT" /\ x.octets.length <= limit
IsArray(x, lengths) == x.type = "ARRAY" /\ Len(x.children) \in lengths

\* cn_cbor_mapget_int for one id after the other: the first one that is there.
Known(doc) == DOMAIN doc \cap DeadcomCRPMType
Id(doc) == CHOOSE id \in Known(doc) : \A other \in Known(doc) : id <= other

\* The length of a list is looked at, the type of its elements is not.  An element that
\* has 4, 7 or 10 items in it passes for an UID of so many octets, and v.bytes, which
\* such an item does not have, is where they are copied from: whatever is there, if
\* the copy ends at all.
AuthMethod(x) == IF x.type = "UINT" THEN x.uint ELSE Arbitrary
Uid(x) ==
  IF x.type = "CONTAINER" THEN [length |-> x.length, content |-> Arbitrary] ELSE x.octets
UidAccepted(x) == Uid(x).length \in UidLengths

\* Variants: the length of the list is not looked at; the limit is off by one.
AnyLength == Nat
ShortLength == 1 .. 9
AcceptedLength == ListLength

\* Payloads that pass the checks, and what they are decoded to.
Accepted(id, x) ==
  CASE id \in {HEARTBEAT, SYS_QUERY_REQUEST} -> TRUE
    [] id = SYS_QUERY_RESPONSE ->
         /\ x.type = "ARRAY" /\ Len(x.children) >= 6
         /\ \A i \in 1 .. 3 : IsUint(x.children[i], 65535)
         /\ IsText(x.children[4], 25)
         /\ \A i \in 5 .. 6 : IsUint(x.children[i], 255)
    [] id = ACTIVATE_AUTH_METHOD -> IsArray(x, AcceptedLength)
    [] id = RDR_FAILURE -> IsText(x, 200)
    [] id = UI_UPDATE -> IsUint(x, 255)
    [] id = AM0_PICC_UID_OBTAINED ->
         /\ IsArray(x, AcceptedLength)
         /\ \A i \in 1 .. Len(x.children) : UidAccepted(x.children[i])
Decoded(id, x) ==
  CASE id \in {HEARTBEAT, SYS_QUERY_REQUEST} -> Bare(id)
    [] id = SYS_QUERY_RESPONSE ->
         SysQueryResponse(x.children[1].uint, x.children[2].uint, x.children[3].uint,
                          x.children[4].octets, x.children[5].uint, x.children[6].uint)
    [] id = ACTIVATE_AUTH_METHOD ->
         ActivateAuthMethod([i \in 1 .. Len(x.children) |-> AuthMethod(x.children[i])])
    [] id = RDR_FAILURE -> RdrFailure(x.octets)
    [] id = UI_UPDATE -> UiUpdate(x.uint)
    [] id = AM0_PICC_UID_OBTAINED ->
         PiccUidObtained([i \in 1 .. Len(x.children) |-> Uid(x.children[i])])

\* Octets written into a member for a text: its own, and the terminator behind them.
Written(t) == t.length + 1
-----------------------------------------------------------------------------
VARIABLES
  capacity, free,  \* nodes of the pool, and how many of them are free
  exhausted,       \* has an encoding run out of nodes?
  crpm_in, buf,    \* the message last encoded, and the document in the buffer
  crpm_out,        \* the message last decoded
  call, buf_size, status  \* the last call: what it did, its buffer, what it returned

vars == <<capacity, free, exhausted, crpm_in, buf, crpm_out, call, buf_size, status>>

NoDocument == [id \in {} |-> Null]

Init ==
  /\ capacity \in PoolSizes /\ free = capacity
  /\ exhausted = FALSE
  /\ crpm_in = Zeroed /\ buf = NoDocument /\ crpm_out = Zeroed
  /\ call = "none" /\ buf_size = 0 /\ status = "none"

\* The pool has a node for everything in the document.
HasRoom(doc) == Nodes(doc) <= free

\* The call returns r, and the pool is left with n free nodes.
Return(r, n) == status' = r /\ free' = n /\ UNCHANGED capacity

Encode(m, size) ==
  call' = "encode" /\ buf_size' = size /\ crpm_in' = m /\ UNCHANGED crpm_out

\* A message of a type that is not known: the map is freed again.
EncodeUnknown(m, size) ==
  /\ m.type \notin DeadcomCRPMType /\ free >= 1
  /\ Encode(m, size) /\ buf' = NoDocument
  /\ Return("DCRCP_STATUS_INVALID_PARAM", free)
  /\ UNCHANGED exhausted

\* Node free + 1 cannot be had: the call returns and frees nothing of what it has
\* built so far.  For an UID that is reported as a parameter error.
MissingUid(m) ==
  /\ m.type = AM0_PICC_UID_OBTAINED
  /\ free + 1 \in 3 .. 2 + Len(m.authMethod0UuidObtained)
EncodeExhausted(m, size) ==
  /\ IF m.type \in DeadcomCRPMType THEN ~HasRoom(Document(m)) ELSE free = 0
  /\ Encode(m, size) /\ buf' = NoDocument
  /\ Return(IF MissingUid(m) THEN "DCRCP_STATUS_INVALID_PARAM"
                             ELSE "DCRCP_STATUS_OUT_OF_MEMORY", 0)
  /\ exhausted' = TRUE

\* Variant: the tree is freed when it was written, but not when it did not fit.
KeepTree(m) == free - Nodes(Document(m))
FreeTree(m) == free

EncodeTooLong(m, size) ==
  /\ m.type \in DeadcomCRPMType /\ HasRoom(Document(m))
  /\ Size(Document(m)) > size
  /\ Encode(m, size) /\ buf' = NoDocument
  /\ Return("DCRCP_STATUS_BUFFER_SMALL", FreeTree(m))
  /\ UNCHANGED exhausted

EncodeDone(m, size) ==
  /\ m.type \in DeadcomCRPMType /\ HasRoom(Document(m))
  /\ Size(Document(m)) <= size
  /\ Encode(m, size) /\ buf' = Document(m)
  /\ Return("DCRCP_STATUS_OK", free)
  /\ UNCHANGED exhausted

dcrcpEncode(m, size) ==
  EncodeUnknown(m, size) \/ EncodeExhausted(m, size) \/ EncodeTooLong(m, size)
    \/ EncodeDone(m, size)

\* cn_cbor_decode allocates a node for each item, and frees them all when one is
\* missing or when the octets are no CBOR.
Decode(from) == call' = from /\ UNCHANGED <<exhausted, crpm_in, buf, buf_size>>

DecodeGarbled ==
  /\ Decode("garbage")
  /\ Return("DCRCP_STATUS_DECODE_FAIL", free)
  /\ crpm_out' = Zeroed

DecodeExhausted(doc, from) ==
  /\ Decode(from)
  /\ ~HasRoom(doc)
  /\ Return("DCRCP_STATUS_OUT_OF_MEMORY", free)
  /\ crpm_out' = Zeroed

\* What a failed call has filled of crpm_out is left out: its caller has no message.
DecodeRejected(doc, from) ==
  /\ Decode(from)
  /\ HasRoom(doc)
  /\ ~(Known(doc) # {} /\ Accepted(Id(doc), doc[Id(doc)]))
  /\ Return("DCRCP_STATUS_SCHEMA_FAIL", free)
  /\ crpm_out' = Zeroed

DecodeDone(doc, from) ==
  /\ Decode(from)
  /\ HasRoom(doc)
  /\ Known(doc) # {} /\ Accepted(Id(doc), doc[Id(doc)])
  /\ Return("DCRCP_STATUS_OK", free)
  /\ crpm_out' = Decoded(Id(doc), doc[Id(doc)])

dcrcpDecode(doc, from) ==
  DecodeExhausted(doc, from) \/ DecodeRejected(doc, from) \/ DecodeDone(doc, from)

Next ==
  \/ \E m \in Messages, size \in BufSizes : dcrcpEncode(m, size)
  \/ buf # NoDocument /\ dcrcpDecode(buf, "own")
  \/ \E doc \in Foreign : dcrcpDecode(doc, "foreign")
  \/ DecodeGarbled
Spec == Init /\ [][Next]_vars
-----------------------------------------------------------------------------
\* A message the protocol allows, once encoded, is decoded to what it was; and a pool
\* that was enough to encode it is enough to decode it, however often either is done.
RoundTrip ==
  call = "own" /\ crpm_in \in Conforming =>
    status = "DCRCP_STATUS_OK" /\ crpm_out = crpm_in

\* What is decoded is written within the members of DeadcomCRPM.
Fits(m) ==
  /\ m.rdrClass <= 65535 /\ m.hwModel <= 65535 /\ m.hwRev <= 65535
  /\ m.swVerMajor <= 255 /\ m.swVerMinor <= 255
  /\ Written(m.serial) <= 26 /\ Written(m.rdrFailure) <= 200
  /\ Len(m.authMethods) <= 10 /\ Len(m.authMethod0UuidObtained) <= 10
  /\ \A i \in 1 .. Len(m.authMethod0UuidObtained) : m.authMethod0UuidObtained[i].length <= 10

\* Whatever document it is given, dcrcpDecode writes outside a member in one case, and
\* in that case always: a failure text of 200 octets, which protocol.cddl allows, has
\* its terminator written at rdrFailure[200], one past the member.
TerminatorOverruns == ~Fits(crpm_out) <=> crpm_out.rdrFailure.length = 200

\* Both calls give back the nodes they took, on every path but one: an encoding that
\* finds the pool empty half way.
NothingLeaked == free # capacity => exhausted

\* Thirteen nodes, not the nine of DCRCP_REQUIRED_CNCBOR_BUFFERS, are enough for any
\* number of calls: the first encoding that runs out of them is of a message that the
\* protocol does not allow.
PoolLasts ==
  [][~exhausted /\ exhausted' /\ crpm_in' \in Conforming => capacity < 13]_vars

\* 204 octets are room for every message the protocol allows; dcl2 carries more.
RoomEnough ==
  crpm_in \in Conforming /\ status = "DCRCP_STATUS_BUFFER_SMALL" => buf_size < 204
=============================================================================
