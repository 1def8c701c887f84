------------------------------ MODULE MCDcrcp ------------------------------
(* Messages and documents for the run of Dcrcp, at the limits and beyond them. *)
EXTENDS Dcrcp

Of(n) == [length |-> n, content |-> 1]
Uids(lengths) == PiccUidObtained([i \in 1 .. Len(lengths) |-> Of(lengths[i])])
Repeated(n, length) == [i \in 1 .. n |-> length]

Encoded ==
  {Bare(id) : id \in {HEARTBEAT, SYS_QUERY_REQUEST, 7}}
    \cup {SysQueryResponse(65535, 0, 65535, Of(25), 0, 255),
          SysQueryResponse(23, 1, 24, Of(23), 2, 0)}
    \cup {ActivateAuthMethod([i \in 1 .. n |-> i - 1]) : n \in {0, 1, 6, 7, 10}}
    \cup {RdrFailure(Of(n)) : n \in {1, 23, 24, 200}}
    \cup {UiUpdate(n) : n \in {6, 255}}
    \cup {Uids(lengths) : lengths \in {<<4, 7, 10>>, <<5>>, <<>>, Repeated(10, 10)}}

Only(id, x) == [k \in {id} |-> x]
Fields(class, serial, minor) ==
  <<Uint(class), Uint(0), Uint(0), serial, Uint(0), Uint(minor)>>
Sent ==
  {NoDocument, Only(7, Null), Only(HEARTBEAT, Uint(1)), Only(HEARTBEAT, Container(2, 2)),
   Only(RDR_FAILURE, Container(2, 2)), Only(RDR_FAILURE, Text(Of(200))),
   [id \in {UI_UPDATE, RDR_FAILURE} |-> Uint(3)],
   Only(UI_UPDATE, Uint(256)), Only(RDR_FAILURE, Text(Of(201)))}
    \cup {Only(SYS_QUERY_RESPONSE, Array(s)) :
            s \in {Fields(65536, Text(Of(1)), 0), Fields(0, Text(Of(26)), 0),
                   Fields(0, Bytes(Of(1)), 0), Fields(0, Text(Of(1)), 256),
                   SubSeq(Fields(0, Text(Of(1)), 0), 1, 5),
                   Append(Fields(0, Text(Of(1)), 0), Null)}}
    \cup {Only(ACTIVATE_AUTH_METHOD, Array(s)) :
            s \in {<<Text(Of(1))>>, <<Container(1, 1)>>, [i \in 1 .. 11 |-> Uint(0)]}}
    \cup {Only(AM0_PICC_UID_OBTAINED, Array(s)) :
            s \in {<<Bytes(Of(4)), Bytes(Of(11))>>, <<Uint(4)>>, <<Text(Of(4))>>,
                   <<Container(4, 4)>>, <<Bytes(Of(7)), Container(5, 5)>>,
                   <<Container(10, 10), Container(4, 9)>>,
                   [i \in 1 .. 11 |-> Bytes(Of(4))]}}
=============================================================================
