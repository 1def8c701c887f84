------------------------------- MODULE Yahdlc -------------------------------
(***************************************************************************)
(* Framing (dcl2/lib/src/yahdlc.c) over a line that damages octets: a      *)
(* station encodes frames, the line carries them octet by octet, and the   *)
(* receive thread of the other station hands what has arrived, in chunks   *)
(* cut anywhere, to dcProcessData, which decodes it.                       *)
(*                                                                         *)
(* Dcl2 takes for granted that a frame is received as it was sent or not   *)
(* at all, in order.  This module is about where that comes from.          *)
(*                                                                         *)
(* One step is one turn of the loop over the octets in yahdlc_get_data.  A *)
(* frame that ends leaves its last flag in the chunk, where the next turn  *)
(* takes it for the first flag of the next frame.                          *)
(***************************************************************************)
EXTENDS Fcs

CONSTANTS
  MaxFrameLen,      \* max_frame_len: the limit on decoded octets
  Frames,           \* frames a station may send
  MaxSent,          \* bound: frames sent
  MaxChunk,         \* bound: octets the receive thread reads at once
  Noise, MaxDamage, \* octets the line makes up; bound: octets it damages
  MaxHandlerFails   \* bound: calls ended by an external method that failed

Flag == 126
Escape == 125
AllStation == 255

VARIABLES
  yahdlc_state,  \* the decoder, with the octets it has put in dest
  chunk,         \* what the dcProcessData call in progress has not looked at
  arrived,       \* octets the line delivered since the last call
  wire,          \* octets still to be carried
  sent,          \* frames encoded
  received,      \* frames decoded
  damaged,       \* which of sent lost or gained an octet on the way
  damage, handlerFails  \* how much of each bound is used up

vars == <<yahdlc_state, chunk, arrived, wire, sent, received, damaged, damage, handlerFails>>
-----------------------------------------------------------------------------
(* Control octet *)

FrameType == {"DATA", "ACK", "NACK", "CONN", "CONN_ACK"}
ControlField == [frame : FrameType, send_seq_no : 0 .. 7, recv_seq_no : 0 .. 7]
\* A zeroed structure, as the decoder starts from: frame 0 is DATA.
NoControl == [frame |-> "DATA", send_seq_no |-> 0, recv_seq_no |-> 0]

yahdlc_frame_control_type(c) ==
  CASE c.frame = "DATA" -> 2 * c.send_seq_no + 32 * c.recv_seq_no + 16
    [] c.frame = "ACK" -> 32 * c.recv_seq_no + 1
    [] c.frame = "NACK" -> 32 * c.recv_seq_no + 9
    [] c.frame = "CONN" -> 63
    [] c.frame = "CONN_ACK" -> 99

yahdlc_get_control_type(b) ==
  LET number == b \div 32
      supervisory == [NoControl EXCEPT !.recv_seq_no = number]
  IN  CASE b % 2 = 0 -> [supervisory EXCEPT !.send_seq_no = (b \div 2) % 8]
        [] b % 4 = 3 /\ number = 1 -> [NoControl EXCEPT !.frame = "CONN"]
        [] b % 4 = 3 /\ number = 3 -> [NoControl EXCEPT !.frame = "CONN_ACK"]
        [] b % 4 = 3 /\ number \notin {1, 3} -> NoControl
        [] b % 4 = 1 /\ (b \div 4) % 4 = 0 -> [supervisory EXCEPT !.frame = "ACK"]
        [] b % 4 = 1 /\ (b \div 4) % 4 # 0 -> [supervisory EXCEPT !.frame = "NACK"]
-----------------------------------------------------------------------------
(* Encoder *)

\* value ^ 0x20
Flip(v) == IF (v \div 32) % 2 = 1 THEN v - 32 ELSE v + 32

yahdlc_escape_value(v) == IF v \in {Flag, Escape} THEN <<Escape, Flip(v)>> ELSE <<v>>

\* What is checked: address, control and, in a DATA frame only, the payload.
Checked(f) ==
  <<AllStation, yahdlc_frame_control_type(f.control)>>
    \o (IF f.control.frame = "DATA" THEN f.data ELSE <<>>)
\* The inverted register, low octet first.
FcsOctets(fcs) == <<(65535 - fcs) % 256, (65535 - fcs) \div 256>>

\* The loops of the encoder: the register, and what is on the line, after k octets.
Registers(octets) ==
  LET fcs[k \in 0 .. Len(octets)] ==
        IF k = 0 THEN FcsInit ELSE fcs16(fcs[k - 1], octets[k])
  IN  fcs
Escaped(octets) ==
  LET line[k \in 0 .. Len(octets)] ==
        IF k = 0 THEN <<>> ELSE line[k - 1] \o yahdlc_escape_value(octets[k])
  IN  line

WithFcs(f) ==
  LET octets == Checked(f) IN octets \o FcsOctets(Registers(octets)[Len(octets)])
yahdlc_frame_data(f) ==
  LET octets == WithFcs(f) IN <<Flag>> \o Escaped(octets)[Len(octets)] \o <<Flag>>
-----------------------------------------------------------------------------
(* Decoder *)

\* length counts octets since the start flag (src_index - start_index).
DecoderState ==
  [started : BOOLEAN, length : Nat, control_escape : BOOLEAN, fcs : Register,
   frame_byte_index : Nat, frame_control : Octet, dest : Seq(Octet)]

\* Variant: start_index is not reset.
ResetInFrame ==
  [started |-> TRUE, length |-> 0, control_escape |-> FALSE, fcs |-> FcsInit,
   frame_byte_index |-> 0, frame_control |-> 0, dest |-> <<>>]
yahdlc_reset_state ==
  [started |-> FALSE, length |-> 0, control_escape |-> FALSE, fcs |-> FcsInit,
   frame_byte_index |-> 0, frame_control |-> 0, dest |-> <<>>]

\* What a station sends: both numbers of a DATA frame, the one number of an ACK or NACK;
\* data in DATA frames only; and never as much as the decoder would refuse.
Sendable ==
  {c \in ControlField :
     /\ c.frame # "DATA" => c.send_seq_no = 0
     /\ c.frame \in {"CONN", "CONN_ACK"} => c.recv_seq_no = 0}
Message == [control : ControlField, data : Seq(Octet)]
ASSUME FramesAssumption ==
  \A f \in Frames :
     /\ f \in Message /\ f.control \in Sendable
     /\ f.control.frame # "DATA" => f.data = <<>>
     /\ Len(f.data) + 2 < MaxFrameLen

\* The limit leaves room for the checksum, and the line makes up octets.
ASSUME LineAssumption ==
  /\ MaxFrameLen \in Nat /\ MaxFrameLen >= 2
  /\ Noise \subseteq Octet

Init ==
  /\ yahdlc_state = yahdlc_reset_state
  /\ chunk = <<>> /\ arrived = <<>> /\ wire = <<>>
  /\ sent = <<>> /\ received = <<>>
  /\ damaged = {} /\ damage = 0 /\ handlerFails = 0

\* Octets on the way are records: the value, and the number of the frame.
First == chunk[1].value
FlagFollows == Len(chunk) > 1 /\ chunk[2].value = Flag
Consume == chunk' = Tail(chunk)
Elsewhere == <<arrived, wire, sent, damaged, damage, handlerFails>>

\* Outside a frame everything but a flag is thrown away.
SkipOctet ==
  /\ chunk # <<>> /\ First # Flag
  /\ ~yahdlc_state.started
  /\ Consume
  /\ UNCHANGED <<yahdlc_state, received, Elsewhere>>

\* A flag in front of another one, or right after the start flag, is ignored.
RepeatedFlag == FlagFollows \/ (yahdlc_state.started /\ yahdlc_state.length = 1)

SkipFlag ==
  /\ chunk # <<>> /\ First = Flag
  /\ RepeatedFlag
  /\ Consume
  /\ UNCHANGED <<yahdlc_state, received, Elsewhere>>

StartFrame ==
  /\ chunk # <<>> /\ First = Flag
  /\ ~yahdlc_state.started /\ ~RepeatedFlag
  /\ yahdlc_state' = [yahdlc_state EXCEPT !.started = TRUE, !.length = 1]
  /\ Consume
  /\ UNCHANGED <<received, Elsewhere>>

TakeEscape ==
  /\ chunk # <<>> /\ First = Escape
  /\ yahdlc_state.started
  /\ yahdlc_state' = [yahdlc_state EXCEPT !.control_escape = TRUE, !.length = @ + 1]
  /\ Consume
  /\ UNCHANGED <<received, Elsewhere>>

\* Variant: an escaped octet is taken as it stands.
Raw == First
Unescaped == IF yahdlc_state.control_escape THEN Flip(First) ELSE First
\* Variant: the limit is checked after the octet was stored.
FullLate(d) == Len(d.dest) >= MaxFrameLen
Full(d) == Len(d.dest) + 1 >= MaxFrameLen

TakeOctet ==
  /\ chunk # <<>> /\ First \notin {Flag, Escape}
  /\ yahdlc_state.started
  /\ LET d == yahdlc_state
         n == d.frame_byte_index
     IN  IF n > 1 /\ Full(d)
           THEN yahdlc_state' = yahdlc_reset_state /\ UNCHANGED chunk
           ELSE /\ yahdlc_state' =
                     [d EXCEPT !.control_escape = FALSE, !.length = @ + 1,
                               !.fcs = fcs16(@, Unescaped),
                               !.frame_control = IF n = 1 THEN Unescaped ELSE @,
                               !.dest = IF n > 1 THEN Append(@, Unescaped) ELSE @,
                               !.frame_byte_index = n + 1]
                /\ Consume
  /\ UNCHANGED <<received, Elsewhere>>

\* Variant: the checksum is not looked at.
LongEnough(d) == d.length >= 4
GoodFrame(d) == d.length >= 4 /\ d.fcs = FcsGood

Decoded(d) ==
  [control |-> yahdlc_get_control_type(d.frame_control),
   data |-> SubSeq(d.dest, 1, Len(d.dest) - 2)]

\* What is left of the chunk when a frame has ended: the flag, too.
\* Variant: the flag is thrown away with its frame.
RemainingWithoutFlag == Tail(chunk)
Remaining == chunk

EndFrame ==
  /\ chunk # <<>> /\ First = Flag
  /\ yahdlc_state.started /\ ~RepeatedFlag
  /\ yahdlc_state' = yahdlc_reset_state
  /\ received' = IF GoodFrame(yahdlc_state) THEN Append(received, Decoded(yahdlc_state))
                                            ELSE received
  /\ \/ chunk' = Remaining /\ UNCHANGED <<damaged, handlerFails>>
     \* An external method failed: dcProcessData returns, the rest is not decoded.
     \/ /\ GoodFrame(yahdlc_state) /\ handlerFails < MaxHandlerFails
        /\ handlerFails' = handlerFails + 1
        /\ chunk' = <<>>
        /\ damaged' = damaged \cup {chunk[i].of : i \in DOMAIN chunk}
  /\ UNCHANGED <<arrived, wire, sent, damage>>

Decode == SkipOctet \/ SkipFlag \/ StartFrame \/ TakeEscape \/ TakeOctet \/ EndFrame
-----------------------------------------------------------------------------
(* The sending station, the line and the receive thread *)

\* transmitBytes blocks until the frame has been carried.
Send ==
  /\ wire = <<>> /\ Len(sent) < MaxSent
  /\ \E f \in Frames :
       LET octets == yahdlc_frame_data(f)
       IN  /\ sent' = Append(sent, f)
           /\ wire' = [i \in DOMAIN octets |-> [value |-> octets[i], of |-> Len(sent) + 1]]
  /\ UNCHANGED <<yahdlc_state, chunk, arrived, received, damaged, damage, handlerFails>>

\* One octet through lp_transmit: intact, changed or dropped, and then perhaps a
\* made-up one.  Whether the receive thread is decoding meanwhile does not matter.
Carry ==
  /\ wire # <<>> /\ chunk = <<>> /\ Len(arrived) < MaxChunk
  /\ wire' = Tail(wire)
  /\ \E out \in {<<>>} \cup {<<v>> : v \in Noise \cup {Head(wire).value}},
        added \in {<<>>} \cup {<<v>> : v \in Noise} :
       LET intact == out = <<Head(wire).value>>
           octets == out \o added
       IN  /\ damage' = damage + Len(added) + (IF intact THEN 0 ELSE 1)
           /\ damage' <= MaxDamage
           /\ arrived' = arrived \o
                [i \in DOMAIN octets |-> [value |-> octets[i], of |-> Head(wire).of]]
           \* What is added behind the last flag does not hurt the frame.
           /\ damaged' = IF intact /\ (added = <<>> \/ wire' = <<>>)
                           THEN damaged ELSE damaged \cup {Head(wire).of}
  /\ UNCHANGED <<yahdlc_state, chunk, sent, received, handlerFails>>

\* The receive thread calls dcProcessData with what has arrived.
dcProcessData ==
  /\ chunk = <<>> /\ arrived # <<>>
  /\ chunk' = arrived /\ arrived' = <<>>
  /\ UNCHANGED <<yahdlc_state, wire, sent, received, damaged, damage, handlerFails>>

Next == Decode \/ Send \/ Carry \/ dcProcessData
Spec == Init /\ [][Next]_vars
\* The receive thread stays in the loop until the chunk is used up.
LiveSpec == Spec /\ WF_vars(Decode)
-----------------------------------------------------------------------------
\* The decoder never holds max_frame_len octets, and dest has what came after
\* the control octet.
DecoderOK ==
  /\ yahdlc_state \in DecoderState
  /\ Len(yahdlc_state.dest) < MaxFrameLen
  /\ Len(yahdlc_state.dest) =
       IF yahdlc_state.frame_byte_index > 1 THEN yahdlc_state.frame_byte_index - 2 ELSE 0

\* A frame that ends in its inverted register, low octet first, leaves the value the
\* decoder looks for, whatever the frame held.  This is about the checksum alone, and
\* looked at before the first frame.
GoodResidue ==
  sent = <<>> => \A fcs \in 0 .. 256 * 256 - 1 :
    LET last == FcsOctets(fcs) IN fcs16(fcs16(fcs, last[1]), last[2]) = FcsGood
-----------------------------------------------------------------------------
\* The elements of s with an index in D are elements of t, in the same order.
Embeds(D, s, t) ==
  \E g \in [D -> DOMAIN t] :
     /\ \A i \in D : s[i] = t[g[i]]
     /\ \A i, j \in D : i < j => g[i] < g[j]

\* Whatever the line does to the octets, what is decoded are frames that were
\* sent, unchanged and in order, none of them twice.
OnlySent == Embeds(DOMAIN received, received, sent)

\* That is too much to ask of a checksum of 16 bits.  It can be asked if the line keeps
\* every octet in its place and changes no more than one of a frame, one that means
\* itself into one that means itself.
Ordinary == Octet \ {Flag, Escape}
Gentle ==
  Carry /\ damage' # damage =>
    /\ Len(arrived') = Len(arrived) + 1
    /\ {Head(wire).value, arrived'[Len(arrived')].value} \subseteq Ordinary
    /\ Head(wire).of \notin damaged

\* The same of every step: what the decoder gives to dcProcessData is a step of a line
\* that carries frames and loses some.  The last frame received is the first one behind
\* the others that it can be.
EmbedsInFirst(c) == Embeds(DOMAIN received, received, SubSeq(sent, 1, c))
LastReceived ==
  IF OnlySent
    THEN CHOOSE c \in 0 .. Len(sent) :
           EmbedsInFirst(c) /\ \A b \in 0 .. c - 1 : ~EmbedsInFirst(b)
    ELSE 0
Link == INSTANCE FrameLink WITH last <- LastReceived
CarriesFrames == Link!Spec

\* Damage stays where it is: a frame whose octets all arrived is decoded, whatever
\* is left of the frames around it and wherever the chunks are cut.
AllCarried == wire = <<>> /\ arrived = <<>> /\ chunk = <<>>
UndamagedReceived == AllCarried => Embeds(DOMAIN sent \ damaged, sent, received)

\* A call of dcProcessData ends: the loop gets past a flag or an octet it has
\* left in the chunk.
ProcessDataReturns == chunk # <<>> ~> chunk = <<>>

\* It ends after a number of turns that is known at its start: an octet is looked at twice
\* at most, the flag that ends a frame and the octet that makes one too long, and only in a
\* frame that was started.  Nothing a turn leaves in the chunk is left there again.
Turns == 2 * Len(chunk) + (IF yahdlc_state.started THEN 1 ELSE 0)
TurnsEnd == [][Decode => Turns' < Turns]_vars
=============================================================================
