------------------------------ MODULE MCYahdlc ------------------------------
(* Frames for the runs of Yahdlc, and the table of Fcs against its definition. *)
EXTENDS YahdlcInv

Numbered(type, n, m) == [frame |-> type, send_seq_no |-> n, recv_seq_no |-> m]
Ack == [control |-> Numbered("ACK", 0, 5), data |-> <<>>]
\* What must be escaped in every place where it can be: a flag for the control octet
\* and in the payload, an escape octet in the checksum.  With its checksum the frame is
\* as long as MaxFrameLen = 5 allows.
Escapes == [control |-> Numbered("DATA", 7, 3), data |-> <<Flag, 172>>]
ShortAndLong == {Ack, Escapes}
-----------------------------------------------------------------------------
\* The register shifted bit by bit: the low bit leaves it and, if it was set, the
\* polynomial x^16 + x^12 + x^5 + 1, least significant bit first, is added.
Polynomial == 33800
Shift(x) == IF x % 2 = 1 THEN XorWord(x \div 2, Polynomial) ELSE x \div 2
Serial(fcs, value) ==
  LET after[k \in 0 .. 8] == IF k = 0 THEN XorWord(fcs, value) ELSE Shift(after[k - 1])
  IN  after[8]

\* fcstab is the table of the polynomial: fcs16 is eight shifts, whatever the register
\* holds.  (The octet only changes its low half, before the first shift.)  This is
\* about the table alone, and looked at before the first frame.
TableIsPolynomial ==
  sent = <<>> => \A fcs \in 0 .. 65535 : fcs16(fcs, 0) = Serial(fcs, 0)
-----------------------------------------------------------------------------
\* The limits of dcl2.h, with a payload of two octets for one of 249: the limit on a
\* frame is that of an escaped one, although the decoder counts decoded octets.
DEADCOM_PAYLOAD_MAX_LEN == 2
DEADCOM_MAX_FRAME_LEN == 2 * DEADCOM_PAYLOAD_MAX_LEN + 10
UpToLimit ==
  {[control |-> Numbered("DATA", 1, 0), data |-> SubSeq(<<1, 2>>, 1, n)] :
     n \in 1 .. DEADCOM_PAYLOAD_MAX_LEN}

\* What the decoder stores of a frame fits scratchpadBuffer, which dcProcessData gives
\* it as its destination, if the line damages nothing.
ScratchpadHolds == Len(yahdlc_state.dest) <= DEADCOM_PAYLOAD_MAX_LEN
=============================================================================
