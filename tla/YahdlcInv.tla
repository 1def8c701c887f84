----------------------------- MODULE YahdlcInv -----------------------------
(***************************************************************************)
(* Why a frame that nothing happened to is decoded.                        *)
(*                                                                         *)
(* While it is on the way, its octets follow one another in what the       *)
(* decoder has still to see, whatever surrounds them; damage in front of   *)
(* it moves them, and no more.  When its first flag comes up the decoder   *)
(* is between two frames or becomes so: it ends the one it is in and sees  *)
(* the flag again, or it has taken an earlier flag for the first, which is *)
(* as good.  From then on what it holds is a beginning of the frame, until *)
(* a flag comes up again: the last one of the frame or one right behind.   *)
(*                                                                         *)
(* And why nothing else is, as long as the line damages nothing, or is     *)
(* gentle: behind a frame comes the next one, so that the flag which ends  *)
(* what is left of a frame does not run it together with another one; and  *)
(* what the decoder holds of a frame with an octet changed is what it      *)
(* reads on one of a few lines, none of which the checksum lets through.   *)
(***************************************************************************)
EXTENDS Yahdlc

\* All that the decoder has still to see.
Stream == chunk \o arrived \o wire

Line(j) == yahdlc_frame_data(sent[j])

\* s has, from offset a on, the line of frame j without its first k octets.
Piece(s, line, j, k, a) ==
  /\ a + Len(line) - k <= Len(s)
  /\ \A i \in 1 .. Len(line) - k : s[a + i] = [value |-> line[k + i], of |-> j]

Unreached(j) ==
  LET s == Stream
      line == Line(j)
  IN  \E a \in 0 .. Len(s) : Piece(s, line, j, 0, a)

\* Where in the line of frame j the last octet is that stands for octet m of the frame.
Place(j, m) == 1 + Len(Escaped(WithFcs(sent[j]))[m])

\* What the decoder holds is a beginning of frame j: everything up to octet m, and
\* perhaps the escape octet of the next one; it has read t there.
BegunAs(j, t) ==
  LET d == yahdlc_state
      m == d.frame_byte_index
      octets == WithFcs(sent[j])
  IN  /\ d.started /\ m <= Len(octets)
      /\ d.fcs = Registers(t)[m]
      /\ m > 1 => d.frame_control = t[2]
      /\ \A i \in DOMAIN d.dest : d.dest[i] = t[i + 2]
      /\ d.control_escape => m < Len(octets) /\ octets[m + 1] \in {Flag, Escape}
      /\ d.length = Place(j, m) + (IF d.control_escape THEN 1 ELSE 0)

\* The rest of the frame is there, as it is on line.
InProgressAs(j, line, t) == BegunAs(j, t) /\ Piece(Stream, line, j, yahdlc_state.length, 0)

\* All of frame j; a flag comes next, and need not be the frame's own.
CompleteAs(j, t) ==
  /\ chunk # <<>> /\ First = Flag
  /\ BegunAs(j, t) /\ yahdlc_state.frame_byte_index = Len(WithFcs(sent[j]))

\* Nothing happened to the frame.
InProgress(j) == InProgressAs(j, Line(j), WithFcs(sent[j]))
Complete(j) == CompleteAs(j, WithFcs(sent[j]))
-----------------------------------------------------------------------------
\* Octets belong to frames that were sent, and those of one frame come before those
\* of the next.
Labelled(s, frames) ==
  /\ \A p \in DOMAIN s : s[p].of \in frames
  /\ \A p, q \in DOMAIN s : p < q => s[p].of <= s[q].of
LabelInv == damaged \subseteq DOMAIN sent /\ Labelled(Stream, DOMAIN sent)

\* Outside a frame, and right after its first flag, nothing is left of the last one.
IdleInv ==
  LET d == yahdlc_state
  IN  /\ ~d.started => d = yahdlc_reset_state
      /\ d.started => d.length >= 1
      /\ d.started /\ d.length = 1 =>
           d = [yahdlc_reset_state EXCEPT !.started = TRUE, !.length = 1]

\* Of the frames up to c those that were not damaged are decoded; of the others, those
\* that were not damaged are on the way, the first of them perhaps half decoded.
DecodedUpTo(c) ==
  /\ Embeds((1 .. c) \ damaged, sent, received)
  /\ \A j \in DOMAIN sent \ damaged :
       j > c => Unreached(j) \/ (j = c + 1 /\ (InProgress(j) \/ Complete(j)))

\* The inductive invariant behind UndamagedReceived.
UndamagedInv == LabelInv /\ IdleInv /\ \E c \in 0 .. Len(sent) : DecodedUpTo(c)
-----------------------------------------------------------------------------
\* The line of frame j as it may arrive, if the line was gentle; and what the decoder
\* reads on it.
Variants(j) ==
  LET line == Line(j)
      hit == {i \in DOMAIN line : damage > 0 /\ j \in damaged /\ line[i] \in Ordinary}
  IN  {line} \cup {[line EXCEPT ![i] = v] : i \in hit, v \in Ordinary}
Read(j, line) ==
  LET octets == WithFcs(sent[j])
  IN  [m \in DOMAIN octets |->
         LET v == line[Place(j, m)] IN IF octets[m] \in {Flag, Escape} THEN Flip(v) ELSE v]

\* All of frame j comes behind the first a octets of s.
Arrives(s, j, a) == \E line \in Variants(j) : Piece(s, line, j, 0, a)

\* Behind what is left of a frame on the way comes another one, a later one and whole, or
\* nothing.
FrameAfterFrame(s) ==
  \A p \in DOMAIN s :
    LET j == s[p].of
    IN  \E line \in Variants(j), k \in 0 .. Len(Line(j)) - 1 :
          LET end == p - 1 + Len(Line(j)) - k
          IN  /\ Piece(s, line, j, k, p - 1)
              /\ end = Len(s) \/ \E i \in DOMAIN sent : i > j /\ Arrives(s, i, end)

\* Behind the first k octets come later frames than c.
Later(c, k) == \A p \in DOMAIN Stream : p > k => Stream[p].of > c

\* The decoder is in frame j, and what comes behind is later.
Inside(j) ==
  \E line \in Variants(j) :
     LET t == Read(j, line)
     IN  \/ InProgressAs(j, line, t) /\ Later(j, Len(Line(j)) - yahdlc_state.length)
         \/ CompleteAs(j, t) /\ Later(j, 1)

\* What is decoded are frames up to c, and what the decoder holds is nothing of those: it
\* has taken a flag and another one comes next, or it is in a later frame.
FaithfulUpTo(c) ==
  LET d == yahdlc_state
  IN  /\ Embeds(DOMAIN received, received, SubSeq(sent, 1, c))
      /\ Later(c, 1)
      /\ d.started =>
           \/ d.length = 1 /\ (Stream = <<>> \/ \E j \in DOMAIN sent : Arrives(Stream, j, 0))
           \/ \E j \in DOMAIN sent : j > c /\ Inside(j)

\* The inductive invariant behind OnlySent, for a gentle line, and for one that has
\* damaged nothing.
GentleInv == FrameAfterFrame(Stream) /\ \E c \in 0 .. Len(sent) : FaithfulUpTo(c)
FaithfulInv == damage \in Nat /\ (damage = 0 => GentleInv)
=============================================================================
