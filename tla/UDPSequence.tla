---------------------------- MODULE UDPSequence ----------------------------
(***************************************************************************)
(* The arithmetic of the 16-bit sequence numbers of UDP messages and the   *)
(* receive windows a UDP connection classifies them into.  Every integer   *)
(* is written as the code computes it: no subtraction below goes under     *)
(* zero, so the unsigned types of the code never wrap except where         *)
(* NextSequenceNumber wraps them on purpose.                               *)
(***************************************************************************)
EXTENDS Integers

CONSTANT MaxSequenceNumber  \* largest sequence number; 65535 in the code

ASSUME MaxSequenceNumberAssumption == MaxSequenceNumber \in Nat \ {0}

SequenceNumbers == 0..MaxSequenceNumber

NumSequenceNumbers == MaxSequenceNumber + 1

\* Mutant: the successor does not start again.
NextSequenceNumber_NoWrap(current) == current + 1

\* The successor, which starts again from 0 after the largest one.
NextSequenceNumber(current) ==
    IF current = MaxSequenceNumber THEN 0 ELSE current + 1

\* Mutant: the number taken last counts as one that follows it.
InCurrentWindow_FromLast(seqnum, last, wnd) ==
    IF MaxSequenceNumber - wnd >= last
    THEN last <= seqnum /\ seqnum <= last + wnd
    ELSE LET r1 == MaxSequenceNumber - last
             r2 == wnd - r1
         IN  \/ last <= seqnum /\ seqnum <= last + r1
             \/ seqnum < r2

\* One of the wnd numbers that follow last.
InCurrentWindow(seqnum, last, wnd) ==
    IF MaxSequenceNumber - wnd >= last
    THEN last < seqnum /\ seqnum <= last + wnd
    ELSE LET r1 == MaxSequenceNumber - last
             r2 == wnd - r1
         IN  \/ last < seqnum /\ seqnum <= last + r1
             \/ seqnum < r2

\* The number last itself or one of the wnd numbers before it.
InPreviousWindow(seqnum, last, wnd) ==
    IF last >= wnd
    THEN last - wnd <= seqnum /\ seqnum <= last
    ELSE LET r1 == last
             r2 == MaxSequenceNumber - (wnd - r1)
         IN  \/ 0 <= seqnum /\ seqnum <= r1
             \/ r2 < seqnum /\ seqnum <= MaxSequenceNumber

\* Mutant: what is not in the current window is taken for an old message.
WindowOf_NeverUnknown(seqnum, last, wnd) ==
    IF InCurrentWindow(seqnum, last, wnd) THEN "Current" ELSE "Previous"

\* How a received Data or State message is classified.
WindowOf(seqnum, last, wnd) ==
    IF InCurrentWindow(seqnum, last, wnd) THEN "Current"
    ELSE IF InPreviousWindow(seqnum, last, wnd) THEN "Previous"
    ELSE "Unknown"

\* The number reached from one by counting on.
CountOn(seqnum, steps) == (seqnum + steps) % NumSequenceNumbers

-----------------------------------------------------------------------------
(* Reference definition, by the distance travelled from one number to      *)
(* another when counting upwards with wrap-around.                         *)

Distance(from, to) ==
    IF to >= from THEN to - from ELSE to - from + NumSequenceNumbers

ReferenceWindowOf(seqnum, last, wnd) ==
    IF Distance(last, seqnum) \in 1..wnd THEN "Current"
    ELSE IF Distance(seqnum, last) \in 0..wnd THEN "Previous"
    ELSE "Unknown"
=============================================================================
