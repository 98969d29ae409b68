------------------------------- MODULE MCOnewire -------------------------------
(* Constants of the run of Onewire that are not single values, and what its        *)
(* constraint leaves out.                                                          *)
EXTENDS Onewire

R(type, value) == [type |-> type, value |-> value]

\* A template of zeros ahead of a type of unknown width.
Zeros == [records |-> <<R(Capacity, 0), R(7, 1)>>, short |-> 0]

\* Values that differ in the two byte orders and one that is a delimiter, ahead of a
\* record of which the type is all that is there.
Values == [records |-> <<R(DcCurrent, 512), R(Capacity, 126), R(DcVoltage, 3)>>, short |-> 2]

\* A frame that ends inside a value.
Unfinished == [records |-> <<R(DcCurrent, 512), R(DcVoltage, 3)>>, short |-> 1]

MCReports == {Zeros, Values, Unfinished}

\* A reply broken off ahead of its first value, and the push behind it: the checksum is
\* looked for where the push has its sequence.  The run reaches this state (its sequence
\* and its cut are chosen so) and NoForgery ends it there.
ASSUME TailIsBorrowed ==
  LET broken == SubSeq(ReportFrame(Rsp, ProbeId, 1, Values), 1, 13)
  IN 1 \in Verified(broken \o ReportFrame(Req, ProbeId, 28, Zeros))

\* One whole frame with a delimiter in its payload from which every check on a frame
\* passes.  battery_frame.h:136-138 says that such a start cannot be mistaken for one.
ASSUME PayloadHoldsAFrame ==
  LET report == [records |-> <<R(DcCurrent, 126), R(2, 1), R(Temperature, 3843),
                               R(Capacity, 0), R(Capacity, 0), R(DcCurrent, 0),
                               R(DcVoltage, 0), R(DcVoltage, 54)>>,
                 short |-> 0]
      f == ReportFrame(Rsp, ProbeId, 1, report)
  IN \E d \in Verified(f) : d # 1
=============================================================================
