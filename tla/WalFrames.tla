---------------------------- MODULE WalFrames -----------------------------
(***************************************************************************)
(* The byte frames of a WAL segment and the two programs that read them:   *)
(* garbage collection decodes the whole file in memory, replay reads one   *)
(* frame at a time from the open file.                                     *)
(*                                                                         *)
(* Sources: teodb-storage/src/wal/segment/segment.rs,                      *)
(* teodb-storage/src/wal/replay.rs.                                        *)
(*                                                                         *)
(* Bytes, the length field, the checksum and the alignment are scaled      *)
(* down: one byte of length, one of checksum, frames aligned to AlignTo.   *)
(* A payload parses when its first byte is not zero, and its record is the *)
(* payload itself.                                                         *)
(***************************************************************************)
EXTENDS Integers, Sequences, FiniteSets, SequencesExt

CONSTANTS ByteValues,       \* 0 .. some maximum
          AlignTo,          \* frames are padded to a multiple of this
          MaxPayload        \* a longer length field is implausible

FrameHeaderSize == 2

Checksum(payload) == FoldLeft(LAMBDA a, b : a + b, 0, payload) % Cardinality(ByteValues)

Parses(payload) == payload[1] # 0

Padding(len) == (AlignTo - ((FrameHeaderSize + len) % AlignTo)) % AlignTo

Zeros(n) == [i \in 1..n |-> 0]

AllZero(data) == \A i \in DOMAIN data : data[i] = 0

\* The code checks no length here: a payload above MAX_PAYLOAD_BYTES is written as
\* any other, and DecodeFrame takes it for damage.
EncodeFrame(payload) ==
  <<Len(payload), Checksum(payload)>> \o payload \o Zeros(Padding(Len(payload)))

\* The three outcomes of decoding.
Complete(payload, size) == [is |-> "complete", record |-> payload, size |-> size]

Incomplete == [is |-> "incomplete"]

Corrupt == [is |-> "corrupt"]

DecodeFrame(data) ==
  IF Len(data) < FrameHeaderSize THEN Incomplete
  ELSE LET len     == data[1]
           content == FrameHeaderSize + len
           payload == SubSeq(data, FrameHeaderSize + 1, content)
       IN CASE len = 0            -> IF AllZero(data) THEN Incomplete ELSE Corrupt
            [] len > MaxPayload   -> Corrupt
            [] Len(data) < content -> Incomplete
            [] Checksum(payload) # data[2] \/ ~Parses(payload) -> Corrupt
            [] OTHER -> Complete(payload, content + Padding(len))

\* Mutant: a frame whose padding was cut off is left unread.
ReadFrame_NeedsPadding(data, offset) ==
  LET left == SubSeq(data, offset + 1, Len(data))
  IN IF Len(left) < FrameHeaderSize THEN Incomplete
     ELSE LET len == left[1]
          IN CASE len = 0          -> IF AllZero(left) THEN Incomplete ELSE Corrupt
               [] len > MaxPayload -> Corrupt
               [] Len(left) < FrameHeaderSize + len + Padding(len) -> Incomplete
               [] OTHER ->
                    DecodeFrame(SubSeq(left, 1, FrameHeaderSize + len + Padding(len)))

\* Replay reads the header, then the zero tail or the frame's own bytes with as
\* much of its padding as the file has, and decodes those.
ReadFrame(data, offset) ==
  LET left == SubSeq(data, offset + 1, Len(data))
      smaller(a, b) == IF a < b THEN a ELSE b
  IN IF Len(left) < FrameHeaderSize THEN Incomplete
     ELSE LET len     == left[1]
              content == FrameHeaderSize + len
          IN CASE len = 0             -> IF AllZero(left) THEN Incomplete ELSE Corrupt
               [] len > MaxPayload    -> Corrupt
               [] Len(left) < content -> Incomplete
               [] OTHER ->
                    DecodeFrame(SubSeq(left, 1,
                      content + smaller(Padding(len), Len(left) - content)))

\* The loop of both readers: the frames up to the end, a torn tail or damage;
\* "decoded" is what the reader makes of the bytes from each offset.
Walk(data, decoded) ==
  LET step(acc, i) ==
        IF acc.done \/ acc.offset >= Len(data) THEN acc
        ELSE LET d == decoded[acc.offset]
             IN IF d.is = "complete"
                  THEN [acc EXCEPT !.records = Append(@, d.record), !.offset = @ + d.size]
                  ELSE [acc EXCEPT !.done = TRUE, !.corrupt = d.is = "corrupt"]
      start == [records |-> <<>>, offset |-> 0, done |-> FALSE, corrupt |-> FALSE]
      end   == FoldLeft(step, start, [i \in 1..(Len(data) + 1) |-> i])
  IN [records |-> end.records, corrupt |-> end.corrupt]

ScanSegment(data) ==
  Walk(data, [offset \in 0 .. Len(data) |->
                DecodeFrame(SubSeq(data, offset + 1, Len(data)))])

ReplaySegment(data) ==
  Walk(data, [offset \in 0 .. Len(data) |-> ReadFrame(data, offset)])

-----------------------------------------------------------------------------

\* The two readers see the same segment in any file: garbage collection, which
\* deletes by what it sees, and replay, which serves what it sees, agree on the
\* records and on whether the segment is damaged.
ReadersAgree(data) == ScanSegment(data) = ReplaySegment(data)

\* A segment cut anywhere by a crash holds exactly the records whose content is
\* wholly before the cut, and is never taken for a damaged one.
Segment(payloads) == FlattenSeq([i \in DOMAIN payloads |-> EncodeFrame(payloads[i])])

Whole(payloads, cut) ==
  LET start(i) == Len(Segment(SubSeq(payloads, 1, i - 1)))
  IN {i \in DOMAIN payloads : start(i) + FrameHeaderSize + Len(payloads[i]) <= cut}

TornTail(payloads, cut) ==
  LET kept == Cardinality(Whole(payloads, cut))
  IN ReplaySegment(SubSeq(Segment(payloads), 1, cut))
       = [records |-> SubSeq(payloads, 1, kept), corrupt |-> FALSE]
=============================================================================
