----------------------------- MODULE JsonRows -----------------------------
(***************************************************************************)
(* The rows of a REST answer (http/query/json_rows.rs): the batches of a   *)
(* result stream are written one by one into a JSON array that has at most *)
(* so many rows and at most so many bytes.  A piece of text is a record    *)
(* with its length; a row is a piece of its own.                           *)
(***************************************************************************)
EXTENDS Naturals, Sequences, SequencesExt

Piece(text, row, bytes) == [text |-> text, row |-> row, bytes |-> bytes]

Open_  == Piece("[", 0, 1)
Comma  == Piece(",", 0, 1)
Close_ == Piece("]", 0, 1)

TextBytes(pieces) == FoldLeft(LAMBDA n, p : n + p.bytes, 0, pieces)

\* Row objects with a comma between any two, as arrow's array writer puts them
\* between its brackets.
Joined(rows) ==
  FoldLeft(LAMBDA out, r : IF out = <<>> THEN <<r>> ELSE out \o <<Comma, r>>, <<>>, rows)

-----------------------------------------------------------------------------

\* JsonRowsWriter::new; "state" is what the loop around the writer learnt last.
NewWriter(limit) == [rows |-> <<Open_>>, remaining |-> limit, written |-> 0, state |-> "more"]

Refused(w) == [w EXCEPT !.state = "ResultTooLarge"]

\* An empty batch brings no comma.
Separator(w, take) == IF w.written > 0 /\ take > 0 THEN <<Comma>> ELSE <<>>

\* JsonRowsWriter::write.  A slice is as large in memory as the batch it is cut
\* from, and the sink has room for what the budget leaves and two brackets.
WriteBatch(w, batch, maxBytes, inputLimit) ==
  LET take      == IF Len(batch.rows) < w.remaining THEN Len(batch.rows) ELSE w.remaining
      separator == Separator(w, take)
      inner     == Joined(SubSeq(batch.rows, 1, take))
      fixed     == TextBytes(w.rows) + Len(separator) + 1
  IN CASE w.remaining = 0 -> [w EXCEPT !.state = "full"]
       [] /\ w.remaining > 0
          /\ \/ fixed > maxBytes
             \/ batch.memory > inputLimit
             \/ TextBytes(inner) + 2 > maxBytes - fixed + 2 -> Refused(w)
       [] OTHER ->
            [rows      |-> w.rows \o separator \o inner,
             remaining |-> w.remaining - take,
             written   |-> w.written + take,
             state     |-> IF w.remaining > take THEN "more" ELSE "full"]

\* The loop of execute_query_sync: it ends with the stream, at the row limit or
\* with the first error.
WriteAll(batches, limit, maxBytes, inputLimit) ==
  FoldLeft(LAMBDA w, b : IF w.state = "more" THEN WriteBatch(w, b, maxBytes, inputLimit) ELSE w,
           NewWriter(limit), batches)

\* JsonRowsWriter::finish
FinishRows(w, maxBytes) ==
  IF w.state = "ResultTooLarge" \/ TextBytes(w.rows) + 1 > maxBytes THEN Refused(w)
  ELSE [w EXCEPT !.rows = Append(@, Close_), !.state = "done"]

-----------------------------------------------------------------------------

\* The answer is the array of the first rows of the result, as many as the limit
\* allows; it is refused only if that array is over the byte limit or a batch it
\* takes rows from, or reads on the way, is over the limit of the conversion.
AnswerOf(batches, limit, maxBytes, inputLimit) ==
  LET all    == FoldLeft(LAMBDA rows, b : rows \o b.rows, <<>>, batches)
      n      == IF Len(all) < limit THEN Len(all) ELSE limit
      text   == <<Open_>> \o Joined(SubSeq(all, 1, n)) \o <<Close_>>
      before(i) == Len(FoldLeft(LAMBDA rows, b : rows \o b.rows, <<>>, SubSeq(batches, 1, i - 1)))
      heavy  == \E i \in DOMAIN batches : before(i) < limit /\ batches[i].memory > inputLimit
      answer == FinishRows(WriteAll(batches, limit, maxBytes, inputLimit), maxBytes)
  IN IF TextBytes(text) > maxBytes \/ heavy
       THEN answer.state = "ResultTooLarge"
       ELSE answer.state = "done" /\ answer.rows = text /\ answer.written = n
=============================================================================
