---------------------------- MODULE FileWriter ----------------------------
(***************************************************************************)
(* What a flush writes: the buffered batches split by partition value,     *)
(* sorted, sliced, rolled into Parquet files, and described by the         *)
(* statistics a scan later prunes with.                                    *)
(*                                                                         *)
(* Sources: teodb-ingest/src/flush/{partitioning,write}.rs,                *)
(* teodb-storage/src/parquet/{sort,writer,stats}.rs.                       *)
(*                                                                         *)
(* A row is a function from the two columns to numbers or Null; a file     *)
(* keeps its rows, its partition values and its statistics.  Encoded bytes *)
(* are counted in rows: the writer only compares them with its target.     *)
(***************************************************************************)
EXTENDS Integers, Sequences, FiniteSets, SequencesExt

CONSTANT Null       \* a missing value, and a missing bound

Columns == {"p", "x"}

\* The transforms of a partition field: iceberg's transform functions.
Transformed(v, transform) ==
  IF v = Null THEN Null
  ELSE CASE transform = "identity" -> v
         [] transform = "bucket"   -> v % 2
         [] transform = "truncate" -> v - (v % 2)

\* The partition value of every field of the spec, which is also the key the
\* rows are grouped by.
PartitionKeyForRow(row, spec) ==
  [i \in DOMAIN spec.fields |->
     Transformed(row[spec.fields[i].source], spec.fields[i].transform)]

\* At most the first n elements.
FirstOf(seq, n) == SubSeq(seq, 1, IF n < Len(seq) THEN n ELSE Len(seq))

NonEmpty(batches) == SelectSeq(batches, LAMBDA b : b # <<>>)

PartitionBatches(batches, spec) ==
  [key \in {PartitionKeyForRow(row, spec) : row \in ToSet(FlattenSeq(batches))} |->
     NonEmpty([i \in DOMAIN batches |->
       SelectSeq(batches[i], LAMBDA row : PartitionKeyForRow(row, spec) = key)])]

\* One field of a sort order: nulls where the field puts them, values up or down.
FieldBefore(a, b, field) ==
  LET u == a[field.source]
      v == b[field.source]
  IN IF u = Null \/ v = Null
       THEN u # v /\ ((u = Null) <=> field.nullsFirst)
       ELSE IF field.descending THEN u > v ELSE u < v

\* The lexicographic order of all the fields.
Before(a, b, order) ==
  \E i \in DOMAIN order :
     /\ FieldBefore(a, b, order[i])
     /\ \A j \in 1..(i - 1) : a[order[j].source] = b[order[j].source]

\* All batches become one sorted batch; a table without a sort order keeps its
\* batches.
SortBatches(batches, order) ==
  IF batches = <<>> \/ order = <<>> THEN batches
  ELSE <<SortSeq(FlattenSeq(batches), LAMBDA a, b : Before(a, b, order))>>

\* A batch cut into slices of at most n rows.
SliceBatch(batch, n) ==
  IF Len(batch) <= n THEN <<batch>>
  ELSE [i \in 1..((Len(batch) + n - 1) \div n) |->
          SubSeq(batch, (i - 1) * n + 1,
                        IF i * n < Len(batch) THEN i * n ELSE Len(batch))]

\* The streaming writer: every chunk goes to the open file, which is closed once
\* it holds `roll` rows; what is open at the end is the last file.
WriteSortedStream(chunks, roll) ==
  LET step(acc, chunk) ==
        LET open == acc.open \o chunk
        IN IF chunk = <<>> THEN acc
           ELSE IF Len(open) >= roll
             THEN [open |-> <<>>, files |-> Append(acc.files, open)]
             ELSE [acc EXCEPT !.open = open]
      end == FoldLeft(step, [open |-> <<>>, files |-> <<>>], chunks)
  IN IF end.open = <<>> THEN end.files ELSE Append(end.files, end.open)

WriteSortedRolled(batches, order, layout) ==
  WriteSortedStream(
    FlattenSeq([i \in DOMAIN SortBatches(batches, order) |->
                  SliceBatch(SortBatches(batches, order)[i], layout.chunk)]),
    layout.roll)

-----------------------------------------------------------------------------
(* The statistics of a file, folded over its row groups. *)

Present(rows, c) == {row[c] : row \in ToSet(rows)} \ {Null}

\* The smallest (largest) value of a set, Null of the empty set: a row group of
\* nulls has no bound of its own.
LeastOf(S) == IF S = {} THEN Null ELSE CHOOSE v \in S : \A w \in S : v <= w

GreatestOf(S) == IF S = {} THEN Null ELSE CHOOSE v \in S : \A w \in S : v >= w

\* A column's bounds: those of the row groups that have one.
LowerBound(groups, c) ==
  LeastOf({LeastOf(Present(groups[i], c)) : i \in DOMAIN groups} \ {Null})

UpperBound(groups, c) ==
  GreatestOf({GreatestOf(Present(groups[i], c)) : i \in DOMAIN groups} \ {Null})

NullCount(rows, c) == Cardinality({i \in DOMAIN rows : rows[i][c] = Null})

ExtractDataFile(path, rows, specId, key, groupRows) ==
  LET groups == SliceBatch(rows, groupRows)
  IN [path      |-> path,
      rows      |-> rows,
      specId    |-> specId,
      partition |-> key,
      count     |-> Len(rows),
      nulls     |-> [c \in Columns |-> NullCount(rows, c)],
      lower     |-> [c \in Columns |-> LowerBound(groups, c)],
      upper     |-> [c \in Columns |-> UpperBound(groups, c)]]

\* A file is named after its commit, the place of its partition in the flush and
\* its place among the files of the partition.
FlushFileLocation(commit, idx, file) == <<commit, idx, file>>

\* The files of one flush.
WriteFlushDataFiles(batches, spec, order, layout, commit) ==
  LET groups == PartitionBatches(batches, spec)
      keys   == SetToSeq(DOMAIN groups)
      of(i)  == WriteSortedRolled(groups[keys[i]], order, layout)
  IN FlattenSeq([i \in DOMAIN keys |->
       [n \in DOMAIN of(i) |->
          ExtractDataFile(FlushFileLocation(commit, i, n - 1), of(i)[n],
                          spec.id, keys[i], layout.group)]])

-----------------------------------------------------------------------------
(* What a flush must get right. *)

\* How often each element occurs in a sequence.
Occurrences(seq) ==
  [v \in ToSet(seq) |-> Cardinality({i \in DOMAIN seq : seq[i] = v})]

RowsOf(files) == FlattenSeq([i \in DOMAIN files |-> files[i].rows])

\* Every row of the flush is in exactly one file, no two files share a name, a
\* file holds rows of one partition in the table's sort order, and all but the
\* last file of a partition reached the roll target.
FilesOf(batches, files, spec, order, layout) ==
  /\ Occurrences(RowsOf(files)) = Occurrences(FlattenSeq(batches))
  /\ \A i, j \in DOMAIN files : files[i].path = files[j].path => i = j
  /\ \A i \in DOMAIN files :
       /\ files[i].rows # <<>>
       /\ \A row \in ToSet(files[i].rows) :
            PartitionKeyForRow(row, spec) = files[i].partition
       /\ \A m, n \in DOMAIN files[i].rows :
            m < n => ~Before(files[i].rows[n], files[i].rows[m], order)
       /\ \/ files[i].count >= layout.roll
          \/ i = Len(files) \/ files[i + 1].partition # files[i].partition

\* The statistics of a file hold of each of its rows: no value lies outside the
\* bounds, a missing bound means there is no value, the nulls are counted.
StatisticsOf(file) ==
  \A c \in Columns :
    /\ file.nulls[c] = Len(SelectSeq(file.rows, LAMBDA row : row[c] = Null))
    /\ \A row \in ToSet(file.rows) :
         row[c] # Null =>
           /\ file.lower[c] # Null /\ file.lower[c] <= row[c]
           /\ file.upper[c] # Null /\ file.upper[c] >= row[c]
=============================================================================
