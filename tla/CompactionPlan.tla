-------------------------- MODULE CompactionPlan --------------------------
(***************************************************************************)
(* Which files a compaction takes and what it does with the position       *)
(* deletes over them: selection within a partition, the rewrite through    *)
(* the pinned scan, the conservation check, and the delete files that the  *)
(* rewrite makes obsolete.                                                 *)
(*                                                                         *)
(* Sources: teodb-distributed/src/selection.rs,                            *)
(* teodb-distributed/src/compactor/{execution,runner}.rs,                  *)
(* teodb-storage/src/parquet/delete.rs.                                    *)
(*                                                                         *)
(* A delete entry records a file by its key or by its URI; two entries     *)
(* that differ only in that are two entries.  A delete file belongs to the *)
(* partition of the data files it names.                                   *)
(***************************************************************************)
EXTENDS ScanPlan

\* The rows of a data file that entries of one delete file name: the positions of
\* each recorded path are counted on their own, those beyond the file are not.
ValidPositions(entries, file) ==
  {e \in entries : e.path = file.path /\ e.pos >= 0 /\ e.pos < file.count}

CountPositionDeletes(deletes, file) ==
  FoldLeft(LAMBDA n, d : n + Cardinality(ValidPositions(d.entries, file)), 0, deletes)

\* More than a quarter of the rows deleted.
HasDeletePressure(file, deletes) ==
  file.count # 0 /\ 4 * CountPositionDeletes(deletes, file) > file.count

-----------------------------------------------------------------------------
(* Selection. *)

Small(file, config) == file.size < config.target \div 4

Mid(file, config) == ~Small(file, config) /\ file.size < config.target \div 2

Large(file, config) == file.size >= config.target \div 2

\* The prefix of the files whose running total stays within the budget.
WithinBudget(files, config) ==
  LET step(acc, f) ==
        LET total == acc.total + f.size
        IN [total |-> total,
            kept  |-> IF total <= config.maxBytes THEN Append(acc.kept, f) ELSE acc.kept]
  IN IF config.maxBytes = 0 THEN files
     ELSE FoldLeft(step, [total |-> 0, kept |-> <<>>], files).kept

SelectWithinPartition(files, deletes, config) ==
  LET mid        == SelectSeq(files, LAMBDA f : Mid(f, config))
      candidates == SelectSeq(files, LAMBDA f : Small(f, config))
                    \o (IF Len(mid) >= config.minFiles THEN mid ELSE <<>>)
                    \o SelectSeq(files, LAMBDA f : Large(f, config)
                                                   /\ HasDeletePressure(f, deletes))
      ascending  == SortSeq(candidates, LAMBDA a, b : a.size < b.size)
      capped     == FirstOf(ascending, config.maxFiles)
  IN WithinBudget(capped, config)

\* The group of one partition: its files to rewrite and its delete files.
Group(table, key, config) ==
  [inputs  |-> SelectWithinPartition(
                 SelectSeq(table.data, LAMBDA f : f.partition = key), table.deletes, config),
   deletes |-> SelectSeq(table.deletes, LAMBDA d : d.partition = key)]

-----------------------------------------------------------------------------
(* The rewrite of a group. *)

EntriesOf(deletes) == UNION {d.entries : d \in ToSet(deletes)}

Rewritten(group) == SnapshotScan(group.inputs, EntriesOf(group.deletes), 1, NoLimit)

Names(entries, files) == \A e \in entries : \E f \in ToSet(files) : f.path = e.path

\* Mutant: a delete file goes as soon as it names one of the inputs.
ResolvedDeletes_AnyInput(group) ==
  SelectSeq(group.deletes, LAMBDA d :
    \E e \in d.entries : \E f \in ToSet(group.inputs) : f.path = e.path)

\* The delete files that name inputs only.
ResolvedDeletes(group) ==
  SelectSeq(group.deletes, LAMBDA d : d.entries # {} /\ Names(d.entries, group.inputs))

Sum(seq) == FoldLeft(LAMBDA a, b : a + b, 0, seq)

DeletedRows(group) ==
  Sum([i \in DOMAIN group.inputs |-> CountPositionDeletes(group.deletes, group.inputs[i])])

\* The output holds the rows of the inputs less those the deletes claim, with the
\* difference held at zero.
RowsConserved(group) ==
  LET inputs == Sum([i \in DOMAIN group.inputs |-> group.inputs[i].count])
      deleted == DeletedRows(group)
  IN Len(Rewritten(group)) = IF inputs > deleted THEN inputs - deleted ELSE 0

Output(group, path) ==
  IF Rewritten(group) = <<>> THEN <<>>
  ELSE <<[path |-> path, rows |-> Rewritten(group), count |-> Len(Rewritten(group)),
          size |-> Len(Rewritten(group)), partition |-> group.inputs[1].partition]>>

\* The table after the replace commit; a group that fails its check leaves the
\* table as it was.
Compacted(table, key, config, path) ==
  LET group == Group(table, key, config)
  IN IF group.inputs = <<>> \/ ~RowsConserved(group) THEN table
     ELSE [data    |-> SelectSeq(table.data, LAMBDA f : f \notin ToSet(group.inputs))
                       \o Output(group, path),
           deletes |-> SelectSeq(table.deletes,
                         LAMBDA d : d \notin ToSet(ResolvedDeletes(group)))]

-----------------------------------------------------------------------------

\* The rows a reader of the table sees.
TableRows(table) == LiveRows(table.data, EntriesOf(table.deletes))

\* A compaction changes no answer: the rows of the table, less those its delete
\* files name, are the same before and after, whatever the deletes name and
\* whichever of them the rewrite retires; and it takes no more files and bytes
\* than its limits.
KeepsAnswers(table, key, config) ==
  LET group == Group(table, key, config)
      after == Compacted(table, key, config, "compacted")
  IN /\ Occurrences(TableRows(after)) = Occurrences(TableRows(table))
     /\ Len(group.inputs) <= config.maxFiles
     /\ config.maxBytes > 0 =>
          Sum([i \in DOMAIN group.inputs |-> group.inputs[i].size]) <= config.maxBytes

\* The conservation check stops a correct rewrite exactly when some row of an
\* input is named more than once, by two delete files or by key and by URI, and
\* the rewrite still has rows.
AbortsOnRepeats(table, key, config) ==
  LET group == Group(table, key, config)
      names(f, pos) == FoldLeft(LAMBDA n, d :
                         n + Cardinality({e \in d.entries : e.path = f.path /\ e.pos = pos}),
                         0, group.deletes)
  IN group.inputs # <<>> =>
       (RowsConserved(group) <=>
          \/ Rewritten(group) = <<>>
          \/ \A f \in ToSet(group.inputs) : \A pos \in 0..(f.count - 1) :
               names(f, pos) <= 1)
=============================================================================
