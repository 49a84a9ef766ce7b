----------------------------- MODULE ScanPlan -----------------------------
(***************************************************************************)
(* What a scan reads: the files of a snapshot that partition values and    *)
(* statistics cannot rule out, less the rows position deletes name.        *)
(*                                                                         *)
(* Sources: teodb-query/src/pruning/{partition,statistics}.rs,             *)
(* teodb-query/src/provider/{scan,scan_builder,pinned}.rs,                 *)
(* teodb-query/src/provider/delete/{reader,execution}.rs.                  *)
(*                                                                         *)
(* A filter is a set of conjuncts, a conjunct a set of atoms any of which  *)
(* may hold.  An atom compares a column with a literal or tests it for     *)
(* null, and has the three truth values of SQL.                            *)
(***************************************************************************)
EXTENDS FileWriter

Truth(b) == IF b THEN "true" ELSE "false"

AnyOf(S) == IF "true" \in S THEN "true" ELSE IF "null" \in S THEN "null" ELSE "false"

AllOf(S) == IF "false" \in S THEN "false" ELSE IF "null" \in S THEN "null" ELSE "true"

\* An atom on a value.
Compared(v, atom) ==
  CASE atom.op = "isnull"  -> Truth(v = Null)
    [] atom.op = "notnull" -> Truth(v # Null)
    [] OTHER ->
         IF v = Null THEN "null"
         ELSE Truth(CASE atom.op = "eq" -> v = atom.val
                      [] atom.op = "ne" -> v # atom.val
                      [] atom.op = "lt" -> v < atom.val
                      [] atom.op = "gt" -> v > atom.val)

Holds(row, conjunct) == AnyOf({Compared(row[a.col], a) : a \in conjunct})

Matches(row, filter) == AllOf({Holds(row, c) : c \in filter}) = "true"

-----------------------------------------------------------------------------
(* Partition pruning. *)

ExtractFilterColumns(conjunct) == {a.col : a \in conjunct}

IdentitySources(spec) ==
  {spec.fields[i].source : i \in {j \in DOMAIN spec.fields :
                                    spec.fields[j].transform = "identity"}}

\* The value of a column in the one-row batch of a file's partition values: that
\* of its identity field, or Null.  A value that is absent or of another type is a
\* typed null to the code as well: Null stands for it.
PartitionValue(file, c, spec) ==
  LET i == CHOOSE i \in DOMAIN spec.fields :
             /\ spec.fields[i].source = c
             /\ spec.fields[i].transform = "identity"
  IN file.partition[i]

\* A file is ruled out by a conjunct that is definitely false of its values.
ShouldKeepFile(file, conjuncts, spec) ==
  \A c \in conjuncts :
    AnyOf({Compared(PartitionValue(file, a.col, spec), a) : a \in c}) # "false"

\* The conjuncts over identity partition columns only.
UsableFilters(filter, spec) ==
  {c \in filter : ExtractFilterColumns(c) \subseteq IdentitySources(spec)}

\* Mutant: the values of a file of another spec are read by this spec's fields.
PartitionPrune_AnySpec(files, filter, spec) ==
  SelectSeq(files, LAMBDA f : ShouldKeepFile(f, UsableFilters(filter, spec), spec))

PartitionPrune(files, filter, spec) ==
  SelectSeq(files, LAMBDA f :
    f.specId # spec.id \/ ShouldKeepFile(f, UsableFilters(filter, spec), spec))

-----------------------------------------------------------------------------
(* Statistics pruning. *)

\* DataFusion's rewriting of an atom over a file's statistics: "false" only when
\* no row of the file can satisfy the atom.  The null count is known, as it is for
\* every file that extract_file_metrics described; the code takes an absent one,
\* which another tool's file may have, to be 0.
OverStatistics(file, atom) ==
  LET lo     == file.lower[atom.col]
      hi     == file.upper[atom.col]
      nulls  == file.nulls[atom.col]
      known(bound, b) == IF bound = Null THEN "null" ELSE Truth(b)
  IN CASE atom.op = "isnull"  -> Truth(nulls > 0)
       [] atom.op = "notnull" -> Truth(nulls # file.count)
       [] nulls = file.count  -> "false"
       [] atom.op = "eq" -> AllOf({known(lo, lo <= atom.val), known(hi, atom.val <= hi)})
       [] atom.op = "ne" -> AnyOf({known(lo, lo # atom.val), known(hi, atom.val # hi)})
       [] atom.op = "lt" -> known(lo, lo < atom.val)
       [] atom.op = "gt" -> known(hi, hi > atom.val)

\* `contained`: whether some value of the set lies within the file's bounds, and
\* true of a file without bounds.
Contained(file, c, values) ==
  \/ file.lower[c] = Null \/ file.upper[c] = Null
  \/ \E v \in values : file.lower[c] <= v /\ v <= file.upper[c]

\* The columns and literals DataFusion asks `contained` about.  A conjunct of
\* equalities on one column needs one of its literals in the file: the file goes
\* when the answer is "none of them".  A lone inequality needs some other value:
\* the file goes when the answer is "nothing but them".
InList(conjunct) ==
  /\ \A a \in conjunct : a.op = "eq"
  /\ Cardinality(ExtractFilterColumns(conjunct)) = 1

NotInList(conjunct) ==
  /\ \A a \in conjunct : a.op = "ne"
  /\ Cardinality(conjunct) = 1

Literals(conjunct) == {a.val : a \in conjunct}

PassesContained(file, conjunct) ==
  LET c == CHOOSE c \in ExtractFilterColumns(conjunct) : TRUE
  IN /\ InList(conjunct) => Contained(file, c, Literals(conjunct))
     /\ NotInList(conjunct) => ~Contained(file, c, Literals(conjunct))

StatisticsPrune(files, filter) ==
  SelectSeq(files, LAMBDA f :
    \A c \in filter : /\ AnyOf({OverStatistics(f, a) : a \in c}) # "false"
                      /\ PassesContained(f, c))

PruneFiles(files, filter, spec) ==
  StatisticsPrune(PartitionPrune(files, filter, spec), filter)

-----------------------------------------------------------------------------
(* Position deletes. *)

\* The positions the delete entries name for a file.  An entry holds the file's
\* key or its full URI, which ends in "/" and the key; both name the file.
PositionsForFile(entries, path) == {e.pos : e \in {d \in entries : d.path = path}}

\* The filter stream: a running row counter over the batches of one file.
KeptRows(batches, positions) ==
  LET step(acc, batch) ==
        LET keep == SelectSeq([n \in DOMAIN batch |-> n],
                              LAMBDA n : acc.offset + n - 1 \notin positions)
        IN [offset |-> acc.offset + Len(batch),
            rows   |-> acc.rows \o [n \in DOMAIN keep |-> batch[keep[n]]]]
  IN FoldLeft(step, [offset |-> 0, rows |-> <<>>], batches).rows

\* The scan of one file that has deletes reads all of it, in order.
Branch(file, entries, read) ==
  KeptRows(SliceBatch(file.rows, read), PositionsForFile(entries, file.path))

\* The plan's rows: one scan of the clean files, which may stop at the limit, and
\* a filtered scan of each file with deletes.
SnapshotScan(files, entries, read, limit) ==
  LET clean(f)  == PositionsForFile(entries, f.path) = {}
      deleted   == SelectSeq(files, LAMBDA f : ~clean(f))
  IN FirstOf(RowsOf(SelectSeq(files, LAMBDA f : clean(f))), limit)
     \o FlattenSeq([i \in DOMAIN deleted |-> Branch(deleted[i], entries, read)])

\* A whole query over one table: the scan, the filter the provider leaves in the
\* plan, and the limit, which reaches the scan only when there is no filter.
NoLimit == 1000

QueryRows(files, filter, spec, entries, read, limit) ==
  LET pushed == IF filter = {} THEN limit ELSE NoLimit
      rows   == SnapshotScan(PruneFiles(files, filter, spec), entries, read, pushed)
  IN FirstOf(SelectSeq(rows, LAMBDA row : Matches(row, filter)), limit)

-----------------------------------------------------------------------------
(* What a scan must get right. *)

\* The rows of a table by definition: every row of every file that no delete
\* entry names and the filter accepts.
LiveRows(files, entries) ==
  FlattenSeq([i \in DOMAIN files |->
    LET f == files[i]
        keep == SelectSeq([n \in DOMAIN f.rows |-> n], LAMBDA n :
                  ~\E e \in entries : e.path = f.path /\ e.pos = n - 1)
    IN [n \in DOMAIN keep |-> f.rows[keep[n]]]])

\* The rows a query returns are the live rows its filter accepts, each as often as
\* it was written, up to the limit.
Answers(files, filter, spec, entries, read, limit) ==
  LET rows     == QueryRows(files, filter, spec, entries, read, limit)
      expected == SelectSeq(LiveRows(files, entries), LAMBDA row : Matches(row, filter))
  IN IF limit >= Len(expected)
       THEN Occurrences(rows) = Occurrences(expected)
       ELSE /\ Len(rows) = limit
            /\ \A row \in ToSet(rows) :
                 /\ row \in ToSet(expected)
                 /\ Occurrences(rows)[row] <= Occurrences(expected)[row]
=============================================================================
