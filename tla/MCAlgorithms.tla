--------------------------- MODULE MCAlgorithms ---------------------------
(***************************************************************************)
(* The pure parts of the system on every input of small sets: a behaviour  *)
(* picks an input and then a question about it.  The input "root" is a WAL *)
(* root and the input "registry" a table, on which processes then run.     *)
(***************************************************************************)
EXTENDS CompactionPlan, WalFrames, FileMetadata, ObjectPaths, JsonRows,
  SnapshotPins, WalRoot, WriterRegistry

CONSTANT Excluding      \* whether filters may be lone inequalities

VARIABLES input, files, ask

vars == <<input, files, ask, rootVars, registryVars>>

DeployedAs(n) == IF n \in {"a", "b"} THEN "s1" ELSE "s2"

-----------------------------------------------------------------------------
(* Flushes and scans. *)

Rows == [p : {1, 2, Null}, x : {1, 3, Null}]

Field(c, t) == [source |-> c, transform |-> t]

PartitionSpecOf(id, fields) == [id |-> id, fields |-> fields]

\* A spec the files were written under and the one the table has now.
SpecPairs ==
  LET none == PartitionSpecOf(0, <<>>)
      byP  == PartitionSpecOf(1, <<Field("p", "identity")>>)
      both == PartitionSpecOf(2, <<Field("x", "bucket"), Field("p", "identity")>>)
      byX  == PartitionSpecOf(3, <<Field("x", "truncate")>>)
  IN {<<none, none>>, <<byP, byP>>, <<both, both>>, <<byX, byX>>, <<byP, byX>>, <<byX, byP>>}

Orders ==
  {<<>>,
   <<[source |-> "x", descending |-> TRUE, nullsFirst |-> FALSE],
     [source |-> "p", descending |-> FALSE, nullsFirst |-> TRUE]>>}

Layouts == {[chunk |-> 1, roll |-> 2, group |-> 1], [chunk |-> 3, roll |-> 3, group |-> 2]}

Flushes ==
  [kind : {"flush"}, batches : {<<<<a, b>>, <<c>>>> : a, b, c \in Rows},
   specs : SpecPairs, order : Orders, layout : Layouts]

FilesIn(f) ==
  IF f.kind = "flush"
    THEN WriteFlushDataFiles(f.batches, f.specs[1], f.order, f.layout, "commit")
    ELSE <<>>

Atoms ==
  [col : {"p", "x"}, op : {"eq", "lt", "gt"}, val : {1, 2}]
    \cup [col : {"p", "x"}, op : {"isnull", "notnull"}, val : {0}]

Inequalities == [col : {"p", "x"}, op : {"ne"}, val : {1, 2}]

Atom(c, op, v) == [col |-> c, op |-> op, val |-> v]

\* No filter, one atom, a choice of two, two conjuncts; an inequality stands in a
\* choice, and alone when Excluding.
Filters ==
  {{}} \cup {{{a}} : a \in Atoms}
    \cup (IF Excluding THEN {{{a}} : a \in Inequalities} ELSE {})
    \cup {{{a, b}} : a \in Atoms, b \in {Atom("p", "eq", 1), Atom("x", "eq", 1)}}
    \cup {{{a, Atom("x", "gt", 1)}} : a \in Inequalities}
    \cup {{{a}, {b}} : a \in Atoms, b \in {Atom("x", "lt", 2), Atom("p", "notnull", 0)}}

\* The deletes of a query: none, the first row of every file, or two rows of the
\* last, the second of which may be beyond its end.
DeleteSets ==
  {{}, {[path |-> files[i].path, pos |-> 0] : i \in DOMAIN files},
   {[path |-> files[Len(files)].path, pos |-> n] : n \in {0, 1}}}

\* Every filter of a whole table, and every way to read one with deletes and a
\* limit under two filters.
Scans ==
  [kind : {"scan"}, filter : Filters, deletes : {{}}, read : {1}, limit : {NoLimit}]
    \cup [kind : {"scan"}, filter : {{}, {{Atom("x", "gt", 1)}}},
          deletes : DeleteSets, read : {1, 2}, limit : {1, NoLimit}]

-----------------------------------------------------------------------------
(* Compactions. *)

DataFile(name, part, size, n) ==
  [path |-> name, partition |-> part, size |-> size, count |-> n,
   rows |-> [i \in 1..n |-> <<name, i>>]]

Entry(form, path, pos) == [form |-> form, path |-> path, pos |-> pos]

EntryPool ==
  {Entry(form, "a", pos) : form \in {"key", "uri"}, pos \in 0..2}
    \cup {Entry("key", "b", pos) : pos \in 0..1}

DeleteFiles(n) ==
  {[partition |-> 1, entries |-> S] : S \in {T \in SUBSET EntryPool : Cardinality(T) = n}}

Compactions ==
  [kind : {"compaction"},
   data : {<<DataFile("a", 1, sa, 2), DataFile("b", 1, sb, 1), DataFile("c", 2, 1, 1)>> :
             sa, sb \in {1, 3, 5}},
   deletes : {<<>>} \cup {<<d>> : d \in DeleteFiles(1) \cup DeleteFiles(2)}
               \cup (DeleteFiles(1) \X DeleteFiles(2))]

Configs ==
  [kind : {"config"}, target : {8}, minFiles : {1, 2}, maxFiles : {1, 3}, maxBytes : {0, 5}]

-----------------------------------------------------------------------------
(* Segments. *)

Bytes ==
  [kind : {"bytes"}, data : UNION {[1..n -> ByteValues] : n \in 0..7}]

Payloads == {<<1>>, <<2>>, <<1, 0>>, <<3, 2>>}

Logs == [kind : {"log"}, payloads : UNION {[1..n -> Payloads] : n \in 0..3}]

Cuts(log) == [kind : {"cut"}, at : 0..Len(Segment(log.payloads))]

-----------------------------------------------------------------------------
(* Definitions of tables and the batches sent to them. *)

SqlType(name, args) == [name |-> name, args |-> args]

SqlTypes ==
  {SqlType(name, <<>>) : name \in {"BOOL", "TINYINT", "SMALLINT", "INT", "HUGEINT", "UInt8",
     "UInt16", "UInt32", "UBIGINT", "UInt128", "FLOAT", "DOUBLE", "DATE", "TIMESTAMP", "TIME", "TEXT",
     "BLOB", "JSON", "DECIMAL"}}
    \cup {SqlType("DECIMAL", <<9>>), SqlType("NUMERIC", <<38, 5>>), SqlType("DECIMAL", <<40, 2>>),
          SqlType("DECIMAL", <<294, 2>>)}

RestTypes ==
  {SqlType(name, <<>>) : name \in {"bool", "int8", "int16", "int32", "int64", "uint8", "uint16",
     "uint32", "uint64", "float", "double", "date", "timestamp", "time", "string", "bytes",
     "decimal"}}

JsonTypes == {<<"Boolean">>, <<"Int64">>, <<"Float64">>, <<"Utf8">>, <<"Null">>, <<"List">>}

\* The second column is one of three types.
TypePairs(types, second) == {<<t>> : t \in types} \cup {<<t, u>> : t \in types, u \in second}

Named(types, names, rest(_, _, _)) ==
  [i \in DOMAIN types |-> rest(names[i], types[i], i)]

Call(f, args) == <<"call", f, args>>

Clauses ==
  LET a == <<"column", "a">>
      b == <<"column", "b">>
      n == <<"number", 4>>
  IN {<<>>, <<a>>, <<<<"column", "c">>>>, <<n>>, <<Call("year", <<b>>)>>, <<Call("hour", <<a>>)>>,
      <<Call("bucket", <<n, a>>)>>, <<Call("bucket", <<a, n>>)>>, <<Call("truncate", <<n, b>>), a>>,
      <<Call("day", <<a, b>>)>>, <<Call("lower", <<a>>)>>, <<Call("identity", <<b>>), b>>}

RestClauses ==
  {<<>>, <<[column |-> "a", transform |-> <<"identity">>], [column |-> "b", transform |-> <<"month">>]>>,
   <<[column |-> "b", transform |-> <<"bucket", 4>>]>>, <<[column |-> "b", transform |-> <<"bucket", Err>>]>>,
   <<[column |-> "c", transform |-> <<"day">>]>>, <<[column |-> "a", transform |-> <<"void">>]>>}

NamePairs == {<<"a", "b">>, <<"b", "a">>, <<"a", "a">>, <<"a b", "b">>}

ValidNames == {"a", "b", "c"}

Definitions ==
  LET sql(n, t, i)  == [name |-> n, type |-> t, notNull |-> i = 1]
      rest(n, t, i) == [name |-> n, type |-> t, nullable |-> i = 1]
  IN [kind : {"definition"}, request :
        [via : {"sql"}, hive : {<<>>, <<"b">>}, partitionBy : Clauses,
         columns : {Named(types, names, sql) : names \in NamePairs,
                      types \in TypePairs(SqlTypes, {SqlType("TIMESTAMP", <<>>), SqlType("INT", <<>>)})}]
          \cup
        [via : {"rest"}, partitionBy : RestClauses,
         columns : {Named(types, names, rest) : names \in NamePairs,
                      types \in TypePairs(RestTypes, {SqlType("date", <<>>), SqlType("int8", <<>>)})}]
          \cup
        [via : {"json"},
         columns : {Named(types, <<"a", "b">>, rest) : types \in TypePairs(JsonTypes, JsonTypes)}]]

\* The table of a request, Err when it is refused.
TableOf(request) ==
  LET definition == Requested(request, ValidNames)
  IN IF definition = Err THEN Err ELSE CreateTable(definition.columns, definition.fields)

BatchTypes ==
  {<<"Int32">>, <<"Int64">>, <<"Utf8">>, <<"Timestamp", "Microsecond", "none">>,
   <<"Timestamp", "Microsecond", "UTC">>, <<"Timestamp", "Millisecond", "UTC">>,
   <<"Decimal128", 9, 0>>, <<"Decimal128", 10, 0>>}

\* Batches of the table's schema with one column changed or left out.
Batches(table) ==
  LET own == [i \in DOMAIN table.columns |->
               [name |-> table.columns[i].name, type |-> TeoDataTypeToArrow(table.columns[i].type),
                nulls |-> 0, id |-> NoId]]
  IN {FirstOf(own, 1)} \cup
     {[own EXCEPT ![i] = c] : i \in DOMAIN own,
        c \in [name : {"a", "b"}, type : BatchTypes, nulls : {0, 1}, id : {NoId, 1, 2}]}

-----------------------------------------------------------------------------
(* The metadata of files. *)

Numbers == {-100, -15, -5, 0, 3, 10, 100}

Strings == {<<1, 2>>, <<1, 9>>, <<7, 0>>}

ValuesOf(type) ==
  CASE type[1] = "Boolean" -> {0, 1}
    [] type[1] = "Utf8"    -> Strings
    [] type[1] = "Binary"  -> Strings \cup {<<8, 0>>, <<15, 1>>}
    [] OTHER               -> Numbers

ValueTypes ==
  {<<"Boolean">>, <<"Int32">>, <<"Int64">>, <<"Float32">>, <<"Float64">>, <<"Date32">>,
   <<"Time64Micros">>, <<"TimestampMicros", "UTC">>, <<"Utf8">>, <<"Binary">>,
   <<"Decimal128", 9, 1>>, <<"Decimal128", 18, 1>>, <<"Decimal128", 38, 1>>}

RowGroups(type) == {S \in SUBSET ValuesOf(type) : Cardinality(S) <= 2}

Bounds ==
  UNION {[kind : {"bounds"}, type : {type}, groups : UNION {[1..n -> RowGroups(type)] : n \in 1..2}] :
           type \in ValueTypes}

PartitionFieldOf(name, source, type, transform) ==
  [name |-> name, source |-> source, type |-> type, transform |-> transform]

\* The current spec, by both columns, and an older one, by the first alone.
SpecsOf(type, transform) ==
  <<[id |-> 1, fields |-> <<PartitionFieldOf("y", 2, <<"Int64">>, "bucket"),
                            PartitionFieldOf("x", 1, type, transform)>>],
    [id |-> 2, fields |-> <<PartitionFieldOf("x", 1, type, transform)>>]>>

Snapshots ==
  UNION {[kind : {"snapshot"}, type : {type}, transform : {"identity", "bucket", "truncate"},
          snapshot : {Null, 1}, files :
            {<<>>} \cup {<<[row |-> <<v, 3>>, specId |-> 1, content |-> c],
                           [row |-> <<w, Null>>, specId |-> 2, content |-> d]>> :
               v, w \in ValuesOf(type) \cup {Null},
               c, d \in {"data", "position", "equality"}}] :
           type \in {<<"Int64">>, <<"Utf8">>, <<"Binary">>, <<"Decimal128", 9, 1>>}}

\* The files of a snapshot as its writer "w1" described them at commit "c1".
PreparedOf(s) ==
  LET specs == SpecsOf(s.type, s.transform)
  IN [i \in DOMAIN s.files |->
        PreparedFile(s.files[i].content, specs[s.files[i].specId], s.files[i].row,
                     [c \in {1} |-> Scalar("Int64", i)], "w1", "c1")]

LoadedOf(s) ==
  LET specs    == SpecsOf(s.type, s.transform)
      prepared == PreparedOf(s)
  IN IcebergDataFilesToTeodb(
       [i \in DOMAIN prepared |-> TeodbDataFileToIceberg(prepared[i], specs[prepared[i].specId])],
       [c \in {1} |-> <<"Int64">>], specs)

Versions == [kind : {"ship"}, planner : {1, 2}, executor : {1, 2}]

-----------------------------------------------------------------------------

-----------------------------------------------------------------------------
(* Objects of two tables. *)

Plain(text) == Segment_(text, "plain")

Warehouse == Plain("bucket")

\* The configured warehouse with and without a path, with stray slashes, one
\* without a bucket and one of another scheme.
WarehouseUris ==
  {[scheme |-> "s3", rest |-> r] :
     r \in {<<Warehouse>>, <<Warehouse, Empty>>, <<Warehouse, Empty, Plain("wh"), Empty, Empty>>,
           <<Empty>>, <<Warehouse, Plain("wh"), Up>>}}
    \cup {[scheme |-> "file", rest |-> <<Empty, Plain("wh")>>]}

\* A file: of the table or of its sibling, under a partition value or none.
FileKinds ==
  [own : BOOLEAN, class : {"plain", "mark", "star", "none"}, referenced : BOOLEAN,
   young : BOOLEAN]

Paths ==
  [kind : {"paths"}, warehouse : WarehouseUris, class : {"plain", "mark"},
   files : {fs \in FileKinds \X FileKinds : fs[1].own}]

TablePlaces(in) ==
  [own   |-> TableLocation(in.warehouse, Plain("ns"), Segment_("t", in.class)),
   other |-> TableLocation(in.warehouse, Plain("ns"), Plain("t2"))]

FilePlace(in, i) ==
  LET f == in.files[i]
  IN DataFileLocation(IF f.own THEN TablePlaces(in).own ELSE TablePlaces(in).other,
                      IF f.class = "none" THEN <<>> ELSE <<Segment_("p=v", f.class)>>,
                      Plain(IF i = 1 THEN "f1" ELSE "f2"))

MetadataKey(in) == TablePlaces(in).own.key \o <<Plain("metadata"), Plain("v1")>>

StoreOf(in) ==
  LET data == PutObject(PutObject({}, FilePlace(in, 1).key), FilePlace(in, 2).key)
  IN PutObject(data, MetadataKey(in))

ObjectOf(in, i) == ToOsPath(FilePlace(in, i).key)

BackendOf(in) == [scheme |-> in.warehouse.scheme,
                  bucket |-> IF in.warehouse.scheme = "file" THEN Empty ELSE Warehouse]

UrisOf(in) == {ToUri(FilePlace(in, i)) : i \in {j \in {1, 2} : in.files[j].own /\ in.files[j].referenced}}

YoungOf(in) == {ObjectOf(in, i) : i \in {j \in {1, 2} : in.files[j].young}}

-----------------------------------------------------------------------------
(* Results of queries: batches of up to two rows of one or two bytes. *)

RowBatches(memories) ==
  [sizes : {<<>>} \cup {<<n>> : n \in 1..2} \cup {<<n, m>> : n, m \in 1..2}, memory : memories]

Numbered(batches) ==
  [i \in DOMAIN batches |->
     [rows   |-> [j \in DOMAIN batches[i].sizes |-> Piece("row", 10 * i + j, batches[i].sizes[j])],
      memory |-> batches[i].memory]]

Results ==
  [kind : {"rows"}, limit : 0..4, maxBytes : {0, 1, 2, 3, 5, 8, 12}, inputLimit : {5},
   batches : {<<>>} \cup {<<b>> : b \in RowBatches({1, 6})}
               \cup (RowBatches({1, 6}) \X RowBatches({1, 6}))
               \cup (RowBatches({1}) \X RowBatches({1}) \X RowBatches({1}))]

-----------------------------------------------------------------------------
(* Pins of two queries on two tables. *)

PinOps ==
  [op : {"pin"}, query : {1, 2}, table : {1, 2}, snapshot : {1, 2}]
    \cup [op : {"release"}, query : {1, 2}, table : {0}, snapshot : {0}]

PinHistories ==
  [kind : {"pins"}, history : UNION {[1..n -> PinOps] : n \in 0..4}]

-----------------------------------------------------------------------------
NoAsk == [kind |-> "none"]

Init ==
  /\ input \in Flushes \cup Compactions \cup Bytes \cup Logs
              \cup Definitions \cup Bounds \cup Snapshots \cup Paths \cup Results \cup PinHistories
              \cup [kind : {"root", "registry"}]
  /\ files = FilesIn(input)
  /\ ask = NoAsk
  /\ RootInit
  /\ RegistryInit

AskScan == /\ input.kind = "flush" /\ ask = NoAsk /\ input.order = <<>> /\ input.layout.roll = 2
           /\ ask' \in Scans
           /\ UNCHANGED <<input, files, rootVars, registryVars>>

AskCompaction == /\ input.kind = "compaction" /\ ask = NoAsk
                 /\ ask' \in Configs
                 /\ UNCHANGED <<input, files, rootVars, registryVars>>

AskCut == /\ input.kind = "log" /\ ask = NoAsk
          /\ ask' \in Cuts(input)
          /\ UNCHANGED <<input, files, rootVars, registryVars>>

\* Batches are sent to tables of REST requests that are not partitioned.
AskBatch == /\ input.kind = "definition" /\ ask = NoAsk
            /\ input.request.via = "rest" /\ input.request.partitionBy = <<>>
            /\ TableOf(input.request) # Err
            /\ ask' \in [kind : {"batch"}, batch : Batches(TableOf(input.request))]
            /\ UNCHANGED <<input, files, rootVars, registryVars>>

AskShip == /\ input.kind = "snapshot" /\ ask = NoAsk
           /\ ask' \in Versions
           /\ UNCHANGED <<input, files, rootVars, registryVars>>

RunRoot == /\ input.kind = "root" /\ RootNext
           /\ UNCHANGED <<input, files, ask, registryVars>>

RunRegistry == /\ input.kind = "registry" /\ RegistryNext
               /\ UNCHANGED <<input, files, ask, rootVars>>

Next == AskScan \/ AskCompaction \/ AskCut \/ AskBatch \/ AskShip \/ RunRoot \/ RunRegistry

AlgorithmsSpec == Init /\ [][Next]_vars

-----------------------------------------------------------------------------

\* write_flush_data_files loses, repeats and misplaces no row: whatever the
\* batches, the partition spec, the sort order and the roll target.
FlushWritesAll ==
  input.kind = "flush" /\ ask = NoAsk =>
    FilesOf(input.batches, files, input.specs[1], input.order, input.layout)

\* extract_data_file_from_bytes describes a file truly over all its row groups,
\* those without a value included.
StatisticsTrue ==
  input.kind = "flush" /\ ask = NoAsk =>
    \A i \in DOMAIN files : StatisticsOf(files[i])

\* plan_scan and what runs above it return the live rows the filter accepts, for
\* files of the current and of an older partition spec, whatever was pruned,
\* deleted or cut off by the limit.
ScanExact ==
  ask.kind = "scan" =>
    Answers(files, ask.filter, input.specs[2], ask.deletes, ask.read, ask.limit)

\* "A file is dropped only if the predicate proves the result is empty": no file
\* that pruning leaves out holds a row the filter accepts (pruning/statistics.rs).
PrunedFilesEmpty ==
  ask.kind = "scan" =>
    \A f \in ToSet(files) \ ToSet(PruneFiles(files, ask.filter, input.specs[2])) :
      \A row \in ToSet(f.rows) : ~Matches(row, ask.filter)

\* Compaction changes no answer and stays within its limits.
CompactionKeepsAnswers == ask.kind = "config" => KeepsAnswers(input, 1, ask)

\* verify_row_conservation stops a rewrite only over a row deleted twice.
ConservationCheck == ask.kind = "config" => AbortsOnRepeats(input, 1, ask)

\* scan_segment and the replay reader see the same records in any bytes.
SegmentReadersAgree == input.kind = "bytes" => ReadersAgree(input.data)

\* A crash in the middle of a write loses the frame being written and no other.
TornTailsBenign == ask.kind = "cut" => TornTail(input.payloads, ask.at)

\* A table is the one its request describes, whichever way it came in, through the
\* SQL or REST vocabulary, the partition parsers, the catalog's types and back.
TablesAsDefined ==
  input.kind = "definition" /\ ask = NoAsk =>
    LET table == TableOf(input.request)
    IN table # Err => DefinedAs(input.request, table)

\* validate_batch lets in no Flight batch that is not of the columns the table was
\* asked for, or that the Parquet writer's schema does not fit.
AdmittedBatchesFit ==
  ask.kind = "batch" =>
    LET table == TableOf(input.request)
    IN ValidateBatch(ask.batch, QuerySchemaToArrow(table.columns)) =>
         BatchFits(ask.batch, input.request, table)

\* A bound that reaches the pruner through footer, manifest and metadata bounds
\* every value of the file, but for the columns BoundLost names.
BoundsSurvive == input.kind = "bounds" => BoundsOf(input.type, input.groups)

\* A file comes back from its manifest under the partition values of its rows, read
\* by the spec it was written under, and was accepted by the check of a recovered
\* flush for its own writer, commit and partition only.
FiledWhereItBelongs ==
  input.kind = "snapshot" /\ ask = NoAsk =>
    LET specs == SpecsOf(input.type, input.transform)
        prepared == PreparedOf(input)
    IN \A i \in DOMAIN input.files :
         LET spec == specs[input.files[i].specId]
             f    == prepared[i]
         IN /\ LoadedOf(input)[i] # Err
            /\ LoadedOf(input)[i].bounds[1] = Scalar("Int64", i)
            /\ FiledTruly(LoadedOf(input)[i], spec, input.files[i].row)
            /\ \A w \in {"w1", "w2"}, c \in {"c1", "c2"} :
                 ValidatePreparedKey(f, spec, w, c) <=> w = "w1" /\ c = "c1"
            /\ \A v \in ValuesOf(input.type) :
                 LET moved == [f EXCEPT !.values[Len(f.values)] =
                                 PartitionValueOf(spec.fields[Len(f.values)], v)]
                 IN ValidatePreparedKey(moved, spec, "w1", "c1") => moved.values = f.values

\* An executor scans exactly the data and delete files of the planner's snapshot, or
\* refuses: when it runs another version, or the table has no snapshot.
ShippedWhole ==
  ask.kind = "ship" =>
    LET metadata == WithLiveFiles(input.snapshot, LoadedOf(input))
        seen     == IF metadata = Err THEN Err ELSE Shipped(metadata, ask.planner, ask.executor)
    IN IF input.snapshot = Null \/ ask.planner # ask.executor THEN seen = Err
       ELSE /\ seen # Err
            /\ ToSet(seen.data) \cup ToSet(seen.deletes) = ToSet(LoadedOf(input))
            /\ \A f \in ToSet(seen.data) : f.content = "data"
            /\ \A f \in ToSet(seen.deletes) : f.content # "data"
            /\ Len(seen.data) + Len(seen.deletes) = Len(input.files)

\* A location read back from its URI is the same location, and what was written
\* under it is found there, below the data prefix of its table alone, whatever the
\* slashes of the warehouse URI (ObjectLocation::parse and to_uri, the adapter).
NamesAgree ==
  input.kind = "paths" =>
    \A i \in {1, 2} :
      LET place == FilePlace(input, i)
          own   == TablePlaces(input).own
      IN /\ ParseLocation(ToUri(place)) = place
         /\ HasObject(StoreOf(input), ParseLocation(ToUri(place)).key)
         /\ ObjectOf(input, i) \in ListObjects(StoreOf(input), own.key \o <<Plain("data")>>)
              <=> input.files[i].own

\* A sweep removes the table's old unreferenced data files and nothing else: no
\* referenced file, no metadata, nothing of another table.  It leaves behind every
\* file whose path holds an escape: OrphanSweeper::sweep passes the listed path on
\* to delete, which escapes it a second time and so names no object.
SweepExact ==
  input.kind = "paths" =>
    LET own  == TablePlaces(input).own
        gone == {i \in {1, 2} : /\ input.files[i].own /\ ~input.files[i].referenced
                               /\ ~input.files[i].young /\ Unescaped(ObjectOf(input, i))}
    IN Resolves(own, BackendOf(input)) =>
         AfterSweep(StoreOf(input), BackendOf(input), own, UrisOf(input), YoungOf(input))
           = StoreOf(input) \ {ObjectOf(input, i) : i \in gone}

\* DROP TABLE PURGE removes the objects of its table and of no other; as in the
\* sweep, those whose path holds an escape stay (purge_table_storage).
PurgeExact ==
  input.kind = "paths" =>
    LET own  == TablePlaces(input).own
        mine == {ObjectOf(input, i) : i \in {j \in {1, 2} : input.files[j].own}}
                  \cup {ToOsPath(MetadataKey(input))}
    IN AfterPurge(StoreOf(input), BackendOf(input), own)
         = StoreOf(input) \ {p \in mine : Resolves(own, BackendOf(input)) /\ Unescaped(p)}

\* The JSON array of an answer holds the first rows of the result, whole and in
\* order, however they came in batches, or the query is refused as too large.
RowsWhole ==
  input.kind = "rows" =>
    AnswerOf(Numbered(input.batches), input.limit, input.maxBytes, input.inputLimit)

\* The registry's two maps agree with each other and with the history of pins and
\* releases: no pin is lost or left behind when queries pin several tables.
PinsAgree == input.kind = "pins" => PinsOf(input.history, {1, 2})

\* What a flush writes is every row once, in the file it belongs to, described by
\* bounds and partition values that stay true on their way through the catalog.
FilesExact == FlushWritesAll /\ StatisticsTrue /\ FiledWhereItBelongs /\ BoundsSurvive

\* An answer holds the rows it should, from the choice of files, here or on an
\* executor, to the JSON array.
AnswersExact == ScanExact /\ ShippedWhole /\ RowsWhole

\* A compaction changes no answer, and its own check stops it only over a position
\* that the delete files name twice.
CompactionExact == CompactionKeepsAnswers /\ ConservationCheck

\* The two readers of a segment agree on any bytes, and on a log that was cut off
\* they find every frame that was written in full.
LogReadsExact == SegmentReadersAgree /\ TornTailsBenign

\* A table is as it was defined, and takes no batch that does not fit it.
TablesExact == TablesAsDefined /\ AdmittedBatchesFit

\* Cleanup removes what it should and nothing else: objects are found under their
\* names, sweep and purge are exact, and the registry knows every pin.
CleanupExact == NamesAgree /\ SweepExact /\ PurgeExact /\ PinsAgree
=============================================================================
