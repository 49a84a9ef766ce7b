---------------------------- MODULE FileMetadata ----------------------------
(***************************************************************************)
(* What becomes of the values that describe a file: a column's bounds, from *)
(* the Parquet footer through the catalog's manifest to the pruner; and the *)
(* partition values, from a row to the manifest, to the file's path and     *)
(* back.                                                                    *)
(*                                                                         *)
(* Sources: teodb-storage/src/parquet/stats.rs, teodb-core/src/scalar.rs,  *)
(* teodb-catalog/src/convert/{scalar,data_file,partition}.rs,              *)
(* teodb-ingest/src/flush/{partitioning,write,mod}.rs,                     *)
(* teodb-query/src/conversion/scalar.rs.                                   *)
(*                                                                         *)
(* A number is one of 8 bits, which stand for the 32, 64 or 128 of its     *)
(* type; bytes are sequences of two hexadecimal digits.  Bytes whose first *)
(* digit is above 7 are no UTF-8 text.                                     *)
(***************************************************************************)
EXTENDS TableDefinition, FileWriter

\* TeoScalar: its kind and its value, a number or bytes.
Scalar(kind, v) == <<kind, v>>

BigEndian(n) == <<(n % 256) \div 16, n % 16>>

LittleEndian(n) == <<n % 16, (n % 256) \div 16>>

Signed(n) == IF n >= 128 THEN n - 256 ELSE n

FromBigEndian(bytes) == Signed(bytes[1] * 16 + bytes[2])

FromLittleEndian(bytes) == Signed(bytes[2] * 16 + bytes[1])

IsText(bytes) == bytes[1] < 8

\* The lexicographic order of bytes.
BytesBefore(a, b) == a[1] < b[1] \/ (a[1] = b[1] /\ a[2] < b[2])

HoldsBytes(type) == type[1] \in {"Utf8", "Binary", "FixedSizeBinary"}

ValueBefore(type, a, b) == IF HoldsBytes(type) THEN BytesBefore(a, b) ELSE a < b

-----------------------------------------------------------------------------
(* From the footer to the metadata of the file just written. *)

\* Arrow's Parquet writer: the physical type of a column, decimals by precision.
Physical(type) ==
  CASE type[1] = "Boolean" -> "BOOLEAN"
    [] type[1] \in {"Int32", "Date32"} -> "INT32"
    [] type[1] \in {"Int64", "Time64Micros", "TimestampMicros"} -> "INT64"
    [] type[1] = "Float32" -> "FLOAT"
    [] type[1] = "Float64" -> "DOUBLE"
    [] type[1] \in {"Utf8", "Binary"} -> "BYTE_ARRAY"
    [] type[1] = "FixedSizeBinary" -> "FIXED"
    [] type[1] = "Decimal128" ->
         IF type[2] <= 9 THEN "INT32" ELSE IF type[2] <= 18 THEN "INT64" ELSE "FIXED"

\* stats_min_to_scalar and stats_max_to_scalar: the statistic typed by the physical
\* type alone.  A decimal of more than 18 digits is kept as its bytes.
StatsToScalar(type, v) ==
  CASE Physical(type) = "BOOLEAN" -> Scalar("Boolean", v)
    [] Physical(type) = "INT32"   -> Scalar("Int32", v)
    [] Physical(type) = "INT64"   -> Scalar("Int64", v)
    [] Physical(type) = "FLOAT"   -> Scalar("Float32", v)
    [] Physical(type) = "DOUBLE"  -> Scalar("Float64", v)
    [] Physical(type) = "BYTE_ARRAY" -> IF IsText(v) THEN Scalar("Utf8", v) ELSE Null
    [] Physical(type) = "FIXED"   -> Scalar("Binary", IF HoldsBytes(type) THEN v ELSE BigEndian(v))

\* PartialOrd: scalars of one kind.
Less(a, b) ==
  /\ a[1] = b[1]
  /\ IF a[1] \in {"Utf8", "Binary", "FixedSizeBinary"} THEN BytesBefore(a[2], b[2]) ELSE a[2] < b[2]

\* The extreme of a row group's values as a scalar; a group of nulls has none.
GroupScalar(type, S, lower) ==
  IF S = {} THEN Null
  ELSE StatsToScalar(type, CHOOSE v \in S : \A w \in S :
         IF lower THEN ~ValueBefore(type, w, v) ELSE ~ValueBefore(type, v, w))

\* Mutant: a later row group's bound replaces the earlier one's.
Merge_Last(bound, scalar, lower) == IF scalar = Null THEN bound ELSE scalar

\* One row group's statistic merged into the file's bound.
Merge(bound, scalar, lower) ==
  CASE scalar = Null -> bound
    [] bound = Null  -> scalar
    [] OTHER -> IF (lower /\ Less(scalar, bound)) \/ (~lower /\ Less(bound, scalar))
                  THEN scalar ELSE bound

Bound(type, groups, lower) ==
  FoldLeft(LAMBDA bound, S : Merge(bound, GroupScalar(type, S, lower), lower), Null, groups)

-----------------------------------------------------------------------------
(* Through the catalog. *)

\* format_i128_decimal and the parse of its text, for scale 1: the whole part is
\* printed with its sign, a zero without one.
Tenths(n) == IF n < 0 THEN -((-n) \div 10) ELSE n \div 10

Fraction(n) == IF n < 0 THEN (-n) % 10 ELSE n % 10

FormatI128Decimal(n) == <<Tenths(n), Fraction(n)>>

DecimalFromStr(text) ==
  IF text[1] < 0 THEN text[1] * 10 - text[2] ELSE text[1] * 10 + text[2]

\* The literal of a scalar.
TeoScalarToDatum(scalar) ==
  CASE scalar[1] \in {"Boolean"} -> <<"Boolean", scalar[2]>>
    [] scalar[1] \in {"Int8", "Int16", "Int32", "UInt8", "UInt16", "Date32"} -> <<"Int", scalar[2]>>
    [] scalar[1] \in {"Int64", "UInt32", "UInt64", "Time64Micros", "TimestampMicros"} ->
         <<"Long", scalar[2]>>
    [] scalar[1] = "Float32" -> <<"Float", scalar[2]>>
    [] scalar[1] = "Float64" -> <<"Double", scalar[2]>>
    [] scalar[1] = "Utf8"    -> <<"String", scalar[2]>>
    [] scalar[1] \in {"Binary", "FixedSizeBinary"} -> <<"Binary", scalar[2]>>
    [] scalar[1] = "Decimal128" -> <<"Int128", DecimalFromStr(FormatI128Decimal(scalar[2]))>>

\* A literal as a scalar of the column's type.  Literals come from DatumOfBytes or
\* TransformLiteral with the same type, so the errors for a literal of another type
\* and for the sentinels AboveMax and BelowMin are left out.
PrimitiveLiteralToTeoScalar(literal, type) ==
  CASE type[1] \in {"Boolean", "Int32", "Int64", "Float32", "Float64", "Date32",
                    "Time64Micros", "TimestampMicros", "Utf8", "Binary", "Decimal128"} ->
         Scalar(type[1], literal[2])
    [] type[1] = "FixedSizeBinary" ->
         Scalar("FixedSizeBinary", IF literal[1] = "UInt128" THEN BigEndian(literal[2]) ELSE literal[2])

\* Iceberg's manifests keep a bound as bytes: a number's little end first, and a
\* decimal's, when read, big end first.  Reading is by the column's type.
DatumBytes(literal) ==
  IF literal[1] \in {"String", "Binary"} THEN literal[2] ELSE LittleEndian(literal[2])

DatumOfBytes(bytes, type) ==
  CASE type[1] = "Utf8"   -> <<"String", bytes>>
    [] type[1] = "Binary" -> <<"Binary", bytes>>
    [] type[1] = "FixedSizeBinary" ->
         IF type[2] = 16 THEN <<"UInt128", FromBigEndian(bytes)>> ELSE <<"Binary", bytes>>
    [] type[1] = "Decimal128" -> <<"Int128", FromBigEndian(bytes)>>
    [] OTHER -> <<"Number", FromLittleEndian(bytes)>>

\* convert_datum_bounds: a bound as the metadata loaded from the catalog has it, then as the pruner gets
\* it: a DataFusion scalar of the same kind and value.
LoadedBound(type, bound) ==
  IF bound = Null THEN Null
  ELSE PrimitiveLiteralToTeoScalar(DatumOfBytes(DatumBytes(TeoScalarToDatum(bound)), type), type)

-----------------------------------------------------------------------------
(* Partition values. *)

\* scalar_at: a row's value typed by the column.
ScalarAt(type, v) == IF v = Null THEN Null ELSE Scalar(type[1], v)

\* Iceberg's transforms of a literal: one that keeps the value, one that maps it to
\* another type and one that rounds it.  year, month, day and hour, which round a
\* time to a number, and void, which is always null, are left out.
TransformLiteral(literal, transform) ==
  LET bytes == literal[1] \in {"String", "Binary"}
      v     == literal[2]
  IN CASE transform = "identity" -> literal
       [] transform = "bucket"   -> <<"Int", (IF bytes THEN v[2] ELSE v) % 2>>
       [] transform = "truncate" -> <<literal[1], IF bytes THEN <<v[1], 0>> ELSE v - (v % 10)>>

ResultType(type, transform) == IF transform = "bucket" THEN <<"Int32">> ELSE type

ApplyPartitionTransformToScalar(value, type, transform) ==
  IF value = Null THEN Null
  ELSE PrimitiveLiteralToTeoScalar(TransformLiteral(TeoScalarToDatum(value), transform),
                                   ResultType(type, transform))

\* The value of a partition field of a row.
PartitionValueOf(field, v) ==
  ApplyPartitionTransformToScalar(ScalarAt(field.type, v), field.type, field.transform)

LiteralOf(value) == IF value = Null THEN Null ELSE TeoScalarToDatum(value)

\* The directory of a file: a component for each partition field, in which encoding
\* leaves no separator, then the writer's; its name starts with the commit.
IcebergPartitionPath(spec, values) ==
  [i \in DOMAIN spec.fields |-> <<spec.fields[i].name, LiteralOf(values[i])>>]

FlushFileKey(spec, values, writer, commit) ==
  [dir |-> IcebergPartitionPath(spec, values) \o <<writer>>, name |-> commit]

\* validate_prepared_data_files: the key is a name of the commit in the directory of
\* the file's own partition values and of the writer.
ValidatePreparedKey(file, spec, writer, commit) ==
  /\ file.key.dir = IcebergPartitionPath(spec, file.values) \o <<writer>>
  /\ file.key.name = commit

-----------------------------------------------------------------------------
(* A file in a manifest and back, then in a scan descriptor. *)

\* A data file as the flush describes it: a partition value for every field of its
\* spec, and the bounds of its columns by field id.
PreparedFile(content, spec, row, bounds, writer, commit) ==
  LET values == [i \in DOMAIN spec.fields |-> PartitionValueOf(spec.fields[i], row[spec.fields[i].source])]
  IN [content |-> content, specId |-> spec.id, values |-> values, bounds |-> bounds,
      key |-> FlushFileKey(spec, values, writer, commit)]

TeodbPartitionValuesToIceberg(values, spec) ==
  [i \in DOMAIN spec.fields |-> IF i \in DOMAIN values THEN LiteralOf(values[i]) ELSE Null]

TeodbDataFileToIceberg(file, spec) ==
  [content |-> file.content, specId |-> file.specId, key |-> file.key,
   partition |-> TeodbPartitionValuesToIceberg(file.values, spec),
   bounds |-> [c \in DOMAIN file.bounds |-> DatumBytes(TeoScalarToDatum(file.bounds[c]))]]

\* The tuple must have the shape of the spec.
IcebergPartitionValuesToTeodb(tuple, spec) ==
  IF Len(tuple) # Len(spec.fields) THEN Err
  ELSE [i \in DOMAIN tuple |->
          IF tuple[i] = Null THEN Null
          ELSE PrimitiveLiteralToTeoScalar(tuple[i],
                 ResultType(spec.fields[i].type, spec.fields[i].transform))]

\* Bounds of columns the schema does not have are left out.
IcebergDataFileToTeodb(entry, types, spec) ==
  LET values == IcebergPartitionValuesToTeodb(entry.partition, spec)
  IN IF values = Err THEN Err
     ELSE [content |-> entry.content, specId |-> spec.id, key |-> entry.key, values |-> values,
           bounds |-> [c \in DOMAIN entry.bounds \cap DOMAIN types |->
             PrimitiveLiteralToTeoScalar(DatumOfBytes(entry.bounds[c], types[c]), types[c])]]

IcebergDataFilesToTeodb(entries, types, specs) ==
  [i \in DOMAIN entries |-> IcebergDataFileToTeodb(entries[i], types, specs[entries[i].specId])]

\* with_live_files: data and delete files apart; files without a snapshot are
\* corruption.
WithLiveFiles(snapshot, files) ==
  IF snapshot = Null
    THEN IF files = <<>> THEN [snapshot |-> Null, data |-> <<>>, deletes |-> <<>>] ELSE Err
    ELSE [snapshot |-> snapshot,
          data     |-> SelectSeq(files, LAMBDA f : f.content = "data"),
          deletes  |-> SelectSeq(files, LAMBDA f : f.content # "data")]

\* The descriptor a planner ships: a table without a snapshot has none.
FromMetadata(metadata) ==
  IF metadata.snapshot = Null THEN Err
  ELSE [metadata EXCEPT !.data = SelectSeq(@, LAMBDA f : f.content = "data")]

\* The envelope of a descriptor names the version of the node that wrote it, and a
\* node of another version refuses it.
EncodeDescriptor(descriptor, version) == [version |-> version, descriptor |-> descriptor]

DecodeDescriptor(envelope, version) ==
  IF envelope.version # version THEN Err ELSE envelope.descriptor

\* What an executor scans of a table the planner resolved.
Shipped(metadata, planner, executor) ==
  LET descriptor == FromMetadata(metadata)
  IN IF descriptor = Err THEN Err
     ELSE DecodeDescriptor(EncodeDescriptor(descriptor, planner), executor)

-----------------------------------------------------------------------------
(* What the metadata must still say. *)

\* The cases in which a bound does not hold of the rows: decimals of up to 18
\* digits, whose bytes the manifest turns round; wider ones of several row groups,
\* whose signed values are merged by their bytes; and binary columns, of which a
\* row group's extreme that is no text is left out.
BoundLost(type, groups) ==
  LET values == UNION ToSet(groups)
  IN \/ type[1] = "Decimal128" /\ type[2] <= 18
     \/ type[1] = "Decimal128" /\ Len(groups) > 1 /\ \E m, n \in values : m < 0 /\ n >= 0
     \/ type[1] = "Binary" /\ \E v \in values : ~IsText(v)

\* In every other case the bounds the pruner gets are of the column's type and no
\* value of any row group lies outside them.
BoundsOf(type, groups) ==
  LET low  == LoadedBound(type, Bound(type, groups, TRUE))
      high == LoadedBound(type, Bound(type, groups, FALSE))
  IN BoundLost(type, groups) \/ UNION ToSet(groups) = {} \/
       /\ low # Null /\ high # Null
       /\ low[1] = type[1] /\ high[1] = type[1]
       /\ \A v \in UNION ToSet(groups) :
            ~ValueBefore(type, v, low[2]) /\ ~ValueBefore(type, high[2], v)

\* The value a partition field of a row stands for.
TrueValue(field, v) ==
  LET bytes == HoldsBytes(field.type)
  IN IF v = Null THEN Null
     ELSE CASE field.transform = "identity" -> Scalar(field.type[1], v)
            [] field.transform = "bucket"   -> Scalar("Int32", (IF bytes THEN v[2] ELSE v) % 2)
            [] field.transform = "truncate" ->
                 Scalar(field.type[1], IF bytes THEN <<v[1], 0>> ELSE v - (v % 10))

\* A decimal between -1 and 0 loses its sign in its text.
SignLost(field, v) == field.type[1] = "Decimal128" /\ v # Null /\ v < 0 /\ v > -10

\* A loaded file is filed under the transforms of its rows' values, but for
\* decimals that lose their sign.
FiledTruly(loaded, spec, row) ==
  \A i \in DOMAIN spec.fields :
    LET field == spec.fields[i]
        v     == row[field.source]
    IN /\ ~SignLost(field, v) => loaded.values[i] = TrueValue(field, v)
       /\ SignLost(field, v) /\ field.transform # "bucket" => loaded.values[i] # TrueValue(field, v)
=============================================================================
