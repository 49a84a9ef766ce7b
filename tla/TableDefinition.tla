-------------------------- MODULE TableDefinition --------------------------
(***************************************************************************)
(* What becomes of a table definition: a CREATE TABLE statement, a REST    *)
(* request or the first JSON rows of an unknown table turned into columns  *)
(* and partition fields, stored as an Iceberg schema and spec, loaded      *)
(* back, and used by ingest, by the Parquet writer and by scans.           *)
(*                                                                         *)
(* Sources: teodb-query/src/ddl/{sql_types,partition,create,executor}.rs,  *)
(* teodb-api/src/service/table.rs, teodb-api/src/http/table/handler.rs,    *)
(* teodb-ingest/src/service/ingest.rs, teodb-core/src/{schema,table}.rs,   *)
(* teodb-catalog/src/convert/{schema,partition,metadata}.rs,               *)
(* teodb-storage/src/convert.rs, teodb-query/src/conversion/*.rs,          *)
(* teodb-api/src/flight/validate.rs.                                       *)
(*                                                                         *)
(* A type is a tuple of its name and parameters.  Err is the error of any  *)
(* step; a step given an Err fails with it.                                *)
(***************************************************************************)
EXTENDS Integers, Sequences, FiniteSets, SequencesExt

CONSTANT Err

\* The casts of decimal parameters.
AsU8(n) == n % 256

AsI8(n) == ((n + 128) % 256) - 128

\* `as u32`: 2^16 stands for 2^32, which TLC's integers do not reach; only the low
\* byte is read back.
AsU32(n) == n % 65536

\* The elements of a sequence, or Err when one of them is.
AllOk(seq) == IF Err \in ToSet(seq) THEN Err ELSE seq

-----------------------------------------------------------------------------
(* The vocabularies. *)

ExactNumberInfoToPs(args) ==
  CASE Len(args) = 2 -> <<"Decimal128", AsU8(args[1]), AsI8(args[2])>>
    [] Len(args) = 1 -> <<"Decimal128", AsU8(args[1]), 0>>
    [] OTHER         -> <<"Decimal128", 38, 10>>

\* One or two names of every group of SQL types the code lists.
SqlTypeToTeo(type) ==
  CASE type.name \in {"BOOLEAN", "BOOL"}                         -> <<"Boolean">>
    [] type.name = "TINYINT"                                     -> <<"Int8">>
    [] type.name \in {"SMALLINT", "INT2", "Int16"}               -> <<"Int16">>
    [] type.name \in {"INT", "INTEGER", "INT4", "Int32"}         -> <<"Int32">>
    [] type.name \in {"BIGINT", "INT8", "Int64", "Int128", "HUGEINT"} -> <<"Int64">>
    [] type.name \in {"UInt8", "UTINYINT"}                       -> <<"UInt8">>
    [] type.name \in {"UInt16", "USMALLINT"}                     -> <<"UInt16">>
    [] type.name \in {"UInt32", "INT UNSIGNED"}                  -> <<"UInt32">>
    [] type.name \in {"UInt64", "UBIGINT", "UInt128"}            -> <<"UInt64">>
    [] type.name \in {"FLOAT", "REAL"}                           -> <<"Float32">>
    [] type.name \in {"DOUBLE", "FLOAT8"}                        -> <<"Float64">>
    [] type.name \in {"DECIMAL", "NUMERIC"}                      -> ExactNumberInfoToPs(type.args)
    [] type.name = "DATE"                                        -> <<"Date32">>
    [] type.name \in {"TIMESTAMP", "DATETIME"}                   -> <<"TimestampMicros", "UTC">>
    [] type.name = "TIME"                                        -> <<"Time64Micros">>
    [] type.name \in {"VARCHAR", "TEXT"}                         -> <<"Utf8">>
    [] type.name \in {"BYTEA", "BLOB"}                           -> <<"Binary">>
    [] OTHER                                                     -> Err

DataTypeFromKeyword(type) ==
  CASE type.name \in {"boolean", "bool"}        -> <<"Boolean">>
    [] type.name \in {"int8", "tinyint"}        -> <<"Int8">>
    [] type.name \in {"int16", "smallint"}      -> <<"Int16">>
    [] type.name \in {"int32", "integer"}       -> <<"Int32">>
    [] type.name \in {"int64", "bigint"}        -> <<"Int64">>
    [] type.name = "uint8"                      -> <<"UInt8">>
    [] type.name = "uint16"                     -> <<"UInt16">>
    [] type.name = "uint32"                     -> <<"UInt32">>
    [] type.name = "uint64"                     -> <<"UInt64">>
    [] type.name \in {"float32", "float"}       -> <<"Float32">>
    [] type.name \in {"float64", "double"}      -> <<"Float64">>
    [] type.name \in {"date", "date32"}         -> <<"Date32">>
    [] type.name = "timestamp"                  -> <<"TimestampMicros", "UTC">>
    [] type.name = "time"                       -> <<"Time64Micros">>
    [] type.name \in {"string", "utf8"}         -> <<"Utf8">>
    [] type.name \in {"binary", "bytes"}        -> <<"Binary">>
    [] OTHER                                    -> Err

\* Arrow's names and parameters are the domain's but for the temporal types.
TeoDataTypeToArrow(type) ==
  CASE type[1] = "TimestampMicros" -> <<"Timestamp", "Microsecond", type[2]>>
    [] type[1] = "Time64Micros"    -> <<"Time64", "Microsecond">>
    [] OTHER                       -> type

\* teodb-query has a conversion of its own.
TeoToArrowType(type) ==
  CASE type[1] = "TimestampMicros" -> <<"Timestamp", "Microsecond", type[2]>>
    [] type[1] = "Time64Micros"    -> <<"Time64", "Microsecond">>
    [] OTHER                       -> type

ArrowToTeoDataType(type) ==
  CASE type[1] = "Timestamp" ->
         IF type[2] = "Microsecond" THEN <<"TimestampMicros", type[3]>> ELSE Err
    [] type[1] = "Time64" ->
         IF type[2] = "Microsecond" THEN <<"Time64Micros">> ELSE Err
    [] type[1] \in {"List", "Struct", "Null"} -> Err
    [] OTHER -> type

-----------------------------------------------------------------------------
(* The partition clauses. *)

\* An argument of a call, or a whole clause element: <<"column", name>>,
\* <<"number", n>> or <<"call", function, arguments>>.
IsColumn(e) == e[1] = "column"

\* `year(col)` and its like take one column, `bucket` and `truncate` a number and a
\* column; the count 0 parses as any other.
ParsePartitionFunction(e) ==
  LET args == e[3]
  IN CASE e[2] \in {"identity", "year", "month", "day", "hour"} ->
            IF Len(args) = 1 /\ IsColumn(args[1])
              THEN [column |-> args[1][2], transform |-> <<e[2]>>] ELSE Err
       [] e[2] \in {"bucket", "truncate"} ->
            IF Len(args) = 2 /\ args[1][1] = "number" /\ IsColumn(args[2])
              THEN [column |-> args[2][2], transform |-> <<e[2], args[1][2]>>] ELSE Err
       [] OTHER -> Err

ParsePartitionExpr(e) ==
  CASE IsColumn(e)   -> [column |-> e[2], transform |-> <<"identity">>]
    [] e[1] = "call" -> ParsePartitionFunction(e)
    [] OTHER         -> Err

ParsePartitionBy(exprs) == AllOk([i \in DOMAIN exprs |-> ParsePartitionExpr(exprs[i])])

\* Hive's PARTITIONED BY names columns.
ParseHivePartition(columns) ==
  [i \in DOMAIN columns |-> [column |-> columns[i], transform |-> <<"identity">>]]

\* A REST transform is a keyword, with a count for `bucket` and `truncate` that is
\* Err when it is not a number.
ParseTransform(t) ==
  CASE t[1] \in {"bucket", "truncate"} -> IF Len(t) = 2 /\ t[2] # Err THEN t ELSE Err
    [] t[1] \in {"identity", "year", "month", "day", "hour"} -> IF Len(t) = 1 THEN t ELSE Err
    [] OTHER -> Err

PartitionFieldSpecs(fields) ==
  AllOk([i \in DOMAIN fields |->
    IF ParseTransform(fields[i].transform) = Err THEN Err
    ELSE [column |-> fields[i].column, transform |-> ParseTransform(fields[i].transform)]])

-----------------------------------------------------------------------------
(* The definition a request stands for. *)

Column(id, name, type, nullable) ==
  IF type = Err THEN Err ELSE [id |-> id, name |-> name, type |-> type, nullable |-> nullable]

ConvertColumns(columns) ==
  AllOk([i \in DOMAIN columns |->
    Column(i, columns[i].name, SqlTypeToTeo(columns[i].type), ~columns[i].notNull)])

RestColumns(columns) ==
  AllOk([i \in DOMAIN columns |->
    Column(i, columns[i].name, DataTypeFromKeyword(columns[i].type), columns[i].nullable)])

\* Schema-on-write: the fields Arrow infers from JSON rows.
AutoCreateColumns(fields) ==
  AllOk([i \in DOMAIN fields |->
    Column(i, fields[i].name, ArrowToTeoDataType(fields[i].type), fields[i].nullable)])

Definition(columns, fields) ==
  IF columns = Err \/ fields = Err THEN Err ELSE [columns |-> columns, fields |-> fields]

\* Mutation: a Hive clause wins over PARTITION BY.
ParseCreateTable_HiveFirst(ct) ==
  Definition(ConvertColumns(ct.columns),
             IF ct.hive # <<>> THEN ParseHivePartition(ct.hive) ELSE ParsePartitionBy(ct.partitionBy))

\* PARTITION BY wins over a Hive clause.
ParseCreateTable(ct) ==
  Definition(ConvertColumns(ct.columns),
             IF ct.partitionBy # <<>> THEN ParsePartitionBy(ct.partitionBy)
                                      ELSE ParseHivePartition(ct.hive))

\* The REST handler also validates every name; SQL names are taken as they are.
CreateTableHandler(body, valid) ==
  IF \E i \in DOMAIN body.columns : body.columns[i].name \notin valid THEN Err
  ELSE Definition(RestColumns(body.columns), PartitionFieldSpecs(body.partitionBy))

Requested(request, valid) ==
  CASE request.via = "sql"  -> ParseCreateTable(request)
    [] request.via = "rest" -> CreateTableHandler(request, valid)
    [] request.via = "json" -> Definition(AutoCreateColumns(request.columns), <<>>)

-----------------------------------------------------------------------------
(* The catalog and back. *)

\* The first column of that name.
ByName(columns, name) ==
  LET named == {i \in DOMAIN columns : columns[i].name = name}
  IN IF named = {} THEN Err ELSE columns[CHOOSE i \in named : \A j \in named : i <= j]

DefaultFieldName(column, transform) ==
  IF transform = <<"identity">> THEN <<column>> ELSE <<column>> \o transform

BuildPartitionSpec(columns, fields) ==
  AllOk([i \in DOMAIN fields |->
    LET source == ByName(columns, fields[i].column)
    IN IF source = Err THEN Err
       ELSE [source    |-> source.id,
             name      |-> DefaultFieldName(fields[i].column, fields[i].transform),
             transform |-> fields[i].transform]])

TeodbToIcebergPrimitive(type) ==
  CASE type[1] \in {"Int8", "Int16", "Int32", "UInt8", "UInt16"} -> <<"Int">>
    [] type[1] \in {"Int64", "UInt32", "UInt64"} -> <<"Long">>
    [] type[1] = "Float32"         -> <<"Float">>
    [] type[1] = "Float64"         -> <<"Double">>
    [] type[1] = "Date32"          -> <<"Date">>
    [] type[1] = "Time64Micros"    -> <<"Time">>
    [] type[1] = "TimestampMicros" -> IF type[2] = "none" THEN <<"Timestamp">> ELSE <<"Timestamptz">>
    [] type[1] = "Utf8"            -> <<"String">>
    [] type[1] = "FixedSizeBinary" -> IF type[2] = 16 THEN <<"Uuid">> ELSE <<"Fixed", type[2]>>
    [] type[1] = "Decimal128"      -> <<"Decimal", AsU32(type[2]), AsU32(type[3])>>
    [] type[1] \in {"Boolean", "Binary"} -> type

IcebergPrimitiveToTeodb(type) ==
  CASE type[1] = "Int"         -> <<"Int32">>
    [] type[1] = "Long"        -> <<"Int64">>
    [] type[1] = "Float"       -> <<"Float32">>
    [] type[1] = "Double"      -> <<"Float64">>
    [] type[1] = "Date"        -> <<"Date32">>
    [] type[1] = "Time"        -> <<"Time64Micros">>
    [] type[1] = "Timestamp"   -> <<"TimestampMicros", "none">>
    [] type[1] = "Timestamptz" -> <<"TimestampMicros", "UTC">>
    [] type[1] = "String"      -> <<"Utf8">>
    [] type[1] = "Uuid"        -> <<"FixedSizeBinary", 16>>
    [] type[1] = "Fixed"       -> <<"FixedSizeBinary", type[2]>>
    [] type[1] = "Decimal"     -> <<"Decimal128", AsU8(type[2]), AsI8(type[3])>>
    [] type[1] \in {"Boolean", "Binary"} -> type

TeodbSchemaToIceberg(columns) ==
  [i \in DOMAIN columns |->
    [id       |-> columns[i].id,
     name     |-> columns[i].name,
     type     |-> TeodbToIcebergPrimitive(columns[i].type),
     required |-> ~columns[i].nullable]]

IcebergSchemaToTeodb(fields) ==
  [i \in DOMAIN fields |->
    Column(fields[i].id, fields[i].name, IcebergPrimitiveToTeodb(fields[i].type), ~fields[i].required)]

\* Iceberg: names are unique, a partition field's name is that of no other column,
\* no source has the same transform twice, a transform fits its source's type, and a
\* decimal has 38 digits at most.
Temporal == {"Date", "Timestamp", "Timestamptz"}

Applies(transform, type) ==
  CASE transform[1] \in {"year", "month", "day"} -> type[1] \in Temporal
    [] transform[1] = "hour"     -> type[1] \in Temporal \ {"Date"}
    [] transform[1] = "bucket"   -> type[1] \notin {"Boolean", "Float", "Double"}
    [] transform[1] = "truncate" -> type[1] \in {"Int", "Long", "String", "Binary", "Decimal"}
    [] OTHER                     -> TRUE

CatalogAccepts(schema, spec) ==
  /\ \A i, j \in DOMAIN schema : schema[i].name = schema[j].name => i = j
  /\ \A i \in DOMAIN schema : schema[i].type[1] = "Decimal" => schema[i].type[2] <= 38
  /\ \A i \in DOMAIN spec :
       /\ Applies(spec[i].transform, schema[spec[i].source].type)
       /\ \A j \in DOMAIN schema :
            spec[i].name = <<schema[j].name>> => /\ spec[i].source = j
                                                 /\ spec[i].transform = <<"identity">>
       /\ \A j \in DOMAIN spec :
            (spec[i].name = spec[j].name \/ (spec[i].source = spec[j].source
                                             /\ spec[i].transform = spec[j].transform)) => i = j

\* The catalog numbers the partition fields.
FirstPartitionFieldId == 1000

Bind(spec) ==
  [i \in DOMAIN spec |->
    [source    |-> spec[i].source, field |-> FirstPartitionFieldId + i - 1,
     name      |-> spec[i].name, transform |-> spec[i].transform]]

IcebergToTeoMetadata(schema, spec) ==
  [columns |-> IcebergSchemaToTeodb(schema), spec |-> spec]

CreateTable(columns, fields) ==
  LET spec   == BuildPartitionSpec(columns, fields)
      schema == TeodbSchemaToIceberg(columns)
  IN IF spec = Err THEN Err
     ELSE IF CatalogAccepts(schema, spec) THEN IcebergToTeoMetadata(schema, Bind(spec)) ELSE Err

-----------------------------------------------------------------------------
(* The Arrow schemas and the batches they admit. *)

ArrowField(column, type) ==
  [name |-> column.name, type |-> type, nullable |-> column.nullable, id |-> column.id]

\* The schema of the Parquet writer and of the JSON decoder.
StorageSchemaToArrow(columns) ==
  [i \in DOMAIN columns |-> ArrowField(columns[i], TeoDataTypeToArrow(columns[i].type))]

\* The schema of scans and of Flight ingest.
QuerySchemaToArrow(columns) ==
  [i \in DOMAIN columns |-> ArrowField(columns[i], TeoToArrowType(columns[i].type))]

\* Decimals are compared by precision and scale, timestamps by unit and zone, other
\* types whole: in all, the tuples.
ValidateDataType(expected, actual) == expected = actual

\* A batch column has a field id or NoId, and a number of nulls.
NoId == 0

ValidateBatch(batch, expected) ==
  /\ Len(batch) = Len(expected)
  /\ \A i \in DOMAIN expected :
       /\ batch[i].name = expected[i].name
       /\ ValidateDataType(expected[i].type, batch[i].type)
       /\ ~expected[i].nullable => batch[i].nulls = 0
       /\ batch[i].id # NoId => batch[i].id = expected[i].id

-----------------------------------------------------------------------------
(* What a definition must come to, told from the request as its author wrote it. *)

\* Names and nullability as written.
Wanted(request) ==
  [i \in DOMAIN request.columns |->
    LET c == request.columns[i]
    IN [name |-> c.name, nullable |-> IF request.via = "sql" THEN ~c.notNull ELSE c.nullable,
        type |-> IF request.via = "json" THEN [name |-> c.type[1], args |-> <<>>] ELSE c.type]]

\* The bits a signed number needs to hold every integer of a type: that is what the
\* type's name says in SQL, in REST requests and in Arrow.  0 of any other type.
BitsAsked(name) ==
  CASE name \in {"TINYINT", "int8", "tinyint"}                                 -> 8
    [] name \in {"UInt8", "UTINYINT", "uint8"}                                 -> 9
    [] name \in {"SMALLINT", "INT2", "Int16", "int16", "smallint"}             -> 16
    [] name \in {"UInt16", "USMALLINT", "uint16"}                              -> 17
    [] name \in {"INT", "INTEGER", "INT4", "Int32", "int32", "integer"}        -> 32
    [] name \in {"UInt32", "INT UNSIGNED", "uint32"}                           -> 33
    [] name \in {"BIGINT", "INT8", "Int64", "int64", "bigint"}                 -> 64
    [] name \in {"UInt64", "UBIGINT", "uint64"}                                -> 65
    [] name \in {"Int128", "HUGEINT"}                                          -> 128
    [] name = "UInt128"                                                        -> 129
    [] OTHER                                                                   -> 0

BitsStored(type) ==
  CASE type = <<"Int32">> -> 32
    [] type = <<"Int64">> -> 64
    [] OTHER              -> 0

OtherAsked(name) ==
  CASE name \in {"BOOLEAN", "BOOL", "boolean", "bool", "Boolean"} -> <<"Boolean">>
    [] name \in {"FLOAT", "REAL", "float32", "float"}             -> <<"Float32">>
    [] name \in {"DOUBLE", "FLOAT8", "float64", "double", "Float64"} -> <<"Float64">>
    [] name \in {"DATE", "date", "date32"}                        -> <<"Date32">>
    [] name \in {"TIMESTAMP", "DATETIME", "timestamp"}            -> <<"TimestampMicros", "UTC">>
    [] name \in {"TIME", "time"}                                  -> <<"Time64Micros">>
    [] name \in {"VARCHAR", "TEXT", "string", "utf8", "Utf8"}     -> <<"Utf8">>
    [] name \in {"BYTEA", "BLOB", "binary", "bytes"}              -> <<"Binary">>

DecimalAsked(args) ==
  CASE Len(args) = 2 -> <<"Decimal128", args[1], args[2]>>
    [] Len(args) = 1 -> <<"Decimal128", args[1], 0>>
    [] OTHER         -> <<"Decimal128", 38, 10>>

\* A stored column holds the values its type's name promises.  Three promises are
\* not kept, and nobody is told: integers of more than 64 signed bits (uint64 and
\* the 128-bit types) are a long, and a decimal's precision is taken modulo 256.
TypeHolds(type, stored) ==
  CASE BitsAsked(type.name) # 0 ->
         BitsStored(stored) >= (IF BitsAsked(type.name) > 64 THEN 64 ELSE BitsAsked(type.name))
    [] type.name \in {"DECIMAL", "NUMERIC"} ->
         stored = DecimalAsked(type.args) \/ (type.args # <<>> /\ type.args[1] > 255)
    [] OTHER -> stored = OtherAsked(type.name)

\* What an element of a partition clause mentions: columns, and numbers in order.
ColumnsIn(e) == {a[2] : a \in {x \in IF e[1] = "call" THEN ToSet(e[3]) ELSE {e} : IsColumn(x)}}

NumbersIn(e) ==
  LET numbers == SelectSeq(e[3], LAMBDA a : a[1] = "number")
  IN [i \in DOMAIN numbers |-> numbers[i][2]]

\* The partitioning as written: the columns each element may mean, and its transform.
PartitioningAsked(request) ==
  CASE request.via = "rest" ->
         [i \in DOMAIN request.partitionBy |->
           [columns |-> {request.partitionBy[i].column}, transform |-> request.partitionBy[i].transform]]
    [] request.via = "sql" /\ request.partitionBy # <<>> ->
         [i \in DOMAIN request.partitionBy |->
           LET e == request.partitionBy[i]
           IN [columns   |-> ColumnsIn(e),
               transform |-> IF e[1] = "call" THEN <<e[2]>> \o NumbersIn(e) ELSE <<"identity">>]]
    [] request.via = "sql" /\ request.partitionBy = <<>> ->
         [i \in DOMAIN request.hive |-> [columns |-> {request.hive[i]}, transform |-> <<"identity">>]]
    [] OTHER -> <<>>

\* The table has the columns the request wrote, in its order, numbered from 1, null
\* where the request lets them be, of types that hold the values asked for; it is
\* partitioned as written, by the one column each element mentions; storing it again
\* changes nothing; the writer and the scans see one Arrow schema.
DefinedAs(request, table) ==
  LET wanted == Wanted(request)
      clause == PartitioningAsked(request)
  IN /\ Len(table.columns) = Len(wanted)
     /\ \A i \in DOMAIN wanted :
          LET got == table.columns[i]
          IN /\ got.id = i /\ got.name = wanted[i].name /\ got.nullable = wanted[i].nullable
             /\ TypeHolds(wanted[i].type, got.type)
     /\ Len(table.spec) = Len(clause)
     /\ \A i \in DOMAIN clause :
          /\ clause[i].columns = {wanted[table.spec[i].source].name}
          /\ table.spec[i].transform = clause[i].transform
     /\ IcebergSchemaToTeodb(TeodbSchemaToIceberg(table.columns)) = table.columns
     /\ StorageSchemaToArrow(table.columns) = QuerySchemaToArrow(table.columns)

\* A batch for the table of a request is of that request's columns: their names in
\* their order, no null where the request allows none, no field id but the column's
\* place, and values of an Arrow type the Parquet writer takes for that column.
BatchFits(batch, request, table) ==
  LET wanted == Wanted(request)
      writer == StorageSchemaToArrow(table.columns)
  IN /\ Len(batch) = Len(wanted)
     /\ \A i \in DOMAIN wanted :
          /\ batch[i].name = wanted[i].name
          /\ batch[i].nulls > 0 => wanted[i].nullable
          /\ batch[i].id \in {NoId, i}
          /\ batch[i].type = writer[i].type
          /\ ArrowToTeoDataType(batch[i].type) # Err
          /\ TypeHolds(wanted[i].type, ArrowToTeoDataType(batch[i].type))
=============================================================================
