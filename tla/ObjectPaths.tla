---------------------------- MODULE ObjectPaths ----------------------------
(***************************************************************************)
(* The names of objects: location.rs parses and prints URIs, the storage   *)
(* factory turns a location into a key, the object_store adapter turns a   *)
(* key into a path of the store, and the orphan sweeper and DROP TABLE     *)
(* PURGE compare and pass on what comes back from a listing.               *)
(*                                                                         *)
(* A name is a sequence of segments, the pieces between its slashes.  A    *)
(* segment is a text and the number of times it was percent-encoded: a     *)
(* "plain" text has no character an encoder changes, a "mark" has one that *)
(* both change ('#', say), a "star" one that only the store changes ('*'). *)
(* Whatever was encoded once holds a '%', which the store encodes again.   *)
(***************************************************************************)
EXTENDS Naturals, Sequences, FiniteSets, SequencesExt

Segment_(text, class) == [text |-> text, class |-> class, escapes |-> 0]

Empty == Segment_("", "plain")
Up    == Segment_("..", "plain")

BadName == [scheme |-> "none", bucket |-> Empty, key |-> <<>>]

Schemes == {"s3", "gs", "abfs", "file"}

-----------------------------------------------------------------------------
(* location.rs *)

DropEmpty(segments) == SelectSeq(segments, LAMBDA s : s # Empty)

NormalizeKey(raw) ==
  LET stripped == IF Len(raw) > 1 /\ raw[1] = Empty THEN Tail(raw) ELSE raw
  IN IF Up \in ToSet(stripped) THEN <<Up>> ELSE DropEmpty(stripped)

\* A URI is its scheme and the segments after "://".
ParseLocation(uri) ==
  LET keyed(bucket, raw) ==
        IF NormalizeKey(raw) = <<Up>> THEN BadName
        ELSE [scheme |-> uri.scheme, bucket |-> bucket, key |-> NormalizeKey(raw)]
  IN CASE uri.scheme \notin Schemes -> BadName
       [] uri.scheme = "file"       -> keyed(Empty, uri.rest)
       [] OTHER -> IF Len(uri.rest) < 2 \/ uri.rest[1] = Empty
                     THEN BadName
                     ELSE keyed(uri.rest[1], Tail(uri.rest))

ToUri(loc) ==
  [scheme |-> loc.scheme,
   rest   |-> (IF loc.scheme = "file" THEN <<>> ELSE <<loc.bucket>>)
                \o (IF loc.key = <<>> THEN <<Empty>> ELSE loc.key)]

\* Where CREATE TABLE puts a table.
TableLocation(warehouse, ns, name) ==
  LET uri == [warehouse EXCEPT !.rest = @ \o <<ns, name>>]
  IN IF ParseLocation(uri) # BadName THEN ParseLocation(uri)
     ELSE [scheme |-> "s3", bucket |-> Segment_("warehouse", "plain"), key |-> <<ns, name>>]

-----------------------------------------------------------------------------
(* Data files. *)

UrlEncode(segment) ==
  IF segment.class = "mark" THEN [segment EXCEPT !.escapes = @ + 1] ELSE segment

\* A flush writes under the encoded partition path, a compaction right under data/.
DataFileLocation(table, partition, file) ==
  [table EXCEPT !.key =
     @ \o <<Segment_("data", "plain")>> \o [i \in DOMAIN partition |-> UrlEncode(partition[i])]
       \o <<file>>]

-----------------------------------------------------------------------------
(* The store: a set of paths. *)

\* object_store's Path::from, which the adapter applies to every argument.
ToOsPath(path) ==
  LET kept == DropEmpty(path)
  IN [i \in DOMAIN kept |->
        IF kept[i].class = "plain" THEN kept[i] ELSE [kept[i] EXCEPT !.escapes = @ + 1]]

\* DefaultStorageFactory::resolve: the node has one backend.
Resolves(loc, backend) == loc.scheme = backend.scheme /\ loc.bucket = backend.bucket

PutObject(store, path) == store \cup {ToOsPath(path)}

HasObject(store, path) == ToOsPath(path) \in store

DeleteObject(store, path) == store \ {ToOsPath(path)}

\* A listing returns the paths of the store below a prefix, as they are there.
ListObjects(store, prefix) ==
  {p \in store : IsStrictPrefix(ToOsPath(prefix), p)}

-----------------------------------------------------------------------------
(* Who lists and deletes. *)

ProtectedKeys_Uris(uris) == {u.rest : u \in uris}

\* collect_protected_files: the keys of the URIs in the manifests.
ProtectedKeys(uris) ==
  {IF ParseLocation(u) # BadName THEN ParseLocation(u).key ELSE u.rest : u \in uris}

SweepCandidates(store, table, uris, young) ==
  LET prefix == table.key \o <<Segment_("data", "plain")>>
  IN {p \in ListObjects(store, prefix) :
        p \notin ProtectedKeys(uris) /\ IsStrictPrefix(prefix, p) /\ p \notin young}

AfterSweep(store, backend, table, uris, young) ==
  LET parsed == ParseLocation(ToUri(table))
  IN IF parsed = BadName \/ ~Resolves(parsed, backend) THEN store
     ELSE store \ UNION {store \ DeleteObject(store, p) :
                           p \in SweepCandidates(store, parsed, uris, young)}

\* purge_table_storage: what is listed below the table's prefix is deleted.
AfterPurge(store, backend, table) ==
  LET parsed == ParseLocation(ToUri(table))
  IN IF parsed = BadName \/ ~Resolves(parsed, backend) \/ parsed.key = <<>> THEN store
     ELSE store \ UNION {store \ DeleteObject(store, p) : p \in ListObjects(store, parsed.key)}

-----------------------------------------------------------------------------

\* A path that the store gives back as it was given: no segment was encoded.
Unescaped(path) == \A i \in DOMAIN path : path[i].escapes = 0

=============================================================================
