----------------------------- MODULE TableNames -----------------------------
(***************************************************************************)
(* The cached list of the tables of a namespace, which answers SHOW TABLES *)
(* through the information schema (metadata_cache.rs, table_loader.rs):    *)
(* a caller with no list at hand loads one and waits, a caller with an old *)
(* one gets it and starts a refresh in the background unless one is under  *)
(* way.  A list is known by the instant at which the catalog gave it, some *)
(* time before it is stored here.                                          *)
(***************************************************************************)
EXTENDS Naturals, FiniteSets

CONSTANTS
  Askers,       \* threads that ask for the names
  NamesTtls,    \* metadata_ttl: one of these
  MaxClock,     \* bound: instants
  ListingTime   \* a listing is stored within this time of its effect, or has failed

Background == "background"

ASSUME TableNamesAssumption ==
  /\ Background \notin Askers
  /\ NamesTtls \subseteq Nat /\ MaxClock \in Nat /\ ListingTime \in Nat

VARIABLES
  clock,
  ttl,
  names,        \* the cached list: when it was the catalog's and when it was stored
  refreshing,   \* table_names_refreshing
  listing,      \* the load of every asker and of the background task
  answer        \* the last answer to every asker

namesVars == <<clock, ttl, names, refreshing, listing, answer>>

NoNames   == [kept |-> FALSE, seen |-> 0, at |-> 0]
NoListing == [pc |-> "idle", seen |-> 0, ok |-> FALSE]
NoAnswer  == [fresh |-> FALSE, age |-> 0]

NamesInit ==
  /\ clock = 0
  /\ ttl \in NamesTtls
  /\ names = NoNames
  /\ refreshing = FALSE
  /\ listing = [k \in Askers \cup {Background} |-> NoListing]
  /\ answer = [a \in Askers |-> NoAnswer]

-----------------------------------------------------------------------------

\* cached_table_names
Fresh(stored) == ttl # 0 /\ clock - stored < ttl

Answer(seen, fresh) == [fresh |-> fresh, age |-> clock - seen]

\* spawn_table_names_refresh: the flag lets one in.
SpawnRefresh ==
  IF refreshing THEN UNCHANGED <<refreshing, listing>>
  ELSE /\ refreshing' = TRUE
       /\ listing' = [listing EXCEPT ![Background].pc = "listing"]

\* table_names_snapshot
Snapshot(a) ==
  /\ listing[a].pc = "idle"
  /\ IF names.kept
       THEN /\ answer' = [answer EXCEPT ![a] = Answer(names.seen, Fresh(names.at))]
            /\ IF Fresh(names.at) THEN UNCHANGED <<refreshing, listing>> ELSE SpawnRefresh
       ELSE /\ listing' = [listing EXCEPT ![a].pc = "listing"]
            /\ UNCHANGED <<refreshing, answer>>
  /\ UNCHANGED <<clock, ttl, names>>

\* list_tables reaches the catalog, or fails.
ListTables(k) ==
  /\ listing[k].pc = "listing"
  /\ \E ok \in BOOLEAN :
       listing' = [listing EXCEPT ![k] = [pc |-> "listed", seen |-> clock, ok |-> ok]]
  /\ UNCHANGED <<clock, ttl, names, refreshing, answer>>

Stored(k) == [kept |-> TRUE, seen |-> listing[k].seen, at |-> clock]

\* The end of a first load: a failed one answers and stores an empty list.
StoreFirst(a) ==
  /\ a \in Askers /\ listing[a].pc = "listed"
  /\ names' = IF ttl = 0 THEN names ELSE Stored(a)
  /\ answer' = [answer EXCEPT ![a] = Answer(listing[a].seen, FALSE)]
  /\ listing' = [listing EXCEPT ![a] = NoListing]
  /\ UNCHANGED <<clock, ttl, refreshing>>

\* The background task: a failed refresh keeps the old list.
StoreRefreshed ==
  /\ listing[Background].pc = "listed"
  /\ names' = IF listing[Background].ok THEN Stored(Background) ELSE names
  /\ listing' = [listing EXCEPT ![Background].pc = "stored"]
  /\ UNCHANGED <<clock, ttl, refreshing, answer>>

RefreshDone_OnSuccess ==
  /\ listing[Background].pc = "stored"
  /\ refreshing' = ~listing[Background].ok
  /\ listing' = [listing EXCEPT ![Background] = NoListing]
  /\ UNCHANGED <<clock, ttl, names, answer>>

RefreshDone ==
  /\ listing[Background].pc = "stored"
  /\ refreshing' = FALSE
  /\ listing' = [listing EXCEPT ![Background] = NoListing]
  /\ UNCHANGED <<clock, ttl, names, answer>>

NextInstant ==
  /\ clock < MaxClock
  /\ \A k \in DOMAIN listing : listing[k].pc = "listed" => clock - listing[k].seen < ListingTime
  /\ clock' = clock + 1
  /\ UNCHANGED <<ttl, names, refreshing, listing, answer>>

NamesNext ==
  \/ \E a \in Askers : Snapshot(a) \/ StoreFirst(a)
  \/ \E k \in Askers \cup {Background} : ListTables(k)
  \/ StoreRefreshed \/ RefreshDone \/ NextInstant

NamesSpec == NamesInit /\ [][NamesNext]_namesVars

-----------------------------------------------------------------------------

\* A list answered as fresh is younger than the TTL and one listing (or is the empty
\* one of a first load that failed then), whichever of several loads was stored
\* last; with a TTL of zero no list is answered twice.
FreshLists ==
  \A a \in Askers : answer[a].fresh => ttl # 0 /\ answer[a].age < ttl + ListingTime

\* The flag is up exactly while a background task runs, so that there is never a
\* second one and a failed one does not stop all later ones.
OneRefresh == refreshing <=> listing[Background].pc # "idle"

\* Whoever asks gets a list that is fresh or known to be old, and then exactly one
\* refresh is under way (MetadataCache's table names).
NamesServed == FreshLists /\ OneRefresh
=============================================================================
