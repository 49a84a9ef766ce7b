--------------------------- MODULE AdmissionProofs ---------------------------
(***************************************************************************)
(* The limits a request passes, for any number of requests and principals  *)
(* and any limits the configuration's validation accepts.                  *)
(*                                                                         *)
(* Three arguments, one per limit.  The ceilings are conserved: the free   *)
(* permits and the requests that count against them are always as many as  *)
(* the ceiling.  A principal's permits are those of one semaphore of its   *)
(* own, because an entry in use is never swept, and of one stripe.  The    *)
(* rate is a fact about one principal's admissions and window (Paced),     *)
(* that elapsed windows, new ones and counted hits keep.                   *)
(***************************************************************************)
EXTENDS Admission, FiniteSetTheorems, TLAPS

Vias == {"rest", "flight"}
SemRec == [kind: {"none", "own", "stripe"}, id: Nat]

ReqRec == [pc: {"unborn", "refused", "rate", "lookup", "acquire", "handling", "streaming", "gone"},
           by: Principals \cup {Nobody}, via: Vias, scope: {"read", "write"}, sem: SemRec,
           permit: BOOLEAN, ceiling: BOOLEAN]

WindowRec == [started: Int, count: Nat]

Types ==
  /\ now \in Nat /\ req \in [Requests -> ReqRec] /\ avail \in [Vias -> Nat]
  /\ windows \in [Principals -> WindowRec]
  /\ entries \in [Principals -> 0 .. made] /\ made \in Nat
  /\ admits \in [Principals -> Seq(Nat)]

Counts(via) == {r \in Requests : req[r].via = via /\ req[r].ceiling}

Conserved == \A via \in Vias : avail[via] + Cardinality(Counts(via)) = Ceiling[via]

\* What a request has in hand, by where it is.
Handed(q) ==
  /\ q.pc \in {"rate", "lookup", "acquire", "handling", "streaming"} => q.by \in Principals
  /\ q.pc \in {"rate", "lookup", "acquire", "handling"} => q.ceiling
  /\ q.pc \in {"unborn", "refused", "gone"} => ~q.ceiling
  /\ q.pc = "streaming" => (q.ceiling <=> q.via = "flight")
  /\ q.permit <=> q.pc \in {"handling", "streaming"}
  /\ q.sem # NoSem <=> q.pc \in {"acquire", "handling", "streaming"}

\* The semaphore a request refers to is its principal's, by entry or by stripe.
Mine(q) ==
  q.sem # NoSem => \/ entries[q.by] # 0 /\ q.sem = Own(entries[q.by])
                   \/ q.by \in spilled /\ q.sem = Shared(Stripe[q.by])

Holders(sem) == {r \in Requests : req[r].sem = sem /\ req[r].permit}

PermitInv ==
  /\ \A r \in Requests : Handed(req[r]) /\ Mine(req[r])
  /\ \A sem \in SemRec : sem # NoSem => Cardinality(Holders(sem)) <= Permits

KeyInv ==
  /\ Cardinality({p \in Principals : windows[p] # NoWindow}) <= MaxKeys
  /\ Cardinality({p \in Principals : entries[p] # 0}) <= MaxKeys

\* The admissions at t or later.
From(a, t) == {i \in 1 .. Len(a) : a[i] >= t}

\* At time t, a principal with admissions a and window w: without a window, no
\* more than the budget in the span before; with one, the window has counted
\* what passed since it started, no more than the budget passed just before,
\* and nothing after it ended.
Paced(a, w, t) ==
  IF w = NoWindow
  THEN From(a, t) = {} /\ Cardinality(From(a, t - Window + 1)) <= Budget
  ELSE /\ w.started \in 0 .. t /\ w.count \in 0 .. Budget
       /\ Cardinality(From(a, w.started)) <= w.count
       /\ Cardinality(From(a, w.started - Window + 1) \ From(a, w.started)) <= Budget
       /\ From(a, w.started + Window) = {} /\ From(a, t + 1) = {}

RateInv == \A p \in Principals \ spilled : Paced(admits[p], windows[p], now)

Inductive == Types /\ Conserved /\ PermitInv /\ KeyInv /\ RateInv

-----------------------------------------------------------------------------
(* One principal's admissions. *)

LEMMA Bounds ==
  /\ MaxRest \in Nat /\ MaxFlight \in Nat /\ Permits \in Nat /\ Permits # 0 /\ MaxKeys \in Nat
  /\ Window \in Nat /\ Window # 0 /\ Budget \in Nat /\ 1 <= Budget
  /\ \A s \in {"read", "write"} : Limit[s] \in Nat /\ Limit[s] <= Budget
<1>1. Limit["read"] \in Nat \ {0} /\ Limit["write"] \in Nat \ {0}
  BY AdmissionConstants
<1>2. Budget \in Nat /\ 1 <= Budget /\ Limit["read"] <= Budget /\ Limit["write"] <= Budget
  BY <1>1 DEF Budget
<1> QED BY <1>1, <1>2, AdmissionConstants

LEMMA FromFinite ==
  ASSUME NEW a \in Seq(Nat), NEW t \in Int
  PROVE  /\ IsFiniteSet(From(a, t)) /\ Cardinality(From(a, t)) \in Nat
         /\ \A S \in SUBSET From(a, t) :
              IsFiniteSet(S) /\ Cardinality(S) \in Nat /\ Cardinality(S) <= Cardinality(From(a, t))
<1>1. IsFiniteSet(1 .. Len(a))
  BY FS_Interval
<1>2. From(a, t) \in SUBSET (1 .. Len(a))
  BY Zenon DEF From
<1>3. IsFiniteSet(From(a, t))
  BY Zenon, <1>1, <1>2, FS_Subset
<1> QED BY Zenon, <1>3, FS_Subset, FS_CardinalityType

LEMMA FromLater ==
  ASSUME NEW a \in Seq(Nat), NEW t \in Int, NEW u \in Int, t <= u
  PROVE  From(a, u) \subseteq From(a, t) /\ Cardinality(From(a, u)) <= Cardinality(From(a, t))
<1>1. From(a, u) \subseteq From(a, t)
  BY DEF From
<1> QED BY Zenon, <1>1, FromFinite

LEMMA FromAppend ==
  ASSUME NEW a \in Seq(Nat), NEW t \in Nat, NEW u \in Int
  PROVE  /\ Append(a, t) \in Seq(Nat)
         /\ t < u => From(Append(a, t), u) = From(a, u)
         /\ t >= u => /\ From(Append(a, t), u) = From(a, u) \cup {Len(a) + 1}
                      /\ Len(a) + 1 \notin From(a, u)
                      /\ Cardinality(From(Append(a, t), u)) = Cardinality(From(a, u)) + 1
<1>1. /\ Append(a, t) \in Seq(Nat) /\ Len(Append(a, t)) = Len(a) + 1 /\ Len(a) \in Nat
      /\ \A i \in 1 .. Len(a) : Append(a, t)[i] = a[i]
      /\ Append(a, t)[Len(a) + 1] = t
  OBVIOUS
<1>2. /\ \A i : i \in 1 .. Len(a) + 1 <=> i \in 1 .. Len(a) \/ i = Len(a) + 1
      /\ Len(a) + 1 \notin 1 .. Len(a)
  BY <1>1
<1>3. \A i : i \in From(Append(a, t), u) <=>
             \/ i \in From(a, u)
             \/ i = Len(a) + 1 /\ t >= u
  BY Zenon, <1>1, <1>2 DEF From
<1>4. Len(a) + 1 \notin From(a, u)
  BY Zenon, <1>2 DEF From
<1>5. t < u => ~(t >= u)
  OBVIOUS
<1>6. t < u => From(Append(a, t), u) = From(a, u)
  BY Zenon, <1>3, <1>5
<1>7. t >= u => From(Append(a, t), u) = From(a, u) \cup {Len(a) + 1}
  BY Zenon, <1>3
<1>8. Cardinality(From(a, u) \cup {Len(a) + 1}) = Cardinality(From(a, u)) + 1
  BY Zenon, <1>4, FromFinite, FS_AddElement
<1> QED BY Zenon, <1>1, <1>4, <1>6, <1>7, <1>8

LEMMA PacedTick ==
  ASSUME NEW a \in Seq(Nat), NEW w \in WindowRec, NEW t \in Nat, Paced(a, w, t)
  PROVE  Paced(a, w, t + 1)
<1>1. t + 1 \in Nat /\ From(a, t + 1 + 1) \subseteq From(a, t + 1) /\ From(a, t + 1) \subseteq From(a, t)
  BY FromLater
<1>2. CASE w = NoWindow
  <2>1. From(a, t + 1) = {}
    BY Zenon, <1>1, <1>2 DEF Paced
  <2>2. Cardinality(From(a, (t + 1) - Window + 1)) <= Cardinality(From(a, t - Window + 1))
    BY FromLater, Bounds
  <2>6. (t + 1) - Window + 1 \in Int /\ t - Window + 1 \in Int
    BY Bounds
  <2>3. /\ Cardinality(From(a, (t + 1) - Window + 1)) \in Nat
        /\ Cardinality(From(a, t - Window + 1)) \in Nat
    BY Zenon, <2>6, FromFinite
  <2>4. Cardinality(From(a, t - Window + 1)) <= Budget
    BY Zenon, <1>2 DEF Paced
  <2>5. Cardinality(From(a, (t + 1) - Window + 1)) <= Budget
    BY <2>2, <2>3, <2>4, Bounds
  <2> QED BY Zenon, <1>2, <2>1, <2>5 DEF Paced
<1>3. CASE w # NoWindow
  <2>1. w.started \in 0 .. t /\ From(a, t + 1) = {}
    BY Zenon, <1>3 DEF Paced
  <2>2. w.started \in 0 .. t + 1
    BY <2>1
  <2> QED BY Zenon, <1>1, <1>3, <2>1, <2>2 DEF Paced
<1> QED BY Zenon, <1>2, <1>3

\* windows.retain drops a window that has elapsed.
LEMMA PacedDrop ==
  ASSUME NEW a \in Seq(Nat), NEW w \in WindowRec, NEW t \in Nat, Paced(a, w, t), w # NoWindow,
         t - w.started >= Window
  PROVE  Paced(a, NoWindow, t)
<1>1. /\ w.started \in Nat /\ w.count \in Nat /\ w.count <= Budget
      /\ Cardinality(From(a, w.started)) <= w.count /\ From(a, w.started + Window) = {}
  BY Bounds DEF Paced
<1>2. From(a, t) \subseteq From(a, w.started + Window)
  BY <1>1, Bounds, FromLater
<1>3. Cardinality(From(a, t - Window + 1)) <= Cardinality(From(a, w.started))
  BY <1>1, Bounds, FromLater
<1>4. Cardinality(From(a, w.started)) \in Nat /\ Cardinality(From(a, t - Window + 1)) \in Nat
  <2>1. w.started \in Int /\ t - Window + 1 \in Int
    BY <1>1, Bounds
  <2> QED BY Zenon, <2>1, FromFinite
<1>5. Cardinality(From(a, t - Window + 1)) <= Budget
  BY <1>1, <1>3, <1>4, Bounds
<1> QED BY Zenon, <1>1, <1>2, <1>5 DEF Paced

\* A new key opens a window and is its first hit.
LEMMA PacedOpen ==
  ASSUME NEW a \in Seq(Nat), NEW t \in Nat, Paced(a, NoWindow, t),
         NEW w, w = [started |-> t, count |-> 1]
  PROVE  Paced(Append(a, t), w, t)
<1>1. w.started = t /\ w.count = 1 /\ w # NoWindow
  BY DEF NoWindow
<1>2. From(a, t) = {} /\ Cardinality(From(a, t - Window + 1)) <= Budget
  BY Zenon DEF Paced
<1>3. Cardinality(From(Append(a, t), t)) = 1
  <2>1. Cardinality(From(a, t)) = 0
    BY Zenon, <1>2, FS_EmptySet
  <2> QED BY <2>1, FromAppend
<1>4. From(Append(a, t), t + Window) = {} /\ From(Append(a, t), t + 1) = {}
  <2>1. From(a, t + Window) \subseteq From(a, t) /\ From(a, t + 1) \subseteq From(a, t)
    BY FromLater, Bounds
  <2>2. From(Append(a, t), t + Window) = From(a, t + Window) /\ From(Append(a, t), t + 1) = From(a, t + 1)
    BY FromAppend, Bounds
  <2> QED BY Zenon, <1>2, <2>1, <2>2
<1>5. Cardinality(From(Append(a, t), t - Window + 1) \ From(Append(a, t), t)) <= Budget
  <2>1. t - Window + 1 \in Int /\ t >= t - Window + 1 /\ t >= t
    BY Bounds
  <2>2. /\ From(Append(a, t), t - Window + 1) = From(a, t - Window + 1) \cup {Len(a) + 1}
        /\ From(Append(a, t), t) = From(a, t) \cup {Len(a) + 1}
    BY <2>1, FromAppend
  <2>3. From(Append(a, t), t - Window + 1) \ From(Append(a, t), t) \subseteq From(a, t - Window + 1)
    BY Zenon, <2>2
  <2>4. /\ Cardinality(From(Append(a, t), t - Window + 1) \ From(Append(a, t), t))
             <= Cardinality(From(a, t - Window + 1))
        /\ Cardinality(From(Append(a, t), t - Window + 1) \ From(Append(a, t), t)) \in Nat
        /\ Cardinality(From(a, t - Window + 1)) \in Nat
    BY Zenon, <2>1, <2>3, FromFinite
  <2> QED BY <1>2, <2>4, Bounds
<1>6. w.started \in 0 .. t /\ w.count \in 0 .. Budget /\ Cardinality(From(Append(a, t), w.started)) <= w.count
  BY <1>1, <1>3, Bounds
<1> QED BY Zenon, <1>1, <1>4, <1>5, <1>6 DEF Paced

\* A hit inside the window is counted by it.
LEMMA PacedHit ==
  ASSUME NEW a \in Seq(Nat), NEW w \in WindowRec, NEW t \in Nat, Paced(a, w, t), w # NoWindow,
         t - w.started < Window, w.count < Budget,
         NEW v \in WindowRec, v.started = w.started, v.count = w.count + 1
  PROVE  Paced(Append(a, t), v, t)
<1>1. /\ w.started \in 0 .. t /\ w.started \in Nat /\ w.count \in Nat /\ v # NoWindow
      /\ Cardinality(From(a, w.started)) <= w.count
      /\ Cardinality(From(a, w.started - Window + 1) \ From(a, w.started)) <= Budget
      /\ From(a, w.started + Window) = {} /\ From(a, t + 1) = {}
  BY Bounds DEF Paced, NoWindow
<1>2. /\ w.started - Window + 1 \in Int /\ t >= w.started - Window + 1 /\ t >= w.started
      /\ w.started + Window \in Int /\ t < w.started + Window /\ t + 1 \in Int /\ t < t + 1
      /\ w.started \in Int
  <2>1. w.started \in Nat /\ w.started \in 0 .. t
    BY Zenon, <1>1
  <2> QED BY <2>1, Bounds
<1>3. /\ From(Append(a, t), w.started - Window + 1) = From(a, w.started - Window + 1) \cup {Len(a) + 1}
      /\ From(Append(a, t), w.started) = From(a, w.started) \cup {Len(a) + 1}
      /\ Len(a) + 1 \notin From(a, w.started - Window + 1)
      /\ From(Append(a, t), w.started + Window) = {} /\ From(Append(a, t), t + 1) = {}
      /\ Cardinality(From(Append(a, t), w.started)) = Cardinality(From(a, w.started)) + 1
  BY <1>1, <1>2, FromAppend
<1>4. From(Append(a, t), w.started - Window + 1) \ From(Append(a, t), w.started)
        = From(a, w.started - Window + 1) \ From(a, w.started)
  BY Zenon, <1>3
<1>5. Cardinality(From(a, w.started)) \in Nat
  BY Zenon, <1>2, FromFinite
<1>6. v.count \in 0 .. Budget /\ Cardinality(From(Append(a, t), w.started)) <= v.count
  <2> DEFINE C == Cardinality(From(a, w.started))
             D == Cardinality(From(Append(a, t), w.started))
  <2>1. C \in Nat /\ D = C + 1 /\ C <= w.count /\ w.count \in Nat
    BY Zenon, <1>1, <1>3, <1>5
  <2> HIDE DEF C, D
  <2>2. v.count \in 0 .. Budget /\ D <= v.count
    BY <2>1, Bounds
  <2> QED BY Zenon, <2>2 DEF D
<1> QED BY Zenon, <1>1, <1>3, <1>4, <1>6 DEF Paced

LEMMA PacedBound ==
  ASSUME NEW a \in Seq(Nat), NEW w \in WindowRec, NEW t \in Nat, Paced(a, w, t)
  PROVE  /\ Cardinality(From(a, t - Window + 1)) <= 2 * Budget
         /\ w # NoWindow => Cardinality(From(a, w.started)) <= Budget
<1>1. CASE w = NoWindow
  <2>1. Cardinality(From(a, t - Window + 1)) \in Nat
    <3>1. t - Window + 1 \in Int
      BY Bounds
    <3> QED BY Zenon, <3>1, FromFinite
  <2>2. Cardinality(From(a, t - Window + 1)) <= Budget
    BY Zenon, <1>1 DEF Paced
  <2> QED BY <1>1, <2>1, <2>2, Bounds
<1>2. CASE w # NoWindow
  <2> DEFINE S == From(a, w.started - Window + 1) \ From(a, w.started)
             T == From(a, w.started)
             U == From(a, t - Window + 1)
  <2>1. /\ w.started \in Nat /\ w.started <= t /\ w.count \in Nat /\ w.count <= Budget
        /\ Cardinality(T) <= w.count /\ Cardinality(S) <= Budget
    BY <1>2, Bounds DEF Paced
  <2>2. w.started - Window + 1 \in Int /\ w.started \in Int /\ t - Window + 1 \in Int
        /\ w.started - Window + 1 <= t - Window + 1
    BY <2>1, Bounds
  <2>3. U \subseteq S \cup T
    BY Zenon, <2>2, FromLater
  <2>4. /\ IsFiniteSet(S) /\ IsFiniteSet(T) /\ Cardinality(S) \in Nat /\ Cardinality(T) \in Nat
        /\ Cardinality(U) \in Nat
    <3>1. S \in SUBSET From(a, w.started - Window + 1)
      BY Zenon
    <3> QED BY Zenon, <2>2, <3>1, FromFinite
  <2> HIDE DEF S, T, U
  <2>5. /\ IsFiniteSet(S \cup T)
        /\ Cardinality(S \cup T) = Cardinality(S) + Cardinality(T) - Cardinality(S \cap T)
    BY Zenon, <2>4, FS_Union
  <2>6. Cardinality(S \cap T) \in Nat /\ Cardinality(U) <= Cardinality(S \cup T)
    <3>1. S \cap T \in SUBSET S /\ U \in SUBSET (S \cup T)
      BY Zenon, <2>3
    <3> QED BY Zenon, <2>4, <2>5, <3>1, FS_Subset, FS_CardinalityType
  <2>7. Cardinality(T) <= Budget
    BY <2>1, <2>4, Bounds
  <2>8. Cardinality(U) <= 2 * Budget
    BY <2>1, <2>4, <2>5, <2>6, Bounds
  <2> QED BY Zenon, <2>7, <2>8 DEF T, U
<1> QED BY Zenon, <1>1, <1>2

-----------------------------------------------------------------------------
(* One request moves. *)

Moved(r) == req' \in [Requests -> ReqRec] /\ \A m \in Requests : m # r => req'[m] = req[m]

LEMMA ReqFields ==
  ASSUME Types, NEW r \in Requests
  PROVE  /\ req[r] \in ReqRec /\ req[r].via \in Vias /\ req[r].scope \in {"read", "write"}
         /\ req[r].sem \in SemRec /\ req[r].permit \in BOOLEAN /\ req[r].ceiling \in BOOLEAN
<1>1. req[r] \in ReqRec
  BY Zenon DEF Types
<1> QED BY <1>1 DEF ReqRec

LEMMA SubsetsFinite ==
  /\ \A S \in SUBSET Requests : IsFiniteSet(S) /\ Cardinality(S) \in Nat
  /\ \A S \in SUBSET Principals : IsFiniteSet(S) /\ Cardinality(S) \in Nat
  BY Zenon, AdmissionConstants, FS_Subset, FS_CardinalityType

\* A permit of a ceiling changes hands with the request that it counts.
LEMMA ConservedMove ==
  ASSUME Types, Conserved, NEW r \in Requests, Moved(r),
         \/ /\ req'[r].via = req[r].via /\ (req'[r].ceiling <=> req[r].ceiling)
            /\ avail' = avail
         \/ ~req'[r].ceiling /\ ~req[r].ceiling /\ avail' = avail
         \/ /\ req'[r].ceiling /\ ~req[r].ceiling /\ avail[req'[r].via] # 0
            /\ avail' = [avail EXCEPT ![req'[r].via] = @ - 1]
         \/ /\ ~req'[r].ceiling /\ req[r].ceiling
            /\ avail' = [avail EXCEPT ![req[r].via] = @ + 1]
  PROVE  Conserved' /\ avail' \in [Vias -> Nat]
<1>1. req'[r].via \in Vias /\ req[r].via \in Vias /\ avail \in [Vias -> Nat]
  <2>1. req'[r] \in ReqRec
    BY Zenon DEF Moved
  <2> QED BY <2>1, ReqFields DEF ReqRec, Types
<1>2. \A via \in Vias : /\ IsFiniteSet(Counts(via)) /\ Cardinality(Counts(via)) \in Nat
                        /\ IsFiniteSet(Counts(via)') /\ Cardinality(Counts(via)') \in Nat
                        /\ avail[via] \in Nat
  <2>1. \A via : Counts(via) \in SUBSET Requests /\ Counts(via)' \in SUBSET Requests
    BY Zenon DEF Counts
  <2> QED BY Zenon, <1>1, <2>1, SubsetsFinite
<1>3. \A via, m : m # r => (m \in Counts(via)' <=> m \in Counts(via))
  BY Zenon DEF Moved, Counts
<1>4. \A via : /\ r \in Counts(via)' <=> req'[r].via = via /\ req'[r].ceiling
               /\ r \in Counts(via) <=> req[r].via = via /\ req[r].ceiling
  BY Zenon DEF Counts
<1>5. CASE /\ \A via : r \in Counts(via)' <=> r \in Counts(via)
           /\ avail' = avail
  <2>1. \A via : Counts(via)' = Counts(via)
    BY <1>3, <1>5
  <2> QED BY Zenon, <1>1, <1>5, <2>1 DEF Conserved
<1>6. ASSUME NEW v \in Vias, v = req'[r].via, req'[r].ceiling, ~req[r].ceiling, avail[v] # 0,
             avail' = [avail EXCEPT ![v] = @ - 1]
      PROVE  Conserved' /\ avail' \in [Vias -> Nat]
  <2>1. avail[v] - 1 \in Nat
    BY <1>2, <1>6
  <2>2. avail' \in [Vias -> Nat] /\ avail'[v] = avail[v] - 1 /\ \A u \in Vias : u # v => avail'[u] = avail[u]
    BY Zenon, <1>1, <1>6, <2>1
  <2>3. Counts(v)' = Counts(v) \cup {r} /\ r \notin Counts(v)
    BY Zenon, <1>3, <1>4, <1>6
  <2>4. \A u \in Vias : u # v => Counts(u)' = Counts(u)
    BY <1>3, <1>4, <1>6
  <2>5. Cardinality(Counts(v)') = Cardinality(Counts(v)) + 1
    BY Zenon, <1>2, <2>3, FS_AddElement
  <2>6. avail'[v] + Cardinality(Counts(v)') = avail[v] + Cardinality(Counts(v))
    BY <1>2, <2>2, <2>5
  <2> QED BY Zenon, <2>2, <2>4, <2>6 DEF Conserved
<1>7. ASSUME NEW v \in Vias, v = req[r].via, ~req'[r].ceiling, req[r].ceiling,
             avail' = [avail EXCEPT ![v] = @ + 1]
      PROVE  Conserved' /\ avail' \in [Vias -> Nat]
  <2>1. avail[v] + 1 \in Nat
    BY <1>2, <1>7
  <2>2. avail' \in [Vias -> Nat] /\ avail'[v] = avail[v] + 1 /\ \A u \in Vias : u # v => avail'[u] = avail[u]
    BY Zenon, <1>1, <1>7, <2>1
  <2>3. Counts(v)' = Counts(v) \ {r} /\ r \in Counts(v)
    BY Zenon, <1>3, <1>4, <1>7
  <2>4. \A u \in Vias : u # v => Counts(u)' = Counts(u)
    BY <1>3, <1>4, <1>7
  <2>5. Cardinality(Counts(v)') = Cardinality(Counts(v)) - 1
    BY Zenon, <1>2, <2>3, FS_RemoveElement
  <2>6. avail'[v] + Cardinality(Counts(v)') = avail[v] + Cardinality(Counts(v))
    BY <1>2, <2>2, <2>5
  <2> QED BY Zenon, <2>2, <2>4, <2>6 DEF Conserved
<1> QED BY Zenon, <1>1, <1>4, <1>5, <1>6, <1>7

\* A request takes a permit only while its semaphore has one, and an entry that
\* another request uses stays.
LEMMA PermitMove ==
  ASSUME Types, PermitInv, NEW r \in Requests, Moved(r), Handed(req'[r]), Mine(req[r])',
         spilled \subseteq spilled',
         \A m \in Requests : m # r /\ entries[req[m].by] # 0 /\ req[m].sem = Own(entries[req[m].by])
           => entries'[req[m].by] = entries[req[m].by],
         \/ ~req'[r].permit
         \/ req'[r].sem = req[r].sem /\ req[r].permit
         \/ req'[r].sem = req[r].sem /\ Cardinality(Holders(req[r].sem)) < Permits
  PROVE  PermitInv'
<1>1. ASSUME NEW m \in Requests PROVE Handed(req[m])' /\ Mine(req[m])'
  <2>1. CASE m = r
    BY Zenon, <2>1 DEF Handed
  <2>2. CASE m # r
    <3>1. req'[m] = req[m] /\ Handed(req[m]) /\ Mine(req[m])
      BY Zenon, <2>2 DEF Moved, PermitInv
    <3> QED BY Zenon, <2>2, <3>1 DEF Handed, Mine
  <2> QED BY Zenon, <2>1, <2>2
<1>2. ASSUME NEW sem \in SemRec, sem # NoSem PROVE Cardinality(Holders(sem)') <= Permits
  <2>1. Cardinality(Holders(sem)) <= Permits
    BY Zenon, <1>2 DEF PermitInv
  <2>2. \A m : m # r => (m \in Holders(sem)' <=> m \in Holders(sem))
    BY Zenon DEF Moved, Holders
  <2>3. /\ IsFiniteSet(Holders(sem)) /\ Cardinality(Holders(sem)) \in Nat
        /\ IsFiniteSet(Holders(sem)') /\ Cardinality(Holders(sem)') \in Nat
    <3>1. Holders(sem) \in SUBSET Requests /\ Holders(sem)' \in SUBSET Requests
      BY Zenon DEF Holders
    <3> QED BY Zenon, <3>1, SubsetsFinite
  <2>4. CASE r \in Holders(sem)' => r \in Holders(sem)
    <3>1. Holders(sem)' \in SUBSET Holders(sem)
      BY Zenon, <2>2, <2>4
    <3>2. Cardinality(Holders(sem)') <= Cardinality(Holders(sem))
      BY Zenon, <2>3, <3>1, FS_Subset
    <3> QED BY <2>1, <2>3, <3>2, Bounds
  <2>5. CASE r \in Holders(sem)' /\ r \notin Holders(sem)
    <3>1. req'[r].sem = sem /\ req'[r].permit
      BY Zenon, <2>5 DEF Holders
    <3>2. req[r].sem = sem => ~req[r].permit
      BY Zenon, <2>5 DEF Holders
    <3>3. Cardinality(Holders(sem)) < Permits
      BY Zenon, <3>1, <3>2
    <3>4. Holders(sem)' = Holders(sem) \cup {r}
      BY Zenon, <2>2, <2>5
    <3>5. Cardinality(Holders(sem)') = Cardinality(Holders(sem)) + 1
      BY Zenon, <2>3, <2>5, <3>4, FS_AddElement
    <3> QED BY <2>3, <3>3, <3>5, Bounds
  <2> QED BY Zenon, <2>4, <2>5
<1> QED BY Zenon, <1>1, <1>2 DEF PermitInv

\* Steps that leave the clock, the windows and the admissions alone.
LEMMA RateKept ==
  ASSUME RateInv, UNCHANGED <<now, windows, admits>>, spilled \subseteq spilled'
  PROVE  RateInv'
  BY Zenon DEF RateInv

LEMMA KeysKept ==
  ASSUME KeyInv, UNCHANGED <<windows, entries>>
  PROVE  KeyInv'
  BY Zenon DEF KeyInv

-----------------------------------------------------------------------------
(* The steps. *)

LEMMA Parts ==
  ASSUME Inductive
  PROVE  /\ Types /\ Conserved /\ PermitInv /\ KeyInv /\ RateInv
         /\ \A r \in Requests : Handed(req[r]) /\ Mine(req[r])
  BY Zenon DEF Inductive, PermitInv

LEMMA UnbornRecord ==
  ASSUME NEW q, q = Unborn \/ q = [Unborn EXCEPT !.pc = "gone"]
  PROVE  q \in ReqRec /\ q.sem = NoSem /\ ~q.permit /\ ~q.ceiling /\ Handed(q)
<1>1. NoSem \in SemRec
  BY DEF NoSem, SemRec
<1>2. /\ q \in ReqRec /\ q.sem = NoSem /\ q.permit = FALSE /\ q.ceiling = FALSE
      /\ q.pc \in {"unborn", "gone"}
  <2>1. CASE q = Unborn
    BY <1>1, <2>1 DEF Unborn, ReqRec, Vias
  <2>2. CASE q = [Unborn EXCEPT !.pc = "gone"]
    BY Zenon, <1>1, <2>2 DEF Unborn, ReqRec, Vias
  <2> QED BY Zenon, <2>1, <2>2
<1>3. q.pc \notin {"rate", "lookup", "acquire", "handling", "streaming"}
  BY <1>2
<1> QED BY Zenon, <1>2, <1>3 DEF Handed

\* A step that changes one request and the ceilings only.
LEMMA RequestStep ==
  ASSUME Inductive, NEW r \in Requests, Moved(r), Conserved', avail' \in [Vias -> Nat], PermitInv',
         UNCHANGED <<now, rateVars, entries, made, spilled>>
  PROVE  Inductive'
<1>1. Types'
  BY Zenon, Parts DEF Types, Moved, rateVars
<1> QED BY Zenon, <1>1, Parts, RateKept, KeysKept DEF Inductive, rateVars

LEMMA ArriveStep ==
  ASSUME Inductive, NEW r \in Requests, NEW p \in Principals, NEW via \in Vias,
         NEW scope \in {"read", "write"}, Arrive(r, p, via, scope)
  PROVE  Inductive'
<1>1. /\ req[r].pc = "unborn" /\ UNCHANGED <<now, rateVars, entries, made, spilled>>
      /\ req \in [Requests -> ReqRec] /\ req[r] \in ReqRec /\ Handed(req[r])
  BY Zenon, Parts, ReqFields DEF Arrive, Types
<1>2. ~req[r].ceiling /\ ~req[r].permit /\ req[r].sem = NoSem
  <2>1. req[r].pc \in {"unborn", "refused", "gone"}
        /\ req[r].pc \notin {"handling", "streaming"} /\ req[r].pc \notin {"acquire", "handling", "streaming"}
    BY <1>1
  <2> QED BY Zenon, <1>1, <2>1 DEF Handed
<1>3. CASE req' = [req EXCEPT ![r].pc = "refused"] /\ UNCHANGED avail
  <2>1. /\ Moved(r) /\ req'[r].pc = "refused" /\ req'[r].ceiling = req[r].ceiling
        /\ req'[r].permit = req[r].permit /\ req'[r].sem = req[r].sem /\ req'[r].via = req[r].via
    BY <1>1, <1>3 DEF Moved, ReqRec
  <2>2. Handed(req'[r])
    <3>1. /\ req'[r].pc \notin {"rate", "lookup", "acquire", "handling", "streaming"}
          /\ req'[r].pc \notin {"rate", "lookup", "acquire", "handling"}
          /\ req'[r].pc # "streaming" /\ req'[r].pc \notin {"handling", "streaming"}
          /\ req'[r].pc \notin {"acquire", "handling", "streaming"}
      BY <2>1
    <3> QED BY Zenon, <1>2, <2>1, <3>1 DEF Handed
  <2>3. Mine(req[r])'
    BY Zenon, <1>2, <2>1 DEF Mine
  <2>4. PermitInv'
    BY Zenon, <1>1, <1>2, <2>1, <2>2, <2>3, Parts, PermitMove
  <2>5. Conserved' /\ avail' \in [Vias -> Nat]
    BY Zenon, <1>2, <1>3, <2>1, Parts, ConservedMove
  <2> QED BY Zenon, <1>1, <2>1, <2>4, <2>5, RequestStep
<1>4. CASE /\ avail[via] # 0 /\ avail' = [avail EXCEPT ![via] = @ - 1]
           /\ req' = [req EXCEPT ![r] = [Unborn EXCEPT !.pc = "rate", !.by = p, !.via = via,
                                                       !.scope = scope, !.ceiling = TRUE]]
  <2> DEFINE q == [Unborn EXCEPT !.pc = "rate", !.by = p, !.via = via, !.scope = scope,
                                 !.ceiling = TRUE]
  <2>1. NoSem \in SemRec
    BY DEF NoSem, SemRec
  <2>2. /\ q \in ReqRec /\ q.pc = "rate" /\ q.by = p /\ q.via = via /\ q.ceiling = TRUE
        /\ q.permit = FALSE /\ q.sem = NoSem
    BY Zenon, <2>1 DEF Unborn, ReqRec, Vias
  <2> HIDE DEF q
  <2>3. Moved(r) /\ req'[r] = q
    BY Zenon, <1>1, <1>4, <2>2 DEF Moved, q
  <2>4. Handed(req'[r])
    <3>1. /\ q.pc \in {"rate", "lookup", "acquire", "handling"} /\ q.pc \notin {"unborn", "refused", "gone"}
          /\ q.pc # "streaming" /\ q.pc \notin {"handling", "streaming"}
          /\ q.pc \notin {"acquire", "handling", "streaming"}
      BY <2>2
    <3> QED BY Zenon, <2>2, <2>3, <3>1 DEF Handed
  <2>5. Mine(req[r])'
    BY Zenon, <2>2, <2>3 DEF Mine
  <2>6. PermitInv'
    BY Zenon, <1>1, <2>2, <2>3, <2>4, <2>5, Parts, PermitMove
  <2>7. Conserved' /\ avail' \in [Vias -> Nat]
    BY Zenon, <1>2, <1>4, <2>2, <2>3, Parts, ConservedMove
  <2> QED BY Zenon, <1>1, <2>3, <2>6, <2>7, RequestStep
<1> QED BY Zenon, <1>3, <1>4 DEF Arrive

\* The two outcomes of the rate check.
Refuse(r) ==
  /\ req' = [req EXCEPT ![r].pc = "refused", ![r].ceiling = FALSE]
  /\ avail' = [avail EXCEPT ![req[r].via] = @ + 1]
  /\ UNCHANGED admits
Admit(r) ==
  /\ req' = [req EXCEPT ![r].pc = "lookup"]
  /\ admits' = [admits EXCEPT ![req[r].by] = Append(@, now)]
  /\ UNCHANGED avail

LEMMA RateOutcome ==
  ASSUME Inductive, NEW r \in Requests, req[r].pc = "rate", Refuse(r) \/ Admit(r),
         UNCHANGED entries, spilled \subseteq spilled'
  PROVE  Moved(r) /\ Conserved' /\ avail' \in [Vias -> Nat] /\ PermitInv' /\ req[r].by \in Principals
<1>1. /\ req \in [Requests -> ReqRec] /\ req[r] \in ReqRec /\ Handed(req[r])
  BY Zenon, Parts, ReqFields DEF Types
<1>2. req[r].ceiling /\ ~req[r].permit /\ req[r].sem = NoSem /\ req[r].by \in Principals
  <2>1. /\ req[r].pc \in {"rate", "lookup", "acquire", "handling"}
        /\ req[r].pc \in {"rate", "lookup", "acquire", "handling", "streaming"}
        /\ req[r].pc \notin {"handling", "streaming"} /\ req[r].pc \notin {"acquire", "handling", "streaming"}
    OBVIOUS
  <2> QED BY Zenon, <1>1, <2>1 DEF Handed
<1>3. /\ Moved(r) /\ req'[r].permit = req[r].permit /\ req'[r].sem = req[r].sem
      /\ req'[r].via = req[r].via /\ req'[r].by = req[r].by
      /\ Refuse(r) => req'[r].pc = "refused" /\ req'[r].ceiling = FALSE
      /\ Admit(r) => req'[r].pc = "lookup" /\ req'[r].ceiling = req[r].ceiling
  BY <1>1 DEF Refuse, Admit, Moved, ReqRec
<1>4. Handed(req'[r])
  <2>1. /\ req'[r].pc \in {"refused", "lookup"} /\ req'[r].pc # "streaming"
        /\ req'[r].pc \notin {"handling", "streaming"} /\ req'[r].pc \notin {"acquire", "handling", "streaming"}
    BY <1>3
  <2>2. CASE Refuse(r)
    <3>1. /\ req'[r].pc \notin {"rate", "lookup", "acquire", "handling", "streaming"}
          /\ req'[r].pc \notin {"rate", "lookup", "acquire", "handling"}
      BY <2>2, <1>3
    <3> QED BY Zenon, <1>2, <1>3, <2>1, <2>2, <3>1 DEF Handed
  <2>3. CASE Admit(r)
    <3>1. req'[r].pc \notin {"unborn", "refused", "gone"}
      BY <2>3, <1>3
    <3> QED BY Zenon, <1>2, <1>3, <2>1, <2>3, <3>1 DEF Handed
  <2> QED BY Zenon, <2>2, <2>3
<1>5. Mine(req[r])'
  BY Zenon, <1>2, <1>3 DEF Mine
<1>6. PermitInv'
  BY Zenon, <1>2, <1>3, <1>4, <1>5, Parts, PermitMove
<1>7. Conserved' /\ avail' \in [Vias -> Nat]
  BY Zenon, <1>2, <1>3, Parts, ConservedMove DEF Refuse, Admit
<1> QED BY Zenon, <1>2, <1>3, <1>6, <1>7

LEMMA RetainedSound ==
  ASSUME Inductive
  PROVE  /\ Retained \in [Principals -> WindowRec]
         /\ \A q \in Principals : Retained[q] # NoWindow =>
              Retained[q] = windows[q] /\ now - windows[q].started < Window
         /\ \A q \in Principals \ spilled : Paced(admits[q], Retained[q], now)
         /\ Tracked(Retained) \in Nat /\ Tracked(Retained) <= MaxKeys
<1>1. now \in Nat /\ windows \in [Principals -> WindowRec] /\ admits \in [Principals -> Seq(Nat)]
  BY Zenon, Parts DEF Types
<1>2. NoWindow \in WindowRec
  BY DEF NoWindow, WindowRec
<1>3. ASSUME NEW q \in Principals
      PROVE  /\ Retained[q] = (IF InWindow(windows[q]) THEN windows[q] ELSE NoWindow)
             /\ windows[q] \in WindowRec /\ admits[q] \in Seq(Nat)
  BY Zenon, <1>1 DEF Retained
<1>4. Retained \in [Principals -> WindowRec]
  BY Zenon, <1>1, <1>2 DEF Retained
<1>5. \A q \in Principals : Retained[q] # NoWindow =>
        Retained[q] = windows[q] /\ now - windows[q].started < Window
  BY Zenon, <1>3 DEF InWindow
<1>6. ASSUME NEW q \in Principals \ spilled PROVE Paced(admits[q], Retained[q], now)
  <2>1. Paced(admits[q], windows[q], now)
    BY Zenon, Parts DEF RateInv
  <2>2. CASE Retained[q] = windows[q]
    BY Zenon, <2>1, <2>2
  <2>3. CASE Retained[q] # windows[q]
    <3>1. Retained[q] = NoWindow /\ ~(now - windows[q].started < Window) /\ windows[q] # NoWindow
      BY Zenon, <1>3, <2>3 DEF InWindow
    <3>2. now - windows[q].started >= Window
      BY <1>1, <1>3, <3>1, Bounds DEF WindowRec
    <3> QED BY Zenon, <1>1, <1>3, <2>1, <3>1, <3>2, PacedDrop
  <2> QED BY Zenon, <2>2, <2>3
<1>7. Tracked(Retained) \in Nat /\ Tracked(Retained) <= MaxKeys
  <2> DEFINE S == {q \in Principals : windows[q] # NoWindow}
             T == {q \in Principals : Retained[q] # NoWindow}
  <2>1. T \in SUBSET S /\ T \in SUBSET Principals /\ S \in SUBSET Principals
    BY Zenon, <1>5
  <2>2. Cardinality(T) = Tracked(Retained) /\ Cardinality(S) <= MaxKeys
    BY Zenon, Parts DEF Tracked, KeyInv
  <2> HIDE DEF S, T
  <2>3. Cardinality(T) \in Nat /\ Cardinality(S) \in Nat /\ Cardinality(T) <= Cardinality(S)
    BY Zenon, <2>1, SubsetsFinite, FS_Subset
  <2> QED BY <2>2, <2>3, Bounds
<1> QED BY Zenon, <1>4, <1>5, <1>6, <1>7

\* The check leaves every other principal's window as the sweep did.
LEMMA RateChecked ==
  ASSUME Inductive, NEW r \in Requests, NEW p \in Principals, p = req[r].by, req[r].pc = "rate",
         Refuse(r) \/ Admit(r), UNCHANGED <<now, entries, made>>, spilled \subseteq spilled',
         NEW w \in WindowRec, windows' = [Retained EXCEPT ![p] = w],
         w # NoWindow => Retained[p] # NoWindow \/ Tracked(Retained) < MaxKeys,
         p \notin spilled' => Paced(admits'[p], w, now)
  PROVE  Inductive'
<1>1. Moved(r) /\ Conserved' /\ avail' \in [Vias -> Nat] /\ PermitInv'
  BY Zenon, RateOutcome
<1>2. /\ now \in Nat /\ Retained \in [Principals -> WindowRec] /\ admits \in [Principals -> Seq(Nat)]
  BY Zenon, Parts, RetainedSound DEF Types
<1>3. /\ windows' \in [Principals -> WindowRec] /\ windows'[p] = w
      /\ \A q \in Principals : q # p => windows'[q] = Retained[q]
  BY Zenon, <1>2
<1>4. admits' \in [Principals -> Seq(Nat)] /\ \A q \in Principals : q # p => admits'[q] = admits[q]
  <2>1. CASE UNCHANGED admits
    BY Zenon, <1>2, <2>1
  <2>2. CASE admits' = [admits EXCEPT ![p] = Append(@, now)]
    <3>1. Append(admits[p], now) \in Seq(Nat)
      BY <1>2
    <3> QED BY Zenon, <1>2, <2>2, <3>1
  <2> QED BY Zenon, <2>1, <2>2 DEF Refuse, Admit
<1>5. Types'
  BY Zenon, <1>1, <1>2, <1>3, <1>4, Parts DEF Types, Moved
<1>6. RateInv'
  <2>1. ASSUME NEW q \in Principals \ spilled' PROVE Paced(admits'[q], windows'[q], now)
    <3>1. CASE q = p
      BY Zenon, <1>3, <2>1, <3>1
    <3>2. CASE q # p
      <4>1. q \in Principals \ spilled
        BY Zenon
      <4> QED BY Zenon, <1>3, <1>4, <3>2, <4>1, RetainedSound
    <3> QED BY Zenon, <3>1, <3>2
  <2> QED BY Zenon, <2>1 DEF RateInv
<1>7. KeyInv'
  <2> DEFINE S == {q \in Principals : Retained[q] # NoWindow}
             T == {q \in Principals : windows'[q] # NoWindow}
  <2>1. /\ S \in SUBSET Principals /\ T \in SUBSET Principals
        /\ T \subseteq S \cup {p} /\ (w = NoWindow \/ p \in S => T \subseteq S)
    BY Zenon, <1>3
  <2>2. Cardinality(S) = Tracked(Retained)
    BY Zenon DEF Tracked
  <2>3. p \in S <=> Retained[p] # NoWindow
    BY Zenon
  <2> HIDE DEF S, T
  <2>4. IsFiniteSet(S) /\ IsFiniteSet(T) /\ Cardinality(S) \in Nat /\ Cardinality(T) \in Nat
    BY Zenon, <2>1, SubsetsFinite
  <2>5. Cardinality(T) <= MaxKeys
    <3>1. CASE T \subseteq S
      <4>1. Cardinality(T) <= Cardinality(S)
        BY Zenon, <2>4, <3>1, FS_Subset
      <4> QED BY <2>2, <2>4, <4>1, RetainedSound, Bounds
    <3>2. CASE ~(T \subseteq S)
      <4>1. p \notin S /\ Tracked(Retained) < MaxKeys
        BY Zenon, <2>1, <2>3, <3>2
      <4>2. IsFiniteSet(S \cup {p}) /\ Cardinality(S \cup {p}) = Cardinality(S) + 1
        BY Zenon, <2>4, <4>1, FS_AddElement
      <4>3. Cardinality(T) <= Cardinality(S \cup {p})
        BY Zenon, <2>1, <4>2, FS_Subset
      <4> QED BY <2>2, <2>4, <4>1, <4>2, <4>3, Bounds
    <3> QED BY Zenon, <3>1, <3>2
  <2> QED BY Zenon, <2>5, Parts DEF KeyInv, T
<1> QED BY Zenon, <1>1, <1>5, <1>6, <1>7 DEF Inductive

LEMMA CheckRateStep ==
  ASSUME Inductive, NEW r \in Requests, CheckRate(r)
  PROVE  Inductive'
<1> DEFINE p == req[r].by
           s == req[r].scope
<1>1. req[r].pc = "rate" /\ UNCHANGED <<now, entries, made>>
  BY Zenon DEF CheckRate
<1>2. p \in Principals /\ s \in {"read", "write"}
  <2>1. req[r].pc \in {"rate", "lookup", "acquire", "handling", "streaming"}
    BY <1>1
  <2> QED BY Zenon, <2>1, Parts, ReqFields DEF Handed
<1>3. \/ /\ Retained[p] # NoWindow /\ Full(Retained[p], s) /\ Refuse(r) /\ windows' = Retained
         /\ UNCHANGED spilled
      \/ /\ Retained[p] # NoWindow /\ ~Full(Retained[p], s) /\ Admit(r)
         /\ windows' = [Retained EXCEPT ![p] = Hit(@)] /\ UNCHANGED spilled
      \/ /\ Retained[p] = NoWindow /\ Tracked(Retained) < MaxKeys /\ Admit(r)
         /\ windows' = [Retained EXCEPT ![p] = [started |-> now, count |-> 1]] /\ UNCHANGED spilled
      \/ windows' = Retained /\ spilled' = spilled \cup {p} /\ (Refuse(r) \/ Admit(r))
  BY Zenon DEF CheckRate, Refuse, Admit
<1>4. /\ now \in Nat /\ Retained \in [Principals -> WindowRec] /\ Retained[p] \in WindowRec
      /\ admits \in [Principals -> Seq(Nat)] /\ admits[p] \in Seq(Nat)
  BY Zenon, <1>2, Parts, RetainedSound DEF Types
<1>5. /\ Refuse(r) => admits'[p] = admits[p]
      /\ Admit(r) => admits'[p] = Append(admits[p], now)
  BY Zenon, <1>2, <1>4 DEF Refuse, Admit
<1>6. [Retained EXCEPT ![p] = Retained[p]] = Retained
  BY Zenon, <1>2, <1>4
<1> HIDE DEF p, s
<1>7. CASE /\ Refuse(r) /\ windows' = Retained /\ UNCHANGED spilled
  <2>1. p \notin spilled' => Paced(admits'[p], Retained[p], now)
    BY Zenon, <1>2, <1>5, <1>7, RetainedSound
  <2> QED BY Zenon, <1>1, <1>2, <1>4, <1>6, <1>7, <2>1, RateChecked DEF p
<1>8. CASE windows' = Retained /\ spilled' = spilled \cup {p} /\ (Refuse(r) \/ Admit(r))
  BY Zenon, <1>1, <1>2, <1>4, <1>6, <1>8, RateChecked DEF p
<1>9. CASE /\ Retained[p] = NoWindow /\ Tracked(Retained) < MaxKeys /\ Admit(r)
           /\ windows' = [Retained EXCEPT ![p] = [started |-> now, count |-> 1]] /\ UNCHANGED spilled
  <2> DEFINE w == [started |-> now, count |-> 1]
  <2>1. w \in WindowRec
    BY <1>4 DEF WindowRec
  <2>2. p \notin spilled' => Paced(admits'[p], w, now)
    BY Zenon, <1>2, <1>4, <1>5, <1>9, RetainedSound, PacedOpen
  <2> HIDE DEF w
  <2> QED BY Zenon, <1>1, <1>2, <1>9, <2>1, <2>2, RateChecked DEF p, w
<1>10. CASE /\ Retained[p] # NoWindow /\ ~Full(Retained[p], s) /\ Admit(r)
            /\ windows' = [Retained EXCEPT ![p] = Hit(@)] /\ UNCHANGED spilled
  <2> DEFINE u == Retained[p]
             w == Hit(Retained[p])
  <2>1. u = windows[p] /\ now - u.started < Window
    BY Zenon, <1>2, <1>10, RetainedSound
  <2>2. u.started \in Int /\ u.count \in Nat
    BY <1>4 DEF WindowRec
  <2>3. ~(now - u.started >= Window)
    BY <1>4, <2>1, <2>2, Bounds
  <2>4. Counted(u) = u
    BY Zenon, <2>3 DEF Counted
  <2>5. w \in WindowRec /\ w.started = u.started /\ w.count = u.count + 1
    BY <1>4, <2>2, <2>4 DEF Hit, WindowRec
  <2>6. u.count < Budget
    <3>1. ~(u.count >= Limit[s])
      BY Zenon, <1>10, <2>4 DEF Full
    <3> QED BY <1>2, <2>2, <3>1, Bounds
  <2>7. windows' = [Retained EXCEPT ![p] = w]
    BY Zenon, <1>10
  <2>8. p \notin spilled' => Paced(admits[p], u, now)
    BY Zenon, <1>2, <1>10, RetainedSound
  <2>9. u # NoWindow
    BY Zenon, <1>10
  <2> HIDE DEF u, w
  <2>10. p \notin spilled' => Paced(admits'[p], w, now)
    BY Zenon, <1>4, <1>5, <1>10, <2>1, <2>5, <2>6, <2>8, <2>9, PacedHit DEF u
  <2> QED BY Zenon, <1>1, <1>2, <1>10, <2>5, <2>7, <2>10, RateChecked DEF p
<1> QED BY Zenon, <1>3, <1>7, <1>8, <1>9, <1>10

\* The entries a sweep of the registry leaves.
LEMMA SweptSound ==
  ASSUME Inductive
  PROVE  /\ Swept \in [Principals -> 0 .. made]
         /\ \A q \in Principals : Swept[q] = IF Alive(entries[q]) THEN entries[q] ELSE 0
         /\ Cardinality({q \in Principals : Swept[q] # 0}) \in Nat
         /\ Cardinality({q \in Principals : Swept[q] # 0}) <= MaxKeys
         /\ \A m \in Requests : entries[req[m].by] # 0 /\ req[m].sem = Own(entries[req[m].by])
              => Alive(entries[req[m].by])
<1>1. made \in Nat /\ entries \in [Principals -> 0 .. made]
  BY Zenon, Parts DEF Types
<1>2. 0 \in 0 .. made
  BY <1>1
<1>3. Swept \in [Principals -> 0 .. made]
  BY Zenon, <1>1, <1>2 DEF Swept
<1>4. \A q \in Principals : Swept[q] = IF Alive(entries[q]) THEN entries[q] ELSE 0
  BY Zenon DEF Swept
<1> DEFINE S == {q \in Principals : entries[q] # 0}
           T == {q \in Principals : Swept[q] # 0}
<1>5. S \in SUBSET Principals /\ T \in SUBSET Principals /\ T \in SUBSET S
  BY Zenon, <1>4
<1>6. Cardinality(S) <= MaxKeys
  BY Zenon, Parts DEF KeyInv
<1> HIDE DEF S, T
<1>7. Cardinality(T) \in Nat /\ Cardinality(S) \in Nat /\ Cardinality(T) <= Cardinality(S)
  BY Zenon, <1>5, SubsetsFinite, FS_Subset
<1>8. Cardinality(T) <= MaxKeys
  BY <1>6, <1>7, Bounds
<1>9. \A m \in Requests : entries[req[m].by] # 0 /\ req[m].sem = Own(entries[req[m].by])
        => Alive(entries[req[m].by])
  BY Zenon DEF Alive
<1> QED BY Zenon, <1>3, <1>4, <1>7, <1>8, <1>9 DEF T

LEMMA SemaphoreFound ==
  ASSUME Inductive, NEW r \in Requests, req[r].pc = "lookup", NEW sem \in SemRec, sem # NoSem,
         req' = [req EXCEPT ![r].pc = "acquire", ![r].sem = sem],
         UNCHANGED <<now, avail, rateVars>>, spilled \subseteq spilled',
         made' \in Nat, entries' \in [Principals -> 0 .. made'],
         Cardinality({q \in Principals : entries'[q] # 0}) <= MaxKeys,
         \A m \in Requests : m # r /\ entries[req[m].by] # 0 /\ req[m].sem = Own(entries[req[m].by])
           => entries'[req[m].by] = entries[req[m].by],
         \/ entries'[req[r].by] # 0 /\ sem = Own(entries'[req[r].by])
         \/ req[r].by \in spilled' /\ sem = Shared(Stripe[req[r].by])
  PROVE  Inductive'
<1>1. /\ req \in [Requests -> ReqRec] /\ req[r] \in ReqRec /\ Handed(req[r])
  BY Zenon, Parts, ReqFields DEF Types
<1>2. req[r].ceiling /\ ~req[r].permit /\ req[r].by \in Principals
  <2>1. /\ req[r].pc \in {"rate", "lookup", "acquire", "handling"}
        /\ req[r].pc \in {"rate", "lookup", "acquire", "handling", "streaming"}
        /\ req[r].pc \notin {"handling", "streaming"}
    OBVIOUS
  <2> QED BY Zenon, <1>1, <2>1 DEF Handed
<1>3. /\ Moved(r) /\ req'[r].permit = req[r].permit /\ req'[r].sem = sem /\ req'[r].pc = "acquire"
      /\ req'[r].via = req[r].via /\ req'[r].by = req[r].by /\ req'[r].ceiling = req[r].ceiling
  BY Zenon, <1>1 DEF Moved, ReqRec
<1>4. Handed(req'[r])
  <2>1. /\ req'[r].pc \notin {"unborn", "refused", "gone"} /\ req'[r].pc # "streaming"
        /\ req'[r].pc \notin {"handling", "streaming"} /\ req'[r].pc \in {"acquire", "handling", "streaming"}
    BY <1>3
  <2> QED BY Zenon, <1>2, <1>3, <2>1 DEF Handed
<1>5. Mine(req[r])'
  BY Zenon, <1>3 DEF Mine
<1>6. PermitInv'
  BY Zenon, <1>2, <1>3, <1>4, <1>5, Parts, PermitMove
<1>7. Conserved' /\ avail' \in [Vias -> Nat]
  BY Zenon, <1>2, <1>3, Parts, ConservedMove
<1>8. Types'
  BY Zenon, <1>3, <1>7, Parts DEF Types, Moved, rateVars
<1>9. RateInv'
  BY Zenon, Parts, RateKept DEF rateVars
<1>10. KeyInv'
  BY Zenon, Parts DEF KeyInv, rateVars
<1> QED BY Zenon, <1>6, <1>7, <1>8, <1>9, <1>10 DEF Inductive

LEMMA FindSemaphoreStep ==
  ASSUME Inductive, NEW r \in Requests, FindSemaphore(r)
  PROVE  Inductive'
<1> DEFINE p == req[r].by
           T == {q \in Principals : Swept[q] # 0}
<1>1. req[r].pc = "lookup" /\ UNCHANGED <<now, avail, rateVars>>
  BY Zenon DEF FindSemaphore
<1>2. p \in Principals
  <2>1. req[r].pc \in {"rate", "lookup", "acquire", "handling", "streaming"}
    BY <1>1
  <2> QED BY Zenon, <2>1, Parts DEF Handed
<1>3. made \in Nat /\ entries \in [Principals -> 0 .. made] /\ entries[p] \in 0 .. made
  BY Zenon, <1>2, Parts DEF Types
<1>4. \A n \in Nat : Own(n) \in SemRec /\ Own(n) # NoSem /\ Shared(n) \in SemRec /\ Shared(n) # NoSem
  BY DEF Own, Shared, NoSem, SemRec
<1>5. CASE /\ Alive(entries[p]) /\ UNCHANGED <<entries, made, spilled>>
           /\ req' = [req EXCEPT ![r].pc = "acquire", ![r].sem = Own(entries[p])]
  <2>1. entries[p] # 0 /\ entries[p] \in Nat
    BY <1>3, <1>5 DEF Alive
  <2>2. Cardinality({q \in Principals : entries'[q] # 0}) <= MaxKeys
    BY Zenon, <1>5, Parts DEF KeyInv
  <2> QED BY Zenon, <1>1, <1>3, <1>4, <1>5, <2>1, <2>2, SemaphoreFound
<1>6. CASE /\ ~Alive(entries[p]) /\ Cardinality(T) < MaxKeys
           /\ made' = made + 1 /\ entries' = [Swept EXCEPT ![p] = made + 1] /\ UNCHANGED spilled
           /\ req' = [req EXCEPT ![r].pc = "acquire", ![r].sem = Own(made + 1)]
  <2>1. made' \in Nat /\ made' # 0 /\ made + 1 \in 0 .. made' /\ 0 .. made \subseteq 0 .. made'
    BY <1>3, <1>6
  <2>2. Swept \in [Principals -> 0 .. made]
    BY Zenon, SweptSound
  <2>3. /\ entries' \in [Principals -> 0 .. made'] /\ entries'[p] = made'
        /\ \A q \in Principals : q # p => entries'[q] = Swept[q]
    BY Zenon, <1>2, <1>6, <2>1, <2>2
  <2>4. Cardinality({q \in Principals : entries'[q] # 0}) <= MaxKeys
    <3> DEFINE S == {q \in Principals : entries'[q] # 0}
    <3>1. S \in SUBSET (T \cup {p}) /\ T \in SUBSET Principals /\ S \in SUBSET Principals
      BY Zenon, <1>2, <2>3
    <3> HIDE DEF S, T
    <3>2. IsFiniteSet(T) /\ Cardinality(T) \in Nat /\ Cardinality(S) \in Nat
      BY Zenon, <3>1, SubsetsFinite
    <3>3. /\ IsFiniteSet(T \cup {p})
          /\ Cardinality(T \cup {p}) = Cardinality(T) \/ Cardinality(T \cup {p}) = Cardinality(T) + 1
      BY Zenon, <3>2, FS_AddElement
    <3>4. Cardinality(S) <= Cardinality(T \cup {p})
      BY Zenon, <3>1, <3>3, FS_Subset
    <3>5. Cardinality(S) <= MaxKeys
      BY <1>6, <3>2, <3>3, <3>4, Bounds
    <3> QED BY Zenon, <3>5 DEF S
  <2>5. ASSUME NEW m \in Requests, m # r, entries[req[m].by] # 0, req[m].sem = Own(entries[req[m].by])
        PROVE  entries'[req[m].by] = entries[req[m].by]
    <3>1. Alive(entries[req[m].by])
      BY Zenon, <2>5, SweptSound
    <3>2. req[m].by \in Principals
      <4>1. req[m].sem # NoSem
        BY <2>5 DEF Own, NoSem
      <4>2. req[m].pc \in {"acquire", "handling", "streaming"}
        BY Zenon, <4>1, Parts DEF Handed
      <4>3. req[m].pc \in {"rate", "lookup", "acquire", "handling", "streaming"}
        BY <4>2
      <4> QED BY Zenon, <4>3, Parts DEF Handed
    <3>3. req[m].by # p
      BY Zenon, <1>6, <3>1
    <3> QED BY Zenon, <2>3, <3>1, <3>2, <3>3, SweptSound
  <2>6. Own(made') \in SemRec /\ Own(made') # NoSem
    BY Zenon, <1>4, <2>1
  <2>7. req' = [req EXCEPT ![r].pc = "acquire", ![r].sem = Own(made')]
    BY Zenon, <1>6
  <2> QED BY ZenonT(60), <1>1, <1>6, <2>1, <2>3, <2>4, <2>5, <2>6, <2>7, SemaphoreFound
<1>7. CASE /\ ~Alive(entries[p]) /\ entries' = Swept /\ spilled' = spilled \cup {p} /\ UNCHANGED made
           /\ req' = [req EXCEPT ![r].pc = "acquire", ![r].sem = Shared(Stripe[p])]
  <2>1. Stripe[p] \in Nat
    BY Zenon, <1>2, AdmissionConstants
  <2>2. ASSUME NEW m \in Requests, m # r, entries[req[m].by] # 0, req[m].sem = Own(entries[req[m].by])
        PROVE  entries'[req[m].by] = entries[req[m].by]
    <3>1. Alive(entries[req[m].by])
      BY Zenon, <2>2, SweptSound
    <3>2. req[m].by \in Principals
      <4>1. req[m].sem # NoSem
        BY <2>2 DEF Own, NoSem
      <4>2. req[m].pc \in {"acquire", "handling", "streaming"}
        BY Zenon, <4>1, Parts DEF Handed
      <4>3. req[m].pc \in {"rate", "lookup", "acquire", "handling", "streaming"}
        BY <4>2
      <4> QED BY Zenon, <4>3, Parts DEF Handed
    <3> QED BY Zenon, <1>7, <3>1, <3>2, SweptSound
  <2>3. /\ Swept \in [Principals -> 0 .. made]
        /\ Cardinality({q \in Principals : Swept[q] # 0}) <= MaxKeys
    BY Zenon, SweptSound
  <2> QED BY Zenon, <1>1, <1>3, <1>4, <1>7, <2>1, <2>2, <2>3, SemaphoreFound
<1> QED BY Zenon, <1>5, <1>6, <1>7 DEF FindSemaphore

LEMMA AcquirePermitStep ==
  ASSUME Inductive, NEW r \in Requests, AcquirePermit(r)
  PROVE  Inductive'
<1>1. /\ req[r].pc = "acquire" /\ UNCHANGED <<now, rateVars, entries, made, spilled>>
      /\ req \in [Requests -> ReqRec] /\ req[r] \in ReqRec /\ Handed(req[r]) /\ Mine(req[r])
  BY Zenon, Parts, ReqFields DEF AcquirePermit, Types
<1>2. req[r].ceiling /\ ~req[r].permit /\ req[r].sem # NoSem /\ req[r].by \in Principals
  <2>1. /\ req[r].pc \in {"rate", "lookup", "acquire", "handling"}
        /\ req[r].pc \in {"rate", "lookup", "acquire", "handling", "streaming"}
        /\ req[r].pc \notin {"handling", "streaming"} /\ req[r].pc \in {"acquire", "handling", "streaming"}
    BY <1>1
  <2> QED BY Zenon, <1>1, <2>1 DEF Handed
<1>3. CASE /\ Taken(req[r].sem) < Permits /\ UNCHANGED avail
           /\ req' = [req EXCEPT ![r].pc = "handling", ![r].permit = TRUE]
  <2>1. /\ Moved(r) /\ req'[r].permit = TRUE /\ req'[r].sem = req[r].sem /\ req'[r].pc = "handling"
        /\ req'[r].via = req[r].via /\ req'[r].by = req[r].by /\ req'[r].ceiling = req[r].ceiling
    BY Zenon, <1>1, <1>3 DEF Moved, ReqRec
  <2>2. Handed(req'[r])
    <3>1. /\ req'[r].pc \notin {"unborn", "refused", "gone"} /\ req'[r].pc # "streaming"
          /\ req'[r].pc \in {"handling", "streaming"} /\ req'[r].pc \in {"acquire", "handling", "streaming"}
      BY <2>1
    <3> QED BY Zenon, <1>2, <2>1, <3>1 DEF Handed
  <2>3. Mine(req[r])'
    BY Zenon, <1>1, <2>1 DEF Mine
  <2>4. Cardinality(Holders(req[r].sem)) < Permits
    BY Zenon, <1>3 DEF Taken, Holders
  <2>5. PermitInv'
    BY Zenon, <1>1, <2>1, <2>2, <2>3, <2>4, Parts, PermitMove
  <2>6. Conserved' /\ avail' \in [Vias -> Nat]
    BY Zenon, <1>2, <1>3, <2>1, Parts, ConservedMove
  <2> QED BY Zenon, <1>1, <2>1, <2>5, <2>6, RequestStep
<1>4. CASE /\ req' = [req EXCEPT ![r].pc = "refused", ![r].sem = NoSem, ![r].ceiling = FALSE]
           /\ avail' = [avail EXCEPT ![req[r].via] = @ + 1]
  <2>1. NoSem \in SemRec
    BY DEF NoSem, SemRec
  <2>2. /\ Moved(r) /\ req'[r].permit = req[r].permit /\ req'[r].sem = NoSem /\ req'[r].pc = "refused"
        /\ req'[r].via = req[r].via /\ req'[r].by = req[r].by /\ req'[r].ceiling = FALSE
    BY Zenon, <1>1, <1>4, <2>1 DEF Moved, ReqRec
  <2>3. Handed(req'[r])
    <3>1. /\ req'[r].pc \notin {"rate", "lookup", "acquire", "handling", "streaming"}
          /\ req'[r].pc \notin {"rate", "lookup", "acquire", "handling"}
          /\ req'[r].pc # "streaming" /\ req'[r].pc \notin {"handling", "streaming"}
          /\ req'[r].pc \notin {"acquire", "handling", "streaming"}
      BY <2>2
    <3> QED BY Zenon, <1>2, <2>2, <3>1 DEF Handed
  <2>4. Mine(req[r])'
    BY Zenon, <2>2 DEF Mine
  <2>5. PermitInv'
    BY Zenon, <1>1, <1>2, <2>2, <2>3, <2>4, Parts, PermitMove
  <2>6. Conserved' /\ avail' \in [Vias -> Nat]
    BY Zenon, <1>2, <1>4, <2>2, Parts, ConservedMove
  <2> QED BY Zenon, <1>1, <2>2, <2>5, <2>6, RequestStep
<1> QED BY Zenon, <1>3, <1>4 DEF AcquirePermit

LEMMA RespondStep ==
  ASSUME Inductive, NEW r \in Requests, Respond(r)
  PROVE  Inductive'
<1>1. /\ req[r].pc = "handling" /\ UNCHANGED <<now, rateVars, entries, made, spilled>>
      /\ req \in [Requests -> ReqRec] /\ req[r] \in ReqRec /\ Handed(req[r]) /\ Mine(req[r])
      /\ req[r].via \in Vias
  BY Zenon, Parts, ReqFields DEF Respond, Types
<1>2. req[r].ceiling /\ req[r].permit /\ req[r].sem # NoSem /\ req[r].by \in Principals
  <2>1. /\ req[r].pc \in {"rate", "lookup", "acquire", "handling"}
        /\ req[r].pc \in {"rate", "lookup", "acquire", "handling", "streaming"}
        /\ req[r].pc \in {"handling", "streaming"} /\ req[r].pc \in {"acquire", "handling", "streaming"}
    BY <1>1
  <2> QED BY Zenon, <1>1, <2>1 DEF Handed
<1>3. /\ Moved(r) /\ req'[r].permit = req[r].permit /\ req'[r].sem = req[r].sem
      /\ req'[r].pc = "streaming" /\ req'[r].via = req[r].via /\ req'[r].by = req[r].by
      /\ req'[r].ceiling = (req[r].via = "flight")
  BY Zenon, <1>1 DEF Respond, Moved, ReqRec
<1>4. Handed(req'[r])
  <2>1. /\ req'[r].pc \notin {"unborn", "refused", "gone"} /\ req'[r].pc # "handling"
        /\ req'[r].pc \notin {"rate", "lookup", "acquire", "handling"}
        /\ req'[r].pc \in {"handling", "streaming"} /\ req'[r].pc \in {"acquire", "handling", "streaming"}
    BY <1>3
  <2> QED BY Zenon, <1>2, <1>3, <2>1 DEF Handed
<1>5. Mine(req[r])'
  BY Zenon, <1>1, <1>3 DEF Mine
<1>6. PermitInv'
  BY Zenon, <1>1, <1>2, <1>3, <1>4, <1>5, Parts, PermitMove
<1>7. Conserved' /\ avail' \in [Vias -> Nat]
  <2>1. CASE req[r].via = "rest"
    <3>1. req[r].via # "flight" /\ avail' = [avail EXCEPT ![req[r].via] = @ + 1]
      BY <2>1 DEF Respond
    <3> QED BY Zenon, <1>2, <1>3, <3>1, Parts, ConservedMove
  <2>2. CASE req[r].via = "flight"
    <3>1. avail' = avail
      BY <2>2 DEF Respond
    <3> QED BY Zenon, <1>2, <1>3, <2>2, <3>1, Parts, ConservedMove
  <2> QED BY Zenon, <1>1, <2>1, <2>2 DEF Vias
<1> QED BY Zenon, <1>1, <1>3, <1>6, <1>7, RequestStep

LEMMA ReleaseStep ==
  ASSUME Inductive, NEW r \in Requests, Release(r)
  PROVE  Inductive'
<1> DEFINE q == [Unborn EXCEPT !.pc = "gone"]
<1>1. /\ req' = [req EXCEPT ![r] = q] /\ UNCHANGED <<now, rateVars, entries, made, spilled>>
      /\ req \in [Requests -> ReqRec]
  BY Zenon, Parts DEF Release, Types
<1>2. q \in ReqRec /\ q.sem = NoSem /\ ~q.permit /\ ~q.ceiling /\ Handed(q)
  BY Zenon, UnbornRecord
<1> HIDE DEF q
<1>3. Moved(r) /\ req'[r] = q
  BY Zenon, <1>1, <1>2 DEF Moved
<1>4. Mine(req[r])'
  BY Zenon, <1>2, <1>3 DEF Mine
<1>5. Handed(req'[r])
  BY Zenon, <1>2, <1>3
<1>6. PermitInv'
  BY Zenon, <1>1, <1>2, <1>3, <1>4, <1>5, Parts, PermitMove
<1>7. Conserved' /\ avail' \in [Vias -> Nat]
  BY Zenon, <1>2, <1>3, Parts, ConservedMove DEF Release
<1> QED BY Zenon, <1>1, <1>3, <1>6, <1>7, RequestStep

LEMMA TickStep ==
  ASSUME Inductive, Tick
  PROVE  Inductive'
<1>1. now \in Nat /\ now' = now + 1 /\ UNCHANGED <<req, avail, windows, overflow, admits, entries, made, spilled>>
  BY Zenon, Parts DEF Tick, Types, rateVars
<1>2. Types'
  <2>1. now' \in Nat
    BY <1>1
  <2> QED BY Zenon, <1>1, <2>1, Parts DEF Types
<1>3. RateInv'
  <2>1. ASSUME NEW p \in Principals \ spilled PROVE Paced(admits[p], windows[p], now + 1)
    <3>1. admits[p] \in Seq(Nat) /\ windows[p] \in WindowRec /\ Paced(admits[p], windows[p], now)
      BY Zenon, Parts DEF Types, RateInv
    <3> QED BY Zenon, <1>1, <3>1, PacedTick
  <2> QED BY Zenon, <1>1, <2>1 DEF RateInv
<1>4. Conserved' /\ PermitInv' /\ KeyInv'
  BY Zenon, <1>1, Parts DEF Conserved, Counts, PermitInv, Handed, Mine, Holders, KeyInv
<1> QED BY Zenon, <1>2, <1>3, <1>4 DEF Inductive

LEMMA KeepStep ==
  ASSUME Inductive, UNCHANGED vars
  PROVE  Inductive'
<1>1. UNCHANGED <<now, req, avail, windows, overflow, admits, entries, made, spilled>>
  BY Zenon DEF vars, rateVars
<1> QED BY Zenon, <1>1 DEF Inductive, Types, RateInv, Conserved, Counts, PermitInv, Handed, Mine,
        Holders, KeyInv

-----------------------------------------------------------------------------
(* The theorems. *)

LEMMA Begins == Init => Inductive
<1> SUFFICES ASSUME Init PROVE Inductive
  OBVIOUS
<1>1. /\ now = 0 /\ req = [r \in Requests |-> Unborn] /\ avail = Ceiling
      /\ windows = [p \in Principals |-> NoWindow] /\ entries = [p \in Principals |-> 0] /\ made = 0
      /\ admits = [p \in Principals |-> <<>>] /\ spilled = {}
  BY Zenon DEF Init
<1>2. /\ Unborn \in ReqRec /\ Unborn.sem = NoSem /\ ~Unborn.permit /\ ~Unborn.ceiling /\ Handed(Unborn)
      /\ \A r \in Requests : req[r] = Unborn
  BY Zenon, <1>1, UnbornRecord
<1>3. avail \in [Vias -> Nat]
  BY <1>1, Bounds DEF Ceiling, Vias
<1>4. Types
  <2>1. now \in Nat /\ made \in Nat /\ 0 \in 0 .. made /\ NoWindow \in WindowRec /\ <<>> \in Seq(Nat)
    BY <1>1 DEF NoWindow, WindowRec
  <2> QED BY Zenon, <1>1, <1>2, <1>3, <2>1 DEF Types
<1>5. Conserved
  <2>1. \A via : Counts(via) = {}
    BY Zenon, <1>2 DEF Counts
  <2>2. \A via \in Vias : avail[via] + 0 = Ceiling[via]
    <3>1. \A via \in Vias : avail[via] \in Nat
      BY Zenon, <1>3
    <3> QED BY <1>1, <3>1
  <2> QED BY Zenon, <2>1, <2>2, FS_EmptySet DEF Conserved
<1>6. PermitInv
  <2>1. \A sem \in SemRec : Holders(sem) = {}
    BY Zenon, <1>2 DEF Holders
  <2>2. 0 <= Permits
    BY Bounds
  <2> QED BY Zenon, <1>2, <2>1, <2>2, FS_EmptySet DEF PermitInv, Mine
<1>7. KeyInv
  <2>1. {p \in Principals : windows[p] # NoWindow} = {} /\ {p \in Principals : entries[p] # 0} = {}
    BY Zenon, <1>1
  <2>2. 0 <= MaxKeys
    BY Bounds
  <2> QED BY Zenon, <2>1, <2>2, FS_EmptySet DEF KeyInv
<1>8. RateInv
  <2>1. \A t : From(<<>>, t) = {}
    <3>1. 1 .. Len(<<>>) = {}
      OBVIOUS
    <3> QED BY Zenon, <3>1 DEF From
  <2>2. 0 <= Budget
    BY Bounds
  <2>3. Paced(<<>>, NoWindow, 0)
    BY Zenon, <2>1, <2>2, FS_EmptySet DEF Paced
  <2> QED BY Zenon, <1>1, <2>3 DEF RateInv
<1> QED BY Zenon, <1>4, <1>5, <1>6, <1>7, <1>8 DEF Inductive

LEMMA Steps == Inductive /\ [Next]_vars => Inductive'
<1> SUFFICES ASSUME Inductive, [Next]_vars PROVE Inductive'
  OBVIOUS
<1>1. ASSUME NEW r \in Requests, NEW p \in Principals, NEW via \in {"rest", "flight"},
             NEW scope \in {"read", "write"}, Arrive(r, p, via, scope)
      PROVE  Inductive'
  BY Zenon, <1>1, ArriveStep DEF Vias
<1>2. ASSUME NEW r \in Requests,
             \/ CheckRate(r) \/ FindSemaphore(r) \/ AcquirePermit(r) \/ Respond(r) \/ Finish(r) \/ Hangup(r)
      PROVE  Inductive'
  BY Zenon, <1>2, CheckRateStep, FindSemaphoreStep, AcquirePermitStep, RespondStep, ReleaseStep
     DEF Finish, Hangup
<1> QED BY Zenon, <1>1, <1>2, TickStep, KeepStep DEF Next

LEMMA Invariant == Spec => []Inductive
  BY Begins, Steps, PTL DEF Spec

LEMMA HoldsBound ==
  ASSUME Inductive, NEW p \in Principals
  PROVE  Cardinality(Holds(p)) <= IF p \in spilled THEN 2 * Permits ELSE Permits
<1> DEFINE S == IF entries[p] = 0 THEN {} ELSE Holders(Own(entries[p]))
           T == IF p \in spilled THEN Holders(Shared(Stripe[p])) ELSE {}
<1>1. Holds(p) \subseteq S \cup T
  <2> SUFFICES ASSUME NEW r \in Holds(p) PROVE r \in S \cup T
    BY Zenon
  <2>1. r \in Requests /\ req[r].by = p /\ req[r].permit
    BY Zenon DEF Holds
  <2>2. Handed(req[r]) /\ Mine(req[r])
    BY Zenon, <2>1, Parts
  <2>3. req[r].pc \in {"handling", "streaming"}
    BY Zenon, <2>1, <2>2 DEF Handed
  <2>4. req[r].pc \in {"acquire", "handling", "streaming"}
    BY <2>3
  <2>5. req[r].sem # NoSem
    BY Zenon, <2>2, <2>4 DEF Handed
  <2> QED BY Zenon, <2>1, <2>2, <2>5 DEF Mine, Holders
<1>2. entries[p] \in Nat /\ Stripe[p] \in Nat
  <2>1. entries[p] \in 0 .. made /\ made \in Nat
    BY Zenon, Parts DEF Types
  <2> QED BY <2>1, AdmissionConstants
<1>3. /\ Own(entries[p]) \in SemRec /\ Own(entries[p]) # NoSem
      /\ Shared(Stripe[p]) \in SemRec /\ Shared(Stripe[p]) # NoSem
  BY <1>2 DEF Own, Shared, NoSem, SemRec
<1>4. /\ Cardinality(Holders(Own(entries[p]))) <= Permits
      /\ Cardinality(Holders(Shared(Stripe[p]))) <= Permits
  BY Zenon, <1>3, Parts DEF PermitInv
<1>5. /\ S \in SUBSET Requests /\ T \in SUBSET Requests /\ S \cup T \in SUBSET Requests
      /\ S \cap T \in SUBSET Requests /\ Holds(p) \in SUBSET Requests
  BY Zenon DEF Holders, Holds
<1>6. Cardinality({}) = 0 /\ 0 <= Permits
  BY FS_EmptySet, Bounds
<1>7. Cardinality(S) <= Permits /\ Cardinality(T) <= (IF p \in spilled THEN Permits ELSE 0)
  BY <1>4, <1>6
<1> HIDE DEF S, T
<1>8. /\ Cardinality(S \cup T) = Cardinality(S) + Cardinality(T) - Cardinality(S \cap T)
      /\ Cardinality(S) \in Nat /\ Cardinality(T) \in Nat /\ Cardinality(S \cap T) \in Nat
      /\ Cardinality(Holds(p)) \in Nat /\ Cardinality(S \cup T) \in Nat
      /\ Cardinality(Holds(p)) <= Cardinality(S \cup T)
  BY Zenon, <1>1, <1>5, SubsetsFinite, FS_Union, FS_Subset
<1>9. CASE p \in spilled
  BY <1>7, <1>8, <1>9, Bounds
<1>10. CASE p \notin spilled
  BY <1>7, <1>8, <1>10, Bounds
<1> QED BY Zenon, <1>9, <1>10

\* A principal never has more requests in hand than its permits, doubled when
\* an overflow stripe has carried it, passes the rate check at most its budget in
\* a window and twice that in any span as long, and neither registry of
\* admission.rs outgrows max_rate_limit_keys, for any load and any sweep.
THEOREM PrincipalsLimited == Spec => []PrincipalLimits
<1> SUFFICES ASSUME Inductive PROVE PrincipalLimits
  BY Invariant, PTL
<1>1. PrincipalBound
  BY Zenon, HoldsBound DEF PrincipalBound
<1>2. RateBound
  <2> SUFFICES ASSUME NEW p \in Principals \ spilled
               PROVE  /\ Cardinality(Recent(p)) <= 2 * Budget
                      /\ InWindow(windows[p]) =>
                           Cardinality({i \in 1 .. Len(admits[p]) : admits[p][i] >= windows[p].started})
                             <= Budget
    BY Zenon DEF RateBound
  <2>1. /\ admits[p] \in Seq(Nat) /\ windows[p] \in WindowRec /\ now \in Nat
        /\ Paced(admits[p], windows[p], now)
    BY Zenon, Parts DEF Types, RateInv
  <2>2. Recent(p) = From(admits[p], now - Window + 1)
    <3>1. \A i \in 1 .. Len(admits[p]) : admits[p][i] \in Nat
      BY <2>1
    <3>2. ASSUME NEW n \in Nat
          PROVE  now - n < Window <=> n >= now - Window + 1
      BY <2>1, Bounds
    <3> QED BY Zenon, <3>1, <3>2 DEF Recent, From
  <2>3. /\ Cardinality(From(admits[p], now - Window + 1)) <= 2 * Budget
        /\ windows[p] # NoWindow => Cardinality(From(admits[p], windows[p].started)) <= Budget
    BY Zenon, <2>1, PacedBound
  <2> QED BY Zenon, <2>2, <2>3 DEF InWindow, From
<1>3. KeysBounded
  <2> DEFINE W == {p \in Principals : windows[p] # NoWindow}
             E == {p \in Principals : entries[p] # 0}
             V == {p \in Principals : InWindow(windows[p])}
             A == {p \in Principals : Alive(entries[p])}
  <2>1. V \in SUBSET W /\ A \in SUBSET E /\ W \in SUBSET Principals /\ E \in SUBSET Principals
        /\ V \in SUBSET Principals /\ A \in SUBSET Principals
    BY Zenon DEF InWindow, Alive
  <2>2. Cardinality(W) <= MaxKeys /\ Cardinality(E) <= MaxKeys
    BY Zenon, Parts DEF KeyInv
  <2> HIDE DEF W, E
  <2>3. Cardinality(V) <= Cardinality(W) /\ Cardinality(A) <= Cardinality(E)
    BY Zenon, <2>1, SubsetsFinite, FS_Subset
  <2>4. /\ Cardinality(V) \in Nat /\ Cardinality(A) \in Nat
        /\ Cardinality(W) \in Nat /\ Cardinality(E) \in Nat
    BY Zenon, <2>1, SubsetsFinite
  <2>5. Cardinality(V) <= MaxKeys /\ Cardinality(A) <= MaxKeys
    <3> HIDE DEF V, A
    <3> QED BY <2>2, <2>3, <2>4, Bounds
  <2> QED BY Zenon, <2>5 DEF KeysBounded
<1> QED BY Zenon, <1>1, <1>2, <1>3 DEF PrincipalLimits

\* What the ceilings of REST and Flight have left and what requests hold add up
\* to the configured ceiling at all times: a refusal, a response, a finished
\* stream and a hangup return exactly what was taken, and a Flight stream keeps
\* its permit until its body ends.
THEOREM CeilingsKept == Spec => []CeilingsSound
<1> SUFFICES ASSUME Inductive PROVE CeilingsSound
  BY Invariant, PTL
<1>1. TypeOK
  <2>1. \A q \in Principals : windows[q].count \in Nat /\ entries[q] \in 0 .. made
    BY Parts DEF Types, WindowRec
  <2>2. ASSUME NEW r \in Requests
        PROVE  /\ req[r].pc \in {"unborn", "refused", "rate", "lookup", "acquire",
                               "handling", "streaming", "gone"}
               /\ req[r].permit => req[r].sem # NoSem
    <3>1. req[r] \in ReqRec /\ Handed(req[r])
      BY Zenon, Parts, ReqFields
    <3> QED BY <3>1 DEF ReqRec, Handed
  <2> QED BY Zenon, <2>1, <2>2 DEF TypeOK
<1>2. CeilingConserved
  <2>1. \A via \in {"rest", "flight"} : avail[via] \in Nat
    BY Zenon, Parts DEF Types, Vias
  <2>2. \A via \in {"rest", "flight"} : avail[via] >= 0
    BY <2>1
  <2> QED BY Zenon, <2>2, Parts DEF CeilingConserved, Conserved, Counts, Vias
<1>3. FlightStreamsCounted
  <2> SUFFICES ASSUME NEW r \in Requests, req[r].via = "flight", req[r].pc = "streaming"
               PROVE  req[r].ceiling /\ req[r].permit
    BY Zenon DEF FlightStreamsCounted
  <2>1. Handed(req[r]) /\ req[r].pc \in {"handling", "streaming"}
    BY Parts
  <2> QED BY Zenon, <2>1 DEF Handed
<1> QED BY Zenon, <1>1, <1>2, <1>3 DEF CeilingsSound

=============================================================================
