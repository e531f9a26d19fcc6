--------------------------- MODULE ReceiveProofs ----------------------------
(***************************************************************************)
(* The receive pipeline for any ops, epochs, caps, builds and restarts.    *)
(*                                                                         *)
(* LoggedIsFoldedOrParked is not inductive: nothing in it says that no     *)
(* marker is stamped with a build yet to come.  CursorIsAPrefix needs that *)
(* a log is finite, or its run has no end.                                 *)
(***************************************************************************)
EXTENDS Receive, TLAPS, FiniteSetTheorems, WellFoundedInduction

Item == [task : {"drain"}, epoch : Nat]
          \cup [task : {"apply", "replay"}, op : Ops]

Tables ==
    /\ log \subseteq Ops
    /\ parked \in [Ops -> Nat]
    /\ folds \in [Ops -> Nat]
    /\ deferred \in Seq(Ops)
    /\ cursor \in [Chain -> Nat]
    /\ build \in Nat \ {0}
    /\ work \in Seq(Item)

\* The log has finitely many rows, and so a greatest seq.
LogEnds == /\ IsFiniteSet(log)
           /\ \E m \in Nat : \A o \in log : o.seq <= m

\* A marker names a build that ran.
StampedBefore == \A o \in Ops : parked[o] <= build

ReceiveInv == /\ Tables /\ LogEnds /\ StampedBefore
              /\ CursorIsAPrefix /\ LoggedIsFoldedOrParked

-----------------------------------------------------------------------------
(* The rows a query returns in order. *)

RanksAreTaken(S, key) ==
    /\ Cardinality(S) \in Nat
    /\ \A k \in 1..Cardinality(S) :
         \E x \in S : Cardinality({y \in S : key[y] <= key[x]}) = k

\* Of the members of a finite set with distinct keys, each has one rank, and
\* every rank up to their number is some member's.
LEMMA RankIsOnto ==
    ASSUME NEW S, IsFiniteSet(S), NEW key \in [S -> Nat],
           \A x, y \in S : key[x] = key[y] => x = y
    PROVE  RanksAreTaken(S, key)
<1> DEFINE n == Cardinality(S)
           below(x) == {y \in S : key[y] <= key[x]}
           rank == [x \in S |-> Cardinality(below(x))]
<1>1. n \in Nat
  BY FS_CardinalityType
<1>2. \A x \in S : /\ below(x) \in SUBSET S /\ x \in below(x)
                   /\ IsFiniteSet(below(x))
  <2>1. \A x \in S : below(x) \in SUBSET S /\ x \in below(x)
    OBVIOUS
  <2> HIDE DEF below
  <2> QED
    BY <2>1, FS_Subset
<1>3. \A x \in S : /\ Cardinality(below(x)) \in Nat
                   /\ Cardinality(below(x)) <= n
                   /\ Cardinality(below(x)) # 0
  <2> HIDE DEF below
  <2>1. \A x \in S : below(x) # {}
    BY <1>2
  <2> QED
    BY <1>2, <2>1, FS_Subset, FS_CardinalityType, FS_EmptySet
<1>4. \A x \in S : Cardinality(below(x)) \in 1..n
  <2> HIDE DEF below, n
  <2> QED
    BY <1>1, <1>3
<1>5. rank \in [S -> 1..n]
  <2> HIDE DEF below, n
  <2> QED
    BY <1>4
<1>6. \A x, y \in S : key[x] < key[y] => rank[x] # rank[y]
  <2>1. SUFFICES ASSUME NEW x \in S, NEW y \in S, key[x] < key[y]
                 PROVE  Cardinality(below(x)) # Cardinality(below(y))
    OBVIOUS
  <2>2. below(x) \in SUBSET below(y) /\ y \notin below(x) /\ y \in below(y)
    BY <2>1
  <2> HIDE DEF below
  <2> QED
    BY <1>2, <2>1, <2>2, FS_Subset
<1>7. \A x, y \in S : rank[x] = rank[y] => x = y
  <2> HIDE DEF rank
  <2>1. \A x, y \in S : x # y => key[x] < key[y] \/ key[y] < key[x]
    OBVIOUS
  <2> QED
    BY <1>6, <2>1
<1>8. rank \in Injection(S, 1..n)
  <2> HIDE DEF rank, n
  <2> QED
    BY <1>5, <1>7 DEF Injection, IsInjective
<1>9. IsFiniteSet(1..n) /\ Cardinality(1..n) = n
  <2> HIDE DEF n
  <2> QED
    BY <1>1, FS_Interval
<1>10. rank \in Surjection(S, 1..n)
  <2>1. Cardinality(S) = Cardinality(1..n)
    BY <1>9
  <2> HIDE DEF rank, n
  <2> QED
    BY <1>8, <1>9, <2>1, FS_Injection
<1>11. \A k \in 1..n : \E x \in S : rank[x] = k
  <2> HIDE DEF rank, n
  <2> QED
    BY <1>10 DEF Surjection
<1> QED
  BY <1>1, <1>11 DEF RanksAreTaken

\* What Pick returns is a sequence of elements of s.
LEMMA PickType ==
    ASSUME NEW T, NEW s \in Seq(T), NEW I \in SUBSET (DOMAIN s)
    PROVE  Pick(s, I) \in Seq(T)
<1> DEFINE key == [i \in I |-> i]
           at(k) == CHOOSE i \in I : Cardinality({j \in I : j <= i}) = k
<1>1. Len(s) \in Nat /\ DOMAIN s = 1..Len(s) /\ \A i \in I : s[i] \in T
  OBVIOUS
<1>2. IsFiniteSet(I)
  <2>1. IsFiniteSet(1..Len(s))
    BY <1>1, FS_Interval
  <2> QED
    BY <1>1, <2>1, FS_Subset
<1>3. key \in [I -> Nat] /\ \A i, j \in I : key[i] = key[j] => i = j
  BY <1>1
<1>4. \A i \in I : {j \in I : key[j] <= key[i]} = {j \in I : j <= i}
  OBVIOUS
<1>5. /\ Cardinality(I) \in Nat
      /\ \A k \in 1..Cardinality(I) :
           \E i \in I : Cardinality({j \in I : key[j] <= key[i]}) = k
  <2> HIDE DEF key
  <2>1. RanksAreTaken(I, key)
    BY <1>2, <1>3, RankIsOnto
  <2> QED
    BY <2>1 DEF RanksAreTaken
<1>6. \A k \in 1..Cardinality(I) : at(k) \in I
  <2>1. \A k \in 1..Cardinality(I) :
           \E i \in I : Cardinality({j \in I : j <= i}) = k
    <3> HIDE DEF key
    <3> QED
      BY <1>4, <1>5
  <2> QED
    BY <2>1
<1>7. Pick(s, I) = [k \in 1..Cardinality(I) |-> s[at(k)]]
  BY DEF Pick
<1> HIDE DEF at, key
<1> QED
  BY <1>1, <1>5, <1>6, <1>7

LEMMA NewestType ==
    ASSUME NEW T, NEW s \in Seq(T), NEW n \in Nat
    PROVE  Newest(s, n) \in Seq(T)
<1>1. CASE Len(s) <= n
  BY <1>1 DEF Newest
<1>2. CASE ~(Len(s) <= n)
  <2>1. Len(s) \in Nat /\ Len(s) - n + 1 \in 1..Len(s) + 1
    BY <1>2
  <2>2. SubSeq(s, Len(s) - n + 1, Len(s)) \in Seq(T)
    BY <2>1
  <2> QED
    BY <1>2, <2>2 DEF Newest
<1> QED
  BY <1>1, <1>2

LEMMA CapEpochType ==
    ASSUME NEW s \in Seq(Ops), NEW e
    PROVE  CapEpoch(s, e) \in Seq(Ops)
<1> DEFINE kept == Range(Newest(Pick(s, {i \in DOMAIN s : s[i].epoch = e}),
                                PerEpochCap))
           I == {i \in DOMAIN s : s[i].epoch # e \/ s[i] \in kept}
<1>1. I \in SUBSET DOMAIN s
  OBVIOUS
<1>2. CapEpoch(s, e) = Pick(s, I)
  BY DEF CapEpoch
<1> HIDE DEF I, kept
<1> QED
  BY <1>1, <1>2, PickType

\* parked_for_replay returns rows of parked ops, in a sequence.
LEMMA ForReplayType ==
    ASSUME NEW b, Tables, LogEnds, LoggedIsFoldedOrParked
    PROVE  /\ ForReplay(b) \in Seq(Ops)
           /\ \A i \in DOMAIN ForReplay(b) :
                /\ ForReplay(b)[i] \in log
                /\ parked[ForReplay(b)[i]] # 0
<1> DEFINE rows == {o \in Ops : parked[o] \notin {0, b}}
           key == [o \in rows |-> o.at]
           at(k) == CHOOSE o \in rows :
                       Cardinality({p \in rows : p.at <= o.at}) = k
<1>1. rows \in SUBSET log /\ rows \in SUBSET Ops
  BY DEF Tables, LoggedIsFoldedOrParked, IsParked
<1>2. \A o \in rows : parked[o] # 0
  OBVIOUS
<1>3. IsFiniteSet(rows)
  <2> HIDE DEF rows
  <2> QED
    BY <1>1, FS_Subset DEF LogEnds
<1>4. key \in [rows -> Nat] /\ \A o, p \in rows : key[o] = key[p] => o = p
  <2> HIDE DEF rows
  <2> QED
    BY <1>1, OpsAssumption
<1>5. \A o \in rows : {p \in rows : key[p] <= key[o]}
                        = {p \in rows : p.at <= o.at}
  <2> HIDE DEF rows
  <2> QED
    OBVIOUS
<1>6. /\ Cardinality(rows) \in Nat
      /\ \A k \in 1..Cardinality(rows) :
           \E o \in rows : Cardinality({p \in rows : key[p] <= key[o]}) = k
  <2> HIDE DEF key, rows
  <2>1. RanksAreTaken(rows, key)
    BY <1>3, <1>4, RankIsOnto
  <2> QED
    BY <2>1 DEF RanksAreTaken
<1>7. \A k \in 1..Cardinality(rows) : at(k) \in rows
  <2> HIDE DEF key, rows
  <2>1. \A k \in 1..Cardinality(rows) :
           \E o \in rows : Cardinality({p \in rows : p.at <= o.at}) = k
    BY <1>5, <1>6
  <2> QED
    BY <2>1
<1>8. ForReplay(b) = [k \in 1..Cardinality(rows) |-> at(k)]
  BY DEF ForReplay
<1> HIDE DEF at, key, rows
<1> QED
  BY <1>1, <1>2, <1>6, <1>7, <1>8

-----------------------------------------------------------------------------
(* The run's end. *)

\* A bounded set of naturals that is not empty has its greatest element.
LEMMA MaxExists ==
    ASSUME NEW S \in SUBSET Nat, S # {}, NEW m \in Nat, \A x \in S : x <= m
    PROVE  Max(S) \in S
<1> DEFINE U == {u \in Nat : \A x \in S : x <= u}
<1>1. m \in U /\ U \subseteq Nat
  OBVIOUS
<1>2. PICK u \in U : \A v \in U : ~(<<v, u>> \in OpToRel(<, Nat))
  <2> HIDE DEF U
  <2>1. U # {}
    BY <1>1
  <2> QED
    BY <1>1, <2>1, NatLessThanWellFounded, WFMin, Zenon
<1>3. \A v \in U : ~(v < u)
  <2> HIDE DEF U
  <2> QED
    BY <1>1, <1>2, Zenon DEF OpToRel
<1>4. u \in Nat /\ \A x \in S : x <= u
  OBVIOUS
<1>5. u \in S
  <2>1. SUFFICES ASSUME u \notin S PROVE FALSE
    OBVIOUS
  <2>2. \A x \in S : x < u
    BY <1>4, <2>1
  <2>3. PICK y \in S : TRUE
    OBVIOUS
  <2>4. u - 1 \in Nat /\ \A x \in S : x <= u - 1
    BY <1>4, <2>2, <2>3
  <2>5. u - 1 \in U
    BY <2>4
  <2> HIDE DEF U
  <2> QED
    BY <1>3, <1>4, <2>5
<1>6. \E x \in S : \A y \in S : x >= y
  BY <1>4, <1>5
<1> QED
  BY <1>6 DEF Max

\* upsert_sync_cursor: at and below the run's end nothing is missing.
LEMMA RunEndIsAPrefix ==
    ASSUME NEW L \in SUBSET Ops, NEW m \in Nat, \A o \in L : o.seq <= m, NEW c
    PROVE  /\ RunEnd(L, c) \in Nat
           /\ \A o \in Ops : ChainOf(o) = c /\ o.seq <= RunEnd(L, c) => o \in L
<1> DEFINE held == {o.seq : o \in {p \in L : ChainOf(p) = c}}
           S == {0} \cup {n \in held : 1..n \subseteq held}
<1>1. held \subseteq Nat /\ \A n \in held : n <= m
  BY OpsAssumption
<1>2. S \in SUBSET Nat /\ S # {} /\ \A n \in S : n <= m
  <2> HIDE DEF held
  <2>1. 0 \in S /\ \A n \in S : n = 0 \/ n \in held
    OBVIOUS
  <2> HIDE DEF S
  <2>2. \A n \in S : n \in Nat /\ n <= m
    <3>1. SUFFICES ASSUME NEW n \in S PROVE n \in Nat /\ n <= m
      OBVIOUS
    <3>2. CASE n = 0
      BY <3>2
    <3>3. CASE n \in held
      BY <1>1, <3>3
    <3> QED
      BY <2>1, <3>2, <3>3
  <2> QED
    BY <2>1, <2>2
<1>3. Max(S) \in S
  <2> HIDE DEF S
  <2> QED
    BY <1>2, MaxExists
<1>4. RunEnd(L, c) = Max(S)
  BY DEF RunEnd
<1>5. Max(S) \in Nat /\ 1..Max(S) \subseteq held
  <2> DEFINE r == Max(S)
  <2>1. r \in Nat /\ (r = 0 \/ 1..r \subseteq held)
    <3> HIDE DEF held, r
    <3>1. r \in S
      BY <1>3 DEF r
    <3> QED
      BY <1>2, <3>1
  <2> HIDE DEF r, held, S
  <2>2. r = 0 => 1..r = {}
    OBVIOUS
  <2>3. r \in Nat /\ 1..r \subseteq held
    BY <2>1, <2>2
  <2> QED
    BY <2>3 DEF r
<1>6. \A o \in Ops : ChainOf(o) = c /\ o.seq \in held => o \in L
  BY OpsAssumption
<1> HIDE DEF held, S
<1>7. SUFFICES ASSUME NEW o \in Ops, ChainOf(o) = c, o.seq <= Max(S)
               PROVE  o \in L
  BY <1>4, <1>5
<1>8. o.seq \in 1..Max(S)
  BY <1>5, <1>7, OpsAssumption
<1> QED
  BY <1>5, <1>6, <1>7, <1>8

-----------------------------------------------------------------------------
(* The ways through apply_remote_all. *)

\* An op enters the log, and the cursor of its chain moves to the run's end.
LEMMA LogGrows ==
    ASSUME Tables, LogEnds, CursorIsAPrefix, NEW o \in Ops,
           log' = log \cup {o}, Advance(log', o)
    PROVE  /\ log' \subseteq Ops /\ cursor' \in [Chain -> Nat]
           /\ LogEnds' /\ CursorIsAPrefix'
<1>1. log' \subseteq Ops /\ o.seq \in Nat
  BY OpsAssumption DEF Tables
<1>2. PICK m \in Nat : \A p \in log : p.seq <= m
  BY DEF LogEnds
<1>3. PICK n \in Nat : m <= n /\ o.seq <= n
  BY <1>1
<1>4. \A p \in log' : p.seq <= n
  <2>1. \A p \in log : p.seq \in Nat
    BY OpsAssumption DEF Tables
  <2> QED
    BY <1>2, <1>3, <2>1
<1>5. LogEnds'
  BY <1>4, FS_AddElement DEF LogEnds
<1>6. /\ RunEnd(log', ChainOf(o)) \in Nat
      /\ \A p \in Ops : ChainOf(p) = ChainOf(o)
                          /\ p.seq <= RunEnd(log', ChainOf(o)) => p \in log'
  BY <1>1, <1>4, RunEndIsAPrefix
<1>7. ChainOf(o) \in Chain /\ \A p \in Ops : ChainOf(p) \in Chain
  BY DEF Chain, ChainOf
<1>8. cursor' = [cursor EXCEPT ![ChainOf(o)] = RunEnd(log', ChainOf(o))]
  BY DEF Advance
<1>9. cursor' \in [Chain -> Nat]
  BY <1>6, <1>7, <1>8 DEF Tables
<1>10. CursorIsAPrefix'
  <2>1. SUFFICES ASSUME NEW p \in Ops, p.seq <= cursor'[ChainOf(p)]
                 PROVE  p \in log'
    BY DEF CursorIsAPrefix
  <2>2. CASE ChainOf(p) = ChainOf(o)
    BY <1>6, <1>7, <1>8, <2>1, <2>2 DEF Tables
  <2>3. CASE ChainOf(p) # ChainOf(o)
    <3>1. cursor'[ChainOf(p)] = cursor[ChainOf(p)]
      BY <1>7, <1>8, <2>3 DEF Tables
    <3> QED
      BY <2>1, <3>1 DEF CursorIsAPrefix
  <2> QED
    BY <2>2, <2>3
<1> QED
  BY <1>1, <1>5, <1>9, <1>10

\* Nothing but the buffer and the work list changes.
LEMMA SameTablesKeepInv ==
    ASSUME ReceiveInv, work' \in Seq(Item), deferred' \in Seq(Ops),
           UNCHANGED <<log, parked, refused, folds, cursor, build>>
    PROVE  ReceiveInv'
<1>1. Tables'
  BY DEF ReceiveInv, Tables
<1>2. LogEnds' /\ StampedBefore' /\ CursorIsAPrefix' /\ LoggedIsFoldedOrParked'
  BY DEF ReceiveInv, LogEnds, StampedBefore, CursorIsAPrefix,
         LoggedIsFoldedOrParked, IsParked, Readable
<1> QED
  BY <1>1, <1>2 DEF ReceiveInv

\* What LoggedIsFoldedOrParked says of one op, from its row and its marker.
RowIsFine(p) ==
    /\ folds[p] <= 1
    /\ p \in log <=> (folds[p] = 1 \/ parked[p] # 0)
    /\ ~(folds[p] = 1 /\ parked[p] # 0)
    /\ parked[p] = build => ~(p.needs <= build) \/ p \in refused

LEMMA RowsAreFine == LoggedIsFoldedOrParked <=> \A p \in Ops : RowIsFine(p)
  BY DEF LoggedIsFoldedOrParked, RowIsFine, IsParked, Readable

\* A row that stays as it was stays fine.
LEMMA SameRow ==
    ASSUME NEW p \in Ops, RowIsFine(p), parked'[p] = parked[p],
           folds'[p] = folds[p], p \in log' <=> p \in log,
           p \in refused' <=> p \in refused, build' = build
    PROVE  RowIsFine(p)'
  BY DEF RowIsFine

LEMMA DeferKeepsInv ==
    ASSUME ReceiveInv, NEW o \in Ops, NEW rest \in Seq(Item),
           Defer(o, rest), UNCHANGED build
    PROVE  ReceiveInv'
<1> DEFINE held == IF o \in Range(deferred) THEN deferred ELSE Append(deferred, o)
<1>1. held \in Seq(Ops)
  BY DEF ReceiveInv, Tables
<1>2. deferred' = Newest(CapEpoch(held, o.epoch), TotalCap)
  BY DEF Defer
<1> HIDE DEF held
<1>3. deferred' \in Seq(Ops)
  BY <1>1, <1>2, CapEpochType, NewestType, OpsAssumption
<1>4. work' \in Seq(Item) /\ UNCHANGED <<log, parked, refused, folds, cursor>>
  BY DEF Defer
<1> QED
  BY <1>3, <1>4, SameTablesKeepInv

LEMMA ParkKeepsInv ==
    ASSUME ReceiveInv, NEW o \in Ops, NEW rest \in Seq(Item),
           Park(o, rest), UNCHANGED build
    PROVE  ReceiveInv'
<1>1. /\ log' = log \cup {o} /\ Advance(log', o) /\ ~Readable(o)
      /\ parked' = [parked EXCEPT ![o] = IF o \in log THEN @ ELSE build]
      /\ refused' = refused \ {o}
      /\ work' = rest /\ folds' = folds /\ deferred' = deferred
  BY DEF Park
<1>2. /\ log' \subseteq Ops /\ cursor' \in [Chain -> Nat]
      /\ LogEnds' /\ CursorIsAPrefix'
  BY <1>1, LogGrows DEF ReceiveInv
<1>3. Tables'
  BY <1>1, <1>2 DEF ReceiveInv, Tables
<1>4. StampedBefore'
  BY <1>1 DEF ReceiveInv, Tables, StampedBefore
<1>5. LoggedIsFoldedOrParked'
  <2>1. SUFFICES ASSUME NEW p \in Ops PROVE RowIsFine(p)'
    BY RowsAreFine DEF LoggedIsFoldedOrParked, RowIsFine, IsParked, Readable
  <2>2. RowIsFine(p) /\ build # 0
    BY RowsAreFine DEF ReceiveInv, Tables
  <2>3. CASE p = o
    <3>1. /\ parked'[p] = IF p \in log THEN parked[p] ELSE build
          /\ folds'[p] = folds[p] /\ p \in log' /\ ~(p.needs <= build')
      BY <1>1, <2>3 DEF ReceiveInv, Tables, Readable
    <3> QED
      BY <2>2, <3>1 DEF RowIsFine
  <2>4. CASE p # o
    <3>1. /\ parked'[p] = parked[p] /\ folds'[p] = folds[p]
          /\ p \in log' <=> p \in log
          /\ p \in refused' <=> p \in refused
      BY <1>1, <2>4 DEF ReceiveInv, Tables
    <3> QED
      BY <2>2, <3>1, SameRow
  <2> QED
    BY <2>3, <2>4
<1> QED
  BY <1>2, <1>3, <1>4, <1>5 DEF ReceiveInv

LEMMA ApplyKeepsInv ==
    ASSUME ReceiveInv, NEW o \in Ops, NEW rest \in Seq(Item),
           Apply(o, rest), UNCHANGED build
    PROVE  ReceiveInv'
<1> DEFINE drain == [task |-> "drain", epoch |-> o.gives]
<1>1. /\ log' = log \cup {o} /\ Advance(log', o)
      /\ o \notin log \/ parked[o] # 0
      /\ parked' = [parked EXCEPT ![o] = 0]
      /\ refused' = refused \ {o}
      /\ folds' = [folds EXCEPT ![o] = @ + 1]
      /\ work' = IF o.gives = 0 THEN rest ELSE <<drain>> \o rest
      /\ deferred' = deferred
  BY DEF Apply, IsParked
<1>2. /\ log' \subseteq Ops /\ cursor' \in [Chain -> Nat]
      /\ LogEnds' /\ CursorIsAPrefix'
  BY <1>1, LogGrows DEF ReceiveInv
<1>3. drain \in Item
  BY OpsAssumption DEF Item
<1> HIDE DEF drain
<1>4. work' \in Seq(Item)
  BY <1>1, <1>3
<1>5. Tables'
  BY <1>1, <1>2, <1>4 DEF ReceiveInv, Tables
<1>6. StampedBefore'
  BY <1>1 DEF ReceiveInv, Tables, StampedBefore
<1>7. LoggedIsFoldedOrParked'
  <2>1. SUFFICES ASSUME NEW p \in Ops PROVE RowIsFine(p)'
    BY RowsAreFine DEF LoggedIsFoldedOrParked, RowIsFine, IsParked, Readable
  <2>2. RowIsFine(p) /\ build # 0 /\ folds[p] \in Nat
    BY RowsAreFine DEF ReceiveInv, Tables
  <2>3. CASE p = o
    <3>1. parked'[p] = 0 /\ folds'[p] = folds[p] + 1 /\ p \in log'
      BY <1>1, <2>3 DEF ReceiveInv, Tables
    <3>2. folds[p] = 0
      BY <1>1, <2>2, <2>3 DEF RowIsFine
    <3> QED
      BY <2>2, <3>1, <3>2 DEF RowIsFine
  <2>4. CASE p # o
    <3>1. /\ parked'[p] = parked[p] /\ folds'[p] = folds[p]
          /\ p \in log' <=> p \in log
          /\ p \in refused' <=> p \in refused
      BY <1>1, <2>4 DEF ReceiveInv, Tables
    <3> QED
      BY <2>2, <3>1, SameRow
  <2> QED
    BY <2>3, <2>4
<1> QED
  BY <1>2, <1>5, <1>6, <1>7 DEF ReceiveInv

\* Refused, or already there: nothing is written.
LEMMA NothingWrittenKeepsInv ==
    ASSUME ReceiveInv, NEW o, NEW rest \in Seq(Item),
           Refuse(o, rest) \/ Duplicate(o, rest), UNCHANGED build
    PROVE  ReceiveInv'
<1>1. work' = rest /\ UNCHANGED <<log, parked, refused, folds, deferred, cursor>>
  BY DEF Refuse, Duplicate
<1>2. work' \in Seq(Item) /\ deferred' \in Seq(Ops)
  BY <1>1 DEF ReceiveInv, Tables
<1> QED
  BY <1>1, <1>2, SameTablesKeepInv

LEMMA ApplyRemoteKeepsInv ==
    ASSUME ReceiveInv, NEW o \in Ops, NEW rest \in Seq(Item),
           ApplyRemote(o, rest), UNCHANGED build
    PROVE  ReceiveInv'
  BY NothingWrittenKeepsInv, DeferKeepsInv, ParkKeepsInv, ApplyKeepsInv
     DEF ApplyRemote

-----------------------------------------------------------------------------
(* The steps. *)

\* The first item of the work list is an item, and so is the rest of it.
LEMMA RestOfWork ==
    ASSUME ReceiveInv, work # <<>>
    PROVE  /\ Head(work) \in Item /\ Tail(work) \in Seq(Item)
           /\ Head(work).task # "drain" => Head(work).op \in Ops
<1>1. Head(work) \in Item /\ Tail(work) \in Seq(Item)
  BY DEF ReceiveInv, Tables
<1>2. Head(work).task # "drain" => Head(work).op \in Ops
  BY <1>1 DEF Item
<1> QED
  BY <1>1, <1>2

\* Items made of a sequence of ops are a work list.
LEMMA ItemsType ==
    ASSUME NEW rows \in Seq(Ops), NEW t \in {"apply", "replay"}
    PROVE  [i \in DOMAIN rows |-> [task |-> t, op |-> rows[i]]] \in Seq(Item)
<1>1. /\ DOMAIN rows = 1..Len(rows) /\ Len(rows) \in Nat
      /\ \A i \in 1..Len(rows) : rows[i] \in Ops
  OBVIOUS
<1>2. \A i \in 1..Len(rows) : [task |-> t, op |-> rows[i]] \in Item
  BY <1>1 DEF Item
<1> QED
  BY <1>1, <1>2

LEMMA DrainKeepsInv == ASSUME ReceiveInv, Drain PROVE ReceiveInv'
<1> DEFINE e == Head(work).epoch
           rows == Pick(deferred, {i \in DOMAIN deferred :
                                     deferred[i].epoch = e})
           items == [i \in DOMAIN rows |-> [task |-> "apply", op |-> rows[i]]]
<1>1. Tail(work) \in Seq(Item)
  BY RestOfWork DEF Drain
<1>2. deferred \in Seq(Ops)
  BY DEF ReceiveInv, Tables
<1>3. deferred' \in Seq(Ops)
  <2>1. PICK old \in 0..Len(deferred) :
           deferred' = Pick(deferred, {i \in (old + 1)..Len(deferred) :
                                         deferred[i].epoch # e})
    BY DEF Drain
  <2>2. {i \in (old + 1)..Len(deferred) : deferred[i].epoch # e}
          \in SUBSET DOMAIN deferred
    BY <1>2
  <2> HIDE DEF e
  <2> QED
    BY <1>2, <2>1, <2>2, PickType
<1>4. rows \in Seq(Ops)
  <2>1. {i \in DOMAIN deferred : deferred[i].epoch = e} \in SUBSET DOMAIN deferred
    OBVIOUS
  <2> HIDE DEF e
  <2> QED
    BY <1>2, <2>1, PickType
<1>5. /\ work' = items \o Tail(work)
      /\ UNCHANGED <<log, parked, refused, folds, cursor, build>>
  BY DEF Drain
<1> HIDE DEF rows
<1>6. items \in Seq(Item)
  BY <1>4, ItemsType
<1> HIDE DEF items
<1>7. work' \in Seq(Item)
  BY <1>1, <1>5, <1>6
<1> QED
  BY <1>3, <1>5, <1>7, SameTablesKeepInv

\* A marker restamped for a reason: the build does not read the op, or refused it.
LEMMA RestampKeepsInv ==
    ASSUME ReceiveInv, NEW o \in Ops, work' \in Seq(Item),
           parked' = Restamped(o),
           \A p \in Ops \ {o} : p \in refused' <=> p \in refused,
           parked[o] # 0 => o \in refused' \/ ~Readable(o),
           UNCHANGED <<log, folds, deferred, cursor, build>>
    PROVE  ReceiveInv'
<1>1. \A p \in Ops : parked'[p] = IF p = o /\ parked[p] # 0 THEN build
                                  ELSE parked[p]
  BY DEF ReceiveInv, Tables, Restamped
<1>2. build # 0 /\ build \in Nat
  BY DEF ReceiveInv, Tables
<1>3. Tables'
  BY <1>2 DEF ReceiveInv, Tables, Restamped
<1>4. LogEnds' /\ CursorIsAPrefix'
  BY DEF ReceiveInv, LogEnds, CursorIsAPrefix
<1>5. StampedBefore'
  <2>1. SUFFICES ASSUME NEW p \in Ops PROVE parked'[p] <= build
    BY DEF StampedBefore
  <2>2. parked[p] <= build
    BY DEF ReceiveInv, StampedBefore
  <2> QED
    BY <1>1, <1>2, <2>2
<1>6. LoggedIsFoldedOrParked'
  <2>1. SUFFICES ASSUME NEW p \in Ops PROVE RowIsFine(p)'
    BY RowsAreFine DEF LoggedIsFoldedOrParked, RowIsFine, IsParked, Readable
  <2>2. RowIsFine(p)
    BY RowsAreFine DEF ReceiveInv
  <2>3. CASE p = o
    BY <1>1, <1>2, <2>2, <2>3 DEF RowIsFine, Readable
  <2>4. CASE p # o
    BY <1>1, <2>2, <2>4, SameRow
  <2> QED
    BY <2>3, <2>4
<1> QED
  BY <1>3, <1>4, <1>5, <1>6 DEF ReceiveInv

LEMMA ReplayOneKeepsInv == ASSUME ReceiveInv, ReplayOne PROVE ReceiveInv'
<1> DEFINE o == Head(work).op
           rest == Tail(work)
<1>1. rest \in Seq(Item) /\ o \in Ops /\ build' = build
  BY RestOfWork DEF ReplayOne
<1>2. \/ Apply(o, rest) \/ Duplicate(o, rest)
      \/ StillUnread(o, rest) \/ ReplayRefused(o, rest)
  BY DEF ReplayOne
<1> HIDE DEF o, rest
<1>3. CASE StillUnread(o, rest)
  BY <1>1, <1>3, RestampKeepsInv DEF StillUnread
<1>4. CASE ReplayRefused(o, rest)
  BY <1>1, <1>4, RestampKeepsInv DEF ReplayRefused, IsParked
<1> QED
  BY <1>1, <1>2, <1>3, <1>4, ApplyKeepsInv, NothingWrittenKeepsInv

LEMMA ReopenKeepsInv ==
    ASSUME ReceiveInv, NEW b \in 1..Builds, Reopen(b) PROVE ReceiveInv'
<1> DEFINE rows == ForReplay(b)
           items == [i \in DOMAIN rows |-> [task |-> "replay", op |-> rows[i]]]
<1>1. /\ b \in Nat \ {0} /\ b >= build /\ build \in Nat /\ build' = b
      /\ work' = items
      /\ UNCHANGED <<log, parked, refused, folds, deferred, cursor>>
  BY OpsAssumption DEF Reopen, ReceiveInv, Tables
<1>2. rows \in Seq(Ops)
  BY ForReplayType DEF ReceiveInv
<1> HIDE DEF rows
<1>3. items \in Seq(Item)
  BY <1>2, ItemsType
<1> HIDE DEF items
<1>4. Tables' /\ LogEnds' /\ CursorIsAPrefix'
  BY <1>1, <1>3 DEF ReceiveInv, Tables, LogEnds, CursorIsAPrefix
<1>5. StampedBefore'
  BY <1>1 DEF ReceiveInv, Tables, StampedBefore
<1>6. LoggedIsFoldedOrParked'
  <2>1. SUFFICES ASSUME NEW p \in Ops PROVE RowIsFine(p)'
    BY RowsAreFine DEF LoggedIsFoldedOrParked, RowIsFine, IsParked, Readable
  <2>2. RowIsFine(p) /\ parked[p] <= build /\ parked[p] \in Nat
    BY RowsAreFine DEF ReceiveInv, StampedBefore, Tables
  <2>3. parked'[p] = build' => build = b
    BY <1>1, <2>2
  <2> QED
    BY <1>1, <2>2, <2>3 DEF RowIsFine
<1> QED
  BY <1>4, <1>5, <1>6 DEF ReceiveInv

LEMMA InitReceiveInv == Init => ReceiveInv
<1> SUFFICES ASSUME Init PROVE ReceiveInv
  OBVIOUS
<1> USE DEF Init
<1>1. Tables
  BY DEF Tables
<1>2. LogEnds
  BY FS_EmptySet DEF LogEnds
<1>3. StampedBefore
  BY DEF StampedBefore
<1>4. CursorIsAPrefix
  BY OpsAssumption DEF CursorIsAPrefix, Chain, ChainOf
<1>5. LoggedIsFoldedOrParked
  BY DEF LoggedIsFoldedOrParked, IsParked
<1> QED
  BY <1>1, <1>2, <1>3, <1>4, <1>5 DEF ReceiveInv

LEMMA NextReceiveInv == ASSUME ReceiveInv, [Next]_vars PROVE ReceiveInv'
<1>1. ASSUME NEW o \in Ops, Deliver(o) PROVE ReceiveInv'
  <2>1. <<>> \in Seq(Item)
    OBVIOUS
  <2> QED
    BY <1>1, <2>1, ApplyRemoteKeepsInv DEF Deliver
<1>2. CASE Drain
  BY <1>2, DrainKeepsInv
<1>3. CASE DrainOne
  <2>1. Head(work).op \in Ops /\ Tail(work) \in Seq(Item)
    BY <1>3, RestOfWork DEF DrainOne
  <2> QED
    BY <1>3, <2>1, ApplyRemoteKeepsInv DEF DrainOne
<1>4. CASE ReplayOne
  BY <1>4, ReplayOneKeepsInv
<1>5. CASE ReplayFails
  <2>1. Tail(work) \in Seq(Item) /\ work' = Tail(work)
        /\ UNCHANGED <<log, parked, refused, folds, deferred, cursor, build>>
    BY <1>5, RestOfWork DEF ReplayFails
  <2>2. work' \in Seq(Item) /\ deferred' \in Seq(Ops)
    BY <2>1 DEF ReceiveInv, Tables
  <2> QED
    BY <2>1, <2>2, SameTablesKeepInv
<1>6. ASSUME NEW b \in 1..Builds, Reopen(b) PROVE ReceiveInv'
  BY <1>6, ReopenKeepsInv
<1>7. CASE UNCHANGED vars
  <2>1. work' \in Seq(Item) /\ deferred' \in Seq(Ops)
    BY <1>7 DEF vars, ReceiveInv, Tables
  <2> QED
    BY <1>7, <2>1, SameTablesKeepInv DEF vars
<1> QED
  BY <1>1, <1>2, <1>3, <1>4, <1>5, <1>6, <1>7 DEF Next, Local

LEMMA ReceiveInvHolds == Spec => []ReceiveInv
  BY InitReceiveInv, NextReceiveInv, PTL DEF Spec

-----------------------------------------------------------------------------
(***************************************************************************)
(* upsert_sync_cursor's promise, for any ops, keys, certs, caps, crashes   *)
(* and upgrades: no op at or below a cursor is missing from the log, so    *)
(* the relay never skips one that was deferred, evicted, expired or lost   *)
(* in a drain.                                                             *)
(***************************************************************************)
THEOREM CursorsAreHonest == Spec => []CursorIsAPrefix
  BY ReceiveInvHolds, PTL DEF ReceiveInv

(***************************************************************************)
(* ops, parked_ops and the projection agree through parking, replay, its   *)
(* storage failures and upgrades: an op is logged exactly when it has been *)
(* folded once or holds a marker, and a marker spent under the running     *)
(* build is of an op it cannot read, or says that it read and refused it   *)
(* (park.rs).                                                              *)
(***************************************************************************)
THEOREM NothingLoggedIsForgotten == Spec => []LoggedIsFoldedOrParked
  BY ReceiveInvHolds, PTL DEF ReceiveInv
=============================================================================
