---------------------------- MODULE GeoViewProofs ----------------------------
(***************************************************************************)
(* GeoView is correct for every cache, buffer and batch, and for any       *)
(* number of handlers and viewers.                                         *)
(*                                                                         *)
(* PartsAgree is about sums, and a sum is defined by recursion: that the   *)
(* order in which the library adds does not matter is proved first, from   *)
(* the fact that a set of naturals has a least member.  What is left of    *)
(* the invariant comes in two parts.  PlacesKnown: the cache holds, and    *)
(* every record carries, the place the database has.  AnswersExplained:    *)
(* each part of an answer was computed from a prefix of today's table that *)
(* starts no shorter than what was committed when the request came and     *)
(* only grows from one part to the next.                                   *)
(***************************************************************************)
EXTENDS GeoView, FiniteSetTheorems, SequenceTheorems, WellFoundedInduction, TLAPS

-----------------------------------------------------------------------------
(* Induction over numbers and over finite sets *)

(* A set of naturals has a least member.                                   *)
LEMMA LeastNumber ==
  ASSUME NEW T, T \subseteq Nat, T # {}
  PROVE  \E m \in T : \A n \in T : m <= n
<1>1. \A i, j \in Nat : <<i, j>> \in OpToRel(<, Nat) <=> i < j
  BY DEF OpToRel
<1>2. PICK R : IsWellFoundedOn(R, Nat) /\ \A i, j \in Nat : <<i, j>> \in R <=> i < j
  BY <1>1, NatLessThanWellFounded
<1>3. \E m \in T : \A n \in T : ~(<<n, m>> \in R)
  <2>1. IsWellFoundedOn(R, Nat)
    BY <1>2
  <2> QED BY <2>1, WFMin
<1> PICK m \in T : \A n \in T : ~(<<n, m>> \in R)
  BY <1>3
<1>4. m \in Nat /\ \A n \in T : n \in Nat /\ ~(n < m)
  BY <1>2
<1> QED BY <1>4

(* Induction over the subsets of a finite set: what holds of a set         *)
(* whenever it holds of the set without any one of its members holds of    *)
(* all of them.                                                            *)
LEMMA SubsetInduction ==
  ASSUME NEW U, IsFiniteSet(U), NEW Good,
         ASSUME NEW S \in SUBSET U, \A x \in S : S \ {x} \in Good
         PROVE  S \in Good
  PROVE  \A S \in SUBSET U : S \in Good
<1> SUFFICES ASSUME NEW S0 \in SUBSET U, S0 \notin Good PROVE FALSE
  OBVIOUS
<1> DEFINE Sizes == {n \in Nat : \E S \in SUBSET U : S \notin Good /\ Cardinality(S) = n}
<1>1. \A S \in SUBSET U : IsFiniteSet(S) /\ Cardinality(S) \in Nat
  BY FS_Subset, FS_CardinalityType
<1>2. Sizes \subseteq Nat /\ Sizes # {}
  BY <1>1
<1>3. PICK n \in Sizes : \A m \in Sizes : n <= m
  <2> HIDE DEF Sizes
  <2> QED BY <1>2, LeastNumber
<1>4. PICK S \in SUBSET U : S \notin Good /\ Cardinality(S) = n
  OBVIOUS
<1>5. ASSUME NEW x \in S, S \ {x} \notin Good PROVE FALSE
  <2>1. IsFiniteSet(S) /\ Cardinality(S) \in Nat /\ S \ {x} \in SUBSET U
    BY <1>1
  <2>2. Cardinality(S \ {x}) = Cardinality(S) - 1
    BY <2>1, FS_RemoveElement
  <2>3. Cardinality(S \ {x}) \in Sizes
    BY <1>1, <1>5, <2>1
  <2> HIDE DEF Sizes
  <2> QED BY <1>3, <1>4, <2>1, <2>2, <2>3
<1> QED BY <1>4, <1>5

-----------------------------------------------------------------------------
(* Sums.  The library takes the members of a set one by one, in an order   *)
(* it does not tell; here it is shown that the order does not matter.      *)

Pick(s) == CHOOSE x \in s : TRUE

(* f holds the sum of w over every set of D.                               *)
IsSumTable(f, w, D) ==
  f = [s \in D |-> IF s = {} THEN 0 ELSE w[Pick(s)] + f[s \ {Pick(s)}]]

LEMMA SumByTable ==
  ASSUME NEW w, NEW S
  PROVE  SumFunctionOnSet(w, S) = (CHOOSE f : IsSumTable(f, w, SUBSET S))[S]
BY DEF SumFunctionOnSet, FoldFunctionOnSet, MapThenFoldSet, IsSumTable, Pick

LEMMA PickRemoved ==
  ASSUME NEW s, IsFiniteSet(s), s # {}
  PROVE  /\ Pick(s) \in s /\ IsFiniteSet(s \ {Pick(s)})
         /\ Cardinality(s) \in Nat \ {0} /\ Cardinality(s \ {Pick(s)}) = Cardinality(s) - 1
<1>1. Pick(s) \in s
  BY DEF Pick
<1>2. Cardinality(s) \in Nat /\ Cardinality(s) # 0
  BY FS_CardinalityType, FS_EmptySet
<1> QED BY <1>1, <1>2, FS_RemoveElement

(* Such tables exist, since one for the sets of at most n - 1 members      *)
(* gives one for those of at most n.                                       *)
LEMMA SumTableExists ==
  ASSUME NEW U, IsFiniteSet(U), NEW w
  PROVE  \E f : IsSumTable(f, w, SUBSET U)
<1> DEFINE Small(n) == {s \in SUBSET U : Cardinality(s) <= n}
           Without == {n \in Nat : \A f : ~IsSumTable(f, w, Small(n))}
<1>1. \A s \in SUBSET U : IsFiniteSet(s) /\ Cardinality(s) \in Nat /\ Cardinality(s) <= Cardinality(U)
  BY FS_Subset, FS_CardinalityType
<1>2. ASSUME NEW n \in Without, \A m \in Without : n <= m PROVE FALSE
  <2>1. CASE n = 0
    <3>1. \A s \in Small(0) : s = {}
      <4> SUFFICES ASSUME NEW s \in Small(0) PROVE s = {}
        OBVIOUS
      <4>1. IsFiniteSet(s) /\ Cardinality(s) = 0
        BY <1>1
      <4> QED BY <4>1, FS_EmptySet
    <3> DEFINE f == [s \in Small(0) |-> 0]
    <3> HIDE DEF Small
    <3>2. IsSumTable(f, w, Small(0))
      BY <3>1 DEF IsSumTable
    <3> QED BY <2>1, <3>2
  <2>2. CASE n # 0
    <3>1. n - 1 \in Nat /\ n - 1 \notin Without
      <4>1. n \in Nat /\ n - 1 \in Nat
        BY <2>2
      <4> HIDE DEF Without
      <4> QED BY <1>2, <4>1
    <3>2. PICK g : IsSumTable(g, w, Small(n - 1))
      BY <3>1
    <3> DEFINE f == [s \in Small(n) |-> IF s = {} THEN 0 ELSE w[Pick(s)] + g[s \ {Pick(s)}]]
    <3>3. \A s \in Small(n) : s # {} => s \ {Pick(s)} \in Small(n - 1)
      <4> SUFFICES ASSUME NEW s \in Small(n), s # {} PROVE s \ {Pick(s)} \in Small(n - 1)
        OBVIOUS
      <4>1. IsFiniteSet(s) /\ Cardinality(s) \in Nat /\ Cardinality(s) <= n
        BY <1>1
      <4>2. Cardinality(s \ {Pick(s)}) = Cardinality(s) - 1
        BY <4>1, PickRemoved
      <4> QED BY <4>1, <4>2
    <3>4. Small(n - 1) \subseteq Small(n)
      BY <1>1
    <3> HIDE DEF Small
    <3>5. \A s \in Small(n - 1) : g[s] = f[s]
      BY <3>2, <3>4 DEF IsSumTable
    <3>6. IsSumTable(f, w, Small(n))
      BY <3>3, <3>5 DEF IsSumTable
    <3> QED BY <3>6
  <2> QED BY <2>1, <2>2
<1>3. Without = {}
  <2>1. Without \subseteq Nat
    OBVIOUS
  <2> HIDE DEF Without
  <2> QED BY <1>2, <2>1, LeastNumber
<1>4. Cardinality(U) \in Nat /\ Small(Cardinality(U)) = SUBSET U
  BY <1>1, FS_CardinalityType
<1> HIDE DEF Small
<1>5. Cardinality(U) \notin Without
  BY <1>3
<1>6. \E f : IsSumTable(f, w, Small(Cardinality(U)))
  BY <1>4, <1>5
<1> QED BY <1>4, <1>6

AgreeOn(f, g, D) == \A S \in D : f[S] = g[S]

LEMMA SumTablesAgree ==
  ASSUME NEW U, IsFiniteSet(U), NEW V \in SUBSET U, NEW w, NEW f, NEW g,
         IsSumTable(f, w, SUBSET U), IsSumTable(g, w, SUBSET V)
  PROVE  AgreeOn(f, g, SUBSET V)
<1> DEFINE Good == {S \in SUBSET V : f[S] = g[S]}
<1>1. ASSUME NEW S \in SUBSET V, \A x \in S : S \ {x} \in Good PROVE S \in Good
  <2>1. S # {} => Pick(S) \in S
    BY DEF Pick
  <2>2. S \in SUBSET U
    OBVIOUS
  <2>3. /\ f[S] = IF S = {} THEN 0 ELSE w[Pick(S)] + f[S \ {Pick(S)}]
        /\ g[S] = IF S = {} THEN 0 ELSE w[Pick(S)] + g[S \ {Pick(S)}]
    BY <2>2 DEF IsSumTable
  <2> QED BY <1>1, <2>1, <2>3
<1>2. IsFiniteSet(V)
  BY FS_Subset
<1> HIDE DEF Good
<1>3. \A S \in SUBSET V : S \in Good
  BY <1>1, <1>2, SubsetInduction
<1> QED BY <1>3 DEF Good, AgreeOn

LEMMA SumUnfold ==
  ASSUME NEW S, IsFiniteSet(S), NEW w
  PROVE  SumFunctionOnSet(w, S) =
           IF S = {} THEN 0 ELSE w[Pick(S)] + SumFunctionOnSet(w, S \ {Pick(S)})
<1> DEFINE T == S \ {Pick(S)}
           f == CHOOSE h : IsSumTable(h, w, SUBSET S)
           g == CHOOSE h : IsSumTable(h, w, SUBSET T)
<1>1. SumFunctionOnSet(w, S) = f[S] /\ SumFunctionOnSet(w, T) = g[T]
  BY SumByTable
<1>2. T \in SUBSET S /\ IsFiniteSet(T)
  BY FS_Subset
<1>3. IsSumTable(f, w, SUBSET S) /\ IsSumTable(g, w, SUBSET T)
  BY <1>2, SumTableExists
<1>5. f[S] = IF S = {} THEN 0 ELSE w[Pick(S)] + f[T]
  BY <1>3 DEF IsSumTable
<1> HIDE DEF f, g, T
<1>4. f[T] = g[T]
  <2>1. T \in SUBSET S /\ IsSumTable(f, w, SUBSET S) /\ IsSumTable(g, w, SUBSET T)
    BY <1>2, <1>3
  <2>2. AgreeOn(f, g, SUBSET T)
    BY <2>1, SumTablesAgree
  <2> QED BY <2>2 DEF AgreeOn
<1> QED BY <1>1, <1>4, <1>5 DEF T

(* Naturals add up to a natural, and any member may be taken first.        *)
LEMMA SumStep ==
  ASSUME NEW U, IsFiniteSet(U), NEW w, \A x \in U : w[x] \in Nat
  PROVE  \A S \in SUBSET U :
           /\ SumFunctionOnSet(w, S) \in Nat
           /\ S = {} => SumFunctionOnSet(w, S) = 0
           /\ \A x \in S : SumFunctionOnSet(w, S) = w[x] + SumFunctionOnSet(w, S \ {x})
<1> DEFINE sum(S) == SumFunctionOnSet(w, S)
           Good == {S \in SUBSET U :
                      /\ sum(S) \in Nat
                      /\ \A x \in S : sum(S \ {x}) \in Nat /\ sum(S) = w[x] + sum(S \ {x})}
<1>1. ASSUME NEW S \in SUBSET U PROVE sum(S) = IF S = {} THEN 0 ELSE w[Pick(S)] + sum(S \ {Pick(S)})
  BY SumUnfold, FS_Subset
<1> HIDE DEF sum
<1>2. ASSUME NEW S \in SUBSET U, \A x \in S : S \ {x} \in Good PROVE S \in Good
  <2>1. CASE S = {}
    BY <1>1, <2>1
  <2>2. CASE S # {}
    <3> DEFINE p == Pick(S)
    <3>1. p \in S /\ w[p] \in Nat /\ sum(S \ {p}) \in Nat /\ sum(S) = w[p] + sum(S \ {p})
      BY <1>1, <1>2, <2>2 DEF Pick
    <3> HIDE DEF p
    <3>2. ASSUME NEW x \in S, x # p
          PROVE  sum(S \ {x}) \in Nat /\ sum(S) = w[x] + sum(S \ {x})
      <4>1. x \in S \ {p} /\ S \ {p} \in Good
        BY <1>2, <3>1, <3>2
      <4>2. p \in S \ {x} /\ S \ {x} \in Good
        BY <1>2, <3>1, <3>2
      <4>3. sum(S \ {p}) = w[x] + sum((S \ {p}) \ {x}) /\ sum((S \ {p}) \ {x}) \in Nat
        BY <4>1
      <4>4. sum(S \ {x}) = w[p] + sum((S \ {x}) \ {p}) /\ sum(S \ {x}) \in Nat
        BY <4>2
      <4>5. (S \ {p}) \ {x} = (S \ {x}) \ {p} /\ w[x] \in Nat
        OBVIOUS
      <4> PICK n \in Nat : n = sum((S \ {p}) \ {x})
        BY <4>3
      <4>6. sum(S \ {p}) = w[x] + n
        BY <4>3
      <4>7. sum(S \ {x}) = w[p] + n
        BY <4>4, <4>5
      <4> HIDE DEF Good
      <4> QED BY <3>1, <4>4, <4>5, <4>6, <4>7
    <3> QED BY <3>1, <3>2
  <2> QED BY <2>1, <2>2
<1> HIDE DEF Good
<1>3. \A S \in SUBSET U : S \in Good
  BY <1>2, SubsetInduction
<1>4. sum({}) = 0
  BY <1>1
<1> QED BY <1>3, <1>4 DEF Good, sum

(* More members, no smaller sum.                                           *)
LEMMA SumMonotone ==
  ASSUME NEW U, IsFiniteSet(U), NEW w, \A x \in U : w[x] \in Nat,
         NEW S \in SUBSET U, NEW T \in SUBSET S
  PROVE  SumFunctionOnSet(w, T) <= SumFunctionOnSet(w, S)
<1> DEFINE sum(R) == SumFunctionOnSet(w, R)
           Good == {R \in SUBSET U : T \subseteq R => sum(T) <= sum(R)}
<1>1. \A R \in SUBSET U : sum(R) \in Nat /\ \A x \in R : sum(R) = w[x] + sum(R \ {x})
  BY SumStep
<1> HIDE DEF sum
<1>2. ASSUME NEW R \in SUBSET U, \A x \in R : R \ {x} \in Good PROVE R \in Good
  <2>1. CASE T = R
    BY <1>1, <2>1
  <2>2. CASE T \subseteq R /\ T # R
    <3>1. PICK x \in R : x \notin T
      BY <2>2
    <3>2. R \ {x} \in Good /\ T \subseteq R \ {x} /\ w[x] \in Nat
      BY <1>2, <2>2, <3>1
    <3>3. sum(T) <= sum(R \ {x})
      BY <3>2
    <3>4. sum(R) = w[x] + sum(R \ {x}) /\ sum(R \ {x}) \in Nat /\ sum(T) \in Nat
      BY <1>1, <3>2
    <3>5. sum(T) <= sum(R)
      BY <3>2, <3>3, <3>4
    <3> QED BY <3>5
  <2> QED BY <2>1, <2>2
<1> HIDE DEF Good
<1>3. \A R \in SUBSET U : R \in Good
  BY <1>2, SubsetInduction
<1> QED BY <1>3 DEF Good, sum

(* Only the weights of the members matter.                                 *)
LEMMA SumAgree ==
  ASSUME NEW U, IsFiniteSet(U), NEW w, NEW v,
         \A x \in U : w[x] \in Nat /\ v[x] = w[x]
  PROVE  SumFunctionOnSet(v, U) = SumFunctionOnSet(w, U)
<1> DEFINE sw(R) == SumFunctionOnSet(w, R)
           sv(R) == SumFunctionOnSet(v, R)
           Good == {R \in SUBSET U : sv(R) = sw(R)}
<1>1. \A R \in SUBSET U : /\ R = {} => sw(R) = 0
                          /\ \A x \in R : sw(R) = w[x] + sw(R \ {x})
  BY SumStep
<1>2. \A R \in SUBSET U : /\ R = {} => sv(R) = 0
                          /\ \A x \in R : sv(R) = v[x] + sv(R \ {x})
  BY SumStep
<1> HIDE DEF sw, sv
<1>3. ASSUME NEW R \in SUBSET U, \A x \in R : R \ {x} \in Good PROVE R \in Good
  <2>1. CASE R = {}
    BY <1>1, <1>2, <2>1
  <2>2. CASE R # {}
    BY <1>1, <1>2, <1>3, <2>2
  <2> QED BY <2>1, <2>2
<1> HIDE DEF Good
<1>4. \A R \in SUBSET U : R \in Good
  BY <1>3, SubsetInduction
<1> QED BY <1>4 DEF Good, sw, sv

(* The sum over two sets that share nothing.                               *)
Additive(w, U) ==
  \A S, T \in SUBSET U : S \cap T = {} =>
    SumFunctionOnSet(w, S \cup T) = SumFunctionOnSet(w, S) + SumFunctionOnSet(w, T)

LEMMA SumUnion ==
  ASSUME NEW U, IsFiniteSet(U), NEW w, \A x \in U : w[x] \in Nat
  PROVE  Additive(w, U)
<1> SUFFICES ASSUME NEW S \in SUBSET U, NEW T \in SUBSET U, S \cap T = {}
             PROVE  SumFunctionOnSet(w, S \cup T) = SumFunctionOnSet(w, S) + SumFunctionOnSet(w, T)
  BY DEF Additive
<1> DEFINE sum(R) == SumFunctionOnSet(w, R)
           Good == {R \in SUBSET U : R \cap T = {} => sum(R \cup T) = sum(R) + sum(T)}
<1>1. \A R \in SUBSET U : /\ sum(R) \in Nat
                          /\ R = {} => sum(R) = 0
                          /\ \A x \in R : sum(R) = w[x] + sum(R \ {x})
  BY SumStep
<1> HIDE DEF sum
<1>2. ASSUME NEW R \in SUBSET U, \A x \in R : R \ {x} \in Good PROVE R \in Good
  <2>1. CASE R = {}
    <3>1. R \cup T = T /\ sum(R) = 0 /\ sum(T) \in Nat
      BY <1>1, <2>1
    <3>2. sum(R \cup T) = sum(R) + sum(T)
      BY <3>1
    <3> QED BY <3>2
  <2>2. CASE R # {} /\ R \cap T = {}
    <3>1. PICK x \in R : TRUE
      BY <2>2
    <3> DEFINE Q == R \ {x}
    <3>2. Q \in SUBSET U /\ Q \in Good /\ Q \cap T = {} /\ w[x] \in Nat
      BY <1>2, <2>2
    <3>3. sum(Q \cup T) = sum(Q) + sum(T)
      BY <3>2
    <3>4. (R \cup T) \in SUBSET U /\ x \in R \cup T /\ (R \cup T) \ {x} = Q \cup T
      BY <2>2
    <3>5. sum(R \cup T) = w[x] + sum(Q \cup T) /\ sum(R) = w[x] + sum(Q)
      BY <1>1, <3>4
    <3>6. sum(Q) \in Nat /\ sum(T) \in Nat
      BY <1>1, <3>2
    <3>7. sum(R \cup T) = sum(R) + sum(T)
      BY <3>2, <3>3, <3>5, <3>6
    <3> QED BY <3>7
  <2> QED BY <2>1, <2>2
<1> HIDE DEF Good
<1>3. \A R \in SUBSET U : R \in Good
  BY <1>2, SubsetInduction
<1> QED BY <1>3 DEF Good, sum
-----------------------------------------------------------------------------
(* The places *)

RecordType == [address : Addresses, direction : {"ingress", "egress"}, packets : Nat, timestamp : Int]

(* Records that were given the place the database has for their address.   *)
Placed == {r \in Enriched : r.place = PlaceOf[r.record.address]}

CacheSound ==
  /\ cache \in Seq([address : Addresses, place : PlaceType])
  /\ Len(cache) <= CacheSize
  /\ \A i, j \in DOMAIN cache : cache[i].address = cache[j].address => i = j
  /\ \A i \in DOMAIN cache : cache[i].place = PlaceOf[cache[i].address]

(* What handler h has of its batch.                                        *)
InProgress(h) ==
  LET e == handler[h].enriched
      records == handler[h].post.records IN
  /\ Len(e) <= Len(records)
  /\ \A i \in 1 .. Len(e) : e[i].record = records[i]
  /\ At(h, "get") \/ At(h, "add") => handler[h].post \in Posts /\ Len(e) < Len(records)

PlacesKnown ==
  /\ CacheSound
  /\ handler \in [Handlers -> [at : {"idle", "get", "add", "push", "insert", "accepted", "failed"},
                               post : Posts \cup {NoPost}, enriched : Seq(Placed)]]
  /\ \A h \in Handlers : InProgress(h)
  /\ flows \in Seq(Placed)
  /\ recent \in Seq(Placed) /\ Len(recent) <= Capacity
  /\ view \in [Viewers -> Seq(Placed)]
  /\ clock \in 0 .. MaxClock

LEMMA RecordsTyped ==
  /\ \A p \in Posts \cup {NoPost} : p.records \in Seq(FlowRecords)
  /\ FlowRecords \subseteq RecordType
<1>1. ASSUME NEW p \in Posts PROVE p.records \in Seq(FlowRecords)
  <2>1. p.records \in Seq(RecordType)
    BY PostsAssumption DEF RecordType, Addresses
  <2>2. p.records \in [1 .. Len(p.records) -> RecordType] /\ Len(p.records) \in Nat
    BY <2>1
  <2>3. \A i \in 1 .. Len(p.records) : p.records[i] \in FlowRecords
    BY <1>1, <2>2 DEF FlowRecords, ToSet
  <2> QED BY <2>2, <2>3
<1>2. NoPost.records \in Seq(FlowRecords)
  BY DEF NoPost
<1>3. ASSUME NEW p \in Posts PROVE ToSet(p.records) \subseteq RecordType
  <2>1. p.records \in Seq(RecordType)
    BY PostsAssumption DEF RecordType, Addresses
  <2> QED BY <2>1 DEF ToSet
<1> QED BY <1>1, <1>2, <1>3 DEF FlowRecords

LEMMA PlacedTyped ==
  ASSUME NEW r \in Placed
  PROVE  /\ r.record \in RecordType /\ r.place \in PlaceType /\ r.agent \in Agents
         /\ r.record.packets \in Nat /\ r.record.address \in Addresses
         /\ r.place = PlaceOf[r.record.address]
         /\ Point(r) \in PointType /\ LivePoint(r) \in LivePointType
<1>1. r \in Enriched /\ r.place = PlaceOf[r.record.address]
  BY DEF Placed
<1>2. r.record \in RecordType
  BY <1>1, RecordsTyped DEF Enriched
<1>3. r.place \in PlaceType
  BY <1>1, <1>2 DEF PlaceType, RecordType
<1> QED BY <1>1, <1>2, <1>3 DEF Enriched, RecordType, Point, LivePoint, PointType, LivePointType

LEMMA InitPlaces == Init => PlacesKnown
<1> SUFFICES ASSUME Init PROVE PlacesKnown
  OBVIOUS
<1> USE DEF Init, Buffer!Init
<1>1. CacheSound
  BY SizeAssumption DEF CacheSound
<1>2. \A h \in Handlers : InProgress(h)
  BY DEF InProgress, At, NoPost
<1> QED BY <1>1, <1>2, SizeAssumption DEF PlacesKnown

(* The cache after an address was used or added.                           *)
LEMMA UsedSound ==
  ASSUME CacheSound, NEW a \in Addresses
  PROVE  /\ Used(a, PlaceOf[a]) \in Seq([address : Addresses, place : PlaceType])
         /\ Len(Used(a, PlaceOf[a])) <= CacheSize
         /\ \A i, j \in DOMAIN Used(a, PlaceOf[a]) :
              Used(a, PlaceOf[a])[i].address = Used(a, PlaceOf[a])[j].address => i = j
         /\ \A i \in DOMAIN Used(a, PlaceOf[a]) :
              Used(a, PlaceOf[a])[i].place = PlaceOf[Used(a, PlaceOf[a])[i].address]
<1> DEFINE Entry == [address : Addresses, place : PlaceType]
           o == Others(a)
           k == Least(Len(o), CacheSize - 1)
           u == Used(a, PlaceOf[a])
           new == [address |-> a, place |-> PlaceOf[a]]
<1>1. /\ o \in Seq(Entry)
      /\ \A i, j \in 1 .. Len(o) : o[i].address = o[j].address => i = j
      /\ \A i \in 1 .. Len(o) : o[i].place = PlaceOf[o[i].address] /\ o[i].address # a
  <2>0. cache \in Seq(Entry)
    BY DEF CacheSound
  <2>1. CASE ~Cached(a)
    BY <2>0, <2>1 DEF CacheSound, Others, Cached
  <2>2. CASE Cached(a)
    <3> DEFINE p == PositionOf(a)
               s1 == SubSeq(cache, 1, p - 1)
               s2 == SubSeq(cache, p + 1, Len(cache))
    <3>1. p \in 1 .. Len(cache) /\ cache[p].address = a
      BY <2>0, <2>2 DEF PositionOf, Cached
    <3>2. o = s1 \o s2
      BY <2>2 DEF Others, RemoveAt
    <3> HIDE DEF p
    <3>0. p \in Nat /\ 1 <= p /\ p <= Len(cache) /\ Len(cache) \in Nat /\ DOMAIN cache = 1 .. Len(cache)
      <4> HIDE DEF Entry
      <4> QED BY <2>0, <3>1
    <3>11. \A i \in 1 .. Len(cache) : cache[i] \in Entry
      <4> HIDE DEF Entry
      <4> QED BY <2>0
    <3>3. /\ s1 \in Seq(Entry) /\ Len(s1) = p - 1
          /\ \A i \in 1 .. p - 1 : s1[i] = cache[i]
      <4>1. \A i \in 1 .. p - 1 : cache[i] \in Entry
        <5> HIDE DEF Entry
        <5> QED BY <3>0, <3>11
      <4>2. 1 \in Int /\ p - 1 \in Int
        BY <3>0
      <4> HIDE DEF Entry
      <4> QED BY <4>1, <4>2, <3>0, SubSeqProperties
    <3>4. /\ s2 \in Seq(Entry) /\ Len(s2) = Len(cache) - p
          /\ \A i \in 1 .. Len(cache) - p : s2[i] = cache[p + i]
      <4>1. \A i \in p + 1 .. Len(cache) : cache[i] \in Entry
        <5> HIDE DEF Entry
        <5> QED BY <3>0, <3>11
      <4>2. p + 1 \in Int /\ Len(cache) \in Int /\ p \in Nat /\ p <= Len(cache)
        BY <3>0
      <4> HIDE DEF Entry
      <4>3. /\ s2 \in Seq(Entry) /\ Len(s2) = IF p + 1 <= Len(cache) THEN Len(cache) - (p + 1) + 1 ELSE 0
            /\ \A i \in 1 .. Len(cache) - (p + 1) + 1 : s2[i] = cache[p + 1 + i - 1]
        BY <4>1, <4>2, SubSeqProperties
      <4> HIDE DEF s2
      <4> QED BY <4>2, <4>3
    <3> HIDE DEF s1, s2
    <3>5. /\ o \in Seq(Entry) /\ Len(o) = Len(cache) - 1
          /\ \A i \in 1 .. Len(o) : o[i] = IF i < p THEN cache[i] ELSE cache[i + 1]
      <4>1. /\ s1 \o s2 \in Seq(Entry) /\ Len(s1 \o s2) = Len(s1) + Len(s2)
            /\ \A i \in 1 .. Len(s1) + Len(s2) :
                 (s1 \o s2)[i] = IF i <= Len(s1) THEN s1[i] ELSE s2[i - Len(s1)]
        <5> HIDE DEF Entry
        <5> QED BY <3>3, <3>4, ConcatProperties
      <4> HIDE DEF Entry
      <4>2. Len(o) = Len(cache) - 1 /\ Len(cache) \in Nat
        BY <2>0, <3>1, <3>2, <3>3, <3>4, <4>1
      <4>3. ASSUME NEW i \in 1 .. Len(o) PROVE o[i] = IF i < p THEN cache[i] ELSE cache[i + 1]
        <5>1. CASE i < p
          BY <3>1, <3>2, <3>3, <3>4, <4>1, <4>2, <5>1
        <5>2. CASE i >= p
          <6>1. i - (p - 1) \in 1 .. Len(cache) - p /\ p + (i - (p - 1)) = i + 1
            BY <3>1, <4>2, <5>2
          <6>2. o[i] = s2[i - (p - 1)]
            BY <3>1, <3>2, <3>3, <3>4, <4>1, <4>2, <5>2
          <6> QED BY <3>4, <3>1, <5>2, <6>1, <6>2
        <5> QED BY <3>1, <5>1, <5>2
      <4> QED BY <3>2, <4>1, <4>2, <4>3
    <3> DEFINE q(i) == IF i < p THEN i ELSE i + 1
    <3>6. ASSUME NEW i \in 1 .. Len(o)
          PROVE  q(i) \in 1 .. Len(cache) /\ q(i) # p /\ o[i] = cache[q(i)]
      BY <2>0, <3>1, <3>5
    <3>7. ASSUME NEW i \in 1 .. Len(o), NEW j \in 1 .. Len(o), q(i) = q(j) PROVE i = j
      BY <2>0, <3>1, <3>5, <3>7
    <3> HIDE DEF q, o, Entry
    <3>8. /\ \A i, j \in 1 .. Len(cache) : cache[i].address = cache[j].address => i = j
          /\ \A i \in 1 .. Len(cache) : cache[i].place = PlaceOf[cache[i].address]
      BY <3>0 DEF CacheSound
    <3>9. ASSUME NEW i \in 1 .. Len(o), NEW j \in 1 .. Len(o), o[i].address = o[j].address PROVE i = j
      BY <3>6, <3>7, <3>8, <3>9
    <3>10. ASSUME NEW i \in 1 .. Len(o) PROVE o[i].place = PlaceOf[o[i].address] /\ o[i].address # a
      BY <3>0, <3>1, <3>6, <3>8
    <3> QED BY <3>5, <3>9, <3>10
  <2> QED BY <2>1, <2>2
<1>2. new \in Entry
  BY DEF PlaceType
<1>3. k \in Nat /\ k <= Len(o) /\ k <= CacheSize - 1 /\ Len(o) \in Nat
  BY <1>1, SizeAssumption DEF Least
<1> DEFINE s == SubSeq(o, 1, k)
<1>4. s \in Seq(Entry) /\ Len(s) = k /\ \A i \in 1 .. k : s[i] = o[i]
  <2> HIDE DEF Entry, o, k
  <2>1. \A i \in 1 .. k : o[i] \in Entry
    BY <1>1, <1>3
  <2> QED BY <1>3, <2>1, SubSeqProperties
<1>5. u = <<new>> \o s
  BY DEF Used
<1> HIDE DEF s, k, o, new, Entry
<1>6. <<new>> \in Seq(Entry) /\ Len(<<new>>) = 1 /\ <<new>>[1] = new
  BY <1>2
<1>7. u \in Seq(Entry) /\ Len(u) = 1 + k
      /\ \A i \in 1 .. 1 + k : u[i] = IF i = 1 THEN new ELSE o[i - 1]
  <2>1. /\ u \in Seq(Entry) /\ Len(u) = 1 + k
        /\ \A i \in 1 .. 1 + k : u[i] = IF i <= 1 THEN <<new>>[i] ELSE s[i - 1]
    <3> HIDE DEF u
    <3> QED BY <1>3, <1>4, <1>5, <1>6, ConcatProperties
  <2> HIDE DEF u
  <2> QED BY <1>3, <1>4, <1>6, <2>1
<1> HIDE DEF u
<1>8. DOMAIN u = 1 .. 1 + k
  BY <1>7, LenProperties
<1>9. \A i \in 1 .. 1 + k : i # 1 => i - 1 \in 1 .. Len(o)
  BY <1>3
<1>10. new.address = a /\ new.place = PlaceOf[a]
  BY DEF new
<1>11. ASSUME NEW i \in 1 .. 1 + k, NEW j \in 1 .. 1 + k, u[i].address = u[j].address PROVE i = j
  <2>1. CASE i = 1 /\ j = 1
    BY <2>1
  <2>2. CASE i = 1 /\ j # 1
    BY <1>1, <1>7, <1>9, <1>10, <1>11, <2>2
  <2>3. CASE i # 1 /\ j = 1
    BY <1>1, <1>7, <1>9, <1>10, <1>11, <2>3
  <2>4. CASE i # 1 /\ j # 1
    <3>1. i - 1 \in 1 .. Len(o) /\ j - 1 \in 1 .. Len(o) /\ o[i - 1].address = o[j - 1].address
      BY <1>7, <1>9, <1>11, <2>4
    <3>2. i - 1 = j - 1
      BY <1>1, <3>1
    <3> QED BY <1>3, <3>2
  <2> QED BY <2>1, <2>2, <2>3, <2>4
<1>12. ASSUME NEW i \in 1 .. 1 + k PROVE u[i].place = PlaceOf[u[i].address]
  <2>1. CASE i = 1
    BY <1>7, <1>10, <2>1
  <2>2. CASE i # 1
    BY <1>1, <1>7, <1>9, <2>2
  <2> QED BY <2>1, <2>2
<1>13. 1 + k <= CacheSize
  BY <1>3, SizeAssumption
<1> QED BY <1>7, <1>8, <1>11, <1>12, <1>13 DEF u, Entry

HandlerType == [at : {"idle", "get", "add", "push", "insert", "accepted", "failed"},
                post : Posts \cup {NoPost}, enriched : Seq(Placed)]

(* A handler that moves on leaves the others where they are.               *)
LEMMA OneHandler ==
  ASSUME PlacesKnown, NEW h \in Handlers, NEW new \in HandlerType,
         handler' = [handler EXCEPT ![h] = new],
         LET e == new.enriched
             records == new.post.records IN
         /\ Len(e) <= Len(records)
         /\ \A i \in 1 .. Len(e) : e[i].record = records[i]
         /\ new.at \in {"get", "add"} => new.post \in Posts /\ Len(e) < Len(records)
  PROVE  handler' \in [Handlers -> HandlerType] /\ \A g \in Handlers : InProgress(g)'
<1>1. handler \in [Handlers -> HandlerType]
  BY DEF PlacesKnown, HandlerType
<1>2. handler'[h] = new /\ \A g \in Handlers \ {h} : handler'[g] = handler[g]
  BY <1>1
<1>3. handler' \in [Handlers -> HandlerType]
  BY <1>1
<1>4. ASSUME NEW g \in Handlers, g # h PROVE InProgress(g)'
  <2>1. InProgress(g)
    BY DEF PlacesKnown
  <2>2. handler'[g] = handler[g]
    BY <1>2, <1>4
  <2> QED BY <2>1, <2>2 DEF InProgress, At
<1>5. InProgress(h)'
  BY <1>2 DEF InProgress, At
<1> QED BY <1>3, <1>4, <1>5

(* What h has got, and the record it looks at next.                        *)
LEMMA CurrentKnown ==
  ASSUME PlacesKnown, NEW h \in Handlers, handler[h].at \in {"get", "add"}
  PROVE  /\ handler[h] \in HandlerType /\ handler[h].post \in Posts
         /\ handler[h].post.records \in Seq(FlowRecords)
         /\ handler[h].enriched \in Seq(Placed)
         /\ Len(handler[h].enriched) < Len(handler[h].post.records)
         /\ \A i \in 1 .. Len(handler[h].enriched) :
              handler[h].enriched[i].record = handler[h].post.records[i]
         /\ Current(h) \in FlowRecords /\ Current(h).address \in Addresses
<1>1. handler[h] \in HandlerType /\ InProgress(h)
  BY DEF PlacesKnown, HandlerType
<1> DEFINE e == handler[h].enriched
           records == handler[h].post.records
<1>2. handler[h].post \in Posts /\ records \in Seq(FlowRecords) /\ e \in Seq(Placed)
  BY <1>1, RecordsTyped DEF InProgress, At, HandlerType
<1>3. /\ Len(e) < Len(records)
      /\ \A i \in 1 .. Len(e) : e[i].record = records[i]
  BY <1>1 DEF InProgress, At
<1> HIDE DEF e, records
<1>4. Len(e) + 1 \in 1 .. Len(records)
  BY <1>2, <1>3
<1>5. records[Len(e) + 1] \in FlowRecords
  BY <1>2, <1>4
<1>6. Current(h) = records[Len(e) + 1]
  BY DEF Current, e, records
<1>7. Current(h).address \in Addresses
  BY <1>5, <1>6, RecordsTyped DEF RecordType
<1> QED BY <1>1, <1>2, <1>3, <1>5, <1>6, <1>7 DEF e, records

LEMMA LocateKeeps ==
  ASSUME PlacesKnown, NEW h \in Handlers, handler[h].at \in {"get", "add"},
         Locate(h, PlaceOf[Current(h).address])
  PROVE  handler' \in [Handlers -> HandlerType] /\ \A g \in Handlers : InProgress(g)'
<1> DEFINE e == handler[h].enriched
           records == handler[h].post.records
           one == [agent |-> handler[h].post.agent, record |-> Current(h),
                   place |-> PlaceOf[Current(h).address]]
           all == Append(e, one)
           at == IF Len(all) = Len(records) THEN "push" ELSE "get"
           new == [handler[h] EXCEPT !.enriched = all, !.at = at]
<1>1. handler' = [handler EXCEPT ![h] = new]
  BY DEF Locate
<1>2. /\ handler[h] \in HandlerType /\ handler[h].post \in Posts /\ records \in Seq(FlowRecords)
      /\ e \in Seq(Placed) /\ Len(e) < Len(records)
      /\ \A i \in 1 .. Len(e) : e[i].record = records[i]
      /\ Current(h) \in FlowRecords /\ Current(h).address \in Addresses
  BY CurrentKnown
<1>3. one \in Placed /\ one.record = records[Len(e) + 1]
  BY <1>2 DEF Placed, Enriched, Agents, Current
<1>4. /\ all \in Seq(Placed) /\ Len(all) = Len(e) + 1
      /\ \A i \in 1 .. Len(e) : all[i] = e[i]
      /\ all[Len(e) + 1] = one
  <2> HIDE DEF e, one
  <2> QED BY <1>2, <1>3, AppendProperties
<1>5. new \in HandlerType /\ new.enriched = all /\ new.post = handler[h].post /\ new.at = at
  <2> HIDE DEF all
  <2> QED BY <1>2, <1>4 DEF HandlerType
<1> HIDE DEF all, one, e, records, new
<1>6. Len(e) \in Nat /\ Len(records) \in Nat
  BY <1>2
<1>7. /\ Len(all) <= Len(records)
      /\ \A i \in 1 .. Len(all) : all[i].record = records[i]
      /\ at = "get" => Len(all) < Len(records)
      /\ at # "add"
  <2>1. ASSUME NEW i \in 1 .. Len(all) PROVE all[i].record = records[i]
    <3>1. CASE i = Len(e) + 1
      BY <1>3, <1>4, <3>1
    <3>2. CASE i # Len(e) + 1
      BY <1>2, <1>4, <1>6, <3>2
    <3> QED BY <3>1, <3>2
  <2> QED BY <1>2, <1>4, <1>6, <2>1
<1>8. /\ Len(new.enriched) <= Len(new.post.records)
      /\ \A i \in 1 .. Len(new.enriched) : new.enriched[i].record = new.post.records[i]
      /\ new.at \in {"get", "add"} => new.post \in Posts /\ Len(new.enriched) < Len(new.post.records)
  BY <1>2, <1>5, <1>7 DEF records
<1> QED BY <1>1, <1>5, <1>8, OneHandler

LEMMA NewestPlaced ==
  ASSUME NEW s \in Seq(Placed)
  PROVE  Buffer!Newest(s) \in Seq(Placed) /\ Len(Buffer!Newest(s)) <= Capacity
<1>1. CASE Len(s) <= Capacity
  BY <1>1 DEF Buffer!Newest
<1>2. CASE ~(Len(s) <= Capacity)
  <2> DEFINE m == Len(s) - Capacity + 1
  <2>1. Len(s) \in Nat /\ Capacity \in Nat /\ m \in Int /\ m >= 1 /\ m <= Len(s)
    BY <1>2, SizeAssumption
  <2>2. \A i \in m .. Len(s) : s[i] \in Placed
    BY <2>1
  <2>3. /\ SubSeq(s, m, Len(s)) \in Seq(Placed)
        /\ Len(SubSeq(s, m, Len(s))) = Len(s) - m + 1
    <3> HIDE DEF m
    <3> QED BY <2>1, <2>2, SubSeqProperties
  <2>4. Len(s) - m + 1 = Capacity
    BY <2>1
  <2> QED BY <1>2, <2>1, <2>3, <2>4 DEF Buffer!Newest
<1> QED BY <1>1, <1>2

(* A cached place is the one the database has.                             *)
LEMMA CachedIsRight ==
  ASSUME CacheSound, NEW a \in Addresses, Cached(a)
  PROVE  CachedPlace(a) = PlaceOf[a]
BY DEF CacheSound, Cached, CachedPlace, PositionOf

LEMMA CacheKept ==
  ASSUME CacheSound, UNCHANGED cache
  PROVE  CacheSound'
BY DEF CacheSound

LEMMA CacheUsed ==
  ASSUME CacheSound, NEW a \in Addresses, cache' = Used(a, PlaceOf[a])
  PROVE  CacheSound'
<1> DEFINE u == Used(a, PlaceOf[a])
<1>1. /\ u \in Seq([address : Addresses, place : PlaceType])
      /\ Len(u) <= CacheSize
      /\ \A i, j \in DOMAIN u : u[i].address = u[j].address => i = j
      /\ \A i \in DOMAIN u : u[i].place = PlaceOf[u[i].address]
  BY UsedSound
<1>2. cache' = u
  OBVIOUS
<1> HIDE DEF u
<1> QED BY <1>1, <1>2 DEF CacheSound

LEMMA IngestPlaces ==
  ASSUME PlacesKnown, NEW h \in Handlers, Ingest(h)
  PROVE  PlacesKnown'
<1>0. CacheSound /\ handler \in [Handlers -> HandlerType]
  BY DEF PlacesKnown, HandlerType
<1>1. ASSUME NEW p \in Posts, Post(h, p) PROVE PlacesKnown'
  <2> DEFINE new == [at |-> IF p.records = << >> THEN "push" ELSE "get", post |-> p, enriched |-> << >>]
  <2>1. handler' = [handler EXCEPT ![h] = new]
    BY <1>1 DEF Post
  <2>2. new \in HandlerType
    BY DEF HandlerType
  <2>3. p.records \in Seq(FlowRecords)
    BY RecordsTyped
  <2>4. /\ Len(new.enriched) <= Len(new.post.records)
        /\ \A i \in 1 .. Len(new.enriched) : new.enriched[i].record = new.post.records[i]
        /\ new.at \in {"get", "add"} => new.post \in Posts /\ Len(new.enriched) < Len(new.post.records)
    BY <2>3, EmptySeq
  <2> HIDE DEF new
  <2>5. handler' \in [Handlers -> HandlerType] /\ \A g \in Handlers : InProgress(g)'
    BY <2>1, <2>2, <2>4, OneHandler
  <2>6. UNCHANGED <<clock, cache, flows, recent, view>>
    BY <1>1 DEF Post, bufferVars
  <2> QED BY <1>0, <2>5, <2>6, CacheKept DEF PlacesKnown, HandlerType
<1>2. CASE Get(h)
  <2>1. h \in Handlers /\ handler[h].at \in {"get", "add"} /\ Current(h).address \in Addresses
    BY <1>2, CurrentKnown DEF Get, At
  <2>2. UNCHANGED <<clock, flows, recent, view>>
    BY <1>2 DEF Get, bufferVars
  <2>3. CASE Cached(Current(h).address)
    <3>1. CachedPlace(Current(h).address) = PlaceOf[Current(h).address]
      BY <1>0, <2>1, <2>3, CachedIsRight
    <3>2. /\ cache' = Used(Current(h).address, PlaceOf[Current(h).address])
          /\ Locate(h, PlaceOf[Current(h).address])
      BY <1>2, <2>3, <3>1 DEF Get
    <3>3. handler' \in [Handlers -> HandlerType] /\ \A g \in Handlers : InProgress(g)'
      BY <2>1, <3>2, LocateKeeps
    <3> QED BY <1>0, <2>1, <2>2, <3>2, <3>3, CacheUsed DEF PlacesKnown, HandlerType
  <2>4. CASE ~Cached(Current(h).address)
    <3> DEFINE new == [handler[h] EXCEPT !.at = "add"]
    <3>1. handler' = [handler EXCEPT ![h] = new] /\ UNCHANGED cache
      BY <1>2, <2>4 DEF Get
    <3>2. /\ handler[h] \in HandlerType /\ handler[h].post \in Posts
          /\ Len(handler[h].enriched) < Len(handler[h].post.records)
          /\ \A i \in 1 .. Len(handler[h].enriched) :
               handler[h].enriched[i].record = handler[h].post.records[i]
      BY <2>1, CurrentKnown
    <3>3. new \in HandlerType /\ new.enriched = handler[h].enriched /\ new.post = handler[h].post
      BY <3>2 DEF HandlerType
    <3>6. InProgress(h)
      BY DEF PlacesKnown
    <3> HIDE DEF new
    <3>4. /\ Len(new.enriched) <= Len(new.post.records)
          /\ \A i \in 1 .. Len(new.enriched) : new.enriched[i].record = new.post.records[i]
          /\ new.at \in {"get", "add"} => new.post \in Posts /\ Len(new.enriched) < Len(new.post.records)
      BY <3>2, <3>3, <3>6 DEF InProgress
    <3>5. handler' \in [Handlers -> HandlerType] /\ \A g \in Handlers : InProgress(g)'
      BY <3>1, <3>3, <3>4, OneHandler
    <3> QED BY <1>0, <2>2, <3>1, <3>5, CacheKept DEF PlacesKnown, HandlerType
  <2> QED BY <2>3, <2>4
<1>3. CASE Add(h)
  <2>1. handler[h].at \in {"get", "add"} /\ Current(h).address \in Addresses
    BY <1>3, CurrentKnown DEF Add, At
  <2>2. /\ cache' = Used(Current(h).address, PlaceOf[Current(h).address])
        /\ Locate(h, PlaceOf[Current(h).address])
        /\ UNCHANGED <<clock, flows, recent, view>>
    BY <1>3 DEF Add, KeyToAdd, bufferVars
  <2>3. handler' \in [Handlers -> HandlerType] /\ \A g \in Handlers : InProgress(g)'
    BY <2>1, <2>2, LocateKeeps
  <2> QED BY <1>0, <2>1, <2>2, <2>3, CacheUsed DEF PlacesKnown, HandlerType
<1>4. ASSUME NEW status \in {"insert", "accepted", "failed"}, At(h, "push") \/ At(h, "insert"),
             handler' = [handler EXCEPT ![h].at = status]
      PROVE  handler' \in [Handlers -> HandlerType] /\ \A g \in Handlers : InProgress(g)'
  <2> DEFINE new == [handler[h] EXCEPT !.at = status]
  <2>1. handler[h] \in HandlerType /\ InProgress(h)
    BY <1>0 DEF PlacesKnown
  <2>2. /\ new \in HandlerType /\ new.enriched = handler[h].enriched /\ new.post = handler[h].post
        /\ new.at = status
    BY <2>1 DEF HandlerType
  <2>4. handler' = [handler EXCEPT ![h] = new]
    BY <1>4
  <2> HIDE DEF new
  <2>3. /\ Len(new.enriched) <= Len(new.post.records)
        /\ \A i \in 1 .. Len(new.enriched) : new.enriched[i].record = new.post.records[i]
        /\ new.at \notin {"get", "add"}
    BY <2>1, <2>2 DEF InProgress
  <2> QED BY <2>2, <2>3, <2>4, OneHandler
<1>5. CASE Push(h)
  <2>1. handler' \in [Handlers -> HandlerType] /\ \A g \in Handlers : InProgress(g)'
    BY <1>4, <1>5 DEF Push
  <2>2. /\ recent' = Buffer!Newest(recent \o handler[h].enriched)
        /\ UNCHANGED <<clock, cache, flows, view>>
    BY <1>5 DEF Push, Buffer!Add
  <2>3. recent \in Seq(Placed) /\ handler[h].enriched \in Seq(Placed)
    BY <1>0 DEF PlacesKnown, HandlerType
  <2>4. recent \o handler[h].enriched \in Seq(Placed)
    BY <2>3
  <2>5. recent' \in Seq(Placed) /\ Len(recent') <= Capacity
    BY <2>2, <2>4, NewestPlaced
  <2> QED BY <1>0, <2>1, <2>2, <2>5, CacheKept DEF PlacesKnown, HandlerType
<1>6. CASE InsertBatch(h)
  <2>1. PICK committed \in BOOLEAN, status \in {"accepted", "failed"} :
          /\ flows' = IF committed THEN flows \o handler[h].enriched ELSE flows
          /\ handler' = [handler EXCEPT ![h].at = status]
    BY <1>6 DEF InsertBatch
  <2>2. UNCHANGED <<clock, cache, recent, view>> /\ At(h, "insert")
    BY <1>6 DEF InsertBatch, bufferVars
  <2>3. handler' \in [Handlers -> HandlerType] /\ \A g \in Handlers : InProgress(g)'
    BY <1>4, <2>1, <2>2
  <2>4. flows \in Seq(Placed) /\ handler[h].enriched \in Seq(Placed)
    BY <1>0 DEF PlacesKnown, HandlerType
  <2>5. flows' \in Seq(Placed)
    BY <2>1, <2>4
  <2> QED BY <1>0, <2>2, <2>3, <2>5, CacheKept DEF PlacesKnown, HandlerType
<1> QED BY <1>1, <1>2, <1>3, <1>5, <1>6 DEF Ingest

LEMMA ViewPlaces ==
  ASSUME PlacesKnown, NEW v \in Viewers, View(v)
  PROVE  PlacesKnown'
<1>1. UNCHANGED <<clock, cache, handler, flows, recent>> /\ view' \in [Viewers -> Seq(Placed)]
  BY DEF PlacesKnown, View, RealTimeGeoView, Buffer!Look, GeoViewByWindow, QueryFlowsSince,
         QueryTopNFlows, AggregateSummary, QueryFails, ingestVars, bufferVars
<1>2. \A h \in Handlers : InProgress(h)'
  BY <1>1 DEF PlacesKnown, InProgress, At
<1> QED BY <1>1, <1>2, CacheKept DEF PlacesKnown

LEMMA NextPlaces == PlacesKnown /\ [Next]_vars => PlacesKnown'
<1> SUFFICES ASSUME PlacesKnown, [Next]_vars PROVE PlacesKnown'
  OBVIOUS
<1>1. ASSUME UNCHANGED <<cache, handler, flows, recent, view>>, clock' \in 0 .. MaxClock
      PROVE  PlacesKnown'
  <2>1. \A h \in Handlers : InProgress(h)'
    BY <1>1 DEF PlacesKnown, InProgress, At
  <2> QED BY <1>1, <2>1, CacheKept DEF PlacesKnown
<1>2. CASE Tick
  BY <1>1, <1>2, SizeAssumption DEF Tick, PlacesKnown, ingestVars, bufferVars
<1>3. CASE UNCHANGED vars
  BY <1>1, <1>3 DEF vars, PlacesKnown, ingestVars, bufferVars
<1> QED BY <1>2, <1>3, IngestPlaces, ViewPlaces DEF Next

LEMMA PlacesInvariant == Spec => []PlacesKnown
BY InitPlaces, NextPlaces, PTL DEF Spec

(* Every record of the table, of the buffer and of a batch under way is    *)
(* at the place of its own address, in the order of its batch, whatever    *)
(* the handlers that share the cache evict and add meanwhile.              *)
THEOREM Transparent == Spec => []EnrichmentIsTransparent
<1>1. PlacesKnown => EnrichmentIsTransparent
  <2> SUFFICES ASSUME PlacesKnown PROVE EnrichmentIsTransparent
    OBVIOUS
  <2>1. handler \in [Handlers -> HandlerType]
    BY DEF PlacesKnown, HandlerType
  <2>2. Rows \subseteq Placed
    <3>1. \A s \in Seq(Placed) : ToSet(s) \subseteq Placed
      BY DEF ToSet
    <3>2. \A h \in Handlers : handler[h].enriched \in Seq(Placed)
      BY <2>1 DEF HandlerType
    <3> QED BY <3>1, <3>2 DEF PlacesKnown, Rows
  <2>3. ASSUME NEW h \in Handlers
        PROVE  LET e == handler[h].enriched IN
               [i \in DOMAIN e |-> e[i].record] = SubSeq(handler[h].post.records, 1, Len(e))
    <3> DEFINE e == handler[h].enriched
               records == handler[h].post.records
               s == SubSeq(records, 1, Len(e))
    <3>1. /\ e \in Seq(Placed) /\ Len(e) \in Nat /\ DOMAIN e = 1 .. Len(e)
          /\ Len(e) <= Len(records) /\ \A i \in 1 .. Len(e) : e[i].record = records[i]
          /\ records \in Seq(FlowRecords) /\ Len(records) \in Nat
      BY <2>1, RecordsTyped DEF PlacesKnown, InProgress, HandlerType
    <3> HIDE DEF e, records
    <3>2. \A i \in 1 .. Len(e) : records[i] \in FlowRecords
      BY <3>1
    <3>3. /\ s \in Seq(FlowRecords) /\ Len(s) = Len(e)
          /\ \A i \in 1 .. Len(e) : s[i] = records[i]
      BY <3>1, <3>2, SubSeqProperties
    <3> HIDE DEF s
    <3>4. s = [i \in 1 .. Len(e) |-> records[i]]
      BY <3>1, <3>3, LenProperties
    <3>5. [i \in DOMAIN e |-> e[i].record] = s
      BY <3>1, <3>4
    <3> QED BY <3>5 DEF e, records, s
  <2> QED BY <2>2, <2>3 DEF EnrichmentIsTransparent, Placed
<1> QED BY <1>1, PlacesInvariant, PTL

-----------------------------------------------------------------------------
(* Rows of the table, their totals and their groups *)

Weights(t) == [i \in 1 .. Len(t) |-> t[i].record.packets]
Of(t, X, g) == {i \in X : Group(t[i]) = g}
GroupsOf(t, X) == {Group(t[i]) : i \in X}

LEMMA TableFinite ==
  ASSUME NEW t \in Seq(Placed), NEW X \in SUBSET (1 .. Len(t))
  PROVE  /\ IsFiniteSet(1 .. Len(t)) /\ IsFiniteSet(X)
         /\ \A i \in 1 .. Len(t) : t[i] \in Placed /\ Weights(t)[i] \in Nat
<1>1. Len(t) \in Nat
  OBVIOUS
<1>2. IsFiniteSet(1 .. Len(t))
  BY <1>1, FS_Interval
<1>3. IsFiniteSet(X)
  BY <1>2, FS_Subset
<1> QED BY <1>2, <1>3, PlacedTyped DEF Weights

LEMMA PacketsOfRows ==
  ASSUME NEW t \in Seq(Placed), NEW X \in SUBSET (1 .. Len(t))
  PROVE  /\ Packets(Restrict(t, X)) = SumFunctionOnSet(Weights(t), X)
         /\ Packets(Restrict(t, X)) \in Nat
<1> DEFINE v == [i \in X |-> t[i].record.packets]
<1>1. [i \in DOMAIN Restrict(t, X) |-> Restrict(t, X)[i].record.packets] = v
  BY DEF Restrict
<1>2. Packets(Restrict(t, X)) = SumFunctionOnSet(v, X)
  BY <1>1 DEF Packets, SumFunction
<1>3. \A i \in X : Weights(t)[i] \in Nat /\ v[i] = Weights(t)[i]
  BY TableFinite DEF Weights
<1>4. IsFiniteSet(X)
  BY TableFinite
<1> HIDE DEF v
<1>5. SumFunctionOnSet(v, X) = SumFunctionOnSet(Weights(t), X)
  BY <1>3, <1>4, SumAgree
<1>6. SumFunctionOnSet(Weights(t), X) \in Nat
  BY <1>3, <1>4, SumStep
<1> QED BY <1>2, <1>5, <1>6

LEMMA GroupedRows ==
  ASSUME NEW t, NEW X, NEW g
  PROVE  /\ Grouped(Restrict(t, X), g) = Restrict(t, Of(t, X, g))
         /\ {Group(r) : r \in ToSet(Restrict(t, X))} = GroupsOf(t, X)
BY DEF Grouped, Restrict, Of, ToSet, GroupsOf

LEMMA GroupOf ==
  ASSUME NEW r, NEW q
  PROVE  SameGroup(Point(r), Point(q)) <=> Group(r) = Group(q)
BY DEF SameGroup, Point, Group

(* The points of a group carry what its rows carry.                        *)
LEMMA PointsOfRows ==
  ASSUME NEW t \in Seq(Placed), NEW X \in SUBSET (1 .. Len(t))
  PROVE  /\ PointPackets(Points(Restrict(t, X))) = SumFunctionOnSet(Weights(t), X)
         /\ \A i \in X : PointPackets(OfGroup(Points(Restrict(t, X)), Point(t[i])))
                           = SumFunctionOnSet(Weights(t), Of(t, X, Group(t[i])))
<1>1. ASSUME NEW Y \in SUBSET (1 .. Len(t)), NEW points, DOMAIN points = Y,
             \A i \in Y : points[i] = Point(t[i])
      PROVE  PointPackets(points) = SumFunctionOnSet(Weights(t), Y)
  <2>1. [i \in DOMAIN points |-> points[i].packets] = [i \in Y |-> t[i].record.packets]
    BY <1>1 DEF Point
  <2>2. [i \in DOMAIN Restrict(t, Y) |-> Restrict(t, Y)[i].record.packets] = [i \in Y |-> t[i].record.packets]
    BY DEF Restrict
  <2>3. PointPackets(points) = Packets(Restrict(t, Y))
    BY <2>1, <2>2 DEF PointPackets, Packets, SumFunction
  <2> QED BY <2>3, PacketsOfRows
<1> DEFINE points == Points(Restrict(t, X))
<1>2. DOMAIN points = X /\ \A i \in X : points[i] = Point(t[i])
  BY DEF Points, Restrict
<1> HIDE DEF points
<1>3. ASSUME NEW i \in X
      PROVE  PointPackets(OfGroup(points, Point(t[i]))) = SumFunctionOnSet(Weights(t), Of(t, X, Group(t[i])))
  <2> DEFINE Y == Of(t, X, Group(t[i]))
             some == OfGroup(points, Point(t[i]))
  <2>1. Y \in SUBSET (1 .. Len(t))
    BY DEF Of
  <2>2. {j \in DOMAIN points : SameGroup(points[j], Point(t[i]))} = Y
    BY <1>2, GroupOf DEF Of
  <2>3. DOMAIN some = Y /\ \A j \in Y : some[j] = Point(t[j])
    BY <1>2, <2>2 DEF OfGroup, Restrict, Of
  <2> HIDE DEF Y, some
  <2>4. PointPackets(some) = SumFunctionOnSet(Weights(t), Y)
    BY <1>1, <2>1, <2>3
  <2> QED BY <2>4 DEF Y, some
<1> QED BY <1>1, <1>2, <1>3 DEF points

(* A function has finitely many values on a finite set.                    *)
LEMMA FiniteImage ==
  ASSUME NEW S, IsFiniteSet(S), NEW f, DOMAIN f = S
  PROVE  IsFiniteSet({f[x] : x \in S})
<1> DEFINE T == {f[x] : x \in S}
           g == [x \in S |-> f[x]]
<1>1. g \in Surjection(S, T)
  BY DEF Surjection
<1> HIDE DEF g, T
<1> QED BY <1>1, FS_Surjection DEF T

LEMMA GroupsFinite ==
  ASSUME NEW t \in Seq(Placed), NEW X \in SUBSET (1 .. Len(t))
  PROVE  IsFiniteSet(GroupsOf(t, X))
<1> DEFINE f == [i \in X |-> Group(t[i])]
<1>1. GroupsOf(t, X) = {f[i] : i \in X} /\ DOMAIN f = X /\ IsFiniteSet(X)
  BY TableFinite DEF GroupsOf
<1> HIDE DEF f
<1> QED BY <1>1, FiniteImage

(* A ranking of a set names each of its members once, heavier ones first;  *)
(* what it leaves out is no heavier than what it names.                    *)
LEMMA RankedProperties ==
  ASSUME NEW S, IsFiniteSet(S), NEW weight, \A x \in S : weight[x] \in Nat,
         NEW n \in Nat, n <= Cardinality(S), NEW top \in Ranked(S, weight, n)
  PROVE  /\ top \in Seq(S) /\ Len(top) = n
         /\ \A i, j \in 1 .. n : top[i] = top[j] => i = j
         /\ \A x \in S : (\A i \in 1 .. n : top[i] # x) =>
              n < Cardinality(S) /\ \A i \in 1 .. n : weight[x] <= weight[top[i]]
<1> DEFINE N == Cardinality(S)
<1>1. PICK s \in SetToSeqs(S) : /\ \A i, j \in DOMAIN s : i < j => weight[s[i]] >= weight[s[j]]
                                /\ top = SubSeq(s, 1, n)
  BY DEF Ranked
<1>2. N \in Nat
  BY FS_CardinalityType
<1>3. s \in [1 .. N -> S] /\ \A i, j \in 1 .. N : i # j => s[i] # s[j]
  BY <1>1 DEF SetToSeqs
<1>4. \A x \in S : \E i \in 1 .. N : s[i] = x
  <2>1. s \in Injection(1 .. N, S)
    BY <1>3 DEF Injection, IsInjective
  <2>2. IsFiniteSet(1 .. N) /\ Cardinality(1 .. N) = N
    <3>1. 1 \in Int /\ N \in Int
      BY <1>2
    <3>2. IsFiniteSet(1 .. N) /\ Cardinality(1 .. N) = IF 1 > N THEN 0 ELSE N - 1 + 1
      <4> HIDE DEF N
      <4> QED BY <3>1, FS_Interval
    <3> HIDE DEF N
    <3> QED BY <1>2, <3>2
  <2>3. s \in Surjection(1 .. N, S)
    <3>1. Cardinality(1 .. N) = Cardinality(S)
      BY <2>2
    <3> HIDE DEF N
    <3> QED BY <2>1, <3>1, FS_Injection
  <2> HIDE DEF N
  <2> QED BY <2>3 DEF Surjection
<1>5. top \in Seq(S) /\ Len(top) = n /\ \A i \in 1 .. n : top[i] = s[i]
  <2>1. \A i \in 1 .. n : s[i] \in S
    BY <1>2, <1>3
  <2>2. Len(top) = (IF 1 <= n THEN n - 1 + 1 ELSE 0) /\ n - 1 + 1 = n
    BY <1>1, <2>1, SubSeqProperties
  <2> QED BY <1>1, <2>1, <2>2, SubSeqProperties
<1>8. n <= N
  OBVIOUS
<1> HIDE DEF N
<1>6. \A i, j \in 1 .. n : top[i] = top[j] => i = j
  BY <1>2, <1>3, <1>5, <1>8
<1>7. ASSUME NEW x \in S, \A i \in 1 .. n : top[i] # x
      PROVE  n < N /\ \A i \in 1 .. n : weight[x] <= weight[top[i]]
  <2>1. PICK j \in 1 .. N : s[j] = x
    BY <1>4
  <2>2. j \notin 1 .. n
    BY <1>5, <1>7, <2>1
  <2>3. n < j /\ n < N
    BY <1>2, <2>2, <1>8
  <2>4. DOMAIN s = 1 .. N
    BY <1>3
  <2>5. ASSUME NEW i \in 1 .. n PROVE weight[x] <= weight[top[i]]
    <3>1. i \in 1 .. N /\ i < j
      BY <1>2, <1>8, <2>3
    <3>2. weight[s[i]] >= weight[s[j]]
      BY <1>1, <2>4, <3>1
    <3>3. weight[s[i]] \in Nat /\ weight[s[j]] \in Nat
      BY <1>3, <3>1
    <3> QED BY <1>5, <2>1, <3>2, <3>3
  <2> QED BY <2>3, <2>5
<1> QED BY <1>5, <1>6, <1>7 DEF N

(* What is added up group by group is added up row by row.                 *)
LEMMA SumOfGroups ==
  ASSUME NEW t \in Seq(Placed), NEW X \in SUBSET (1 .. Len(t)), NEW L \in Nat, NEW s, NEW w,
         \A i, j \in 1 .. L : s[i] = s[j] => i = j,
         \A i \in 1 .. L : w[i] = SumFunctionOnSet(Weights(t), Of(t, X, s[i]))
  PROVE  /\ SumFunctionOnSet(w, 1 .. L) \in Nat
         /\ SumFunctionOnSet(w, 1 .. L) <= SumFunctionOnSet(Weights(t), X)
<1> DEFINE rows(I) == {k \in X : \E i \in I : Group(t[k]) = s[i]}
           sum(R) == SumFunctionOnSet(Weights(t), R)
           top(I) == SumFunctionOnSet(w, I)
           Good == {I \in SUBSET (1 .. L) : top(I) = sum(rows(I))}
<1>1. /\ IsFiniteSet(1 .. Len(t)) /\ \A i \in 1 .. Len(t) : Weights(t)[i] \in Nat
      /\ IsFiniteSet(1 .. L)
  <2>1. 1 \in Int /\ L \in Int
    OBVIOUS
  <2>2. IsFiniteSet(1 .. L)
    BY <2>1, FS_Interval
  <2> QED BY <2>2, TableFinite
<1>2. \A R \in SUBSET (1 .. Len(t)) : sum(R) \in Nat /\ (R = {} => sum(R) = 0)
  <2> DEFINE D == 1 .. Len(t)
             W == Weights(t)
  <2>1. IsFiniteSet(D) /\ \A i \in D : W[i] \in Nat
    BY <1>1
  <2> HIDE DEF D, W, rows, sum, top, Good
  <2>2. \A R \in SUBSET D : SumFunctionOnSet(W, R) \in Nat /\ (R = {} => SumFunctionOnSet(W, R) = 0)
    BY <2>1, SumStep
  <2> QED BY <2>2 DEF D, W, sum
<1>5. ASSUME NEW R \in SUBSET (1 .. Len(t)), NEW Q \in SUBSET (1 .. Len(t)), R \cap Q = {}
      PROVE  sum(R \cup Q) = sum(R) + sum(Q)
  <2> DEFINE D == 1 .. Len(t)
             W == Weights(t)
  <2>1. Additive(W, D)
    <3>1. IsFiniteSet(D) /\ \A i \in D : W[i] \in Nat
      BY <1>1
    <3> HIDE DEF D, W
    <3> QED BY <3>1, SumUnion
  <2> HIDE DEF W
  <2>2. SumFunctionOnSet(W, R \cup Q) = SumFunctionOnSet(W, R) + SumFunctionOnSet(W, Q)
    BY <1>5, <2>1 DEF Additive
  <2> QED BY <2>2 DEF W
<1>3. \A i \in 1 .. L : w[i] = sum(Of(t, X, s[i])) /\ w[i] \in Nat
  <2>1. \A i \in 1 .. L : w[i] = sum(Of(t, X, s[i]))
    OBVIOUS
  <2>2. \A i \in 1 .. L : Of(t, X, s[i]) \in SUBSET (1 .. Len(t))
    BY DEF Of
  <2> HIDE DEF sum
  <2> QED BY <1>2, <2>1, <2>2
<1>4. \A I \in SUBSET (1 .. L) :
        /\ top(I) \in Nat /\ (I = {} => top(I) = 0)
        /\ \A i \in I : top(I) = w[i] + top(I \ {i})
  <2> DEFINE U == 1 .. L
  <2>1. IsFiniteSet(U) /\ \A i \in U : w[i] \in Nat
    BY <1>1, <1>3
  <2> HIDE DEF U, sum
  <2>2. \A I \in SUBSET U :
          /\ top(I) \in Nat /\ (I = {} => top(I) = 0)
          /\ \A i \in I : top(I) = w[i] + top(I \ {i})
    BY <2>1, SumStep
  <2> QED BY <2>2 DEF U
<1> HIDE DEF sum, top
<1>6. ASSUME NEW I \in SUBSET (1 .. L), \A i \in I : I \ {i} \in Good PROVE I \in Good
  <2>1. CASE I = {}
    <3>1. rows(I) = {} /\ rows(I) \in SUBSET (1 .. Len(t))
      BY <2>1
    <3> HIDE DEF rows
    <3> QED BY <1>2, <1>4, <2>1, <3>1
  <2>2. CASE I # {}
    <3>1. PICK i \in I : TRUE
      BY <2>2
    <3> DEFINE J == I \ {i}
    <3>2. J \in Good /\ top(I) = w[i] + top(J)
      BY <1>4, <1>6
    <3>3. /\ rows(J) \in SUBSET (1 .. Len(t)) /\ Of(t, X, s[i]) \in SUBSET (1 .. Len(t))
          /\ rows(I) = Of(t, X, s[i]) \cup rows(J)
      BY DEF Of
    <3>4. Of(t, X, s[i]) \cap rows(J) = {}
      BY DEF Of
    <3>5. top(J) = sum(rows(J))
      BY <3>2
    <3> HIDE DEF rows, J, Good
    <3>6. sum(rows(I)) = sum(Of(t, X, s[i])) + sum(rows(J))
      BY <1>5, <3>3, <3>4
    <3>7. top(I) = sum(rows(I))
      BY <1>3, <3>2, <3>5, <3>6
    <3> QED BY <3>7 DEF Good
  <2> QED BY <2>1, <2>2
<1>7. 1 .. L \in Good
  <2> HIDE DEF Good
  <2>1. \A I \in SUBSET (1 .. L) : I \in Good
    BY <1>1, <1>6, SubsetInduction
  <2> QED BY <2>1
<1>8. rows(1 .. L) \in SUBSET X
  OBVIOUS
<1>9. top(1 .. L) = sum(rows(1 .. L))
  BY <1>7
<1> HIDE DEF rows
<1>10. sum(rows(1 .. L)) <= sum(X)
  BY <1>1, <1>8, SumMonotone DEF sum
<1>11. top(1 .. L) \in Nat
  BY <1>4
<1> QED BY <1>9, <1>10, <1>11 DEF sum, top

(* The top list of rows: no more than all of them carry, no address they   *)
(* do not have, and nothing lighter than what it leaves out.               *)
LEMMA TopListProperties ==
  ASSUME NEW t \in Seq(Placed), NEW X \in SUBSET (1 .. Len(t)), NEW n \in Nat \ {0},
         NEW top \in TopLists(Restrict(t, X), n)
  PROVE  /\ PointPackets(top) \in Nat /\ PointPackets(top) <= SumFunctionOnSet(Weights(t), X)
         /\ \A q \in ToSet(top) :
              /\ q \in PointType
              /\ \E j \in X : /\ SameGroup(q, Point(t[j]))
                              /\ q.packets = SumFunctionOnSet(Weights(t), Of(t, X, Group(t[j])))
         /\ \A j \in X : (\A q \in ToSet(top) : ~SameGroup(Point(t[j]), q)) =>
              /\ Len(top) = n
              /\ \A q \in ToSet(top) : SumFunctionOnSet(Weights(t), Of(t, X, Group(t[j]))) <= q.packets
<1> DEFINE rows == Restrict(t, X)
           G == GroupsOf(t, X)
           weight == [g \in G |-> Packets(Grouped(rows, g))]
           L == Least(n, Cardinality(G))
           sum(R) == SumFunctionOnSet(Weights(t), R)
<1>1. {Group(r) : r \in ToSet(rows)} = G
  BY GroupedRows
<1>2. PICK s \in Ranked(G, weight, L) : top = [i \in DOMAIN s |-> Totalled(rows, s[i])]
  BY <1>1 DEF TopLists
<1>3. \A g \in G : /\ Packets(Grouped(rows, g)) = sum(Of(t, X, g))
                   /\ weight[g] = sum(Of(t, X, g)) /\ weight[g] \in Nat
  <2> SUFFICES ASSUME NEW g \in G
               PROVE  Packets(Grouped(rows, g)) = sum(Of(t, X, g)) /\ sum(Of(t, X, g)) \in Nat
    OBVIOUS
  <2>1. Of(t, X, g) \in SUBSET (1 .. Len(t))
    BY DEF Of
  <2>2. Grouped(rows, g) = Restrict(t, Of(t, X, g))
    BY GroupedRows
  <2> HIDE DEF rows
  <2> QED BY <2>1, <2>2, PacketsOfRows
<1>4. /\ IsFiniteSet(G) /\ Cardinality(G) \in Nat /\ L \in Nat /\ L <= Cardinality(G)
      /\ L < Cardinality(G) => L = n
  BY GroupsFinite, FS_CardinalityType DEF Least
<1>5. /\ s \in Seq(G) /\ Len(s) = L
      /\ \A i, j \in 1 .. L : s[i] = s[j] => i = j
      /\ \A g \in G : (\A i \in 1 .. L : s[i] # g) =>
           L < Cardinality(G) /\ \A i \in 1 .. L : weight[g] <= weight[s[i]]
  <2> HIDE DEF G, L, weight
  <2> QED BY <1>2, <1>3, <1>4, RankedProperties
<1>6. DOMAIN s = 1 .. L /\ \A i \in 1 .. L : s[i] \in G
  <2> HIDE DEF G, L
  <2> QED BY <1>4, <1>5
<1>7. /\ DOMAIN top = 1 .. L
      /\ \A i \in 1 .. L : top[i] = Totalled(rows, s[i])
  BY <1>2, <1>6
<1>8. \A i \in 1 .. L : /\ top[i].address = s[i].address /\ top[i].direction = s[i].direction
                        /\ top[i].packets = sum(Of(t, X, s[i]))
  <2> HIDE DEF rows, G, L, sum
  <2> QED BY <1>3, <1>6, <1>7 DEF Totalled
<1>9. Len(top) = L
  <2> HIDE DEF L, rows
  <2>1. top = [i \in 1 .. L |-> Totalled(rows, s[i])]
    BY <1>2, <1>6
  <2> QED BY <1>4, <2>1
<1>10. PointPackets(top) \in Nat /\ PointPackets(top) <= sum(X)
  <2> DEFINE w == [i \in 1 .. L |-> top[i].packets]
  <2>1. PointPackets(top) = SumFunctionOnSet(w, 1 .. L)
    BY <1>7 DEF PointPackets, SumFunction
  <2>2. \A i \in 1 .. L : w[i] = SumFunctionOnSet(Weights(t), Of(t, X, s[i]))
    BY <1>8
  <2> HIDE DEF w, L
  <2>3. /\ SumFunctionOnSet(w, 1 .. L) \in Nat
        /\ SumFunctionOnSet(w, 1 .. L) <= SumFunctionOnSet(Weights(t), X)
    <3>1. L \in Nat /\ \A i, j \in 1 .. L : s[i] = s[j] => i = j
      BY <1>4, <1>5
    <3> HIDE DEF rows, G, weight, sum
    <3> QED BY <2>2, <3>1, SumOfGroups
  <2> QED BY <2>1, <2>3
<1>11. ASSUME NEW i \in 1 .. L
       PROVE  /\ top[i] \in PointType
              /\ \E j \in X : /\ SameGroup(top[i], Point(t[j])) /\ s[i] = Group(t[j])
                              /\ top[i].packets = sum(Of(t, X, Group(t[j])))
  <2>1. PICK j \in X : s[i] = Group(t[j])
    BY <1>6 DEF GroupsOf
  <2>2. t[j] \in Placed /\ t[j].record \in RecordType
    BY TableFinite, PlacedTyped
  <2>3. /\ top[i].address = t[j].record.address /\ top[i].direction = t[j].record.direction
        /\ top[i].packets = sum(Of(t, X, Group(t[j])))
    BY <1>8, <2>1 DEF Group
  <2>4. SameGroup(top[i], Point(t[j]))
    BY <2>3 DEF SameGroup, Point
  <2>5. top[i].packets \in Nat
    BY <1>3, <1>6, <1>8
  <2>6. (CHOOSE r \in ToSet(Grouped(rows, s[i])) : TRUE).place \in PlaceType
    <3>1. ToSet(Grouped(rows, s[i])) = {t[k] : k \in Of(t, X, s[i])}
      <4>1. Grouped(rows, s[i]) = Restrict(t, Of(t, X, s[i]))
        BY GroupedRows
      <4> HIDE DEF rows
      <4> QED BY <4>1 DEF ToSet, Restrict
    <3>2. t[j] \in ToSet(Grouped(rows, s[i]))
      BY <2>1, <3>1 DEF Of
    <3>3. ToSet(Grouped(rows, s[i])) \subseteq Placed
      BY <3>1, TableFinite DEF Of
    <3> QED BY <3>2, <3>3, PlacedTyped
  <2>7. top[i] \in PointType
    <3>1. top[i] = [address |-> s[i].address, direction |-> s[i].direction,
                    place |-> (CHOOSE r \in ToSet(Grouped(rows, s[i])) : TRUE).place,
                    packets |-> top[i].packets]
      BY <1>7 DEF Totalled
    <3>2. s[i].address \in Addresses /\ s[i].direction \in {"ingress", "egress"}
      BY <2>1, <2>2 DEF Group, RecordType
    <3> QED BY <2>5, <2>6, <3>1, <3>2 DEF PointType
  <2> QED BY <2>1, <2>3, <2>4, <2>7
<1>12. ASSUME NEW j \in X, \A q \in ToSet(top) : ~SameGroup(Point(t[j]), q)
       PROVE  /\ Len(top) = n
              /\ \A i \in 1 .. L : sum(Of(t, X, Group(t[j]))) <= top[i].packets
  <2> DEFINE g == Group(t[j])
  <2>1. g \in G
    BY DEF GroupsOf
  <2>2. ASSUME NEW i \in 1 .. L PROVE s[i] # g
    <3>1. top[i] \in ToSet(top)
      BY <1>7 DEF ToSet
    <3>2. ~SameGroup(Point(t[j]), top[i])
      BY <1>12, <3>1
    <3> QED BY <1>8, <3>2 DEF SameGroup, Point, Group
  <2>3. L < Cardinality(G) /\ \A i \in 1 .. L : weight[g] <= weight[s[i]]
    BY <1>5, <2>1, <2>2
  <2> HIDE DEF G, L, weight, sum
  <2> QED BY <1>3, <1>4, <1>6, <1>8, <1>9, <2>1, <2>3
<1>13. \A q \in ToSet(top) : \E i \in 1 .. L : q = top[i]
  BY <1>7 DEF ToSet
<1> HIDE DEF L
<1> QED BY <1>10, <1>11, <1>12, <1>13

-----------------------------------------------------------------------------
(* The answers *)

(* The rows of v's window when n were committed.                           *)
Chosen(t, w, n) == {i \in 1 .. n : t[i].agent = w.agent /\ t[i].record.timestamp > w.start}
SeenBy(v, n) == Restrict(flows, Chosen(flows, viewer[v], n))

ViewerType == [at : {"idle", "points", "top", "summary", "window", "live", "failed"},
               agent : Agents \cup {"none"}, start : Int, top : Nat, seen : Nat]

(* What each part of v's answer was computed from.                         *)
Explained(v) ==
  LET w == viewer[v]
      a == answer[v] IN
  /\ w.seen <= Len(flows)
  /\ w.at \in {"points", "top", "summary", "window", "live"} => w.top # 0
  /\ w.at \in {"idle", "points", "failed"} => a = NoAnswer
  /\ w.at = "live" =>
       /\ a.points = [i \in DOMAIN view[v] |-> LivePoint(view[v][i])]
       /\ a.top \in realTimeTopN(view[v], w.top)
       /\ a.summary = Totals(view[v])
  /\ w.at \in {"top", "summary", "window"} =>
       \E n, m, k \in w.seen .. Len(flows) :
         /\ n <= m /\ m <= k
         /\ a.points = Points(SeenBy(v, n))
         /\ IF w.at = "top" THEN a.top = << >> ELSE a.top \in TopLists(SeenBy(v, m), w.top)
         /\ w.at = "window" => a.summary = Totals(SeenBy(v, k))

AnswersExplained ==
  /\ viewer \in [Viewers -> ViewerType]
  /\ answer = [v \in Viewers |-> [points |-> answer[v].points, top |-> answer[v].top,
                                  summary |-> answer[v].summary]]
  /\ \A v \in Viewers : Explained(v)

LEMMA InitAnswers == Init => AnswersExplained
BY SizeAssumption DEF Init, AnswersExplained, Explained, ViewerType, Idle, NoAnswer

(* Rows are added at the end and never changed.                            *)
TableGrows ==
  /\ flows' \in Seq(Placed) /\ Len(flows) <= Len(flows')
  /\ \A i \in 1 .. Len(flows) : flows'[i] = flows[i]

LEMMA RowsStay ==
  ASSUME PlacesKnown, TableGrows, NEW v \in Viewers, viewer'[v] = viewer[v],
         NEW n \in Nat, n <= Len(flows)
  PROVE  SeenBy(v, n)' = SeenBy(v, n)
<1> DEFINE w == viewer[v]
<1>1. flows \in Seq(Placed) /\ Len(flows) \in Nat
  BY DEF PlacesKnown
<1>2. \A i \in 1 .. n : flows'[i] = flows[i]
  BY <1>1 DEF TableGrows
<1>3. Chosen(flows', w, n) = Chosen(flows, w, n)
  BY <1>2 DEF Chosen
<1>4. Restrict(flows', Chosen(flows, w, n)) = Restrict(flows, Chosen(flows, w, n))
  BY <1>2 DEF Chosen, Restrict
<1> QED BY <1>3, <1>4 DEF SeenBy

LEMMA ExplainedStays ==
  ASSUME PlacesKnown, AnswersExplained, TableGrows, NEW v \in Viewers,
         viewer'[v] = viewer[v], answer'[v] = answer[v], view'[v] = view[v]
  PROVE  Explained(v)'
<1> DEFINE w == viewer[v]
           a == answer[v]
<1>1. Explained(v) /\ w.seen \in Nat /\ Len(flows) \in Nat /\ Len(flows') \in Nat /\ Len(flows) <= Len(flows')
  BY DEF AnswersExplained, ViewerType, PlacesKnown, TableGrows
<1>2. w.seen <= Len(flows')
  BY <1>1 DEF Explained
<1>3. ASSUME w.at \in {"top", "summary", "window"}
      PROVE  \E n, m, k \in w.seen .. Len(flows') :
               /\ n <= m /\ m <= k
               /\ a.points = Points(SeenBy(v, n)')
               /\ IF w.at = "top" THEN a.top = << >> ELSE a.top \in TopLists(SeenBy(v, m)', w.top)
               /\ w.at = "window" => a.summary = Totals(SeenBy(v, k)')
  <2>1. PICK n, m, k \in w.seen .. Len(flows) :
          /\ n <= m /\ m <= k
          /\ a.points = Points(SeenBy(v, n))
          /\ IF w.at = "top" THEN a.top = << >> ELSE a.top \in TopLists(SeenBy(v, m), w.top)
          /\ w.at = "window" => a.summary = Totals(SeenBy(v, k))
    BY <1>1, <1>3 DEF Explained
  <2>2. /\ n \in Nat /\ n <= Len(flows) /\ m \in Nat /\ m <= Len(flows) /\ k \in Nat /\ k <= Len(flows)
        /\ n \in w.seen .. Len(flows') /\ m \in w.seen .. Len(flows') /\ k \in w.seen .. Len(flows')
    BY <1>1
  <2>3. SeenBy(v, n)' = SeenBy(v, n) /\ SeenBy(v, m)' = SeenBy(v, m) /\ SeenBy(v, k)' = SeenBy(v, k)
    BY <2>2, RowsStay
  <2> HIDE DEF w, a
  <2> QED BY <2>1, <2>2, <2>3
<1> QED BY <1>1, <1>2, <1>3 DEF Explained

LEMMA InWindowIsSeen ==
  ASSUME PlacesKnown, NEW v \in Viewers
  PROVE  InWindow(v) = SeenBy(v, Len(flows))
<1>1. DOMAIN flows = 1 .. Len(flows)
  BY DEF PlacesKnown
<1> QED BY <1>1 DEF InWindow, SeenBy, Chosen

LEMMA OnePart ==
  ASSUME NEW v, NEW new,
         answer[v] = [points |-> answer[v].points, top |-> answer[v].top, summary |-> answer[v].summary]
  PROVE  /\ [answer EXCEPT ![v].points = new]
              = [answer EXCEPT ![v] = [points |-> new, top |-> answer[v].top,
                                       summary |-> answer[v].summary]]
         /\ [answer EXCEPT ![v].top = new]
              = [answer EXCEPT ![v] = [points |-> answer[v].points, top |-> new,
                                       summary |-> answer[v].summary]]
         /\ [answer EXCEPT ![v].summary = new]
              = [answer EXCEPT ![v] = [points |-> answer[v].points, top |-> answer[v].top,
                                       summary |-> new]]
<1>1. [answer EXCEPT ![v].points = new] = [answer EXCEPT ![v] = [answer[v] EXCEPT !.points = new]]
  OBVIOUS
<1>2. [answer EXCEPT ![v].top = new] = [answer EXCEPT ![v] = [answer[v] EXCEPT !.top = new]]
  OBVIOUS
<1>3. [answer EXCEPT ![v].summary = new] = [answer EXCEPT ![v] = [answer[v] EXCEPT !.summary = new]]
  OBVIOUS
<1>4. ASSUME NEW one, one = [points |-> one.points, top |-> one.top, summary |-> one.summary]
      PROVE  /\ [one EXCEPT !.points = new] = [points |-> new, top |-> one.top, summary |-> one.summary]
             /\ [one EXCEPT !.top = new] = [points |-> one.points, top |-> new, summary |-> one.summary]
             /\ [one EXCEPT !.summary = new] = [points |-> one.points, top |-> one.top, summary |-> new]
  BY <1>4
<1> QED BY <1>1, <1>2, <1>3, <1>4

(* One viewer moves on: enough to explain its own answer.                  *)
LEMMA OneViewer ==
  ASSUME PlacesKnown, AnswersExplained, NEW v \in Viewers, UNCHANGED flows,
         NEW new \in ViewerType, viewer' = [viewer EXCEPT ![v] = new],
         NEW points, NEW top, NEW summary,
         answer' = [answer EXCEPT ![v] = [points |-> points, top |-> top, summary |-> summary]],
         \A u \in Viewers \ {v} : view'[u] = view[u],
         (viewer'[v] = new /\ answer'[v] = [points |-> points, top |-> top, summary |-> summary])
           => Explained(v)'
  PROVE  AnswersExplained'
<1> DEFINE part == [points |-> points, top |-> top, summary |-> summary]
<1>1. /\ viewer \in [Viewers -> ViewerType] /\ DOMAIN answer = Viewers
      /\ \A u \in Viewers : answer[u] = [points |-> answer[u].points, top |-> answer[u].top,
                                         summary |-> answer[u].summary]
  BY DEF AnswersExplained
<1>2. viewer' \in [Viewers -> ViewerType] /\ viewer'[v] = new
  BY <1>1
<1>3. answer'[v] = part /\ DOMAIN answer' = Viewers
  BY <1>1
<1>4. \A u \in Viewers \ {v} : viewer'[u] = viewer[u] /\ answer'[u] = answer[u]
  BY <1>1
<1>5. \A u \in Viewers : answer'[u] = [points |-> answer'[u].points, top |-> answer'[u].top,
                                       summary |-> answer'[u].summary]
  BY <1>1, <1>3, <1>4
<1>6. answer' = [u \in Viewers |-> answer'[u]]
  BY <1>1
<1>7. TableGrows
  BY DEF TableGrows, PlacesKnown
<1>8. \A u \in Viewers \ {v} : Explained(u)'
  BY <1>4, <1>7, ExplainedStays
<1>9. Explained(v)'
  BY <1>2, <1>3
<1>10. answer' = [u \in Viewers |-> [points |-> answer'[u].points, top |-> answer'[u].top,
                                     summary |-> answer'[u].summary]]
  BY <1>5, <1>6
<1> QED BY <1>2, <1>8, <1>9, <1>10 DEF AnswersExplained

LEMMA OthersAnswers ==
  ASSUME PlacesKnown, AnswersExplained, TableGrows, UNCHANGED <<viewer, answer, view>>
  PROVE  AnswersExplained'
BY ExplainedStays DEF AnswersExplained

LEMMA IngestAnswers ==
  ASSUME PlacesKnown, PlacesKnown', AnswersExplained, NEW h \in Handlers, Ingest(h)
  PROVE  AnswersExplained'
<1>1. UNCHANGED <<viewer, answer, view>>
  BY DEF Ingest, Post, Get, Add, Push, InsertBatch, Buffer!Add, bufferVars, viewVars
<1>2. TableGrows
  <2>1. flows \in Seq(Placed) /\ flows' \in Seq(Placed)
    BY DEF PlacesKnown
  <2>2. CASE UNCHANGED flows
    BY <2>1, <2>2 DEF TableGrows
  <2>3. CASE flows' = flows \o handler[h].enriched
    <3>1. handler[h].enriched \in Seq(Placed)
      BY DEF PlacesKnown
    <3>2. /\ Len(flows') = Len(flows) + Len(handler[h].enriched)
          /\ \A i \in 1 .. Len(flows) : flows'[i] = flows[i]
          /\ Len(flows) \in Nat /\ Len(handler[h].enriched) \in Nat
      BY <2>1, <2>3, <3>1
    <3> QED BY <2>1, <3>2 DEF TableGrows
  <2>4. UNCHANGED flows \/ flows' = flows \o handler[h].enriched
    BY DEF Ingest, Post, Get, Add, Push, InsertBatch
  <2> QED BY <2>2, <2>3, <2>4
<1> QED BY <1>1, <1>2, OthersAnswers

LEMMA ViewAnswers ==
  ASSUME PlacesKnown, AnswersExplained, NEW v \in Viewers, View(v)
  PROVE  AnswersExplained'
<1> DEFINE w == viewer[v]
           a == answer[v]
<1>0. /\ UNCHANGED flows /\ w \in ViewerType /\ Explained(v) /\ viewer \in [Viewers -> ViewerType]
      /\ flows \in Seq(Placed) /\ Len(flows) \in Nat /\ view \in [Viewers -> Seq(Placed)] /\ clock \in Int
      /\ answer = [u \in Viewers |-> answer[u]] /\ a = [points |-> a.points, top |-> a.top, summary |-> a.summary]
  <2>1. UNCHANGED flows
    BY DEF View, RealTimeGeoView, GeoViewByWindow, QueryFlowsSince, QueryTopNFlows,
           AggregateSummary, QueryFails, ingestVars
  <2>2. /\ flows \in Seq(Placed) /\ Len(flows) \in Nat /\ view \in [Viewers -> Seq(Placed)]
        /\ clock \in Int
    BY SizeAssumption DEF PlacesKnown
  <2>3. w \in ViewerType /\ Explained(v) /\ viewer \in [Viewers -> ViewerType]
    BY DEF AnswersExplained
  <2>4. answer = [u \in Viewers |-> answer[u]] /\ a = [points |-> a.points, top |-> a.top, summary |-> a.summary]
    BY DEF AnswersExplained
  <2> HIDE DEF w, a
  <2> QED BY <2>1, <2>2, <2>3, <2>4
<1>1. ASSUME NEW n \in TopSizes, RealTimeGeoView(v, n) PROVE AnswersExplained'
  <2> DEFINE rows == view'[v]
             new == [at |-> "live", agent |-> "none", start |-> 0, top |-> n, seen |-> 0]
             points == [i \in DOMAIN rows |-> LivePoint(rows[i])]
  <2>1. PICK top \in realTimeTopN(rows, n) :
          answer' = [answer EXCEPT ![v] = [points |-> points, top |-> top, summary |-> Totals(rows)]]
    BY <1>1 DEF RealTimeGeoView
  <2>2. viewer' = [viewer EXCEPT ![v] = new] /\ \A u \in Viewers \ {v} : view'[u] = view[u]
    BY <1>0, <1>1 DEF RealTimeGeoView, Buffer!Look
  <2>3. n \in Nat \ {0} /\ new \in ViewerType /\ new.at = "live" /\ new.top = n /\ new.seen = 0
    <3>1. n \in Nat \ {0}
      BY AskedAssumption
    <3> QED BY <3>1 DEF ViewerType
  <2> HIDE DEF new, rows
  <2>4. (viewer'[v] = new /\ answer'[v] = [points |-> points, top |-> top, summary |-> Totals(rows)])
          => Explained(v)'
    BY <1>0, <2>1, <2>3 DEF Explained, rows
  <2> HIDE DEF points
  <2> QED BY <1>0, <2>1, <2>2, <2>3, <2>4, OneViewer
<1>2. ASSUME NEW agent \in Agents, NEW d \in Windows, NEW n \in TopSizes, GeoViewByWindow(v, agent, d, n)
      PROVE  AnswersExplained'
  <2> DEFINE new == [at |-> "points", agent |-> agent, start |-> clock - d, top |-> n, seen |-> Len(flows)]
  <2>1. viewer' = [viewer EXCEPT ![v] = new] /\ UNCHANGED <<view, answer>> /\ w = Idle
    BY <1>2 DEF GeoViewByWindow, bufferVars
  <2>2. new \in ViewerType /\ new.at = "points" /\ new.top # 0 /\ new.seen = Len(flows)
    BY <1>0, AskedAssumption DEF ViewerType
  <2>3. a = NoAnswer
    BY <1>0, <2>1 DEF Explained, Idle
  <2> HIDE DEF new
  <2>4. answer' = [answer EXCEPT ![v] = [points |-> a.points, top |-> a.top, summary |-> a.summary]]
    <3>1. answer = [answer EXCEPT ![v] = answer[v]] /\ answer' = answer
      BY <1>0, <2>1
    <3> QED BY <1>0, <3>1
  <2>5. (viewer'[v] = new /\ answer'[v] = [points |-> a.points, top |-> a.top, summary |-> a.summary])
          => Explained(v)'
    BY <1>0, <2>1, <2>2, <2>3 DEF Explained
  <2>6. UNCHANGED flows /\ \A u \in Viewers \ {v} : view'[u] = view[u]
    BY <1>0, <2>1
  <2>7. viewer' = [viewer EXCEPT ![v] = new]
    BY <2>1
  <2> HIDE DEF w, a
  <2> QED BY <2>2, <2>4, <2>5, <2>6, <2>7, OneViewer
<1>3. CASE QueryFlowsSince(v)
  <2> DEFINE new == [w EXCEPT !.at = "top"]
             points == Points(InWindow(v))
  <2>1. /\ viewer' = [viewer EXCEPT ![v] = new] /\ UNCHANGED view /\ w.at = "points"
        /\ answer' = [answer EXCEPT ![v] = [points |-> points, top |-> a.top, summary |-> a.summary]]
    <3>1. /\ viewer' = [viewer EXCEPT ![v] = new] /\ UNCHANGED view /\ w.at = "points"
          /\ answer' = [answer EXCEPT ![v].points = points]
      BY <1>3 DEF QueryFlowsSince, PointsOrder, bufferVars
    <3> HIDE DEF new, points
    <3> QED BY <1>0, <3>1, OnePart
  <2>2. /\ new \in ViewerType /\ new.at = "top" /\ new.top = w.top /\ new.seen = w.seen
        /\ new.agent = w.agent /\ new.start = w.start /\ w.seen \in Nat
    BY <1>0 DEF ViewerType
  <2>3. a.top = << >> /\ w.top # 0 /\ w.seen <= Len(flows)
    BY <1>0, <2>1 DEF Explained, NoAnswer
  <2>4. points = Points(SeenBy(v, Len(flows)))
    BY InWindowIsSeen
  <2> HIDE DEF new, points
  <2>5. ASSUME viewer'[v] = new, answer'[v] = [points |-> points, top |-> a.top, summary |-> a.summary]
        PROVE  Explained(v)'
    <3>1. \A k : SeenBy(v, k)' = SeenBy(v, k)
      BY <1>0, <2>2, <2>5 DEF SeenBy, Chosen
    <3>2. Len(flows) \in w.seen .. Len(flows)
      BY <1>0, <2>2, <2>3
    <3>3. viewer'[v].seen = w.seen /\ flows' = flows /\ viewer'[v].at = "top"
      BY <1>0, <2>2, <2>5
    <3>4. \E n, m, k \in w.seen .. Len(flows) : n <= m /\ m <= k /\ points = Points(SeenBy(v, n)')
      <4>1. PICK N \in w.seen .. Len(flows) : N = Len(flows)
        BY <3>2
      <4>2. points = Points(SeenBy(v, N)') /\ N <= N
        BY <1>0, <2>4, <3>1, <4>1
      <4> HIDE DEF w
      <4> QED BY <4>2
    <3>5. answer'[v].points = points /\ answer'[v].top = << >>
      BY <2>3, <2>5
    <3> HIDE DEF w, a
    <3> QED BY <2>2, <2>3, <2>5, <3>3, <3>4, <3>5 DEF Explained
  <2> QED BY <1>0, <2>1, <2>2, <2>5, OneViewer
<1>4. CASE QueryTopNFlows(v)
  <2> DEFINE new == [w EXCEPT !.at = "summary"]
  <2>1. PICK top \in TopLists(InWindow(v), w.top) : answer' = [answer EXCEPT ![v].top = top]
    BY <1>4 DEF QueryTopNFlows
  <2>2. /\ viewer' = [viewer EXCEPT ![v] = new] /\ UNCHANGED view /\ w.at = "top"
        /\ answer' = [answer EXCEPT ![v] = [points |-> a.points, top |-> top, summary |-> a.summary]]
    <3>1. viewer' = [viewer EXCEPT ![v] = new] /\ UNCHANGED view /\ w.at = "top"
      BY <1>4 DEF QueryTopNFlows, bufferVars
    <3> HIDE DEF new
    <3> QED BY <1>0, <2>1, <3>1, OnePart
  <2>3. /\ new \in ViewerType /\ new.at = "summary" /\ new.top = w.top /\ new.seen = w.seen
        /\ new.agent = w.agent /\ new.start = w.start /\ w.seen \in Nat
    BY <1>0 DEF ViewerType
  <2>4. PICK n \in w.seen .. Len(flows) : a.points = Points(SeenBy(v, n))
    BY <1>0, <2>2 DEF Explained
  <2>5. w.top # 0 /\ w.seen <= Len(flows)
    BY <1>0, <2>2 DEF Explained
  <2>6. top \in TopLists(SeenBy(v, Len(flows)), w.top)
    BY <2>1, InWindowIsSeen
  <2> HIDE DEF new
  <2>7. ASSUME viewer'[v] = new, answer'[v] = [points |-> a.points, top |-> top, summary |-> a.summary]
        PROVE  Explained(v)'
    <3>1. \A k : SeenBy(v, k)' = SeenBy(v, k)
      BY <1>0, <2>3, <2>7 DEF SeenBy, Chosen
    <3>2. Len(flows) \in w.seen .. Len(flows) /\ n <= Len(flows)
      BY <1>0, <2>3, <2>5
    <3>3. viewer'[v].seen = w.seen /\ flows' = flows /\ viewer'[v].at = "summary" /\ viewer'[v].top = w.top
      BY <1>0, <2>3, <2>7
    <3>4. answer'[v].points = a.points /\ answer'[v].top = top
      BY <2>7
    <3>5. \E n1, m, k \in w.seen .. Len(flows) :
            n1 <= m /\ m <= k /\ a.points = Points(SeenBy(v, n1)') /\ top \in TopLists(SeenBy(v, m)', w.top)
      BY <1>0, <2>4, <2>6, <3>1, <3>2
    <3> HIDE DEF w, a
    <3> QED BY <2>5, <3>3, <3>4, <3>5 DEF Explained
  <2> QED BY <1>0, <2>2, <2>3, <2>7, OneViewer
<1>5. CASE AggregateSummary(v)
  <2> DEFINE new == [w EXCEPT !.at = "window"]
             summary == Totals(InWindow(v))
  <2>1. /\ viewer' = [viewer EXCEPT ![v] = new] /\ UNCHANGED view /\ w.at = "summary"
        /\ answer' = [answer EXCEPT ![v] = [points |-> a.points, top |-> a.top, summary |-> summary]]
    <3>1. /\ viewer' = [viewer EXCEPT ![v] = new] /\ UNCHANGED view /\ w.at = "summary"
          /\ answer' = [answer EXCEPT ![v].summary = summary]
      BY <1>5 DEF AggregateSummary, bufferVars
    <3> HIDE DEF new, summary
    <3> QED BY <1>0, <3>1, OnePart
  <2>2. /\ new \in ViewerType /\ new.at = "window" /\ new.top = w.top /\ new.seen = w.seen
        /\ new.agent = w.agent /\ new.start = w.start /\ w.seen \in Nat
    BY <1>0 DEF ViewerType
  <2>3. PICK n, m \in w.seen .. Len(flows) :
          /\ n <= m
          /\ a.points = Points(SeenBy(v, n))
          /\ a.top \in TopLists(SeenBy(v, m), w.top)
    BY <1>0, <2>1 DEF Explained
  <2>4. w.top # 0 /\ w.seen <= Len(flows)
    BY <1>0, <2>1 DEF Explained
  <2>5. summary = Totals(SeenBy(v, Len(flows)))
    BY InWindowIsSeen
  <2> HIDE DEF new, summary
  <2>6. ASSUME viewer'[v] = new, answer'[v] = [points |-> a.points, top |-> a.top, summary |-> summary]
        PROVE  Explained(v)'
    <3>1. \A k : SeenBy(v, k)' = SeenBy(v, k)
      BY <1>0, <2>2, <2>6 DEF SeenBy, Chosen
    <3>2. Len(flows) \in w.seen .. Len(flows) /\ m <= Len(flows)
      BY <1>0, <2>2, <2>4
    <3>3. viewer'[v].seen = w.seen /\ flows' = flows /\ viewer'[v].at = "window" /\ viewer'[v].top = w.top
      BY <1>0, <2>2, <2>6
    <3>4. answer'[v].points = a.points /\ answer'[v].top = a.top /\ answer'[v].summary = summary
      BY <2>6
    <3>6. \E n1, m1, k \in w.seen .. Len(flows) :
            /\ n1 <= m1 /\ m1 <= k /\ a.points = Points(SeenBy(v, n1)')
            /\ a.top \in TopLists(SeenBy(v, m1)', w.top) /\ summary = Totals(SeenBy(v, k)')
      BY <1>0, <2>3, <2>5, <3>1, <3>2
    <3> HIDE DEF w, a
    <3> QED BY <2>4, <3>3, <3>4, <3>6 DEF Explained
  <2> QED BY <1>0, <2>1, <2>2, <2>6, OneViewer
<1>6. CASE QueryFails(v)
  <2> DEFINE new == [w EXCEPT !.at = "failed"]
  <2>1. viewer' = [viewer EXCEPT ![v] = new] /\ UNCHANGED view /\ answer' = [answer EXCEPT ![v] = NoAnswer]
    BY <1>6 DEF QueryFails, bufferVars
  <2>2. new \in ViewerType /\ new.at = "failed" /\ new.seen = w.seen /\ w.seen <= Len(flows)
    BY <1>0 DEF ViewerType, Explained
  <2> HIDE DEF new
  <2>3. (viewer'[v] = new /\ answer'[v] = NoAnswer) => Explained(v)'
    BY <1>0, <2>2 DEF Explained
  <2> QED BY <1>0, <2>1, <2>2, <2>3, OneViewer DEF NoAnswer
<1> QED BY <1>1, <1>2, <1>3, <1>4, <1>5, <1>6 DEF View

LEMMA NextAnswers == PlacesKnown /\ PlacesKnown' /\ AnswersExplained /\ [Next]_vars => AnswersExplained'
<1> SUFFICES ASSUME PlacesKnown, PlacesKnown', AnswersExplained, [Next]_vars PROVE AnswersExplained'
  OBVIOUS
<1>1. CASE Tick \/ UNCHANGED vars
  <2>1. UNCHANGED <<flows, viewer, answer, view>>
    BY <1>1 DEF Tick, vars, ingestVars, bufferVars, viewVars
  <2>2. TableGrows
    BY <2>1 DEF TableGrows, PlacesKnown
  <2> QED BY <2>1, <2>2, OthersAnswers
<1> QED BY <1>1, IngestAnswers, ViewAnswers DEF Next

LEMMA AnswersInvariant == Spec => [](PlacesKnown /\ AnswersExplained)
BY InitPlaces, NextPlaces, InitAnswers, NextAnswers, PTL DEF Spec

(* The rows a request sees when n of them are committed.                   *)
LEMMA ChosenRows ==
  ASSUME PlacesKnown, NEW v \in Viewers, NEW n \in Nat, n <= Len(flows)
  PROVE  /\ Chosen(flows, viewer[v], n) \in SUBSET (1 .. Len(flows))
         /\ \A m \in Nat : n <= m => Chosen(flows, viewer[v], n) \subseteq Chosen(flows, viewer[v], m)
         /\ DOMAIN Points(SeenBy(v, n)) = Chosen(flows, viewer[v], n)
         /\ \A i \in Chosen(flows, viewer[v], n) : Points(SeenBy(v, n))[i] = Point(flows[i])
         /\ ToSet(Points(SeenBy(v, n))) = {Point(flows[i]) : i \in Chosen(flows, viewer[v], n)}
<1>1. Len(flows) \in Nat
  BY DEF PlacesKnown
<1>2. /\ Chosen(flows, viewer[v], n) \in SUBSET (1 .. Len(flows))
      /\ \A m \in Nat : n <= m => Chosen(flows, viewer[v], n) \subseteq Chosen(flows, viewer[v], m)
  BY <1>1 DEF Chosen
<1>3. /\ DOMAIN Points(SeenBy(v, n)) = Chosen(flows, viewer[v], n)
      /\ \A i \in Chosen(flows, viewer[v], n) : Points(SeenBy(v, n))[i] = Point(flows[i])
  BY DEF Points, SeenBy, Restrict
<1> QED BY <1>2, <1>3 DEF ToSet

(* What is committed before a window is asked for is on it, if it is young *)
(* enough: neither a limit nor a commit in between can hide it.            *)
THEOREM EverythingShown == Spec => []CommittedIsShown
<1>1. PlacesKnown /\ AnswersExplained => CommittedIsShown
  <2> SUFFICES ASSUME PlacesKnown, AnswersExplained,
                      NEW v \in Viewers, viewer[v].at = "window", NEW i \in 1 .. viewer[v].seen,
                      flows[i].agent = viewer[v].agent, flows[i].record.timestamp > viewer[v].start
               PROVE  Point(flows[i]) \in ToSet(answer[v].points)
    BY DEF CommittedIsShown
  <2>1. viewer[v].seen \in Nat /\ Len(flows) \in Nat /\ Explained(v)
    BY DEF AnswersExplained, ViewerType, PlacesKnown
  <2>2. PICK n \in viewer[v].seen .. Len(flows) : answer[v].points = Points(SeenBy(v, n))
    BY <2>1 DEF Explained
  <2>3. n \in Nat /\ n <= Len(flows) /\ i \in 1 .. n
    BY <2>1
  <2>4. i \in Chosen(flows, viewer[v], n)
    BY <2>3 DEF Chosen
  <2>5. ToSet(Points(SeenBy(v, n))) = {Point(flows[j]) : j \in Chosen(flows, viewer[v], n)}
    BY <2>3, ChosenRows
  <2> QED BY <2>2, <2>4, <2>5
<1> QED BY <1>1, AnswersInvariant, PTL

(* The members of the top list of the moment are points of the view, none  *)
(* lighter than a point that is not on it.                                 *)
LEMMA LiveTopProperties ==
  ASSUME NEW rows \in Seq(Placed), NEW n \in Nat \ {0}, NEW top \in realTimeTopN(rows, n)
  PROVE  LET points == [i \in DOMAIN rows |-> LivePoint(rows[i])] IN
         /\ ToSet(points) \subseteq LivePointType
         /\ ToSet(top) \subseteq ToSet(points)
         /\ \A p \in ToSet(points) \ ToSet(top) :
              Len(top) = n /\ \A q \in ToSet(top) : p.packets <= q.packets
<1> DEFINE points == [i \in DOMAIN rows |-> LivePoint(rows[i])]
           D == DOMAIN rows
           weight == [i \in DOMAIN rows |-> rows[i].record.packets]
           L == Least(n, Len(rows))
<1>1. PICK s \in Ranked(D, weight, L) : top = [i \in DOMAIN s |-> LivePoint(rows[s[i]])]
  BY DEF realTimeTopN
<1>2. D = 1 .. Len(rows) /\ Len(rows) \in Nat /\ \A i \in D : rows[i] \in Placed
  OBVIOUS
<1>3. IsFiniteSet(D) /\ Cardinality(D) = Len(rows)
  <2>1. 1 \in Int /\ Len(rows) \in Int
    BY <1>2
  <2>2. IsFiniteSet(1 .. Len(rows))
        /\ Cardinality(1 .. Len(rows)) = IF 1 > Len(rows) THEN 0 ELSE Len(rows) - 1 + 1
    BY <2>1, FS_Interval
  <2> QED BY <1>2, <2>2
<1>4. \A i \in D : weight[i] \in Nat /\ weight[i] = rows[i].record.packets
  BY <1>2, PlacedTyped
<1>5. L \in Nat /\ L <= Len(rows) /\ (L < Len(rows) => L = n)
  <2>1. \A k \in Nat : Least(n, k) \in Nat /\ Least(n, k) <= k /\ (Least(n, k) < k => Least(n, k) = n)
    BY DEF Least
  <2>2. Len(rows) \in Nat
    BY <1>2
  <2> HIDE DEF D, weight, points
  <2> QED BY <2>1, <2>2
<1>6. /\ s \in Seq(D) /\ Len(s) = L
      /\ \A i \in D : (\A j \in 1 .. L : s[j] # i) =>
           L < Cardinality(D) /\ \A j \in 1 .. L : weight[i] <= weight[s[j]]
  <2>1. L <= Cardinality(D)
    BY <1>3, <1>5
  <2> HIDE DEF D, L, weight
  <2> QED BY <1>1, <1>3, <1>4, <1>5, <2>1, RankedProperties
<1>7. DOMAIN s = 1 .. L /\ \A j \in 1 .. L : s[j] \in D
  <2> HIDE DEF D, L
  <2> QED BY <1>5, <1>6
<1>8. /\ DOMAIN top = 1 .. L /\ \A j \in 1 .. L : top[j] = LivePoint(rows[s[j]])
      /\ Len(top) = L
  <2> HIDE DEF L
  <2>1. top = [j \in 1 .. L |-> LivePoint(rows[s[j]])]
    BY <1>1, <1>7
  <2> QED BY <1>5, <2>1
<1>9. ToSet(points) = {LivePoint(rows[i]) : i \in D} /\ ToSet(top) = {LivePoint(rows[s[j]]) : j \in 1 .. L}
  BY <1>8 DEF ToSet
<1>10. ToSet(points) \subseteq LivePointType
  BY <1>2, <1>9, PlacedTyped
<1>11. ToSet(top) \subseteq ToSet(points)
  BY <1>7, <1>9
<1>12. ASSUME NEW p \in ToSet(points), p \notin ToSet(top)
       PROVE  Len(top) = n /\ \A q \in ToSet(top) : p.packets <= q.packets
  <2>1. PICK i \in D : p = LivePoint(rows[i])
    BY <1>9
  <2>2. \A j \in 1 .. L : s[j] # i
    BY <1>9, <1>12, <2>1
  <2>3. L < Cardinality(D) /\ \A j \in 1 .. L : weight[i] <= weight[s[j]]
    BY <1>6, <2>2
  <2>4. \A j \in 1 .. L : p.packets <= LivePoint(rows[s[j]]).packets
    <3> HIDE DEF weight, D, L
    <3> QED BY <1>4, <1>7, <2>1, <2>3 DEF LivePoint
  <2> HIDE DEF D, L
  <2> QED BY <1>3, <1>5, <1>8, <1>9, <2>3, <2>4
<1> QED BY <1>10, <1>11, <1>12

(* The cache keeps its size and holds no address twice; what handlers,     *)
(* table, buffer and answers hold are records and points of their types.   *)
THEOREM TypeCorrect == Spec => []TypeOK
<1>1. PlacesKnown /\ AnswersExplained => TypeOK
  <2> SUFFICES ASSUME PlacesKnown, AnswersExplained PROVE TypeOK
    OBVIOUS
  <2>1. Rows \subseteq Enriched
    <3>1. \A s \in Seq(Placed) : ToSet(s) \subseteq Enriched
      BY DEF ToSet, Placed
    <3>2. \A h \in Handlers : handler[h].enriched \in Seq(Placed)
      BY DEF PlacesKnown
    <3> QED BY <3>1, <3>2 DEF PlacesKnown, Rows
  <2>2. ASSUME NEW v \in Viewers
        PROVE  ToSet(answer[v].points) \cup ToSet(answer[v].top)
                 \subseteq IF viewer[v].at = "live" THEN LivePointType ELSE PointType
    <3>1. viewer[v] \in ViewerType /\ Explained(v) /\ flows \in Seq(Placed) /\ Len(flows) \in Nat
      BY DEF AnswersExplained, PlacesKnown
    <3>2. CASE viewer[v].at = "live"
      <4>1. /\ answer[v].points = [i \in DOMAIN view[v] |-> LivePoint(view[v][i])]
            /\ answer[v].top \in realTimeTopN(view[v], viewer[v].top)
            /\ viewer[v].top \in Nat \ {0} /\ view[v] \in Seq(Placed)
        BY <3>1, <3>2 DEF Explained, ViewerType, PlacesKnown
      <4>2. ToSet(answer[v].points) \subseteq LivePointType /\ ToSet(answer[v].top) \subseteq ToSet(answer[v].points)
        BY <4>1, LiveTopProperties
      <4> QED BY <3>2, <4>2
    <3>3. CASE viewer[v].at \in {"idle", "points", "failed"}
      BY <3>1, <3>3 DEF Explained, NoAnswer, ToSet
    <3>4. CASE viewer[v].at \in {"top", "summary", "window"}
      <4>1. PICK n, m \in viewer[v].seen .. Len(flows) :
              /\ answer[v].points = Points(SeenBy(v, n))
              /\ \/ answer[v].top = << >>
                 \/ answer[v].top \in TopLists(SeenBy(v, m), viewer[v].top)
        BY <3>1, <3>4 DEF Explained
      <4>2. n \in Nat /\ n <= Len(flows) /\ m \in Nat /\ m <= Len(flows)
        BY <3>1 DEF ViewerType
      <4>3. ToSet(answer[v].points) \subseteq PointType
        <5>1. /\ ToSet(answer[v].points) = {Point(flows[i]) : i \in Chosen(flows, viewer[v], n)}
              /\ Chosen(flows, viewer[v], n) \in SUBSET (1 .. Len(flows))
          BY <4>1, <4>2, ChosenRows
        <5>2. \A i \in 1 .. Len(flows) : flows[i] \in Placed
          BY <3>1
        <5> QED BY <5>1, <5>2, PlacedTyped
      <4>4. ToSet(answer[v].top) \subseteq PointType
        <5>1. CASE answer[v].top = << >>
          BY <5>1 DEF ToSet
        <5>2. CASE answer[v].top \in TopLists(SeenBy(v, m), viewer[v].top)
          <6>1. viewer[v].top \in Nat \ {0}
            BY <3>1, <3>4 DEF Explained, ViewerType
          <6>2. Chosen(flows, viewer[v], m) \in SUBSET (1 .. Len(flows))
            BY <4>2, ChosenRows
          <6>3. answer[v].top \in TopLists(Restrict(flows, Chosen(flows, viewer[v], m)), viewer[v].top)
            BY <5>2 DEF SeenBy
          <6> QED BY <3>1, <6>1, <6>2, <6>3, TopListProperties
        <5> QED BY <4>1, <5>1, <5>2
      <4> QED BY <3>4, <4>3, <4>4
    <3> QED BY <3>1, <3>2, <3>3, <3>4 DEF ViewerType
  <2>3. \A h \in Handlers :
          handler[h].at \in {"idle", "get", "add", "push", "insert", "accepted", "failed"}
    BY DEF PlacesKnown
  <2>4. \A v \in Viewers :
          viewer[v].at \in {"idle", "points", "top", "summary", "window", "live", "failed"}
    BY DEF AnswersExplained, ViewerType
  <2>5. /\ clock \in 0 .. MaxClock /\ Len(recent) <= Capacity /\ Len(cache) <= CacheSize
        /\ \A i, j \in DOMAIN cache : cache[i].address = cache[j].address => i = j
    BY DEF PlacesKnown, CacheSound
  <2> QED BY <2>1, <2>2, <2>3, <2>4, <2>5 DEF TypeOK
<1> QED BY <1>1, AnswersInvariant, PTL

(* The totals of rows are natural and count each row.                      *)
LEMMA TotalsOfRows ==
  ASSUME NEW t \in Seq(Placed), NEW X \in SUBSET (1 .. Len(t))
  PROVE  /\ Totals(Restrict(t, X)).flows = Cardinality(X)
         /\ Totals(Restrict(t, X)).packets = SumFunctionOnSet(Weights(t), X)
         /\ Totals(Restrict(t, X)).addresses = Cardinality({t[i].record.address : i \in X})
         /\ IsFiniteSet({t[i].record.address : i \in X})
<1>1. DOMAIN Restrict(t, X) = X /\ ToSet(Restrict(t, X)) = {t[i] : i \in X}
  BY DEF Restrict, ToSet
<1>2. {r.record.address : r \in ToSet(Restrict(t, X))} = {t[i].record.address : i \in X}
  BY <1>1
<1>3. IsFiniteSet({t[i].record.address : i \in X})
  <2> DEFINE f == [i \in X |-> t[i].record.address]
  <2>1. {t[i].record.address : i \in X} = {f[i] : i \in X} /\ DOMAIN f = X /\ IsFiniteSet(X)
    BY TableFinite
  <2> HIDE DEF f
  <2>2. IsFiniteSet({f[i] : i \in X})
    BY <2>1, FiniteImage
  <2> QED BY <2>1, <2>2
<1> QED BY <1>1, <1>2, <1>3, PacketsOfRows DEF Totals

(* WindowPartsAgree of the parts of an answer whose top list may have n    *)
(* members.                                                                *)
Fitting(points, top, summary, n) ==
  /\ Cardinality(DOMAIN points) <= summary.flows
  /\ PointPackets(points) <= summary.packets
  /\ PointPackets(top) <= summary.packets
  /\ Cardinality({p.address : p \in ToSet(points) \cup ToSet(top)}) <= summary.addresses
  /\ \A p \in ToSet(points) :
       IF \E q \in ToSet(top) : SameGroup(p, q)
         THEN \A q \in ToSet(top) :
                SameGroup(p, q) => PointPackets(OfGroup(points, p)) <= q.packets
         ELSE /\ Len(top) = n
              /\ \A q \in ToSet(top) : PointPackets(OfGroup(points, p)) <= q.packets

(* Three prefixes of one table, each with its part of the answer.          *)
LEMMA PartsOfPrefixes ==
  ASSUME NEW t \in Seq(Placed), NEW X \in SUBSET (1 .. Len(t)), NEW Y \in SUBSET (1 .. Len(t)),
         NEW Z \in SUBSET (1 .. Len(t)), X \subseteq Y, Y \subseteq Z, NEW n \in Nat \ {0},
         NEW points, points = Points(Restrict(t, X)), NEW top \in TopLists(Restrict(t, Y), n),
         NEW summary, summary = Totals(Restrict(t, Z))
  PROVE  Fitting(points, top, summary, n)
<1> DEFINE sum(R) == SumFunctionOnSet(Weights(t), R)
<1>1. /\ summary.flows = Cardinality(Z) /\ summary.packets = sum(Z)
      /\ summary.addresses = Cardinality({t[i].record.address : i \in Z})
      /\ IsFiniteSet({t[i].record.address : i \in Z})
  BY TotalsOfRows
<1>2. /\ DOMAIN points = X /\ \A i \in X : points[i] = Point(t[i])
  BY DEF Points, Restrict
<1>3. /\ PointPackets(points) = sum(X)
      /\ \A i \in X : PointPackets(OfGroup(points, Point(t[i]))) = sum(Of(t, X, Group(t[i])))
  BY PointsOfRows
<1>4. /\ IsFiniteSet(1 .. Len(t)) /\ \A i \in 1 .. Len(t) : Weights(t)[i] \in Nat
  BY TableFinite
<1>5. \A R \in SUBSET (1 .. Len(t)) : sum(R) \in Nat
  BY <1>4, SumStep
<1>6. ASSUME NEW R \in SUBSET (1 .. Len(t)), NEW Q \in SUBSET R PROVE sum(Q) <= sum(R)
  BY <1>4, SumMonotone
<1>7. /\ PointPackets(top) \in Nat /\ PointPackets(top) <= sum(Y)
      /\ \A q \in ToSet(top) : \E j \in Y : /\ SameGroup(q, Point(t[j]))
                                            /\ q.packets = sum(Of(t, Y, Group(t[j])))
      /\ \A j \in Y : (\A q \in ToSet(top) : ~SameGroup(Point(t[j]), q)) =>
           Len(top) = n /\ \A q \in ToSet(top) : sum(Of(t, Y, Group(t[j]))) <= q.packets
      /\ \A q \in ToSet(top) : q.packets \in Nat
  BY TopListProperties DEF PointType
<1> HIDE DEF sum
<1>9. Cardinality(DOMAIN points) <= summary.flows
  <2>1. X \in SUBSET Z /\ IsFiniteSet(Z)
    BY TableFinite
  <2> QED BY <1>1, <1>2, <2>1, FS_Subset
<1>10. PointPackets(points) <= summary.packets
  BY <1>1, <1>3, <1>6
<1>11. PointPackets(top) <= summary.packets
  <2>1. sum(Y) <= sum(Z) /\ sum(Y) \in Nat /\ sum(Z) \in Nat
    BY <1>5, <1>6
  <2> QED BY <1>1, <1>7, <2>1
<1>12. Cardinality({p.address : p \in ToSet(points) \cup ToSet(top)}) <= summary.addresses
  <2> DEFINE A == {p.address : p \in ToSet(points) \cup ToSet(top)}
             B == {t[i].record.address : i \in Z}
  <2>1. ASSUME NEW p \in ToSet(points) PROVE p.address \in B
    <3>1. PICK i \in X : p = Point(t[i])
      BY <1>2 DEF ToSet
    <3> QED BY <3>1 DEF Point
  <2>2. ASSUME NEW p \in ToSet(top) PROVE p.address \in B
    <3>1. PICK j \in Y : SameGroup(p, Point(t[j]))
      BY <1>7
    <3> QED BY <3>1 DEF Point, SameGroup
  <2>3. A \in SUBSET B
    BY <2>1, <2>2
  <2> HIDE DEF A, B
  <2> QED BY <1>1, <2>3, FS_Subset DEF B, A
<1>13. ASSUME NEW p \in ToSet(points)
       PROVE  /\ \A q \in ToSet(top) : SameGroup(p, q) => PointPackets(OfGroup(points, p)) <= q.packets
              /\ (\A q \in ToSet(top) : ~SameGroup(p, q)) =>
                   /\ Len(top) = n
                   /\ \A q \in ToSet(top) : PointPackets(OfGroup(points, p)) <= q.packets
  <2>1. PICK i \in X : p = Point(t[i])
    BY <1>2 DEF ToSet
  <2> DEFINE g == Group(t[i])
             few == sum(Of(t, X, g))
             many == sum(Of(t, Y, g))
  <2>2. PointPackets(OfGroup(points, p)) = few
    BY <1>3, <2>1
  <2>3. few \in Nat /\ many \in Nat /\ few <= many
    <3>1. /\ Of(t, Y, g) \in SUBSET (1 .. Len(t)) /\ Of(t, X, g) \in SUBSET Of(t, Y, g)
          /\ Of(t, X, g) \in SUBSET (1 .. Len(t))
      BY DEF Of
    <3> QED BY <1>5, <1>6, <3>1
  <2>4. ASSUME NEW q \in ToSet(top), SameGroup(p, q) PROVE few <= q.packets
    <3>1. PICK j \in Y : SameGroup(q, Point(t[j])) /\ q.packets = sum(Of(t, Y, Group(t[j])))
      BY <1>7
    <3>2. SameGroup(p, Point(t[j]))
      BY <2>4, <3>1 DEF SameGroup
    <3>3. Group(t[j]) = g
      BY <2>1, <3>2, GroupOf
    <3> QED BY <2>3, <3>1, <3>3
  <2>5. ASSUME \A q \in ToSet(top) : ~SameGroup(p, q)
        PROVE  Len(top) = n /\ \A q \in ToSet(top) : few <= q.packets
    <3>1. i \in Y
      OBVIOUS
    <3>2. Len(top) = n /\ \A q \in ToSet(top) : many <= q.packets
      BY <1>7, <2>1, <2>5, <3>1
    <3> HIDE DEF few, many
    <3> QED BY <1>7, <2>3, <3>2
  <2> HIDE DEF few
  <2> QED BY <2>2, <2>4, <2>5
<1> QED BY <1>9, <1>10, <1>11, <1>12, <1>13 DEF Fitting

(* Points, top list and totals of an answer fit each other, however long   *)
(* the table is and whatever is committed between the queries.             *)
THEOREM PartsFit == Spec => []PartsAgree
<1>1. PlacesKnown /\ AnswersExplained => PartsAgree
  <2> SUFFICES ASSUME PlacesKnown, AnswersExplained, NEW v \in Viewers
               PROVE  /\ viewer[v].at = "window" => WindowPartsAgree(v)
                      /\ viewer[v].at = "live" => LivePartsAgree(v)
    BY DEF PartsAgree
  <2>1. viewer[v] \in ViewerType /\ Explained(v) /\ flows \in Seq(Placed) /\ Len(flows) \in Nat
    BY DEF AnswersExplained, PlacesKnown
  <2>2. ASSUME viewer[v].at = "window" PROVE WindowPartsAgree(v)
    <3>1. PICK n, m, k \in viewer[v].seen .. Len(flows) :
            /\ n <= m /\ m <= k
            /\ answer[v].points = Points(SeenBy(v, n))
            /\ answer[v].top \in TopLists(SeenBy(v, m), viewer[v].top)
            /\ answer[v].summary = Totals(SeenBy(v, k))
      BY <2>1, <2>2 DEF Explained
    <3>2. /\ n \in Nat /\ n <= Len(flows) /\ m \in Nat /\ m <= Len(flows) /\ k \in Nat /\ k <= Len(flows)
          /\ viewer[v].top \in Nat \ {0}
      BY <2>1, <2>2 DEF Explained, ViewerType
    <3> DEFINE X == Chosen(flows, viewer[v], n)
               Y == Chosen(flows, viewer[v], m)
               Z == Chosen(flows, viewer[v], k)
    <3>3. /\ X \in SUBSET (1 .. Len(flows)) /\ Y \in SUBSET (1 .. Len(flows))
          /\ Z \in SUBSET (1 .. Len(flows)) /\ X \subseteq Y /\ Y \subseteq Z
      BY <3>1, <3>2, ChosenRows
    <3>4. /\ answer[v].points = Points(Restrict(flows, X))
          /\ answer[v].top \in TopLists(Restrict(flows, Y), viewer[v].top)
          /\ answer[v].summary = Totals(Restrict(flows, Z))
      BY <3>1 DEF SeenBy
    <3> DEFINE size == viewer[v].top
               points == answer[v].points
               top == answer[v].top
               summary == answer[v].summary
    <3>5. size \in Nat \ {0} /\ points = Points(Restrict(flows, X)) /\ summary = Totals(Restrict(flows, Z))
          /\ top \in TopLists(Restrict(flows, Y), size)
      BY <3>2, <3>4
    <3> HIDE DEF X, Y, Z, size, points, top, summary
    <3>6. Fitting(points, top, summary, size)
      BY <2>1, <3>3, <3>5, PartsOfPrefixes
    <3> QED BY <3>6 DEF Fitting, WindowPartsAgree, size, points, top, summary
  <2>3. ASSUME viewer[v].at = "live" PROVE LivePartsAgree(v)
    <3> DEFINE rows == view[v]
               points == [i \in DOMAIN rows |-> LivePoint(rows[i])]
               top == answer[v].top
    <3>1. /\ answer[v].points = points /\ top \in realTimeTopN(rows, viewer[v].top)
          /\ answer[v].summary = Totals(rows)
          /\ viewer[v].top \in Nat \ {0} /\ rows \in Seq(Placed)
      BY <2>1, <2>3 DEF Explained, ViewerType, PlacesKnown
    <3>2. Cardinality(DOMAIN points) = Totals(rows).flows
      BY DEF Totals
    <3>3. PointPackets(points) = Totals(rows).packets
      <4>1. [i \in DOMAIN points |-> points[i].packets] = [i \in DOMAIN rows |-> rows[i].record.packets]
        BY DEF LivePoint
      <4> QED BY <4>1 DEF PointPackets, Totals, Packets
    <3>4. /\ ToSet(top) \subseteq ToSet(points)
          /\ \A p \in ToSet(points) \ ToSet(top) :
               Len(top) = viewer[v].top /\ \A q \in ToSet(top) : p.packets <= q.packets
      <4> HIDE DEF top
      <4> QED BY <3>1, LiveTopProperties
    <3> HIDE DEF points, rows, top
    <3> QED BY <3>1, <3>2, <3>3, <3>4 DEF LivePartsAgree, top
  <2> QED BY <2>2, <2>3
<1> QED BY <1>1, AnswersInvariant, PTL
=============================================================================
