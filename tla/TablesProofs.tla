---------------------------- MODULE TablesProofs ----------------------------
(***************************************************************************)
(* Theorems about partition tables, for every set of names and size of the *)
(* table: what creating, deleting and renaming a slot makes of one.        *)
(***************************************************************************)
EXTENDS Tables, Integers, TLAPS, FiniteSetTheorems, WellFoundedInduction

USE SlotNamesAssumption, MaxPartitionsAssumption

-----------------------------------------------------------------------------
(* Lemmas about tables *)

LEMMA TableFacts ==
  ASSUME NEW t \in Table
  PROVE  /\ Len(t) \in Nat /\ DOMAIN t = 1..Len(t)
         /\ t \in [1..Len(t) -> Partition]
         /\ \A x \in DOMAIN t : t[x] \in Partition
BY DEF Table

\* A function on 1..n is a sequence.
LEMMA IsTable ==
  ASSUME NEW n \in Nat, NEW t \in [1..n -> Partition]
  PROVE  t \in Table /\ Len(t) = n
BY DEF Table

LEMMA AppendedTable ==
  ASSUME NEW t \in Table, NEW p \in Partition
  PROVE  /\ Append(t, p) \in Table
         /\ Len(Append(t, p)) = Len(t) + 1
         /\ \A x \in DOMAIN t : Append(t, p)[x] = t[x]
         /\ Append(t, p)[Len(t) + 1] = p
         /\ DOMAIN Append(t, p) = DOMAIN t \cup {Len(t) + 1}
BY DEF Table

LEMMA NewSlotFacts ==
  ASSUME NEW name \in SlotNames, NEW request \in [offset : Nat, length : Nat]
  PROVE  /\ NewSlot(name, request) \in Partition
         /\ NewSlot(name, request).name = name
BY DEF NewSlot, Partition

\* partition_delete closes the gap: the entries left are the old ones but entry x.
LEMMA WithoutFacts ==
  ASSUME NEW t \in Table, NEW x \in DOMAIN t
  PROVE  /\ Without(t, x) \in Table
         /\ Len(Without(t, x)) = Len(t) - 1
         /\ \A y \in DOMAIN Without(t, x) :
              /\ (IF y < x THEN y ELSE y + 1) \in DOMAIN t \ {x}
              /\ Without(t, x)[y] = t[IF y < x THEN y ELSE y + 1]
         /\ \A z \in DOMAIN t \ {x} : \E y \in DOMAIN Without(t, x) : Without(t, x)[y] = t[z]
<1>1. /\ Len(t) \in Nat /\ DOMAIN t = 1..Len(t) /\ x \in 1..Len(t)
      /\ \A y \in 1..Len(t) : t[y] \in Partition
  BY TableFacts
<1>2. Without(t, x) \in [1..(Len(t) - 1) -> Partition]
  BY <1>1 DEF Without
<1>3. Without(t, x) \in Table /\ Len(Without(t, x)) = Len(t) - 1
  <2>1. Len(t) - 1 \in Nat
    BY <1>1
  <2> QED
    BY <1>2, <2>1, IsTable
<1>4. DOMAIN Without(t, x) = 1..(Len(t) - 1)
  BY <1>2
<1>5. \A y \in 1..(Len(t) - 1) :
        Without(t, x)[y] = t[IF y < x THEN y ELSE y + 1]
  BY <1>1 DEF Without
<1>6. ASSUME NEW z \in DOMAIN t \ {x}
      PROVE  \E y \in DOMAIN Without(t, x) : Without(t, x)[y] = t[z]
  <2>1. CASE z < x
    BY <1>1, <1>4, <1>5, <2>1
  <2>2. CASE z > x
    <3>1. z - 1 \in 1..(Len(t) - 1) /\ ~ (z - 1 < x) /\ (z - 1) + 1 = z
      BY <1>1, <2>2
    <3> QED
      BY <1>4, <1>5, <3>1
  <2> QED
    BY <1>1, <2>1, <2>2
<1> QED
  BY <1>1, <1>3, <1>4, <1>5, <1>6

LEMMA RenamedFacts ==
  ASSUME NEW t \in Table, NEW x \in DOMAIN t, NEW name \in SlotNames
  PROVE  /\ Renamed(t, x, name) \in Table
         /\ Len(Renamed(t, x, name)) = Len(t)
         /\ DOMAIN Renamed(t, x, name) = DOMAIN t
         /\ \A y \in DOMAIN t :
              Renamed(t, x, name)[y] = IF y = x THEN [t[x] EXCEPT !.name = name] ELSE t[y]
<1>1. t \in [1..Len(t) -> Partition] /\ Len(t) \in Nat
  BY TableFacts
<1>2. [t[x] EXCEPT !.name = name] \in Partition
  BY <1>1 DEF Partition
<1>3. Renamed(t, x, name) \in [1..Len(t) -> Partition]
  BY <1>1, <1>2 DEF Renamed
<1> QED
  BY <1>1, <1>3, IsTable DEF Renamed

-----------------------------------------------------------------------------
(* What partition_create, _delete and _rename make of a valid table *)

LEMMA OverlapSymmetric ==
  ASSUME NEW p \in Partition, NEW q \in Partition
  PROVE  Overlap(p, q) <=> Overlap(q, p)
BY DEF Overlap, Partition

\* Slots that are created where they overlap nothing, under a new name, keep the
\* table valid.
LEMMA CreateKeepsValid ==
  ASSUME NEW t \in Table, CheckSpt(t),
         NEW name \in SlotNames, NEW request \in [offset : Nat, length : Nat],
         ~Named(t, name), Len(t) < MaxPartitions,
         \A x \in DOMAIN t : ~Overlap(t[x], NewSlot(name, request))
  PROVE  /\ Append(t, NewSlot(name, request)) \in Table
         /\ CheckSpt(Append(t, NewSlot(name, request)))
<1> DEFINE p == NewSlot(name, request)
           u == Append(t, p)
<1>1. p \in Partition /\ p.name = name
  BY NewSlotFacts
<1>2. /\ u \in Table /\ Len(u) = Len(t) + 1
      /\ \A x \in DOMAIN t : u[x] = t[x]
      /\ u[Len(t) + 1] = p
      /\ DOMAIN u = DOMAIN t \cup {Len(t) + 1}
  BY <1>1, AppendedTable
<1>3. \A x \in DOMAIN t : t[x].name # name /\ ~Overlap(t[x], p) /\ ~Overlap(p, t[x])
  BY <1>1, TableFacts, OverlapSymmetric DEF Named
<1> HIDE DEF p, u
<1>4. Len(u) <= MaxPartitions
  BY <1>2, TableFacts
<1>5. ASSUME NEW x \in DOMAIN u, NEW y \in DOMAIN u, x # y
      PROVE  u[x].name # u[y].name /\ ~Overlap(u[x], u[y])
  BY <1>1, <1>2, <1>3, <1>5 DEF CheckSpt
<1>6. \A n \in Critical : Named(u, n)
  BY <1>2 DEF CheckSpt, Named
<1>7. CheckSpt(u)
  BY <1>4, <1>5, <1>6 DEF CheckSpt
<1> QED
  BY <1>2, <1>7 DEF p, u

\* Deleting a slot, which is none of the partitions the SPT must have, keeps the table
\* valid.
LEMMA DeleteKeepsValid ==
  ASSUME NEW t \in Table, CheckSpt(t), NEW x \in DOMAIN t, IsSlot(t[x])
  PROVE  Without(t, x) \in Table /\ CheckSpt(Without(t, x))
<1> DEFINE u == Without(t, x)
           From(y) == IF y < x THEN y ELSE y + 1
<1>1. /\ u \in Table /\ Len(u) = Len(t) - 1
      /\ \A y \in DOMAIN u : From(y) \in DOMAIN t \ {x} /\ u[y] = t[From(y)]
      /\ \A z \in DOMAIN t \ {x} : \E y \in DOMAIN u : u[y] = t[z]
  BY WithoutFacts
<1>2. \A y, z \in DOMAIN u : y # z => From(y) # From(z)
  <2>1. DOMAIN u \subseteq Nat /\ x \in Nat
    BY <1>1, TableFacts
  <2> QED
    BY <2>1
<1> HIDE DEF u, From
<1>3. Len(u) <= MaxPartitions
  BY <1>1, TableFacts DEF CheckSpt
<1>4. \A y, z \in DOMAIN u :
        y # z => u[y].name # u[z].name /\ ~Overlap(u[y], u[z])
  BY <1>1, <1>2 DEF CheckSpt
<1>5. ASSUME NEW n \in Critical
      PROVE  Named(u, n)
  <2>1. PICK z \in DOMAIN t : t[z].name = n
    BY DEF CheckSpt, Named
  <2>2. z # x
    BY <2>1 DEF IsSlot, Reserved
  <2> QED
    BY <1>1, <2>1, <2>2 DEF Named
<1> QED
  BY <1>1, <1>3, <1>4, <1>5 DEF CheckSpt, u

\* Giving a slot a name that nothing has keeps the table valid.
LEMMA RenameKeepsValid ==
  ASSUME NEW t \in Table, CheckSpt(t), NEW x \in DOMAIN t, IsSlot(t[x]),
         NEW name \in SlotNames, ~Named(t, name)
  PROVE  Renamed(t, x, name) \in Table /\ CheckSpt(Renamed(t, x, name))
<1> DEFINE u == Renamed(t, x, name)
<1>1. /\ u \in Table /\ Len(u) = Len(t) /\ DOMAIN u = DOMAIN t
      /\ \A y \in DOMAIN t : u[y] = IF y = x THEN [t[x] EXCEPT !.name = name] ELSE t[y]
  BY RenamedFacts
<1>2. \A y \in DOMAIN t : t[y] \in Partition
  BY TableFacts
<1>3. \A y \in DOMAIN t : /\ u[y].name = IF y = x THEN name ELSE t[y].name
                          /\ u[y].offset = t[y].offset
                          /\ u[y].length = t[y].length
  BY <1>1, <1>2 DEF Partition
<1> HIDE DEF u
<1>4. Len(u) <= MaxPartitions
  BY <1>1 DEF CheckSpt
<1>5. ASSUME NEW y \in DOMAIN u, NEW z \in DOMAIN u, y # z
      PROVE  u[y].name # u[z].name /\ ~Overlap(u[y], u[z])
  <2>1. t[y].name # t[z].name /\ ~Overlap(t[y], t[z])
    BY <1>1, <1>5 DEF CheckSpt
  <2>2. t[y].name # name /\ t[z].name # name
    BY <1>1 DEF Named
  <2> QED
    BY <1>1, <1>3, <1>5, <2>1, <2>2 DEF Overlap
<1>6. ASSUME NEW n \in Critical
      PROVE  Named(u, n)
  <2>1. PICK z \in DOMAIN t : t[z].name = n
    BY DEF CheckSpt, Named
  <2>2. z # x
    BY <2>1 DEF IsSlot, Reserved
  <2> QED
    BY <1>1, <2>1, <2>2 DEF Named
<1> QED
  BY <1>1, <1>4, <1>5, <1>6 DEF CheckSpt, u

-----------------------------------------------------------------------------
(* Least and greatest elements *)

LEMMA LeastExists ==
  ASSUME NEW S \in SUBSET Nat, S # {}
  PROVE  \E s \in S : \A r \in S : s <= r
<1> DEFINE R == OpToRel(<, Nat)
<1>1. \E s \in S : \A r \in S : ~(<<r, s>> \in R)
  <2>1. IsWellFoundedOn(R, Nat)
    BY NatLessThanWellFounded
  <2> HIDE DEF R
  <2> QED
    BY <2>1, WFMin
<1>2. PICK s \in S : \A r \in S : ~(<<r, s>> \in R)
  BY <1>1
<1>3. \A r \in S : ~(r < s)
  BY <1>2 DEF OpToRel
<1> QED
  BY <1>3

LEMMA GreatestExists ==
  ASSUME NEW n \in Nat, NEW S \in SUBSET (1..n), S # {}
  PROVE  \E s \in S : \A r \in S : s >= r
<1> DEFINE back == {n - s : s \in S}
<1>1. back \in SUBSET Nat /\ back # {}
  <2>1. \A s \in S : s \in 1..n /\ n - s \in Nat
    OBVIOUS
  <2>2. back # {}
    OBVIOUS
  <2> QED
    BY <2>1, <2>2
<1>2. PICK b \in back : \A c \in back : b <= c
  BY <1>1, LeastExists
<1>3. PICK s \in S : b = n - s
  BY <1>2
<1>4. ASSUME NEW r \in S
      PROVE  s >= r
  <2>1. n - s <= n - r
    BY <1>2, <1>3, <1>4
  <2>2. s \in Nat /\ r \in Nat
    OBVIOUS
  <2> QED
    BY <2>1, <2>2
<1> QED
  BY <1>3, <1>4

-----------------------------------------------------------------------------
(* Slot numbers *)

Below(t, k) == {y \in 1..(k - 1) : IsSlot(t[y])}

\* Slots are counted one by one.
LEMMA BelowFacts ==
  ASSUME NEW t \in Table
  PROVE  /\ Cardinality(Below(t, 1)) = 0
         /\ \A k \in 1..(Len(t) + 1) : Cardinality(Below(t, k)) \in Nat
         /\ \A k \in 1..Len(t) :
              Cardinality(Below(t, k + 1)) =
                IF IsSlot(t[k]) THEN Cardinality(Below(t, k)) + 1
                ELSE Cardinality(Below(t, k))
         /\ \A j, k \in 1..(Len(t) + 1) :
              j <= k => Cardinality(Below(t, j)) <= Cardinality(Below(t, k))
<1>0. Len(t) \in Nat
  BY TableFacts
<1>1. Cardinality(Below(t, 1)) = 0
  <2>1. Below(t, 1) = {}
    BY DEF Below
  <2> QED
    BY <2>1, FS_EmptySet
<1>2. ASSUME NEW k \in 1..(Len(t) + 1)
      PROVE  IsFiniteSet(Below(t, k)) /\ Cardinality(Below(t, k)) \in Nat
  <2>1. k - 1 \in Nat
    BY <1>0
  <2>2. Below(t, k) \in SUBSET Nat /\ \A y \in Below(t, k) : y <= k - 1
    BY DEF Below
  <2>3. IsFiniteSet(Below(t, k))
    BY <2>1, <2>2, FS_BoundedSetOfNaturals
  <2> QED
    BY <2>3, FS_CardinalityType
<1>3. ASSUME NEW k \in 1..Len(t)
      PROVE  Cardinality(Below(t, k + 1)) =
               IF IsSlot(t[k]) THEN Cardinality(Below(t, k)) + 1
               ELSE Cardinality(Below(t, k))
  <2>1. k \notin Below(t, k) /\ k \in 1..(Len(t) + 1)
    BY <1>0 DEF Below
  <2>2. 1..(k + 1 - 1) = 1..(k - 1) \cup {k}
    BY <1>0
  <2>3. Below(t, k + 1) = IF IsSlot(t[k]) THEN Below(t, k) \cup {k} ELSE Below(t, k)
    BY <2>2 DEF Below
  <2> QED
    BY <1>2, <2>1, <2>3, FS_AddElement
<1>4. ASSUME NEW j \in 1..(Len(t) + 1), NEW k \in 1..(Len(t) + 1), j <= k
      PROVE  Cardinality(Below(t, j)) <= Cardinality(Below(t, k))
  <2>1. Below(t, j) \in SUBSET Below(t, k)
    BY <1>0, <1>4 DEF Below
  <2> QED
    BY <1>2, <2>1, FS_Subset
<1> QED
  BY <1>1, <1>2, <1>3, <1>4

\* No two slots have the same number.
LEMMA NumbersDiffer ==
  ASSUME NEW t \in Table, NEW n, NEW x \in Slot2Part(t, n), NEW y \in Slot2Part(t, n)
  PROVE  x = y
<1>0. Len(t) \in Nat /\ DOMAIN t = 1..Len(t)
  BY TableFacts
<1>1. ASSUME NEW a \in Slot2Part(t, n), NEW b \in Slot2Part(t, n), a < b
      PROVE  FALSE
  <2>1. /\ a \in 1..Len(t) /\ b \in 1..Len(t) /\ IsSlot(t[a])
        /\ Cardinality(Below(t, a)) = n /\ Cardinality(Below(t, b)) = n
    BY <1>0 DEF Slot2Part, SlotNumber, Below
  <2>2. Cardinality(Below(t, a + 1)) = n + 1 /\ n \in Nat
    BY <1>0, <2>1, BelowFacts
  <2>3. a + 1 <= b /\ a + 1 \in 1..(Len(t) + 1) /\ b \in 1..(Len(t) + 1)
    BY <1>0, <1>1, <2>1
  <2>4. n + 1 <= n
    BY <2>1, <2>2, <2>3, BelowFacts
  <2> QED
    BY <2>2, <2>4
<1>2. x \in Nat /\ y \in Nat
  BY <1>0 DEF Slot2Part
<1> QED
  BY <1>1, <1>2

\* Every number below the count of the slots is a slot's.
LEMMA NumberTaken ==
  ASSUME NEW t \in Table,
         NEW n \in 0..(Cardinality({x \in DOMAIN t : IsSlot(t[x])}) - 1)
  PROVE  \E x \in DOMAIN t : Slot2Part(t, n) = {x}
<1>0. Len(t) \in Nat /\ DOMAIN t = 1..Len(t)
  BY TableFacts
<1> DEFINE size(k) == Cardinality(Below(t, k))
           over == {k \in 1..(Len(t) + 1) : size(k) > n}
<1>1. size(Len(t) + 1) = Cardinality({x \in DOMAIN t : IsSlot(t[x])})
  <2>1. Below(t, Len(t) + 1) = {x \in DOMAIN t : IsSlot(t[x])}
    BY <1>0 DEF Below
  <2> QED
    BY <2>1
<1>2. Len(t) + 1 \in over
  <2>1. size(Len(t) + 1) \in Nat
    BY <1>0, BelowFacts
  <2> QED
    BY <1>0, <1>1, <2>1
<1>3. over \in SUBSET Nat /\ over # {}
  BY <1>0, <1>2
<1>4. PICK k \in over : \A j \in over : k <= j
  BY <1>3, LeastExists
<1>5. k # 1 /\ k - 1 \in 1..Len(t) /\ k = (k - 1) + 1
  BY <1>0, <1>4, BelowFacts
<1>6. size(k - 1) <= n /\ size(k - 1) \in Nat /\ size(k) \in Nat /\ size(k) > n
  BY <1>0, <1>4, <1>5, BelowFacts
<1>7. size(k) = IF IsSlot(t[k - 1]) THEN size(k - 1) + 1 ELSE size(k - 1)
  BY <1>5, BelowFacts
<1>8. IsSlot(t[k - 1]) /\ size(k - 1) = n
  BY <1>6, <1>7
<1>9. k - 1 \in Slot2Part(t, n)
  BY <1>0, <1>5, <1>8 DEF Slot2Part, SlotNumber, Below
<1> DEFINE x == k - 1
<1>10. x \in DOMAIN t /\ x \in Slot2Part(t, n)
  BY <1>0, <1>5, <1>9
<1> HIDE DEF x
<1>11. \A y \in Slot2Part(t, n) : y = x
  BY <1>10, NumbersDiffer
<1> QED
  BY <1>10, <1>11
=============================================================================
