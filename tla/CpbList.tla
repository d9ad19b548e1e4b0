------------------------------ MODULE CpbList ------------------------------
(***************************************************************************)
(* Theorems about the list of slots in Cpb's tables, for every table size, *)
(* word width, set of offsets, partition order and set of I/O errors, and  *)
(* every set of backups with well-formed lists: no slot is in the list     *)
(* twice, entries are used up from the front, a slot that rsu_slot_enable  *)
(* has enabled has priority one, and Cpb implements a durable boot order,  *)
(* which changes one edit at a time.                                       *)
(***************************************************************************)
EXTENDS CpbSafety, CpbImplements, FiniteSetTheorems

USE NSlotsAssumption, OffsetsAssumption, MagicAssumption, FirstAssumption,
    BackupsAssumption, HalfErasedAssumption

-----------------------------------------------------------------------------
(* Lemmas about lists *)

\* A flash word has bits, so that an erased one is not a spent one.
LEMMA WordFacts ==
  /\ Spent # Erased
  /\ \A p \in Offsets : Live(p) /\ p # Spent /\ p # Erased
BY DEF Word, Erased, Spent, Live

LEMMA LowestFacts ==
  ASSUME NEW S \in SUBSET Slots, S # {}
  PROVE  Lowest(S) \in S /\ \A r \in S : Lowest(S) <= r
<1>1. S \in SUBSET Nat
  BY DEF Slots
<1> QED
  BY <1>1, LeastExists DEF Lowest

LEMMA HighestFacts ==
  ASSUME NEW S \in SUBSET Slots, S # {}
  PROVE  Highest(S) \in S /\ \A r \in S : r <= Highest(S)
<1> DEFINE T == {n \in Nat : n <= NSlots /\ NSlots - n \in S}
<1>1. \A s \in S : s \in Nat /\ s <= NSlots /\ NSlots - s \in T
  BY DEF Slots
<1>2. T \in SUBSET Nat /\ T # {}
  BY <1>1
<1>3. PICK m \in T : \A n \in T : m <= n
  BY <1>2, LeastExists
<1>4. m \in Nat /\ NSlots - m \in S
  BY <1>3
<1>5. ASSUME NEW r \in S
      PROVE  r <= NSlots - m
  <2>1. r \in Nat /\ m <= NSlots - r
    BY <1>1, <1>3
  <2> QED
    BY <1>4, <2>1
<1> QED
  BY <1>4, <1>5 DEF Highest

LEMMA SlotsFinite ==
  ASSUME NEW S \in SUBSET Slots
  PROVE  /\ IsFiniteSet(S) /\ Cardinality(S) \in Nat
         /\ \A T \in SUBSET S : Cardinality(T) <= Cardinality(S)
         /\ \A T \in SUBSET S : T # S => Cardinality(T) < Cardinality(S)
<1>1. IsFiniteSet(Slots)
  BY FS_Interval DEF Slots
<1>2. IsFiniteSet(S)
  BY <1>1, FS_Subset
<1>3. Cardinality(S) \in Nat
  BY <1>2, FS_CardinalityType
<1>4. ASSUME NEW T \in SUBSET S
      PROVE  /\ Cardinality(T) <= Cardinality(S)
             /\ T # S => Cardinality(T) < Cardinality(S)
  <2>1. /\ IsFiniteSet(T) /\ Cardinality(T) <= Cardinality(S)
        /\ Cardinality(S) = Cardinality(T) => S = T
    BY <1>2, FS_Subset
  <2>2. Cardinality(T) \in Nat
    BY <2>1, FS_CardinalityType
  <2> QED
    BY <1>3, <2>1, <2>2
<1> QED
  BY <1>2, <1>3, <1>4

\* A pointer whose priority is zero is not in the list.
LEMMA PriorityOfNone ==
  ASSUME NEW t \in Table, NEW p \in Offsets, Priority(t, p) = 0
  PROVE  ~ Enabled(t, p)
<1> SUFFICES ASSUME Enabled(t, p)
             PROVE  FALSE
  OBVIOUS
<1> DEFINE found == Highest({s \in Slots : t[s] = p})
           above == {s \in LiveSlots(t) : s >= found}
<1>1. found \in Slots /\ t[found] = p
  BY HighestFacts DEF Enabled
<1>2. found \in above
  BY <1>1, WordFacts DEF LiveSlots, Slots
<1>3. IsFiniteSet(above)
  BY SlotsFinite DEF LiveSlots
<1>4. Cardinality(above) = 0
  BY DEF Priority
<1> QED
  BY <1>2, <1>3, <1>4, FS_EmptySet

\* The only live entry from a pointer on is its own.
LEMMA PriorityOfLast ==
  ASSUME NEW t \in Table, NEW p, NEW s \in Slots, t[s] = p, Live(p),
         \A r \in Slots : t[r] = p => r = s,
         \A r \in Slots : s < r => ~ Live(t[r])
  PROVE  Priority(t, p) = 1
<1>1. {r \in Slots : t[r] = p} = {s}
  OBVIOUS
<1>2. Highest({s}) = s
  BY HighestFacts
<1>3. {r \in LiveSlots(t) : r >= s} = {s}
  BY DEF LiveSlots, Slots
<1>4. Priority(t, p) = Cardinality({r \in LiveSlots(t) : r >= s})
  BY <1>1, <1>2 DEF Priority, Enabled
<1> QED
  BY <1>3, <1>4, FS_Singleton

LEMMA SpendList ==
  ASSUME NEW t \in Table, WellFormed(t), NEW p \in Offsets, Enabled(t, p)
  PROVE  LET u == [t EXCEPT ![Lowest({s \in Slots : t[s] = p})] = Spent]
         IN  WellFormed(u) /\ ~ Enabled(u, p)
<1> DEFINE s == Lowest({r \in Slots : t[r] = p})
           u == [t EXCEPT ![s] = Spent]
<1>1. s \in Slots /\ t[s] = p
  BY LowestInSet DEF Enabled
<1>2. /\ u[s] = Spent
      /\ \A r \in Slots : r # s => u[r] = t[r]
  BY <1>1, HeaderInCells DEF Table
<1>3. \A r \in Slots : t[r] = p => r = s
  BY <1>1, WordFacts DEF WellFormed, Slots
<1> HIDE DEF u, s
<1>4. WellFormed(u)
  <2> SUFFICES ASSUME NEW x \in Slots, NEW y \in Slots, x < y
               PROVE  (Live(u[x]) => u[x] # u[y]) /\ (u[x] = Erased => u[y] = Erased)
    BY DEF WellFormed
  <2>1. (Live(t[x]) => t[x] # t[y]) /\ (t[x] = Erased => t[y] = Erased)
    BY DEF WellFormed
  <2> QED
    BY <1>1, <1>2, <2>1, WordFacts DEF Live
<1>5. ~ Enabled(u, p)
  BY <1>2, <1>3, WordFacts DEF Enabled
<1> QED
  BY <1>4, <1>5 DEF u, s

LEMMA AddList ==
  ASSUME NEW t \in Table, WellFormed(t), NEW p \in Offsets, ~ Enabled(t, p),
         ErasedSlots(t) # {}
  PROVE  LET u == [t EXCEPT ![Lowest(ErasedSlots(t))] = p]
         IN  WellFormed(u) /\ Priority(u, p) = 1
<1> DEFINE s == Lowest(ErasedSlots(t))
           u == [t EXCEPT ![s] = p]
<1>1. s \in Slots /\ t[s] = Erased /\ \A r \in Slots : t[r] = Erased => s <= r
  BY LowestFacts DEF ErasedSlots
<1>2. u \in Table /\ u[s] = p /\ \A r \in Slots : r # s => u[r] = t[r]
  BY <1>1, HeaderInCells DEF Table
<1> HIDE DEF u, s
<1>3. \A r \in Slots : s < r => u[r] = Erased
  BY <1>1, <1>2 DEF WellFormed, Slots
<1>4. WellFormed(u)
  <2> SUFFICES ASSUME NEW x \in Slots, NEW y \in Slots, x < y
               PROVE  (Live(u[x]) => u[x] # u[y]) /\ (u[x] = Erased => u[y] = Erased)
    BY DEF WellFormed
  <2>1. (Live(t[x]) => t[x] # t[y]) /\ (t[x] = Erased => t[y] = Erased)
    BY DEF WellFormed
  <2>2. t[x] # p /\ t[y] # p
    BY DEF Enabled
  <2>3. x \in Int /\ y \in Int /\ s \in Int
    BY <1>1 DEF Slots
  <2> QED
    BY <1>1, <1>2, <1>3, <2>1, <2>2, <2>3, WordFacts
<1>5. \A r \in Slots : u[r] = p => r = s
  BY <1>2 DEF Enabled
<1>6. Priority(u, p) = 1
  BY <1>1, <1>2, <1>3, <1>5, PriorityOfLast, WordFacts DEF Live
<1> QED
  BY <1>4, <1>6 DEF u, s

-----------------------------------------------------------------------------
(* Compression *)

\* Live entries have different ranks.
LEMMA RankGrows ==
  ASSUME NEW t \in Table, NEW s \in LiveSlots(t), NEW r \in LiveSlots(t), s < r
  PROVE  Rank(t, s) < Rank(t, r)
<1> DEFINE S == {x \in LiveSlots(t) : x <= s}
           R == {x \in LiveSlots(t) : x <= r}
<1>1. S \subseteq R /\ R \subseteq Slots /\ r \in R /\ r \notin S
  BY DEF LiveSlots, Slots
<1> QED
  BY <1>1, SlotsFinite DEF Rank

\* Ranks count the live entries, from one.
LEMMA RankFacts ==
  ASSUME NEW t \in Table
  PROVE  /\ Cardinality(LiveSlots(t)) \in Nat
         /\ \A s \in LiveSlots(t) : Rank(t, s) \in 1..Cardinality(LiveSlots(t))
         /\ \A s, r \in LiveSlots(t) : Rank(t, s) = Rank(t, r) => s = r
         /\ \A c \in 1..Cardinality(LiveSlots(t)) :
              \E s \in LiveSlots(t) : Rank(t, s) = c
<1> DEFINE L == LiveSlots(t)
           n == Cardinality(L)
<1>1. L \subseteq Slots /\ IsFiniteSet(L) /\ n \in Nat
  BY SlotsFinite DEF LiveSlots
<1>2. ASSUME NEW s \in L
      PROVE  Rank(t, s) \in 1..n
  <2> DEFINE S == {x \in L : x <= s}
  <2>1. S \subseteq L /\ s \in S
    BY <1>1, <1>2 DEF Slots
  <2>2. Cardinality(S) \in Nat /\ Cardinality(S) <= n /\ IsFiniteSet(S)
    BY <1>1, <2>1, SlotsFinite
  <2>3. Cardinality(S) # 0
    BY <2>1, <2>2, FS_EmptySet
  <2> QED
    BY <1>1, <2>2, <2>3 DEF Rank
<1>3. ASSUME NEW s \in L, NEW r \in L, Rank(t, s) = Rank(t, r)
      PROVE  s = r
  <2>1. s \in Nat /\ r \in Nat
    BY <1>1 DEF Slots
  <2>2. Rank(t, s) \in Nat /\ Rank(t, r) \in Nat
    BY <1>1, <1>2
  <2>3. s < r => Rank(t, s) < Rank(t, r)
    BY RankGrows
  <2>4. r < s => Rank(t, r) < Rank(t, s)
    BY RankGrows
  <2> QED
    BY <1>3, <2>1, <2>2, <2>3, <2>4
<1>4. \A c \in 1..n : \E s \in L : Rank(t, s) = c
  <2> DEFINE f == [s \in L |-> Rank(t, s)]
  <2> HIDE DEF L
  <2>1. f \in [L -> 1..n]
    BY <1>2
  <2>2. f \in Injection(L, 1..n)
    BY <1>3, <2>1 DEF Injection, IsInjective
  <2>3. IsFiniteSet(1..n) /\ Cardinality(1..n) = n
    BY <1>1, FS_Interval
  <2>4. f \in Surjection(L, 1..n)
    BY <2>2, <2>3, FS_Injection
  <2> QED
    BY <2>4 DEF Surjection
<1> QED
  BY <1>1, <1>2, <1>3, <1>4

\* What compression makes of an entry: the live one with its rank, the added one
\* behind those, or an erased one.
LEMMA CompressedEntries ==
  ASSUME NEW t \in Table, NEW p, NEW c \in Slots
  PROVE  LET n == Cardinality(LiveSlots(t))
             u == Compressed(t, p)
         IN  /\ c <= n => \E s \in LiveSlots(t) : Rank(t, s) = c /\ u[c] = t[s]
             /\ c = n + 1 => u[c] = p
             /\ c > n + 1 => u[c] = Erased
<1> DEFINE n == Cardinality(LiveSlots(t))
           S == {s \in LiveSlots(t) : Rank(t, s) = c}
<1>1. c \in Cells /\ c # Header /\ c \in Nat /\ c > 0
  BY HeaderInCells DEF Slots, Header
<1>2. Compressed(t, p)[c] = CompressedEntry(t, p, c)
  BY <1>1 DEF Compressed
<1>3. ASSUME NEW s \in LiveSlots(t), Rank(t, s) = c
      PROVE  c <= n /\ CompressedEntry(t, p, c) = t[s]
  <2>1. (CHOOSE x \in LiveSlots(t) : Rank(t, x) = c) = s
    BY <1>3, RankFacts
  <2>2. CompressedEntry(t, p, c) = t[CHOOSE x \in LiveSlots(t) : Rank(t, x) = c]
    BY <1>1, <1>3, Zenon DEF CompressedEntry
  <2> QED
    BY <1>3, <2>1, <2>2, RankFacts
<1>4. (\A s \in LiveSlots(t) : Rank(t, s) # c) =>
        CompressedEntry(t, p, c) = IF c = n + 1 THEN p ELSE Erased
  BY <1>1, Zenon DEF CompressedEntry
<1>5. n \in Nat /\ (c <= n => \E s \in LiveSlots(t) : Rank(t, s) = c)
  BY <1>1, RankFacts
<1> QED
  BY <1>1, <1>2, <1>3, <1>4, <1>5

LEMMA CompressedList ==
  ASSUME NEW t \in Table, WellFormed(t), NEW p \in Offsets, ~ Enabled(t, p),
         Cardinality(LiveSlots(t)) < NSlots
  PROVE  WellFormed(Compressed(t, p)) /\ Priority(Compressed(t, p), p) = 1
<1> DEFINE n == Cardinality(LiveSlots(t))
           u == Compressed(t, p)
<1>1. n \in Nat /\ n + 1 \in Slots
  BY RankFacts DEF Slots
<1>2. u \in Table
  BY CompressedType
<1>3. \A c \in Slots :
        /\ c \in Nat
        /\ c <= n => \E s \in LiveSlots(t) : Rank(t, s) = c /\ u[c] = t[s]
        /\ c = n + 1 => u[c] = p
        /\ c > n + 1 => u[c] = Erased
  BY CompressedEntries DEF Slots
<1>4. \A s \in LiveSlots(t) : s \in Slots /\ Live(t[s]) /\ t[s] # p
  BY DEF LiveSlots, Enabled
<1>5. \A s, r \in LiveSlots(t) : t[s] = t[r] => s = r
  BY <1>4 DEF WellFormed, Slots
<1> HIDE DEF u, n
<1>6. ASSUME NEW x \in Slots, NEW y \in Slots, x < y
      PROVE  (Live(u[x]) => u[x] # u[y]) /\ (u[x] = Erased => u[y] = Erased)
  <2>1. CASE y <= n
    <3>1. x <= n
      BY <1>1, <1>3, <1>6, <2>1
    <3>2. PICK s \in LiveSlots(t) : Rank(t, s) = x /\ u[x] = t[s]
      BY <1>3, <3>1
    <3>3. PICK r \in LiveSlots(t) : Rank(t, r) = y /\ u[y] = t[r]
      BY <1>3, <2>1
    <3>4. s # r
      BY <1>3, <1>6, <3>2, <3>3
    <3> QED
      BY <1>4, <1>5, <3>2, <3>3, <3>4 DEF Live
  <2>2. CASE x <= n /\ y > n
    <3>1. PICK s \in LiveSlots(t) : u[x] = t[s]
      BY <1>3, <2>2
    <3>2. u[y] \in {p, Erased}
      BY <1>1, <1>3, <2>2
    <3> QED
      BY <1>4, <3>1, <3>2 DEF Live
  <2>3. CASE x > n
    <3>1. u[y] = Erased /\ u[x] \in {p, Erased}
      BY <1>1, <1>3, <1>6, <2>3
    <3> QED
      BY <3>1, WordFacts DEF Live
  <2> QED
    BY <1>1, <1>3, <1>6, <2>1, <2>2, <2>3
<1>7. WellFormed(u)
  BY <1>6 DEF WellFormed
<1>8. /\ u[n + 1] = p
      /\ \A r \in Slots : n + 1 < r => u[r] = Erased
      /\ \A r \in Slots : u[r] = p => r = n + 1
  <2>1. ASSUME NEW r \in Slots, u[r] = p
        PROVE  r = n + 1
    <3>1. ~ (r <= n)
      BY <1>3, <1>4, <2>1
    <3>2. ~ (r > n + 1)
      BY <1>3, <2>1, WordFacts
    <3> QED
      BY <1>1, <1>3, <3>1, <3>2
  <2> QED
    BY <1>1, <1>3, <2>1
<1>9. Priority(u, p) = 1
  BY <1>1, <1>2, <1>8, PriorityOfLast, WordFacts DEF Live
<1> QED
  BY <1>7, <1>9 DEF u

-----------------------------------------------------------------------------
(* The steps that only write, and those that end a call without success *)

LEMMA StillWriting ==
  ASSUME ListInv, InFlight, InFlight', Replacing' => Replacing,
         UNCHANGED <<corrupted, committed, target, trusted, call>>
  PROVE  ListInv'
<1>1. ListHistory'
  BY DEF ListInv, ListHistory, WellFormed, Good
<1>2. EnablePlan'
  BY DEF ListInv, EnablePlan, InFlight
<1>3. AddedOnce'
  BY DEF ListInv, AddedOnce, Writing, InFlight, Enabled
<1>4. AddedFirst'
  BY DEF ListInv, AddedFirst, Writing, Priority, Enabled, LiveSlots, Highest
<1> QED
  BY <1>1, <1>2, <1>3, <1>4 DEF ListInv

LEMMA WriteList ==
  ASSUME IInv, ListInv, EraseCopy \/ WriteBody \/ WriteMagic
  PROVE  ListInv'
<1>1. /\ InFlight /\ InFlight' /\ Rewriting
      /\ UNCHANGED <<corrupted, committed, target, trusted, call, job>>
  BY DEF EraseCopy, WriteBody, WriteMagic, InFlight, Rewriting, memory, history
<1> QED
  BY <1>1, StillWriting DEF Replacing

\* A call that ends without success has nothing to show but the tables in flash.
LEMMA EndsList ==
  ASSUME ListInv, pc' \in {"down", "idle", "check"}, trusted' => trusted,
         UNCHANGED <<committed, target>>,
         call'.op # "enable" \/ call'.next = "fail", call'.next # "add"
  PROVE  ListInv'
<1>1. ListHistory'
  BY DEF ListInv, ListHistory, WellFormed, Replacing, Rewriting
<1>2. EnablePlan' /\ AddedOnce' /\ AddedFirst'
  BY DEF EnablePlan, AddedOnce, AddedFirst
<1> QED
  BY <1>1, <1>2 DEF ListInv

LEMMA FailList ==
  ASSUME IInv, ListInv,
         \/ UpdateFails \/ WriteFails \/ PriorityAddFull \/ Stop \/ PowerCycle
         \/ LoadRefused \/ LoadUnmatched
         \/ \E unread : LoadReadFails(unread) \/ LoadNone(unread)
  PROVE  ListInv'
<1>1. /\ call \in Calls /\ trusted \in BOOLEAN
      /\ call.next = "add" => call.op = "enable"
  BY DEF IInv, TypeOK, Control
<1>2. pc' \in {"down", "idle", "check"} /\ UNCHANGED <<committed, target>>
  BY DEF UpdateFails, WriteFails, PriorityAddFull, Stop, PowerCycle, Down, LoadRefused,
     LoadUnmatched, LoadReadFails, LoadNone, ReportCorrupted, Abort, history
<1>3. trusted' => trusted
  BY DEF UpdateFails, WriteFails, PriorityAddFull, Stop, PowerCycle, Down, LoadRefused,
     LoadUnmatched, LoadReadFails, LoadNone, history
<1>4. (call'.op # "enable" \/ call'.next = "fail") /\ call'.next # "add"
  BY <1>1 DEF UpdateFails, WriteFails, PriorityAddFull, Stop, PowerCycle, Down, Request,
     LoadRefused, LoadUnmatched, LoadReadFails, LoadNone, ReportCorrupted, Abort, Calls
<1> QED
  BY <1>2, <1>3, <1>4, EndsList

-----------------------------------------------------------------------------
(* load_cpb *)

\* load_cpb succeeds with a table that may be settled on, the target when
\* rsu_slot_enable asked for it.
LEMMA ProceedList ==
  ASSUME IInv, ListInv, Writing, Proceed, trusted' = trusted,
         UNCHANGED corrupted,
         trusted => /\ committed' = target' /\ target' \in {committed, target}
                    /\ cpb' = target'
                    /\ (call.op = "enable" /\ call.next # "fail") => target' = target
  PROVE  ListInv'
<1>1. /\ call \in Calls
      /\ call.next = "add" => call.op = "enable"
  BY DEF IInv, TypeOK, Control
<1>2. /\ pc' = IF call.next = "add" THEN "add" ELSE "idle"
      /\ call'.op = call.op /\ call'.ptr = call.ptr
      /\ call'.next = IF call.next = "add" THEN "ok" ELSE call.next
  BY <1>1 DEF Proceed, Calls
<1>3. ListHistory'
  BY <1>2 DEF ListInv, ListHistory, WellFormed, Replacing, Rewriting
<1>4. EnablePlan'
  BY <1>1, <1>2 DEF ListInv, EnablePlan
<1>5. AddedOnce'
  BY <1>1, <1>2 DEF ListInv, AddedOnce, Writing, InFlight, Enabled
<1>6. AddedFirst'
  <2> SUFFICES ASSUME trusted', call'.op = "enable", call'.next = "ok",
                      Writing' \/ Idle'
               PROVE  Priority(target', call'.ptr) = 1
    BY DEF AddedFirst
  <2>1. call.next = "ok" /\ target' = target
    BY <1>1, <1>2 DEF Writing, InFlight, Idle
  <2>2. Priority(target, call.ptr) = 1
    BY <1>2, <2>1 DEF ListInv, AddedFirst
  <2> QED
    BY <1>2, <2>1, <2>2
<1> QED
  BY <1>3, <1>4, <1>5, <1>6 DEF ListInv

LEMMA LoadList ==
  ASSUME IInv, ListInv, LoadCpb
  PROVE  ListInv'
<1> USE DEF durable
<1>0. /\ call \in Calls
      /\ call.next = "add" => call.op = "enable"
  BY DEF IInv, TypeOK, Control
<1>1. CASE LoadMatched
  <2>1. /\ pc = "check" /\ Proceed /\ UNCHANGED <<corrupted, trusted>>
        /\ cpb' = flash[0] /\ committed' = flash[0] /\ target' = flash[0]
    BY <1>1 DEF LoadMatched, Settle
  <2>2. trusted => flash[0] \in {committed, target}
    BY <1>1, Readable DEF LoadMatched
  <2>3. (trusted /\ call.op = "enable" /\ call.next # "fail") => flash[0] = target
    BY <2>1 DEF ListInv, EnablePlan, Copies
  <2> QED
    BY <2>1, <2>2, <2>3, ProceedList DEF Writing
<1>2. ASSUME NEW unread, LoadRepair(unread)
      PROVE  ListInv'
  <2>1. PICK c \in Copies : /\ Passes(unread) = {c}
                            /\ committed' = flash[c] /\ target' = flash[c]
    BY <1>2 DEF LoadRepair, Settle
  <2>2. /\ pc = "check" /\ pc' = "erase" /\ job' = "load_cpb"
        /\ trusted' => trusted /\ unread = {}
        /\ UNCHANGED <<corrupted, call>>
    BY <1>2 DEF LoadRepair
  <2>3. trusted' => target' \in {committed, target}
    BY <2>1, <2>2, Readable
  <2>4. (trusted' /\ call.op = "enable" /\ call.next # "fail") => target' = target
    BY <2>1, <2>2 DEF ListInv, EnablePlan
  <2>5. ListHistory'
    BY <2>1, <2>2, <2>3 DEF ListInv, ListHistory, WellFormed, Replacing
  <2>6. EnablePlan'
    BY <2>2 DEF ListInv, EnablePlan
  <2>7. AddedOnce'
    BY <1>0, <2>2, <2>4 DEF ListInv, AddedOnce, Writing, Enabled
  <2>8. AddedFirst'
    <3> SUFFICES ASSUME trusted', call'.op = "enable", call'.next = "ok"
                 PROVE  Priority(target', call'.ptr) = 1
      BY DEF AddedFirst
    <3>1. Priority(target, call.ptr) = 1
      BY <2>2 DEF ListInv, AddedFirst, Writing
    <3> QED
      BY <2>2, <2>4, <3>1
  <2> QED
    BY <2>5, <2>6, <2>7, <2>8 DEF ListInv
<1> QED
  BY <1>1, <1>2, FailList DEF LoadCpb

-----------------------------------------------------------------------------
(* The last writes of update_cpb, writeback_cpb and of a repair *)

LEMMA EndRepairList ==
  ASSUME IInv, ListInv, EndRepair
  PROVE  ListInv'
<1>1. /\ pc = "magic" /\ Proceed /\ cpb' = WithMagic(cpb)
      /\ UNCHANGED <<corrupted, committed, target, trusted>>
  BY DEF EndRepair, LastMagic
<1>2. trusted => WithMagic(cpb) = target /\ committed = target
  BY RepairEnds
<1> QED
  BY <1>1, <1>2, ProceedList DEF Writing, InFlight

\* Flash is written, and is read again next.
LEMMA ReloadList ==
  ASSUME ListInv, Writing, pc' = "check", trusted => \A c \in Copies : flash'[c] = target,
         UNCHANGED <<corrupted, committed, target, trusted, call>>
  PROVE  ListInv'
<1>1. ListHistory'
  BY DEF ListInv, ListHistory, WellFormed, Replacing, Rewriting
<1>2. EnablePlan'
  BY DEF ListInv, EnablePlan
<1>3. AddedOnce'
  BY DEF ListInv, AddedOnce, Enabled
<1>4. AddedFirst'
  <2> SUFFICES ASSUME trusted', call'.op = "enable", call'.next = "ok"
               PROVE  Priority(target', call'.ptr) = 1
    BY DEF AddedFirst
  <2>1. Priority(target, call.ptr) = 1
    BY DEF ListInv, AddedFirst
  <2> QED
    BY <2>1
<1> QED
  BY <1>1, <1>2, <1>3, <1>4 DEF ListInv

LEMMA EndWritebackList ==
  ASSUME IInv, ListInv, EndWriteback
  PROVE  ListInv'
<1>1. /\ pc = "magic" /\ job = "writeback_cpb" /\ call \in Calls
  BY DEF EndWriteback, LastMagic, IInv, TypeOK
<1>2. CASE call.op \in {"empty", "restore"}
  <2>1. /\ pc' = "idle" /\ call'.op = call.op /\ call'.next = "ok"
        /\ committed' = target /\ target' = target /\ trusted' = Good(target)
    BY <1>1, <1>2 DEF EndWriteback, Settle, Calls
  <2>2. Good(target) => WellFormed(target)
    BY <1>1, <1>2 DEF ListInv, ListHistory, Replacing, Rewriting
  <2>3. ListHistory'
    BY <2>1, <2>2 DEF ListHistory, Replacing, Rewriting, WellFormed
  <2>4. EnablePlan' /\ AddedOnce' /\ AddedFirst'
    BY <1>2, <2>1 DEF EnablePlan, AddedOnce, AddedFirst
  <2> QED
    BY <2>3, <2>4 DEF ListInv
<1>3. CASE call.op \notin {"empty", "restore"}
  <2>1. pc' = "check" /\ UNCHANGED <<corrupted, committed, target, trusted, call>>
    BY <1>3 DEF EndWriteback, history
  <2>2. trusted => \A c \in Copies : flash'[c] = target
    BY WritebackEnds
  <2> QED
    BY <1>1, <2>1, <2>2, ReloadList DEF Writing, InFlight
<1> QED
  BY <1>2, <1>3

LEMMA UpdateList ==
  ASSUME IInv, ListInv, UpdateCopy
  PROVE  ListInv'
<1>1. /\ pc = "write" /\ pc' = (IF todo = Copies THEN "write" ELSE "check")
      /\ UNCHANGED <<corrupted, committed, target, trusted, call>>
  BY DEF UpdateCopy, memory, history
<1>2. CASE todo = Copies
  BY <1>1, <1>2, StillWriting DEF InFlight, Replacing, Rewriting
<1>3. CASE todo # Copies
  <2>1. trusted => /\ Copy = Other(First) /\ flash[First] = target
                   /\ Copies = {First, Other(First)} /\ Other(First) # First
    BY <1>1, <1>3, CopiesFacts DEF IInv, Updating, Copy
  <2>2. trusted => \A c \in Copies : flash'[c] = target
    BY <2>1, UpdateWritten
  <2> QED
    BY <1>1, <1>3, <2>2, ReloadList DEF Writing, InFlight
<1> QED
  BY <1>2, <1>3

-----------------------------------------------------------------------------
(* priority_remove and priority_add *)

LEMMA RemoveList ==
  ASSUME IInv, ListInv, PriorityRemove
  PROVE  ListInv'
<1> USE DEF durable, memory, history
<1>0. /\ pc = "remove" /\ cpb \in Table /\ call \in Calls /\ call.ptr \in Offsets
      /\ call.next = "add" => call.op = "enable"
      /\ call.op = "enable" => call.next = "add"
  BY DEF PriorityRemove, IInv, TypeOK, Control, ListInv, EnablePlan
<1>1. trusted => /\ \A c \in Copies : flash[c] = cpb
                 /\ committed = cpb /\ target = cpb /\ WellFormed(cpb)
  BY <1>0 DEF IInv, Whole, ListInv, ListHistory
<1>2. CASE Enabled(cpb, call.ptr)
  <2> DEFINE t == [cpb EXCEPT ![Lowest({s \in Slots : cpb[s] = call.ptr})] = Spent]
  <2>1. /\ pc' = "write" /\ target' = t
        /\ UNCHANGED <<corrupted, call, committed, trusted>>
    BY <1>2 DEF PriorityRemove, WriteBoth
  <2>2. trusted => WellFormed(t) /\ ~ Enabled(t, call.ptr)
    BY <1>0, <1>1, <1>2, SpendList
  <2> HIDE DEF t
  <2>3. ListHistory'
    BY <1>1, <2>1, <2>2 DEF ListHistory, WellFormed, Replacing, Rewriting
  <2>4. EnablePlan'
    BY <2>1 DEF ListInv, EnablePlan
  <2>5. AddedOnce'
    BY <2>1, <2>2 DEF AddedOnce, Enabled
  <2>6. AddedFirst'
    BY <1>0, <2>1 DEF AddedFirst
  <2> QED
    BY <2>3, <2>4, <2>5, <2>6 DEF ListInv
<1>3. CASE ~ Enabled(cpb, call.ptr)
  <2>1. /\ pc' = "check"
        /\ UNCHANGED <<flash, cpb, corrupted, call, committed, target, trusted>>
    BY <1>3 DEF PriorityRemove
  <2>2. ListHistory'
    BY <2>1 DEF ListInv, ListHistory, WellFormed, Replacing, Rewriting
  <2>3. EnablePlan'
    BY <1>1, <2>1 DEF ListInv, EnablePlan
  <2>4. AddedOnce'
    BY <1>1, <1>3, <2>1 DEF AddedOnce, Enabled
  <2>5. AddedFirst'
    BY <1>0, <2>1 DEF AddedFirst
  <2> QED
    BY <2>2, <2>3, <2>4, <2>5 DEF ListInv
<1> QED
  BY <1>2, <1>3

LEMMA AddingList ==
  ASSUME IInv, ListInv, pc = "add", NEW t,
         trusted => WellFormed(t) /\ Priority(t, call.ptr) = 1,
         pc' \in {"write", "erase"}, target' = t,
         UNCHANGED <<corrupted, call, committed, trusted>>
  PROVE  ListInv'
<1>1. call.next = "ok" /\ call.op \in {"enable", "disable", "program"}
  BY DEF ListInv, EnablePlan, IInv, Control
<1>2. ListHistory'
  BY <1>1 DEF ListInv, ListHistory, WellFormed, Replacing
<1>3. EnablePlan'
  BY DEF ListInv, EnablePlan
<1>4. AddedOnce'
  BY <1>1 DEF AddedOnce
<1>5. AddedFirst'
  BY DEF AddedFirst
<1> QED
  BY <1>2, <1>3, <1>4, <1>5 DEF ListInv

LEMMA AddCallList ==
  ASSUME IInv, ListInv, PriorityAdd
  PROVE  ListInv'
<1> USE DEF durable, memory, history
<1>0. pc = "add" /\ cpb \in Table /\ call.ptr \in Offsets
  BY DEF PriorityAdd, PriorityAddInPlace, PriorityAddCompressed, PriorityAddFull, IInv,
     TypeOK, Control
<1>1. trusted => WellFormed(cpb) /\ ~ Enabled(cpb, call.ptr)
  BY <1>0 DEF IInv, Whole, ListInv, ListHistory, AddedOnce
<1>2. CASE PriorityAddInPlace
  <2> DEFINE t == [cpb EXCEPT ![Lowest(ErasedSlots(cpb))] = call.ptr]
  <2>1. /\ pc' = "write" /\ target' = t
        /\ UNCHANGED <<corrupted, call, committed, trusted>>
    BY <1>2 DEF PriorityAddInPlace, WriteBoth
  <2>2. trusted => WellFormed(t) /\ Priority(t, call.ptr) = 1
    BY <1>0, <1>1, <1>2, AddList DEF PriorityAddInPlace
  <2> HIDE DEF t
  <2> QED
    BY <1>0, <2>1, <2>2, AddingList
<1>3. CASE PriorityAddCompressed
  <2> DEFINE t == Compressed(cpb, call.ptr)
  <2>1. /\ pc' = "erase" /\ target' = t
        /\ UNCHANGED <<corrupted, call, committed, trusted>>
    BY <1>3 DEF PriorityAddCompressed, WriteBoth
  <2>2. trusted => WellFormed(t) /\ Priority(t, call.ptr) = 1
    BY <1>0, <1>1, <1>3, CompressedList DEF PriorityAddCompressed
  <2> HIDE DEF t
  <2> QED
    BY <1>0, <2>1, <2>2, AddingList
<1> QED
  BY <1>2, <1>3, FailList DEF PriorityAdd

-----------------------------------------------------------------------------
(* Calls *)

LEMMA EmptyList == WellFormed(EmptyTable)
BY HeaderInCells, WordFacts DEF WellFormed, EmptyTable, Live

LEMMA ReplaceList ==
  ASSUME IInv, ListInv, NEW op \in {"empty", "restore"}, NEW t,
         Good(t) => WellFormed(t), Replace(op, t)
  PROVE  ListInv'
<1>1. /\ target' = t /\ call'.op = op /\ call'.next = "ok" /\ pc' = "erase"
      /\ trusted' => trusted /\ Good(t)
      /\ UNCHANGED committed
  BY DEF Replace, Request, WriteBoth
<1>2. ListHistory'
  BY <1>1 DEF ListInv, ListHistory, WellFormed, Good
<1>3. EnablePlan' /\ AddedOnce' /\ AddedFirst'
  BY <1>1 DEF EnablePlan, AddedOnce, AddedFirst
<1> QED
  BY <1>2, <1>3 DEF ListInv

LEMMA ApiList ==
  ASSUME IInv, ListInv, WellFormedBackups, Api
  PROVE  ListInv'
<1> USE DEF durable, memory, history
<1>1. CASE Open
  <2>1. /\ pc' = "check" /\ call'.op = "open" /\ call'.next = "ok"
        /\ UNCHANGED <<committed, target, trusted>>
    BY <1>1 DEF Open, Request
  <2> QED
    BY <2>1, EndsList
<1>2. ASSUME NEW p \in Offsets,
             Enable(p) \/ Disable(p) \/ ProgramSlot(p) \/ ProgramCallback(p)
      PROVE  ListInv'
  <2>1. /\ Idle /\ cpb \in Table
        /\ pc' \in {"remove", "add"}
        /\ trusted' => trusted
        /\ UNCHANGED <<cpb, corrupted, committed, target>>
    BY <1>2 DEF Enable, Disable, ProgramSlot, ProgramCallback, Begin, IInv, TypeOK
  <2>2. ListHistory'
    BY <2>1 DEF ListInv, ListHistory, WellFormed, Replacing, Rewriting
  <2>3. EnablePlan'
    BY <1>2 DEF Enable, Disable, ProgramSlot, ProgramCallback, Begin, Request, EnablePlan
  <2>4. AddedOnce'
    <3>1. CASE Enable(p) \/ Disable(p)
      BY <3>1 DEF Enable, Disable, Begin, AddedOnce, Writing, InFlight
    <3>2. CASE ProgramSlot(p) \/ ProgramCallback(p)
      <4>1. pc' = "add" /\ call'.ptr = p /\ call'.next = "ok" /\ Priority(cpb, p) = 0
        BY <3>2 DEF ProgramSlot, ProgramCallback, Begin, Request
      <4>2. ~ Enabled(cpb, p)
        BY <2>1, <4>1, PriorityOfNone
      <4> QED
        BY <2>1, <4>1, <4>2 DEF AddedOnce, Enabled
    <3> QED
      BY <1>2, <3>1, <3>2
  <2>5. AddedFirst'
    BY <2>1 DEF AddedFirst, Writing, InFlight, Idle
  <2> QED
    BY <2>2, <2>3, <2>4, <2>5 DEF ListInv
<1>3. CASE CreateEmpty
  BY <1>3, EmptyList, ReplaceList DEF CreateEmpty
<1>4. ASSUME NEW t \in Backups, Restore(t)
      PROVE  ListInv'
  BY <1>4, ReplaceList DEF Restore, WellFormedBackups
<1> QED
  BY <1>1, <1>2, <1>3, <1>4 DEF Api

-----------------------------------------------------------------------------
(* The theorems *)

LEMMA InitList == Init => ListInv
BY EmptyList DEF Init, ListInv, ListHistory, EnablePlan, AddedOnce, AddedFirst, Replacing,
   Rewriting, Writing, InFlight

LEMMA NextList == WellFormedBackups /\ IInv /\ ListInv /\ [Next]_vars => ListInv'
<1> SUFFICES ASSUME WellFormedBackups, IInv, ListInv, [Next]_vars
             PROVE  ListInv'
  OBVIOUS
<1>1. CASE UNCHANGED vars
  <2>1. UNCHANGED <<flash, cpb, corrupted, pc, job, call, committed, target, trusted>>
    BY <1>1 DEF vars
  <2>2. ListHistory' /\ EnablePlan' /\ AddedOnce'
    BY <2>1 DEF ListInv, ListHistory, EnablePlan, AddedOnce, WellFormed, Good, Replacing,
       Rewriting, Writing, InFlight, Enabled
  <2>3. AddedFirst'
    <3>1. (Writing' <=> Writing) /\ (Idle' <=> Idle)
      BY <2>1 DEF Writing, InFlight, Idle
    <3>2. Priority(target', call'.ptr) = Priority(target, call.ptr)
      BY <2>1
    <3> QED
      BY <2>1, <3>1, <3>2 DEF ListInv, AddedFirst
  <2> QED
    BY <2>2, <2>3 DEF ListInv
<1>2. CASE Step
  BY <1>2, LoadList, WriteList, EndRepairList, EndWritebackList, UpdateList, RemoveList,
     AddCallList, FailList DEF Step
<1> QED
  BY <1>1, <1>2, ApiList, FailList DEF Next

\* Whatever is interrupted, every table that loading may settle on has a well-formed
\* list, and what rsu_slot_enable removes and adds ends up in both copies.
THEOREM ListInvariance ==
  ASSUME WellFormedBackups
  PROVE  Spec => []ListInv
BY InitList, NextList, Invariance, PTL DEF Spec

\* No slot is in the list of callers twice, and entries are used up from the front, as
\* long as rsu_restore_cpb_* is given what rsu_save_cpb_* saved of such lists.
THEOREM ListSafe ==
  ASSUME WellFormedBackups
  PROVE  Spec => []ListWellFormed
<1>1. IInv /\ ListInv => ListWellFormed
  BY DEF IInv, Whole, ListInv, ListHistory, WellFormed, ListWellFormed
<1> QED
  BY <1>1, Invariance, ListInvariance, PTL

\* rsu_slot_enable, when it returns 0, has given the slot priority one.
THEOREM EnabledFirst ==
  ASSUME WellFormedBackups
  PROVE  Spec => []EnabledIsHighest
<1>1. IInv /\ ListInv => EnabledIsHighest
  <2> SUFFICES ASSUME IInv, ListInv, trusted, Idle, call.op = "enable",
                      call.next = "ok"
               PROVE  Priority(cpb, call.ptr) = 1
    BY DEF EnabledIsHighest
  <2>1. cpb = target
    BY DEF IInv, Whole, ListInv, EnablePlan
  <2> QED
    BY <2>1 DEF ListInv, AddedFirst
<1> QED
  BY <1>1, Invariance, ListInvariance, PTL

-----------------------------------------------------------------------------
(* The order that a table stands for *)

LEMMA ListIsSeq ==
  ASSUME NEW S, NEW n \in Nat, NEW f \in [1..n -> S]
  PROVE  f \in Seq(S) /\ Len(f) = n
OBVIOUS

\* Live entries are counted from the end, without a gap.
LEMMA PlaceFacts ==
  ASSUME NEW t \in Table
  PROVE  LET n == Cardinality(LiveSlots(t))
         IN  /\ n \in Nat
             /\ \A s \in LiveSlots(t) :
                  /\ Place(t, s) \in 1..n /\ Rank(t, s) \in 1..n
                  /\ Place(t, s) = n + 1 - Rank(t, s)
             /\ \A s, r \in LiveSlots(t) : Place(t, s) = Place(t, r) => s = r
             /\ \A c \in 1..n : \E s \in LiveSlots(t) : Place(t, s) = c
<1> DEFINE L == LiveSlots(t)
           n == Cardinality(L)
<1>1. L \subseteq Slots /\ n \in Nat
  BY SlotsFinite DEF LiveSlots
<1>2. ASSUME NEW s \in L
      PROVE  Place(t, s) = n + 1 - Rank(t, s) /\ Rank(t, s) \in 1..n
  <2> DEFINE S == {r \in L : r <= s}
             R == {r \in L : r >= s}
  <2>1. /\ S \subseteq L /\ R \subseteq L /\ S \cup R = L /\ S \cap R = {s}
        /\ L \subseteq Slots
    BY <1>1, <1>2 DEF Slots
  <2>2. /\ IsFiniteSet(S) /\ Cardinality(S) \in Nat
        /\ IsFiniteSet(R) /\ Cardinality(R) \in Nat
    BY <2>1, SlotsFinite
  <2>3. Cardinality(S \cup R) = Cardinality(S) + Cardinality(R) - Cardinality(S \cap R)
    BY <2>2, FS_Union
  <2>4. Cardinality(S \cap R) = 1
    BY <2>1, FS_Singleton
  <2>5. Place(t, s) = Cardinality(R) /\ Rank(t, s) = Cardinality(S)
    BY DEF Place, Rank
  <2>6. Rank(t, s) \in 1..n
    BY RankFacts
  <2> HIDE DEF S, R
  <2>7. n = Cardinality(S) + Cardinality(R) - 1
    BY <2>1, <2>3, <2>4
  <2> QED
    BY <1>1, <2>2, <2>5, <2>6, <2>7
<1>3. \A s \in L : Place(t, s) \in 1..n
  BY <1>1, <1>2
<1>4. ASSUME NEW s \in L, NEW r \in L, Place(t, s) = Place(t, r)
      PROVE  s = r
  <2>1. Rank(t, s) = Rank(t, r)
    BY <1>1, <1>2, <1>4
  <2> QED
    BY <2>1, RankFacts
<1>5. ASSUME NEW c \in 1..n
      PROVE  \E s \in L : Place(t, s) = c
  <2>1. n + 1 - c \in 1..n
    BY <1>1
  <2>2. PICK s \in L : Rank(t, s) = n + 1 - c
    BY <2>1, RankFacts
  <2> QED
    BY <1>1, <1>2, <2>2
<1> QED
  BY <1>1, <1>2, <1>3, <1>4, <1>5

\* A list that has every live entry in its place is the table's.
LEMMA IsListOf ==
  ASSUME NEW t \in Table, NEW list,
         list = [i \in 1..Cardinality(LiveSlots(t)) |-> list[i]],
         \A s \in LiveSlots(t) : list[Place(t, s)] = t[s]
  PROVE  list = ListOf(t)
<1> SUFFICES ASSUME NEW i \in 1..Cardinality(LiveSlots(t))
             PROVE  list[i] = t[CHOOSE s \in LiveSlots(t) : Place(t, s) = i]
  BY DEF ListOf
<1>1. PICK s \in LiveSlots(t) : Place(t, s) = i
  BY PlaceFacts
<1>2. (CHOOSE r \in LiveSlots(t) : Place(t, r) = i) = s
  BY <1>1, PlaceFacts
<1> QED
  BY <1>1, <1>2

LEMMA ListFacts ==
  ASSUME NEW t \in Table
  PROVE  /\ ListOf(t) \in Seq(Word) /\ Len(ListOf(t)) = Cardinality(LiveSlots(t))
         /\ DOMAIN ListOf(t) = 1..Cardinality(LiveSlots(t))
         /\ Cardinality(LiveSlots(t)) \in Nat
         /\ \A s \in LiveSlots(t) : ListOf(t)[Place(t, s)] = t[s]
<1>1. ASSUME NEW s \in LiveSlots(t)
      PROVE  ListOf(t)[Place(t, s)] = t[s]
  <2>1. (CHOOSE r \in LiveSlots(t) : Place(t, r) = Place(t, s)) = s
    BY PlaceFacts
  <2>2. Place(t, s) \in 1..Cardinality(LiveSlots(t))
    BY PlaceFacts
  <2> QED
    BY <2>1, <2>2 DEF ListOf
<1>2. PICK n \in Nat : n = Cardinality(LiveSlots(t))
  BY PlaceFacts
<1>3. ListOf(t) = [i \in 1..n |-> ListOf(t)[i]]
  BY <1>2 DEF ListOf
<1>4. ASSUME NEW i \in 1..n
      PROVE  ListOf(t)[i] \in Word
  <2>1. PICK s \in LiveSlots(t) : Place(t, s) = i
    BY <1>2, PlaceFacts
  <2>2. t[s] \in Word
    BY HeaderInCells DEF LiveSlots, Table
  <2> QED
    BY <1>1, <2>1, <2>2
<1>5. ListOf(t) \in [1..n -> Word]
  BY <1>3, <1>4
<1> HIDE DEF ListOf
<1> QED
  BY <1>1, <1>2, <1>5, ListIsSeq

\* Whether a slot is in the list.
LEMMA HoldsEnabled ==
  ASSUME NEW t \in Table, NEW p \in Offsets
  PROVE  Holds(ListOf(t), p) <=> Enabled(t, p)
<1>1. ASSUME NEW i \in DOMAIN ListOf(t), ListOf(t)[i] = p
      PROVE  Enabled(t, p)
  <2>1. i \in 1..Cardinality(LiveSlots(t))
    BY <1>1, ListFacts
  <2>2. PICK s \in LiveSlots(t) : Place(t, s) = i
    BY <2>1, PlaceFacts
  <2> QED
    BY <1>1, <2>2, ListFacts DEF Enabled, LiveSlots
<1>2. ASSUME NEW s \in Slots, t[s] = p
      PROVE  \E i \in DOMAIN ListOf(t) : ListOf(t)[i] = p
  <2>1. s \in LiveSlots(t)
    BY <1>2, WordFacts DEF LiveSlots
  <2>2. Place(t, s) \in DOMAIN ListOf(t)
    BY <2>1, ListFacts, PlaceFacts
  <2> QED
    BY <1>2, <2>1, <2>2, ListFacts
<1> QED
  BY <1>1, <1>2 DEF Holds, Enabled

-----------------------------------------------------------------------------
(* What the edits do to the order *)

\* Spending an entry removes it.
LEMMA SpendOrder ==
  ASSUME NEW t \in Table, NEW s \in LiveSlots(t)
  PROVE  ListOf([t EXCEPT ![s] = Spent]) = Without(ListOf(t), Place(t, s))
<1> DEFINE u == [t EXCEPT ![s] = Spent]
           L == LiveSlots(t)
           list == ListOf(t)
           w == Without(list, Place(t, s))
<1>1. /\ s \in Slots /\ L \subseteq Slots /\ Slots \subseteq Nat
      /\ s \in L /\ \A x \in L : x \in Nat
  BY DEF LiveSlots, Slots
<1>2. /\ u \in Table /\ u[s] = Spent
      /\ \A r \in Slots : r # s => u[r] = t[r]
  BY <1>1, HeaderInCells DEF Table, Word, Spent
<1> HIDE DEF u
<1>3. LiveSlots(u) = L \ {s}
  BY <1>1, <1>2 DEF LiveSlots, Live
<1>4. PICK n \in Nat : n = Cardinality(L) /\ Cardinality(LiveSlots(u)) = n - 1
  <2>1. IsFiniteSet(L) /\ Cardinality(L) \in Nat
    BY <1>1, SlotsFinite
  <2>2. Cardinality(L \ {s}) = Cardinality(L) - 1
    BY <2>1, FS_RemoveElement
  <2> QED
    BY <1>3, <2>1, <2>2
<1>5. /\ Len(list) = n
      /\ \A r \in L : Place(t, r) \in 1..n /\ list[Place(t, r)] = t[r]
  BY <1>4, ListFacts, PlaceFacts
<1>6. /\ w = [i \in 1..(n - 1) |-> w[i]]
      /\ \A i \in 1..(n - 1) : w[i] = IF i < Place(t, s) THEN list[i] ELSE list[i + 1]
  BY <1>5 DEF Without
<1>7. ASSUME NEW r \in LiveSlots(u)
      PROVE  w[Place(u, r)] = u[r]
  <2>1. r \in L /\ r # s /\ u[r] = t[r] /\ r \in Nat /\ s \in Nat
    BY <1>1, <1>2, <1>3
  <2> DEFINE R == {x \in L : x >= r}
             S == {x \in L : x >= s}
  <2>2. Place(t, r) = Cardinality(R) /\ Place(t, s) = Cardinality(S)
    BY DEF Place
  <2>3. Place(u, r) = Cardinality(R \ {s})
    <3>1. {x \in LiveSlots(u) : x >= r} = R \ {s}
      BY <1>3
    <3> QED
      BY <3>1 DEF Place
  <2>4. IsFiniteSet(R) /\ IsFiniteSet(S)
    BY <1>1, SlotsFinite
  <2>5. Cardinality(R \ {s}) = IF s \in R THEN Cardinality(R) - 1 ELSE Cardinality(R)
    BY <2>4, FS_RemoveElement
  <2>6. Place(t, r) \in 1..n /\ Place(t, s) \in 1..n /\ list[Place(t, r)] = t[r]
    BY <1>5, <2>1
  <2>7. CASE r < s
    <3>1. s \in R /\ r \notin S /\ S \subseteq R /\ r \in R /\ R \subseteq Slots
      <4>1. s >= r /\ r >= r /\ ~(r >= s)
        BY <2>1, <2>7
      <4>2. \A x \in L : x >= s => x >= r
        BY <1>1, <2>1, <2>7
      <4> HIDE DEF L
      <4> QED
        BY <1>1, <2>1, <4>1, <4>2
    <3>2. Cardinality(S) < Cardinality(R)
      BY <3>1, SlotsFinite
    <3> HIDE DEF R, S, w, list
    <3>3. PICK j \in 1..(n - 1) : Place(t, r) = j + 1 /\ ~(j < Place(t, s))
      <4>1. PICK k \in Nat : k = Place(t, r) /\ k > Place(t, s) /\ k <= n
        BY <2>2, <2>6, <3>2
      <4>2. k - 1 \in 1..(n - 1) /\ k = (k - 1) + 1 /\ ~(k - 1 < Place(t, s))
        BY <2>6, <4>1
      <4> QED
        BY <4>1, <4>2
    <3>4. Place(u, r) = j
      BY <2>2, <2>3, <2>5, <3>1, <3>3
    <3> QED
      BY <1>6, <2>1, <2>6, <3>3, <3>4
  <2>8. CASE s < r
    <3>1. s \notin R /\ s \in S /\ R \subseteq S /\ S \subseteq Slots
      <4>1. s >= s /\ ~(s >= r)
        BY <2>1, <2>8
      <4>2. \A x \in L : x >= r => x >= s
        BY <1>1, <2>1, <2>8
      <4> HIDE DEF L
      <4> QED
        BY <1>1, <2>1, <4>1, <4>2
    <3>2. Cardinality(R) < Cardinality(S)
      BY <3>1, SlotsFinite
    <3> HIDE DEF R, S, w, list
    <3>3. Place(t, r) < Place(t, s) /\ Place(t, r) \in 1..(n - 1)
      BY <2>2, <2>6, <3>2
    <3>4. Place(u, r) = Place(t, r)
      BY <2>2, <2>3, <2>5, <3>1
    <3> QED
      BY <1>6, <2>1, <2>6, <3>3, <3>4
  <2> QED
    BY <2>1, <2>7, <2>8
<1> HIDE DEF w
<1>8. w = ListOf(u)
  BY <1>2, <1>4, <1>6, <1>7, IsListOf
<1> QED
  BY <1>8 DEF u, w

LEMMA HeadFacts ==
  ASSUME NEW S, NEW list \in Seq(S), NEW p \in S, NEW n \in Nat, Len(list) = n
  PROVE  /\ Headed(p, list) = [i \in 1..(n + 1) |-> Headed(p, list)[i]]
         /\ Headed(p, list)[1] = p
         /\ \A i \in 1..n : Headed(p, list)[i + 1] = list[i]
<1>1. <<p>> \in Seq(S) /\ Len(<<p>>) = 1 /\ <<p>>[1] = p
  OBVIOUS
<1> DEFINE one == <<p>>
           w == one \o list
<1> HIDE DEF one
<1>2. w \in Seq(S) /\ Len(w) = n + 1
  BY <1>1 DEF one
<1>3. \A i \in 1..(n + 1) : w[i] = IF i <= 1 THEN one[i] ELSE list[i - 1]
  BY <1>1 DEF one
<1>4. w[1] = p
  BY <1>1, <1>3 DEF one
<1>5. ASSUME NEW i \in 1..n
      PROVE  w[i + 1] = list[i]
  <2>1. PICK j \in 1..(n + 1) : j = i + 1 /\ ~(j <= 1) /\ j - 1 = i
    OBVIOUS
  <2> QED
    BY <1>3, <2>1
<1>6. w = [i \in 1..(n + 1) |-> w[i]]
  <2> HIDE DEF w
  <2>1. w \in [1..Len(w) -> S]
    BY <1>2
  <2> QED
    BY <1>2, <2>1
<1> QED
  BY <1>4, <1>5, <1>6 DEF Headed, one

\* An entry added behind all live ones comes first.
LEMMA AddOrder ==
  ASSUME NEW t \in Table, NEW s \in Slots, ~ Live(t[s]),
         \A r \in LiveSlots(t) : r < s, NEW p \in Word, Live(p)
  PROVE  /\ ListOf([t EXCEPT ![s] = p]) = Headed(p, ListOf(t))
         /\ Len(ListOf(t)) < NSlots
<1> DEFINE u == [t EXCEPT ![s] = p]
           L == LiveSlots(t)
           list == ListOf(t)
           w == Headed(p, list)
<1>1. /\ s \notin L /\ L \subseteq Slots /\ Slots \subseteq Nat
      /\ s \in Nat /\ \A x \in L : x \in Nat /\ x < s
  BY DEF LiveSlots, Slots
<1>2. /\ u \in Table /\ u[s] = p
      /\ \A r \in Slots : r # s => u[r] = t[r]
  BY <1>1, HeaderInCells DEF Table
<1> HIDE DEF u
<1>3. LiveSlots(u) = L \cup {s}
  BY <1>1, <1>2 DEF LiveSlots
<1>4. IsFiniteSet(L)
  BY <1>1, SlotsFinite
<1>5. PICK n \in Nat : n = Cardinality(L) /\ Cardinality(LiveSlots(u)) = n + 1
  BY <1>1, <1>3, <1>4, FS_AddElement, FS_CardinalityType
<1>6. /\ Len(list) = n /\ list \in Seq(Word)
      /\ \A r \in L : Place(t, r) \in 1..n /\ list[Place(t, r)] = t[r]
  BY <1>5, ListFacts, PlaceFacts
<1> HIDE DEF list, L
<1>7. /\ w = [i \in 1..(n + 1) |-> w[i]] /\ w[1] = p
      /\ \A i \in 1..n : w[i + 1] = list[i]
  BY <1>6, HeadFacts
<1> HIDE DEF w
<1>8. w[Place(u, s)] = u[s]
  <2>1. (\A x \in L : ~(x >= s)) /\ s >= s
    BY <1>1
  <2>2. {x \in LiveSlots(u) : x >= s} = {s}
    BY <1>3, <2>1
  <2>3. Place(u, s) = 1
    BY <2>2, FS_Singleton DEF Place
  <2> QED
    BY <1>2, <1>7, <2>3
<1>9. ASSUME NEW r \in L
      PROVE  w[Place(u, r)] = u[r]
  <2> DEFINE R == {x \in L : x >= r}
  <2>1. {x \in LiveSlots(u) : x >= r} = R \cup {s}
    <3>1. r \in Nat /\ s >= r
      BY <1>1
    <3> QED
      BY <1>3, <3>1
  <2>2. IsFiniteSet(R) /\ s \notin R
    BY <1>1, SlotsFinite
  <2>3. Cardinality(R \cup {s}) = Cardinality(R) + 1
    BY <2>2, FS_AddElement
  <2>4. Place(t, r) = Cardinality(R)
    BY DEF Place, L
  <2>5. Place(u, r) = Place(t, r) + 1
    BY <2>1, <2>3, <2>4 DEF Place
  <2> QED
    BY <1>1, <1>2, <1>6, <1>7, <2>5
<1>10. w = ListOf(u)
  <2>1. w = [i \in 1..Cardinality(LiveSlots(u)) |-> w[i]]
    BY <1>5, <1>7
  <2>2. \A r \in LiveSlots(u) : w[Place(u, r)] = u[r]
    BY <1>3, <1>8, <1>9
  <2> QED
    BY <1>2, <2>1, <2>2, IsListOf, Zenon
<1>11. n < NSlots
  <2>1. n + 1 <= Cardinality(Slots)
    BY <1>2, <1>5, SlotsFinite DEF LiveSlots
  <2>2. Cardinality(Slots) = NSlots
    BY FS_Interval DEF Slots
  <2> QED
    BY <2>1, <2>2
<1> QED
  BY <1>6, <1>10, <1>11 DEF u, w, list

\* Compression keeps the order and puts the added entry first.
LEMMA CompressedOrder ==
  ASSUME NEW t \in Table, NEW p \in Word, Live(p), Cardinality(LiveSlots(t)) < NSlots
  PROVE  ListOf(Compressed(t, p)) = Headed(p, ListOf(t))
<1> DEFINE u == Compressed(t, p)
           list == ListOf(t)
           w == Headed(p, list)
<1>1. PICK n \in Nat : n = Cardinality(LiveSlots(t)) /\ n < NSlots
  BY PlaceFacts
<1>2. /\ Len(list) = n /\ list \in Seq(Word)
      /\ \A r \in LiveSlots(t) :
           /\ Place(t, r) = n + 1 - Rank(t, r) /\ Place(t, r) \in 1..n
           /\ list[Place(t, r)] = t[r]
  BY <1>1, ListFacts, PlaceFacts
<1> HIDE DEF list
<1>3. /\ w = [i \in 1..(n + 1) |-> w[i]] /\ w[1] = p
      /\ \A i \in 1..n : w[i + 1] = list[i]
  BY <1>2, HeadFacts
<1> HIDE DEF w
<1>4. u \in Table
  BY CompressedType
<1>5. \A c \in Slots :
        /\ c \in Nat /\ c > 0
        /\ c <= n => \E s \in LiveSlots(t) : Rank(t, s) = c /\ u[c] = t[s]
        /\ c = n + 1 => u[c] = p
        /\ c > n + 1 => u[c] = Erased
  BY <1>1, CompressedEntries DEF Slots
<1>6. \A s \in LiveSlots(t) : Live(t[s])
  BY DEF LiveSlots
<1> HIDE DEF u
<1>7. LiveSlots(u) = 1..(n + 1)
  <2>1. 1..(n + 1) \subseteq Slots
    BY <1>1 DEF Slots
  <2>2. ASSUME NEW c \in Slots
        PROVE  Live(u[c]) <=> c <= n + 1
    <3>1. c <= n => Live(u[c])
      BY <1>5, <1>6
    <3>2. c > n + 1 => ~ Live(u[c])
      BY <1>5 DEF Live
    <3>3. c = n + 1 => Live(u[c])
      BY <1>5
    <3> QED
      BY <1>1, <1>5, <3>1, <3>2, <3>3
  <2> QED
    BY <1>1, <1>5, <2>1, <2>2 DEF LiveSlots
<1>8. Cardinality(LiveSlots(u)) = n + 1
  BY <1>1, <1>7, FS_Interval
<1>9. ASSUME NEW c \in 1..(n + 1)
      PROVE  w[Place(u, c)] = u[c]
  <2>1. {x \in LiveSlots(u) : x >= c} = c..(n + 1)
    BY <1>1, <1>7
  <2>2. Cardinality(c..(n + 1)) = n + 2 - c
    BY <1>1, FS_Interval
  <2>3. Place(u, c) = n + 2 - c
    BY <2>1, <2>2 DEF Place
  <2>4. c \in Slots /\ c \in Nat
    BY <1>1 DEF Slots
  <2>5. CASE c = n + 1
    <3>1. Place(u, c) = 1
      BY <1>1, <2>3, <2>5
    <3> QED
      BY <1>3, <1>5, <2>4, <2>5, <3>1
  <2>6. CASE c <= n
    <3>1. PICK s \in LiveSlots(t) : Rank(t, s) = c /\ u[c] = t[s]
      BY <1>5, <2>4, <2>6
    <3>2. Place(u, c) = Place(t, s) + 1
      BY <1>1, <1>2, <2>3, <2>4, <3>1
    <3>3. Place(t, s) \in 1..n /\ list[Place(t, s)] = t[s]
      BY <1>2
    <3> QED
      BY <1>3, <3>1, <3>2, <3>3
  <2> QED
    BY <1>1, <2>4, <2>5, <2>6
<1>10. w = ListOf(u)
  <2>1. w = [i \in 1..Cardinality(LiveSlots(u)) |-> w[i]]
    BY <1>3, <1>8
  <2>2. \A r \in LiveSlots(u) : w[Place(u, r)] = u[r]
    BY <1>7, <1>9
  <2> QED
    BY <1>4, <2>1, <2>2, IsListOf
<1> QED
  BY <1>10 DEF u, w, list

-----------------------------------------------------------------------------
(* The steps of the boot order *)

ServingCpb == Idle /\ ~corrupted
Within == pc \notin {"down", "idle"}

\* What the control state says about the order.
Mapped ==
  /\ ~trusted => /\ Mode = "unsafe" /\ OrderValue = None /\ OrderNext = None
                 /\ OrderView = None
  /\ trusted => OrderValue = ListOf(committed) /\ OrderNext = ListOf(target)
  /\ trusted /\ pc = "down" => Mode = "off" /\ OrderView = None
  /\ trusted /\ Within => Mode = "busy" /\ OrderView = None
  /\ trusted /\ Idle /\ corrupted => Mode = "refused" /\ OrderView = None
  /\ trusted /\ ServingCpb => Mode = "serving" /\ OrderView = ListOf(cpb)

LEMMA MappedNow == Mapped
<1>1. CASE ~trusted
  BY <1>1 DEF Mapped, Mode, OrderValue, OrderNext, OrderView
<1>2. CASE trusted
  <2>1. OrderValue = ListOf(committed) /\ OrderNext = ListOf(target)
    BY <1>2 DEF OrderValue, OrderNext
  <2>2. pc = "down" => Mode = "off"
    <3>1. pc = "down" => ~Idle
      BY DEF Idle
    <3> QED
      BY <1>2, <3>1 DEF Mode
  <2>3. Within => Mode = "busy"
    BY <1>2 DEF Mode, Within, Idle
  <2>4. Idle /\ corrupted => Mode = "refused"
    BY <1>2 DEF Mode, Idle
  <2>5. ServingCpb => Mode = "serving"
    BY <1>2 DEF Mode, ServingCpb, Idle
  <2> QED
    BY <1>2, <2>1, <2>2, <2>3, <2>4, <2>5 DEF Mapped, OrderView
<1> QED
  BY <1>1, <1>2

LEMMA MappedNext == Mapped'
BY MappedNow, PTL

\* Each kind of step, by what it does to the tables.
OrderStep == [Order!Next]_(Order!vars)

LEMMA Stutters ==
  ASSUME Within /\ Within', UNCHANGED <<committed, target, trusted>>
  PROVE  OrderStep
BY MappedNow, MappedNext DEF OrderStep, Mapped, Order!vars

LEMMA StaysLost ==
  ASSUME ~trusted, ~trusted'
  PROVE  OrderStep
BY MappedNow, MappedNext DEF OrderStep, Mapped, Order!vars

LEMMA Loses ==
  ASSUME trusted, ~trusted', pc # "down"
  PROVE  OrderStep
<1>1. Mode # "off"
  BY MappedNow DEF Mapped, Within, ServingCpb, Idle
<1>2. Order!Lose
  BY <1>1, MappedNext DEF Mapped, Order!Lose
<1> QED
  BY <1>2 DEF OrderStep, Order!Next

LEMMA Boots ==
  ASSUME pc = "down", Within', UNCHANGED <<committed, target, trusted>>
  PROVE  OrderStep
<1>1. CASE trusted
  <2>1. Order!Boot
    BY <1>1, MappedNow, MappedNext DEF Mapped, Order!Boot
  <2> QED
    BY <2>1 DEF OrderStep, Order!Next, Order!Boot
<1> QED
  BY <1>1, StaysLost

LEMMA Halts ==
  ASSUME trusted, pc' = "down", UNCHANGED <<committed, target, trusted>>
  PROVE  OrderStep
<1>1. Mode # "unsafe"
  BY MappedNow DEF Mapped, Within, ServingCpb, Idle
<1>2. Order!Halt
  BY MappedNow, MappedNext DEF Mapped, Order!Halt
<1> QED
  BY <1>1, <1>2 DEF OrderStep, Order!Next

LEMMA Refuses ==
  ASSUME trusted, Within, Idle', corrupted', UNCHANGED <<committed, target, trusted>>
  PROVE  OrderStep
<1>1. Order!Refuse
  BY MappedNow, MappedNext DEF Mapped, Order!Refuse
<1> QED
  BY <1>1 DEF OrderStep, Order!Next, Order!Refuse

LEMMA Settles ==
  ASSUME trusted, trusted', Within, committed' \in {committed, target},
         target' = committed', Within' \/ (ServingCpb' /\ cpb' = committed')
  PROVE  OrderStep
<1>1. OrderValue' \in {OrderValue, OrderNext} /\ OrderNext' = OrderValue'
  BY MappedNow, MappedNext DEF Mapped
<1>2. Order!Settle
  BY <1>1, MappedNow, MappedNext DEF Mapped, Order!Settle
<1> QED
  BY <1>2 DEF OrderStep, Order!Next, Order!Settle

LEMMA Recovers ==
  ASSUME ~trusted, trusted', target' = committed',
         ListOf(committed') \in ListReplacements,
         ServingCpb', cpb' = committed'
  PROVE  OrderStep
<1>1. Order!Recover
  BY MappedNow, MappedNext DEF Mapped, Order!Recover, FoundAgain
<1> QED
  BY <1>1 DEF OrderStep, Order!Next

LEMMA EditsOrder ==
  ASSUME trusted, trusted', Within, Within', target = committed, committed' = committed,
         ListOf(target') \in ListEdits(ListOf(committed))
  PROVE  OrderStep
<1>1. Order!Edit
  BY MappedNow, MappedNext DEF Mapped, Order!Edit
<1> QED
  BY <1>1 DEF OrderStep, Order!Next, Order!Edit

LEMMA CallsOrder ==
  ASSUME trusted, trusted', ServingCpb, Within', committed' = committed,
         ListOf(target') \in {ListOf(committed)} \cup ListReplacements
  PROVE  OrderStep
<1>1. Order!Call
  BY MappedNow, MappedNext DEF Mapped, Order!Call
<1> QED
  BY <1>1 DEF OrderStep, Order!Next, Order!Call

-----------------------------------------------------------------------------
(* Each step of the pointer block is one of the boot order, or none *)

LEMMA NextReplaced == IInv /\ ReplacedBy /\ [Next]_vars => ReplacedBy'
<1> SUFFICES ASSUME IInv, ReplacedBy, [Next]_vars, Replacing'
             PROVE  target' \in {EmptyTable} \cup Backups
  BY DEF ReplacedBy
<1> USE DEF Replacing, Rewriting
<1>1. CASE UNCHANGED vars
  BY <1>1 DEF vars, ReplacedBy
<1>2. CASE EraseCopy \/ WriteBody \/ WriteMagic
  BY <1>2 DEF EraseCopy, WriteBody, WriteMagic, memory, history, ReplacedBy
<1>3. ASSUME NEW op, NEW t \in {EmptyTable} \cup Backups, Replace(op, t)
      PROVE  target' \in {EmptyTable} \cup Backups
  BY <1>3 DEF Replace, WriteBoth
<1>4. CASE PriorityAdd \/ PriorityRemove
  BY <1>4 DEF PriorityAdd, PriorityRemove, PriorityAddInPlace, PriorityAddCompressed,
     PriorityAddFull, Abort, WriteBoth, Control, IInv
<1>5. CASE LoadCpb
  BY <1>5 DEF LoadCpb, LoadRefused, LoadMatched, LoadUnmatched, LoadRepair,
     LoadReadFails, LoadNone, ReportCorrupted, Proceed, Abort
<1>6. CASE EndRepair \/ EndWriteback \/ UpdateCopy \/ UpdateFails \/ WriteFails
  BY <1>6 DEF EndRepair, EndWriteback, UpdateCopy, UpdateFails, WriteFails, Proceed, Abort
<1>7. CASE \/ Open
           \/ \E p \in Offsets :
                Enable(p) \/ Disable(p) \/ ProgramSlot(p) \/ ProgramCallback(p)
  BY <1>7 DEF Open, Enable, Disable, ProgramSlot, ProgramCallback, Begin
<1>8. CASE Stop \/ PowerCycle
  BY <1>8 DEF Stop, PowerCycle, Down
<1> QED
  BY <1>1, <1>2, <1>3, <1>4, <1>5, <1>6, <1>7, <1>8
     DEF Next, Step, Api, CreateEmpty, Restore

LEMMA EmptyOrder == ListOf(EmptyTable) = <<>>
<1>1. LiveSlots(EmptyTable) = {}
  BY HeaderInCells DEF LiveSlots, Live, EmptyTable
<1>2. Cardinality(LiveSlots(EmptyTable)) = 0
  BY <1>1, FS_EmptySet
<1>3. 1..0 = {}
  OBVIOUS
<1> QED
  BY <1>2, <1>3 DEF ListOf

LEMMA InitOrder == Init => Order!Init
<1> SUFFICES ASSUME Init
             PROVE  Order!Init
  OBVIOUS
<1>1. trusted /\ pc = "down" /\ committed = EmptyTable /\ target = EmptyTable
  BY DEF Init
<1> QED
  BY <1>1, EmptyOrder, MappedNow DEF Mapped, Order!Init

LEMMA LoadOrder ==
  ASSUME IInv, Caused, LoadCpb
  PROVE  OrderStep
<1> USE DEF durable, memory, history
<1>0. /\ pc = "check" /\ Within /\ (trusted' => trusted)
      /\ trusted => ~corrupted
  <2>1. pc = "check"
    BY DEF LoadCpb, LoadRefused, LoadMatched, LoadUnmatched, LoadRepair, LoadReadFails,
       LoadNone
  <2>2. trusted' => trusted
    <3>1. \A unread : LoadRepair(unread) \/ LoadNone(unread) => (trusted' => trusted)
      BY DEF LoadRepair, LoadNone
    <3>2. \A unread : LoadReadFails(unread) => ~trusted'
      BY DEF LoadReadFails
    <3>3. LoadRefused \/ LoadMatched \/ LoadUnmatched => (trusted' => trusted)
      BY DEF LoadRefused, LoadMatched, LoadUnmatched
    <3> QED
      BY <3>1, <3>2, <3>3 DEF LoadCpb
  <2> QED
    BY <2>1, <2>2 DEF Within, Caused, Idle
<1>1. CASE ~trusted'
  BY <1>0, <1>1, StaysLost, Loses
<1>2. CASE LoadRefused /\ trusted'
  BY <1>0, <1>2, Refuses DEF LoadRefused, ReportCorrupted, Idle, IInv, TypeOK
<1>3. CASE LoadMatched /\ trusted'
  <2>1. committed' \in {committed, target} /\ target' = committed' /\ cpb' = committed'
    BY <1>0, <1>3, Readable DEF LoadMatched, Settle
  <2>2. Within' \/ ServingCpb'
    BY <1>0, <1>3 DEF LoadMatched, Proceed, Within, ServingCpb, Idle
  <2> QED
    BY <1>0, <1>3, <2>1, <2>2, Settles
<1>4. CASE LoadUnmatched /\ trusted'
  BY <1>0, <1>4, Refuses DEF LoadUnmatched, ReportCorrupted, Idle, IInv, TypeOK
<1>5. ASSUME NEW unread, LoadRepair(unread), trusted'
      PROVE  OrderStep
  <2>1. unread = {} /\ Within'
    BY <1>5 DEF LoadRepair, Within
  <2>2. PICK c \in Copies : Passes({}) = {c} /\ committed' = flash[c] /\ target' = flash[c]
    BY <1>5, <2>1 DEF LoadRepair, Settle
  <2>3. committed' \in {committed, target}
    BY <1>0, <1>5, <2>2, Readable
  <2> QED
    BY <1>0, <1>5, <2>1, <2>2, <2>3, Settles
<1>6. ASSUME NEW unread, LoadReadFails(unread)
      PROVE  ~trusted'
  BY <1>6 DEF LoadReadFails
<1>7. ASSUME NEW unread, LoadNone(unread), trusted'
      PROVE  OrderStep
  BY <1>0, <1>7, Refuses DEF LoadNone, ReportCorrupted, Idle, IInv, TypeOK
<1> QED
  BY <1>1, <1>2, <1>3, <1>4, <1>5, <1>6, <1>7 DEF LoadCpb

LEMMA WriteOrder ==
  ASSUME IInv, Caused, ReplacedBy,
         \/ EraseCopy \/ WriteBody \/ WriteMagic \/ EndRepair \/ EndWriteback
         \/ UpdateCopy \/ UpdateFails \/ WriteFails
  PROVE  OrderStep
<1> USE DEF memory, history
<1>0. /\ Within /\ pc # "down"
      /\ trusted => ~corrupted
  BY DEF EraseCopy, WriteBody, WriteMagic, EndRepair, EndWriteback, LastMagic,
     UpdateCopy, UpdateFails, WriteFails, Caused, Idle, Within
<1>1. CASE EraseCopy \/ WriteBody \/ WriteMagic \/ UpdateCopy
  <2>1. Within' /\ UNCHANGED <<committed, target, trusted>>
    BY <1>1 DEF EraseCopy, WriteBody, WriteMagic, UpdateCopy, Within
  <2> QED
    BY <1>0, <2>1, Stutters
<1>2. CASE EndRepair
  <2>1. /\ UNCHANGED <<committed, target, trusted, corrupted>> /\ cpb' = WithMagic(cpb)
        /\ Within' \/ Idle'
    BY <1>2 DEF EndRepair, LastMagic, Proceed, Within, Idle
  <2>2. trusted => WithMagic(cpb) = target /\ committed = target
    BY <1>2, RepairEnds
  <2>3. trusted => OrderStep
    BY <1>0, <2>1, <2>2, Settles DEF ServingCpb
  <2> QED
    BY <2>1, <2>3, StaysLost
<1>3. CASE EndWriteback /\ call.op \in {"empty", "restore"}
  <2>1. /\ Idle' /\ corrupted' = FALSE /\ cpb' = WithMagic(cpb)
        /\ committed' = target /\ target' = target
    BY <1>3 DEF EndWriteback, LastMagic, Settle, Idle
  <2>2. ServingCpb' /\ cpb' = committed'
    BY <1>3, <2>1, WritebackEnds DEF ServingCpb
  <2>3. ListOf(target) \in ListReplacements
    <3>1. Replacing
      BY <1>3 DEF EndWriteback, LastMagic, Replacing, Rewriting
    <3> QED
      BY <3>1, EmptyOrder DEF ReplacedBy, ListReplacements
  <2>4. CASE trusted /\ trusted'
    BY <1>0, <2>1, <2>2, <2>4, Settles
  <2>5. CASE ~trusted /\ trusted'
    BY <2>1, <2>2, <2>3, <2>5, Recovers
  <2> QED
    BY <1>0, <2>4, <2>5, Loses, StaysLost
<1>4. CASE EndWriteback /\ call.op \notin {"empty", "restore"}
  <2>1. Within' /\ UNCHANGED <<committed, target, trusted>>
    BY <1>4 DEF EndWriteback, Within
  <2> QED
    BY <1>0, <2>1, Stutters
<1>5. CASE UpdateFails
  <2>1. Within' /\ UNCHANGED <<committed, target>> /\ trusted' \in {trusted, FALSE}
    BY <1>5 DEF UpdateFails, Within, IInv, TypeOK
  <2> QED
    BY <1>0, <2>1, Stutters, Loses, StaysLost
<1>6. CASE WriteFails
  <2>1. /\ UNCHANGED <<committed, target>>
        /\ trusted' => trusted /\ pc' = "down"
    BY <1>6 DEF WriteFails, Abort
  <2>2. trusted' \in BOOLEAN /\ trusted \in BOOLEAN
    BY <1>6 DEF WriteFails, IInv, TypeOK
  <2> QED
    BY <1>0, <2>1, <2>2, Halts, Loses, StaysLost
<1> QED
  BY <1>1, <1>2, <1>3, <1>4, <1>5, <1>6

LEMMA PriorityOrder ==
  ASSUME IInv, Caused, ListInv, PriorityRemove \/ PriorityAdd
  PROVE  OrderStep
<1> USE DEF durable, memory, history
<1>0. /\ Within /\ pc \in {"remove", "add"} /\ cpb \in Table
      /\ call.ptr \in Offsets /\ call.ptr \in Word /\ Live(call.ptr)
      /\ UNCHANGED <<committed, trusted, corrupted, call>> \/ PriorityAddFull
  BY WordFacts DEF PriorityRemove, PriorityAdd, PriorityAddInPlace, PriorityAddCompressed,
     PriorityAddFull, Within, Control, IInv, TypeOK
<1>1. trusted => /\ committed = cpb /\ target = cpb /\ WellFormed(cpb)
                 /\ ~corrupted
                 /\ pc = "add" => ~ Enabled(cpb, call.ptr)
  BY <1>0 DEF IInv, Whole, ListInv, ListHistory, AddedOnce, Caused, Idle
<1>2. CASE PriorityRemove /\ Enabled(cpb, call.ptr)
  <2> DEFINE s == Lowest({r \in Slots : cpb[r] = call.ptr})
             t == [cpb EXCEPT ![s] = Spent]
  <2>1. target' = t /\ Within' /\ UNCHANGED <<committed, trusted>>
    BY <1>2 DEF PriorityRemove, WriteBoth, Within
  <2>2. s \in LiveSlots(cpb)
    <3>1. s \in {r \in Slots : cpb[r] = call.ptr}
      BY <1>2, LowestInSet DEF Enabled
    <3> QED
      BY <1>0, <3>1 DEF LiveSlots
  <2>3. ListOf(t) \in ListEdits(ListOf(cpb))
    <3>1. Place(cpb, s) \in DOMAIN ListOf(cpb)
      BY <1>0, <2>2, ListFacts, PlaceFacts
    <3>2. ListOf(t) = Without(ListOf(cpb), Place(cpb, s))
      BY <1>0, <2>2, SpendOrder
    <3> QED
      BY <3>1, <3>2 DEF ListEdits
  <2> HIDE DEF t
  <2> QED
    BY <1>0, <1>1, <2>1, <2>3, EditsOrder, StaysLost
<1>3. CASE PriorityRemove /\ ~ Enabled(cpb, call.ptr)
  <2>1. Within' /\ UNCHANGED <<committed, target, trusted>>
    BY <1>3 DEF PriorityRemove, Within
  <2> QED
    BY <1>0, <2>1, Stutters
<1>4. CASE PriorityAddInPlace
  <2> DEFINE s == Lowest(ErasedSlots(cpb))
             t == [cpb EXCEPT ![s] = call.ptr]
  <2>1. target' = t /\ Within' /\ UNCHANGED <<committed, trusted>> /\ pc = "add"
    BY <1>4 DEF PriorityAddInPlace, WriteBoth, Within
  <2>2. s \in Slots /\ cpb[s] = Erased
    BY <1>4, LowestInSet DEF PriorityAddInPlace, ErasedSlots
  <2>3. ASSUME trusted
        PROVE  ListOf(t) \in ListEdits(ListOf(cpb))
    <3>1. \A r \in LiveSlots(cpb) : r < s
      <4>1. ASSUME NEW r \in LiveSlots(cpb), s < r
            PROVE  FALSE
        BY <1>1, <2>2, <2>3, <4>1 DEF WellFormed, LiveSlots, Live
      <4>2. \A r \in LiveSlots(cpb) : r # s /\ r \in Nat /\ s \in Nat
        BY <2>2 DEF LiveSlots, Live, Slots
      <4> HIDE DEF s
      <4> QED
        BY <4>1, <4>2
    <3>2. ~ Live(cpb[s])
      BY <2>2 DEF Live
    <3>3. ListOf(t) = Headed(call.ptr, ListOf(cpb)) /\ Len(ListOf(cpb)) < NSlots
      BY <1>0, <2>2, <3>1, <3>2, AddOrder
    <3>4. ~ Holds(ListOf(cpb), call.ptr)
      BY <1>0, <1>1, <2>1, <2>3, HoldsEnabled
    <3> HIDE DEF t
    <3> QED
      BY <1>0, <3>3, <3>4 DEF ListEdits
  <2> HIDE DEF t
  <2> QED
    BY <1>0, <1>1, <2>1, <2>3, EditsOrder, StaysLost
<1>5. CASE PriorityAddCompressed
  <2> DEFINE t == Compressed(cpb, call.ptr)
  <2>1. /\ target' = t /\ Within' /\ UNCHANGED <<committed, trusted>> /\ pc = "add"
        /\ Cardinality(LiveSlots(cpb)) < NSlots
    BY <1>5 DEF PriorityAddCompressed, WriteBoth, Within
  <2>2. ASSUME trusted
        PROVE  ListOf(t) \in ListEdits(ListOf(cpb))
    <3>1. ListOf(t) = Headed(call.ptr, ListOf(cpb))
      BY <1>0, <2>1, CompressedOrder
    <3>2. Len(ListOf(cpb)) < NSlots
      BY <1>0, <2>1, ListFacts
    <3>3. ~ Holds(ListOf(cpb), call.ptr)
      BY <1>0, <1>1, <2>1, <2>2, HoldsEnabled
    <3> HIDE DEF t
    <3> QED
      BY <1>0, <3>1, <3>2, <3>3 DEF ListEdits
  <2> HIDE DEF t
  <2> QED
    BY <1>0, <1>1, <2>1, <2>2, EditsOrder, StaysLost
<1>6. CASE PriorityAddFull
  <2>1. /\ UNCHANGED <<cpb, corrupted, committed, target, trusted>>
        /\ call.op # "open" /\ pc' = "idle"
    BY <1>0, <1>6 DEF PriorityAddFull, Abort, Control, IInv
  <2>2. trusted => OrderStep
    BY <1>0, <1>1, <2>1, Settles DEF ServingCpb, Idle
  <2> QED
    BY <2>1, <2>2, StaysLost
<1> QED
  BY <1>2, <1>3, <1>4, <1>5, <1>6 DEF PriorityAdd

LEMMA ReplaceOrder ==
  ASSUME IInv, NEW op, NEW t, ListOf(t) \in ListReplacements, Replace(op, t)
  PROVE  OrderStep
<1>1. /\ Idle /\ pc # "down" /\ Within' /\ target' = t /\ committed' = committed
      /\ trusted' => trusted /\ ServingCpb
  BY DEF Replace, WriteBoth, Idle, Within, ServingCpb
<1>2. trusted' => OrderStep
  BY <1>1, CallsOrder
<1> QED
  BY <1>1, <1>2, StaysLost, Loses

LEMMA ApiOrder ==
  ASSUME IInv, Api
  PROVE  OrderStep
<1>1. CASE Open
  BY <1>1, Boots DEF Open, Within, history
<1>2. ASSUME NEW p \in Offsets, Enable(p) \/ Disable(p) \/ ProgramSlot(p)
      PROVE  OrderStep
  <2>1. ServingCpb /\ Within' /\ UNCHANGED <<committed, target, trusted>>
    BY <1>2 DEF Enable, Disable, ProgramSlot, Begin, Within, ServingCpb, history
  <2>2. trusted => committed = target
    BY <2>1 DEF ServingCpb, IInv, Whole
  <2>3. trusted => OrderStep
    BY <2>1, <2>2, CallsOrder
  <2> QED
    BY <2>1, <2>3, StaysLost
<1>3. ASSUME NEW p, ProgramCallback(p)
      PROVE  OrderStep
  BY <1>3, StaysLost, Loses DEF ProgramCallback, Idle
<1>4. CASE CreateEmpty
  BY <1>4, ReplaceOrder, EmptyOrder DEF CreateEmpty, ListReplacements
<1>5. ASSUME NEW t \in Backups, Restore(t)
      PROVE  OrderStep
  BY <1>5, ReplaceOrder DEF Restore, ListReplacements
<1> QED
  BY <1>1, <1>2, <1>3, <1>4, <1>5 DEF Api

LEMMA NextOrder ==
  ASSUME IInv, Caused, ListInv, ReplacedBy, [Next]_vars
  PROVE  OrderStep
<1>1. CASE UNCHANGED vars
  <2>1. UNCHANGED <<OrderValue, OrderNext, Mode, OrderView>>
    BY <1>1 DEF vars, OrderValue, OrderNext, OrderView, Mode, Idle
  <2> QED
    BY <2>1 DEF OrderStep, Order!vars
<1>2. CASE Stop \/ PowerCycle
  <2>1. pc' = "down" /\ UNCHANGED <<committed, target, trusted>>
    BY <1>2 DEF Stop, PowerCycle, Down
  <2> QED
    BY <2>1, Halts, StaysLost
<1> QED
  BY <1>1, <1>2, LoadOrder, WriteOrder, PriorityOrder, ApiOrder DEF Next, Step

\* The pointer block implements the boot order: whatever is interrupted, calls change
\* the list that the firmware and callers see one edit at a time.
THEOREM KeepsBootOrder ==
  ASSUME WellFormedBackups
  PROVE  Spec => ImplementsBootOrder
<1>1. Init => Caused /\ ReplacedBy
  BY DEF Init, Caused, Copies, ReplacedBy, Replacing, Rewriting
<1>2. IInv /\ Caused /\ ListInv /\ ReplacedBy /\ [Next]_vars => [Order!Next]_(Order!vars)
  BY NextOrder DEF OrderStep
<1> QED
  BY <1>1, <1>2, InitOrder, NextReplaced, NextCaused, Invariance, ListInvariance, PTL
     DEF Spec, ImplementsBootOrder, Order!Spec
=============================================================================
