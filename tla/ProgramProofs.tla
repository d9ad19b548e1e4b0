--------------------------- MODULE ProgramProofs ---------------------------
(***************************************************************************)
(* Theorems about Program, for every slot, set of bitstreams, length of    *)
(* the list of sections, set of I/O errors and number of faults, and about *)
(* the state machine of Image, for every bitstream.                        *)
(***************************************************************************)
EXTENDS ProgramInvariant, TLAPS, FiniteSetTheorems, SequenceTheorems, WellFoundedInduction

USE SlotAssumption, MaxSectionsAssumption, StreamsAssumption, NothingAssumption,
    MaxFaultsAssumption

-----------------------------------------------------------------------------
(* Induction, said of sets *)

LEMMA LeastExists ==
  ASSUME NEW S \in SUBSET Nat, S # {}
  PROVE  \E s \in S : \A r \in S : s <= r
<1> DEFINE R == OpToRel(<, Nat)
<1>1. \E x \in S : \A y \in S : ~ (<<y, x>> \in R)
  <2>1. IsWellFoundedOn(R, Nat)
    BY NatLessThanWellFounded
  <2> HIDE DEF R
  <2> QED
    BY <2>1, WFMin
<1>2. PICK x \in S : \A y \in S : ~ (<<y, x>> \in R)
  BY <1>1
<1>3. \A y \in S : ~ (y < x)
  BY <1>2 DEF OpToRel
<1> QED
  BY <1>3

LEMMA UpTo ==
  ASSUME NEW n \in Nat, NEW S, 0 \in S, \A k \in 0..(n - 1) : k \in S => k + 1 \in S
  PROVE  \A k \in 0..n : k \in S
<1> SUFFICES ASSUME NEW bad \in 0..n, bad \notin S
             PROVE  FALSE
  OBVIOUS
<1> DEFINE without == {k \in 0..n : k \notin S}
<1>1. without \in SUBSET Nat /\ without # {}
  OBVIOUS
<1> HIDE DEF without
<1>2. PICK k \in without : \A l \in without : k <= l
  BY <1>1, LeastExists
<1>3. k \in 0..n /\ k \notin S /\ k # 0
  BY <1>2 DEF without
<1>4. k - 1 \in 0..(n - 1) /\ k - 1 \notin without
  BY <1>2, <1>3 DEF without
<1>5. k - 1 \in S
  BY <1>4 DEF without
<1> QED
  BY <1>3, <1>4, <1>5

LEMMA AllNats ==
  ASSUME NEW S, 0 \in S, \A k \in Nat : k \in S => k + 1 \in S
  PROVE  \A k \in Nat : k \in S
<1> TAKE n \in Nat
<1>1. \A k \in 0..(n - 1) : k \in S => k + 1 \in S
  OBVIOUS
<1>2. \A k \in 0..n : k \in S
  BY <1>1, UpTo
<1> QED
  BY <1>2

-----------------------------------------------------------------------------
(* The pointers of a signature block join the list of sections *)

\* The loop of sig_block_process, up to pointer n of ptrs.
Adds(sections, absolute, ptrs, n, after) ==
  after = [x \in 0..n |->
             IF x = 0 THEN sections
             ELSE IF ptrs[x] = 0 THEN after[x - 1]
             ELSE AddSection(after[x - 1], Target(absolute, ptrs[x]))]
Added(sections, absolute, ptrs) ==
  (CHOOSE after : Adds(sections, absolute, ptrs, Len(ptrs), after))[Len(ptrs)]

\* Where the pointers that are set point to.
Targets(absolute, ptrs, n) == {Target(absolute, ptrs[x]) : x \in {y \in 1..n : ptrs[y] # 0}}

LEMMA AddsExists ==
  ASSUME NEW sections, NEW absolute, NEW ptrs
  PROVE  \A n \in Nat : \E after : Adds(sections, absolute, ptrs, n, after)
<1> DEFINE good == {n \in Nat : \E after : Adds(sections, absolute, ptrs, n, after)}
<1>1. 0 \in good
  <2> DEFINE after == [x \in 0..0 |-> sections]
  <2>1. Adds(sections, absolute, ptrs, 0, after)
    BY DEF Adds
  <2> QED
    BY <2>1
<1>2. ASSUME NEW m \in Nat, m \in good
      PROVE  m + 1 \in good
  <2>1. PICK after : Adds(sections, absolute, ptrs, m, after)
    BY <1>2
  <2> DEFINE last == IF ptrs[m + 1] = 0 THEN after[m]
                     ELSE AddSection(after[m], Target(absolute, ptrs[m + 1]))
             longer == [x \in 0..(m + 1) |-> IF x = m + 1 THEN last ELSE after[x]]
  <2>2. longer[m + 1] = last /\ \A x \in 0..m : longer[x] = after[x]
    <3> HIDE DEF last
    <3>1. m + 1 \in 0..(m + 1) /\ \A x \in 0..m : x \in 0..(m + 1) /\ x # m + 1
      OBVIOUS
    <3> QED
      BY <3>1
  <2>3. ASSUME NEW x \in 0..(m + 1)
        PROVE  longer[x] = IF x = 0 THEN sections
                           ELSE IF ptrs[x] = 0 THEN longer[x - 1]
                           ELSE AddSection(longer[x - 1], Target(absolute, ptrs[x]))
    <3> HIDE DEF longer
    <3>1. CASE x = m + 1
      <4>1. x # 0 /\ x - 1 = m /\ m \in 0..m
        BY <3>1
      <4> QED
        BY <2>2, <3>1, <4>1
    <3>2. CASE x # m + 1
      <4>1. x \in 0..m /\ (x # 0 => x - 1 \in 0..m)
        BY <3>2
      <4>2. after[x] = IF x = 0 THEN sections
                       ELSE IF ptrs[x] = 0 THEN after[x - 1]
                       ELSE AddSection(after[x - 1], Target(absolute, ptrs[x]))
        BY <2>1, <4>1 DEF Adds
      <4> QED
        BY <2>2, <4>1, <4>2
    <3> QED
      BY <3>1, <3>2
  <2>4. Adds(sections, absolute, ptrs, m + 1, longer)
    BY <2>3 DEF Adds
  <2> QED
    BY <2>4
<1> HIDE DEF good
<1>3. \A n \in Nat : n \in good
  BY <1>1, <1>2, AllNats
<1> QED
  BY <1>3 DEF good

\* As long as they fit the list, all the targets join it.
LEMMA AllAdded ==
  ASSUME NEW sections, NEW absolute, NEW ptrs \in Seq(Nat),
         NEW all, IsFiniteSet(all), Cardinality(all) <= MaxSections,
         all = sections \cup Targets(absolute, ptrs, Len(ptrs))
  PROVE  Added(sections, absolute, ptrs) = all
<1> DEFINE after == CHOOSE after : Adds(sections, absolute, ptrs, Len(ptrs), after)
<1>1. PICK n \in Nat : Len(ptrs) = n
  OBVIOUS
<1>2. Adds(sections, absolute, ptrs, n, after)
  <2>1. \E some : Adds(sections, absolute, ptrs, n, some)
    BY AddsExists
  <2> QED
    BY <1>1, <2>1, Zenon
<1> HIDE DEF after
<1>3. \A x \in 0..n :
        after[x] = IF x = 0 THEN sections
                   ELSE IF ptrs[x] = 0 THEN after[x - 1]
                   ELSE AddSection(after[x - 1], Target(absolute, ptrs[x]))
  BY <1>2 DEF Adds
<1> DEFINE good == {x \in 0..n : after[x] = sections \cup Targets(absolute, ptrs, x)}
<1>4. 0 \in good
  <2>1. 0 \in 0..n
    OBVIOUS
  <2>2. after[0] = sections
    BY <1>3, <2>1, Zenon
  <2>3. Targets(absolute, ptrs, 0) = {}
    BY DEF Targets
  <2> QED
    BY <2>1, <2>2, <2>3
<1>5. ASSUME NEW x \in 0..(n - 1), x \in good
      PROVE  x + 1 \in good
  <2>1. /\ x + 1 \in 0..n /\ x + 1 # 0 /\ x + 1 - 1 = x /\ x + 1 \in 1..n
        /\ 1..(x + 1) = (1..x) \cup {x + 1}
    OBVIOUS
  <2>2. after[x] = sections \cup Targets(absolute, ptrs, x)
    BY <1>5
  <2>3. after[x + 1] = IF ptrs[x + 1] = 0 THEN after[x]
                       ELSE AddSection(after[x], Target(absolute, ptrs[x + 1]))
    BY <1>3, <2>1
  <2>4. CASE ptrs[x + 1] = 0
    <3>1. Targets(absolute, ptrs, x + 1) = Targets(absolute, ptrs, x)
      BY <2>1, <2>4 DEF Targets
    <3> QED
      BY <2>1, <2>2, <2>3, <2>4, <3>1
  <2>5. CASE ptrs[x + 1] # 0
    <3> DEFINE new == Target(absolute, ptrs[x + 1])
    <3>1. Targets(absolute, ptrs, x + 1) = Targets(absolute, ptrs, x) \cup {new}
      <4> HIDE DEF new
      <4> SUFFICES \A y : y \in Targets(absolute, ptrs, x + 1)
                          <=> y \in Targets(absolute, ptrs, x) \/ y = new
        OBVIOUS
      <4> QED
        BY <2>1, <2>5 DEF Targets, new
    <3>2. Targets(absolute, ptrs, x + 1) \subseteq Targets(absolute, ptrs, n)
      BY DEF Targets
    <3> HIDE DEF new
    <3>3. after[x] \cup {new} \subseteq all
      BY <1>1, <2>2, <3>1, <3>2
    <3>4. after[x + 1] = after[x] \cup {new}
      <4>1. AddSection(after[x], new) = after[x] \cup {new}
        <5>1. CASE new \in after[x]
          BY <5>1 DEF AddSection
        <5>2. CASE new \notin after[x]
          <6>1. IsFiniteSet(after[x])
            BY <3>3, FS_Subset
          <6>2. /\ IsFiniteSet(after[x] \cup {new})
                /\ Cardinality(after[x] \cup {new}) = Cardinality(after[x]) + 1
            BY <5>2, <6>1, FS_AddElement
          <6>3. Cardinality(after[x] \cup {new}) <= Cardinality(all)
            BY <3>3, FS_Subset
          <6>4. Cardinality(after[x]) \in Nat /\ Cardinality(all) \in Nat
            BY <6>1, FS_CardinalityType
          <6>5. Cardinality(after[x]) < MaxSections
            BY <6>2, <6>3, <6>4
          <6> QED
            BY <6>5 DEF AddSection
        <5> QED
          BY <5>1, <5>2
      <4> QED
        BY <2>3, <2>5, <4>1 DEF new
    <3> QED
      BY <2>1, <2>2, <3>1, <3>4
  <2> QED
    BY <2>4, <2>5
<1> HIDE DEF good
<1>6. \A x \in 0..n : x \in good
  BY <1>4, <1>5, UpTo
<1>7. n \in good
  BY <1>6
<1>8. after[n] = sections \cup Targets(absolute, ptrs, n)
  BY <1>7 DEF good
<1> QED
  BY <1>1, <1>8 DEF Added, after

-----------------------------------------------------------------------------
(* One step of the state machine *)

WalkState == [offset : Int, type : {"regular", "signature"}, sections : SUBSET Int,
              absolute : BOOLEAN]

LEMMA AddedType ==
  ASSUME NEW sections \in SUBSET Int, NEW absolute \in BOOLEAN, NEW ptrs \in Seq(Nat)
  PROVE  Added(sections, absolute, ptrs) \in SUBSET Int
<1> DEFINE after == CHOOSE after : Adds(sections, absolute, ptrs, Len(ptrs), after)
<1>1. PICK n \in Nat : Len(ptrs) = n /\ \A x \in 1..n : ptrs[x] \in Nat
  OBVIOUS
<1>2. Adds(sections, absolute, ptrs, n, after)
  <2>1. \E some : Adds(sections, absolute, ptrs, n, some)
    BY AddsExists
  <2> QED
    BY <1>1, <2>1, Zenon
<1> HIDE DEF after
<1>3. \A x \in 0..n :
        after[x] = IF x = 0 THEN sections
                   ELSE IF ptrs[x] = 0 THEN after[x - 1]
                   ELSE AddSection(after[x - 1], Target(absolute, ptrs[x]))
  BY <1>2 DEF Adds
<1> DEFINE good == {x \in 0..n : after[x] \in SUBSET Int}
<1>4. 0 \in good
  <2>1. 0 \in 0..n
    OBVIOUS
  <2> QED
    BY <1>3, <2>1
<1>5. ASSUME NEW x \in 0..(n - 1), x \in good
      PROVE  x + 1 \in good
  <2>1. x + 1 \in 0..n /\ x + 1 # 0 /\ x + 1 - 1 = x /\ x + 1 \in 1..n
    OBVIOUS
  <2>2. after[x + 1] = IF ptrs[x + 1] = 0 THEN after[x]
                       ELSE AddSection(after[x], Target(absolute, ptrs[x + 1]))
    BY <1>3, <2>1
  <2>3. Target(absolute, ptrs[x + 1]) \in Int
    BY <1>1, <2>1 DEF Target
  <2> QED
    BY <1>5, <2>1, <2>2, <2>3 DEF AddSection
<1> HIDE DEF good
<1>6. \A x \in 0..n : x \in good
  BY <1>4, <1>5, UpTo
<1>7. n \in good
  BY <1>6
<1> QED
  BY <1>1, <1>7 DEF Added, after, good

LEMMA SigBlockFacts ==
  ASSUME NEW st, NEW ptrs
  PROVE  LET absolute == st.absolute \/ (st.offset = 1 /\ PointersBeyond(ptrs, Size) # {})
         IN  SigBlockProcess(st, ptrs) =
               [st EXCEPT !.absolute = absolute,
                          !.sections = Added(st.sections, absolute, ptrs)]
BY Zenon DEF SigBlockProcess, Added, Adds

\* What a block does to the state, whether it is a signature block or not.
Processed(st, block, to) ==
  LET ptrs == block.tail.ptrs
  IN  /\ IsSignature(st) <=> st.offset + 1 \notin st.sections /\ st.type = "signature"
      /\ to.offset = st.offset + 1
      /\ to.type \in {"regular", "signature"}
      /\ to.type = "signature" <=> st.offset + 1 \in st.sections /\ block.front.magic
      /\ ~IsSignature(st) => /\ to.sections = st.sections /\ to.absolute = st.absolute
                             /\ to \in WalkState
      /\ IsSignature(st) =>
           /\ to.absolute =
                (st.absolute \/ (st.offset = 0 /\ PointersBeyond(ptrs, Size) # {}))
           /\ to.sections = Added(st.sections, to.absolute, ptrs)
           /\ ptrs \in Seq(Nat) => to \in WalkState

LEMMA ProcessFacts ==
  ASSUME NEW st \in WalkState, NEW block, block.front.magic \in BOOLEAN
  PROVE  Processed(st, block, BlockProcess(st, block))
<1> DEFINE here == Enter(st)
           to == BlockProcess(st, block)
           ptrs == block.tail.ptrs
<1>1. here = [st EXCEPT !.offset = st.offset + 1,
                        !.type = IF st.offset + 1 \in st.sections THEN "section" ELSE st.type]
  BY DEF Enter
<1>2. /\ here.offset = st.offset + 1 /\ here.sections = st.sections
      /\ here.absolute = st.absolute
      /\ here.type = IF st.offset + 1 \in st.sections THEN "section" ELSE st.type
      /\ here \in [offset : Int, type : {"regular", "signature", "section"},
                   sections : SUBSET Int, absolute : BOOLEAN]
  <2> DEFINE type == IF st.offset + 1 \in st.sections THEN "section" ELSE st.type
  <2>1. type \in {"regular", "signature", "section"} /\ st.offset + 1 \in Int
    BY DEF WalkState
  <2>2. here = [st EXCEPT !.offset = st.offset + 1, !.type = type]
    BY <1>1
  <2> HIDE DEF type, here
  <2>3. /\ here.offset = st.offset + 1 /\ here.sections = st.sections
        /\ here.absolute = st.absolute /\ here.type = type
        /\ here \in [offset : Int, type : {"regular", "signature", "section"},
                     sections : SUBSET Int, absolute : BOOLEAN]
    BY <2>1, <2>2 DEF WalkState
  <2> QED
    BY <2>3 DEF type
<1>3. st.type \in {"regular", "signature"} /\ st.offset \in Int
  BY DEF WalkState
<1>4. IsSignature(st) <=> here.type = "signature"
  BY DEF IsSignature
<1>5. to = CASE here.type = "section" ->
                  [here EXCEPT !.type = IF block.front.magic THEN "signature" ELSE "regular"]
             [] here.type = "signature" ->
                  [SigBlockProcess(here, ptrs) EXCEPT !.type = "regular"]
             [] OTHER -> here
  BY DEF BlockProcess
<1> HIDE DEF here, to, ptrs
<1>6. CASE here.type = "section"
  <2>1. to = [here EXCEPT !.type = IF block.front.magic THEN "signature" ELSE "regular"]
    BY <1>5, <1>6
  <2>2. /\ to.type = IF block.front.magic THEN "signature" ELSE "regular"
        /\ to.offset = here.offset /\ to.sections = here.sections
        /\ to.absolute = here.absolute /\ to \in WalkState
    BY <1>2, <2>1 DEF WalkState
  <2>3. st.offset + 1 \in st.sections
    BY <1>2, <1>3, <1>6
  <2> QED
    BY <1>2, <1>4, <1>6, <2>2, <2>3 DEF Processed, to, ptrs
<1>7. CASE here.type = "signature"
  <2> DEFINE absolute == here.absolute \/ (here.offset = 1 /\ PointersBeyond(ptrs, Size) # {})
  <2>1. SigBlockProcess(here, ptrs) =
          [here EXCEPT !.absolute = absolute, !.sections = Added(here.sections, absolute, ptrs)]
    BY SigBlockFacts
  <2>2. to = [[here EXCEPT !.absolute = absolute,
                           !.sections = Added(here.sections, absolute, ptrs)]
                EXCEPT !.type = "regular"]
    BY <1>5, <1>7, <2>1
  <2>3. absolute \in BOOLEAN /\ here.sections \in SUBSET Int /\ (here.offset = 1 <=> st.offset = 0)
    BY <1>2, <1>3
  <2>4. ptrs \in Seq(Nat) => Added(here.sections, absolute, ptrs) \in SUBSET Int
    BY <2>3, AddedType
  <2> HIDE DEF absolute
  <2>5. /\ to.type = "regular" /\ to.offset = here.offset /\ to.absolute = absolute
        /\ to.sections = Added(here.sections, absolute, ptrs)
    BY <1>2, <2>2
  <2>6. ptrs \in Seq(Nat) => to \in WalkState
    BY <1>2, <2>2, <2>3, <2>4 DEF WalkState
  <2>7. st.offset + 1 \notin st.sections /\ st.type = "signature"
    BY <1>2, <1>3, <1>7
  <2>8. absolute = (st.absolute \/ (st.offset = 0 /\ PointersBeyond(ptrs, Size) # {}))
    BY <1>2, <2>3 DEF absolute
  <2> QED
    BY <1>2, <1>4, <1>7, <2>5, <2>6, <2>7, <2>8 DEF Processed, to, ptrs
<1>8. CASE here.type \notin {"section", "signature"}
  <2>1. to = here
    BY <1>5, <1>8
  <2>2. here.type = "regular" /\ st.type = "regular" /\ st.offset + 1 \notin st.sections
    BY <1>2, <1>3, <1>8
  <2>3. here \in WalkState
    BY <1>2, <2>2 DEF WalkState
  <2> QED
    BY <1>2, <1>4, <2>1, <2>2, <2>3 DEF Processed, to
<1> QED
  BY <1>6, <1>7, <1>8

-----------------------------------------------------------------------------
(* The walk along a bitstream *)

LEMMA BitstreamFacts ==
  ASSUME NEW s, IsBitstream(s)
  PROVE  /\ Len(s) \in Nat /\ DOMAIN s = 1..Len(s)
         /\ Blocks(s) \in Nat /\ 2 * Blocks(s) <= Len(s) /\ Len(s) <= 2 * Blocks(s) + 1
         /\ \A k \in 0..(Blocks(s) - 1) :
              /\ BlockOf(s, k).front = FrontOf(s, k) /\ BlockOf(s, k).tail = TailOf(s, k)
              /\ BlockOf(s, k).front.magic \in BOOLEAN
              /\ BlockOf(s, k).tail.ptrs \in Seq(Nat)
<1>1. s \in Seq({s[x] : x \in DOMAIN s})
  BY DEF IsBitstream
<1>2. PICK n \in Nat : Len(s) = n /\ DOMAIN s = 1..n
  BY <1>1
<1>3. Blocks(s) \in Nat /\ 2 * Blocks(s) <= n /\ n <= 2 * Blocks(s) + 1
  BY <1>2 DEF Blocks
<1> QED
  BY <1>2, <1>3 DEF IsBitstream, BlockOf

\* The states before the first n blocks.
Walks(s, n, states) ==
  states = [k \in 0..n |-> IF k = 0 THEN ImageInit
                           ELSE BlockProcess(states[k - 1], BlockOf(s, k - 1))]

LEMMA WalksExists ==
  ASSUME NEW s
  PROVE  \A n \in Nat : \E states : Walks(s, n, states)
<1> DEFINE good == {n \in Nat : \E states : Walks(s, n, states)}
<1>1. 0 \in good
  <2> DEFINE states == [k \in 0..0 |-> ImageInit]
  <2>1. Walks(s, 0, states)
    BY DEF Walks
  <2> QED
    BY <2>1
<1>2. ASSUME NEW m \in Nat, m \in good
      PROVE  m + 1 \in good
  <2>1. PICK states : Walks(s, m, states)
    BY <1>2
  <2> DEFINE last == BlockProcess(states[m], BlockOf(s, m))
             longer == [k \in 0..(m + 1) |-> IF k = m + 1 THEN last ELSE states[k]]
  <2>2. longer[m + 1] = last /\ \A k \in 0..m : longer[k] = states[k]
    <3> HIDE DEF last
    <3>1. m + 1 \in 0..(m + 1) /\ \A k \in 0..m : k \in 0..(m + 1) /\ k # m + 1
      OBVIOUS
    <3> QED
      BY <3>1
  <2>3. ASSUME NEW k \in 0..(m + 1)
        PROVE  longer[k] = IF k = 0 THEN ImageInit
                           ELSE BlockProcess(longer[k - 1], BlockOf(s, k - 1))
    <3> HIDE DEF longer
    <3>1. CASE k = m + 1
      <4>1. k # 0 /\ k - 1 = m /\ m \in 0..m
        BY <3>1
      <4> QED
        BY <2>2, <3>1, <4>1
    <3>2. CASE k # m + 1
      <4>1. k \in 0..m /\ (k # 0 => k - 1 \in 0..m)
        BY <3>2
      <4>2. states[k] = IF k = 0 THEN ImageInit
                        ELSE BlockProcess(states[k - 1], BlockOf(s, k - 1))
        BY <2>1, <4>1 DEF Walks
      <4> QED
        BY <2>2, <4>1, <4>2
    <3> QED
      BY <3>1, <3>2
  <2>4. Walks(s, m + 1, longer)
    BY <2>3 DEF Walks
  <2> QED
    BY <2>4
<1> HIDE DEF good
<1>3. \A n \in Nat : n \in good
  BY <1>1, <1>2, AllNats
<1> QED
  BY <1>3 DEF good

LEMMA StatesFacts ==
  ASSUME NEW s, IsBitstream(s)
  PROVE  /\ States(s)[0] = ImageInit
         /\ \A k \in 0..(Blocks(s) - 1) :
              States(s)[k + 1] = BlockProcess(States(s)[k], BlockOf(s, k))
<1>1. PICK n \in Nat : Blocks(s) = n
  BY BitstreamFacts
<1>2. \E states : Walks(s, n, states)
  BY WalksExists
<1>3. States(s) = CHOOSE states : Walks(s, Blocks(s), states)
  BY Zenon DEF States, Walks
<1>4. Walks(s, n, States(s))
  BY <1>1, <1>2, <1>3, Zenon
<1>5. \A k \in 0..n : States(s)[k] =
        IF k = 0 THEN ImageInit ELSE BlockProcess(States(s)[k - 1], BlockOf(s, k - 1))
  <2> DEFINE states == States(s)
  <2>1. Walks(s, n, states)
    BY <1>4
  <2> HIDE DEF states
  <2>2. \A k \in 0..n : states[k] =
          IF k = 0 THEN ImageInit ELSE BlockProcess(states[k - 1], BlockOf(s, k - 1))
    BY <2>1 DEF Walks
  <2> QED
    BY <2>2 DEF states
<1>6. 0 \in 0..n /\ \A k \in 0..(n - 1) : k + 1 \in 0..n /\ k + 1 # 0 /\ k + 1 - 1 = k
  OBVIOUS
<1>7. States(s)[0] = ImageInit
  BY <1>5, <1>6, Zenon
<1>8. ASSUME NEW k \in 0..(n - 1)
      PROVE  States(s)[k + 1] = BlockProcess(States(s)[k], BlockOf(s, k))
  <2> DEFINE l == k + 1
  <2>1. l \in 0..n /\ l # 0 /\ l - 1 = k
    BY <1>6
  <2> HIDE DEF l
  <2>2. States(s)[l] = BlockProcess(States(s)[l - 1], BlockOf(s, l - 1))
    BY <1>5, <2>1, Zenon
  <2> QED
    BY <2>1, <2>2 DEF l
<1> QED
  BY <1>1, <1>7, <1>8

\* What a caller's data has in front is walked and relocated the same, whatever
\* follows it.
LEMMA PrefixFacts ==
  ASSUME NEW s, IsBitstream(s), NEW m \in 0..Len(s)
  PROVE  LET q == SubSeq(s, 1, m)
         IN  /\ Len(q) = m /\ DOMAIN q = 1..m /\ \A x \in 1..m : q[x] = s[x]
             /\ IsBitstream(q) /\ Blocks(q) <= Blocks(s)
             /\ \A k \in 0..(Blocks(q) - 1) : BlockOf(q, k) = BlockOf(s, k)
<1> DEFINE q == SubSeq(s, 1, m)
<1>1. PICK n \in Nat : Len(s) = n /\ DOMAIN s = 1..n /\ m \in 0..n
  BY BitstreamFacts
<1> DEFINE S == {s[x] : x \in DOMAIN s}
<1>2. /\ q \in Seq(S) /\ Len(q) = IF 1 <= m THEN m - 1 + 1 ELSE 0
      /\ \A x \in 1..(m - 1 + 1) : q[x] = s[1 + x - 1]
  <2>1. \A x \in 1..m : s[x] \in S
    BY <1>1
  <2> HIDE DEF S
  <2> QED
    BY <2>1, SubSeqProperties
<1> HIDE DEF q, S
<1>3. /\ m \in Nat /\ Len(q) = m /\ DOMAIN q = 1..m /\ q \in [1..m -> S]
      /\ \A x \in 1..m : q[x] = s[x]
  <2>1. /\ m \in Nat /\ m - 1 + 1 = m /\ (IF 1 <= m THEN m - 1 + 1 ELSE 0) = m
        /\ \A x \in 1..m : 1 + x - 1 = x
    BY <1>1
  <2> QED
    BY <1>2, <2>1
<1>4. q \in [1..m -> {q[x] : x \in DOMAIN q}]
  BY <1>3
<1>5. q \in Seq({q[x] : x \in DOMAIN q}) /\ Len(q) = m
  BY <1>3, <1>4
<1>6. /\ Blocks(q) \in Nat /\ 2 * Blocks(q) <= m /\ Blocks(q) <= Blocks(s)
  BY <1>1, <1>5 DEF Blocks
<1>7. Blocks(s) \in Nat
  BY BitstreamFacts
<1>8. ASSUME NEW k \in 0..(Blocks(q) - 1)
      PROVE  /\ FrontOf(q, k) = FrontOf(s, k) /\ TailOf(q, k) = TailOf(s, k)
             /\ k \in 0..(Blocks(s) - 1)
  <2>1. 2 * k + 1 \in 1..m /\ 2 * k + 2 \in 1..m /\ k \in 0..(Blocks(s) - 1)
    BY <1>1, <1>6, <1>7
  <2> QED
    BY <1>3, <2>1 DEF FrontOf, TailOf
<1>9. IsBitstream(q)
  BY <1>5, <1>8 DEF IsBitstream
<1> QED
  BY <1>3, <1>5, <1>6, <1>8, <1>9 DEF BlockOf, q

LEMMA PrefixStates ==
  ASSUME NEW s, IsBitstream(s), NEW m \in 0..Len(s), NEW q, q = SubSeq(s, 1, m)
  PROVE  \A k \in 0..Blocks(q) : States(q)[k] = States(s)[k]
<1>1. /\ IsBitstream(q) /\ Blocks(q) <= Blocks(s)
      /\ \A k \in 0..(Blocks(q) - 1) : BlockOf(q, k) = BlockOf(s, k)
  BY PrefixFacts
<1>2. Blocks(q) \in Nat /\ Blocks(s) \in Nat
  BY <1>1, BitstreamFacts
<1> DEFINE good == {k \in 0..Blocks(q) : States(q)[k] = States(s)[k]}
<1>3. 0 \in good
  <2>1. States(q)[0] = ImageInit /\ States(s)[0] = ImageInit
    BY <1>1, StatesFacts
  <2> QED
    BY <1>2, <2>1
<1>4. ASSUME NEW k \in 0..(Blocks(q) - 1), k \in good
      PROVE  k + 1 \in good
  <2>1. k \in 0..(Blocks(s) - 1) /\ k + 1 \in 0..Blocks(q)
    BY <1>1, <1>2
  <2>2. /\ States(q)[k + 1] = BlockProcess(States(q)[k], BlockOf(q, k))
        /\ States(s)[k + 1] = BlockProcess(States(s)[k], BlockOf(s, k))
    BY <1>1, <2>1, StatesFacts
  <2>3. States(q)[k] = States(s)[k] /\ BlockOf(q, k) = BlockOf(s, k)
    BY <1>1, <1>4
  <2> QED
    BY <2>1, <2>2, <2>3
<1> HIDE DEF good
<1>5. \A k \in 0..Blocks(q) : k \in good
  BY <1>2, <1>3, <1>4, UpTo
<1> QED
  BY <1>5 DEF good

\* Half x of a bitstream, spelled out.
LEMMA WalkFacts ==
  ASSUME NEW s, IsBitstream(s)
  PROVE  /\ \A k \in 0..(Blocks(s) - 1) :
              /\ Walk(s, 2 * k + 1) = s[2 * k + 1]
              /\ Walk(s, 2 * k + 2) =
                   IF IsSignature(States(s)[k])
                   THEN SigBlockExpected(States(s)[k + 1].absolute, BlockOf(s, k)).tail
                   ELSE s[2 * k + 2]
         /\ Walk(s, 2 * Blocks(s) + 1) = s[2 * Blocks(s) + 1]
<1>1. Blocks(s) \in Nat
  BY BitstreamFacts
<1>2. ASSUME NEW k \in Nat
      PROVE  Walk(s, 2 * k + 1) = s[2 * k + 1]
  <2>1. (2 * k + 1 - 1) \div 2 = k /\ 2 * k + 1 # 2 * k + 2
    OBVIOUS
  <2> QED
    BY <2>1 DEF Walk
<1>3. ASSUME NEW k \in 0..(Blocks(s) - 1)
      PROVE  Walk(s, 2 * k + 2) =
               IF IsSignature(States(s)[k])
               THEN SigBlockExpected(States(s)[k + 1].absolute, BlockOf(s, k)).tail
               ELSE s[2 * k + 2]
  <2>1. (2 * k + 2 - 1) \div 2 = k
    BY <1>1
  <2>2. k \in Walked(s) <=> IsSignature(States(s)[k])
    BY DEF Walked
  <2> QED
    BY <2>1, <2>2 DEF Walk
<1> QED
  BY <1>1, <1>2, <1>3

LEMMA HalfFacts ==
  ASSUME NEW s, IsBitstream(s), NEW x \in DOMAIN s
  PROVE  \/ \E k \in 0..(Blocks(s) - 1) : x = 2 * k + 1 \/ x = 2 * k + 2
         \/ x = 2 * Blocks(s) + 1
<1>1. PICK n \in Nat, b \in Nat :
        /\ Len(s) = n /\ Blocks(s) = b /\ DOMAIN s = 1..n
        /\ 2 * b <= n /\ n <= 2 * b + 1
  BY BitstreamFacts
<1>2. PICK k \in Nat : x = 2 * k + 1 \/ x = 2 * k + 2
  <2>1. \A y \in Nat : \E k \in Nat : y = 2 * k \/ y = 2 * k + 1
    <3>1. \A y \in Nat : /\ y \div 2 \in Nat
                         /\ y = 2 * (y \div 2) \/ y = 2 * (y \div 2) + 1
      OBVIOUS
    <3> QED
      BY <3>1, Zenon
  <2>2. PICK y \in Nat : x = y + 1
    <3>1. x - 1 \in Nat /\ x = x - 1 + 1
      BY <1>1
    <3> QED
      BY <3>1
  <2>3. PICK k \in Nat : y = 2 * k \/ y = 2 * k + 1
    BY <2>1
  <2>4. x = 2 * k + 1 \/ x = 2 * k + 2
    BY <2>2, <2>3
  <2> QED
    BY <2>4
<1> QED
  BY <1>1, <1>2

LEMMA PrefixWalk ==
  ASSUME NEW s, IsBitstream(s), NEW m \in 0..Len(s), NEW q, q = SubSeq(s, 1, m)
  PROVE  \A x \in 1..m : Walk(q, x) = Walk(s, x)
<1> TAKE x \in 1..m
<1>1. /\ IsBitstream(q) /\ Blocks(q) <= Blocks(s)
      /\ \A k \in 0..(Blocks(q) - 1) : BlockOf(q, k) = BlockOf(s, k)
      /\ DOMAIN q = 1..m /\ \A y \in 1..m : q[y] = s[y]
  BY PrefixFacts
<1>2. Blocks(q) \in Nat /\ Blocks(s) \in Nat
  BY <1>1, BitstreamFacts
<1>3. ASSUME NEW k \in 0..(Blocks(q) - 1), x = 2 * k + 1 \/ x = 2 * k + 2
      PROVE  Walk(q, x) = Walk(s, x)
  <2>1. k \in 0..(Blocks(s) - 1) /\ k \in 0..Blocks(q) /\ k + 1 \in 0..Blocks(q)
    BY <1>1, <1>2
  <2>2. States(q)[k] = States(s)[k] /\ States(q)[k + 1] = States(s)[k + 1]
    BY <2>1, PrefixStates
  <2>3. q[x] = s[x] /\ BlockOf(q, k) = BlockOf(s, k)
    BY <1>1
  <2>4. CASE x = 2 * k + 1
    <3>1. Walk(q, 2 * k + 1) = q[2 * k + 1]
      BY <1>1, WalkFacts
    <3>2. Walk(s, 2 * k + 1) = s[2 * k + 1]
      BY <2>1, WalkFacts
    <3> QED
      BY <2>3, <2>4, <3>1, <3>2
  <2>5. CASE x = 2 * k + 2
    <3>1. Walk(q, 2 * k + 2) =
            IF IsSignature(States(q)[k])
            THEN SigBlockExpected(States(q)[k + 1].absolute, BlockOf(q, k)).tail
            ELSE q[2 * k + 2]
      BY <1>1, WalkFacts
    <3>2. Walk(s, 2 * k + 2) =
            IF IsSignature(States(s)[k])
            THEN SigBlockExpected(States(s)[k + 1].absolute, BlockOf(s, k)).tail
            ELSE s[2 * k + 2]
      BY <2>1, WalkFacts
    <3> QED
      BY <2>2, <2>3, <2>5, <3>1, <3>2
  <2> QED
    BY <1>3, <2>4, <2>5
<1>4. CASE x = 2 * Blocks(q) + 1
  <2>1. Walk(q, x) = q[x]
    BY <1>1, <1>4, WalkFacts
  <2>2. Walk(s, x) = s[x]
    <3>1. Blocks(q) \in 0..(Blocks(s) - 1) \/ Blocks(q) = Blocks(s)
      BY <1>1, <1>2
    <3> QED
      BY <1>4, <3>1, WalkFacts
  <2> QED
    BY <1>1, <2>1, <2>2
<1> QED
  BY <1>1, <1>3, <1>4, HalfFacts

-----------------------------------------------------------------------------
(* The walk finds the signature blocks *)

\* The signature blocks among the first n blocks, by the definition of Signatures.
SignAt(s, signs, k) ==
  /\ k > 0 /\ FrontOf(s, k - 1).magic
  /\ Begins(s, signs, k - 1) /\ ~Begins(s, signs, k)
Signs(s, n, signs) == signs = [k \in 0..(n - 1) |-> SignAt(s, signs, k)]

LEMMA BeginsLocal ==
  ASSUME NEW s, NEW k \in Nat, NEW f, NEW g, \A j \in 0..(k - 1) : f[j] = g[j]
  PROVE  Begins(s, f, k) <=> Begins(s, g, k)
<1>1. \A j \in 1..(k - 1) : f[j] = g[j]
  OBVIOUS
<1> QED
  BY <1>1, Zenon DEF Begins

LEMMA SignsExists ==
  ASSUME NEW s
  PROVE  \A n \in Nat : \E signs : Signs(s, n, signs)
<1> DEFINE good == {n \in Nat : \E signs : Signs(s, n, signs)}
<1>1. 0 \in good
  <2> DEFINE signs == [k \in 0..(0 - 1) |-> FALSE]
  <2>1. Signs(s, 0, signs)
    BY DEF Signs
  <2> QED
    BY <2>1
<1>2. ASSUME NEW m \in Nat, m \in good
      PROVE  m + 1 \in good
  <2>1. PICK signs : Signs(s, m, signs)
    BY <1>2
  <2> PICK n \in Nat : n = m + 1
    OBVIOUS
  <2>2. PICK longer : longer = [k \in 0..(n - 1) |-> SignAt(s, signs, k)]
    OBVIOUS
  <2>3. \A k \in 0..(m - 1) : longer[k] = signs[k]
    <3>1. \A k \in 0..(m - 1) : signs[k] = SignAt(s, signs, k)
      BY <2>1, Zenon DEF Signs
    <3>2. \A k \in 0..(m - 1) : k \in 0..(n - 1)
      OBVIOUS
    <3>3. \A k \in 0..(n - 1) : longer[k] = SignAt(s, signs, k)
      BY <2>2, Zenon
    <3> QED
      BY <3>1, <3>2, <3>3, Zenon
  <2>4. ASSUME NEW k \in 0..(n - 1)
        PROVE  SignAt(s, signs, k) = SignAt(s, longer, k)
    <3>1. CASE k = 0
      BY <3>1 DEF SignAt
    <3>2. CASE k # 0
      <4>1. /\ k \in Nat /\ k - 1 \in Nat
            /\ \A j \in 0..(k - 1) : j \in 0..(m - 1)
            /\ \A j \in 0..(k - 1 - 1) : j \in 0..(m - 1)
        BY <3>2
      <4>2. Begins(s, signs, k) <=> Begins(s, longer, k)
        BY <2>3, <4>1, BeginsLocal
      <4>3. Begins(s, signs, k - 1) <=> Begins(s, longer, k - 1)
        BY <2>3, <4>1, BeginsLocal
      <4> QED
        BY <4>2, <4>3, Zenon DEF SignAt
    <3> QED
      BY <3>1, <3>2
  <2>5. longer = [k \in 0..(n - 1) |-> SignAt(s, longer, k)]
    <3> QED
      BY <2>2, <2>4, Zenon
  <2>6. Signs(s, n, longer)
    BY <2>5, Zenon DEF Signs
  <2> QED
    BY <2>6
<1> HIDE DEF good
<1>3. \A n \in Nat : n \in good
  BY <1>1, <1>2, AllNats
<1> QED
  BY <1>3 DEF good

\* Where a section begins, and where a signature block is, without the recursion.
BeginsAt(s, k) == k = 0 \/ \E j \in Signatures(s) : j < k /\ k \in Pointed(s, j)

LEMMA SignaturesFacts ==
  ASSUME NEW s, IsBitstream(s)
  PROVE  /\ Signatures(s) \subseteq 1..(Blocks(s) - 1)
         /\ \A k \in 1..(Blocks(s) - 1) :
              k \in Signatures(s) <=>
                FrontOf(s, k - 1).magic /\ BeginsAt(s, k - 1) /\ ~BeginsAt(s, k)
<1> DEFINE signs == CHOOSE signs : Signs(s, Blocks(s), signs)
<1>1. Blocks(s) \in Nat
  BY BitstreamFacts
<1>2. Signs(s, Blocks(s), signs)
  <2>1. \E some : Signs(s, Blocks(s), some)
    BY <1>1, SignsExists
  <2> QED
    BY <2>1, Zenon
<1>3. Signatures(s) = {k \in 0..(Blocks(s) - 1) : signs[k]}
  BY Zenon DEF Signatures, Signs, SignAt
<1> HIDE DEF signs
<1>4. \A k \in 0..(Blocks(s) - 1) :
        signs[k] <=> /\ k > 0 /\ FrontOf(s, k - 1).magic
                     /\ Begins(s, signs, k - 1) /\ ~Begins(s, signs, k)
  BY <1>2, Zenon DEF Signs, SignAt
<1>5. \A k \in Signatures(s) : k \in 1..(Blocks(s) - 1)
  <2> TAKE k \in Signatures(s)
  <2>1. k \in 0..(Blocks(s) - 1) /\ signs[k]
    BY <1>3
  <2>2. k > 0
    BY <1>4, <2>1
  <2> QED
    BY <1>1, <2>1, <2>2
<1>6. ASSUME NEW k \in 0..(Blocks(s) - 1)
      PROVE  Begins(s, signs, k) <=> BeginsAt(s, k)
  <2>1. \A j \in 1..(k - 1) : j < k /\ (signs[j] <=> j \in Signatures(s))
    BY <1>1, <1>3
  <2>2. \A j \in Signatures(s) : j < k => j \in 1..(k - 1)
    BY <1>1, <1>5
  <2> QED
    BY <2>1, <2>2, Zenon DEF Begins, BeginsAt
<1>7. ASSUME NEW k \in 1..(Blocks(s) - 1)
      PROVE  k \in Signatures(s) <=>
               FrontOf(s, k - 1).magic /\ BeginsAt(s, k - 1) /\ ~BeginsAt(s, k)
  <2>1. k \in 0..(Blocks(s) - 1) /\ k - 1 \in 0..(Blocks(s) - 1) /\ k > 0
    BY <1>1
  <2>2. k \in Signatures(s) <=> signs[k]
    BY <1>3, <2>1
  <2>3. signs[k] <=> FrontOf(s, k - 1).magic /\ Begins(s, signs, k - 1) /\ ~Begins(s, signs, k)
    BY <1>4, <2>1, Zenon
  <2> QED
    BY <1>6, <2>1, <2>2, <2>3, Zenon
<1> QED
  BY <1>5, <1>7

\* The sections that begin where the signature blocks in front of block k say.
Sections(s, k) == {0} \cup UNION {Pointed(s, j) : j \in {i \in Signatures(s) : i < k}}

LEMMA PointedFacts ==
  ASSUME NEW s, IsBitstream(s), NEW k \in 0..(Blocks(s) - 1)
  PROVE  LET ptrs == BlockOf(s, k).tail.ptrs
         IN  /\ Pointed(s, k) = Targets(IsAbsolute(s), ptrs, Len(ptrs))
             /\ IsFiniteSet(Pointed(s, k))
<1> DEFINE ptrs == BlockOf(s, k).tail.ptrs
           absolute == IsAbsolute(s)
<1>1. ptrs = TailOf(s, k).ptrs /\ ptrs \in Seq(Nat)
  BY BitstreamFacts
<1> HIDE DEF ptrs, absolute
<1>2. PICK n \in Nat : Len(ptrs) = n /\ DOMAIN ptrs = 1..n
  BY <1>1
<1>3. Pointed(s, k) = Targets(absolute, ptrs, n)
  <2>1. Pointed(s, k) = {Target(absolute, ptr) :
                           ptr \in {ptrs[x] : x \in DOMAIN ptrs} \ {0}}
    BY <1>1 DEF Pointed, absolute
  <2> QED
    BY <1>2, <2>1 DEF Targets
<1> DEFINE good == {m \in 0..n : IsFiniteSet(Targets(absolute, ptrs, m))}
<1>4. 0 \in good
  <2>1. Targets(absolute, ptrs, 0) = {}
    BY DEF Targets
  <2> QED
    BY <2>1, FS_EmptySet
<1>5. ASSUME NEW m \in 0..(n - 1), m \in good
      PROVE  m + 1 \in good
  <2>1. m + 1 \in 0..n /\ 1..(m + 1) = (1..m) \cup {m + 1}
    OBVIOUS
  <2>2. CASE ptrs[m + 1] = 0
    <3>1. Targets(absolute, ptrs, m + 1) = Targets(absolute, ptrs, m)
      BY <2>1, <2>2 DEF Targets
    <3> QED
      BY <1>5, <2>1, <3>1
  <2>3. CASE ptrs[m + 1] # 0
    <3> DEFINE new == Target(absolute, ptrs[m + 1])
    <3>1. Targets(absolute, ptrs, m + 1) = Targets(absolute, ptrs, m) \cup {new}
      <4> HIDE DEF new
      <4> SUFFICES \A y : y \in Targets(absolute, ptrs, m + 1)
                          <=> y \in Targets(absolute, ptrs, m) \/ y = new
        OBVIOUS
      <4> QED
        BY <2>1, <2>3 DEF Targets, new
    <3> HIDE DEF new
    <3> QED
      BY <1>5, <2>1, <3>1, FS_AddElement
  <2> QED
    BY <2>2, <2>3
<1> HIDE DEF good
<1>6. \A m \in 0..n : m \in good
  BY <1>4, <1>5, UpTo
<1>7. n \in good
  BY <1>6
<1>8. IsFiniteSet(Targets(absolute, ptrs, n))
  BY <1>7 DEF good
<1> QED
  BY <1>2, <1>3, <1>8 DEF ptrs, absolute

LEMMA SectionsFacts ==
  ASSUME NEW s, IsBitstream(s)
  PROVE  /\ Sections(s, 0) = {0}
         /\ \A k \in 0..(Blocks(s) - 1) :
              Sections(s, k + 1) = IF k \in Signatures(s) THEN Sections(s, k) \cup Pointed(s, k)
                                   ELSE Sections(s, k)
         /\ \A k \in Nat : /\ IsFiniteSet(Sections(s, k))
                           /\ Sections(s, k) \subseteq Sections(s, Blocks(s))
                           /\ k \in Sections(s, k) <=> BeginsAt(s, k)
         /\ FewSections(s) <=> Cardinality(Sections(s, Blocks(s))) <= MaxSections
<1>1. PICK n \in Nat : Blocks(s) = n
  BY BitstreamFacts
<1>2. \A j \in Signatures(s) : j \in 1..(n - 1)
  BY <1>1, SignaturesFacts
<1>3. Sections(s, 0) = {0}
  BY <1>2 DEF Sections
<1>4. ASSUME NEW k \in Nat
      PROVE  Sections(s, k + 1) = IF k \in Signatures(s) THEN Sections(s, k) \cup Pointed(s, k)
                                  ELSE Sections(s, k)
  <2>1. \A i \in Signatures(s) : i < k + 1 <=> i < k \/ i = k
    BY <1>2
  <2> QED
    BY <2>1 DEF Sections
<1>5. ASSUME NEW k \in Nat
      PROVE  Sections(s, k) \subseteq Sections(s, n)
  <2>1. \A i \in Signatures(s) : i < n
    BY <1>2
  <2> QED
    BY <2>1 DEF Sections
<1>6. \A k \in Nat : IsFiniteSet(Sections(s, k))
  <2> DEFINE good == {k \in Nat : IsFiniteSet(Sections(s, k))}
  <2>1. 0 \in good
    BY <1>3, FS_Singleton
  <2>2. ASSUME NEW k \in Nat, k \in good
        PROVE  k + 1 \in good
    <3>1. CASE k \in Signatures(s)
      <4>1. IsFiniteSet(Pointed(s, k))
        BY <1>1, <1>2, <3>1, PointedFacts
      <4>2. IsFiniteSet(Sections(s, k) \cup Pointed(s, k))
        BY <2>2, <4>1, FS_Union
      <4> QED
        BY <1>4, <3>1, <4>2
    <3>2. CASE k \notin Signatures(s)
      <4>1. Sections(s, k + 1) = Sections(s, k)
        BY <1>4, <3>2
      <4> QED
        BY <2>2, <4>1
    <3> QED
      BY <3>1, <3>2
  <2> HIDE DEF good
  <2>3. \A k \in Nat : k \in good
    BY <2>1, <2>2, AllNats
  <2> QED
    BY <2>3 DEF good
<1>7. \A k \in Nat : k \in Sections(s, k) <=> BeginsAt(s, k)
  BY DEF Sections, BeginsAt
<1>8. Sections(s, n) = {0} \cup UNION {Pointed(s, k) : k \in Signatures(s)}
  <2>1. {i \in Signatures(s) : i < n} = Signatures(s)
    BY <1>2
  <2> QED
    BY <2>1, Zenon DEF Sections
<1>9. FewSections(s) <=> Cardinality(Sections(s, n)) <= MaxSections
  BY <1>8 DEF FewSections
<1> QED
  BY <1>1, <1>3, <1>4, <1>5, <1>6, <1>7, <1>9

\* The state before block k, as the whole bitstream has it.
StateIs(s, k) ==
  /\ States(s)[k] \in WalkState
  /\ States(s)[k].offset = k - 1
  /\ States(s)[k].sections = Sections(s, k)
  /\ States(s)[k].type = "signature"
       <=> k > 0 /\ FrontOf(s, k - 1).magic /\ BeginsAt(s, k - 1)
  /\ States(s)[k].absolute <=> k > 1 /\ IsAbsolute(s)

LEMMA SignatureFound ==
  ASSUME NEW s, IsBitstream(s), NEW k \in 0..(Blocks(s) - 1), StateIs(s, k)
  PROVE  IsSignature(States(s)[k]) <=> k \in Signatures(s)
<1> DEFINE st == States(s)[k]
<1>1. PICK n \in Nat : Blocks(s) = n
  BY BitstreamFacts
<1>2. BlockOf(s, k).front.magic \in BOOLEAN
  BY BitstreamFacts
<1>3. st \in WalkState
  BY DEF StateIs
<1> HIDE DEF st
<1>4. IsSignature(st) <=> st.offset + 1 \notin st.sections /\ st.type = "signature"
  BY <1>2, <1>3, ProcessFacts DEF Processed
<1>5. st.offset + 1 = k /\ (k \in st.sections <=> BeginsAt(s, k))
  BY <1>1, SectionsFacts DEF StateIs, st
<1>6. CASE k = 0
  <2>1. BeginsAt(s, k) /\ k \notin Signatures(s)
    BY <1>1, <1>6, SignaturesFacts DEF BeginsAt
  <2> QED
    BY <1>4, <1>5, <2>1 DEF st
<1>7. CASE k # 0
  <2>1. k \in 1..(n - 1) /\ k > 0
    BY <1>1, <1>7
  <2>2. k \in Signatures(s) <=>
          FrontOf(s, k - 1).magic /\ BeginsAt(s, k - 1) /\ ~BeginsAt(s, k)
    BY <1>1, <2>1, SignaturesFacts
  <2>3. st.type = "signature" <=> FrontOf(s, k - 1).magic /\ BeginsAt(s, k - 1)
    BY <2>1 DEF StateIs, st
  <2> QED
    BY <1>4, <1>5, <2>2, <2>3 DEF st
<1> QED
  BY <1>6, <1>7

LEMMA StateStep ==
  ASSUME NEW s, IsBitstream(s), FewSections(s), NEW k \in 0..(Blocks(s) - 1), StateIs(s, k)
  PROVE  StateIs(s, k + 1)
<1> DEFINE st == States(s)[k]
           block == BlockOf(s, k)
           to == BlockProcess(st, block)
<1>1. PICK n \in Nat : Blocks(s) = n
  BY BitstreamFacts
<1>2. /\ block.front = FrontOf(s, k) /\ block.tail = TailOf(s, k)
      /\ block.front.magic \in BOOLEAN /\ block.tail.ptrs \in Seq(Nat)
  BY BitstreamFacts
<1>3. /\ st \in WalkState /\ st.offset = k - 1 /\ st.sections = Sections(s, k)
      /\ st.absolute <=> k > 1 /\ IsAbsolute(s)
  BY DEF StateIs
<1>4. States(s)[k + 1] = to
  BY StatesFacts
<1>5. IsSignature(st) <=> k \in Signatures(s)
  BY SignatureFound
<1>6. k - 1 + 1 = k /\ k + 1 - 1 = k /\ k + 1 > 0 /\ (k - 1 = 0 <=> k = 1) /\ (k + 1 > 1 <=> k > 0)
  OBVIOUS
<1>7. k \in Sections(s, k) <=> BeginsAt(s, k)
  BY <1>1, SectionsFacts
<1> HIDE DEF st, block
<1>8. /\ to.offset = st.offset + 1
      /\ to.type \in {"regular", "signature"}
      /\ to.type = "signature" <=> st.offset + 1 \in st.sections /\ block.front.magic
      /\ ~IsSignature(st) => /\ to.sections = st.sections
                             /\ to.absolute = st.absolute
                             /\ to \in WalkState
      /\ IsSignature(st) =>
           /\ to.absolute =
                (st.absolute \/ (st.offset = 0 /\ PointersBeyond(block.tail.ptrs, Size) # {}))
           /\ to.sections = Added(st.sections, to.absolute, block.tail.ptrs)
           /\ to \in WalkState
  <2>1. st \in WalkState /\ block.front.magic \in BOOLEAN /\ block.tail.ptrs \in Seq(Nat)
    BY <1>2, <1>3
  <2>2. Processed(st, block, to)
    BY <2>1, ProcessFacts
  <2> HIDE DEF to
  <2> QED
    BY <2>1, <2>2 DEF Processed
<1> HIDE DEF to
<1>9. to.offset = k /\ (to.type = "signature" <=> FrontOf(s, k).magic /\ BeginsAt(s, k))
  BY <1>2, <1>3, <1>6, <1>7, <1>8
<1>10. k = 1 => (k \in Signatures(s) <=> FrontOf(s, 0).magic)
  <2> SUFFICES ASSUME k = 1
               PROVE  k \in Signatures(s) <=> FrontOf(s, 0).magic
    OBVIOUS
  <2>1. k \in 1..(Blocks(s) - 1) /\ k - 1 = 0
    BY <1>1
  <2>2. BeginsAt(s, 0) /\ ~BeginsAt(s, 1)
    <3>1. \A j \in Signatures(s) : ~(j < 1)
      BY <1>1, SignaturesFacts
    <3> QED
      BY <3>1 DEF BeginsAt
  <2> QED
    BY <2>1, <2>2, SignaturesFacts
<1>11. IsAbsolute(s) <=> /\ n > 1 /\ FrontOf(s, 0).magic
                         /\ PointersBeyond(TailOf(s, 1).ptrs, Size) # {}
  BY <1>1 DEF IsAbsolute
<1>12. CASE k \notin Signatures(s)
  <2>1. to \in WalkState /\ to.sections = Sections(s, k + 1)
    BY <1>3, <1>5, <1>8, <1>12, SectionsFacts
  <2>2. to.absolute <=> k + 1 > 1 /\ IsAbsolute(s)
    <3>1. k > 0 => k = 1 \/ k > 1
      OBVIOUS
    <3> QED
      BY <1>3, <1>5, <1>6, <1>8, <1>10, <1>11, <1>12, <3>1
  <2> QED
    BY <1>4, <1>6, <1>9, <2>1, <2>2 DEF StateIs
<1>13. CASE k \in Signatures(s)
  <2>1. k \in 1..(n - 1)
    BY <1>1, <1>13, SignaturesFacts
  <2>2. to \in WalkState
    BY <1>5, <1>8, <1>13
  <2>3. to.absolute <=> IsAbsolute(s)
    <3>1. to.absolute <=>
            st.absolute \/ (k = 1 /\ PointersBeyond(TailOf(s, k).ptrs, Size) # {})
      BY <1>2, <1>3, <1>5, <1>6, <1>8, <1>13
    <3>2. (k > 1 \/ k = 1) /\ n > 1 /\ ~(k = 1 /\ k > 1)
      BY <2>1
    <3> QED
      BY <1>3, <1>10, <1>11, <1>13, <3>1, <3>2
  <2>4. IsAbsolute(s) \in BOOLEAN /\ to.absolute \in BOOLEAN
    BY <2>2 DEF WalkState, IsAbsolute
  <2>5. to.absolute = IsAbsolute(s)
    BY <2>3, <2>4
  <2>6. to.sections = Sections(s, k + 1)
    <3> DEFINE ptrs == block.tail.ptrs
               all == Sections(s, k + 1)
    <3>1. Pointed(s, k) = Targets(IsAbsolute(s), ptrs, Len(ptrs))
      BY PointedFacts DEF block
    <3>2. all = Sections(s, k) \cup Targets(IsAbsolute(s), ptrs, Len(ptrs))
      BY <1>13, <3>1, SectionsFacts
    <3>3. IsFiniteSet(all) /\ Cardinality(all) <= MaxSections
      <4>1. /\ k + 1 \in Nat /\ n \in Nat
            /\ IsFiniteSet(all) /\ all \subseteq Sections(s, n)
            /\ IsFiniteSet(Sections(s, n)) /\ Cardinality(Sections(s, n)) <= MaxSections
        BY <1>1, SectionsFacts
      <4>2. Cardinality(all) <= Cardinality(Sections(s, n))
        BY <4>1, FS_Subset
      <4>3. Cardinality(all) \in Nat /\ Cardinality(Sections(s, n)) \in Nat
        BY <4>1, FS_CardinalityType
      <4> QED
        BY <4>1, <4>2, <4>3
    <3>4. ptrs \in Seq(Nat)
      BY <1>2
    <3>5. to.sections = Added(Sections(s, k), IsAbsolute(s), ptrs)
      BY <1>3, <1>5, <1>8, <1>13, <2>5
    <3> HIDE DEF ptrs, all
    <3>6. to.sections = all
      BY <3>2, <3>3, <3>4, <3>5, AllAdded
    <3> QED
      BY <3>6 DEF all
  <2> QED
    BY <1>4, <1>6, <1>9, <2>1, <2>2, <2>3, <2>6 DEF StateIs
<1> QED
  BY <1>12, <1>13

LEMMA StatesAre ==
  ASSUME NEW s, IsBitstream(s), FewSections(s)
  PROVE  \A k \in 0..Blocks(s) : StateIs(s, k)
<1> DEFINE good == {k \in 0..Blocks(s) : StateIs(s, k)}
<1>1. Blocks(s) \in Nat
  BY BitstreamFacts
<1>2. 0 \in good
  <2>1. States(s)[0] = ImageInit
    BY StatesFacts
  <2>2. Sections(s, 0) = {0}
    BY SectionsFacts
  <2> QED
    <3>1. /\ ImageInit \in WalkState /\ ImageInit.offset = 0 - 1
          /\ ImageInit.sections = {0} /\ ImageInit.type # "signature"
          /\ ImageInit.absolute = FALSE
      BY DEF ImageInit, WalkState
    <3>2. ~(0 > 0) /\ ~(0 > 1) /\ 0 \in 0..Blocks(s)
      BY <1>1
    <3> QED
      BY <2>1, <2>2, <3>1, <3>2 DEF StateIs
<1>3. ASSUME NEW k \in 0..(Blocks(s) - 1), k \in good
      PROVE  k + 1 \in good
  BY <1>1, <1>3, StateStep
<1> HIDE DEF good
<1>4. \A k \in 0..Blocks(s) : k \in good
  BY <1>1, <1>2, <1>3, UpTo
<1> QED
  BY <1>4 DEF good

\* The state machine of librsu_image_block_process, which sees a bitstream block by
\* block, takes for signature blocks those that the bitstream as a whole has, as long
\* as its list of sections is long enough.
THEOREM WalkFindsThem ==
  ASSUME NEW s, IsBitstream(s), FewSections(s)
  PROVE  Walked(s) = Signatures(s)
<1>1. Blocks(s) \in Nat
  BY BitstreamFacts
<1>2. \A k \in 0..(Blocks(s) - 1) : IsSignature(States(s)[k]) <=> k \in Signatures(s)
  BY <1>1, StatesAre, SignatureFound
<1>3. Signatures(s) \subseteq 0..(Blocks(s) - 1)
  BY <1>1, SignaturesFacts
<1> QED
  BY <1>2, <1>3 DEF Walked

\* What the state machine makes of a bitstream is the relocated bitstream.
THEOREM WalkRelocates ==
  ASSUME NEW s, IsBitstream(s), FewSections(s)
  PROVE  \A x \in DOMAIN s : Walk(s, x) = Relocated(s)[x]
<1> TAKE x \in DOMAIN s
<1> DEFINE k == (x - 1) \div 2
<1>1. Relocated(s)[x] =
        IF x = 2 * k + 2 /\ k \in Signatures(s)
        THEN SigBlockExpected(IsAbsolute(s), BlockOf(s, k)).tail
        ELSE s[x]
  BY DEF Relocated
<1>2. Walk(s, x) =
        IF x = 2 * k + 2 /\ k \in Signatures(s)
        THEN SigBlockExpected(States(s)[k + 1].absolute, BlockOf(s, k)).tail
        ELSE s[x]
  BY WalkFindsThem DEF Walk
<1>3. Blocks(s) \in Nat
  BY BitstreamFacts
<1> HIDE DEF k
<1>4. ASSUME k \in Signatures(s)
      PROVE  States(s)[k + 1].absolute = IsAbsolute(s)
  <2>1. k \in 1..(Blocks(s) - 1)
    BY <1>4, SignaturesFacts
  <2>2. k + 1 \in 0..Blocks(s) /\ k + 1 > 1
    BY <1>3, <2>1
  <2>3. StateIs(s, k + 1)
    BY <2>2, StatesAre
  <2>4. States(s)[k + 1].absolute \in BOOLEAN /\ IsAbsolute(s) \in BOOLEAN
    BY <2>3 DEF StateIs, WalkState, IsAbsolute
  <2> QED
    BY <2>2, <2>3, <2>4 DEF StateIs
<1> QED
  BY <1>1, <1>2, <1>4

-----------------------------------------------------------------------------
(* The invariant of ProgramInvariant is inductive *)

LEMMA InitInv == Init => IInv
<1> SUFFICES ASSUME Init
             PROVE  IInv
  OBVIOUS
<1>1. ~Busy /\ Idle
  BY DEF Init, Busy, Idle
<1>2. CallInv
  BY <1>1 DEF Init, CallInv, NoCall, NoBlock, Idle
<1>3. SlotInv
  BY DEF Init, SlotInv, Erased
<1> QED
  BY <1>1, <1>2, <1>3 DEF IInv, PlaceInv, BufferInv, StateInv, BehindInv

\* Every call that returns leaves the loop, so that only what is in flash matters.
LEMMA ReturnInv ==
  ASSUME NEW result, Return(result), SlotInv'
  PROVE  IInv'
<1>1. Idle' /\ ~Busy'
  BY DEF Return, Idle, Busy
<1>2. CallInv'
  BY <1>1 DEF Return, Reset, CallInv, NoCall, NoBlock, Idle
<1> QED
  BY <1>1, <1>2 DEF IInv, PlaceInv, BufferInv, StateInv, BehindInv

LEMMA SlotKept == SlotInv /\ UNCHANGED <<flash, listed, content>> => SlotInv'
<1> SUFFICES ASSUME SlotInv, flash' = flash, listed' = listed, content' = content
             PROVE  SlotInv'
  OBVIOUS
<1>1. flash' = [p \in Pages |-> flash'[p]]
  BY DEF SlotInv
<1> QED
  BY <1>1 DEF SlotInv

\* A slot that is not listed may hold anything.
LEMMA NotListed ==
  ASSUME listed' = FALSE, flash' = [p \in Pages |-> flash'[p]]
  PROVE  SlotInv'
BY DEF SlotInv

LEMMA FlashShape ==
  ASSUME SlotInv
  PROVE  /\ DOMAIN flash = Pages
         /\ \A f \in Torn \cup HalfErased \cup Written : f = [p \in Pages |-> f[p]]
         /\ Erased = [p \in Pages |-> Erased[p]]
<1>1. flash = [p \in Pages |-> flash[p]]
  BY DEF SlotInv
<1>2. \A f \in Torn : f = [p \in Pages |-> f[p]]
  <2> TAKE f \in Torn
  <2>1. \/ f = flash
        \/ \E front : f = [flash EXCEPT ![offset] = front]
        \/ \E tail : f = [flash EXCEPT ![offset] = buf.front, ![offset + 1] = tail]
    BY Zenon DEF Torn
  <2> QED
    BY <1>1, <2>1
<1>3. \A f \in HalfErased : f = [p \in Pages |-> f[p]]
  BY DEF HalfErased
<1>4. \A f \in Written : f = [p \in Pages |-> f[p]]
  <2> TAKE f \in Written
  <2>1. \E front, tail : f = [flash EXCEPT ![offset] = front, ![offset + 1] = tail]
    BY DEF Written
  <2> QED
    BY <1>1, <2>1
<1> QED
  BY <1>1, <1>2, <1>3, <1>4 DEF Erased

\* The beginning of a call that loops over blocks.
LEMMA StartInv ==
  ASSUME IInv, NEW op \in {"program", "verify"}, NEW raw \in BOOLEAN,
         NEW source \in {"buf", "file", "callback"}, NEW data \in Streams,
         op = "program" => ~listed, op = "verify" => raw \/ listed,
         Start(op, raw, source, data)
  PROVE  IInv'
<1>1. /\ Idle /\ pc' = "fill" /\ Busy' /\ ~Idle' /\ stream' = data
      /\ call'.op = op /\ call'.raw = raw /\ call'.source = source /\ call'.result = "none"
      /\ UNCHANGED <<flash, listed, offset, cnt, done, state, buf, content>>
  BY DEF Start, Idle, Busy
<1>2. offset = 0 /\ cnt = 0 /\ done = FALSE /\ state = ImageInit /\ buf = NoBlock
  BY <1>1 DEF IInv, CallInv
<1>3. IsBitstream(data) /\ Len(data) \in Nat
  BY BitstreamFacts
<1>4. CallInv'
  BY <1>1 DEF CallInv
<1>5. PlaceInv'
  <2>1. 0 + 0 <= Len(data) /\ 0 <= 2 * Size /\ 0 % 2 = 0 /\ 0 \in Nat /\ 0 \in 0..2
    BY <1>3
  <2> QED
    BY <1>1, <1>2, <2>1 DEF PlaceInv
<1>6. BufferInv'
  BY <1>1, <1>2 DEF BufferInv, NoBlock
<1>7. StateInv'
  <2>1. 0 \div 2 = 0 /\ States(data)[0] = ImageInit
    BY <1>3, StatesFacts
  <2> QED
    BY <1>1, <1>2, <2>1 DEF StateInv
<1>8. BehindInv'
  BY <1>1, <1>2 DEF BehindInv
<1>9. SlotInv'
  BY <1>1, SlotKept DEF IInv
<1> QED
  BY <1>4, <1>5, <1>6, <1>7, <1>8, <1>9 DEF IInv

\* Where the loop is, when there is something in the buffer.
LEMMA PlaceFacts ==
  ASSUME IInv, Busy, done = FALSE \/ cnt > 0
  PROVE  \E k \in Nat :
           /\ offset = 2 * k /\ offset \div 2 = k /\ offset % 2 = 0
           /\ (offset + 2) \div 2 = k + 1 /\ (offset + 2) % 2 = 0 /\ (offset + 1) % 2 = 1
           /\ stream \in Streams /\ IsBitstream(stream)
           /\ offset + cnt <= Len(stream)
           /\ cnt = 2 => k \in 0..(Blocks(stream) - 1)
           /\ cnt > 0 => k \in 0..(Blocks(stream) - 1) \/ k = Blocks(stream)
<1>1. /\ stream \in Streams /\ offset \in Nat /\ cnt \in 0..2
      /\ offset + cnt <= Len(stream) /\ offset % 2 = 0
  BY DEF IInv, PlaceInv
<1>2. IsBitstream(stream)
  BY <1>1
<1>3. PICK n \in Nat, b \in Nat : /\ Len(stream) = n /\ Blocks(stream) = b
                                  /\ 2 * b <= n /\ n <= 2 * b + 1
  BY <1>2, BitstreamFacts
<1>4. PICK k \in Nat : offset = 2 * k
  <2>1. \A y \in Nat : y % 2 = 0 => y \div 2 \in Nat /\ y = 2 * (y \div 2)
    OBVIOUS
  <2> QED
    BY <1>1, <2>1
<1>5. /\ offset \div 2 = k /\ (offset + 2) \div 2 = k + 1
      /\ (offset + 2) % 2 = 0 /\ (offset + 1) % 2 = 1
  BY <1>4
<1>6. cnt = 2 => k \in 0..(b - 1)
  BY <1>1, <1>3, <1>4
<1>7. cnt > 0 => k \in 0..(b - 1) \/ k = b
  BY <1>1, <1>3, <1>4
<1> QED
  BY <1>1, <1>2, <1>3, <1>4, <1>5, <1>6, <1>7

LEMMA FillInv == IInv /\ Fill => IInv'
<1> SUFFICES ASSUME IInv, Fill
             PROVE  IInv'
  OBVIOUS
<1>1. /\ Reading /\ Busy /\ Busy' /\ ~Idle /\ ~Idle'
      /\ UNCHANGED <<flash, listed, pc, call, stream, offset, state, content>>
  BY DEF Fill, Reading, Busy, Idle
<1>2. PICK c \in Chunks :
        /\ done' = (c = 0) /\ cnt' = cnt + c
        /\ buf' = [front |-> IF cnt + c > 0 THEN stream[offset + 1] ELSE buf.front,
                   tail |-> IF cnt + c = 2 THEN stream[offset + 2] ELSE buf.tail]
  BY DEF Fill
<1>3. /\ pc = "fill" /\ done = FALSE /\ cnt \in {0, 1} /\ offset \in Nat
      /\ stream \in Streams /\ offset + cnt <= Len(stream) /\ offset <= 2 * Size
      /\ offset % 2 = 0 /\ call.source \in {"buf", "file", "callback"}
  BY <1>1 DEF IInv, CallInv, PlaceInv, Reading
<1>4. PICK n \in Nat : Len(stream) = n
  BY <1>3, BitstreamFacts
<1>5. /\ c \in Nat /\ c <= 2 - cnt /\ c <= n - offset - cnt
      /\ (c = 0 /\ call.source # "file") => n - offset - cnt = 0
  <2> DEFINE left == n - offset - cnt
  <2>1. Left = left /\ left \in Nat
    BY <1>3, <1>4 DEF Left
  <2>2. /\ Least(2 - cnt, left) \in Nat /\ Least(2 - cnt, left) <= left
        /\ Least(2 - cnt, left) <= 2 - cnt
        /\ Least(2 - cnt, left) = 0 => left = 0
    BY <1>3, <2>1 DEF Least
  <2> HIDE DEF left
  <2>3. CASE call.source = "buf"
    <3>1. c = Least(2 - cnt, left)
      BY <2>1, <2>3 DEF Chunks, BufChunks
    <3> QED
      BY <2>2, <3>1 DEF left
  <2>4. CASE call.source = "file"
    <3>1. c \in 0..Least(2 - cnt, left)
      BY <2>1, <2>2, <2>4 DEF Chunks, BufChunks, FileChunks
    <3> QED
      BY <1>3, <2>1, <2>2, <2>4, <3>1 DEF left
  <2>5. CASE call.source = "callback"
    <3>1. c \in IF left = 0 THEN {0} ELSE 1..Least(2 - cnt, left)
      BY <2>1, <2>5 DEF Chunks, CallbackChunks
    <3> QED
      BY <1>3, <2>1, <2>2, <3>1 DEF left
  <2> QED
    BY <1>3, <2>3, <2>4, <2>5
<1>6. /\ cnt' \in 0..2 /\ done' \in BOOLEAN /\ offset + cnt' <= n
      /\ (done' /\ call.source # "file") => offset + cnt' = n
  <2>1. done' \in BOOLEAN /\ (done' => c = 0)
    BY <1>2
  <2>2. cnt' = cnt + c
    BY <1>2
  <2>3. cnt' \in 0..2 /\ offset + cnt' <= n
    BY <1>3, <1>5, <2>2
  <2>4. (c = 0 /\ call.source # "file") => offset + cnt' = n
    BY <1>3, <1>5, <2>2
  <2> QED
    BY <2>1, <2>3, <2>4
<1>7. CallInv'
  BY <1>1, <1>3 DEF IInv, CallInv
<1>8. PlaceInv'
  BY <1>1, <1>3, <1>4, <1>6 DEF PlaceInv
<1>9. BufferInv'
  <2>1. /\ buf'.front = IF cnt' > 0 THEN stream[offset + 1] ELSE buf.front
        /\ buf'.tail = IF cnt' = 2 THEN stream[offset + 2] ELSE buf.tail
        /\ buf' = [front |-> buf'.front, tail |-> buf'.tail]
    BY <1>2
  <2> QED
    BY <1>1, <1>3, <2>1 DEF BufferInv
<1>10. StateInv'
  BY <1>1, <1>3 DEF IInv, StateInv
<1>11. BehindInv'
  BY <1>1 DEF IInv, BehindInv, Expected
<1>12. SlotInv'
  BY <1>1, SlotKept DEF IInv
<1> QED
  BY <1>7, <1>8, <1>9, <1>10, <1>11, <1>12 DEF IInv

\* What librsu_image_block_process makes of the block in the buffer.
LEMMA BlockFacts ==
  ASSUME IInv, Busy, pc = "fill", cnt > 0, done \/ cnt = 2
  PROVE  /\ \A absolute :
              SigBlockExpected(absolute, buf).front = buf.front
              /\ SigBlockExpected(absolute, buf) =
                   [front |-> buf.front, tail |-> SigBlockExpected(absolute, buf).tail]
         /\ Expected(offset + 1) = stream[offset + 1] /\ buf.front = stream[offset + 1]
         /\ cnt = 2 => buf.tail = stream[offset + 2]
         /\ (cnt = 2 /\ call.raw) => Expected(offset + 2) = buf.tail
         /\ (cnt = 2 /\ ~call.raw) =>
              /\ NextState = States(stream)[offset \div 2 + 1]
              /\ Expected(offset + 2) = IF IsSigned
                                        THEN SigBlockExpected(NextState.absolute, buf).tail
                                        ELSE buf.tail
<1>1. PICK k \in Nat :
        /\ offset = 2 * k /\ offset \div 2 = k /\ offset % 2 = 0
        /\ IsBitstream(stream)
        /\ cnt = 2 => k \in 0..(Blocks(stream) - 1)
        /\ cnt > 0 => k \in 0..(Blocks(stream) - 1) \/ k = Blocks(stream)
  BY PlaceFacts
<1>2. /\ buf = [front |-> buf.front, tail |-> buf.tail]
      /\ buf.front = stream[offset + 1]
      /\ cnt = 2 => buf.tail = stream[offset + 2]
  BY DEF IInv, BufferInv
<1>3. ASSUME NEW absolute
      PROVE  /\ SigBlockExpected(absolute, buf).front = buf.front
             /\ SigBlockExpected(absolute, buf) =
                  [front |-> buf.front, tail |-> SigBlockExpected(absolute, buf).tail]
  <2> DEFINE block == SigBlockExpected(absolute, buf)
  <2>1. \E tail : block = [front |-> buf.front, tail |-> tail]
    <3>1. CASE absolute
      BY <1>2, <3>1 DEF SigBlockExpected
    <3>2. CASE ~absolute
      <4>1. \E tail : block = [buf EXCEPT !.tail = tail]
        BY <3>2, Zenon DEF SigBlockExpected, Relocate
      <4> QED
        BY <1>2, <4>1
    <3> QED
      BY <3>1, <3>2
  <2> HIDE DEF block
  <2>2. block.front = buf.front /\ block = [front |-> buf.front, tail |-> block.tail]
    BY <2>1
  <2> QED
    BY <2>2 DEF block
<1>4. Walk(stream, 2 * k + 1) = stream[2 * k + 1]
  BY <1>1, WalkFacts
<1>5. Expected(offset + 1) = stream[offset + 1]
  BY <1>1, <1>4 DEF Expected
<1>6. ASSUME cnt = 2, call.raw
      PROVE  Expected(offset + 2) = buf.tail
  BY <1>2, <1>6 DEF Expected
<1>7. ASSUME cnt = 2, ~call.raw
      PROVE  /\ NextState = States(stream)[offset \div 2 + 1]
             /\ Expected(offset + 2) = IF IsSigned
                                       THEN SigBlockExpected(NextState.absolute, buf).tail
                                       ELSE buf.tail
  <2>1. k \in 0..(Blocks(stream) - 1) /\ IsBitstream(stream)
    BY <1>1, <1>7
  <2>2. state = States(stream)[k]
    BY <1>1, <1>7 DEF IInv, StateInv
  <2>3. buf = BlockOf(stream, k)
    BY <1>1, <1>2, <1>7 DEF BlockOf, FrontOf, TailOf
  <2>4. States(stream)[k + 1] = BlockProcess(States(stream)[k], BlockOf(stream, k))
    BY <2>1, StatesFacts
  <2>5. NextState = States(stream)[k + 1]
    BY <1>7, <2>2, <2>3, <2>4 DEF NextState
  <2>6. IsSigned <=> IsSignature(States(stream)[k])
    BY <1>7, <2>2 DEF IsSigned
  <2>7. Walk(stream, 2 * k + 2) =
          IF IsSignature(States(stream)[k])
          THEN SigBlockExpected(States(stream)[k + 1].absolute, BlockOf(stream, k)).tail
          ELSE stream[2 * k + 2]
    BY <2>1, WalkFacts
  <2>8. Expected(offset + 2) = Walk(stream, 2 * k + 2) /\ buf.tail = stream[2 * k + 2]
    BY <1>1, <1>2, <1>7 DEF Expected
  <2> QED
    BY <1>1, <2>3, <2>5, <2>6, <2>7, <2>8
<1> QED
  BY <1>2, <1>3, <1>5, <1>6, <1>7

LEMMA ProcessBlockInv == IInv /\ ProcessBlock => IInv'
<1> SUFFICES ASSUME IInv, ProcessBlock
             PROVE  IInv'
  OBVIOUS
<1>1. /\ pc = "fill" /\ (done \/ cnt = 2) /\ cnt > 0 /\ Programming /\ pc' = "write"
      /\ Busy /\ Busy' /\ ~Idle /\ ~Idle'
      /\ UNCHANGED <<flash, listed, call, stream, offset, cnt, done, content>>
  BY DEF ProcessBlock, Filled, Busy, Idle
<1>2. /\ state' = NextState
      /\ buf' = IF IsSigned THEN SigBlockExpected(NextState.absolute, buf) ELSE buf
  BY DEF ProcessBlock
<1>3. CallInv'
  BY <1>1 DEF IInv, CallInv, Programming
<1>4. PlaceInv'
  <2>1. offset % 2 = 0
    BY <1>1, PlaceFacts
  <2> QED
    BY <1>1, <2>1 DEF IInv, PlaceInv
<1>5. buf = [front |-> buf.front, tail |-> buf.tail]
  BY <1>1 DEF IInv, BufferInv
<1>6. BufferInv'
  <2>1. /\ buf' = [front |-> buf'.front, tail |-> buf'.tail]
        /\ buf'.front = stream[offset + 1]
    <3>1. CASE IsSigned
      BY <1>1, <1>2, <3>1, BlockFacts
    <3>2. CASE ~IsSigned
      BY <1>1, <1>2, <1>5, <3>2, BlockFacts
    <3> QED
      BY <3>1, <3>2
  <2>2. cnt = 2 => buf'.tail = Expected(offset + 2)
    <3>1. CASE call.raw
      BY <1>1, <1>2, <3>1, BlockFacts DEF IsSigned
    <3>2. CASE ~call.raw
      BY <1>1, <1>2, <3>2, BlockFacts
    <3> QED
      BY <3>1, <3>2
  <2>3. Expected(offset + 2)' = Expected(offset + 2)
    BY <1>1 DEF Expected
  <2> QED
    BY <1>1, <2>1, <2>2, <2>3 DEF BufferInv
<1>7. StateInv'
  BY <1>1, <1>2, BlockFacts DEF StateInv
<1>8. BehindInv'
  BY <1>1 DEF IInv, BehindInv, Expected
<1>9. SlotInv'
  BY <1>1, SlotKept DEF IInv
<1> QED
  BY <1>3, <1>4, <1>6, <1>7, <1>8, <1>9 DEF IInv

LEMMA WriteBlockInv == IInv /\ WriteBlock => IInv'
<1> SUFFICES ASSUME IInv, WriteBlock
             PROVE  IInv'
  OBVIOUS
<1>1. /\ pc = "write" /\ pc' = "readback" /\ Fits /\ flash' \in Written
      /\ Busy /\ Busy' /\ ~Idle /\ ~Idle'
      /\ UNCHANGED <<listed, call, stream, offset, cnt, done, state, buf, content>>
  BY DEF WriteBlock, loop, Busy, Idle
<1>2. CallInv' /\ listed' = FALSE
  BY <1>1 DEF IInv, CallInv, SlotInv
<1>3. PlaceInv'
  BY <1>1 DEF IInv, PlaceInv, Fits
<1>4. BufferInv'
  BY <1>1 DEF IInv, BufferInv, Expected
<1>5. StateInv'
  BY <1>1 DEF IInv, StateInv
<1>6. BehindInv'
  <2>1. PICK front, tail : flash' = [flash EXCEPT ![offset] = front, ![offset + 1] = tail]
    BY <1>1 DEF Written
  <2>2. DOMAIN flash = Pages
    BY FlashShape DEF IInv
  <2>3. offset \in Nat /\ offset <= 2 * Size
    BY <1>1 DEF IInv, PlaceInv
  <2>4. \A x \in 1..offset : x - 1 \in Pages /\ x - 1 # offset /\ x - 1 # offset + 1
    BY <2>3 DEF Pages
  <2>5. \A x \in 1..offset : flash'[x - 1] = flash[x - 1]
    BY <2>1, <2>2, <2>4
  <2> QED
    BY <1>1, <2>5 DEF IInv, BehindInv, Expected
<1>7. SlotInv'
  BY <1>1, <1>2, FlashShape, NotListed DEF IInv
<1> QED
  BY <1>2, <1>3, <1>4, <1>5, <1>6, <1>7 DEF IInv

\* The loop moves on when the block in flash is what it should be.
LEMMA NextBlockInv ==
  ASSUME IInv, Busy, cnt > 0, done \/ cnt = 2, Fits, NextBlock,
         UNCHANGED <<flash, listed, call, stream, done, buf, content>>,
         flash[offset] = stream[offset + 1],
         cnt = 2 => flash[offset + 1] = Expected(offset + 2),
         (cnt = 2 /\ ~call.raw) => state' = States(stream)[offset \div 2 + 1]
  PROVE  IInv'
<1>1. /\ pc' = "fill" /\ offset' = offset + cnt /\ cnt' = 0 /\ Busy' /\ ~Idle /\ ~Idle'
  BY DEF NextBlock, Busy, Idle
<1>2. PICK k \in Nat :
        /\ offset = 2 * k /\ offset \div 2 = k /\ (offset + 2) \div 2 = k + 1
        /\ offset % 2 = 0 /\ (offset + 2) % 2 = 0 /\ (offset + 1) % 2 = 1
        /\ IsBitstream(stream)
        /\ k \in 0..(Blocks(stream) - 1) \/ k = Blocks(stream)
  BY PlaceFacts
<1>3. cnt \in {1, 2} /\ offset \in Nat /\ Len(stream) \in Nat
  BY <1>2, BitstreamFacts DEF IInv, PlaceInv
<1>4. CallInv'
  BY <1>1 DEF IInv, CallInv, Busy
<1>5. PlaceInv'
  <2>1. /\ stream \in Streams /\ done \in BOOLEAN /\ offset + cnt <= Len(stream)
        /\ (done /\ call.source # "file") => offset + cnt = Len(stream)
    BY DEF IInv, PlaceInv
  <2>2. /\ offset' \in Nat /\ offset' <= 2 * Size /\ offset' + cnt' = offset + cnt
        /\ cnt' \in 0..2
    BY <1>1, <1>3 DEF Fits
  <2>3. offset' % 2 = 0 \/ done
    BY <1>1, <1>2, <1>3
  <2> QED
    BY <1>1, <2>1, <2>2, <2>3 DEF PlaceInv
<1>6. BufferInv'
  BY <1>1 DEF IInv, BufferInv
<1>7. StateInv'
  <2>1. (offset' % 2 = 0 /\ ~call.raw) => state' = States(stream)[offset' \div 2]
    BY <1>1, <1>2, <1>3
  <2> QED
    BY <1>1, <2>1 DEF StateInv
<1>8. BehindInv'
  <2>1. \A x \in 1..offset : flash[x - 1] = Expected(x)
    BY DEF IInv, BehindInv
  <2>2. flash[offset] = Expected(offset + 1)
    <3>1. Walk(stream, 2 * k + 1) = stream[2 * k + 1]
      BY <1>2, WalkFacts
    <3> QED
      BY <1>2, <3>1 DEF Expected
  <2>3. ASSUME NEW x \in 1..(offset + cnt)
        PROVE  flash[x - 1] = Expected(x)
    <3>1. \/ x \in 1..offset
          \/ x = offset + 1 /\ x - 1 = offset
          \/ x = offset + 2 /\ x - 1 = offset + 1 /\ cnt = 2
      BY <1>3
    <3> QED
      BY <2>1, <2>2, <3>1
  <2>4. \A x : Expected(x)' = Expected(x)
    BY DEF Expected
  <2> QED
    BY <1>1, <2>3, <2>4 DEF BehindInv
<1>9. SlotInv'
  BY SlotKept DEF IInv
<1> QED
  BY <1>4, <1>5, <1>6, <1>7, <1>8, <1>9 DEF IInv

LEMMA ReadBackInv == IInv /\ ReadBack => IInv'
<1> SUFFICES ASSUME IInv, ReadBack
             PROVE  IInv'
  OBVIOUS
<1>1. /\ pc = "readback" /\ Busy /\ NextBlock /\ SameAs(buf)
      /\ UNCHANGED <<flash, listed, call, stream, done, state, buf, content>>
  BY DEF ReadBack, Busy
<1>2. cnt > 0 /\ (done \/ cnt = 2) /\ Fits
  BY <1>1 DEF IInv, PlaceInv
<1>3. /\ buf.front = stream[offset + 1]
      /\ cnt = 2 => buf.tail = Expected(offset + 2)
  BY <1>1, <1>2 DEF IInv, BufferInv
<1>4. (cnt = 2 /\ ~call.raw) => state = States(stream)[offset \div 2 + 1]
  <2>1. offset % 2 = 0
    BY <1>1, <1>2, PlaceFacts
  <2> QED
    BY <1>1, <2>1 DEF IInv, StateInv
<1> QED
  BY <1>1, <1>2, <1>3, <1>4, NextBlockInv DEF SameAs

LEMMA VerifyBlockInv == IInv /\ VerifyBlock => IInv'
<1> SUFFICES ASSUME IInv, VerifyBlock
             PROVE  IInv'
  OBVIOUS
<1>1. /\ pc = "fill" /\ (done \/ cnt = 2) /\ cnt > 0 /\ Fits /\ NextBlock /\ Busy
      /\ state' = NextState
      /\ UNCHANGED <<flash, listed, call, stream, done, buf, content>>
  BY DEF VerifyBlock, Filled, Busy
<1>2. PICK seen \in Seen : Equal(seen)
  BY DEF VerifyBlock
<1>3. PICK tail : /\ seen = [front |-> flash[offset], tail |-> tail]
                  /\ cnt = 2 => tail = flash[offset + 1]
  BY <1>2 DEF Seen
<1>4. CASE call.raw
  <2>1. SameAs(buf)
    BY <1>2, <1>4 DEF Equal
  <2> QED
    BY <1>1, <1>4, <2>1, BlockFacts, NextBlockInv DEF SameAs
<1>5. CASE ~call.raw
  <2>1. seen = IF IsSigned THEN SigBlockExpected(NextState.absolute, buf) ELSE buf
    BY <1>2, <1>5 DEF Equal
  <2>2. seen.front = stream[offset + 1]
    BY <1>1, <2>1, BlockFacts
  <2>3. cnt = 2 => seen.tail = Expected(offset + 2)
    BY <1>1, <1>5, <2>1, BlockFacts
  <2>4. cnt = 2 => state' = States(stream)[offset \div 2 + 1]
    BY <1>1, <1>5, BlockFacts
  <2> QED
    BY <1>1, <1>3, <2>2, <2>3, <2>4, NextBlockInv
<1> QED
  BY <1>4, <1>5

LEMMA ListInv == IInv /\ List => IInv'
<1> SUFFICES ASSUME IInv, List
             PROVE  IInv'
  OBVIOUS
<1>1. /\ pc = "fill" /\ Busy /\ cnt = 0 /\ ~call.raw /\ flash' = flash /\ listed' \in BOOLEAN
      /\ content' = IF listed' THEN SubSeq(stream, 1, offset) ELSE Nothing
      /\ \E result : Return(result)
  BY DEF List, Filled, Busy
<1>2. /\ stream \in Streams /\ offset \in Nat /\ offset + cnt <= Len(stream)
      /\ offset <= 2 * Size
  BY <1>1 DEF IInv, PlaceInv
<1>3. IsBitstream(stream)
  BY <1>2
<1>4. offset \in 0..Len(stream)
  BY <1>1, <1>2, <1>3, BitstreamFacts
<1> DEFINE given == SubSeq(stream, 1, offset)
<1>5. IsBitstream(given) /\ Len(given) = offset /\ DOMAIN given = 1..offset
  BY <1>3, <1>4, PrefixFacts
<1>6. \A x \in 1..offset : Walk(given, x) = Walk(stream, x)
  BY <1>3, <1>4, PrefixWalk
<1>7. \A x \in 1..offset : flash[x - 1] = Walk(stream, x)
  BY <1>1 DEF IInv, BehindInv, Expected
<1> HIDE DEF given
<1>8. SlotInv'
  <2>1. flash' = [p \in Pages |-> flash'[p]]
    BY <1>1 DEF IInv, SlotInv
  <2>2. ASSUME listed'
        PROVE  /\ IsBitstream(content') /\ Len(content') <= 2 * Size
               /\ \A x \in DOMAIN content' : flash'[x - 1] = Walk(content', x)
    <3>1. content' = given
      BY <1>1, <2>2 DEF given
    <3> QED
      BY <1>1, <1>2, <1>5, <1>6, <1>7, <3>1
  <2> QED
    BY <1>1, <2>1, <2>2 DEF SlotInv
<1> QED
  BY <1>1, <1>8, ReturnInv

LEMMA FailureInv ==
  ASSUME IInv, \/ FillFails \/ RejectBlock \/ WriteFails \/ ReadBackFails
               \/ Finish \/ VerifyFails \/ EraseData
  PROVE  IInv'
<1>1. SlotInv
  BY DEF IInv
<1>2. CASE FillFails \/ RejectBlock \/ ReadBackFails \/ Finish \/ VerifyFails
  <2>1. UNCHANGED <<flash, listed, content>> /\ \E result : Return(result)
    BY <1>2 DEF FillFails, RejectBlock, ReadBackFails, Finish, VerifyFails
  <2> QED
    BY <1>1, <2>1, SlotKept, ReturnInv
<1>3. CASE WriteFails
  <2>1. /\ pc = "write" /\ \E result : Return(result)
        /\ flash' \in Torn \/ flash' = flash
        /\ UNCHANGED <<listed, content>>
    BY <1>3 DEF WriteFails
  <2>2. listed' = FALSE
    BY <2>1 DEF IInv, CallInv, SlotInv, Busy
  <2>3. flash' = [p \in Pages |-> flash'[p]]
    BY <1>1, <2>1, FlashShape DEF SlotInv
  <2> QED
    BY <2>1, <2>2, <2>3, NotListed, ReturnInv
<1>4. CASE EraseData
  <2>1. /\ pc = "erase" /\ \E result : Return(result)
        /\ flash' \in HalfErased \/ flash' = Erased
        /\ UNCHANGED <<listed, content>>
    BY <1>4 DEF EraseData
  <2>2. listed' = FALSE
    BY <2>1 DEF IInv, CallInv, SlotInv
  <2>3. flash' = [p \in Pages |-> flash'[p]]
    BY <1>1, <2>1, FlashShape
  <2> QED
    BY <2>1, <2>2, <2>3, NotListed, ReturnInv
<1> QED
  BY <1>2, <1>3, <1>4

LEMMA StepInv == IInv /\ Step => IInv'
BY FillInv, ProcessBlockInv, WriteBlockInv, ReadBackInv, VerifyBlockInv, ListInv, FailureInv
   DEF Step

\* Calls that take one step, and the erasure of a slot, change the list only.
LEMMA ListedInv ==
  ASSUME IInv, Erase \/ Disable \/ Enable \/ RemoveFails
  PROVE  IInv'
<1>1. /\ Idle /\ flash' = flash /\ UNCHANGED loop
      /\ listed' \in BOOLEAN /\ (listed' => content' \in {content, Nothing})
      /\ (listed' /\ content' # Nothing) => listed /\ content' = content
      /\ \/ pc' = "idle" /\ call'.op = "none"
         \/ pc' = "erase" /\ call'.op = "erase" /\ call'.result = "none" /\ listed' = FALSE
  <2>1. Idle /\ flash' = flash /\ UNCHANGED loop
    BY DEF Erase, Disable, Enable, RemoveFails, Returned
  <2>2. \/ pc' = "idle" /\ call'.op = "none"
        \/ pc' = "erase" /\ call'.op = "erase" /\ call'.result = "none" /\ listed' = FALSE
    <3>1. CASE Erase
      BY <3>1 DEF Erase, NoCall
    <3>2. CASE Disable \/ Enable \/ RemoveFails
      <4>1. pc' = "idle" /\ \E result : call' = [NoCall EXCEPT !.result = result]
        BY <2>1, <3>2 DEF Disable, Enable, RemoveFails, Returned, Idle
      <4> QED
        BY <4>1 DEF NoCall
    <3> QED
      BY <3>1, <3>2
  <2>3. listed \in BOOLEAN
    BY DEF IInv, SlotInv
  <2>4. \/ listed' = FALSE
        \/ listed' = listed /\ listed = TRUE /\ content' = content
        \/ listed' = TRUE /\ content' = Nothing
    BY <2>3 DEF Erase, Disable, Enable, RemoveFails
  <2> QED
    BY <2>1, <2>2, <2>4
<1>2. ~Busy' /\ (Idle' \/ pc' = "erase")
  BY <1>1 DEF Busy, Idle
<1>3. UNCHANGED <<stream, offset, cnt, done, state, buf, vbuf>>
  BY <1>1 DEF loop
<1>4. CallInv'
  BY <1>1, <1>2, <1>3 DEF IInv, CallInv, Idle, NoBlock
<1>5. SlotInv'
  <2>1. flash' = [p \in Pages |-> flash'[p]]
    BY <1>1 DEF IInv, SlotInv
  <2>2. (listed' /\ content' # Nothing) =>
          /\ IsBitstream(content') /\ Len(content') <= 2 * Size
          /\ \A x \in DOMAIN content' : flash'[x - 1] = Walk(content', x)
    BY <1>1 DEF IInv, SlotInv
  <2> QED
    BY <1>1, <2>1, <2>2 DEF SlotInv
<1> QED
  BY <1>2, <1>4, <1>5 DEF IInv, PlaceInv, BufferInv, StateInv, BehindInv

LEMMA ApiInv == IInv /\ Api => IInv'
<1> SUFFICES ASSUME IInv, Api
             PROVE  IInv'
  OBVIOUS
<1>1. ASSUME NEW data \in Streams, NEW raw \in BOOLEAN,
             NEW source \in {"buf", "file", "callback"}, Program(raw, source, data)
      PROVE  IInv'
  BY <1>1, StartInv DEF Program
<1>2. ASSUME NEW data \in Streams, NEW raw \in BOOLEAN,
             NEW source \in {"buf", "file", "callback"}, Verify(raw, source, data)
      PROVE  IInv'
  BY <1>2, StartInv DEF Verify
<1>3. ASSUME NEW data \in Streams,
             \/ ProgramBuf(data) \/ ProgramFile(data) \/ ProgramCallback(data)
             \/ ProgramBufRaw(data) \/ ProgramFileRaw(data) \/ ProgramCallbackRaw(data)
      PROVE  IInv'
  BY <1>1, <1>3, Zenon DEF ProgramBuf, ProgramFile, ProgramCallback, ProgramBufRaw,
     ProgramFileRaw, ProgramCallbackRaw
<1>4. ASSUME NEW data \in Streams,
             \/ VerifyBuf(data) \/ VerifyFile(data) \/ VerifyCallback(data)
             \/ VerifyBufRaw(data) \/ VerifyFileRaw(data) \/ VerifyCallbackRaw(data)
      PROVE  IInv'
  BY <1>2, <1>4, Zenon DEF VerifyBuf, VerifyFile, VerifyCallback, VerifyBufRaw,
     VerifyFileRaw, VerifyCallbackRaw
<1> QED
  BY <1>3, <1>4, ListedInv DEF Api

LEMMA CrashInv == IInv /\ Crash => IInv'
<1> SUFFICES ASSUME IInv, Crash
             PROVE  IInv'
  OBVIOUS
<1>1. /\ pc' = "idle" /\ call' = NoCall /\ Reset /\ UNCHANGED <<listed, content>>
      /\ \/ flash' = flash
         \/ pc = "write" /\ flash' \in Torn
         \/ pc = "erase" /\ flash' \in HalfErased
  BY DEF Crash
<1>2. Return("none")
  BY <1>1 DEF Return, NoCall
<1>3. SlotInv'
  <2>1. CASE flash' = flash
    BY <1>1, <2>1, SlotKept DEF IInv
  <2>2. CASE flash' # flash
    <3>1. listed' = FALSE
      BY <1>1, <2>2 DEF IInv, CallInv, SlotInv, Busy
    <3> QED
      BY <1>1, <2>2, <3>1, FlashShape, NotListed DEF IInv
  <2> QED
    BY <2>1, <2>2
<1> QED
  BY <1>2, <1>3, ReturnInv

LEMMA NextInv == IInv /\ [Next]_vars => IInv'
<1>1. ASSUME IInv, UNCHANGED vars
      PROVE  IInv'
  <2> USE <1>1 DEF vars, loop, IInv, Busy, Idle
  <2>1. CallInv'
    BY DEF CallInv
  <2>2. PlaceInv'
    BY DEF PlaceInv, Fits
  <2>3. BufferInv' /\ BehindInv'
    BY DEF BufferInv, BehindInv, Expected
  <2>4. StateInv' /\ SlotInv'
    BY DEF StateInv, SlotInv
  <2> QED
    BY <2>1, <2>2, <2>3, <2>4
<1> QED
  BY <1>1, StepInv, ApiInv, CrashInv DEF Next

\* The state machine, the loops and what is in flash fit together at every step.
THEOREM Invariance == Spec => []IInv
BY InitInv, NextInv, PTL DEF Spec

-----------------------------------------------------------------------------
(* What follows *)

\* A listed slot that a program call listed holds the caller's bitstream relocated to
\* the slot: librsu_cb_program_common lists it after its loop, the blocks of which the
\* state machine has relocated.
THEOREM ListedSafe == Spec => []ListedIsRelocated
<1>1. IInv => ListedIsRelocated
  <2> SUFFICES ASSUME IInv, listed, content # Nothing
               PROVE  /\ Len(content) <= 2 * Size
                      /\ FewSections(content) => Holds(Relocated(content))
    BY DEF ListedIsRelocated
  <2>1. /\ IsBitstream(content) /\ Len(content) <= 2 * Size
        /\ \A x \in DOMAIN content : flash[x - 1] = Walk(content, x)
    BY DEF IInv, SlotInv
  <2>2. DOMAIN Relocated(content) = DOMAIN content
    BY DEF Relocated
  <2> QED
    BY <2>1, <2>2, WalkRelocates DEF Holds
<1> QED
  BY <1>1, Invariance, PTL

\* Raw calls, failures, crashes and erasures leave the data of a listed slot alone.
THEOREM ListedStable == Spec => ListedDataStable
<1>1. IInv /\ [Next]_vars => [listed /\ listed' => UNCHANGED flash]_vars
  <2> SUFFICES ASSUME IInv, Next, listed, listed'
               PROVE  flash' = flash
    BY DEF vars
  <2>1. pc # "write" /\ pc # "erase"
    BY DEF IInv, CallInv, Busy
  <2>2. CASE Step
    BY <2>1, <2>2 DEF Step, Fill, FillFails, ProcessBlock, RejectBlock, WriteBlock, WriteFails,
       ReadBack, ReadBackFails, List, Finish, VerifyBlock, VerifyFails, EraseData
  <2>3. CASE Api
    <3>1. ASSUME NEW op, NEW raw, NEW source, NEW data, Start(op, raw, source, data)
          PROVE  flash' = flash
      BY <3>1 DEF Start
    <3> QED
      BY <2>3, <3>1 DEF Api, ProgramBuf, ProgramFile, ProgramCallback, ProgramBufRaw,
         ProgramFileRaw, ProgramCallbackRaw, VerifyBuf, VerifyFile, VerifyCallback,
         VerifyBufRaw, VerifyFileRaw, VerifyCallbackRaw, Program, Verify,
         Erase, Disable, Enable, RemoveFails
  <2>4. CASE Crash
    BY <2>1, <2>4 DEF Crash
  <2> QED
    BY <2>2, <2>3, <2>4 DEF Next
<1> QED
  BY <1>1, Invariance, PTL DEF Spec, ListedDataStable

\* A step that reports success is the last one of a loop that saw the end of its data.
LEMMA SuccessEnds ==
  ASSUME IInv, Next, call.op \in {"program", "verify"}, ~Idle, call'.result = "ok"
  PROVE  pc = "fill" /\ done /\ cnt = 0
<1>1. call.result = "none" /\ pc # "erase"
  BY DEF IInv, CallInv
<1>2. ASSUME NEW result, Return(result)
      PROVE  result = "ok"
  BY <1>2 DEF Return, NoCall
<1>3. CASE Step
  <2>1. \/ Fill \/ ProcessBlock \/ WriteBlock \/ ReadBack \/ VerifyBlock
        => UNCHANGED call
    BY DEF Fill, ProcessBlock, WriteBlock, ReadBack, VerifyBlock
  <2>2. ~(FillFails \/ RejectBlock \/ WriteFails \/ ReadBackFails \/ VerifyFails \/ EraseData)
    BY <1>1, <1>2 DEF FillFails, RejectBlock, WriteFails, ReadBackFails, VerifyFails, EraseData
  <2>3. List \/ Finish
    BY <1>1, <1>3, <2>1, <2>2 DEF Step
  <2>4. Filled /\ cnt = 0
    BY <2>3 DEF List, Finish
  <2> QED
    BY <2>4 DEF Filled
<1>4. CASE Api
  BY <1>4 DEF Api, ProgramBuf, ProgramFile, ProgramCallback, ProgramBufRaw,
     ProgramFileRaw, ProgramCallbackRaw, VerifyBuf, VerifyFile, VerifyCallback,
     VerifyBufRaw, VerifyFileRaw, VerifyCallbackRaw, Program, Verify, Start,
     Erase, Disable, Enable, RemoveFails
<1>5. CASE Crash
  BY <1>5 DEF Crash, NoCall
<1> QED
  BY <1>3, <1>4, <1>5 DEF Next

LEMMA WholePrefix ==
  ASSUME NEW s, IsBitstream(s)
  PROVE  SubSeq(s, 1, Len(s)) = s
<1> DEFINE n == Len(s)
           S == {s[x] : x \in DOMAIN s}
<1>1. s \in Seq(S) /\ n \in Nat /\ DOMAIN s = 1..n
  BY BitstreamFacts DEF IsBitstream
<1>2. n \in 0..n
  BY <1>1
<1> DEFINE q == SubSeq(s, 1, n)
<1>3. Len(q) = n /\ DOMAIN q = 1..n /\ \A x \in 1..n : q[x] = s[x]
  BY <1>2, PrefixFacts
<1>4. q \in Seq(S)
  <2>1. \A x \in 1..n : s[x] \in S
    BY <1>1
  <2> HIDE DEF n, S
  <2> QED
    BY <1>1, <2>1, SubSeqProperties DEF q
<1> HIDE DEF q, S
<1>5. q = s
  BY <1>1, <1>3, <1>4, SeqEqual
<1> QED
  BY <1>5 DEF q, n

\* Success means that all of a buffer's or a callback's data went through the loop, and
\* that flash holds it, raw or relocated.
THEOREM SuccessMatches == Spec => SuccessMeansMatch
<1> DEFINE given == SubSeq(stream, 1, offset)
<1>1. ASSUME IInv, Next, call.op \in {"program", "verify"}, ~Idle, call'.result = "ok"
      PROVE  /\ call.source # "file" => given = stream
             /\ call.raw => Holds(given)
             /\ (~call.raw /\ FewSections(given)) => Holds(Relocated(given))
  <2>1. pc = "fill" /\ done /\ cnt = 0 /\ Busy
    BY <1>1, SuccessEnds DEF Busy
  <2>2. /\ stream \in Streams /\ offset \in Nat /\ offset + cnt <= Len(stream)
        /\ call.source # "file" => offset + cnt = Len(stream)
    BY <1>1, <2>1 DEF IInv, PlaceInv
  <2>3. IsBitstream(stream)
    BY <2>2
  <2>4. offset \in 0..Len(stream) /\ (call.source # "file" => offset = Len(stream))
    BY <2>1, <2>2, <2>3, BitstreamFacts
  <2>5. /\ IsBitstream(given) /\ DOMAIN given = 1..offset
        /\ \A x \in 1..offset : given[x] = stream[x]
    BY <2>3, <2>4, PrefixFacts
  <2>6. \A x \in 1..offset : Walk(given, x) = Walk(stream, x)
    BY <2>3, <2>4, PrefixWalk
  <2>7. \A x \in 1..offset : flash[x - 1] = IF call.raw THEN stream[x] ELSE Walk(stream, x)
    BY <1>1, <2>1 DEF IInv, BehindInv, Expected
  <2>8. call.source # "file" => given = stream
    BY <2>3, <2>4, WholePrefix
  <2> HIDE DEF given
  <2>9. call.raw => Holds(given)
    BY <2>5, <2>7 DEF Holds
  <2>10. ASSUME ~call.raw, FewSections(given)
         PROVE  Holds(Relocated(given))
    <3>1. DOMAIN Relocated(given) = 1..offset
      BY <2>5 DEF Relocated
    <3>2. \A x \in 1..offset : Walk(given, x) = Relocated(given)[x]
      BY <2>5, <2>10, WalkRelocates
    <3> QED
      BY <2>6, <2>7, <2>10, <3>1, <3>2 DEF Holds
  <2> QED
    BY <2>8, <2>9, <2>10
<1>2. IInv /\ [Next]_vars =>
        [(call.op \in {"program", "verify"} /\ ~Idle /\ call'.result = "ok") =>
           /\ call.source # "file" => given = stream
           /\ call.raw => Holds(given)
           /\ (~call.raw /\ FewSections(given)) => Holds(Relocated(given))]_vars
  <2> HIDE DEF given
  <2> QED
    BY <1>1, Zenon
<1> QED
  BY <1>2, Invariance, PTL DEF Spec, SuccessMeansMatch

\* Verifying a slot against what it was programmed with finds no difference: verifying
\* and programming walk the same states.
THEOREM VerifyAccepts == Spec => VerifyAcceptsProgrammed
<1>1. ASSUME IInv, Next, call.op = "verify", ~call.raw, stream = content, cnt # 1,
             call'.result = "ECMP"
      PROVE  FALSE
  <2>1. /\ ~Idle /\ pc = "fill" /\ Busy /\ listed /\ call.result = "none"
    BY <1>1 DEF IInv, CallInv, Idle, Busy
  <2>2. ASSUME NEW result, Return(result)
        PROVE  result = "ECMP"
    BY <1>1, <2>2 DEF Return, NoCall
  <2>3. Step
    <3>1. ~Api
      BY <2>1 DEF Api, ProgramBuf, ProgramFile, ProgramCallback, ProgramBufRaw,
         ProgramFileRaw, ProgramCallbackRaw, VerifyBuf, VerifyFile, VerifyCallback,
         VerifyBufRaw, VerifyFileRaw, VerifyCallbackRaw, Program, Verify, Start,
         Erase, Disable, Enable, RemoveFails
    <3>2. ~Crash
      BY <1>1 DEF Crash, NoCall
    <3> QED
      BY <1>1, <3>1, <3>2 DEF Next
  <2>4. /\ Filled /\ cnt > 0 /\ ~Programming
        /\ \E seen \in Seen : ~Equal(seen)
    <3>1. VerifyFails
      <4>1. Fill \/ VerifyBlock => UNCHANGED call
        BY DEF Fill, VerifyBlock
      <4>2. ~(FillFails \/ ProcessBlock \/ RejectBlock \/ WriteBlock \/ WriteFails \/ ReadBack
              \/ ReadBackFails \/ List \/ Finish \/ EraseData)
        BY <1>1, <2>1, <2>2 DEF FillFails, ProcessBlock, RejectBlock, WriteBlock, WriteFails,
           ReadBack, ReadBackFails, List, Finish, EraseData, Programming
      <4> QED
        BY <1>1, <2>1, <2>3, <4>1, <4>2 DEF Step
    <3> QED
      BY <2>2, <3>1 DEF VerifyFails
  <2>5. cnt = 2
    BY <1>1, <2>1, <2>4 DEF IInv, PlaceInv
  <2>6. PICK seen : /\ seen = [front |-> flash[offset], tail |-> flash[offset + 1]]
                    /\ ~Equal(seen)
    BY <2>4, <2>5 DEF Seen
  <2>7. /\ stream \in Streams /\ offset \in Nat /\ offset + cnt <= Len(stream)
    BY <1>1, <2>1 DEF IInv, PlaceInv
  <2>8. \A x \in DOMAIN stream : flash[x - 1] = Expected(x)
    BY <1>1, <2>1, <2>7 DEF IInv, SlotInv, Expected
  <2>9. /\ offset + 1 \in DOMAIN stream /\ offset + 1 - 1 = offset
        /\ offset + 2 \in DOMAIN stream /\ offset + 2 - 1 = offset + 1
    <3>1. Len(stream) \in Nat /\ DOMAIN stream = 1..Len(stream)
      BY <2>7, BitstreamFacts
    <3> QED
      BY <2>5, <2>7, <3>1
  <2>10. flash[offset] = Expected(offset + 1) /\ flash[offset + 1] = Expected(offset + 2)
    <3>1. PICK x \in DOMAIN stream : x = offset + 1 /\ x - 1 = offset
      BY <2>7, <2>9
    <3>2. PICK y \in DOMAIN stream : y = offset + 2 /\ y - 1 = offset + 1
      BY <2>7, <2>9
    <3>3. flash[x - 1] = Expected(x) /\ flash[y - 1] = Expected(y)
      BY <2>8
    <3> QED
      BY <3>1, <3>2, <3>3
  <2>11. seen = [front |-> buf.front, tail |-> Expected(offset + 2)]
    BY <1>1, <2>1, <2>4, <2>5, <2>6, <2>10, BlockFacts
  <2>12. buf = [front |-> buf.front, tail |-> buf.tail]
    BY <1>1, <2>1 DEF IInv, BufferInv
  <2>13. Equal(seen)
    <3>1. CASE IsSigned
      <4>1. SigBlockExpected(NextState.absolute, buf) = seen
        BY <1>1, <2>1, <2>4, <2>5, <2>11, <3>1, BlockFacts
      <4> QED
        BY <1>1, <3>1, <4>1 DEF Equal
    <3>2. CASE ~IsSigned
      <4>1. buf = seen
        BY <1>1, <2>1, <2>4, <2>5, <2>11, <2>12, <3>2, BlockFacts
      <4> QED
        BY <1>1, <3>2, <4>1 DEF Equal
    <3> QED
      BY <3>1, <3>2
  <2> QED
    BY <2>6, <2>13
<1>2. IInv /\ [Next]_vars =>
        [(call.op = "verify" /\ ~call.raw /\ stream = content /\ cnt # 1) =>
           call'.result # "ECMP"]_vars
  BY <1>1
<1> QED
  BY <1>2, Invariance, PTL DEF Spec, VerifyAcceptsProgrammed
=============================================================================
