-------------------------- MODULE Declarations_proofs --------------------------
(***************************************************************************)
(* What is declared in a configuration: the items of enumerations (see     *)
(* EnumItems), the fields of structures (see Fields), and who may use them *)
(* (see Rolemaps).                                                         *)
(***************************************************************************)
EXTENDS EnumItems, Fields, Rolemaps, FiniteSetTheorems, SequenceTheorems,
        WellFoundedInduction, TLAPS

(***************************************************************************)
(* Enumerations: for every set of names and values and every INT64_MAX, an *)
(* accepted one has pairwise different values.                             *)
(***************************************************************************)

(* A nonempty set of integers bounded above has a greatest element.        *)
LEMMA GreatestExists ==
  ASSUME NEW S, NEW hi \in Int, S \subseteq Int, S # {},
         \A v \in S : v <= hi
  PROVE  \E m \in S : \A v \in S : v <= m
<1> DEFINE T == { n \in Nat : \E v \in S : n = hi - v }
           R == OpToRel(<, Nat)
<1>1. IsWellFoundedOn(R, Nat)
  BY NatLessThanWellFounded
<1>2. T # {}
  <2>1. PICK v \in S : TRUE
    OBVIOUS
  <2>2. hi - v \in T
    BY <2>1, SMT
  <2> QED BY <2>2
<1>3. PICK n \in T : \A y \in T : ~ (<<y, n>> \in R)
  <2> T \subseteq Nat
    OBVIOUS
  <2> HIDE DEF T, R
  <2> QED BY <1>1, <1>2, WFMin
<1>4. \A y \in T : ~(y < n)
  BY <1>3 DEF OpToRel
<1>5. PICK m \in S : n = hi - m
  OBVIOUS
<1>6. \A v \in S : v <= m
  <2> SUFFICES ASSUME NEW v \in S PROVE v <= m
    OBVIOUS
  <2>1. hi - v \in T
    BY SMT
  <2>2. ~(hi - v < n)
    <3> HIDE DEF T
    <3> QED BY <2>1, <1>4
  <2>3. v \in Int /\ m \in Int /\ n = hi - m
    BY <1>5
  <2> QED BY <2>2, <2>3, SMT
<1> QED BY <1>6

(* The greatest written value is the maximum the code looks for.           *)
LEMMA GreatestIs ==
  ASSUME WrittenInRange
  PROVE  /\ Greatest \in ExplicitValues \cup {IntMin}
         /\ Greatest \in Int
         /\ \A v \in ExplicitValues : v \in Int /\ v <= Greatest
<1>1. PICK m \in ExplicitValues \cup {IntMin} :
        \A v \in ExplicitValues \cup {IntMin} : v <= m
  <2>1. ExplicitValues \cup {IntMin} \subseteq Int
    BY IntMaxAssumption DEF WrittenInRange, IntMin
  <2>2. \A v \in ExplicitValues \cup {IntMin} : v <= IntMax
    BY IntMaxAssumption DEF WrittenInRange, IntMin
  <2> HIDE DEF IntMin, ExplicitValues
  <2> QED BY <2>1, <2>2, GreatestExists, IntMaxAssumption
<1>2. /\ Greatest \in ExplicitValues \cup {IntMin}
      /\ \A v \in ExplicitValues : v <= Greatest
  BY <1>1 DEF Greatest
<1> QED
  BY <1>2, IntMaxAssumption DEF WrittenInRange, IntMin

(* Both loops start from the same integer; when INT64_MAX was not written  *)
(* it is above every written value and is no negative number.              *)
LEMMA FirstAutoAbove ==
  ASSUME WrittenInRange
  PROVE  /\ FirstAuto \in Int
         /\ FirstAutoAgain = FirstAuto
         /\ IntMax \notin ExplicitValues =>
              /\ FirstAuto \in 0..IntMax
              /\ \A v \in ExplicitValues : v < FirstAuto
<1>1. /\ Greatest \in Int
      /\ \A v \in ExplicitValues : v \in Int /\ v <= Greatest
  BY GreatestIs
<1>2. /\ FirstAuto \in Int
      /\ FirstAutoAgain = FirstAuto
  BY <1>1, IntMaxAssumption DEF FirstAuto, FirstAutoAgain, Wrap
<1>3. ASSUME IntMax \notin ExplicitValues
      PROVE  Greatest < IntMax
  BY <1>1, <1>3, GreatestIs, IntMaxAssumption DEF WrittenInRange, IntMin
<1> QED
  BY <1>1, <1>2, <1>3, IntMaxAssumption DEF FirstAuto, Wrap

(* The number of automatic items before an item is a natural number, and   *)
(* it is smaller before an earlier automatic item than before a later one. *)
LEMMA AutosBeforeCounts ==
  ASSUME items \in Seq(Item), NEW k \in DOMAIN items
  PROVE  /\ Cardinality(AutosBefore(k)) \in Nat
         /\ \A j \in AutosBefore(k) :
              Cardinality(AutosBefore(j)) < Cardinality(AutosBefore(k))
<1>1. k \in Nat /\ k >= 1
  OBVIOUS
<1>2. IsFiniteSet(AutosBefore(k))
  <2>1. IsFiniteSet(1..(k - 1))
    BY <1>1, FS_Interval
  <2> QED BY <2>1, FS_Subset DEF AutosBefore
<1>3. ASSUME NEW j \in AutosBefore(k)
      PROVE  Cardinality(AutosBefore(j)) < Cardinality(AutosBefore(k))
  <2>1. j \in 1..(k - 1)
    BY DEF AutosBefore
  <2>2. AutosBefore(j) \subseteq AutosBefore(k)
    BY <1>1, <2>1 DEF AutosBefore
  <2>3. j \notin AutosBefore(j)
    BY <2>1 DEF AutosBefore
  <2>4. AutosBefore(j) # AutosBefore(k)
    BY <2>3
  <2>5. /\ IsFiniteSet(AutosBefore(j))
        /\ Cardinality(AutosBefore(j)) <= Cardinality(AutosBefore(k))
        /\ Cardinality(AutosBefore(j)) # Cardinality(AutosBefore(k))
    BY <1>2, <2>2, <2>4, FS_Subset
  <2>6. /\ Cardinality(AutosBefore(j)) \in Nat
        /\ Cardinality(AutosBefore(k)) \in Nat
    BY <1>2, <2>5, FS_CardinalityType
  <2> QED BY <2>5, <2>6
<1> QED BY <1>2, <1>3, FS_CardinalityType

(* An assignment touches the values of automatic items and nothing else,   *)
(* so that everything computed from the written values stays what it was.  *)
LEMMA AssignedKeepsWritten ==
  ASSUME TypeOK, NEW start \in Int, items' = Assigned(start)
  PROVE  /\ items' \in Seq(Item)
         /\ DOMAIN items' = DOMAIN items
         /\ \A k \in DOMAIN items :
              /\ items'[k].auto = items[k].auto
              /\ ~items[k].auto => items'[k].value = items[k].value
              /\ items[k].auto =>
                   items'[k].value = Wrap(CounterAt(start, k))
         /\ ExplicitValues' = ExplicitValues
         /\ \A k \in DOMAIN items : AutosBefore(k)' = AutosBefore(k)
<1>1. items \in Seq(Item) /\ Len(items) \in Nat /\ DOMAIN items = 1..Len(items)
  BY DEF TypeOK
<1>2. DOMAIN items' = DOMAIN items
  BY DEF Assigned
<1>3. ASSUME NEW k \in DOMAIN items
      PROVE  /\ items[k] \in Item
             /\ items'[k] = IF items[k].auto
                  THEN [name |-> items[k].name, auto |-> TRUE,
                        value |-> Wrap(CounterAt(start, k))]
                  ELSE items[k]
  BY <1>1 DEF Assigned
<1>4. ASSUME NEW k \in DOMAIN items
      PROVE  Wrap(CounterAt(start, k)) \in Int
  <2>1. Cardinality(AutosBefore(k)) \in Nat
    BY <1>1, AutosBeforeCounts
  <2> QED BY <2>1, IntMaxAssumption DEF Wrap, CounterAt
<1>5. ASSUME NEW k \in DOMAIN items
      PROVE  /\ items'[k] \in Item
             /\ items'[k].auto = items[k].auto
             /\ ~items[k].auto => items'[k].value = items[k].value
             /\ items[k].auto =>
                  items'[k].value = Wrap(CounterAt(start, k))
  <2>1. CASE items[k].auto
    <3>1. items'[k] = [name |-> items[k].name, auto |-> TRUE,
                       value |-> Wrap(CounterAt(start, k))]
      BY <1>3, <2>1
    <3>2. items[k].name \in Names /\ items[k].auto = TRUE
      BY <1>3, <2>1 DEF Item
    <3> QED BY <1>4, <2>1, <3>1, <3>2 DEF Item
  <2>2. CASE ~items[k].auto
    BY <1>3, <2>2
  <2> QED BY <2>1, <2>2
<1>6. items' \in Seq(Item)
  <2>1. items' = [k \in DOMAIN items |-> items'[k]]
    BY DEF Assigned
  <2>2. items' \in [1..Len(items) -> Item]
    BY <1>1, <1>5, <2>1
  <2> QED BY <1>1, <2>2
<1>7. ExplicitValues' = ExplicitValues
  BY <1>2, <1>5 DEF ExplicitValues
<1>8. ASSUME NEW k \in DOMAIN items
      PROVE  AutosBefore(k)' = AutosBefore(k)
  <2>1. \A j \in 1..(k - 1) : j \in DOMAIN items
    BY <1>1
  <2> QED BY <1>5, <2>1 DEF AutosBefore
<1> QED BY <1>2, <1>5, <1>6, <1>7, <1>8

(* The counter of a loop, before an item, when INT64_MAX was not written.  *)
LEMMA CounterAbove ==
  ASSUME TypeOK, WrittenInRange, IntMax \notin ExplicitValues,
         NEW k \in DOMAIN items
  PROVE  /\ CounterAt(FirstAuto, k) \in Nat
         /\ \A v \in ExplicitValues : v < CounterAt(FirstAuto, k)
         /\ \A j \in AutosBefore(k) :
              CounterAt(FirstAuto, j) < CounterAt(FirstAuto, k)
<1>1. /\ FirstAuto \in Nat
      /\ \A v \in ExplicitValues : v \in Int /\ v < FirstAuto
  BY FirstAutoAbove, GreatestIs
<1>2. /\ Cardinality(AutosBefore(k)) \in Nat
      /\ \A j \in AutosBefore(k) :
           /\ Cardinality(AutosBefore(j)) \in Nat
           /\ Cardinality(AutosBefore(j)) < Cardinality(AutosBefore(k))
  <2>1. \A j \in AutosBefore(k) : j \in DOMAIN items
    BY DEF TypeOK, AutosBefore
  <2> QED BY <2>1, AutosBeforeCounts DEF TypeOK
<1> QED BY <1>1, <1>2 DEF CounterAt

(* Whatever leaves the written values and the automatic items alone leaves *)
(* the counters alone.                                                     *)
LEMMA SameCounters ==
  ASSUME ExplicitValues' = ExplicitValues
  PROVE  /\ FirstAuto' = FirstAuto
         /\ \A k : AutosBefore(k)' = AutosBefore(k) =>
                 CounterAt(FirstAuto, k)' = CounterAt(FirstAuto, k)
<1>1. FirstAuto' = FirstAuto
  BY DEF FirstAuto, Greatest, Wrap, IntMin
<1> QED BY <1>1 DEF CounterAt

(* A set of natural numbers has a least element.                           *)
LEMMA LeastExists ==
  ASSUME NEW S, S \subseteq Nat, S # {}
  PROVE  \E m \in S : \A n \in S : m <= n
<1> DEFINE R == OpToRel(<, Nat)
<1>1. IsWellFoundedOn(R, Nat)
  BY NatLessThanWellFounded
<1>2. PICK m \in S : \A n \in S : ~ (<<n, m>> \in R)
  <2> HIDE DEF R
  <2> QED BY <1>1, WFMin
<1>3. \A n \in S : ~(n < m)
  BY <1>2 DEF OpToRel
<1> HIDE DEF R
<1> QED BY <1>3

(* A counter that is INT64_MAX at no item has not gone past it either: it  *)
(* starts at INT64_MAX at most and moves up by one.                        *)
LEMMA CounterStaysBelow ==
  ASSUME TypeOK, WrittenInRange, IntMax \notin ExplicitValues,
         \A k \in DOMAIN items : CounterAt(FirstAuto, k) # IntMax
  PROVE  \A k \in DOMAIN items : CounterAt(FirstAuto, k) < IntMax
<1> DEFINE Past == { k \in DOMAIN items : ~(CounterAt(FirstAuto, k) < IntMax) }
<1>1. /\ items \in Seq(Item) /\ Len(items) \in Nat
      /\ DOMAIN items = 1..Len(items)
      /\ FirstAuto \in 0..IntMax
  BY FirstAutoAbove DEF TypeOK
<1>2. SUFFICES ASSUME Past # {} PROVE FALSE
  OBVIOUS
<1>3. PICK k \in Past : \A n \in Past : k <= n
  <2>1. Past \subseteq Nat
    BY <1>1
  <2> HIDE DEF Past
  <2> QED BY <1>2, <2>1, LeastExists
<1>4. k # 1
  <2>1. AutosBefore(1) = {}
    BY DEF AutosBefore
  <2>2. Cardinality(AutosBefore(1)) = 0
    BY <2>1, FS_EmptySet
  <2>3. CounterAt(FirstAuto, 1) = FirstAuto
    BY <1>1, <2>2 DEF CounterAt
  <2> QED BY <1>1, <2>3, IntMaxAssumption
<1>5. /\ k - 1 \in DOMAIN items
      /\ CounterAt(FirstAuto, k - 1) < IntMax
  <2>1. k - 1 \in DOMAIN items
    BY <1>1, <1>4
  <2>2. k - 1 \notin Past
    BY <1>1, <1>3
  <2> QED BY <2>1, <2>2
<1>6. CounterAt(FirstAuto, k) <= CounterAt(FirstAuto, k - 1) + 1
  <2>1. /\ Cardinality(AutosBefore(k)) \in Nat
        /\ Cardinality(AutosBefore(k - 1)) \in Nat
    BY <1>1, <1>5, AutosBeforeCounts
  <2>2. IsFiniteSet(AutosBefore(k - 1))
    <3>1. IsFiniteSet(1..((k - 1) - 1))
      BY <1>1, FS_Interval
    <3> QED BY <3>1, FS_Subset DEF AutosBefore
  <2>3. AutosBefore(k) \subseteq AutosBefore(k - 1) \cup {k - 1}
    BY <1>1 DEF AutosBefore
  <2>4. /\ IsFiniteSet(AutosBefore(k - 1) \cup {k - 1})
        /\ Cardinality(AutosBefore(k - 1) \cup {k - 1})
             \in {Cardinality(AutosBefore(k - 1)),
                  Cardinality(AutosBefore(k - 1)) + 1}
    BY <2>2, FS_AddElement
  <2>5. Cardinality(AutosBefore(k)) <= Cardinality(AutosBefore(k - 1)) + 1
    BY <2>1, <2>3, <2>4, FS_Subset
  <2> QED BY <1>1, <2>1, <2>5 DEF CounterAt
<1>7. /\ CounterAt(FirstAuto, k) \in Nat
      /\ CounterAt(FirstAuto, k - 1) \in Nat
  BY <1>5, CounterAbove
<1> QED BY <1>5, <1>6, <1>7, IntMaxAssumption

(* The two states in which every automatic item has its counter's value:   *)
(* the first assignment leads there, the second leaves it.                 *)
LEMMA AssignmentGivesCounters ==
  ASSUME TypeOK, WrittenInRange, WrittenUnique, phase \in {"items", "closed"},
         items' = Assigned(FirstAuto),
         \A k \in DOMAIN items : items[k].auto => CounterAt(FirstAuto, k) < IntMax
  PROVE  /\ items' \in Seq(Item)
         /\ WrittenInRange'
         /\ DOMAIN items' = DOMAIN items
         /\ \A k \in DOMAIN items :
              /\ items'[k].auto = items[k].auto
              /\ ~items[k].auto => items'[k].value = items[k].value
              /\ items[k].auto =>
                   /\ items'[k].value = CounterAt(FirstAuto, k)
                   /\ items'[k].value = CounterAt(FirstAuto, k)'
                   /\ items'[k].value < IntMax
         /\ ExplicitValues' = ExplicitValues
<1>1. IntMax \notin ExplicitValues
  BY DEF WrittenUnique
<1>2. FirstAuto \in Int
  BY FirstAutoAbove
<1>3. /\ items' \in Seq(Item)
      /\ DOMAIN items' = DOMAIN items
      /\ ExplicitValues' = ExplicitValues
      /\ \A k \in DOMAIN items :
           /\ items'[k].auto = items[k].auto
           /\ ~items[k].auto => items'[k].value = items[k].value
           /\ items[k].auto => items'[k].value = Wrap(CounterAt(FirstAuto, k))
           /\ AutosBefore(k)' = AutosBefore(k)
  BY <1>2, AssignedKeepsWritten
<1>4. \A k \in DOMAIN items :
        /\ CounterAt(FirstAuto, k) \in Nat
        /\ CounterAt(FirstAuto, k)' = CounterAt(FirstAuto, k)
  BY <1>1, <1>3, CounterAbove, SameCounters
<1>5. \A k \in DOMAIN items : items[k].auto =>
        Wrap(CounterAt(FirstAuto, k)) = CounterAt(FirstAuto, k)
  BY <1>4, IntMaxAssumption DEF Wrap
<1>6. WrittenInRange'
  BY <1>3 DEF WrittenInRange
<1> QED BY <1>3, <1>4, <1>5, <1>6

(* The invariant holds initially and every step keeps it.                  *)
THEOREM Inductive == Spec => []IInv
<1>1. Init => IInv
  BY IntMaxAssumption
     DEF Init, IInv, TypeOK, WrittenInRange, WrittenUnique, AutoFromCounter,
         ExplicitValues
<1>2. ASSUME IInv, [Next]_vars
      PROVE  IInv'
  <2>1. /\ TypeOK /\ WrittenInRange /\ WrittenUnique /\ AutoFromCounter
        /\ items \in Seq(Item)
    BY <1>2 DEF IInv, TypeOK
  <2>2. ASSUME phase' \in {"error", "failed"}, UNCHANGED items
        PROVE  IInv'
    <3>1. ExplicitValues' = ExplicitValues
      BY <2>2 DEF ExplicitValues
    <3> QED
      BY <2>1, <2>2, <3>1
         DEF IInv, TypeOK, WrittenInRange, WrittenUnique, AutoFromCounter
  <2>3. ASSUME NEW n \in Names, ItemAuto(n)
        PROVE  IInv'
    <3> DEFINE it == [name |-> n, auto |-> TRUE, value |-> 0]
    <3>1. /\ items' = Append(items, it) /\ it \in Item
          /\ phase = "items" /\ phase' = "items"
      BY <2>3 DEF ItemAuto, Item
    <3>2. /\ items' \in Seq(Item)
          /\ DOMAIN items' = DOMAIN items \cup {Len(items) + 1}
          /\ \A k \in DOMAIN items : items'[k] = items[k]
          /\ items'[Len(items) + 1] = it
      BY <2>1, <3>1
    <3>3. ExplicitValues' = ExplicitValues
      BY <3>2 DEF ExplicitValues
    <3>4. TypeOK' /\ WrittenInRange' /\ AutoFromCounter'
      BY <2>1, <3>1, <3>2, <3>3 DEF TypeOK, WrittenInRange, AutoFromCounter
    <3>5. WrittenUnique'
      BY <2>1, <3>1, <3>2, <3>3 DEF WrittenUnique
    <3> QED BY <3>4, <3>5 DEF IInv
  <2>4. ASSUME NEW n \in Names, NEW v \in Explicit, ItemExplicit(n, v)
        PROVE  IInv'
    <3> DEFINE it == [name |-> n, auto |-> FALSE, value |-> v]
    <3>1. /\ items' = Append(items, it) /\ it \in Item
          /\ phase = "items"
          /\ phase' \in {"items", "error"}
          /\ phase' = "items" => v # IntMax /\ v \notin ExplicitValues
      BY <2>4, ExplicitAssumption, IntMaxAssumption DEF ItemExplicit, Item
    <3>2. /\ items' \in Seq(Item)
          /\ DOMAIN items' = DOMAIN items \cup {Len(items) + 1}
          /\ \A k \in DOMAIN items : items'[k] = items[k]
          /\ items'[Len(items) + 1] = it
      BY <2>1, <3>1
    <3>3. ExplicitValues' = ExplicitValues \cup {v}
      BY <3>2 DEF ExplicitValues
    <3>4. TypeOK' /\ WrittenInRange' /\ AutoFromCounter'
      BY <2>1, <3>1, <3>2, <3>3, ExplicitAssumption
         DEF TypeOK, WrittenInRange, AutoFromCounter
    <3>5. WrittenUnique'
      BY <2>1, <3>1, <3>2, <3>3 DEF WrittenUnique, ExplicitValues
    <3> QED BY <3>4, <3>5 DEF IInv
  <2>5. ASSUME Close
        PROVE  IInv'
    <3> phase = "items"
      BY <2>5 DEF Close
    <3>1. CASE ~HasAuto /\ phase' = "closed" /\ UNCHANGED items
      <4>1. ExplicitValues' = ExplicitValues
        BY <3>1 DEF ExplicitValues
      <4> QED
        BY <2>1, <3>1, <4>1
           DEF IInv, TypeOK, WrittenInRange, WrittenUnique, AutoFromCounter,
               HasAuto
    <3>2. CASE /\ \A k \in DOMAIN items : CounterAt(FirstAuto, k) # IntMax
               /\ phase' = "closed" /\ items' = Assigned(FirstAuto)
      <4>1. \A k \in DOMAIN items : CounterAt(FirstAuto, k) < IntMax
        BY <2>1, <3>2, CounterStaysBelow DEF WrittenUnique
      <4>2. TypeOK' /\ WrittenInRange' /\ AutoFromCounter'
        BY <2>1, <3>2, <4>1, AssignmentGivesCounters
           DEF TypeOK, AutoFromCounter
      <4>3. WrittenUnique'
        BY <2>1, <3>2, <4>1, AssignmentGivesCounters DEF WrittenUnique
      <4> QED BY <4>2, <4>3 DEF IInv
    <3>3. CASE phase' = "error" /\ UNCHANGED items
      BY <2>2, <3>3
    <3> QED BY <2>5, <3>1, <3>2, <3>3 DEF Close
  <2>6. ASSUME Reassign
        PROVE  IInv'
    <3>1. CASE FoundExplicit /\ phase = "closed" /\ phase' = "done"
      <4>1. items' = Assigned(FirstAuto)
        BY <2>1, <2>6, <3>1, FirstAutoAbove DEF Reassign
      <4>2. \A k \in DOMAIN items : items[k].auto => CounterAt(FirstAuto, k) < IntMax
        BY <2>1, <3>1 DEF AutoFromCounter
      <4>3. TypeOK' /\ WrittenInRange' /\ AutoFromCounter'
        BY <2>1, <3>1, <4>1, <4>2, AssignmentGivesCounters
           DEF TypeOK, AutoFromCounter
      <4>4. WrittenUnique'
        BY <2>1, <3>1, <4>1, <4>2, AssignmentGivesCounters DEF WrittenUnique
      <4> QED BY <4>3, <4>4 DEF IInv
    <3>2. CASE FoundExplicit /\ phase = "error" /\ phase' = "failed"
      <4>1. FirstAutoAgain \in Int /\ items' = Assigned(FirstAutoAgain)
        BY <2>1, <2>6, <3>2, FirstAutoAbove DEF Reassign
      <4>2. items' \in Seq(Item) /\ ExplicitValues' = ExplicitValues
        BY <2>1, <4>1, AssignedKeepsWritten
      <4> QED
        BY <2>1, <3>2, <4>2
           DEF IInv, TypeOK, WrittenInRange, WrittenUnique, AutoFromCounter
    <3>3. CASE ~FoundExplicit
      <4>1. /\ UNCHANGED items
            /\ (phase = "closed" /\ phase' = "done") \/ phase' = "failed"
        BY <2>6, <3>3 DEF Reassign
      <4>2. /\ ExplicitValues' = ExplicitValues
            /\ \A k : AutosBefore(k)' = AutosBefore(k)
        BY <4>1 DEF ExplicitValues, AutosBefore
      <4>3. \A k : CounterAt(FirstAuto, k)' = CounterAt(FirstAuto, k)
        BY <4>2, SameCounters
      <4> QED
        BY <2>1, <4>1, <4>2, <4>3
           DEF IInv, TypeOK, WrittenInRange, WrittenUnique, AutoFromCounter
    <3> QED BY <2>6, <3>1, <3>2, <3>3 DEF Reassign
  <2>7. ASSUME Refuse \/ RefuseClosed
        PROVE  IInv'
    BY <2>2, <2>7 DEF Refuse, RefuseClosed, Fail
  <2>8. ASSUME UNCHANGED vars
        PROVE  IInv'
    <3>1. /\ UNCHANGED <<items, phase>>
          /\ ExplicitValues' = ExplicitValues
          /\ \A k : AutosBefore(k)' = AutosBefore(k)
      BY <2>8 DEF vars, ExplicitValues, AutosBefore
    <3>2. \A k : CounterAt(FirstAuto, k)' = CounterAt(FirstAuto, k)
      BY <3>1, SameCounters
    <3> QED
      BY <2>1, <3>1, <3>2
         DEF IInv, TypeOK, WrittenInRange, WrittenUnique, AutoFromCounter
  <2> QED BY <1>2, <2>3, <2>4, <2>5, <2>6, <2>7, <2>8 DEF Next
<1> QED BY <1>1, <1>2, PTL DEF Spec

(* The types of the queue and the phase, for every INT64_MAX.              *)
THEOREM TypeCorrect == Spec => []TypeOK
<1>1. IInv => TypeOK
  BY DEF IInv
<1> QED BY <1>1, Inductive, PTL

(* What the written values and the counters give in an accepted            *)
(* enumeration: automatic values ascend from above the written ones, so    *)
(* that no two items share a value.                                        *)
LEMMA AcceptedValues ==
  ASSUME IInv
  PROVE  ValuesUnique /\ AutoAscending
<1>1. /\ TypeOK /\ WrittenInRange /\ WrittenUnique /\ AutoFromCounter
      /\ items \in Seq(Item)
  BY DEF IInv, TypeOK
<1>2. SUFFICES ASSUME phase \in {"closed", "done"}
               PROVE  ValuesUnique /\ AutoAscending
  BY DEF ValuesUnique, AutoAscending
<1>3. /\ IntMax \notin ExplicitValues
      /\ \A k \in DOMAIN items : items[k].auto =>
           items[k].value = CounterAt(FirstAuto, k) /\ items[k].value < IntMax
  BY <1>1, <1>2 DEF WrittenUnique, AutoFromCounter
<1>4. \A k \in DOMAIN items :
        /\ CounterAt(FirstAuto, k) \in Nat
        /\ \A v \in ExplicitValues : v \in Int /\ v < CounterAt(FirstAuto, k)
        /\ \A j \in AutosBefore(k) :
             CounterAt(FirstAuto, j) < CounterAt(FirstAuto, k)
  BY <1>1, <1>3, CounterAbove, GreatestIs
<1>5. \A k \in DOMAIN items : \A j \in AutosBefore(k) :
        j \in DOMAIN items /\ items[j].auto
  BY <1>1 DEF AutosBefore
<1>6. AutoAscending
  BY <1>3, <1>4, <1>5 DEF AutoAscending
<1>7. ASSUME NEW j \in DOMAIN items, NEW k \in DOMAIN items,
             items[j].value = items[k].value
      PROVE  j = k
  <2>1. CASE ~items[j].auto /\ ~items[k].auto
    BY <1>1, <1>2, <1>7, <2>1 DEF WrittenUnique
  <2>2. CASE items[j].auto /\ items[k].auto
    <3>1. CounterAt(FirstAuto, j) = CounterAt(FirstAuto, k)
      BY <1>3, <1>7, <2>2
    <3>2. j \notin AutosBefore(k) /\ k \notin AutosBefore(j)
      BY <1>4, <3>1
    <3> QED BY <1>1, <2>2, <3>2 DEF AutosBefore
  <2>3. CASE items[j].auto /\ ~items[k].auto
    <3>1. items[k].value \in ExplicitValues
      BY <2>3 DEF ExplicitValues
    <3> QED BY <1>3, <1>4, <1>7, <2>3, <3>1
  <2>4. CASE ~items[j].auto /\ items[k].auto
    <3>1. items[j].value \in ExplicitValues
      BY <2>4 DEF ExplicitValues
    <3> QED BY <1>3, <1>4, <1>7, <2>4, <3>1
  <2> QED BY <2>1, <2>2, <2>3, <2>4
<1>8. ASSUME NEW k \in DOMAIN items
      PROVE  items[k].value \notin {IntMin, IntMax}
  <2>1. CASE items[k].auto
    BY <1>3, <1>4, <2>1, IntMaxAssumption DEF IntMin
  <2>2. CASE ~items[k].auto
    <3>1. items[k].value \in ExplicitValues
      BY <2>2 DEF ExplicitValues
    <3> QED BY <1>1, <1>3, <3>1, IntMaxAssumption DEF WrittenInRange, IntMin
  <2> QED BY <2>1, <2>2
<1> QED BY <1>6, <1>7, <1>8 DEF ValuesUnique

(* No two items of an accepted enumeration share a value.                  *)
THEOREM AcceptedUnique == Spec => []ValuesUnique
<1>1. IInv => ValuesUnique
  BY AcceptedValues
<1> QED BY <1>1, Inductive, PTL

(* Automatic values are above the written ones and ascend.                 *)
THEOREM AcceptedAscending == Spec => []AutoAscending
<1>1. IInv => AutoAscending
  BY AcceptedValues
<1> QED BY <1>1, Inductive, PTL

(* The second assignment gives every item the value it has.                *)
THEOREM PassesAgree == Spec => SecondPassAgrees
<1>1. ASSUME IInv, [Next]_vars
      PROVE  [phase = "closed" => items' = items]_vars
  <2>1. SUFFICES ASSUME phase = "closed", Reassign, FoundExplicit
                 PROVE  items' = items
    BY <1>1
       DEF Next, ItemAuto, ItemExplicit, Close, Refuse, RefuseClosed, Fail,
           Reassign, vars
  <2>2. /\ TypeOK /\ WrittenInRange /\ WrittenUnique /\ AutoFromCounter
        /\ items \in Seq(Item)
    BY <1>1 DEF IInv, TypeOK
  <2>3. items' = Assigned(FirstAuto)
    BY <2>1, <2>2, FirstAutoAbove DEF Reassign
  <2>4. ASSUME NEW k \in DOMAIN items, items[k].auto
        PROVE  Wrap(CounterAt(FirstAuto, k)) = items[k].value
    <3>1. /\ items[k].value = CounterAt(FirstAuto, k)
          /\ items[k].value < IntMax
      BY <2>1, <2>2, <2>4 DEF AutoFromCounter
    <3>2. items[k].value \in Int
      <4>1. items[k] \in Item
        BY <2>2
      <4> QED BY <4>1 DEF Item
    <3> QED BY <3>1, <3>2, IntMaxAssumption DEF Wrap
  <2>5. ASSUME NEW k \in DOMAIN items, items[k].auto
        PROVE  [name |-> items[k].name, auto |-> TRUE,
                 value |-> items[k].value] = items[k]
    <3>1. items[k] \in Item
      BY <2>2
    <3> QED BY <2>5, <3>1 DEF Item
  <2>6. \A k \in DOMAIN items : Assigned(FirstAuto)[k] = items[k]
    BY <2>4, <2>5 DEF Assigned
  <2>7. /\ DOMAIN Assigned(FirstAuto) = DOMAIN items
        /\ Assigned(FirstAuto) = [k \in DOMAIN items |-> Assigned(FirstAuto)[k]]
        /\ items = [k \in DOMAIN items |-> items[k]]
    BY <2>2 DEF Assigned
  <2> QED BY <2>3, <2>6, <2>7
<1> QED BY <1>1, Inductive, PTL DEF Spec, SecondPassAgrees

(***************************************************************************)
(* Fields: what the properties of fields exclude holds in whatever order   *)
(* and number they are given, for all names, references and properties.    *)
(***************************************************************************)
(* What is true of a field, declared in full or in part, when r is the     *)
(* name of the structure's rowid.                                          *)
RowidFits(f, r) ==
  "rowid" \in f.flags =>
    /\ f.name = r /\ f.type = "int" /\ f.ref = <<>>
    /\ "null" \notin f.flags /\ "unique" \notin f.flags

ActionsFit(f) == \A act \in {f.actup, f.actdel} : act # "none" => IsReference(f)

Fits(f, r) == f \in FieldRecords /\ f.name \in FieldNames /\ RowidFits(f, r) /\ ActionsFit(f)

(* The change that one property makes, of a field f into g.                *)
Step(f, r, g, q) ==
  /\ g \in FieldRecords /\ g.name = f.name
  /\ q = r \/ (r = "" /\ q = f.name)
  /\ RowidFits(g, q) /\ ActionsFit(g)

(* A new field has no flags.                                               *)
LEMMA NewFits ==
  ASSUME NEW name \in FieldNames, NEW type \in Types,
         NEW ref \in References \cup {<<>>}, NEW r
  PROVE  Fits(NewField(name, type, ref, ""), r)
<1> DEFINE f == NewField(name, type, ref, "")
<1>1. f \in FieldRecords
  <2>1. <<>> \in Seq([op : Ops, n : Int]) /\ "none" \in Actions
    BY DEF Actions
  <2> QED BY <2>1 DEF NewField, FieldRecords
<1>2. f.flags = {} /\ f.actup = "none" /\ f.actdel = "none" /\ f.name = name
  BY DEF NewField
<1> QED BY <1>1, <1>2 DEF Fits, RowidFits, ActionsFit

(* Giving a flag other than those that exclude each other.                 *)
LEMMA FlagFits ==
  ASSUME NEW f, NEW r, Fits(f, r), NEW w \in FlagSet \ {"rowid"},
         w \in {"null", "unique"} => "rowid" \notin f.flags
  PROVE  Step(f, r, [f EXCEPT !.flags = @ \cup {w}], r)
<1> DEFINE g == [f EXCEPT !.flags = @ \cup {w}]
<1>1. /\ g.flags = f.flags \cup {w} /\ g.name = f.name /\ g.type = f.type
      /\ g.ref = f.ref /\ g.actup = f.actup /\ g.actdel = f.actdel
  BY DEF Fits, FieldRecords
<1>2. g \in FieldRecords
  BY DEF Fits, FieldRecords, FlagSet
<1>3. RowidFits(g, r)
  BY <1>1 DEF Fits, RowidFits, FlagSet
<1>4. ActionsFit(g)
  BY <1>1 DEF Fits, ActionsFit, IsReference
<1> QED BY <1>1, <1>2, <1>3, <1>4 DEF Step

LEMMA RowidGiven ==
  ASSUME NEW f, NEW r, Fits(f, r), Rowid(f, r).ok
  PROVE  Step(f, r, Rowid(f, r).fd, Rowid(f, r).rowid)
<1> DEFINE g == [f EXCEPT !.flags = (@ \ {"unique"}) \cup {"rowid"}]
<1>1. RowidAllowed(f, r) /\ Rowid(f, r).fd = g /\ Rowid(f, r).rowid = f.name
  BY DEF Rowid, Refused, Changed
<1>2. /\ g.flags = (f.flags \ {"unique"}) \cup {"rowid"} /\ g.name = f.name
      /\ g.type = f.type /\ g.ref = f.ref /\ g.actup = f.actup /\ g.actdel = f.actdel
  BY DEF Fits, FieldRecords
<1>3. g \in FieldRecords
  BY DEF Fits, FieldRecords, FlagSet
<1>4. RowidFits(g, f.name)
  BY <1>1, <1>2 DEF RowidFits, RowidAllowed
<1>5. ActionsFit(g)
  BY <1>2 DEF Fits, ActionsFit, IsReference
<1> QED BY <1>1, <1>2, <1>3, <1>4, <1>5 DEF Step, RowidAllowed

LEMMA LimitGiven ==
  ASSUME NEW f, NEW r, Fits(f, r), NEW limit, limit.n \in Int, Limit(f, r, limit).ok
  PROVE  Step(f, r, Limit(f, r, limit).fd, Limit(f, r, limit).rowid)
<1> DEFINE g == [f EXCEPT !.fvq = Append(@, [op |-> limit.op, n |-> limit.n])]
<1>1. Limit(f, r, limit).fd = g /\ Limit(f, r, limit).rowid = r /\ limit.op \in Ops
  BY DEF Limit, Decided, Refused, Changed
<1>2. /\ g.flags = f.flags /\ g.name = f.name /\ g.type = f.type
      /\ g.ref = f.ref /\ g.actup = f.actup /\ g.actdel = f.actdel
  BY DEF Fits, FieldRecords
<1>3. g \in FieldRecords
  <2> DEFINE v == [op |-> limit.op, n |-> limit.n]
  <2>1. v \in [op : Ops, n : Int]
    BY <1>1
  <2>2. f \in FieldRecords /\ f.fvq \in Seq([op : Ops, n : Int])
    BY DEF Fits, FieldRecords
  <2>3. Append(f.fvq, v) \in Seq([op : Ops, n : Int])
    BY <2>1, <2>2
  <2> HIDE DEF v
  <2>4. [f EXCEPT !.fvq = Append(@, v)] \in FieldRecords
    BY <2>2, <2>3 DEF FieldRecords
  <2> QED BY <2>4 DEF v
<1> QED BY <1>1, <1>2, <1>3 DEF Fits, Step, RowidFits, ActionsFit, IsReference

LEMMA ActionGiven ==
  ASSUME NEW f, NEW r, Fits(f, r), NEW which, NEW act, Action(f, r, which, act).ok
  PROVE  Step(f, r, Action(f, r, which, act).fd, Action(f, r, which, act).rowid)
<1> DEFINE g == Action(f, r, which, act).fd
<1>1. IsReference(f) /\ act \in Actions /\ Action(f, r, which, act).rowid = r
  BY DEF Action, Decided, Refused, Changed
<1>2. g = IF which = "actdel" THEN [f EXCEPT !.actdel = act] ELSE [f EXCEPT !.actup = act]
  BY <1>1 DEF Action, Decided, Changed
<1>3. g.flags = f.flags /\ g.name = f.name /\ g.type = f.type /\ g.ref = f.ref
  BY <1>2 DEF Fits, FieldRecords
<1>4. g \in FieldRecords
  <2>1. f \in FieldRecords
    BY DEF Fits
  <2>2. [f EXCEPT !.actdel = act] \in FieldRecords
    BY <1>1, <2>1 DEF FieldRecords
  <2>3. [f EXCEPT !.actup = act] \in FieldRecords
    BY <1>1, <2>1 DEF FieldRecords
  <2> QED BY <1>2, <2>2, <2>3
<1>5. RowidFits(g, r)
  BY <1>3 DEF Fits, RowidFits
<1>6. ActionsFit(g)
  BY <1>1, <1>3 DEF ActionsFit, IsReference
<1> QED BY <1>1, <1>3, <1>4, <1>5, <1>6 DEF Step

LEMMA DefaultGiven ==
  ASSUME NEW f, NEW r, Fits(f, r), NEW def, def.n \in Int, def.s \in STRING,
         Default(f, r, def).ok
  PROVE  Step(f, r, Default(f, r, def).fd, Default(f, r, def).rowid)
<1> DEFINE g == [f EXCEPT !.flags = @ \cup {"hasdef"}, !.def = <<def.n, def.s>>]
<1>1. Default(f, r, def).fd = g /\ Default(f, r, def).rowid = r
  BY DEF Default, Decided, Refused, Changed
<1>2. /\ g.flags = f.flags \cup {"hasdef"} /\ g.name = f.name /\ g.type = f.type
      /\ g.ref = f.ref /\ g.actup = f.actup /\ g.actdel = f.actdel
  BY DEF Fits, FieldRecords
<1>3. g \in FieldRecords
  <2>1. <<def.n, def.s>> \in Int \X STRING /\ "hasdef" \in FlagSet
    BY DEF FlagSet
  <2>2. f \in FieldRecords
    BY DEF Fits
  <2> DEFINE d == <<def.n, def.s>>
  <2>3. d \in {<<>>} \cup (Int \X STRING)
    BY <2>1
  <2> HIDE DEF d
  <2>4. [f EXCEPT !.flags = @ \cup {"hasdef"}, !.def = d] \in FieldRecords
    BY <2>1, <2>2, <2>3 DEF FieldRecords
  <2> QED BY <2>4 DEF d
<1> QED BY <1>1, <1>2, <1>3 DEF Fits, Step, RowidFits, ActionsFit, IsReference

(* Whatever property is given, and whatever came before.                   *)
LEMMA PropertyGiven ==
  ASSUME NEW f, NEW r, Fits(f, r), NEW info \in Properties, Info(f, r, info).ok
  PROVE  Step(f, r, Info(f, r, info).fd, Info(f, r, info).rowid)
<1>1. CASE info.name = "rowid"
  <2>1. Info(f, r, info) = Rowid(f, r)
    BY <1>1 DEF Info
  <2> QED BY <2>1, RowidGiven
<1>2. CASE info.name = "unique"
  <2>1. Info(f, r, info) = Unique(f, r)
    BY <1>2 DEF Info
  <2>2. CASE f.type # "struct" /\ "rowid" \in f.flags
    <3>1. Unique(f, r).fd = f /\ Unique(f, r).rowid = r
      BY <2>2 DEF Unique, Changed
    <3> QED BY <2>1, <3>1 DEF Step, Fits
  <2>3. CASE ~(f.type # "struct" /\ "rowid" \in f.flags)
    <3>1. /\ Unique(f, r).fd = [f EXCEPT !.flags = @ \cup {"unique"}]
          /\ Unique(f, r).rowid = r /\ "rowid" \notin f.flags
      BY <2>1, <2>3 DEF Unique, Decided, Refused, Changed
    <3> QED BY <2>1, <3>1, FlagFits DEF FlagSet
  <2> QED BY <2>2, <2>3
<1>3. CASE info.name = "null"
  <2>1. Info(f, r, info) = Null(f, r)
    BY <1>3 DEF Info
  <2>2. /\ Null(f, r).fd = [f EXCEPT !.flags = @ \cup {"null"}]
        /\ Null(f, r).rowid = r /\ "rowid" \notin f.flags
    BY <2>1 DEF Null, Decided, Refused, Changed
  <2> QED BY <2>1, <2>2, FlagFits DEF FlagSet
<1>4. CASE info.name = "noexport"
  <2>1. Info(f, r, info) = Noexport(f, r)
    BY <1>4 DEF Info
  <2>2. /\ Noexport(f, r).fd = [f EXCEPT !.flags = @ \cup {"noexport"}]
        /\ Noexport(f, r).rowid = r
    BY DEF Noexport, Changed
  <2> QED BY <2>1, <2>2, FlagFits DEF FlagSet
<1>5. CASE info.name = "limit"
  <2>1. Info(f, r, info) = Limit(f, r, info.arg)
    BY <1>5 DEF Info
  <2> QED BY <1>5, <2>1, LimitGiven, PropertiesAssumption
<1>6. CASE info.name \in {"actdel", "actup"}
  <2>1. Info(f, r, info) = Action(f, r, info.name, info.arg.s)
    BY <1>6 DEF Info
  <2> QED BY <2>1, ActionGiven
<1>7. CASE info.name = "default"
  <2>1. Info(f, r, info) = Default(f, r, info.arg)
    BY <1>7 DEF Info
  <2> QED BY <1>7, <2>1, DefaultGiven, PropertiesAssumption
<1>8. CASE info.name \notin {"rowid", "unique", "null", "noexport", "limit", "actdel",
                             "actup", "default"}
  BY <1>8 DEF Info, Refused
<1> QED BY <1>1, <1>2, <1>3, <1>4, <1>5, <1>6, <1>7, <1>8

(***************************************************************************)
(* The inductive invariant: what the properties say of finished fields     *)
(* holds of the one being declared, the rowid is known by its name, and no *)
(* two fields share one.                                                   *)
(***************************************************************************)
Backed(f) == Fits(f, rowid) /\ ActionsBacked(f)

Distinct == \A i, j \in DOMAIN fields : fields[i].name = fields[j].name => i = j

FieldsInv ==
  /\ FieldsTypeOK
  /\ \A i \in DOMAIN fields : Backed(fields[i])
  /\ Distinct
  /\ stage = "within" => Fits(fd, rowid) /\ ~NameUsed(fd.name)

LEMMA FieldsInitInv == FieldsInit => FieldsInv
<1> SUFFICES ASSUME FieldsInit PROVE FieldsInv
  OBVIOUS
<1>1. fd \in FieldRecords
  <2>1. <<>> \in Seq([op : Ops, n : Int]) /\ "none" \in Actions /\ "int" \in Types
    BY DEF Actions, Types, Integral
  <2> QED BY <2>1 DEF FieldsInit, NewField, FieldRecords
<1>2. fields = <<>> /\ <<>> \in Seq(FieldRecords)
  <2>1. \A S : <<>> \in Seq(S)
    OBVIOUS
  <2> QED BY <2>1 DEF FieldsInit
<1>3. DOMAIN fields = {}
  BY <1>2
<1> QED BY <1>1, <1>2, <1>3 DEF FieldsInit, FieldsInv, FieldsTypeOK, Distinct

(* A field keeps fitting when the structure's rowid is first named: the    *)
(* rowid was empty, which no field is called.                              *)
LEMMA OthersFit ==
  ASSUME NEW f, NEW r, NEW q, Fits(f, r), q = r \/ r = ""
  PROVE  Fits(f, q)
BY NamesAssumption DEF Fits, RowidFits

LEMMA DeclareStep ==
  ASSUME FieldsInv, NEW name \in FieldNames, NEW type \in Types,
         NEW ref \in References \cup {<<>>}, Declare(name, type, ref)
  PROVE  FieldsInv'
<1>1. CASE RefuseField
  BY <1>1 DEF RefuseField, FieldsInv, FieldsTypeOK, Backed, Distinct, NameUsed, Fits
<1>2. CASE /\ ~NameUsed(name) /\ fd' = NewField(name, type, ref, "")
           /\ stage' = "within" /\ UNCHANGED <<fields, rowid>>
  <2>1. Fits(fd', rowid')
    BY <1>2, NewFits
  <2>2. fd'.name = name
    BY <1>2 DEF NewField
  <2>3. FieldsTypeOK'
    BY <1>2, <2>1 DEF FieldsInv, FieldsTypeOK, Fits
  <2> QED BY <1>2, <2>1, <2>2, <2>3 DEF FieldsInv, Backed, Distinct, NameUsed, Fits
<1> QED BY <1>1, <1>2 DEF Declare

LEMMA GiveStep ==
  ASSUME FieldsInv, NEW info \in Properties, GiveProperty(info)
  PROVE  FieldsInv'
<1>1. CASE RefuseField
  BY <1>1 DEF RefuseField, FieldsInv, FieldsTypeOK, Backed, Distinct, NameUsed, Fits
<1>2. CASE ~RefuseField
  <2> DEFINE given == Info(fd, rowid, info)
  <2>1. /\ stage = "within" /\ given.ok /\ fd' = given.fd /\ rowid' = given.rowid
        /\ UNCHANGED <<fields, stage>>
    BY <1>2 DEF GiveProperty
  <2>2. Fits(fd, rowid) /\ ~NameUsed(fd.name)
    BY <2>1 DEF FieldsInv
  <2>3. Step(fd, rowid, fd', rowid')
    BY <2>1, <2>2, PropertyGiven
  <2>4. Fits(fd', rowid') /\ fd'.name = fd.name
    BY <2>2, <2>3 DEF Step, Fits
  <2>5. \A i \in DOMAIN fields' : Backed(fields[i])'
    <3> SUFFICES ASSUME NEW i \in DOMAIN fields PROVE Backed(fields[i])'
      BY <2>1
    <3>1. Fits(fields[i], rowid) /\ ActionsBacked(fields[i])
      BY DEF FieldsInv, Backed
    <3>2. rowid' = rowid \/ rowid = ""
      BY <2>3 DEF Step
    <3>3. Fits(fields[i], rowid')
      BY <3>1, <3>2, OthersFit
    <3> QED BY <2>1, <3>1, <3>3 DEF Backed, Fits
  <2>6. FieldsTypeOK'
    BY <2>1, <2>2, <2>3 DEF FieldsInv, FieldsTypeOK, Step, Fits
  <2>7. ~NameUsed(fd.name)'
    BY <2>1, <2>2, <2>4 DEF NameUsed
  <2>8. Distinct'
    BY <2>1 DEF FieldsInv, Distinct
  <2> QED BY <2>1, <2>4, <2>5, <2>6, <2>7, <2>8 DEF FieldsInv
<1> QED BY <1>1, <1>2

LEMMA FinishStep ==
  ASSUME FieldsInv, Finish
  PROVE  FieldsInv'
<1>1. CASE RefuseField
  BY <1>1 DEF RefuseField, FieldsInv, FieldsTypeOK, Backed, Distinct, NameUsed, Fits
<1>2. CASE /\ ActionsBacked(fd) /\ fields' = Append(fields, fd)
           /\ stage' = "between" /\ UNCHANGED <<fd, rowid>>
  <2>1. Fits(fd, rowid) /\ ~NameUsed(fd.name)
    BY DEF FieldsInv, Finish
  <2>2. fields \in Seq(FieldRecords) /\ fd \in FieldRecords
    BY DEF FieldsInv, FieldsTypeOK
  <2>3. /\ DOMAIN fields' = 1..(Len(fields) + 1) /\ DOMAIN fields = 1..Len(fields)
        /\ Len(fields) \in Nat
        /\ \A i \in DOMAIN fields : fields'[i] = fields[i]
        /\ fields'[Len(fields) + 1] = fd
    BY <1>2, <2>2
  <2>4. \A i \in DOMAIN fields : Fits(fields[i], rowid) /\ ActionsBacked(fields[i])
    BY DEF FieldsInv, Backed
  <2>5. \A i \in DOMAIN fields' : Fits(fields'[i], rowid) /\ ActionsBacked(fields'[i])
    <3> SUFFICES ASSUME NEW i \in DOMAIN fields'
                 PROVE  Fits(fields'[i], rowid) /\ ActionsBacked(fields'[i])
      OBVIOUS
    <3>1. CASE i = Len(fields) + 1
      BY <1>2, <2>1, <2>3, <3>1
    <3>2. CASE i \in DOMAIN fields
      BY <2>3, <2>4, <3>2
    <3> QED BY <2>3, <3>1, <3>2
  <2>6. Distinct'
    <3> SUFFICES ASSUME NEW i \in DOMAIN fields', NEW j \in DOMAIN fields',
                        fields'[i].name = fields'[j].name
                 PROVE  i = j
      BY DEF Distinct
    <3>1. CASE i \in DOMAIN fields /\ j \in DOMAIN fields
      BY <2>3, <3>1 DEF FieldsInv, Distinct
    <3>2. CASE i = Len(fields) + 1 /\ j \in DOMAIN fields
      BY <2>1, <2>3, <3>2 DEF NameUsed
    <3>3. CASE j = Len(fields) + 1 /\ i \in DOMAIN fields
      BY <2>1, <2>3, <3>3 DEF NameUsed
    <3> QED BY <2>3, <3>1, <3>2, <3>3
  <2>7. FieldsTypeOK'
    <3>1. Append(fields, fd) \in Seq(FieldRecords)
      BY <2>2
    <3> QED BY <1>2, <3>1 DEF FieldsInv, FieldsTypeOK
  <2>8. \A i \in DOMAIN fields' : Backed(fields[i])'
    BY <1>2, <2>5 DEF Backed, Fits
  <2> QED BY <1>2, <2>6, <2>7, <2>8 DEF FieldsInv
<1> QED BY <1>1, <1>2 DEF Finish

LEMMA FieldsNextInv == FieldsInv /\ [FieldsNext]_fieldVars => FieldsInv'
<1> SUFFICES ASSUME FieldsInv, [FieldsNext]_fieldVars PROVE FieldsInv'
  OBVIOUS
<1>1. CASE FieldsNext
  BY <1>1, DeclareStep, GiveStep, FinishStep DEF FieldsNext
<1>2. CASE UNCHANGED fieldVars
  BY <1>2 DEF fieldVars, FieldsInv, FieldsTypeOK, Backed, Distinct, NameUsed, Fits
<1> QED BY <1>1, <1>2

THEOREM FieldsInvariance == FieldsSpec => []FieldsInv
<1> QED BY FieldsInitInv, FieldsNextInv, PTL DEF FieldsSpec

(* A structure has at most one rowid, and it is what SQLite asks for, for  *)
(* every sequence of fields and properties.                                *)
THEOREM OneRowid == FieldsSpec => []RowidSound
<1>1. FieldsInv => RowidSound
  <2> SUFFICES ASSUME FieldsInv PROVE RowidSound
    OBVIOUS
  <2>1. \A i \in DOMAIN fields : RowidFits(fields[i], rowid)
    BY DEF FieldsInv, Backed, Fits
  <2> QED BY <2>1 DEF RowidSound, RowidFits, FieldsInv, Distinct
<1> QED BY <1>1, FieldsInvariance, PTL

(* What a foreign key is to do when its target goes can be done, whether   *)
(* it was asked for before or after what it needs.                         *)
THEOREM ActionsPossible == FieldsSpec => []ActionsSound
<1>1. FieldsInv => ActionsSound
  <2> SUFFICES ASSUME FieldsInv, NEW i \in DOMAIN fields, NEW act \in {fields[i].actup, fields[i].actdel}
               PROVE  LET f == fields[i]
                      IN /\ act # "none" => f.ref # <<>> /\ f.type # "struct"
                         /\ act = "nullify" => "null" \in f.flags /\ "rowid" \notin f.flags
                         /\ act = "default" => "null" \in f.flags \/ "hasdef" \in f.flags
    BY DEF ActionsSound
  <2>1. RowidFits(fields[i], rowid) /\ ActionsFit(fields[i]) /\ ActionsBacked(fields[i])
    BY DEF FieldsInv, Backed, Fits
  <2> QED BY <2>1 DEF RowidFits, ActionsFit, ActionsBacked, IsReference
<1> QED BY <1>1, FieldsInvariance, PTL

(***************************************************************************)
(* Rolemaps, for every set of names, roles and statements:                 *)
(* the assertions of the linker hold, an operation is granted to the roles *)
(* written for it and for "all", the first noexport statement for a field  *)
(* is honoured in full, and the one for all fields reaches each of them.   *)
(*                                                                         *)
(* The assertions hold as each target has one rolemap, at which the queue  *)
(* arrives once.  The rolemaps of operations have the roles written and no *)
(* others, as noexport statements only change what fields hold, and those  *)
(* are other rolemaps.  A field has the first rolemap of the queue that    *)
(* hides it, which the later ones only add to; what "all" adds to are      *)
(* rolemaps of operations, and these are shared with no field.             *)
(***************************************************************************)

Rolemap == [target : Targets, roles : Seq(RoleNames)]

(* Each target has one rolemap, with at least the roles written for it.    *)
OnePerTarget ==
  \A i, j \in DOMAIN maps : maps[i].target = maps[j].target => i = j
Recorded ==
  \A t \in Targets, r \in RoleNames : <<t, r>> \in written =>
    \E k \in DOMAIN maps : maps[k].target = t /\ r \in Range(maps[k].roles)

(* What has been given out are rolemaps that the queue is past.            *)
Passed(k, targets) == k \in DOMAIN maps /\ k < next /\ maps[k].target \in targets
PassedNext(k, targets) ==
  k \in DOMAIN maps' /\ k < next' /\ maps'[k].target \in targets
OperationsGiven ==
  /\ arolemap # 0 => Passed(arolemap, {"all"})
  /\ \A o \in Present : opmap[o] # 0 => Passed(opmap[o], {o})
FieldsGiven ==
  \A f \in Columns :
    /\ fieldmap[f] # 0 => Passed(fieldmap[f], {f, "noexport"})
    /\ \A k \in Hiding(f) : k < next => fieldmap[f] # 0 /\ fieldmap[f] <= k

(* What operations, and "all", name has the roles written and no others;   *)
(* the queue has left none out.                                            *)
OperationsRecorded ==
  \A k \in DOMAIN maps : maps[k].target \in OpNames \cup {"all"} =>
    Range(maps[k].roles) = RolesWritten({maps[k].target})
OperationsHeld ==
  \A k \in DOMAIN maps : k < next =>
    /\ maps[k].target = "all" => arolemap = k
    /\ \A o \in Present : maps[k].target = o => opmap[o] = k

(* The rolemap of the statement for all fields, once the queue is past it, *)
(* has a role that every field has.                                        *)
NoneEmpty == \A k \in DOMAIN maps : maps[k].roles # <<>>
Reached == \A k \in DOMAIN maps : maps[k].target = "noexport" /\ k < next => Reaches(k)

Progress ==
  /\ next \in Nat \ {0}
  /\ pass = "parse" => next = 1
  /\ pass = "post" => next > Len(maps)

Linking ==
  /\ maps \in Seq(Rolemap)
  /\ opmap \in [Present -> Nat] /\ fieldmap \in [Columns -> Nat] /\ arolemap \in Nat
  /\ Progress /\ OnePerTarget /\ Recorded /\ OperationsGiven /\ FieldsGiven
  /\ OperationsRecorded /\ OperationsHeld /\ NoneEmpty /\ Reached

Exact == \A o \in Present : RolesOf(opmap[o]) = RolesWritten({o, "all"})
Kept ==
  \A f \in Columns : Hiding(f) # {} =>
    RolesWritten({maps[Min(Hiding(f))].target}) \subseteq RolesOf(fieldmap[f])

AllReached == \A k \in DOMAIN maps : maps[k].target = "noexport" => Reaches(k)

RolesInv ==
  /\ pass # "aborted"
  /\ pass \in {"parse", "find", "post"} => Linking
  /\ pass \in {"check", "linked"} => Kept /\ Exact /\ AllReached

(* A set of positions has a least one: of its initial parts that are not   *)
(* empty, one has no other within it.                                      *)
LEMMA LeastOfPositions ==
  ASSUME NEW n \in Nat, NEW T \in SUBSET (1..n), T # {}
  PROVE  \E x \in T : \A y \in T : x <= y
<1> DEFINE Part(k) == T \cap (1..k)
           Parts == { Part(k) : k \in 1..n } \ {{}}
<1>1. Parts \subseteq SUBSET (1..n) /\ T \in Parts
  <2>1. Part(n) = T
    OBVIOUS
  <2>2. n \in 1..n
    <3>1. PICK x \in T : TRUE
      OBVIOUS
    <3>2. x \in 1..n
      OBVIOUS
    <3> QED BY <3>2
  <2> QED BY <2>1, <2>2
<1>2. IsWellFoundedOn(StrictSubsetOrdering(1..n), SUBSET (1..n))
  <2>1. IsFiniteSet(1..n)
    BY FS_Interval
  <2>2. FiniteSubsetsOf(1..n) = SUBSET (1..n)
    BY <2>1, FS_FiniteSubsetsOfFinite
  <2> QED BY <2>2, FS_StrictSubsetOrderingWellFounded, Zenon
<1>3. PICK X \in Parts : \A Y \in Parts : ~ (<<Y, X>> \in StrictSubsetOrdering(1..n))
  BY <1>1, <1>2, WFMin
<1>4. PICK m \in 1..n : X = Part(m)
  OBVIOUS
<1>5. PICK x \in X : TRUE
  OBVIOUS
<1>6. x \in T /\ x \in 1..m
  BY <1>4, <1>5
<1>7. ASSUME NEW y \in T PROVE x <= y
  <2> SUFFICES ASSUME y < x PROVE FALSE
    BY <1>6
  <2>1. y \in Part(y) /\ y \in 1..n /\ x \notin Part(y) /\ Part(y) \subseteq Part(m)
    BY <1>6
  <2>2. Part(y) \in Parts
    BY <2>1
  <2>3. Part(y) \subseteq X /\ Part(y) # X
    BY <2>1, <1>4, <1>5
  <2> QED BY <1>1, <1>3, <2>2, <2>3 DEF StrictSubsetOrdering
<1> QED BY <1>6, <1>7

LEMMA MinOfPositions ==
  ASSUME NEW n \in Nat, NEW T \in SUBSET (1..n), T # {}
  PROVE  Min(T) \in T
BY LeastOfPositions DEF Min

(* Merging adds to what there is.                                          *)
LEMMA MergeAdds ==
  ASSUME NEW dst \in Seq(RoleNames), NEW src \in Seq(RoleNames)
  PROVE  \E more \in Seq(RoleNames) : MergeField(dst, src) = dst \o more
<1> DEFINE known == { k \in DOMAIN src : \/ src[k] \in Range(dst)
                                         \/ \E j \in 1..(k - 1) : src[j] = src[k] }
<1>1. CASE known = {}
  BY <1>1 DEF MergeField
<1>2. CASE known # {}
  <2>1. known \in SUBSET (1..Len(src)) /\ Len(src) \in Nat
    OBVIOUS
  <2>2. Min(known) \in 1..Len(src)
    <3> HIDE DEF known
    <3> QED BY <1>2, <2>1, MinOfPositions
  <2>3. SubSeq(src, 1, Min(known) - 1) \in Seq(RoleNames)
    <3> HIDE DEF known
    <3> QED BY <2>2, SubSeqProperties
  <2> QED BY <1>2, <2>3 DEF MergeField
<1> QED BY <1>1, <1>2


(* The first of the roles merged is there afterwards.                      *)
LEMMA MergeTakesFirst ==
  ASSUME NEW dst \in Seq(RoleNames), NEW src \in Seq(RoleNames), src # <<>>
  PROVE  src[1] \in Range(src) /\ src[1] \in Range(MergeField(dst, src))
<1> DEFINE known == { k \in DOMAIN src : \/ src[k] \in Range(dst)
                                         \/ \E j \in 1..(k - 1) : src[j] = src[k] }
<1>1. Len(src) \in Nat \ {0} /\ DOMAIN src = 1..Len(src) /\ src[1] \in Range(src)
  <2>1. Len(src) \in Nat \ {0} /\ DOMAIN src = 1..Len(src)
    BY EmptySeq, LenProperties
  <2> QED BY <2>1 DEF Range
<1>2. ASSUME NEW more \in Seq(RoleNames)
      PROVE  Range(dst \o more) = Range(dst) \cup Range(more)
  BY RangeConcatenation
<1>3. CASE known = {}
  BY <1>1, <1>2, <1>3 DEF MergeField
<1>4. CASE known # {}
  <2> PICK m : m = Min(known)
    OBVIOUS
  <2>1. m \in known /\ m \in 1..Len(src)
    <3>1. known \in SUBSET (1..Len(src))
      BY <1>1
    <3> HIDE DEF known
    <3> QED BY <1>1, <1>4, <3>1, MinOfPositions
  <2>2. MergeField(dst, src) = dst \o SubSeq(src, 1, m - 1)
    BY <1>4 DEF MergeField
  <2>3. SubSeq(src, 1, m - 1) \in Seq(RoleNames)
    <3> HIDE DEF known
    <3> QED BY <2>1, SubSeqProperties
  <2>4. CASE m = 1
    <3>1. src[1] \in Range(dst)
      <4>1. 1 \in known
        BY <2>1, <2>4
      <4>2. src[1] \in Range(dst) \/ \E j \in 1..(1 - 1) : src[j] = src[1]
        BY <4>1
      <4> QED BY <4>2
    <3> QED BY <1>1, <1>2, <2>2, <2>3, <3>1
  <2>5. CASE m # 1
    <3>1. Len(SubSeq(src, 1, m - 1)) = m - 1 /\ SubSeq(src, 1, m - 1)[1] = src[1]
      <4> HIDE DEF known
      <4>1. 1 \in 1..Len(src) /\ m - 1 \in 1..Len(src)
        BY <2>1, <2>5
      <4> QED BY <4>1, SubSeqProperties
    <3>2. 1 \in DOMAIN SubSeq(src, 1, m - 1)
      <4> HIDE DEF known
      <4> QED BY <2>1, <2>3, <2>5, <3>1, LenProperties
    <3>3. src[1] \in Range(SubSeq(src, 1, m - 1))
      BY <3>1, <3>2 DEF Range
    <3> QED BY <1>1, <1>2, <2>2, <2>3, <3>3
  <2> QED BY <2>4, <2>5
<1> QED BY <1>3, <1>4

(* A set of positions can be written in its order: a position is where it  *)
(* is for the number of those up to it.                                    *)
LEMMA InOrderAll ==
  ASSUME NEW n \in Nat, NEW S \in SUBSET (1..n)
  PROVE  /\ Cardinality(S) \in Nat
         /\ InOrder(S) \in [1..Cardinality(S) -> S]
         /\ \A x \in S : \E i \in 1..Cardinality(S) : InOrder(S)[i] = x
<1> DEFINE UpTo(x) == { y \in S : y <= x }
           size == Cardinality(S)
           rank == [x \in S |-> Cardinality(UpTo(x))]
           Ordered(at) == \A i, j \in 1..size : i < j => at[i] < at[j]
<1>1. \A x \in S : x \in Nat
  OBVIOUS
<1>2. /\ IsFiniteSet(S) /\ size \in Nat
      /\ \A T \in SUBSET S : IsFiniteSet(T) /\ Cardinality(T) \in Nat
                            /\ Cardinality(T) <= size
  <2>1. IsFiniteSet(1..n)
    BY FS_Interval
  <2>2. IsFiniteSet(S)
    BY <2>1, FS_Subset
  <2> QED BY <2>2, FS_Subset, FS_CardinalityType
<1>3. ASSUME NEW x \in S, NEW y \in S, x < y
      PROVE  rank[x] < rank[y]
  <2>1. UpTo(x) \in SUBSET UpTo(y) /\ y \in UpTo(y) /\ y \notin UpTo(x)
    <3>1. x \in Nat /\ y \in Nat /\ \A z \in S : z \in Nat /\ (z <= x => z <= y)
      BY <1>1, <1>3
    <3>2. y <= y /\ ~(y <= x)
      BY <1>3, <3>1
    <3> QED BY <3>1, <3>2
  <2>2. Cardinality(UpTo(x)) <= Cardinality(UpTo(y))
        /\ Cardinality(UpTo(y)) # Cardinality(UpTo(x))
    <3> HIDE DEF UpTo
    <3>1. IsFiniteSet(UpTo(y))
      BY <1>2 DEF UpTo
    <3> QED BY <2>1, <3>1, FS_Subset
  <2> QED BY <1>2, <2>2
<1>4. rank \in [S -> 1..size]
  <2> SUFFICES ASSUME NEW x \in S PROVE Cardinality(UpTo(x)) \in 1..size
    OBVIOUS
  <2>1. UpTo(x) \in SUBSET S /\ UpTo(x) # {}
    OBVIOUS
  <2>2. Cardinality(UpTo(x)) # 0
    <3> HIDE DEF UpTo
    <3> QED BY <1>2, <2>1, FS_EmptySet
  <2> QED BY <1>2, <2>1, <2>2
<1>5. rank \in Injection(S, 1..size)
  <2>1. \A x \in S : x \in Nat /\ rank[x] \in Nat
    BY <1>1, <1>4
  <2> HIDE DEF rank
  <2>2. \A x, y \in S : rank[x] = rank[y] => x = y
    BY <1>3, <2>1
  <2> QED BY <1>4, <2>2 DEF Injection, IsInjective
<1>6. IsFiniteSet(1..size) /\ Cardinality(1..size) = size
  BY <1>2, FS_Interval
<1>7. rank \in Surjection(S, 1..size)
  <2> HIDE DEF rank
  <2> QED BY <1>5, <1>6, FS_Injection
<1>8. \A i \in 1..size : \E x \in S : rank[x] = i
  <2> HIDE DEF rank
  <2> QED BY <1>7 DEF Surjection
<1>9. PICK at : at = [i \in 1..size |-> CHOOSE x \in S : rank[x] = i]
  OBVIOUS
<1>10. at \in [1..size -> S] /\ \A i \in 1..size : rank[at[i]] = i
  <2> HIDE DEF rank
  <2> QED BY <1>8, <1>9
<1>11. Ordered(at)
  <2> SUFFICES ASSUME NEW i \in 1..size, NEW j \in 1..size, i < j
               PROVE  at[i] < at[j]
    OBVIOUS
  <2>1. i \in Nat /\ j \in Nat /\ ~(j < i) /\ i # j
    BY <1>2
  <2>2. at[i] \in S /\ at[j] \in S /\ rank[at[i]] = i /\ rank[at[j]] = j
    BY <1>10
  <2>3. at[i] \in Nat /\ at[j] \in Nat
    BY <1>1, <2>2
  <2> HIDE DEF rank
  <2>4. ~(at[j] < at[i]) /\ at[i] # at[j]
    <3>1. at[j] < at[i] => rank[at[j]] < rank[at[i]]
      BY <1>3, <2>2
    <3> QED BY <2>1, <2>2, <3>1
  <2> QED BY <2>3, <2>4
<1>12. InOrder(S) \in [1..size -> S] /\ Ordered(InOrder(S))
  <2>1. InOrder(S) = CHOOSE f \in [1..size -> S] : Ordered(f)
    BY DEF InOrder
  <2> HIDE DEF Ordered, size
  <2> QED BY <1>10, <1>11, <2>1
<1>13. PICK f \in [1..size -> S] : f = InOrder(S)
  BY <1>12
<1>14. f \in Injection(1..size, S)
  <2> SUFFICES ASSUME NEW i \in 1..size, NEW j \in 1..size, f[i] = f[j]
               PROVE  i = j
    BY <1>13 DEF Injection, IsInjective
  <2>1. f[i] \in S /\ f[j] \in S
    BY <1>13
  <2>2. f[i] \in Nat /\ f[j] \in Nat
    BY <1>1, <2>1
  <2>3. i \in Nat /\ j \in Nat /\ ~(f[i] < f[j]) /\ ~(f[j] < f[i])
    BY <1>2, <2>2
  <2>4. ~(i < j) /\ ~(j < i)
    BY <1>12, <1>13, <2>3
  <2> QED BY <2>3, <2>4
<1>15. f \in Surjection(1..size, S)
  BY <1>2, <1>6, <1>14, FS_Injection
<1> QED BY <1>2, <1>13, <1>15 DEF Surjection

(* Covering adds what is not there, and nothing else.                      *)
LEMMA CoverAdds ==
  ASSUME NEW dst \in Seq(RoleNames), NEW src \in Seq(RoleNames)
  PROVE  /\ PostCover(dst, src) \in Seq(RoleNames)
         /\ Range(PostCover(dst, src)) = Range(dst) \cup Range(src)
<1> DEFINE new == { k \in DOMAIN src : /\ src[k] \notin Range(dst)
                                       /\ \A j \in 1..(k - 1) : src[j] # src[k] }
           more == [i \in 1..Cardinality(new) |-> src[InOrder(new)[i]]]
<1>1. DOMAIN src = 1..Len(src) /\ Len(src) \in Nat
  BY LenProperties
<1>2. new \in SUBSET (1..Len(src))
  BY <1>1
<1>3. /\ Cardinality(new) \in Nat
      /\ InOrder(new) \in [1..Cardinality(new) -> new]
      /\ \A x \in new : \E i \in 1..Cardinality(new) : InOrder(new)[i] = x
  <2> HIDE DEF new
  <2> QED BY <1>1, <1>2, InOrderAll
<1>4. more \in Seq(RoleNames)
  <2>1. \A i \in 1..Cardinality(new) : src[InOrder(new)[i]] \in RoleNames
    <3>1. \A k \in new : src[k] \in RoleNames
      BY ElementOfSeq, <1>1
    <3> HIDE DEF new
    <3> QED BY <1>3, <3>1
  <2> HIDE DEF new
  <2> QED BY <1>3, <2>1, IsASeq
<1>5. PostCover(dst, src) = dst \o more
  BY DEF PostCover
<1>6. Range(dst \o more) = Range(dst) \cup Range(more)
  <2> HIDE DEF more
  <2> QED BY <1>4, RangeConcatenation
<1>7. Range(more) = { src[k] : k \in new }
  <2> HIDE DEF new
  <2> QED BY <1>3 DEF Range
<1>8. \A k \in new : src[k] \in Range(src)
  BY DEF Range
<1>9. ASSUME NEW r \in Range(src), r \notin Range(dst)
      PROVE  \E k \in new : src[k] = r
  <2> DEFINE at == { k \in DOMAIN src : src[k] = r }
  <2>1. at \in SUBSET (1..Len(src)) /\ at # {}
    BY <1>1 DEF Range
  <2>2. PICK k \in at : \A j \in at : k <= j
    <3> HIDE DEF at
    <3> QED BY <1>1, <2>1, LeastOfPositions
  <2>3. \A j \in 1..(k - 1) : src[j] # r
    <3> SUFFICES ASSUME NEW j \in 1..(k - 1), src[j] = r PROVE FALSE
      OBVIOUS
    <3>1. k \in 1..Len(src)
      BY <2>1
    <3>2. j \in 1..Len(src) /\ j < k
      BY <3>1, <1>1
    <3>3. j \in at
      BY <1>1, <3>2
    <3> QED BY <2>2, <3>1, <3>2, <3>3
  <2> QED BY <1>9, <2>2, <2>3
<1>10. Range(more) \subseteq Range(src) /\ Range(src) \subseteq Range(dst) \cup Range(more)
  <2> HIDE DEF new, more
  <2> QED BY <1>7, <1>8, <1>9
<1>11. dst \o more \in Seq(RoleNames)
  <2> HIDE DEF new, more
  <2> QED BY <1>4, ConcatProperties
<1>12. \A s \in Seq(RoleNames) : s = dst \o more =>
         s \in Seq(RoleNames) /\ Range(s) = Range(dst) \cup Range(src)
  <2> HIDE DEF new, more
  <2> QED BY <1>6, <1>10
<1> QED BY <1>5, <1>11, <1>12, Zenon

LEMMA RoleListsTyped ==
  ASSUME NEW ns \in RoleLists
  PROVE  ns \in Seq(RoleNames)
BY RoleListsAssumption

LEMMA Element ==
  ASSUME maps \in Seq(Rolemap), NEW k \in DOMAIN maps
  PROVE  /\ maps[k] \in Rolemap /\ maps[k].roles \in Seq(RoleNames)
         /\ maps[k].target \in Targets /\ k \in Nat \ {0}
<1>1. maps[k] \in Rolemap /\ k \in Nat \ {0}
  BY ElementOfSeq
<1> QED BY <1>1 DEF Rolemap

(* What rolemaps are for stays when roles are added.                       *)
LEMMA RolesAdded ==
  ASSUME maps \in Seq(Rolemap), DOMAIN maps' = DOMAIN maps,
         maps' = [k \in DOMAIN maps |-> maps'[k]],
         \A k \in DOMAIN maps :
           /\ maps'[k] \in Rolemap /\ maps'[k].target = maps[k].target
           /\ Range(maps[k].roles) \subseteq Range(maps'[k].roles)
  PROVE  /\ maps' \in Seq(Rolemap) /\ Len(maps') = Len(maps)
         /\ OnePerTarget => OnePerTarget'
         /\ \A f \in Columns : Hiding(f)' = Hiding(f)
         /\ \A t \in Targets, r \in RoleNames :
              (\E k \in DOMAIN maps : maps[k].target = t /\ r \in Range(maps[k].roles))
              => \E k \in DOMAIN maps' : maps'[k].target = t /\ r \in Range(maps'[k].roles)
<1>1. DOMAIN maps = 1..Len(maps) /\ Len(maps) \in Nat
  BY LenProperties
<1>2. maps' \in Seq(Rolemap)
  BY <1>1, IsASeq
<1>3. Len(maps') = Len(maps)
  BY <1>1, <1>2, LenProperties
<1>4. OnePerTarget => OnePerTarget'
  BY DEF OnePerTarget
<1>5. \A f \in Columns : Hiding(f)' = Hiding(f)
  BY DEF Hiding
<1> QED BY <1>2, <1>3, <1>4, <1>5

(***************************************************************************)
(* The steps.                                                              *)
(***************************************************************************)
LEMMA StatementStep ==
  ASSUME RolesInv, NEW target \in Targets, NEW ns \in RoleLists, Statement(target, ns)
  PROVE  RolesInv'
<1>1. /\ pass = "parse" /\ pass' = "parse" /\ next' = next /\ next = 1
      /\ opmap' = opmap /\ fieldmap' = fieldmap /\ arolemap' = arolemap
      /\ maps' = RolemapAssign(target, ns)
      /\ written' = written \cup {<<target, r>> : r \in Range(ns)}
      /\ Linking
  BY DEF Statement, RolesInv, Linking, Progress
<1>2. arolemap = 0 /\ (\A o \in Present : opmap[o] = 0) /\ (\A f \in Columns : fieldmap[f] = 0)
  <2>1. \A k, S : ~Passed(k, S)
    BY <1>1 DEF Passed, Linking
  <2> QED BY <1>1, <2>1 DEF Linking, OperationsGiven, FieldsGiven
<1>3. ns \in Seq(RoleNames)
  BY RoleListsTyped
<1>4. /\ \A t : t # target =>
           { r \in RoleNames : <<t, r>> \in written' } = RolesWritten({t})
      /\ { r \in RoleNames : <<target, r>> \in written' }
         = RolesWritten({target}) \cup Range(ns)
  <2>1. Range(ns) \subseteq RoleNames
    BY <1>3, RangeOfSeq
  <2>2. \A t, r : <<t, r>> \in written' <=>
                 <<t, r>> \in written \/ (t = target /\ r \in Range(ns))
    BY <1>1
  <2>3. \A t : RolesWritten({t}) = { r \in RoleNames : <<t, r>> \in written }
    BY DEF RolesWritten
  <2> QED BY <2>1, <2>2, <2>3
<1>5. (\A i \in DOMAIN maps' : maps'[i].target \in OpNames \cup {"all"} =>
         Range(maps'[i].roles)
           = { r \in RoleNames : <<maps'[i].target, r>> \in written' })
      => OperationsRecorded'
  BY DEF OperationsRecorded, RolesWritten
<1>6. /\ maps' \in Seq(Rolemap) /\ OnePerTarget' /\ Recorded' /\ OperationsRecorded'
  <2>1. CASE \E k \in DOMAIN maps : maps[k].target = target
    <3>1. PICK k \in DOMAIN maps : maps[k].target = target
      BY <2>1
    <3>2. maps' = [i \in DOMAIN maps |-> IF maps[i].target = target
                     THEN [maps[i] EXCEPT !.roles = maps[i].roles \o ns] ELSE maps[i]]
      BY <1>1, <2>1 DEF RolemapAssign
    <3>3. ASSUME NEW i \in DOMAIN maps
          PROVE  /\ maps'[i] \in Rolemap /\ maps'[i].target = maps[i].target
                 /\ Range(maps[i].roles) \subseteq Range(maps'[i].roles)
                 /\ maps[i].target = target =>
                      Range(maps'[i].roles) = Range(maps[i].roles) \cup Range(ns)
                 /\ maps[i].target # target => maps'[i] = maps[i]
      <4>1. maps[i] \in Rolemap /\ maps[i].roles \in Seq(RoleNames)
        BY <1>1, Element DEF Linking
      <4>2. CASE maps[i].target = target
        <5>1. maps'[i] = [maps[i] EXCEPT !.roles = maps[i].roles \o ns]
          BY <3>2, <4>2
        <5>2. maps[i].roles \o ns \in Seq(RoleNames)
          BY <1>3, <4>1, ConcatProperties
        <5>3. maps'[i] \in Rolemap /\ maps'[i].target = maps[i].target
              /\ maps'[i].roles = maps[i].roles \o ns
          BY <4>1, <5>1, <5>2 DEF Rolemap
        <5>4. Range(maps[i].roles \o ns) = Range(maps[i].roles) \cup Range(ns)
          BY <1>3, <4>1, RangeConcatenation
        <5> QED BY <4>2, <5>3, <5>4
      <4>3. CASE maps[i].target # target
        BY <3>2, <4>1, <4>3
      <4> QED BY <4>2, <4>3
    <3>4. maps' = [i \in DOMAIN maps |-> maps'[i]] /\ DOMAIN maps' = DOMAIN maps
      BY <3>2
    <3>5. /\ maps' \in Seq(Rolemap) /\ OnePerTarget'
          /\ \A t \in Targets, r \in RoleNames :
               (\E i \in DOMAIN maps : maps[i].target = t /\ r \in Range(maps[i].roles))
               => \E i \in DOMAIN maps' : maps'[i].target = t /\ r \in Range(maps'[i].roles)
      BY <1>1, <3>3, <3>4, RolesAdded DEF Linking
    <3>6. OperationsRecorded'
      <4> SUFFICES ASSUME NEW i \in DOMAIN maps, maps[i].target \in OpNames \cup {"all"}
                   PROVE  Range(maps'[i].roles)
                            = { r \in RoleNames : <<maps[i].target, r>> \in written' }
        BY <1>5, <3>3, <3>4
      <4>1. Range(maps[i].roles) = RolesWritten({maps[i].target})
        BY <1>1 DEF Linking, OperationsRecorded
      <4> QED BY <1>4, <3>3, <4>1
    <3>7. \A r \in Range(ns) : r \in Range(maps'[k].roles) /\ maps'[k].target = target
      BY <3>1, <3>3
    <3>8. Recorded'
      <4> SUFFICES ASSUME NEW t \in Targets, NEW r \in RoleNames, <<t, r>> \in written'
                   PROVE  \E i \in DOMAIN maps' : maps'[i].target = t /\ r \in Range(maps'[i].roles)
        BY DEF Recorded
      <4>1. CASE <<t, r>> \in written
        BY <1>1, <3>5, <4>1 DEF Linking, Recorded
      <4>2. CASE t = target /\ r \in Range(ns)
        BY <3>1, <3>4, <3>7, <4>2
      <4> QED BY <1>1, <4>1, <4>2
    <3> QED BY <3>5, <3>8, <3>6
  <2>2. CASE ~ \E k \in DOMAIN maps : maps[k].target = target
    <3> DEFINE new == [target |-> target, roles |-> ns]
    <3>1. maps' = Append(maps, new) /\ new \in Rolemap
      BY <1>1, <1>3, <2>2 DEF RolemapAssign, Rolemap
    <3>2. /\ maps' \in Seq(Rolemap)
          /\ DOMAIN maps' = DOMAIN maps \cup {Len(maps) + 1}
          /\ \A i \in DOMAIN maps : maps'[i] = maps[i]
          /\ maps'[Len(maps) + 1] = new
      BY <1>1, <3>1, AppendProperties DEF Linking
    <3>3. OnePerTarget'
      BY <1>1, <2>2, <3>2 DEF Linking, OnePerTarget
    <3>4. Recorded'
      <4> SUFFICES ASSUME NEW t \in Targets, NEW r \in RoleNames, <<t, r>> \in written'
                   PROVE  \E i \in DOMAIN maps' : maps'[i].target = t /\ r \in Range(maps'[i].roles)
        BY DEF Recorded
      <4>1. CASE <<t, r>> \in written
        <5>1. PICK i \in DOMAIN maps : maps[i].target = t /\ r \in Range(maps[i].roles)
          BY <1>1, <4>1 DEF Linking, Recorded
        <5> QED BY <3>2, <5>1
      <4>2. CASE t = target /\ r \in Range(ns)
        BY <3>2, <4>2
      <4> QED BY <1>1, <4>1, <4>2
    <3>5. OperationsRecorded'
      <4> SUFFICES ASSUME NEW i \in DOMAIN maps', maps'[i].target \in OpNames \cup {"all"}
                   PROVE  Range(maps'[i].roles)
                            = { r \in RoleNames : <<maps'[i].target, r>> \in written' }
        BY <1>5
      <4>1. CASE i \in DOMAIN maps
        <5>1. maps'[i] = maps[i] /\ maps[i].target # target
          BY <2>2, <3>2, <4>1
        <5>2. Range(maps[i].roles) = RolesWritten({maps[i].target})
          BY <1>1, <4>1, <5>1 DEF Linking, OperationsRecorded
        <5> QED BY <1>4, <5>1, <5>2
      <4>2. CASE i = Len(maps) + 1
        <5>1. maps'[i].target = target /\ maps'[i].roles = ns
          BY <3>2, <4>2
        <5>2. RolesWritten({target}) = {}
          BY <1>1, <2>2 DEF Linking, Recorded, RolesWritten
        <5> QED BY <1>4, <5>1, <5>2
      <4> QED BY <3>2, <4>1, <4>2
    <3> QED BY <3>2, <3>3, <3>4, <3>5
  <2> QED BY <2>1, <2>2
<1>7. OperationsHeld'
  <2>1. \A k \in DOMAIN maps' : ~(k < 1)
    <3>1. \A k \in DOMAIN maps' : k \in Nat \ {0}
      BY <1>6, ElementOfSeq
    <3> QED BY <3>1
  <2> QED BY <1>1, <2>1 DEF OperationsHeld
<1>8. OperationsGiven'
  BY <1>1, <1>2 DEF OperationsGiven, Passed, PassedNext
<1>9. FieldsGiven'
  BY <1>1, <1>2, <1>6 DEF FieldsGiven, Hiding, Passed, PassedNext
<1>10. NoneEmpty'
  <2>1. ns # <<>>
    BY RoleListsAssumption
  <2>2. ASSUME NEW i \in DOMAIN maps, NEW rs, rs = maps[i].roles \o ns
        PROVE  [maps[i] EXCEPT !.roles = rs].roles # <<>>
    <3>1. maps[i] \in Rolemap /\ maps[i].roles \in Seq(RoleNames)
      BY <1>1, Element DEF Linking
    <3>2. Len(rs) = Len(maps[i].roles) + Len(ns) /\ Len(ns) \in Nat \ {0}
          /\ Len(maps[i].roles) \in Nat
      BY <1>3, <2>1, <2>2, <3>1, ConcatProperties, EmptySeq, LenProperties
    <3>3. rs # <<>>
      BY <3>2
    <3> QED BY <3>1, <3>3 DEF Rolemap
  <2>3. CASE \E k \in DOMAIN maps : maps[k].target = target
    <3>1. maps' = [i \in DOMAIN maps |-> IF maps[i].target = target
                     THEN [maps[i] EXCEPT !.roles = maps[i].roles \o ns] ELSE maps[i]]
      BY <1>1, <2>3 DEF RolemapAssign
    <3> QED BY <1>1, <2>2, <3>1 DEF NoneEmpty, Linking
  <2>4. CASE ~ \E k \in DOMAIN maps : maps[k].target = target
    <3> DEFINE new == [target |-> target, roles |-> ns]
    <3>1. maps' = Append(maps, new) /\ new \in Rolemap
      BY <1>1, <1>3, <2>4 DEF RolemapAssign, Rolemap
    <3>2. /\ DOMAIN maps' = DOMAIN maps \cup {Len(maps) + 1}
          /\ \A i \in DOMAIN maps : maps'[i] = maps[i]
          /\ maps'[Len(maps) + 1] = new
      BY <1>1, <3>1, AppendProperties DEF Linking
    <3> QED BY <1>1, <2>1, <3>2 DEF NoneEmpty, Linking
  <2> QED BY <2>3, <2>4
<1>11. Reached'
  <2>1. \A k \in DOMAIN maps' : ~(k < 1)
    <3>1. \A k \in DOMAIN maps' : k \in Nat \ {0}
      BY <1>6, ElementOfSeq
    <3> QED BY <3>1
  <2> QED BY <1>1, <2>1 DEF Reached
<1> QED BY <1>1, <1>6, <1>8, <1>9, <1>7, <1>10, <1>11 DEF RolesInv, Linking, Progress

(* The queue moves on, and no rolemap is given to a field.                 *)
LEMMA OtherStep ==
  ASSUME Linking, next \in DOMAIN maps, \A f \in Columns : next \notin Hiding(f),
         maps' = maps, fieldmap' = fieldmap, next' = next + 1
  PROVE  /\ FieldsGiven'
         /\ \A k, S : Passed(k, S) => PassedNext(k, S)
<1>1. next \in Nat \ {0} /\ \A k \in DOMAIN maps : k \in Nat
  BY Element DEF Linking, Progress
<1>2. \A k, S : Passed(k, S) => PassedNext(k, S)
  BY <1>1 DEF Passed, PassedNext
<1>3. ASSUME NEW f \in Columns
      PROVE  /\ fieldmap[f] # 0 => PassedNext(fieldmap[f], {f, "noexport"})
             /\ \A k \in Hiding(f) : k < next + 1 => fieldmap[f] # 0 /\ fieldmap[f] <= k
  <2>1. fieldmap[f] # 0 => PassedNext(fieldmap[f], {f, "noexport"})
    BY <1>2 DEF Linking, FieldsGiven
  <2>2. ASSUME NEW k \in Hiding(f), k < next + 1
        PROVE  fieldmap[f] # 0 /\ fieldmap[f] <= k
    <3>1. k \in Nat /\ k < next
      BY <1>1, <2>2 DEF Hiding
    <3> QED BY <3>1 DEF Linking, FieldsGiven
  <2> QED BY <2>1, <2>2
<1>4. \A f \in Columns : Hiding(f)' = Hiding(f)
  BY DEF Hiding
<1>5. FieldsGiven'
  BY <1>3, <1>4 DEF FieldsGiven, Passed, PassedNext
<1> QED BY <1>2, <1>5

LEMMA OtherReached ==
  ASSUME Linking, next \in DOMAIN maps, maps[next].target # "noexport",
         maps' = maps, fieldmap' = fieldmap, next' = next + 1
  PROVE  NoneEmpty' /\ Reached'
<1>1. \A k : Reaches(k)' <=> Reaches(k)
  BY DEF Reaches, RolesOf
<1>2. next \in Nat \ {0} /\ \A k \in DOMAIN maps : k \in Nat
  BY Element DEF Linking, Progress
<1>3. \A k \in DOMAIN maps : maps[k].target = "noexport" /\ k < next + 1 => k < next
  BY <1>2
<1> QED BY <1>1, <1>3 DEF Linking, NoneEmpty, Reached

(* It is given to the fields it hides.                                     *)
LEMMA HideStep ==
  ASSUME Linking, next \in DOMAIN maps, NEW hidden \in SUBSET Columns,
         \A f \in Columns : f \in hidden <=> maps[next].target \in {f, "noexport"},
         maps[next].target \in Columns \cup {"noexport"},
         Hide(next, hidden), next' = next + 1, written' = written, pass = "find"
  PROVE  Linking'
<1>1. next \in Nat \ {0} /\ maps[next].roles \in Seq(RoleNames)
      /\ \A k \in DOMAIN maps : k \in Nat
  BY Element DEF Linking, Progress
<1>2. maps' = [j \in DOMAIN maps |->
        IF \E f \in hidden : fieldmap[f] = j
        THEN [maps[j] EXCEPT !.roles = MergeField(maps[j].roles, maps[next].roles)]
        ELSE maps[j]]
  BY DEF Hide
<1>3. ASSUME NEW j \in DOMAIN maps
      PROVE  /\ maps'[j] \in Rolemap /\ maps'[j].target = maps[j].target
             /\ Range(maps[j].roles) \subseteq Range(maps'[j].roles)
  <2>1. maps[j] \in Rolemap /\ maps[j].roles \in Seq(RoleNames)
    BY Element DEF Linking
  <2>2. CASE \E f \in hidden : fieldmap[f] = j
    <3>1. PICK more \in Seq(RoleNames) :
            MergeField(maps[j].roles, maps[next].roles) = maps[j].roles \o more
      BY <1>1, <2>1, MergeAdds
    <3>2. maps'[j] = [maps[j] EXCEPT !.roles = maps[j].roles \o more]
      BY <1>2, <2>2, <3>1
    <3>3. /\ maps[j].roles \o more \in Seq(RoleNames)
          /\ Range(maps[j].roles \o more) = Range(maps[j].roles) \cup Range(more)
      BY <2>1, ConcatProperties, RangeConcatenation
    <3>4. /\ maps'[j] \in Rolemap /\ maps'[j].target = maps[j].target
          /\ maps'[j].roles = maps[j].roles \o more
      BY <2>1, <3>2, <3>3 DEF Rolemap
    <3> QED BY <3>3, <3>4
  <2>3. CASE ~ \E f \in hidden : fieldmap[f] = j
    BY <1>2, <2>1, <2>3
  <2> QED BY <2>2, <2>3
<1>4. maps' = [j \in DOMAIN maps |-> maps'[j]] /\ DOMAIN maps' = DOMAIN maps
  BY <1>2
<1>5. /\ maps' \in Seq(Rolemap) /\ OnePerTarget'
      /\ \A f \in Columns : Hiding(f)' = Hiding(f)
      /\ \A t \in Targets, r \in RoleNames :
           (\E k \in DOMAIN maps : maps[k].target = t /\ r \in Range(maps[k].roles))
           => \E k \in DOMAIN maps' : maps'[k].target = t /\ r \in Range(maps'[k].roles)
  BY <1>3, <1>4, RolesAdded DEF Linking
<1>6. Recorded'
  BY <1>5 DEF Linking, Recorded
<1>7. \A k, S : Passed(k, S) => PassedNext(k, S)
  BY <1>1, <1>3, <1>4 DEF Passed, PassedNext
<1>8. OperationsGiven'
  BY <1>7 DEF Hide, Linking, OperationsGiven, Passed, PassedNext
<1>9. fieldmap' \in [Columns -> Nat] /\ \A f \in Columns : fieldmap'[f] =
        IF f \in hidden /\ fieldmap[f] = 0 THEN next ELSE fieldmap[f]
  BY <1>1 DEF Hide, Linking
<1>10. ASSUME NEW f \in Columns
       PROVE  /\ fieldmap'[f] # 0 => PassedNext(fieldmap'[f], {f, "noexport"})
              /\ \A k \in Hiding(f) : k < next + 1 => fieldmap'[f] # 0 /\ fieldmap'[f] <= k
  <2>1. /\ fieldmap[f] \in Nat
        /\ fieldmap[f] # 0 => Passed(fieldmap[f], {f, "noexport"}) /\ fieldmap[f] < next
        /\ \A k \in Hiding(f) : k < next => fieldmap[f] # 0 /\ fieldmap[f] <= k
    BY DEF Linking, FieldsGiven, Passed
  <2>2. Hiding(f) \subseteq Nat /\ (next \in Hiding(f) <=> f \in hidden)
    BY <1>1 DEF Hiding
  <2>3. CASE f \in hidden /\ fieldmap[f] = 0
    <3>1. PassedNext(next, {f, "noexport"})
      BY <1>1, <1>3, <1>4, <2>3 DEF Passed, PassedNext
    <3>2. \A k \in Hiding(f) : k < next + 1 => k = next
      BY <1>1, <2>1, <2>2, <2>3
    <3> QED BY <1>1, <1>9, <2>3, <3>1, <3>2
  <2>4. CASE ~(f \in hidden /\ fieldmap[f] = 0)
    <3>1. fieldmap'[f] = fieldmap[f]
      BY <1>9, <2>4
    <3>2. \A k \in Hiding(f) : k < next + 1 => fieldmap[f] # 0 /\ fieldmap[f] <= k
      BY <1>1, <2>1, <2>2, <2>4
    <3> QED BY <1>7, <2>1, <3>1, <3>2
  <2> QED BY <2>3, <2>4
<1>11. FieldsGiven'
  BY <1>5, <1>10 DEF FieldsGiven, Passed, PassedNext
<1>12. opmap' = opmap /\ arolemap' = arolemap /\ pass' = pass
  BY DEF Hide
<1>13. OperationsRecorded'
  <2> SUFFICES ASSUME NEW k \in DOMAIN maps, maps[k].target \in OpNames \cup {"all"}
               PROVE  Range(maps'[k].roles) = RolesWritten({maps[k].target})
    BY <1>3, <1>4 DEF OperationsRecorded, RolesWritten
  <2>1. k # 0
    BY Element DEF Linking
  <2>2. \A f \in hidden : fieldmap[f] # k
    BY <2>1, TargetsAssumption DEF Linking, FieldsGiven, Passed
  <2>3. maps'[k] = maps[k]
    BY <1>2, <2>2
  <2> QED BY <2>3 DEF Linking, OperationsRecorded
<1>14. maps[next].target \notin OpNames \cup {"all"}
  BY TargetsAssumption
<1>15. OperationsHeld'
  <2> SUFFICES ASSUME NEW k \in DOMAIN maps, k < next + 1
               PROVE  /\ maps[k].target = "all" => arolemap = k
                      /\ \A o \in Present : maps[k].target = o => opmap[o] = k
    BY <1>3, <1>4, <1>12 DEF OperationsHeld
  <2>1. CASE k < next
    BY <2>1 DEF Linking, OperationsHeld
  <2>2. CASE k = next
    <3>1. maps[k].target \in OpNames \cup {"all"} => FALSE
      BY <2>2, <1>14
    <3> QED BY <3>1, TargetsAssumption
  <2> QED BY <1>1, <2>1, <2>2
<1>16. NoneEmpty'
  <2> SUFFICES ASSUME NEW k \in DOMAIN maps PROVE maps'[k].roles # <<>>
    BY <1>4 DEF NoneEmpty
  <2>1. /\ maps[k].roles \in Seq(RoleNames) /\ maps[k].roles # <<>>
        /\ maps'[k].roles \in Seq(RoleNames)
    BY <1>3, Element DEF Linking, NoneEmpty, Rolemap
  <2>2. maps[k].roles[1] \in Range(maps[k].roles)
    BY <2>1, MergeTakesFirst
  <2>3. Range(maps'[k].roles) # {}
    BY <1>3, <2>2
  <2> QED BY <2>3 DEF Range
<1>17. Reached'
  <2> SUFFICES ASSUME NEW k \in DOMAIN maps, maps[k].target = "noexport", k < next + 1
               PROVE  Reaches(k)'
    BY <1>3, <1>4 DEF Reached
  <2>1. k \in Nat \ {0} /\ 0 \notin DOMAIN maps
    BY Element DEF Linking
  <2>2. RolesOf(k)' = Range(maps'[k].roles) /\ RolesOf(k) = Range(maps[k].roles)
    BY <2>1 DEF RolesOf
  <2>3. CASE k < next
    <3>1. PICK r \in RolesOf(k) : \A f \in Columns : r \in RolesOf(fieldmap[f])
      BY <2>3 DEF Linking, Reached, Reaches
    <3>2. ASSUME NEW f \in Columns PROVE r \in RolesOf(fieldmap[f])'
      <4>1. fieldmap[f] # 0 /\ r \in Range(maps[fieldmap[f]].roles)
        BY <3>1 DEF RolesOf
      <4>2. fieldmap[f] \in DOMAIN maps /\ fieldmap'[f] = fieldmap[f]
        BY <1>9, <4>1 DEF Linking, FieldsGiven, Passed
      <4> QED BY <1>3, <4>1, <4>2 DEF RolesOf
    <3> QED BY <1>3, <2>2, <3>1, <3>2 DEF Reaches
  <2>4. CASE k = next
    <3>1. /\ maps[k].roles # <<>> /\ maps[k].roles[1] \in Range(maps[k].roles)
          /\ \A j \in DOMAIN maps :
               maps[k].roles[1] \in Range(MergeField(maps[j].roles, maps[k].roles))
      BY <1>1, <2>4, Element, MergeTakesFirst DEF Linking, NoneEmpty
    <3>2. ASSUME NEW f \in Columns
          PROVE  maps[k].roles[1] \in RolesOf(fieldmap[f])'
      <4>1. f \in hidden
        BY <2>4
      <4>2. CASE fieldmap[f] = 0
        BY <1>3, <1>9, <2>1, <2>2, <2>4, <3>1, <4>1, <4>2 DEF RolesOf
      <4>3. CASE fieldmap[f] # 0
        <5> DEFINE j == fieldmap[f]
        <5>1. j \in DOMAIN maps /\ fieldmap'[f] = j
          BY <1>9, <4>3 DEF Linking, FieldsGiven, Passed
        <5>2. maps'[j] = [maps[j] EXCEPT !.roles = MergeField(maps[j].roles, maps[k].roles)]
          BY <1>2, <2>4, <4>1, <5>1
        <5>3. maps[j] \in Rolemap
          BY <5>1, Element DEF Linking
        <5>4. maps'[j].roles = MergeField(maps[j].roles, maps[k].roles)
          BY <5>2, <5>3 DEF Rolemap
        <5> QED BY <3>1, <4>3, <5>1, <5>4 DEF RolesOf
      <4> QED BY <4>2, <4>3
    <3> QED BY <1>3, <2>2, <3>1, <3>2 DEF Reaches
  <2> QED BY <1>1, <2>1, <2>3, <2>4
<1> QED BY <1>1, <1>5, <1>6, <1>8, <1>9, <1>11, <1>12, <1>13, <1>15, <1>16, <1>17
       DEF Linking, Progress

LEMMA ResolveStep ==
  ASSUME RolesInv, ResolveRolemap
  PROVE  RolesInv'
<1> DEFINE target == maps[next].target
<1>1. /\ pass = "find" /\ Linking /\ next' = next + 1 /\ written' = written
      /\ next \in Nat \ {0} /\ next <= Len(maps)
  BY DEF ResolveRolemap, RolesInv, Linking, Progress
<1>2. /\ next \in DOMAIN maps /\ target \in Targets
      /\ \A k, S : Passed(k, S) => k # next /\ maps[k].target # target
  <2>1. next \in DOMAIN maps
    BY <1>1, LenProperties DEF Linking
  <2>2. \A k, S : Passed(k, S) => k # next
    BY <1>1 DEF Passed
  <2> QED BY <1>1, <2>1, <2>2, Element DEF Linking, OnePerTarget, Passed
<1>3. (/\ maps' = maps
       /\ target = "all" => arolemap' = next
       /\ target # "all" => arolemap' = arolemap
       /\ \A o \in Present : opmap'[o] = IF o = target THEN next ELSE opmap[o])
      => OperationsRecorded' /\ OperationsHeld'
  <2> SUFFICES ASSUME maps' = maps,
                      target = "all" => arolemap' = next,
                      target # "all" => arolemap' = arolemap,
                      \A o \in Present : opmap'[o] = IF o = target THEN next ELSE opmap[o]
               PROVE  OperationsRecorded' /\ OperationsHeld'
    OBVIOUS
  <2>1. OperationsRecorded'
    BY <1>1 DEF Linking, OperationsRecorded, RolesWritten
  <2>2. ASSUME NEW k \in DOMAIN maps, k < next + 1
        PROVE  /\ maps[k].target = "all" => arolemap' = k
               /\ \A o \in Present : maps[k].target = o => opmap'[o] = k
    <3>1. CASE k < next
      <4>1. maps[k].target # target
        BY <1>1, <1>2, <3>1 DEF Linking, OnePerTarget
      <4>2. /\ maps[k].target = "all" => arolemap = k
            /\ \A o \in Present : maps[k].target = o => opmap[o] = k
        BY <1>1, <3>1 DEF Linking, OperationsHeld
      <4> QED BY <4>1, <4>2
    <3>2. CASE k = next
      BY <3>2
    <3>3. k \in Nat
      BY <1>1, Element DEF Linking
    <3> QED BY <1>1, <2>2, <3>1, <3>2, <3>3
  <2> QED BY <1>1, <2>1, <2>2 DEF OperationsHeld
<1>4. CASE target = "all"
  <2>1. FindAll(next) /\ \A f \in Columns : next \notin Hiding(f)
    BY <1>4, TargetsAssumption DEF ResolveRolemap, Hiding
  <2>2. arolemap = 0
    BY <1>1, <1>2, <1>4 DEF Linking, OperationsGiven, Passed
  <2>3. /\ arolemap' = next /\ maps' = maps /\ opmap' = opmap
        /\ fieldmap' = fieldmap /\ pass' = pass
    BY <2>1, <2>2 DEF FindAll
  <2>4. FieldsGiven' /\ \A k, S : Passed(k, S) => PassedNext(k, S)
    BY <1>1, <1>2, <2>1, <2>3, OtherStep
  <2>5. PassedNext(next, {"all"})
    BY <1>1, <1>2, <1>4, <2>3 DEF Passed, PassedNext
  <2>6. OperationsGiven'
    BY <1>1, <2>3, <2>4, <2>5 DEF Linking, OperationsGiven, Passed, PassedNext
  <2>7. OperationsRecorded' /\ OperationsHeld'
    BY <1>4, <1>3, <2>3, TargetsAssumption
  <2>8. NoneEmpty' /\ Reached'
    BY <1>1, <1>2, <1>4, <2>3, OtherReached
  <2> QED BY <1>1, <2>3, <2>4, <2>6, <2>7, <2>8
          DEF RolesInv, Linking, Progress, OnePerTarget, Recorded
<1>5. CASE target \in OpNames
  <2>1. FindOperation(next, target) /\ \A f \in Columns : next \notin Hiding(f)
    BY <1>5, TargetsAssumption DEF ResolveRolemap, Hiding
  <2>2. CASE target \notin Present
    <3>1. maps' = maps /\ opmap' = opmap /\ fieldmap' = fieldmap
          /\ arolemap' = arolemap /\ pass' = pass
      BY <2>1, <2>2 DEF FindOperation, NotFound
    <3>2. FieldsGiven' /\ \A k, S : Passed(k, S) => PassedNext(k, S)
      BY <1>1, <1>2, <2>1, <3>1, OtherStep
    <3>3. OperationsGiven'
      BY <1>1, <3>1, <3>2 DEF Linking, OperationsGiven, Passed, PassedNext
    <3>4. OperationsRecorded' /\ OperationsHeld'
      BY <1>5, <1>3, <2>2, <3>1, TargetsAssumption
    <3>5. NoneEmpty' /\ Reached'
      BY <1>1, <1>2, <1>5, <3>1, OtherReached, TargetsAssumption
    <3> QED BY <1>1, <3>1, <3>2, <3>3, <3>4, <3>5
            DEF RolesInv, Linking, Progress, OnePerTarget, Recorded
  <2>3. CASE target \in Present
    <3>1. opmap[target] = 0
      BY <1>1, <1>2, <2>3 DEF Linking, OperationsGiven, Passed
    <3>2. /\ opmap' = [opmap EXCEPT ![target] = next] /\ maps' = maps
          /\ fieldmap' = fieldmap /\ arolemap' = arolemap /\ pass' = pass
      BY <2>1, <2>3, <3>1 DEF FindOperation
    <3>3. FieldsGiven' /\ \A k, S : Passed(k, S) => PassedNext(k, S)
      BY <1>1, <1>2, <2>1, <3>2, OtherStep
    <3>4. PassedNext(next, {target})
      BY <1>1, <1>2, <3>2 DEF Passed, PassedNext
    <3>5. /\ opmap' \in [Present -> Nat] /\ opmap'[target] = next
          /\ \A o \in Present \ {target} : opmap'[o] = opmap[o]
      BY <1>1, <2>3, <3>2 DEF Linking
    <3>6. OperationsGiven'
      <4>1. ASSUME NEW o \in Present, opmap'[o] # 0 PROVE PassedNext(opmap'[o], {o})
        <5>1. CASE o = target
          BY <3>2, <3>4, <3>5, <5>1
        <5>2. CASE o # target
          BY <1>1, <3>3, <3>5, <4>1, <5>2 DEF Linking, OperationsGiven
        <5> QED BY <5>1, <5>2
      <4> QED BY <1>1, <3>2, <3>3, <4>1
              DEF Linking, OperationsGiven, Passed, PassedNext
    <3>7. OperationsRecorded' /\ OperationsHeld'
      BY <1>5, <1>3, <3>2, <3>5, TargetsAssumption
    <3>8. NoneEmpty' /\ Reached'
      BY <1>1, <1>2, <1>5, <3>2, OtherReached, TargetsAssumption
    <3> QED BY <1>1, <3>2, <3>3, <3>5, <3>6, <3>7, <3>8
            DEF RolesInv, Linking, Progress, OnePerTarget, Recorded
  <2> QED BY <2>2, <2>3
<1>6. CASE target \notin OpNames \cup {"all"}
  <2>1. FindNoexport(next, target)
    BY <1>6 DEF ResolveRolemap
  <2>2. CASE target = "noexport"
    <3>1. Hide(next, Columns)
      BY <2>1, <2>2 DEF FindNoexport
    <3>2. Linking'
      BY <1>1, <1>2, <2>2, <3>1, HideStep
    <3> QED BY <1>1, <3>1, <3>2 DEF Hide, RolesInv
  <2>3. CASE target # "noexport" /\ target \in Columns
    <3>1. Hide(next, {target})
      BY <2>1, <2>3 DEF FindNoexport
    <3>2. Linking'
      BY <1>1, <1>2, <2>3, <3>1, HideStep
    <3> QED BY <1>1, <3>1, <3>2 DEF Hide, RolesInv
  <2>4. CASE target # "noexport" /\ target \notin Columns
    <3>1. NotFound /\ \A f \in Columns : next \notin Hiding(f)
      BY <2>1, <2>4 DEF FindNoexport, Hiding
    <3>2. maps' = maps /\ opmap' = opmap /\ fieldmap' = fieldmap
          /\ arolemap' = arolemap /\ pass' = pass
      BY <3>1 DEF NotFound
    <3>3. FieldsGiven' /\ \A k, S : Passed(k, S) => PassedNext(k, S)
      BY <1>1, <1>2, <3>1, <3>2, OtherStep
    <3>4. OperationsGiven'
      BY <1>1, <3>2, <3>3 DEF Linking, OperationsGiven, Passed, PassedNext
    <3>5. OperationsRecorded' /\ OperationsHeld'
      BY <1>6, <1>3, <3>2, TargetsAssumption
    <3>6. NoneEmpty' /\ Reached'
      BY <1>1, <1>2, <2>4, <3>2, OtherReached
    <3> QED BY <1>1, <3>2, <3>3, <3>4, <3>5, <3>6
            DEF RolesInv, Linking, Progress, OnePerTarget, Recorded
  <2> QED BY <2>2, <2>3, <2>4
<1> QED BY <1>4, <1>5, <1>6

(* Before the roles of "all" are added, every field that is hidden has the *)
(* first rolemap that hides it, and this is no operation's.                *)
LEMMA CoverStep ==
  ASSUME RolesInv, CoverAll
  PROVE  RolesInv'
<1>1. /\ pass = "post" /\ pass' = "check" /\ Linking /\ written' = written
      /\ fieldmap' = fieldmap /\ next \in Nat /\ next > Len(maps)
  BY DEF CoverAll, RolesInv, Linking, Progress
<1>2. /\ DOMAIN maps' = DOMAIN maps
      /\ \A k \in DOMAIN maps : maps'[k].target = maps[k].target
      /\ \A k \in DOMAIN maps : (\A o \in Present : opmap[o] # k) => maps'[k] = maps[k]
  <2>1. CASE arolemap = 0
    BY <2>1 DEF CoverAll
  <2>2. CASE arolemap # 0
    <3>1. maps' = [k \in DOMAIN maps |->
            IF \E o \in Present : opmap[o] = k
            THEN [maps[k] EXCEPT !.roles = PostCover(maps[k].roles, maps[arolemap].roles)]
            ELSE maps[k]]
      BY <2>2 DEF CoverAll
    <3>2. \A k \in DOMAIN maps : \A rs :
            "target" \in DOMAIN maps[k] /\ [maps[k] EXCEPT !.roles = rs].target = maps[k].target
      BY <1>1, Element DEF Linking, Rolemap
    <3> QED BY <3>1, <3>2
  <2> QED BY <2>1, <2>2
<1>3. \A f \in Columns : Hiding(f)' = Hiding(f)
  BY <1>2 DEF Hiding
<1>4. ASSUME NEW f \in Columns, Hiding(f) # {}, NEW r \in RoleNames,
             <<maps[Min(Hiding(f))].target, r>> \in written
      PROVE  r \in RolesOf(fieldmap[f])'
  <2>1. Hiding(f) \subseteq Nat /\ \A k \in Hiding(f) : k < next
    BY <1>1, LenProperties, Element DEF Linking, Hiding
  <2>2. fieldmap[f] \in Hiding(f) /\ \A k \in Hiding(f) : fieldmap[f] <= k
    BY <1>1, <1>4, <2>1 DEF Linking, FieldsGiven, Passed, Hiding
  <2>3. Min(Hiding(f)) = fieldmap[f]
    BY <2>1, <2>2 DEF Min
  <2>4. PICK k \in DOMAIN maps : maps[k].target = maps[fieldmap[f]].target
                                 /\ r \in Range(maps[k].roles)
    BY <1>1, <1>4, <2>2, <2>3, Element DEF Linking, Recorded, Hiding
  <2>5. k = fieldmap[f]
    BY <1>1, <2>2, <2>4 DEF Linking, OnePerTarget, Hiding
  <2>6. \A o \in Present : opmap[o] # fieldmap[f]
    BY <1>1, <2>1, <2>2, TargetsAssumption DEF Linking, OperationsGiven, Passed, Hiding
  <2>7. maps'[fieldmap[f]] = maps[fieldmap[f]] /\ fieldmap[f] # 0
    BY <1>1, <1>2, <2>2, <2>6, Element DEF Linking, Hiding
  <2> QED BY <1>1, <2>4, <2>5, <2>7 DEF RolesOf
<1>5. Kept'
  <2> SUFFICES ASSUME NEW f \in Columns, Hiding(f)' # {}
               PROVE  RolesWritten({maps[Min(Hiding(f))].target})' \subseteq RolesOf(fieldmap[f])'
    BY <1>1 DEF Kept
  <2>1. Hiding(f) # {} /\ Hiding(f) \subseteq DOMAIN maps
    BY <1>3 DEF Hiding
  <2>2. Min(Hiding(f)) \in Hiding(f)
    <3>1. Hiding(f) \in SUBSET (1..Len(maps)) /\ Len(maps) \in Nat
      BY <1>1, <2>1, LenProperties DEF Linking
    <3> QED BY <2>1, <3>1, MinOfPositions
  <2>3. RolesWritten({maps[Min(Hiding(f))].target})'
        = { r \in RoleNames : <<maps[Min(Hiding(f))].target, r>> \in written }
    BY <1>1, <1>2, <1>3, <2>1, <2>2 DEF RolesWritten
  <2> QED BY <1>4, <2>1, <2>3
<1>6. Exact'
  <2> SUFFICES ASSUME NEW o \in Present
               PROVE  RolesOf(opmap[o])' = RolesWritten({o, "all"})
    BY <1>1 DEF Exact, RolesWritten
  <2>1. \A t : RolesWritten({o, t}) = RolesWritten({o}) \cup RolesWritten({t})
    BY DEF RolesWritten
  <2>2. \A k \in DOMAIN maps : k \in Nat \ {0} /\ k < next
                              /\ maps[k].roles \in Seq(RoleNames)
    BY <1>1, LenProperties, Element DEF Linking
  <2>3. o \in OpNames /\ o \in Targets /\ "all" \in Targets
        /\ "all" \notin OpNames
    BY TargetsAssumption DEF Targets
  <2>4. opmap[o] = 0 => RolesWritten({o}) = {}
    BY <1>1, <2>2, <2>3 DEF Linking, Recorded, OperationsHeld, RolesWritten
  <2>5. arolemap = 0 => RolesWritten({"all"}) = {}
    BY <1>1, <2>2, <2>3 DEF Linking, Recorded, OperationsHeld, RolesWritten
  <2>6. opmap[o] # 0 => /\ opmap[o] \in DOMAIN maps
                        /\ Range(maps[opmap[o]].roles) = RolesWritten({o})
    BY <1>1, <2>3 DEF Linking, OperationsGiven, OperationsRecorded, Passed
  <2>7. arolemap # 0 => /\ arolemap \in DOMAIN maps
                        /\ maps[arolemap].target = "all"
                        /\ Range(maps[arolemap].roles) = RolesWritten({"all"})
    BY <1>1, <2>3 DEF Linking, OperationsGiven, OperationsRecorded, Passed
  <2>8. CASE arolemap = 0
    <3>1. maps' = maps /\ opmap' = opmap
      BY <2>8 DEF CoverAll
    <3> QED BY <2>1, <2>4, <2>5, <2>6, <2>8, <3>1 DEF RolesOf
  <2>9. CASE arolemap # 0 /\ opmap[o] = 0
    <3>1. opmap'[o] = arolemap
      BY <2>9 DEF CoverAll
    <3>2. \A p \in Present : opmap[p] # arolemap
      BY <1>1, <2>7, <2>9, TargetsAssumption DEF Linking, OperationsGiven, Passed
    <3>3. maps'[arolemap] = maps[arolemap]
      BY <1>2, <2>7, <2>9, <3>2
    <3> QED BY <2>1, <2>4, <2>7, <2>9, <3>1, <3>3 DEF RolesOf
  <2>10. CASE arolemap # 0 /\ opmap[o] # 0
    <3> DEFINE k == opmap[o]
               covered == PostCover(maps[k].roles, maps[arolemap].roles)
    <3>1. opmap'[o] = k /\ maps'[k] = [maps[k] EXCEPT !.roles = covered]
      BY <2>6, <2>10 DEF CoverAll
    <3>2. covered \in Seq(RoleNames)
          /\ Range(covered) = Range(maps[k].roles) \cup Range(maps[arolemap].roles)
      BY <2>2, <2>6, <2>7, <2>10, CoverAdds
    <3>3. maps[k] \in Rolemap
      BY <1>1, <2>6, <2>10, Element DEF Linking
    <3>4. maps'[k].roles = covered
      BY <3>1, <3>3 DEF Rolemap
    <3> QED BY <2>1, <2>6, <2>7, <2>10, <3>1, <3>2, <3>4 DEF RolesOf
  <2> QED BY <2>8, <2>9, <2>10
<1>7. AllReached'
  <2> SUFFICES ASSUME NEW k \in DOMAIN maps, maps[k].target = "noexport"
               PROVE  Reaches(k)'
    BY <1>2 DEF AllReached
  <2>1. k \in Nat \ {0} /\ k < next /\ 0 \notin DOMAIN maps
    BY <1>1, LenProperties, Element DEF Linking
  <2>2. PICK r \in RolesOf(k) : \A f \in Columns : r \in RolesOf(fieldmap[f])
    BY <1>1, <2>1 DEF Linking, Reached, Reaches
  <2>3. ASSUME NEW j \in DOMAIN maps, NEW f, maps[j].target \in {f, "noexport"},
               f \notin OpNames
        PROVE  maps'[j] = maps[j]
    BY <1>1, <1>2, <2>3, TargetsAssumption DEF Linking, OperationsGiven, Passed
  <2>4. r \in RolesOf(k)'
    BY <2>1, <2>2, <2>3, TargetsAssumption DEF RolesOf
  <2>5. ASSUME NEW f \in Columns PROVE r \in RolesOf(fieldmap[f])'
    <3>1. fieldmap[f] # 0 /\ r \in Range(maps[fieldmap[f]].roles)
      BY <2>2 DEF RolesOf
    <3>2. Passed(fieldmap[f], {f, "noexport"}) /\ f \notin OpNames
      BY <1>1, <3>1, TargetsAssumption DEF Linking, FieldsGiven
    <3>3. maps'[fieldmap[f]] = maps[fieldmap[f]]
      BY <2>3, <3>2 DEF Passed
    <3> QED BY <1>1, <3>1, <3>3 DEF RolesOf
  <2> QED BY <2>4, <2>5 DEF Reaches
<1> QED BY <1>1, <1>5, <1>6, <1>7 DEF RolesInv

(* The other steps change the pass only.                                  *)
LEMMA FinishRolesStep ==
  ASSUME RolesInv, EndParse \/ EndFind \/ CheckUniqueRoles \/ \E ns \in RoleLists : RefuseNone(ns)
  PROVE  RolesInv'
<1>1. UNCHANGED <<maps, opmap, fieldmap, arolemap, next, written>>
  BY DEF EndParse, EndFind, CheckUniqueRoles, RefuseNone, FinishRoles
<1>2. /\ OnePerTarget' = OnePerTarget /\ Recorded' = Recorded /\ Kept' = Kept
      /\ Exact' = Exact /\ OperationsRecorded' = OperationsRecorded
      /\ OperationsHeld' = OperationsHeld
      /\ OperationsGiven' = OperationsGiven /\ FieldsGiven' = FieldsGiven
  BY <1>1 DEF Exact, OperationsRecorded, OperationsHeld, OnePerTarget, Recorded, Kept, OperationsGiven, FieldsGiven, Hiding,
              Passed, RolesWritten, RolesOf
<1>7. NoneEmpty' = NoneEmpty /\ Reached' = Reached /\ AllReached' = AllReached
  BY <1>1 DEF NoneEmpty, Reached, AllReached, Reaches, RolesOf
<1>3. CASE EndParse
  BY <1>1, <1>2, <1>3, <1>7 DEF EndParse, FinishRoles, RolesInv, Linking, Progress
<1>4. CASE EndFind
  <2>1. Linking /\ next > Len(maps) /\ pass' \in {"not found", "post"}
    BY <1>4 DEF EndFind, FinishRoles, RolesInv
  <2> QED BY <1>1, <1>2, <1>7, <2>1 DEF RolesInv, Linking, Progress
<1>5. CASE CheckUniqueRoles
  BY <1>1, <1>2, <1>5, <1>7 DEF CheckUniqueRoles, FinishRoles, RolesInv
<1>6. CASE \E ns \in RoleLists : RefuseNone(ns)
  BY <1>6 DEF RefuseNone, FinishRoles, RolesInv
<1> QED BY <1>3, <1>4, <1>5, <1>6

LEMMA Invariance == RolesSpec => []RolesInv
<1>1. RolesInit => RolesInv
  <2> SUFFICES ASSUME RolesInit PROVE RolesInv
    OBVIOUS
  <2>1. maps \in Seq(Rolemap) /\ DOMAIN maps = {}
    BY DEF RolesInit
  <2> QED BY <2>1 DEF RolesInit, RolesInv, Linking, Progress, OnePerTarget, Recorded,
                      OperationsGiven, FieldsGiven, OperationsRecorded,
                      OperationsHeld, Hiding, NoneEmpty, Reached
<1>2. RolesInv /\ [RolesNext]_roleVars => RolesInv'
  <2> SUFFICES ASSUME RolesInv, [RolesNext]_roleVars PROVE RolesInv'
    OBVIOUS
  <2>1. ASSUME NEW target \in Targets, NEW ns \in RoleLists, Statement(target, ns)
        PROVE  RolesInv'
    BY <2>1, StatementStep
  <2>2. CASE ResolveRolemap
    BY <2>2, ResolveStep
  <2>3. CASE CoverAll
    BY <2>3, CoverStep
  <2>4. CASE EndParse \/ EndFind \/ CheckUniqueRoles \/ \E ns \in RoleLists : RefuseNone(ns)
    BY <2>4, FinishRolesStep
  <2>5. CASE UNCHANGED roleVars
    BY <2>5 DEF roleVars, RolesInv, Linking, Progress, OnePerTarget, Recorded, OperationsGiven,
                FieldsGiven, OperationsRecorded, OperationsHeld, Hiding, Passed,
                Kept, Exact, RolesWritten, RolesOf, NoneEmpty, Reached, AllReached, Reaches
  <2> QED BY <2>1, <2>2, <2>3, <2>4, <2>5 DEF RolesNext
<1> QED BY <1>1, <1>2, PTL DEF RolesSpec

(* linker_resolve() asserts that an operation, and "all", has no rolemap   *)
(* when it is given one: whatever is written, in whatever order.           *)
THEOREM AssertionsHold == RolesSpec => []NeverAborts
<1>1. RolesInv => NeverAborts
  BY DEF RolesInv, NeverAborts
<1> QED BY <1>1, Invariance, PTL

(* A field that is hidden by any statement is hidden from all the roles of *)
(* the first one, however many other statements and fields share it.  The  *)
(* roles of a noexport statement for all fields may be lost on the way to  *)
(* a field, but never all of them: one is there in every field, which is   *)
(* what Audit assumes of the linker.                                       *)
THEOREM NoexportHonoured == RolesSpec => []NoexportKept
<1>1. RolesInv => FirstNoexportKept
  BY DEF RolesInv, Kept, FirstNoexportKept
<1>2. RolesInv => NoexportReaches
  BY DEF RolesInv, AllReached, NoexportReaches
<1>3. FirstNoexportKept /\ NoexportReaches => NoexportKept
  BY DEF NoexportKept
<1> QED BY <1>1, <1>2, <1>3, Invariance, PTL

(* resolve_struct_rolemap_post() grants an operation what is written for   *)
(* it and for "all", and nothing else, although "all" may come first, last *)
(* or between, and the rolemap of "all" is shared by pointer.              *)
THEOREM OperationsGranted == RolesSpec => []OperationsExact
<1>1. RolesInv => OperationsExact
  BY DEF RolesInv, Exact, OperationsExact
<1> QED BY <1>1, Invariance, PTL
================================================================================
