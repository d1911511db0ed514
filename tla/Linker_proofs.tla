---------------------------- MODULE Linker_proofs ----------------------------
(***************************************************************************)
(* Proofs about Linker, for any number of structures, of struct fields and *)
(* of unique statements.                                                   *)
(*                                                                         *)
(* The argument.  Each part has an invariant of its own: AliasInv,         *)
(* UniqueInv, OrderInv and MarkInv.  A chain of fields that an accepted    *)
(* configuration has no alias for would be behind a call that has not      *)
(* returned, so there is none.  The structures at the ends of the chains   *)
(* of a structure are then those it contains, and as no chain comes back   *)
(* to where it started, no structure contains itself, and one contains     *)
(* fewer structures than what contains it (Descent).  The depth-first walk *)
(* in OrderInv and the recursion in MarkInv rely on that.  LinkInv says    *)
(* which part relies on which.                                             *)
(***************************************************************************)
EXTENDS Linker, FiniteSetTheorems, SequenceTheorems, WellFoundedInduction,
        TLAPS

(***************************************************************************)
(* Numbers and orderings.                                                  *)
(***************************************************************************)
(* A set of numbers has a smallest.                                        *)
LEMMA Smallest ==
  ASSUME NEW K \in SUBSET Nat, K # {}
  PROVE  \E n \in K : \A m \in K : n <= m
<1> DEFINE R == OpToRel(<, Nat)
<1>1. IsWellFoundedOn(R, Nat)
  BY NatLessThanWellFounded
<1>2. PICK n \in K : \A y \in K : ~ (<<y, n>> \in R)
  <2> HIDE DEF R
  <2> QED BY <1>1, WFMin
<1>3. \A y \in K : ~(y < n)
  BY <1>2 DEF OpToRel
<1> QED BY <1>3

(* There is no sequence in a set where each has a shorter one in front.     *)
LEMMA NoSequence ==
  ASSUME NEW K \in SUBSET Seq(Nat), <<>> \notin K,
         \A c \in Seq(Nat), f \in Nat : Append(c, f) \in K => c \in K
  PROVE  K = {}
<1> DEFINE Lens == { Len(c) : c \in K }
<1>1. SUFFICES ASSUME K # {} PROVE FALSE
  OBVIOUS
<1>2. PICK n \in Lens : \A m \in Lens : n <= m
  <2>1. \A c \in K : Len(c) \in Nat
    BY LenProperties
  <2>2. Lens \in SUBSET Nat
    BY <2>1
  <2>3. PICK c \in K : TRUE
    BY <1>1
  <2>4. Len(c) \in Lens
    BY <2>3
  <2> HIDE DEF Lens
  <2> QED BY <2>2, <2>4, Smallest
<1>3. PICK c \in K : n = Len(c)
  OBVIOUS
<1>4. PICK d \in Seq(Nat), f \in Nat : c = Append(d, f)
  BY SequenceEmptyOrAppend
<1>5. d \in K /\ Len(d) \in Nat /\ Len(c) = Len(d) + 1
  BY <1>3, <1>4, AppendProperties, LenProperties
<1>6. Len(d) \in Lens
  BY <1>5
<1>7. n <= Len(d)
  <2> HIDE DEF Lens
  <2> QED BY <1>2, <1>6
<1> QED BY <1>3, <1>5, <1>7

(* Of a finite set that a relation orders, one is last.                    *)
LEMMA LastExists ==
  ASSUME NEW S, IsFiniteSet(S), S # {}, NEW R,
         \A a \in S : <<a, a>> \notin R,
         \A a, b, c \in S : <<a, b>> \in R /\ <<b, c>> \in R => <<a, c>> \in R,
         \A a, b \in S : a = b \/ <<a, b>> \in R \/ <<b, a>> \in R
  PROVE  \E z \in S : \A a \in S \ {z} : <<a, z>> \in R
<1> DEFINE Behind(a) == { b \in S : <<a, b>> \in R }
           Sets == { Behind(a) : a \in S }
<1>1. Sets \subseteq SUBSET S /\ Sets # {}
  <2>1. PICK a \in S : TRUE
    OBVIOUS
  <2>2. Behind(a) \in Sets
    BY <2>1
  <2>3. \A b \in S : Behind(b) \in SUBSET S
    OBVIOUS
  <2>4. Sets \subseteq SUBSET S
    <3> HIDE DEF Behind
    <3> QED BY <2>3
  <2> QED BY <2>2, <2>4
<1>2. IsWellFoundedOn(StrictSubsetOrdering(S), SUBSET S)
  <2>1. \A T \in SUBSET S : IsFiniteSet(T)
    BY FS_Subset
  <2>2. FiniteSubsetsOf(S) = SUBSET S
    BY <2>1 DEF FiniteSubsetsOf
  <2>3. IsWellFoundedOn(StrictSubsetOrdering(S), FiniteSubsetsOf(S))
    BY FS_StrictSubsetOrderingWellFounded, Zenon
  <2> QED BY <2>2, <2>3, Zenon
<1>3. PICK X \in Sets : \A Y \in Sets : ~ (<<Y, X>> \in StrictSubsetOrdering(S))
  <2> HIDE DEF Sets
  <2> QED BY <1>1, <1>2, WFMin
<1>4. PICK z \in S : X = Behind(z)
  OBVIOUS
<1>5. ASSUME NEW b \in Behind(z) PROVE FALSE
  <2>1. Behind(b) \subseteq Behind(z) /\ b \notin Behind(b) /\ Behind(b) \in Sets
    <3>1. b \in S /\ <<z, b>> \in R
      BY <1>5
    <3>2. b \notin Behind(b)
      BY <3>1
    <3>3. Behind(b) \subseteq Behind(z)
      BY <3>1
    <3>4. Behind(b) \in Sets
      BY <3>1
    <3> QED BY <3>2, <3>3, <3>4
  <2> HIDE DEF Sets
  <2>2. <<Behind(b), X>> \in StrictSubsetOrdering(S)
    BY <1>1, <1>4, <1>5, <2>1 DEF StrictSubsetOrdering
  <2> QED BY <1>3, <2>1, <2>2
<1> QED BY <1>5

(* So it can be put in order.                                              *)
LEMMA SortedExists ==
  ASSUME NEW S, IsFiniteSet(S), NEW R,
         \A a \in S : <<a, a>> \notin R,
         \A a, b, c \in S : <<a, b>> \in R /\ <<b, c>> \in R => <<a, c>> \in R,
         \A a, b \in S : a = b \/ <<a, b>> \in R \/ <<b, a>> \in R
  PROVE  \E f \in [1..Cardinality(S) -> S] :
           \A i, j \in 1..Cardinality(S) : i < j => <<f[i], f[j]>> \in R
<1> DEFINE Sorted(T, f) == /\ f \in [1..Cardinality(T) -> T]
                           /\ \A i, j \in 1..Cardinality(T) : i < j => <<f[i], f[j]>> \in R
           Bad == { T \in SUBSET S : ~\E f : Sorted(T, f) }
<1>1. \A T \in SUBSET S : IsFiniteSet(T)
  BY FS_Subset
<1>2. IsWellFoundedOn(StrictSubsetOrdering(S), SUBSET S)
  <2>1. FiniteSubsetsOf(S) = SUBSET S
    BY <1>1 DEF FiniteSubsetsOf
  <2> QED BY <2>1, FS_StrictSubsetOrderingWellFounded, Zenon
<1>3. ASSUME Bad # {} PROVE FALSE
  <2>1. PICK T \in Bad : \A U1 \in Bad : ~ (<<U1, T>> \in StrictSubsetOrdering(S))
    <3>1. Bad \subseteq SUBSET S
      OBVIOUS
    <3> HIDE DEF Bad
    <3> QED BY <1>2, <1>3, <3>1, WFMin
  <2>2. T \in SUBSET S /\ IsFiniteSet(T) /\ ~\E f : Sorted(T, f)
    BY <1>1
  <2>3. T # {}
    <3>1. Cardinality({}) = 0
      BY FS_EmptySet
    <3>2. Sorted({}, [i \in 1..0 |-> i])
      BY <3>1
    <3> QED BY <2>2, <3>2
  <2>4. PICK z \in T : \A a \in T \ {z} : <<a, z>> \in R
    BY <2>2, <2>3, LastExists
  <2> DEFINE rest == T \ {z}
  <2>5. IsFiniteSet(rest) /\ Cardinality(rest) \in Nat /\ Cardinality(T) = Cardinality(rest) + 1
    <3>1. IsFiniteSet(rest) /\ Cardinality(rest) = Cardinality(T) - 1
      BY <2>2, <2>4, FS_RemoveElement
    <3>2. Cardinality(T) \in Nat /\ Cardinality(rest) \in Nat
      BY <2>2, <3>1, FS_CardinalityType
    <3> QED BY <3>1, <3>2
  <2>6. PICK f : Sorted(rest, f)
    <3>1. <<rest, T>> \in StrictSubsetOrdering(S) /\ rest \in SUBSET S
      BY <2>2, <2>4 DEF StrictSubsetOrdering
    <3> HIDE DEF rest, Sorted
    <3> QED BY <2>1, <3>1
  <2> PICK n \in Nat : n = Cardinality(rest)
    BY <2>5
  <2> DEFINE g == [i \in 1..(n + 1) |-> IF i = n + 1 THEN z ELSE f[i]]
  <2>7. Sorted(T, g)
    <3>1. f \in [1..n -> rest] /\ \A i, j \in 1..n : i < j => <<f[i], f[j]>> \in R
      BY <2>6
    <3>2. Cardinality(T) = n + 1
      BY <2>5
    <3> HIDE DEF rest
    <3>3. \A i \in 1..n : f[i] \in T /\ <<f[i], z>> \in R
      BY <2>4, <3>1 DEF rest
    <3>4. g \in [1..(n + 1) -> T]
      <4>1. \A i \in 1..(n + 1) : i = n + 1 \/ i \in 1..n
        OBVIOUS
      <4>2. \A i \in 1..(n + 1) : (IF i = n + 1 THEN z ELSE f[i]) \in T
        BY <3>3, <4>1
      <4> QED BY <4>2
    <3>5. ASSUME NEW i \in 1..(n + 1), NEW j \in 1..(n + 1), i < j
          PROVE  <<g[i], g[j]>> \in R
      <4>1. CASE j = n + 1
        BY <3>3, <3>5, <4>1
      <4>2. CASE j # n + 1
        BY <3>1, <3>5, <4>2
      <4> QED BY <4>1, <4>2
    <3> QED BY <3>2, <3>4, <3>5
  <2> HIDE DEF Sorted, g
  <2> QED BY <2>2, <2>7
<1> QED BY <1>3

(* The numbers up to one.                                                  *)
LEMMA Interval ==
  ASSUME NEW n \in Nat
  PROVE  IsFiniteSet(1..n) /\ Cardinality(1..n) = n
BY FS_Interval

Orders(R, S) ==
  /\ \A a \in S : <<a, a>> \notin R
  /\ \A a, b, c \in S : <<a, b>> \in R /\ <<b, c>> \in R => <<a, c>> \in R
  /\ \A a, b \in S : a = b \/ <<a, b>> \in R \/ <<b, a>> \in R

Ordered(R, f, n) == \A i, j \in 1..n : i < j => <<f[i], f[j]>> \in R

(* A function into a set of as many, that puts them in order, has all.     *)
LEMMA SortedIsOnto ==
  ASSUME NEW S, IsFiniteSet(S), NEW n \in Nat, n = Cardinality(S), NEW f \in [1..n -> S],
         NEW R, Orders(R, S), Ordered(R, f, n)
  PROVE  /\ \A i, j \in 1..n : f[i] = f[j] => i = j
         /\ \A a \in S : \E i \in 1..n : f[i] = a
<1>1. ASSUME NEW i \in 1..n, NEW j \in 1..n, f[i] = f[j]
      PROVE  i = j
  <2>1. ~(i < j) /\ ~(j < i)
    BY <1>1 DEF Orders, Ordered
  <2> QED BY <2>1
<1>2. f \in Injection(1..n, S)
  BY <1>1, Zenon DEF Injection, IsInjective
<1>3. Cardinality(1..n) = n /\ IsFiniteSet(1..n)
  BY FS_Interval
<1>4. f \in Surjection(1..n, S)
  BY <1>2, <1>3, FS_Injection
<1> QED BY <1>1, <1>4 DEF Surjection

(* It can be put in order, and all of it then is.                          *)
Sorts(R, S, n) ==
  /\ \E f \in [1..n -> S] : Ordered(R, f, n)
  /\ \A f \in [1..n -> S] : Ordered(R, f, n) =>
       /\ \A a \in S : \E i \in 1..n : f[i] = a
       /\ \A i, j \in 1..n : f[i] = f[j] => i = j

(* An order of a finite set sorts it: ort_parse_close() relies on qsort(). *)
LEMMA Ordering ==
  ASSUME NEW S, IsFiniteSet(S), NEW R, Orders(R, S)
  PROVE  Sorts(R, S, Cardinality(S))
<1>1. PICK n \in Nat : n = Cardinality(S)
  BY FS_CardinalityType
<1>2. \E f \in [1..Cardinality(S) -> S] :
         \A i, j \in 1..Cardinality(S) : i < j => <<f[i], f[j]>> \in R
  <2>1. /\ \A a \in S : <<a, a>> \notin R
        /\ \A a, b, c \in S : <<a, b>> \in R /\ <<b, c>> \in R => <<a, c>> \in R
        /\ \A a, b \in S : a = b \/ <<a, b>> \in R \/ <<b, a>> \in R
    BY Zenon DEF Orders
  <2> QED BY <2>1, SortedExists
<1>3. \E f \in [1..n -> S] : Ordered(R, f, n)
  BY <1>1, <1>2, Zenon DEF Ordered
<1>4. ASSUME NEW f \in [1..n -> S], Ordered(R, f, n)
      PROVE  /\ \A a \in S : \E i \in 1..n : f[i] = a
             /\ \A i, j \in 1..n : f[i] = f[j] => i = j
  BY <1>1, <1>4, SortedIsOnto
<1>5. Sorts(R, S, n)
  BY <1>3, <1>4, Zenon DEF Sorts
<1> QED BY <1>1, <1>5

(* One more number.                                                        *)
LEMMA UpTo ==
  ASSUME NEW n \in Nat
  PROVE  /\ \A i \in 1..(n + 1) : i = n + 1 \/ i \in 1..n
         /\ \A i \in 1..n : i \in 1..(n + 1) /\ i # n + 1
         /\ n + 1 \in 1..(n + 1) /\ n \in Nat
OBVIOUS

(* A stack with one more element.                                          *)
LEMMA Pushed ==
  ASSUME NEW S, NEW s \in Seq(S), NEW a \in S
  PROVE  /\ Append(s, a) \in Seq(S) /\ Len(s) \in Nat
         /\ DOMAIN s = 1..Len(s) /\ DOMAIN Append(s, a) = 1..(Len(s) + 1)
         /\ \A i \in 1..Len(s) : Append(s, a)[i] = s[i]
         /\ Append(s, a)[Len(s) + 1] = a /\ Len(Append(s, a)) = Len(s) + 1
<1>1. Append(s, a) \in Seq(S) /\ Len(Append(s, a)) = Len(s) + 1
  BY AppendProperties
<1>2. DOMAIN Append(s, a) = 1..Len(Append(s, a)) /\ DOMAIN s = 1..Len(s) /\ Len(s) \in Nat
  BY <1>1, LenProperties
<1> QED BY <1>1, <1>2, AppendProperties

(* And with two.                                                           *)
LEMMA PushedTwice ==
  ASSUME NEW S, NEW s \in Seq(S), NEW a \in S, NEW b \in S, NEW n \in Nat, Len(s) = n - 1
  PROVE  /\ Append(Append(s, a), b) \in Seq(S) /\ Len(Append(Append(s, a), b)) = n + 1
         /\ DOMAIN Append(Append(s, a), b) = 1..(n + 1)
         /\ \A i \in 1..(n - 1) : Append(Append(s, a), b)[i] = s[i]
         /\ Append(Append(s, a), b)[n] = a
         /\ Append(Append(s, a), b)[n + 1] = b
<1> PICK t \in Seq(S) : t = Append(s, a)
  BY AppendProperties
<1> PICK w \in Seq(S) : w = Append(t, b)
  BY AppendProperties
<1>1. Len(t) = n /\ t[n] = a /\ \A i \in 1..(n - 1) : t[i] = s[i]
  BY Pushed
<1>2. /\ Len(w) = n + 1 /\ w[n + 1] = b /\ DOMAIN w = 1..(n + 1)
      /\ \A i \in 1..n : w[i] = t[i]
  BY <1>1, Pushed
<1>3. n \in 1..n /\ \A i \in 1..(n - 1) : i \in 1..n
  <2>1. Len(s) \in Nat
    BY LenProperties
  <2> QED BY <2>1
<1>4. w[n] = a /\ \A i \in 1..(n - 1) : w[i] = s[i]
  BY <1>1, <1>2, <1>3
<1> QED BY <1>2, <1>4

(* A stack without its top.                                                *)
LEMMA Popped ==
  ASSUME NEW S, NEW s \in Seq(S), s # <<>>
  PROVE  /\ Len(s) \in Nat \ {0} /\ Last(s) = s[Len(s)] /\ Last(s) \in S
         /\ Front(s) \in Seq(S) /\ Len(Front(s)) = Len(s) - 1
         /\ \A i \in 1..(Len(s) - 1) : Front(s)[i] = s[i]
<1> PICK n \in Nat \ {0} : n = Len(s)
  BY EmptySeq
<1>1. Last(s) = s[n] /\ s[n] \in S
  BY ElementOfSeq DEF Last
<1>2. Front(s) = SubSeq(s, 1, n - 1)
  BY DEF Front
<1>3. \A i \in 1..(n - 1) : s[i] \in S
  BY ElementOfSeq
<1>4. /\ Front(s) \in Seq(S) /\ Len(Front(s)) = n - 1
      /\ \A i \in 1..(n - 1) : Front(s)[i] = s[i]
  <2>1. n - 1 \in Int /\ 1 \in Int
    OBVIOUS
  <2>2. /\ Front(s) \in Seq(S) /\ Len(Front(s)) = IF 1 <= n - 1 THEN (n - 1) - 1 + 1 ELSE 0
        /\ \A i \in 1..((n - 1) - 1 + 1) : Front(s)[i] = s[1 + i - 1]
    BY <1>2, <1>3, <2>1, SubSeqProperties
  <2> QED BY <2>2
<1> QED BY <1>1, <1>4

(* The operators of sequences and functions are known by several names.    *)
LEMMA Named ==
  /\ \A f : A!Range(f) = Range(f) /\ U!Range(f) = Range(f) /\ O!Range(f) = Range(f)
  /\ \A s : A!Last(s) = Last(s) /\ O!Last(s) = Last(s)
  /\ \A s : A!Front(s) = Front(s) /\ O!Front(s) = Front(s)
BY DEF Range, A!Range, U!Range, O!Range, Last, A!Last, O!Last, Front, A!Front, O!Front

(***************************************************************************)
(* Structures and what they contain.                                       *)
(***************************************************************************)
Graph ==
  /\ refs \in Seq(Seq(Structs))
  /\ order \in Seq(Structs) /\ Len(order) = Len(refs) /\ Range(order) = Structs

(* Structures are numbered from 1 and there are finitely many, each        *)
(* declared once.                                                          *)
LEMMA GraphTyped ==
  ASSUME Graph
  PROVE  /\ Len(refs) \in Nat /\ Structs = 1..Len(refs) /\ 0 \notin Structs
         /\ A!Structs = Structs /\ O!Structs = Structs
         /\ IsFiniteSet(Structs) /\ Cardinality(Structs) = Len(refs)
         /\ \A p \in Structs : /\ Len(refs[p]) \in Nat /\ DOMAIN refs[p] = 1..Len(refs[p])
                               /\ \A k \in DOMAIN refs[p] : refs[p][k] \in Structs
                               /\ Range(refs[p]) \subseteq Structs
         /\ DOMAIN order = 1..Len(refs)
         /\ \A i \in 1..Len(refs) : order[i] \in Structs
         /\ \A p \in Structs : \E i \in 1..Len(refs) : order[i] = p
         /\ \A i, j \in 1..Len(refs) : order[i] = order[j] => i = j
<1> PICK n \in Nat : n = Len(refs)
  BY LenProperties DEF Graph
<1>1. Structs = 1..n /\ A!Structs = Structs /\ O!Structs = Structs
  BY LenProperties DEF Graph, Structs, A!Structs, O!Structs
<1>2. IsFiniteSet(Structs) /\ Cardinality(Structs) = n
  BY <1>1, Interval
<1>3. ASSUME NEW p \in Structs
      PROVE  /\ Len(refs[p]) \in Nat /\ DOMAIN refs[p] = 1..Len(refs[p])
             /\ \A k \in DOMAIN refs[p] : refs[p][k] \in Structs
             /\ Range(refs[p]) \subseteq Structs
  <2>1. refs[p] \in Seq(Structs)
    BY <1>1, ElementOfSeq DEF Graph
  <2>2. /\ Len(refs[p]) \in Nat /\ DOMAIN refs[p] = 1..Len(refs[p])
        /\ \A k \in DOMAIN refs[p] : refs[p][k] \in Structs
    BY <2>1, LenProperties, ElementOfSeq
  <2> QED BY <2>2 DEF Range
<1>4. order \in [1..n -> Structs] /\ DOMAIN order = 1..n
  BY LenProperties DEF Graph
<1>5. \A p \in Structs : \E i \in 1..n : order[i] = p
  BY <1>4 DEF Graph, Range
<1>6. \A i, j \in 1..n : order[i] = order[j] => i = j
  <2>1. order \in Surjection(1..n, Structs)
    BY <1>4, <1>5 DEF Surjection
  <2>2. IsFiniteSet(1..n) /\ Cardinality(1..n) = n
    BY Interval
  <2>3. order \in Injection(1..n, Structs)
    BY <1>2, <2>1, <2>2, FS_Surjection
  <2> QED BY <1>4, <2>3 DEF Injection, IsInjective
<1>7. 0 \notin 1..n
  OBVIOUS
<1> QED BY <1>1, <1>2, <1>3, <1>4, <1>5, <1>6, <1>7

(* The fields of a structure are numbered, and refer to structures.        *)
LEMMA FieldTyped ==
  ASSUME Graph, NEW p \in Structs
  PROVE  /\ \A f \in DOMAIN refs[p] : /\ f \in Nat \ {0} /\ 1 <= f /\ f <= Len(refs[p])
                                     /\ refs[p][f] \in Structs /\ refs[p][f] \in Range(refs[p])
         /\ \A f \in Nat \ {0} : f <= Len(refs[p]) => f \in DOMAIN refs[p]
         /\ p # 0 /\ Len(refs[p]) \in Nat
<1>1. DOMAIN refs[p] = 1..Len(refs[p]) /\ Len(refs[p]) \in Nat /\ p # 0
  BY GraphTyped
<1>2. \A f \in DOMAIN refs[p] : refs[p][f] \in Structs /\ refs[p][f] \in Range(refs[p])
  BY GraphTyped DEF Range
<1> QED BY <1>1, <1>2

Below(p) == { q \in Structs : A!Reaches(p, q) }

(* What a structure contains are the targets of its fields and what these  *)
(* contain.                                                                *)
LEMMA BelowProperties ==
  ASSUME Graph, NEW p \in Structs
  PROVE  /\ \A q \in Structs : A!Reaches(p, q) <=> q \in Below(p)
         /\ \A k \in DOMAIN refs[p] : refs[p][k] \in Below(p)
         /\ \A q \in Below(p) : Range(refs[q]) \subseteq Below(p)
         /\ \A S \in SUBSET Structs :
              Range(refs[p]) \subseteq S /\ (\A s \in S : Range(refs[s]) \subseteq S)
                => Below(p) \subseteq S
         /\ \A q \in Below(p) : Below(q) \subseteq Below(p)
         /\ IsFiniteSet(Below(p)) /\ Cardinality(Below(p)) \in 0..Len(refs)
<1>1. \A q \in Structs : A!Reaches(p, q) <=> q \in Below(p)
  BY DEF Below
<1>2. \A S \in SUBSET Structs :
        Range(refs[p]) \subseteq S /\ (\A s \in S : Range(refs[s]) \subseteq S)
          => Below(p) \subseteq S
  BY GraphTyped, Named DEF Below, A!Reaches
<1>3. ASSUME NEW q \in Below(p), NEW t \in Range(refs[q]) PROVE t \in Below(p)
  <2>1. t \in Structs
    BY GraphTyped DEF Below
  <2>2. A!Reaches(p, t)
    BY <1>3, Named DEF Below, A!Reaches
  <2> QED BY <2>1, <2>2 DEF Below
<1>4. ASSUME NEW k \in DOMAIN refs[p] PROVE refs[p][k] \in Below(p)
  <2>1. refs[p][k] \in Range(refs[p]) /\ refs[p][k] \in Structs
    BY GraphTyped DEF Range
  <2> QED BY <2>1, Named DEF Below, A!Reaches
<1>5. ASSUME NEW q \in Below(p) PROVE Below(q) \subseteq Below(p)
  <2>1. Below(p) \in SUBSET Structs /\ q \in Structs
    BY DEF Below
  <2>2. \A s \in Below(p) : Range(refs[s]) \subseteq Below(p)
    BY <1>3
  <2>3. ASSUME NEW t \in Below(q) PROVE t \in Below(p)
    <3>1. \A S \in SUBSET Structs :
            Range(refs[q]) \subseteq S /\ (\A s \in S : Range(refs[s]) \subseteq S) => t \in S
      BY GraphTyped, Named DEF Below, A!Reaches
    <3>2. Range(refs[q]) \subseteq Below(p)
      BY <2>2
    <3> QED BY <2>1, <2>2, <3>1, <3>2
  <2> QED BY <2>3
<1>6. IsFiniteSet(Below(p)) /\ Cardinality(Below(p)) \in 0..Len(refs)
  <2>1. Below(p) \in SUBSET Structs
    BY DEF Below
  <2>2. IsFiniteSet(Structs) /\ Cardinality(Structs) = Len(refs)
    BY GraphTyped
  <2>3. IsFiniteSet(Below(p)) /\ Cardinality(Below(p)) <= Len(refs)
    BY <2>1, <2>2, FS_Subset
  <2> QED BY <2>3, GraphTyped, FS_CardinalityType
<1> QED BY <1>1, <1>2, <1>3, <1>4, <1>5, <1>6

(***************************************************************************)
(* Where a chain of fields ends: A!End is a recursive function, which      *)
(* there is, and which one longer chain continues.                         *)
(***************************************************************************)
Step(p, c, at, k) ==
  IF k = 0 THEN p
  ELSE IF at[k - 1] # 0 /\ c[k] \in DOMAIN refs[at[k - 1]] THEN refs[at[k - 1]][c[k]] ELSE 0
Passes(p, c, n, at) == at = [k \in 0..n |-> Step(p, c, at, k)]

(* The structures that a chain passes: a function that is defined by       *)
(* recursion over the chain.                                               *)
LEMMA PassesExists ==
  ASSUME NEW p, NEW c, NEW n \in Nat
  PROVE  \E at : Passes(p, c, n, at)
<1> DEFINE Bad == { m \in Nat : ~\E at : Passes(p, c, m, at) }
<1>1. SUFFICES ASSUME Bad # {} PROVE FALSE
  OBVIOUS
<1>2. PICK m \in Bad : \A l \in Bad : m <= l
  <2> Bad \in SUBSET Nat
    OBVIOUS
  <2> HIDE DEF Bad
  <2> QED BY <1>1, Smallest
<1>3. m \in Nat /\ ~\E at : Passes(p, c, m, at)
  OBVIOUS
<1>4. CASE m = 0
  <2> DEFINE at == [k \in 0..0 |-> p]
  <2>1. Passes(p, c, 0, at)
    BY DEF Passes, Step
  <2> QED BY <1>3, <1>4, <2>1
<1>5. CASE m # 0
  <2>1. m - 1 \in Nat /\ ~(m <= m - 1)
    BY <1>3, <1>5
  <2>2. PICK before : Passes(p, c, m - 1, before)
    BY <1>2, <2>1
  <2> DEFINE at == [k \in 0..m |-> IF k = m THEN Step(p, c, before, m) ELSE before[k]]
  <2>3. \A k \in 0..(m - 1) : before[k] = Step(p, c, before, k)
    BY <2>2 DEF Passes
  <2>4. \A k \in 0..m : k # 0 => k - 1 \in 0..(m - 1) /\ k - 1 \in 0..m /\ k - 1 # m
    BY <1>3
  <2>5. \A k \in 0..m : k # m => k \in 0..(m - 1)
    BY <1>3
  <2>6. \A k \in 0..m : k # 0 => at[k - 1] = before[k - 1]
    BY <2>4
  <2>7. \A k \in 0..m : Step(p, c, at, k) = Step(p, c, before, k)
    BY <2>6 DEF Step
  <2>8. \A k \in 0..m : at[k] = Step(p, c, at, k)
    BY <2>3, <2>5, <2>7
  <2>9. Passes(p, c, m, at)
    BY <2>8 DEF Passes
  <2> QED BY <1>3, <2>9
<1> QED BY <1>4, <1>5

(* The end of a chain is the last that it passes.                          *)
LEMMA EndPasses ==
  ASSUME NEW p, NEW c, Len(c) \in Nat
  PROVE  \E at : Passes(p, c, Len(c), at) /\ A!End(p, c) = at[Len(c)]
<1>1. Passes(p, c, Len(c), CHOOSE at : Passes(p, c, Len(c), at))
  BY PassesExists
<1>2. A!End(p, c) = (CHOOSE at : Passes(p, c, Len(c), at))[Len(c)]
  BY Zenon DEF A!End, Passes, Step
<1> QED BY <1>1, <1>2

(* An empty chain ends where it starts; a longer one ends at the target of *)
(* its last field, if there is such a field.                               *)
LEMMA EndProperties ==
  ASSUME Graph, NEW p \in Structs
  PROVE  /\ A!End(p, <<>>) = p
         /\ \A c \in Seq(Nat), f \in Nat :
              A!End(p, Append(c, f)) =
                IF A!End(p, c) # 0 /\ f \in DOMAIN refs[A!End(p, c)]
                THEN refs[A!End(p, c)][f] ELSE 0
         /\ \A c \in Seq(Nat) : A!End(p, c) # 0 => A!End(p, c) \in Structs
<1>1. A!End(p, <<>>) = p
  <2>1. Len(<<>>) = 0
    OBVIOUS
  <2>2. PICK at : Passes(p, <<>>, 0, at) /\ A!End(p, <<>>) = at[0]
    BY <2>1, EndPasses
  <2>3. at[0] = Step(p, <<>>, at, 0)
    BY <2>2 DEF Passes
  <2> QED BY <2>2, <2>3 DEF Step
<1>2. ASSUME NEW c \in Seq(Nat), NEW f \in Nat
      PROVE  A!End(p, Append(c, f)) =
               IF A!End(p, c) # 0 /\ f \in DOMAIN refs[A!End(p, c)]
               THEN refs[A!End(p, c)][f] ELSE 0
  <2> PICK n \in Nat : n = Len(c)
    BY LenProperties
  <2> PICK d \in Seq(Nat) : d = Append(c, f)
    BY AppendProperties
  <2>1. Len(d) = n + 1 /\ d[n + 1] = f /\ \A k \in 1..n : d[k] = c[k]
    BY AppendProperties
  <2>2. PICK v : Passes(p, c, n, v) /\ A!End(p, c) = v[n]
    BY EndPasses
  <2>3. PICK w : Passes(p, d, n + 1, w) /\ A!End(p, d) = w[n + 1]
    <3>1. Len(d) \in Nat
      BY <2>1
    <3> QED BY <2>1, <3>1, EndPasses
  <2>4. /\ \A k \in 0..n : v[k] = Step(p, c, v, k)
        /\ \A k \in 0..(n + 1) : w[k] = Step(p, d, w, k)
    BY <2>2, <2>3 DEF Passes
  <2>5. \A k \in 0..n : v[k] = w[k]
    <3> DEFINE Bad == { k \in 0..n : v[k] # w[k] }
    <3>1. SUFFICES ASSUME Bad # {} PROVE FALSE
      OBVIOUS
    <3>2. PICK k \in Bad : \A l \in Bad : k <= l
      <4> Bad \in SUBSET Nat
        OBVIOUS
      <4> HIDE DEF Bad
      <4> QED BY <3>1, Smallest
    <3>3. k \in 0..n /\ v[k] # w[k] /\ k \in 0..(n + 1)
      OBVIOUS
    <3>4. CASE k = 0
      BY <2>4, <3>3, <3>4 DEF Step
    <3>5. CASE k # 0
      <4>1. k - 1 \in 0..n /\ ~(k <= k - 1) /\ k \in 1..n
        BY <3>3, <3>5
      <4>2. v[k - 1] = w[k - 1]
        BY <3>2, <4>1
      <4>3. Step(p, c, v, k) = Step(p, d, w, k)
        BY <2>1, <4>1, <4>2 DEF Step
      <4> QED BY <2>4, <3>3, <4>3
    <3> QED BY <3>4, <3>5
  <2>6. w[n + 1] = Step(p, d, w, n + 1)
    BY <2>4
  <2>7. n + 1 # 0 /\ (n + 1) - 1 = n /\ w[n] = A!End(p, c)
    BY <2>2, <2>5
  <2>8. Step(p, d, w, n + 1) =
          IF w[n] # 0 /\ f \in DOMAIN refs[w[n]] THEN refs[w[n]][f] ELSE 0
    BY <2>1, <2>7 DEF Step
  <2> QED BY <2>3, <2>6, <2>7, <2>8
<1>3. ASSUME NEW c \in Seq(Nat), A!End(p, c) # 0
      PROVE  A!End(p, c) \in Structs
  <2> DEFINE K == { d \in Seq(Nat) : A!End(p, d) \notin Structs \cup {0} }
  <2>1. <<>> \notin K
    BY <1>1
  <2>2. ASSUME NEW d \in Seq(Nat), NEW f \in Nat, Append(d, f) \in K
        PROVE  d \in K
    <3>1. A!End(p, Append(d, f)) \notin Structs \cup {0}
      BY <2>2
    <3>2. /\ A!End(p, d) # 0 /\ f \in DOMAIN refs[A!End(p, d)]
          /\ A!End(p, Append(d, f)) = refs[A!End(p, d)][f]
      BY <1>2, <3>1
    <3>3. A!End(p, d) \notin Structs
      BY <3>1, <3>2, GraphTyped
    <3> QED BY <3>2, <3>3
  <2>3. K = {}
    <3> K \in SUBSET Seq(Nat)
      OBVIOUS
    <3> HIDE DEF K
    <3> QED BY <2>1, <2>2, NoSequence
  <2> QED BY <1>3, <2>3
<1> QED BY <1>1, <1>2, <1>3

(***************************************************************************)
(* Aliases.  Of the chains of a structure, each continues one there is,    *)
(* and none comes back to the structure.  They are all there are, once the *)
(* calls have returned: what is missing is behind a call.                  *)
(***************************************************************************)
EntryType == [chain : Seq(Nat), alias : Seq(Nat)]
CallType == [at : Structs, field : Nat \ {0}, chain : Seq(Nat)]

Chains(p) == { aq[p][k].chain : k \in DOMAIN aq[p] }
Walked(p) == {<<>>} \cup Chains(p)

Continues(p) ==
  \A chain \in Chains(p) :
    \E c \in Walked(p), f \in Nat :
      /\ chain = Append(c, f) /\ A!End(p, c) # 0 /\ f \in DOMAIN refs[A!End(p, c)]
      /\ A!End(p, chain) # p /\ A!End(p, chain) # 0

Follows(p, c, f) == refs[A!End(p, c)][f] # p /\ Append(c, f) \in Chains(p)
Complete(p) == \A c \in Walked(p) : \A f \in DOMAIN refs[A!End(p, c)] : Follows(p, c, f)

Behind(c, f) == \E i \in DOMAIN stack : stack[i].chain = c /\ stack[i].field <= f
Underway(p) ==
  \A c \in Walked(p) : \A f \in DOMAIN refs[A!End(p, c)] : Follows(p, c, f) \/ Behind(c, f)

Numbered(p) ==
  \E num \in [DOMAIN aq[p] -> Nat] :
    /\ \A k \in DOMAIN aq[p] : num[k] < offs /\ aq[p][k].alias = A!Alias(num[k])
    /\ \A j, k \in DOMAIN aq[p] : j < k => num[j] < num[k]

Calling(p) ==
  /\ Underway(p)
  /\ \A i \in DOMAIN stack :
       /\ stack[i].chain \in Walked(p) /\ A!End(p, stack[i].chain) = stack[i].at
       /\ stack[i].at = p \/ stack[i].at \in Below(p)

Creating ==
  /\ orig \in 0..Len(refs) /\ (orig = 0 => stack = <<>>)
  /\ \A i \in 1..Len(refs), p \in Structs :
       order[i] = p =>
         /\ i > orig => aq[p] = <<>>
         /\ i < orig \/ (i = orig /\ stack = <<>>) => Complete(p)
         /\ i = orig /\ stack # <<>> => Calling(p)

AliasInv ==
  /\ Graph /\ offs \in Nat
  /\ aq \in [Structs -> Seq(EntryType)] /\ stack \in Seq(CallType)
  /\ \A p \in Structs : Continues(p) /\ Numbered(p)
  /\ phase \in {"create", "accepted", "recursive", "too many"}
  /\ phase = "create" => Creating
  /\ phase = "accepted" => \A p \in Structs : Complete(p)
  /\ phase = "recursive" => \E p \in Structs : order[orig] = p /\ A!Reaches(p, p)

(* At first there are no aliases.                                          *)
LEMMA AliasesStart ==
  ASSUME Graph, A!Start
  PROVE  AliasInv
<1>1. /\ orig = 0 /\ stack = <<>> /\ offs = 0 /\ phase = "create"
      /\ aq = [p \in Structs |-> <<>>]
  BY GraphTyped DEF A!Start
<1>2. \A p \in Structs : aq[p] = <<>> /\ DOMAIN aq[p] = {}
  BY <1>1
<1>3. \A p \in Structs : Continues(p) /\ Numbered(p)
  <2> SUFFICES ASSUME NEW p \in Structs PROVE Continues(p) /\ Numbered(p)
    OBVIOUS
  <2>1. Continues(p)
    BY <1>2 DEF Continues, Chains
  <2>2. [k \in {} |-> 0] \in [DOMAIN aq[p] -> Nat]
    BY <1>2
  <2>3. Numbered(p)
    BY <1>2, <2>2 DEF Numbered
  <2> QED BY <2>1, <2>3
<1>4. aq \in [Structs -> Seq(EntryType)] /\ stack \in Seq(CallType)
  BY <1>1
<1>5. Creating
  <2>1. 0 \in 0..Len(refs)
    BY GraphTyped
  <2>2. \A i \in 1..Len(refs) : ~(i < orig) /\ i # orig
    BY <1>1
  <2> QED BY <1>1, <1>2, <2>1, <2>2 DEF Creating
<1> QED BY <1>1, <1>3, <1>4, <1>5 DEF AliasInv

(***************************************************************************)
(* The letters of an alias.                                                *)
(***************************************************************************)
(* What is divided is what was multiplied, and the rest.                   *)
LEMMA Division ==
  ASSUME NEW n \in Nat, NEW d \in Nat \ {0}
  PROVE  /\ n \div d \in Nat /\ n % d \in 0..(d - 1)
         /\ n = (d * (n \div d)) + (n % d)
OBVIOUS

(* A number below a product, divided by one factor, is below the other.    *)
LEMMA DivisionBound ==
  ASSUME NEW n \in Nat, NEW d \in Nat \ {0}, NEW m \in Nat, n < d * m
  PROVE  n \div d < m
<1> PICK q \in Nat : q = n \div d
  BY Division
<1>1. d * q <= n
  BY Division
<1>2. d * q < d * m
  BY <1>1
<1> QED BY <1>2

(* A string without a byte zero has no end before its last byte.           *)
LEMMA Zero ==
  ASSUME NEW q \in Seq(Nat)
  PROVE  /\ A!UntilZero(q) \in 0..Len(q)
         /\ (\A i \in 1..Len(q) : q[i] # 0) => A!UntilZero(q) = 0
<1> DEFINE I == { i \in 1..Len(q) : q[i] = 0 }
<1>1. A!UntilZero(q) = IF I # {} THEN A!Min(I) ELSE 0
  BY DEF A!UntilZero, A!SelectInSeq
<1>2. A!Min(I) = CHOOSE x \in I : \A y \in I : x <= y
  BY DEF A!Min
<1>3. I \in SUBSET Nat
  BY LenProperties
<1>4. ASSUME I # {} PROVE A!Min(I) \in I
  <2> HIDE DEF I
  <2>1. \E x \in I : \A y \in I : x <= y
    BY <1>3, <1>4, Smallest
  <2> QED BY <1>2, <2>1
<1>5. Len(q) \in Nat
  BY LenProperties
<1> QED BY <1>1, <1>4, <1>5

(* A letter is a byte.                                                     *)
LEMMA LetterTyped ==
  ASSUME NEW n \in Nat
  PROVE  A!Letter(n) \in 0..255
BY Division DEF A!Letter

(* It is not taken modulo 256 while it is small.                           *)
LEMMA LetterSmall ==
  ASSUME NEW n \in 0..158
  PROVE  A!Letter(n) = n + 97
BY DEF A!Letter

(* An alias is a string of bytes.                                          *)
LEMMA AliasTyped ==
  ASSUME NEW n \in Nat
  PROVE  A!Digits(n) \in Seq(Nat) /\ A!Alias(n) \in Seq(Nat)
<1>1. Letters \in Nat \ {0} /\ Letters * Letters \in Nat \ {0}
  BY ConstantsAssumption
<1>2. n \div (Letters * Letters) \in Nat /\ n \div Letters \in Nat /\ n % Letters \in Nat
  BY <1>1, Division
<1>3. \A m \in Nat : A!Letter(m) \in Nat
  BY LetterTyped
<1>4. PICK h \in Nat, m \in Nat, l \in Nat, o \in Nat :
        /\ h = A!Letter(n \div (Letters * Letters)) /\ m = A!Letter(n \div Letters)
        /\ l = A!Letter(n % Letters) /\ o = A!Letter(n)
  BY <1>2, <1>3, Zenon
<1>5. \/ A!Digits(n) = <<h, m, l>> \/ A!Digits(n) = <<m, l>> \/ A!Digits(n) = <<o>>
  BY <1>4, Zenon DEF A!Digits
<1>6. PICK d \in Seq(Nat) : d = A!Digits(n)
  <2>1. <<h, m, l>> \in Seq(Nat) /\ <<m, l>> \in Seq(Nat) /\ <<o>> \in Seq(Nat)
    OBVIOUS
  <2> QED BY <1>5, <2>1, Zenon
<1>7. CASE A!UntilZero(d) = 0
  BY <1>6, <1>7 DEF A!Alias
<1>8. CASE A!UntilZero(d) # 0
  <2> PICK z \in 1..Len(d) : z = A!UntilZero(d)
    BY <1>8, Zero
  <2>1. SubSeq(d, 1, z - 1) \in Seq(Nat)
    BY SubSeqProperties, LenProperties
  <2> QED BY <1>6, <1>8, <2>1 DEF A!Alias
<1> QED BY <1>7, <1>8

Spelled(x, h, m, l, o) ==
  x = <<h + 97, m + 97, l + 97>> \/ x = <<m + 97, l + 97>> \/ x = <<o + 97>>

(* Sequences of up to three numbers, of which one follows from another.    *)
LEMMA FormsApart ==
  ASSUME NEW x, NEW h \in Nat, NEW m \in Nat, NEW l \in Nat, NEW o \in Nat,
         NEW h2 \in Nat, NEW m2 \in Nat, NEW l2 \in Nat, NEW o2 \in Nat,
         Spelled(x, h, m, l, o), Spelled(x, h2, m2, l2, o2)
  PROVE  (m = m2 /\ l = l2) \/ o = o2
<1>1. CASE x = <<h + 97, m + 97, l + 97>>
  <2>1. Len(x) = 3 /\ x[2] = m + 97 /\ x[3] = l + 97
    BY <1>1
  <2>2. x = <<h2 + 97, m2 + 97, l2 + 97>>
    BY <2>1 DEF Spelled
  <2>3. x[2] = m2 + 97 /\ x[3] = l2 + 97
    BY <2>2
  <2> QED BY <2>1, <2>3
<1>2. CASE x = <<m + 97, l + 97>>
  <2>1. Len(x) = 2 /\ x[1] = m + 97 /\ x[2] = l + 97
    BY <1>2
  <2>2. x = <<m2 + 97, l2 + 97>>
    BY <2>1 DEF Spelled
  <2>3. x[1] = m2 + 97 /\ x[2] = l2 + 97
    BY <2>2
  <2> QED BY <2>1, <2>3
<1>3. CASE x = <<o + 97>>
  <2>1. Len(x) = 1 /\ x[1] = o + 97
    BY <1>3
  <2>2. x = <<o2 + 97>>
    BY <2>1 DEF Spelled
  <2>3. x[1] = o2 + 97
    BY <2>2
  <2> QED BY <2>1, <2>3
<1> QED BY <1>1, <1>2, <1>3 DEF Spelled

(* Up to the number where a middle letter would be zero, aliases differ.   *)
LEMMA AliasInjective ==
  ASSUME NEW a \in Nat, NEW b \in Nat, a < Letters * 159, b < Letters * 159,
         A!Alias(a) = A!Alias(b)
  PROVE  a = b
<1>1. Letters \in 1..26 /\ Letters \in Nat \ {0} /\ Letters * Letters \in Nat \ {0}
  BY ConstantsAssumption
<1> DEFINE Bound(n) == n < Letters * 159
           High(n) == n \div (Letters * Letters)
           Mid(n) == n \div Letters
           Low(n) == n % Letters
<1>2. ASSUME NEW n \in Nat, Bound(n)
      PROVE  /\ Mid(n) \in 0..158 /\ Low(n) \in 0..158 /\ n = (Letters * Mid(n)) + Low(n)
             /\ High(n) \in 0..158 /\ (n < Letters => n \in 0..158)
  <2>1. Mid(n) \in Nat /\ Mid(n) < 159
    BY <1>1, <1>2, Division, DivisionBound
  <2>2. Low(n) \in 0..158 /\ n = (Letters * Mid(n)) + Low(n)
    BY <1>1, Division
  <2>3. High(n) \in Nat /\ High(n) < 159
    <3>1. Letters * 159 <= (Letters * Letters) * 159
      BY <1>1
    <3>2. n < (Letters * Letters) * 159
      <4> PICK l \in Nat, s \in Nat : l = Letters * 159 /\ s = (Letters * Letters) * 159
        BY <1>1
      <4> QED BY <1>2, <3>1
    <3> PICK s \in Nat \ {0} : s = Letters * Letters
      BY <1>1
    <3> QED BY <3>2, Division, DivisionBound
  <2>4. n < Letters => n \in 0..158
    BY <1>1
  <2> QED BY <2>1, <2>2, <2>3, <2>4
<1>3. ASSUME NEW n \in Nat, Bound(n)
      PROVE  A!Alias(n) =
               IF n >= Letters * Letters THEN <<High(n) + 97, Mid(n) + 97, Low(n) + 97>>
               ELSE IF n >= Letters THEN <<Mid(n) + 97, Low(n) + 97>>
               ELSE <<n + 97>>
  <2>1. PICK h \in 0..158, m \in 0..158, l \in 0..158 : h = High(n) /\ m = Mid(n) /\ l = Low(n)
    BY <1>2, <1>3
  <2>2. A!Letter(h) = h + 97 /\ A!Letter(m) = m + 97 /\ A!Letter(l) = l + 97
    BY LetterSmall
  <2>3. ~(n >= Letters) => A!Letter(n) = n + 97 /\ n \in 0..158
    <3> SUFFICES ASSUME ~(n >= Letters) PROVE A!Letter(n) = n + 97 /\ n \in 0..158
      OBVIOUS
    <3>1. n \in 0..158
      BY <1>1
    <3> QED BY <3>1, LetterSmall
  <2>4. A!Digits(n) = IF n >= Letters * Letters THEN <<h + 97, m + 97, l + 97>>
                      ELSE IF n >= Letters THEN <<m + 97, l + 97>>
                      ELSE <<n + 97>>
    BY <2>1, <2>2, <2>3 DEF A!Digits
  <2>5. ~(n >= Letters * Letters) /\ ~(n >= Letters) => n \in 0..158
    BY <2>3
  <2>6. A!Digits(n) \in Seq(Nat) /\ \A i \in 1..Len(A!Digits(n)) : A!Digits(n)[i] # 0
    <3>1. CASE n >= Letters * Letters
      BY <2>4, <3>1
    <3>2. CASE ~(n >= Letters * Letters) /\ n >= Letters
      BY <2>4, <3>2
    <3>3. CASE ~(n >= Letters * Letters) /\ ~(n >= Letters)
      BY <2>4, <2>5, <3>3
    <3> QED BY <3>1, <3>2, <3>3
  <2>7. A!Alias(n) = A!Digits(n)
    <3> PICK d \in Seq(Nat) : d = A!Digits(n)
      BY <2>6
    <3> QED BY <2>6, Zero DEF A!Alias
  <2> QED BY <2>1, <2>4, <2>7
<1> PICK ha \in 0..158, hb \in 0..158, ma \in 0..158, mb \in 0..158, la \in 0..158, lb \in 0..158 :
      ha = High(a) /\ hb = High(b) /\ ma = Mid(a) /\ mb = Mid(b) /\ la = Low(a) /\ lb = Low(b)
  BY <1>2
<1>4. a = (Letters * ma) + la /\ b = (Letters * mb) + lb
  BY <1>2
<1> DEFINE Form(n, h, m, l) ==
        IF n >= Letters * Letters THEN <<h + 97, m + 97, l + 97>>
        ELSE IF n >= Letters THEN <<m + 97, l + 97>>
        ELSE <<n + 97>>
<1>5. A!Alias(a) = Form(a, ha, ma, la) /\ A!Alias(b) = Form(b, hb, mb, lb)
  BY <1>3
<1> HIDE DEF High, Mid, Low
<1>6. /\ a >= Letters * Letters => a >= Letters
      /\ b >= Letters * Letters => b >= Letters
  BY <1>1
<1>7. a \in Nat /\ b \in Nat /\ Letters \in Nat
  BY <1>1
<1> HIDE DEF High, Mid, Low
<1> PICK x : x = A!Alias(a)
  OBVIOUS
<1>8. (ma = mb /\ la = lb) \/ a = b
  <2>1. Spelled(x, ha, ma, la, a) /\ Spelled(x, hb, mb, lb, b)
    BY <1>5, Zenon DEF Spelled
  <2>2. /\ ha \in Nat /\ ma \in Nat /\ la \in Nat /\ a \in Nat
        /\ hb \in Nat /\ mb \in Nat /\ lb \in Nat /\ b \in Nat
    OBVIOUS
  <2> QED BY <2>1, <2>2, FormsApart
<1> QED BY <1>4, <1>8

(***************************************************************************)
(* Steps that create aliases.                                              *)
(***************************************************************************)
LEMMA SameEnds ==
  ASSUME UNCHANGED refs
  PROVE  /\ \A p, c : A!End(p, c)' = A!End(p, c)
         /\ Structs' = Structs
         /\ \A p, q : A!Reaches(p, q)' = A!Reaches(p, q)
         /\ \A p : Below(p)' = Below(p)
<1>1. Structs' = Structs /\ A!Structs' = A!Structs
  BY DEF Structs, A!Structs
<1>2. \A p, c : A!End(p, c)' = A!End(p, c)
  BY DEF A!End
<1>3. \A p, q : A!Reaches(p, q)' = A!Reaches(p, q)
  BY <1>1, Zenon DEF A!Reaches
<1> QED BY <1>1, <1>2, <1>3, Zenon DEF Below

(* Steps of other parts keep what is said of aliases.                      *)
LEMMA SameAliases ==
  ASSUME AliasInv, UNCHANGED <<refs, order, AliasVars>>
  PROVE  AliasInv'
<1>1. /\ refs' = refs /\ order' = order /\ orig' = orig /\ stack' = stack /\ offs' = offs
      /\ aq' = aq /\ phase' = phase
  BY DEF AliasVars
<1>2. Graph' /\ offs' \in Nat /\ aq' \in [Structs -> Seq(EntryType)]' /\ stack' \in Seq(CallType)'
  BY <1>1, SameEnds DEF AliasInv, Graph, CallType, EntryType
<1>3. \A p : Chains(p)' = Chains(p) /\ Walked(p)' = Walked(p)
  BY <1>1, Zenon DEF Chains, Walked
<1>4. \A p, c, f : Follows(p, c, f)' = Follows(p, c, f)
  BY <1>1, <1>3, SameEnds, Zenon DEF Follows
<1>5. \A c, f : Behind(c, f)' = Behind(c, f)
  BY <1>1, Zenon DEF Behind
<1>6. \A p : Numbered(p)' = Numbered(p)
  BY <1>1 DEF Numbered
<1>7. \A p : Continues(p)' = Continues(p)
  BY <1>1, <1>3, SameEnds DEF Continues
<1>8. \A p : Complete(p)' = Complete(p)
  BY <1>1, <1>3, <1>4, SameEnds DEF Complete
<1>9. \A p : Calling(p)' = Calling(p)
  BY <1>1, <1>3, <1>4, <1>5, SameEnds DEF Calling, Underway
<1>10. Creating' = Creating
  BY <1>1, <1>8, <1>9, SameEnds DEF Creating
<1>11. \A p : A!Reaches(p, p)' = A!Reaches(p, p)
  BY SameEnds, <1>1
<1> QED BY <1>1, <1>2, <1>6, <1>7, <1>8, <1>10, <1>11, SameEnds DEF AliasInv

(* What is said of one structure depends on its chains alone.              *)
LEMMA SameChains ==
  ASSUME UNCHANGED refs, NEW p, Chains(p)' = Chains(p)
  PROVE  /\ Walked(p)' = Walked(p)
         /\ Continues(p)' = Continues(p) /\ Complete(p)' = Complete(p)
<1>1. Walked(p)' = Walked(p)
  BY Zenon DEF Walked
<1>2. \A c, f : Follows(p, c, f)' = Follows(p, c, f)
  BY SameEnds, Zenon DEF Follows
<1>3. Continues(p)' = Continues(p)
  BY <1>1, SameEnds DEF Continues
<1>4. Complete(p)' = Complete(p)
  BY <1>1, <1>2, SameEnds DEF Complete
<1> QED BY <1>1, <1>3, <1>4

(* A longer queue of aliases.                                              *)
LEMMA MoreNumbered ==
  ASSUME NEW p, Numbered(p), offs \in Nat, offs' = offs + 1,
         NEW m \in Nat, DOMAIN aq[p] = 1..m
  PROVE  /\ aq'[p] = aq[p] => Numbered(p)'
         /\ /\ DOMAIN aq'[p] = 1..(m + 1) /\ \A k \in 1..m : aq'[p][k] = aq[p][k]
            /\ aq'[p][m + 1].alias = A!Alias(offs)
            => Numbered(p)'
<1> PICK o \in Nat : o = offs
  OBVIOUS
<1>1. PICK num : /\ num \in [1..m -> Nat]
                 /\ \A k \in 1..m : num[k] < o /\ aq[p][k].alias = A!Alias(num[k])
                 /\ \A j, k \in 1..m : j < k => num[j] < num[k]
  BY Zenon DEF Numbered
<1>2. ASSUME aq'[p] = aq[p] PROVE Numbered(p)'
  <2>1. \A k \in 1..m : num[k] < o + 1
    BY <1>1
  <2> QED BY <1>1, <1>2, <2>1, Zenon DEF Numbered
<1>3. ASSUME DOMAIN aq'[p] = 1..(m + 1), \A k \in 1..m : aq'[p][k] = aq[p][k],
             aq'[p][m + 1].alias = A!Alias(o)
      PROVE  Numbered(p)'
  <2> PICK new : new = [k \in 1..(m + 1) |-> IF k = m + 1 THEN o ELSE num[k]]
    OBVIOUS
  <2>1. new[m + 1] = o /\ \A k \in 1..m : new[k] = num[k] /\ num[k] \in Nat /\ num[k] < o
    BY <1>1, UpTo
  <2>2. new \in [1..(m + 1) -> Nat]
    BY <1>1, UpTo
  <2>3. ASSUME NEW k \in 1..(m + 1) PROVE new[k] < o + 1 /\ aq'[p][k].alias = A!Alias(new[k])
    <3>1. CASE k = m + 1
      BY <1>3, <2>1, <3>1
    <3>2. CASE k \in 1..m
      <4>1. new[k] = num[k] /\ aq'[p][k] = aq[p][k]
        BY <1>3, <2>1, <3>2
      <4>2. new[k] < o + 1
        <5>1. num[k] \in Nat /\ num[k] < o /\ o \in Nat
          BY <2>1, <3>2
        <5> QED BY <4>1, <5>1
      <4>3. aq[p][k].alias = A!Alias(num[k])
        BY <1>1, <3>2
      <4> QED BY <4>1, <4>2, <4>3
    <3> QED BY <3>1, <3>2, UpTo
  <2>4. ASSUME NEW j \in 1..(m + 1), NEW k \in 1..(m + 1), j < k PROVE new[j] < new[k]
    <3>1. j \in 1..m
      BY <2>4
    <3>2. CASE k = m + 1
      BY <2>1, <3>1, <3>2
    <3>3. CASE k \in 1..m
      BY <1>1, <2>1, <2>4, <3>1, <3>3
    <3> QED BY <3>2, <3>3, UpTo
  <2> QED BY <1>3, <2>2, <2>3, <2>4, Zenon DEF Numbered
<1> QED BY <1>2, <1>3

(* The structure that aliases are created for, and the innermost call.     *)
LEMMA TopProperties ==
  ASSUME AliasInv, phase = "create", stack # <<>>
  PROVE  /\ orig \in 1..Len(refs) /\ order[orig] \in Structs /\ A!Origin = order[orig]
         /\ Calling(order[orig])
         /\ Len(stack) \in Nat \ {0} /\ A!Top = stack[Len(stack)] /\ A!Top \in CallType
         /\ A!Front(stack) \in Seq(CallType) /\ Len(A!Front(stack)) = Len(stack) - 1
         /\ \A i \in 1..(Len(stack) - 1) : A!Front(stack)[i] = stack[i]
<1>1. Graph /\ stack \in Seq(CallType) /\ Creating
  BY DEF AliasInv
<1>2. orig \in 1..Len(refs) /\ order[orig] \in Structs /\ Calling(order[orig])
  <2>1. orig \in 1..Len(refs)
    BY <1>1, GraphTyped DEF Creating
  <2>2. order[orig] \in Structs
    BY <1>1, <2>1, GraphTyped
  <2> QED BY <1>1, <2>1, <2>2 DEF Creating
<1> QED BY <1>1, <1>2, Popped, Named DEF A!Origin, A!Top

(* A structure is refused where the search comes back to it.               *)
LEMMA AliasRefuse ==
  ASSUME AliasInv, phase = "create", stack # <<>>, A!Top.field <= Len(refs[A!Top.at]), A!Refuse
  PROVE  A!Reaches(order[orig], order[orig]) /\ order[orig] \in Structs
<1> PICK p \in Structs : p = order[orig] /\ Calling(p)
  BY TopProperties
<1> PICK top \in CallType : top = A!Top
  BY TopProperties
<1>1. Graph
  BY DEF AliasInv
<1>2. top.at \in Structs /\ top.field \in DOMAIN refs[top.at] /\ refs[top.at][top.field] = p
  <2>1. top.at \in Structs /\ top.field \in Nat \ {0} /\ top.field <= Len(refs[top.at])
    BY DEF CallType
  <2>2. refs[top.at][top.field] = p
    BY TopProperties DEF A!Refuse, A!Target
  <2> QED BY <1>1, <2>1, <2>2, GraphTyped
<1>3. top.at = p \/ top.at \in Below(p)
  BY TopProperties DEF Calling
<1>4. p \in Below(p)
  <2>1. p \in Range(refs[top.at])
    BY <1>2 DEF Range
  <2> QED BY <1>1, <1>2, <1>3, <2>1, BelowProperties
<1> QED BY <1>1, <1>4, BelowProperties

(* A call that has tried all fields leaves nothing behind.                 *)
LEMMA AliasReturn ==
  ASSUME AliasInv, A!Return
  PROVE  AliasInv'
<1> PICK n \in Nat \ {0} : n = Len(stack)
  BY TopProperties DEF A!Return
<1> PICK p \in Structs : p = order[orig]
  BY TopProperties DEF A!Return
<1>1. /\ refs' = refs /\ order' = order /\ orig' = orig /\ offs' = offs /\ aq' = aq
      /\ phase' = phase /\ phase = "create" /\ stack # <<>>
  BY DEF A!Return
<1>2. /\ orig \in 1..Len(refs) /\ Calling(p) /\ A!Top \in CallType
      /\ A!Top = stack[n] /\ stack' \in Seq(CallType) /\ Len(stack') = n - 1
      /\ \A i \in 1..(n - 1) : stack'[i] = stack[i]
  BY <1>1, TopProperties DEF A!Return
<1>3. Graph /\ Creating /\ stack \in Seq(CallType) /\ orig \in Nat
  BY <1>1, GraphTyped DEF AliasInv, Creating
<1>4. \A q : Chains(q)' = Chains(q) /\ Walked(q)' = Walked(q)
  BY <1>1, Zenon DEF Chains, Walked
<1>5. \A q : /\ Numbered(q)' = Numbered(q) /\ Continues(q)' = Continues(q)
             /\ Complete(q)' = Complete(q)
  <2>1. \A q, c, f : Follows(q, c, f)' = Follows(q, c, f)
    BY <1>1, <1>4, SameEnds, Zenon DEF Follows
  <2>2. \A q : Numbered(q)' = Numbered(q)
    BY <1>1 DEF Numbered
  <2>3. \A q : Continues(q)' = Continues(q)
    BY <1>1, <1>4, SameEnds DEF Continues
  <2>4. \A q : Complete(q)' = Complete(q)
    BY <1>1, <1>4, <2>1, SameEnds DEF Complete
  <2> QED BY <2>2, <2>3, <2>4
<1>6. ASSUME NEW c \in Walked(p), NEW f \in DOMAIN refs[A!End(p, c)], Behind(c, f)
      PROVE  Behind(c, f)'
  <2>1. PICK i \in 1..n : stack[i].chain = c /\ stack[i].field <= f
    BY <1>3, <1>6, LenProperties DEF Behind
  <2>2. CASE i = n
    <3>1. A!End(p, c) = A!Top.at /\ A!Top.field <= f
      BY <1>2, <1>3, <2>1, <2>2, LenProperties DEF Calling
    <3>2. A!Top.at \in Structs /\ A!Top.field \in Nat
      BY <1>2 DEF CallType
    <3>3. f \in 1..Len(refs[A!Top.at]) /\ Len(refs[A!Top.at]) \in Nat
      <4>1. f \in DOMAIN refs[A!Top.at]
        BY <1>6, <3>1
      <4> QED BY <1>3, <3>2, <4>1, GraphTyped
    <3>4. A!Top.field > Len(refs[A!Top.at])
      BY DEF A!Return
    <3> QED BY <3>1, <3>2, <3>3, <3>4
  <2>3. CASE i # n
    <3>1. i \in 1..(n - 1) /\ DOMAIN (stack') = 1..(n - 1)
      BY <1>2, <2>3, LenProperties
    <3> QED BY <1>2, <2>1, <3>1 DEF Behind
  <2> QED BY <2>2, <2>3
<1>7. Underway(p)'
  <2>1. \A c, f : Follows(p, c, f)' = Follows(p, c, f)
    BY <1>1, <1>4, SameEnds, Zenon DEF Follows
  <2> QED BY <1>1, <1>2, <1>4, <1>6, <2>1, SameEnds DEF Calling, Underway
<1>8. stack' = <<>> => Complete(p)
  <2> SUFFICES ASSUME stack' = <<>> PROVE Complete(p)
    OBVIOUS
  <2>1. \A c, f : ~Behind(c, f)'
    BY DEF Behind
  <2>2. \A c, f : Follows(p, c, f)' = Follows(p, c, f)
    BY <1>1, <1>4, SameEnds, Zenon DEF Follows
  <2> QED BY <1>1, <1>4, <1>7, <2>1, <2>2, SameEnds DEF Underway, Complete
<1>9. Calling(p)'
  <2>1. DOMAIN (stack') = 1..(n - 1) /\ DOMAIN stack = 1..n
    BY <1>2, <1>3, LenProperties
  <2>2. \A i \in 1..(n - 1) : i \in 1..n
    OBVIOUS
  <2> QED BY <1>1, <1>2, <1>4, <1>7, <2>1, <2>2, SameEnds DEF Calling
<1>10. Creating'
  <2>1. \A q \in Structs, i \in 1..Len(refs) : i = orig /\ order[i] = q => q = p
    OBVIOUS
  <2>2. \A q \in Structs, i \in 1..Len(refs) :
          order[i] = q => /\ i > orig => aq[q] = <<>>
                          /\ i < orig => Complete(q)
    BY <1>3 DEF Creating
  <2> QED BY <1>1, <1>2, <1>3, <1>5, <1>8, <1>9, <2>1, <2>2, SameEnds DEF Creating
<1> QED BY <1>1, <1>2, <1>5, <1>10, SameEnds DEF AliasInv, Graph, CallType, EntryType

(* An alias comes with a call.                                             *)
LEMMA CreatePushes ==
  ASSUME AliasInv, phase = "create", stack # <<>>, A!Create
  PROVE  offs' = offs + 1 /\ offs < A!Limit /\ Len(stack') = Len(stack) + 1
<1>1. PICK front \in Seq(CallType) : front = A!Front(stack) /\ Len(front) = Len(stack) - 1
  BY TopProperties
<1>2. PICK a, b : stack' = Append(Append(front, a), b)
  BY <1>1 DEF A!Create, A!Advanced
<1>3. Len(stack') = Len(front) + 2 /\ Len(stack) \in Nat
  <2>1. Len(stack) \in Nat
    BY LenProperties DEF AliasInv
  <2> DEFINE T == CallType \cup {a, b}
  <2>2. front \in Seq(T)
    <3>1. \A i \in 1..Len(front) : front[i] \in T
      BY ElementOfSeq
    <3> QED BY <3>1, LenProperties, SeqDef
  <2>3. Append(front, a) \in Seq(T) /\ Len(Append(front, a)) = Len(front) + 1
    BY <2>2, Pushed
  <2> PICK w \in Seq(T) : w = Append(front, a)
    BY <2>3
  <2>4. Len(Append(w, b)) = Len(w) + 1
    BY Pushed
  <2>5. Len(front) \in Nat
    BY LenProperties
  <2> QED BY <1>2, <2>1, <2>3, <2>4, <2>5
<1> QED BY <1>1, <1>3 DEF A!Create

(* A new alias continues the chain of the call, and what continues it is   *)
(* left to the call that is made.                                          *)
LEMMA AliasCreate ==
  ASSUME AliasInv, phase = "create", stack # <<>>, A!Top.field <= Len(refs[A!Top.at]), A!Create
  PROVE  AliasInv'
<1> PICK n \in Nat \ {0} : n = Len(stack)
  BY TopProperties
<1> PICK p \in Structs : p = order[orig]
  BY TopProperties
<1> PICK top \in CallType : top = A!Top
  BY TopProperties
<1>1. /\ refs' = refs /\ order' = order /\ orig' = orig /\ phase' = phase /\ offs' = offs + 1
  BY DEF A!Create
<1>2. Graph /\ Creating /\ stack \in Seq(CallType) /\ offs \in Nat /\ DOMAIN stack = 1..n
      /\ aq \in [Structs -> Seq(EntryType)]
      /\ \A q \in Structs : Continues(q) /\ Numbered(q)
  BY LenProperties DEF AliasInv
<1>3. /\ orig \in 1..Len(refs) /\ Calling(p) /\ top = stack[n] /\ A!Origin = p
      /\ A!Front(stack) \in Seq(CallType) /\ Len(A!Front(stack)) = n - 1
      /\ \A i \in 1..(n - 1) : A!Front(stack)[i] = stack[i]
  BY TopProperties
<1>4. /\ top.at \in Structs /\ top.field \in DOMAIN refs[top.at] /\ top.field \in Nat \ {0}
      /\ top.chain \in Seq(Nat)
  <2>1. /\ top.at \in Structs /\ top.field \in Nat \ {0} /\ top.field <= Len(refs[top.at])
        /\ top.chain \in Seq(Nat)
    BY DEF CallType
  <2> QED BY <1>2, <2>1, FieldTyped
<1> PICK t \in Structs : t = refs[top.at][top.field]
  BY <1>2, <1>4, FieldTyped
<1> PICK chain \in Seq(Nat) : chain = Append(top.chain, top.field)
  BY <1>4, AppendProperties
<1> PICK entry \in EntryType : entry = A!Entry(chain)
  <2>1. A!Alias(offs) \in Seq(Nat)
    BY <1>2, AliasTyped
  <2> QED BY <2>1 DEF A!Entry, EntryType
<1>5. t # p /\ aq' = [aq EXCEPT ![p] = Append(@, entry)]
      /\ stack' = Append(A!Advanced, A!Call(t, chain))
  BY <1>3 DEF A!Create, A!Target
<1>6. /\ stack' \in Seq(CallType) /\ Len(stack') = n + 1
      /\ \A i \in 1..(n - 1) : stack'[i] = stack[i]
      /\ stack'[n].chain = top.chain /\ stack'[n].at = top.at /\ stack'[n].field = top.field + 1
      /\ stack'[n + 1].chain = chain /\ stack'[n + 1].at = t /\ stack'[n + 1].field = 1
  <2> PICK front \in Seq(CallType) : front = A!Front(stack)
    BY <1>3
  <2>10. PICK advanced : advanced = [top EXCEPT !.field = @ + 1]
    OBVIOUS
  <2>11. PICK call : call = A!Call(t, chain)
    OBVIOUS
  <2>1. /\ advanced \in CallType
        /\ advanced.chain = top.chain /\ advanced.at = top.at /\ advanced.field = top.field + 1
    <3>1. top.field + 1 \in Nat \ {0}
      BY <1>4
    <3> QED BY <2>10, <3>1 DEF CallType
  <2>2. call \in CallType /\ call.chain = chain /\ call.at = t /\ call.field = 1
    BY <2>11 DEF A!Call, CallType
  <2>3. stack' = Append(Append(front, advanced), call)
    BY <1>5, <2>10, <2>11 DEF A!Advanced
  <2>4. Len(front) = n - 1 /\ \A i \in 1..(n - 1) : front[i] = stack[i]
    BY <1>3
  <2>5. /\ stack' \in Seq(CallType) /\ Len(stack') = n + 1 /\ DOMAIN (stack') = 1..(n + 1)
        /\ \A i \in 1..(n - 1) : stack'[i] = front[i]
        /\ stack'[n] = advanced /\ stack'[n + 1] = call
    BY <2>1, <2>2, <2>3, <2>4, PushedTwice
  <2> QED BY <2>1, <2>2, <2>4, <2>5
<1>7. DOMAIN (stack') = 1..(n + 1)
  BY <1>6, LenProperties
<1> PICK m \in Nat : m = Len(aq[p])
  BY <1>2, LenProperties
<1>8. /\ aq' \in [Structs -> Seq(EntryType)]
      /\ \A q \in Structs : q # p => aq'[q] = aq[q]
      /\ DOMAIN aq[p] = 1..m /\ DOMAIN aq'[p] = 1..(m + 1)
      /\ \A k \in 1..m : aq'[p][k] = aq[p][k]
      /\ aq'[p][m + 1] = entry
  <2> PICK q \in Seq(EntryType) : q = aq[p]
    BY <1>2
  <2>1. aq'[p] = Append(q, entry)
    BY <1>2, <1>5
  <2>2. /\ Append(q, entry) \in Seq(EntryType)
        /\ DOMAIN q = 1..m /\ DOMAIN Append(q, entry) = 1..(m + 1)
        /\ \A k \in 1..m : Append(q, entry)[k] = q[k]
        /\ Append(q, entry)[m + 1] = entry
    BY Pushed
  <2>3. aq' \in [Structs -> Seq(EntryType)]
    BY <1>2, <1>5, <2>2
  <2>4. \A s \in Structs : s # p => aq'[s] = aq[s]
    BY <1>2, <1>5
  <2> QED BY <2>1, <2>2, <2>3, <2>4
<1>9. /\ \A q \in Structs : q # p => Chains(q)' = Chains(q)
      /\ Chains(p)' = Chains(p) \cup {chain}
  <2>1. \A q \in Structs : q # p => Chains(q)' = Chains(q)
    BY <1>8 DEF Chains
  <2>2. entry.chain = chain
    BY DEF A!Entry
  <2>3. \A k \in 1..(m + 1) : k = m + 1 \/ k \in 1..m
    BY UpTo
  <2>4. ASSUME NEW d \in Chains(p)' PROVE d \in Chains(p) \cup {chain}
    <3>1. PICK k \in 1..(m + 1) : d = aq'[p][k].chain
      BY <1>8 DEF Chains
    <3>2. CASE k = m + 1
      BY <1>8, <2>2, <3>1, <3>2
    <3>3. CASE k \in 1..m
      BY <1>8, <3>1, <3>3 DEF Chains
    <3> QED BY <2>3, <3>2, <3>3
  <2>5. \A k \in 1..m : k \in 1..(m + 1)
    OBVIOUS
  <2>6. ASSUME NEW d \in Chains(p) PROVE d \in Chains(p)'
    <3>1. PICK k \in 1..m : d = aq[p][k].chain
      BY <1>8 DEF Chains
    <3>2. k \in 1..(m + 1) /\ d = aq'[p][k].chain
      BY <1>8, <2>5, <3>1
    <3> QED BY <1>8, <3>2 DEF Chains
  <2>7. chain \in Chains(p)'
    <3>1. m + 1 \in 1..(m + 1)
      OBVIOUS
    <3> QED BY <1>8, <2>2, <3>1 DEF Chains
  <2> QED BY <2>1, <2>4, <2>6, <2>7
<1>10. /\ \A q \in Structs : q # p => Walked(q)' = Walked(q)
       /\ Walked(p)' = Walked(p) \cup {chain}
  BY <1>9 DEF Walked
<1>11. A!End(p, top.chain) = top.at /\ top.chain \in Walked(p)
       /\ (top.at = p \/ top.at \in Below(p))
  <2>1. n \in DOMAIN stack /\ stack[n] = top
    <3>1. n \in 1..n
      OBVIOUS
    <3> QED BY <1>2, <1>3, <3>1, Zenon
  <2>2. \A i \in DOMAIN stack :
          /\ stack[i].chain \in Walked(p) /\ A!End(p, stack[i].chain) = stack[i].at
          /\ stack[i].at = p \/ stack[i].at \in Below(p)
    BY <1>3 DEF Calling
  <2>3. /\ A!End(p, stack[n].chain) = stack[n].at /\ stack[n].chain \in Walked(p)
        /\ stack[n].at = p \/ stack[n].at \in Below(p)
    BY <2>1, <2>2, Zenon
  <2> QED BY <2>1, <2>3
<1>12. A!End(p, chain) = t /\ t # 0 /\ t \in Below(p)
  <2>1. top.at # 0 /\ t # 0
    BY <1>2, <1>4, GraphTyped
  <2>2. A!End(p, chain) = t
    BY <1>2, <1>4, <1>11, <2>1, EndProperties
  <2>3. t \in Range(refs[top.at])
    BY <1>4 DEF Range
  <2>4. t \in Below(p)
    BY <1>2, <1>4, <1>11, <2>3, BelowProperties
  <2> QED BY <2>1, <2>2, <2>4
<1>13. \A q \in Structs : Continues(q)'
  <2>1. ASSUME NEW q \in Structs, q # p PROVE Continues(q)'
    <3>1. Chains(q)' = Chains(q) /\ Continues(q)
      BY <1>2, <1>9, <2>1
    <3> QED BY <1>1, <3>1, SameChains
  <2>2. Continues(p)'
    <3>1. ASSUME NEW d \in Chains(p)
          PROVE  \E c \in Walked(p)', f \in Nat :
                   /\ d = Append(c, f) /\ A!End(p, c) # 0 /\ f \in DOMAIN refs[A!End(p, c)]
                   /\ A!End(p, d) # p /\ A!End(p, d) # 0
      BY <1>2, <1>10 DEF Continues
    <3>2. /\ top.chain \in Walked(p)' /\ top.field \in Nat
          /\ A!End(p, top.chain) # 0 /\ top.field \in DOMAIN refs[A!End(p, top.chain)]
          /\ A!End(p, chain) # p /\ A!End(p, chain) # 0
      BY <1>2, <1>4, <1>5, <1>10, <1>11, <1>12, GraphTyped
    <3>3. \A d \in Chains(p)' :
            \E c \in Walked(p)', f \in Nat :
                   /\ d = Append(c, f) /\ A!End(p, c) # 0 /\ f \in DOMAIN refs[A!End(p, c)]
                   /\ A!End(p, d) # p /\ A!End(p, d) # 0
      BY <1>9, <3>1, <3>2, Zenon
    <3> QED BY SMTT(30), <1>1, <3>3, SameEnds DEF Continues
  <2> QED BY <2>1, <2>2
<1>14. \A q \in Structs : Numbered(q)'
  <2>1. ASSUME NEW q \in Structs, q # p PROVE Numbered(q)'
    <3>1. Len(aq[q]) \in Nat /\ DOMAIN aq[q] = 1..Len(aq[q]) /\ aq'[q] = aq[q]
      BY <1>2, <1>8, <2>1, LenProperties
    <3> QED BY <1>1, <1>2, <3>1, MoreNumbered
  <2>2. Numbered(p)'
    <3>1. entry.alias = A!Alias(offs)
      BY DEF A!Entry
    <3> QED BY <1>1, <1>2, <1>8, <3>1, MoreNumbered
  <2> QED BY <2>1, <2>2
<1>15. \A c, f : Follows(p, c, f) => Follows(p, c, f)'
  BY <1>1, <1>9, SameEnds DEF Follows
<1>16. Underway(p)'
  <2>1. ASSUME NEW c \in Walked(p), NEW f \in DOMAIN refs[A!End(p, c)], Behind(c, f)
        PROVE  Follows(p, c, f)' \/ Behind(c, f)'
    <3>1. PICK i \in 1..n : stack[i].chain = c /\ stack[i].field <= f
      BY <1>2, <2>1 DEF Behind
    <3>2. CASE i # n
      <4>1. i \in 1..(n - 1) /\ i \in 1..(n + 1)
        BY <3>2
      <4> QED BY <1>6, <1>7, <3>1, <4>1 DEF Behind
    <3>3. CASE i = n
      <4>1. c = top.chain /\ top.field <= f
        BY <1>3, <3>1, <3>3
      <4>2. f \in Nat
        <5>1. f \in DOMAIN refs[top.at]
          BY <1>11, <2>1, <4>1
        <5>2. DOMAIN refs[top.at] = 1..Len(refs[top.at]) /\ Len(refs[top.at]) \in Nat
          BY <1>2, <1>4, GraphTyped
        <5> QED BY <5>1, <5>2
      <4>3. CASE f = top.field
        <5>1. refs[A!End(p, c)][f] = t /\ Append(c, f) = chain
          BY <1>11, <4>1, <4>3
        <5> QED BY <1>1, <1>5, <1>9, <5>1, SameEnds DEF Follows
      <4>4. CASE f # top.field
        <5>1. stack'[n].chain = c /\ stack'[n].field <= f /\ n \in 1..(n + 1)
          BY <1>4, <1>6, <4>1, <4>2, <4>4
        <5> QED BY <1>7, <5>1 DEF Behind
      <4> QED BY <4>3, <4>4
    <3> QED BY <3>2, <3>3
  <2>2. ASSUME NEW f \in DOMAIN refs[A!End(p, chain)]
        PROVE  Behind(chain, f)'
    <3>1. f \in Nat /\ 1 <= f
      <4>1. f \in DOMAIN refs[t]
        BY <1>12
      <4>2. DOMAIN refs[t] = 1..Len(refs[t]) /\ Len(refs[t]) \in Nat
        BY <1>2, GraphTyped
      <4> QED BY <4>1, <4>2
    <3>2. n + 1 \in 1..(n + 1)
      OBVIOUS
    <3> QED BY <1>6, <1>7, <3>1, <3>2 DEF Behind
  <2>3. \A c \in Walked(p) : \A f \in DOMAIN refs[A!End(p, c)] :
          Follows(p, c, f)' \/ Behind(c, f)'
    BY <1>3, <1>15, <2>1 DEF Calling, Underway
  <2> QED BY <1>1, <1>10, <2>2, <2>3, SameEnds DEF Underway
<1>17. Calling(p)'
  <2>1. \A i \in 1..(n + 1) : i = n + 1 \/ i = n \/ i \in 1..(n - 1)
    OBVIOUS
  <2>2. \A i \in 1..(n - 1) : i \in 1..n
    OBVIOUS
  <2>3. \A i \in 1..(n + 1) :
          /\ stack'[i].chain \in Walked(p) \cup {chain}
          /\ A!End(p, stack'[i].chain) = stack'[i].at
          /\ stack'[i].at = p \/ stack'[i].at \in Below(p)
    <3>1. \A i \in 1..(n - 1) :
          /\ stack'[i].chain \in Walked(p) \cup {chain}
          /\ A!End(p, stack'[i].chain) = stack'[i].at
          /\ stack'[i].at = p \/ stack'[i].at \in Below(p)
      BY <1>2, <1>3, <1>6, <2>2 DEF Calling
    <3> QED BY <1>6, <1>11, <1>12, <2>1, <3>1
  <2> QED BY <1>1, <1>7, <1>10, <1>16, <2>3, SameEnds DEF Calling
<1>18. Creating'
  <2>1. \A q \in Structs, i \in 1..Len(refs) : order[i] = q => (i = orig <=> q = p)
    <3>1. Graph /\ orig \in 1..Len(refs) /\ p = order[orig]
      BY <1>2, <1>3
    <3>2. \A i, j \in 1..Len(refs) : order[i] = order[j] => i = j
      BY <3>1, GraphTyped
    <3> QED BY <3>1, <3>2
  <2>2. stack' # <<>>
    BY <1>6
  <2>3. \A q \in Structs : q # p => /\ Complete(q)' = Complete(q)
                                    /\ aq'[q] = aq[q]
    BY <1>1, <1>8, <1>9, <1>10, SameEnds DEF Complete, Follows
  <2>4. orig \in Nat /\ orig # 0 /\ Len(refs) \in Nat
    BY <1>2, <1>3, GraphTyped
  <2>5. \A i \in 1..Len(refs) : (i > orig \/ i < orig) => i # orig
    BY <2>4
  <2>6. ASSUME NEW i \in 1..Len(refs), NEW q \in Structs, order[i] = q, q # p
        PROVE  /\ i > orig => aq'[q] = <<>>
               /\ i < orig => Complete(q)'
               /\ i # orig
    <3>1. Creating
      BY <1>2
    <3> QED BY <2>1, <2>3, <2>6, <3>1 DEF Creating
  <2>7. ASSUME NEW i \in 1..Len(refs), NEW q \in Structs, order[i] = q, q = p
        PROVE  i = orig /\ ~(i > orig) /\ ~(i < orig)
    BY <2>1, <2>4, <2>7
  <2>8. refs' = refs /\ order' = order /\ orig' = orig /\ Structs' = Structs
    BY <1>1, SameEnds
  <2>9. orig \in 0..Len(refs)
    BY <1>3, <2>4
  <2> QED BY <1>17, <2>2, <2>4, <2>6, <2>7, <2>8, <2>9 DEF Creating
<1>19. Graph' /\ offs' \in Nat
  BY <1>1, <1>2, SameEnds DEF Graph
<1>20. (stack \in Seq(CallType))'
  BY <1>1, <1>6, SameEnds DEF CallType
<1>21. (aq \in [Structs -> Seq(EntryType)])'
  BY <1>1, <1>8, SameEnds DEF EntryType
<1>22. phase' = "create" /\ Structs' = Structs
  BY <1>1, SameEnds
<1> QED BY <1>13, <1>14, <1>18, <1>19, <1>20, <1>21, <1>22 DEF AliasInv

(* The next structure starts with a call and an empty chain.               *)
LEMMA AliasNextStruct ==
  ASSUME AliasInv, A!NextStruct
  PROVE  AliasInv'
<1>1. /\ refs' = refs /\ order' = order /\ offs' = offs /\ aq' = aq
      /\ phase = "create" /\ stack = <<>>
  BY DEF A!NextStruct
<1>2. Graph /\ Creating /\ orig \in 0..Len(refs) /\ Len(refs) \in Nat
  BY <1>1, GraphTyped DEF AliasInv, Creating
<1>3. \A q : Chains(q)' = Chains(q)
  BY <1>1, Zenon DEF Chains
<1>4. \A q : Continues(q)' = Continues(q) /\ Complete(q)' = Complete(q) /\ Walked(q)' = Walked(q)
  BY <1>1, <1>3, SameChains
<1>5. \A q : Numbered(q)' = Numbered(q)
  BY <1>1 DEF Numbered
<1>6. Graph' /\ Structs' = Structs
  BY <1>1, <1>2, SameEnds DEF Graph
<1>7. \A i \in 1..Len(refs), q \in Structs : order[i] = q /\ i <= orig => Complete(q)
  <2>1. \A i \in 1..Len(refs) : i <= orig => i < orig \/ i = orig
    BY <1>2
  <2> QED BY <1>1, <1>2, <2>1 DEF Creating
<1>8. (aq \in [Structs -> Seq(EntryType)])' /\ offs' \in Nat
  BY <1>1, <1>6 DEF AliasInv, EntryType
<1>9. CASE orig = Len(refs)
  <2>1. phase' = "accepted" /\ stack' = stack
    BY <1>9 DEF A!NextStruct
  <2>2. (stack \in Seq(CallType))'
    BY <1>1, <2>1
  <2>3. \A q \in Structs : Complete(q)
    <3>1. \A q \in Structs : \E i \in 1..Len(refs) : order[i] = q /\ i <= orig
      BY <1>2, <1>9, GraphTyped
    <3> QED BY <1>7, <3>1
  <2> QED BY <1>4, <1>5, <1>6, <1>8, <2>1, <2>2, <2>3 DEF AliasInv
<1>10. CASE orig # Len(refs)
  <2>1. /\ phase' = "create" /\ orig' = orig + 1
        /\ stack' = <<A!Call(order[orig + 1], <<>>)>>
    BY <1>1, <1>10 DEF A!NextStruct
  <2>2. orig + 1 \in 1..Len(refs) /\ orig + 1 > orig
    BY <1>2, <1>10
  <2> PICK p \in Structs : p = order[orig + 1]
    BY <1>2, <2>2, GraphTyped
  <2>3. aq[p] = <<>>
    BY <1>2, <2>2 DEF Creating
  <2>4. Chains(p) = {} /\ Walked(p) = {<<>>}
    BY <2>3 DEF Chains, Walked
  <2> PICK call : call = A!Call(p, <<>>)
    OBVIOUS
  <2>5. call.at = p /\ call.field = 1 /\ call.chain = <<>> /\ call \in CallType
    BY DEF A!Call, CallType
  <2>6. stack' = <<call>> /\ DOMAIN (stack') = {1} /\ stack'[1] = call
    BY <2>1
  <2>7. (stack \in Seq(CallType))'
    <3>1. <<call>> \in Seq(CallType)
      BY <2>5
    <3> QED BY <1>1, <1>6, <2>6, <3>1 DEF CallType
  <2>8. Underway(p)'
    <3>1. A!End(p, <<>>) = p
      BY <1>2, EndProperties
    <3>2. ASSUME NEW f \in DOMAIN refs[p] PROVE Behind(<<>>, f)'
      <4>1. f \in Nat /\ 1 <= f
        BY <1>2, FieldTyped
      <4>2. 1 \in {1} /\ stack'[1].chain = <<>> /\ stack'[1].field <= f
        BY <2>5, <2>6, <4>1
      <4> QED BY <2>6, <4>2 DEF Behind
    <3> QED BY <1>1, <1>4, <2>4, <3>1, <3>2, SameEnds DEF Underway
  <2>9. Calling(p)'
    <3>1. A!End(p, <<>>) = p
      BY <1>2, EndProperties
    <3> QED BY <1>1, <1>4, <2>4, <2>5, <2>6, <2>8, <3>1, SameEnds DEF Calling
  <2>10. Creating'
    <3>1. \A i \in 1..Len(refs), q \in Structs :
            order[i] = q =>
              /\ i > orig + 1 => aq[q] = <<>>
              /\ i < orig + 1 => Complete(q)
              /\ i = orig + 1 => q = p
      <4>1. \A i \in 1..Len(refs) : /\ i > orig + 1 => i > orig
                                    /\ i < orig + 1 => i <= orig
        BY <1>2
      <4> QED BY <1>2, <1>7, <4>1 DEF Creating
    <3>2. orig + 1 \in 0..Len(refs) /\ orig + 1 # 0 /\ stack' # <<>>
      BY <2>2, <2>6
    <3> QED BY <1>1, <1>4, <1>6, <2>1, <2>9, <3>1, <3>2 DEF Creating
  <2> QED BY <1>4, <1>5, <1>6, <1>8, <2>1, <2>7, <2>10 DEF AliasInv
<1> QED BY <1>9, <1>10

(* Each step keeps the invariant of aliases.                               *)
LEMMA AliasStep ==
  ASSUME AliasInv, A!Next
  PROVE  AliasInv'
<1>1. CASE A!Field /\ A!Refuse
  <2>1. /\ refs' = refs /\ order' = order /\ orig' = orig /\ offs' = offs /\ aq' = aq
        /\ stack' = stack /\ phase' = "recursive"
    BY <1>1 DEF A!Refuse
  <2>2. order[orig] \in Structs /\ A!Reaches(order[orig], order[orig])
    BY <1>1, AliasRefuse DEF A!Field
  <2> PICK p \in Structs : p = order[orig] /\ A!Reaches(p, p)
    BY <2>2
  <2>3. /\ \A q : Chains(q)' = Chains(q)
        /\ \A q : Numbered(q)' = Numbered(q)
    BY <2>1 DEF Chains, Numbered
  <2>4. \A q : Continues(q)' = Continues(q)
    BY <2>1, <2>3, SameChains
  <2>5. Graph' /\ A!Reaches(p, p)' /\ Structs' = Structs /\ order'[orig'] = p
    BY <2>1, SameEnds DEF AliasInv, Graph
  <2>6. (aq \in [Structs -> Seq(EntryType)])' /\ (stack \in Seq(CallType))' /\ offs' \in Nat
    BY <2>1, <2>5 DEF AliasInv, EntryType, CallType
  <2> QED BY <2>1, <2>3, <2>4, <2>5, <2>6 DEF AliasInv
<1>2. CASE A!Field /\ A!Exhaust
  <2>1. /\ refs' = refs /\ order' = order /\ orig' = orig /\ offs' = offs /\ aq' = aq
        /\ stack' = stack /\ phase' = "too many"
    BY <1>2 DEF A!Exhaust
  <2>2. /\ \A q : Chains(q)' = Chains(q)
        /\ \A q : Numbered(q)' = Numbered(q)
    BY <2>1 DEF Chains, Numbered
  <2>3. \A q : Continues(q)' = Continues(q)
    BY <2>1, <2>2, SameChains
  <2>4. Graph' /\ Structs' = Structs
    BY <2>1, SameEnds DEF AliasInv, Graph
  <2>5. (aq \in [Structs -> Seq(EntryType)])' /\ (stack \in Seq(CallType))' /\ offs' \in Nat
    BY <2>1, <2>4 DEF AliasInv, EntryType, CallType
  <2> QED BY <2>1, <2>2, <2>3, <2>4, <2>5 DEF AliasInv
<1>3. CASE A!Field /\ A!Create
  BY <1>3, AliasCreate DEF A!Field
<1>4. CASE A!Return
  BY <1>4, AliasReturn
<1>5. CASE A!NextStruct
  BY <1>5, AliasNextStruct
<1> QED BY <1>1, <1>2, <1>3, <1>4, <1>5 DEF A!Next, A!Field

(***************************************************************************)
(* What is so once aliases are accepted.                                   *)
(***************************************************************************)
LEMMA Longer ==
  /\ <<>> \in Seq(Nat)
  /\ \A c \in Seq(Nat), f \in Nat : Append(c, f) \in Seq(Nat) /\ Append(c, f) # <<>>
  /\ \A c, d \in Seq(Nat), f, g \in Nat : Append(c, f) = Append(d, g) => c = d /\ f = g
<1>1. <<>> \in Seq(Nat)
  BY EmptySeq
<1>2. ASSUME NEW c \in Seq(Nat), NEW f \in Nat
      PROVE  Append(c, f) \in Seq(Nat) /\ Append(c, f) # <<>>
  BY AppendProperties
<1>3. ASSUME NEW c \in Seq(Nat), NEW d \in Seq(Nat), NEW f \in Nat, NEW g \in Nat,
             Append(c, f) = Append(d, g)
      PROVE  c = d /\ f = g
  BY <1>3, AppendInjective
<1> QED BY <1>1, <1>2, <1>3

(* A chain goes on from one there is.                                      *)
LEMMA ChainsContinue ==
  ASSUME AliasInv, NEW p \in Structs
  PROVE  /\ Chains(p) \subseteq Seq(Nat) /\ <<>> \notin Chains(p) /\ <<>> \in Walked(p)
         /\ \A c \in Seq(Nat), f \in Nat :
              Append(c, f) \in Chains(p) =>
                /\ c \in Walked(p) /\ A!End(p, c) \in Structs /\ f \in DOMAIN refs[A!End(p, c)]
                /\ A!End(p, Append(c, f)) = refs[A!End(p, c)][f]
                /\ A!End(p, Append(c, f)) \in Structs \ {p}
<1>1. Graph /\ Continues(p)
  BY DEF AliasInv
<1>2. Chains(p) \subseteq Seq(Nat)
  <2>1. \A k \in DOMAIN aq[p] : aq[p][k] \in EntryType
    <3>1. aq[p] \in Seq(EntryType)
      BY DEF AliasInv
    <3> QED BY <3>1, LenProperties, ElementOfSeq
  <2> QED BY <2>1 DEF Chains, EntryType
<1>3. Walked(p) \subseteq Seq(Nat) /\ <<>> \in Walked(p)
  BY <1>2, Longer, Zenon DEF Walked
<1>4. <<>> \notin Chains(p)
  <2>1. \A c \in Seq(Nat), f \in Nat : Append(c, f) # <<>>
    BY Longer
  <2> QED BY <1>1, <1>3, <2>1 DEF Continues
<1>5. ASSUME NEW c \in Seq(Nat), NEW f \in Nat, Append(c, f) \in Chains(p)
      PROVE  /\ c \in Walked(p) /\ A!End(p, c) \in Structs /\ f \in DOMAIN refs[A!End(p, c)]
             /\ A!End(p, Append(c, f)) = refs[A!End(p, c)][f]
             /\ A!End(p, Append(c, f)) \in Structs \ {p}
  <2> PICK chain \in Seq(Nat) : chain = Append(c, f)
    BY <1>2, <1>5
  <2>1. PICK d \in Walked(p), g \in Nat :
          /\ chain = Append(d, g) /\ A!End(p, d) # 0 /\ g \in DOMAIN refs[A!End(p, d)]
          /\ A!End(p, chain) # p /\ A!End(p, chain) # 0
    BY <1>1, <1>5 DEF Continues
  <2>2. c = d /\ f = g
    <3>1. d \in Seq(Nat) /\ Append(c, f) = Append(d, g)
      BY <1>3, <2>1
    <3> QED BY <3>1, Longer
  <2>3. A!End(p, c) \in Structs /\ A!End(p, chain) \in Structs
    BY <1>1, <2>1, <2>2, EndProperties
  <2>4. A!End(p, chain) = refs[A!End(p, c)][f]
    BY <1>1, <2>1, <2>2, EndProperties
  <2> QED BY <2>1, <2>2, <2>3, <2>4
<1> QED BY <1>2, <1>3, <1>4, <1>5

(* The structures that chains end at are those a structure contains.       *)
LEMMA ChainsEnd ==
  ASSUME AliasInv, NEW p \in Structs, Complete(p)
  PROVE  Below(p) = { A!End(p, c) : c \in Chains(p) } /\ p \notin Below(p)
<1> DEFINE S == { A!End(p, c) : c \in Chains(p) }
<1>1. Graph
  BY DEF AliasInv
<1>2. \A c \in Chains(p) : \E d \in Seq(Nat), f \in Nat : c = Append(d, f)
  BY ChainsContinue, SequenceEmptyOrAppend
<1>3. S \in SUBSET Structs /\ p \notin S
  <2>1. \A c \in Chains(p) : A!End(p, c) \in Structs \ {p}
    <3> SUFFICES ASSUME NEW c \in Chains(p) PROVE A!End(p, c) \in Structs \ {p}
      OBVIOUS
    <3> PICK d \in Seq(Nat), f \in Nat : c = Append(d, f)
      BY <1>2
    <3>1. Append(d, f) \in Chains(p)
      OBVIOUS
    <3>2. A!End(p, Append(d, f)) \in Structs \ {p}
      BY <3>1, ChainsContinue
    <3> QED BY <3>2
  <2> QED BY <2>1
<1>4. ASSUME NEW c \in Walked(p), NEW t \in Range(refs[A!End(p, c)]), A!End(p, c) \in Structs
      PROVE  t \in S
  <2>1. PICK f \in DOMAIN refs[A!End(p, c)] : t = refs[A!End(p, c)][f]
    BY <1>4 DEF Range
  <2>2. Append(c, f) \in Chains(p)
    BY <2>1 DEF Complete, Follows
  <2>3. c \in Seq(Nat) /\ f \in Nat
    <3>1. c \in Seq(Nat)
      BY ChainsContinue, Longer, Zenon DEF Walked
    <3> QED BY <1>1, <1>4, <3>1, FieldTyped
  <2>4. A!End(p, Append(c, f)) = t
    BY <2>1, <2>2, <2>3, ChainsContinue
  <2> QED BY <2>2, <2>4
<1>5. Below(p) \subseteq S
  <2>1. Range(refs[p]) \subseteq S
    <3>1. A!End(p, <<>>) = p /\ <<>> \in Walked(p)
      BY <1>1, EndProperties, ChainsContinue
    <3> QED BY <1>4, <3>1
  <2>2. \A s \in S : Range(refs[s]) \subseteq S
    <3>1. \A c \in Chains(p) : c \in Walked(p) /\ A!End(p, c) \in Structs
      BY <1>3 DEF Walked
    <3> QED BY <1>4, <3>1
  <2> HIDE DEF S
  <2> QED BY <1>1, <1>3, <2>1, <2>2, BelowProperties
<1>6. S \subseteq Below(p)
  <2> DEFINE K == { c \in Chains(p) : A!End(p, c) \notin Below(p) }
  <2>1. ASSUME NEW c \in Seq(Nat), NEW f \in Nat, Append(c, f) \in K
        PROVE  c \in K
    <3>1. /\ c \in Walked(p) /\ A!End(p, c) \in Structs /\ f \in DOMAIN refs[A!End(p, c)]
          /\ A!End(p, Append(c, f)) = refs[A!End(p, c)][f]
      BY <2>1, ChainsContinue
    <3>2. refs[A!End(p, c)][f] \in Range(refs[A!End(p, c)])
      BY <3>1 DEF Range
    <3>3. CASE c = <<>>
      <4>1. A!End(p, c) = p
        BY <1>1, <3>3, EndProperties
      <4> QED BY <1>1, <2>1, <3>1, <4>1, BelowProperties
    <3>4. CASE c \in Chains(p)
      <4>1. A!End(p, c) \notin Below(p)
        BY <1>1, <2>1, <3>1, <3>2, BelowProperties
      <4> QED BY <3>4, <4>1
    <3> QED BY <3>1, <3>3, <3>4 DEF Walked
  <2>2. K \in SUBSET Seq(Nat) /\ <<>> \notin K
    BY ChainsContinue
  <2>3. K = {}
    <3> HIDE DEF K
    <3> QED BY <2>1, <2>2, NoSequence
  <2> QED BY <2>3
<1> QED BY <1>3, <1>5, <1>6

(* So no structure contains itself, and what is below one contains less.   *)
LEMMA Descent ==
  ASSUME AliasInv, \A q \in Structs : Complete(q)
  PROVE  /\ \A p \in Structs : p \notin Below(p)
         /\ \A p \in Structs : \A t \in Below(p) :
              Cardinality(Below(t)) < Cardinality(Below(p))
         /\ \A p \in Structs : Cardinality(Below(p)) < Len(refs)
<1>1. Graph
  BY DEF AliasInv
<1>2. \A p \in Structs : p \notin Below(p)
  BY ChainsEnd
<1>3. ASSUME NEW p \in Structs, NEW t \in Below(p)
      PROVE  Cardinality(Below(t)) < Cardinality(Below(p))
  <2>1. t \in Structs
    BY DEF Below
  <2>2. Below(t) \subseteq Below(p) /\ t \notin Below(t)
    BY <1>1, <1>2, <2>1, BelowProperties
  <2>3. /\ IsFiniteSet(Below(p)) /\ Cardinality(Below(p)) \in Nat
        /\ Cardinality(Below(t)) \in Nat
    BY <1>1, <2>1, BelowProperties, GraphTyped
  <2>4. /\ Cardinality(Below(t)) <= Cardinality(Below(p))
        /\ Cardinality(Below(t)) # Cardinality(Below(p))
    BY <2>2, <2>3, FS_Subset
  <2> QED BY <2>3, <2>4
<1>4. ASSUME NEW p \in Structs
      PROVE  Cardinality(Below(p)) < Len(refs)
  <2>1. Below(p) \subseteq Structs /\ p \notin Below(p)
    BY <1>2 DEF Below
  <2>2. IsFiniteSet(Structs) /\ Cardinality(Structs) = Len(refs) /\ Len(refs) \in Nat
    BY <1>1, GraphTyped
  <2>3. Cardinality(Below(p)) \in Nat
    BY <1>1, <2>2, BelowProperties
  <2>4. /\ Cardinality(Below(p)) <= Len(refs) /\ Cardinality(Below(p)) # Len(refs)
    BY <2>1, <2>2, FS_Subset
  <2> QED BY <2>2, <2>3, <2>4
<1> QED BY <1>2, <1>3, <1>4

(* No structure is below itself, or is refused.                            *)
LEMMA CirclesLemma ==
  ASSUME AliasInv
  PROVE  CirclesRefused
<1>1. A!Structs = Structs /\ Graph
  BY GraphTyped DEF AliasInv
<1>2. ASSUME phase = "accepted", NEW p \in Structs PROVE ~A!Reaches(p, p)
  <2>1. p \notin Below(p)
    BY <1>2, Descent DEF AliasInv
  <2> QED BY <2>1 DEF Below
<1>3. ASSUME phase = "recursive" PROVE A!Reaches(A!Origin, A!Origin)
  <2> PICK p \in Structs : order[orig] = p /\ A!Reaches(p, p)
    BY <1>3 DEF AliasInv
  <2>1. A!Origin = p
    BY DEF A!Origin
  <2> QED BY <2>1
<1> QED BY <1>1, <1>2, <1>3 DEF CirclesRefused, A!CirclesRefused

(* A chain is no longer than there are structures.                         *)
LEMMA ChainsShort ==
  ASSUME AliasInv, \A q \in Structs : Complete(q), NEW p \in Structs, NEW c \in Chains(p)
  PROVE  Len(c) < Len(refs) /\ c \in Seq(A!Places)
<1>1. Graph /\ Len(refs) \in Nat
  BY GraphTyped DEF AliasInv
<1> DEFINE Room(d) == Len(d) + Cardinality(Below(A!End(p, d))) < Len(refs)
           K == { d \in Chains(p) : ~Room(d) \/ d \notin Seq(A!Places) }
<1>2. Room(<<>>)
  <2>1. A!End(p, <<>>) = p /\ Cardinality(Below(p)) < Len(refs)
    BY <1>1, EndProperties, Descent
  <2>2. Cardinality(Below(p)) \in Nat
    BY <1>1, BelowProperties
  <2> QED BY <2>1, <2>2
<1>3. ASSUME NEW d \in Seq(Nat), NEW f \in Nat, Append(d, f) \in K
      PROVE  d \in K
  <2>1. /\ d \in Walked(p) /\ A!End(p, d) \in Structs /\ f \in DOMAIN refs[A!End(p, d)]
        /\ A!End(p, Append(d, f)) = refs[A!End(p, d)][f]
    <3>1. Append(d, f) \in Chains(p)
      BY <1>3
    <3> QED BY <3>1, ChainsContinue
  <2> PICK s \in Structs : s = A!End(p, d)
    BY <2>1
  <2> PICK t \in Structs : t = refs[s][f]
    BY <1>1, <2>1, FieldTyped
  <2>2. t \in Below(s)
    BY <1>1, <2>1, BelowProperties
  <2>3. /\ Cardinality(Below(t)) < Cardinality(Below(s))
        /\ Cardinality(Below(t)) \in Nat /\ Cardinality(Below(s)) \in Nat
    BY <1>1, <2>2, Descent, BelowProperties
  <2>4. Len(Append(d, f)) = Len(d) + 1 /\ Len(d) \in Nat
    BY AppendProperties, LenProperties
  <2>5. ASSUME Room(d) PROVE Room(Append(d, f))
    BY <1>1, <2>1, <2>3, <2>4, <2>5
  <2>6. ASSUME d \in Seq(A!Places) PROVE Append(d, f) \in Seq(A!Places)
    <3>1. f \in A!Places
      BY <1>1, <2>1, GraphTyped DEF A!Places
    <3> QED BY <2>6, <3>1, AppendProperties
  <2>7. d # <<>>
    <3>1. <<>> \in Seq(A!Places)
      BY EmptySeq
    <3> HIDE DEF Room
    <3> QED BY <1>2, <1>3, <2>5, <2>6, <3>1
  <2>8. d \in Chains(p)
    BY <2>1, <2>7 DEF Walked
  <2> HIDE DEF Room
  <2> QED BY <1>3, <2>5, <2>6, <2>8
<1>4. K \in SUBSET Seq(Nat) /\ <<>> \notin K
  <2> HIDE DEF Room
  <2> QED BY ChainsContinue
<1>5. K = {}
  <2> HIDE DEF K
  <2> QED BY <1>3, <1>4, NoSequence
<1>6. Room(c) /\ c \in Seq(A!Places)
  <2> HIDE DEF Room
  <2> QED BY <1>5
<1>7. Len(c) \in Nat /\ Cardinality(Below(A!End(p, c))) \in Nat
  <2>1. c \in Seq(Nat)
    BY ChainsContinue
  <2>2. A!End(p, c) \in Structs
    BY ChainsEnd, <1>1 DEF Below
  <2> QED BY <1>1, <2>1, <2>2, LenProperties, BelowProperties
<1> QED BY <1>1, <1>6, <1>7

(* The aliases are for the chains of fields there are.                     *)
LEMMA CompleteLemma ==
  ASSUME AliasInv
  PROVE  ChainsComplete
<1> SUFFICES ASSUME phase = "accepted", NEW p \in Structs
             PROVE  Chains(p) = { c \in BoundedSeq(A!Places, Len(refs)) :
                                    c # <<>> /\ A!End(p, c) # 0 }
  <2>1. \A S, n : A!BoundedSeq(S, n) = BoundedSeq(S, n)
    BY DEF A!BoundedSeq, A!SeqOf, BoundedSeq, SeqOf
  <2>2. A!Structs = Structs
    BY GraphTyped DEF AliasInv
  <2> QED BY <2>1, <2>2 DEF ChainsComplete, A!ChainsComplete, Chains
<1>1. Graph /\ Len(refs) \in Nat /\ \A q \in Structs : Complete(q)
  BY GraphTyped DEF AliasInv
<1>2. A!Places \subseteq Nat
  <2>1. \A q \in Structs : DOMAIN refs[q] \subseteq Nat
    BY <1>1, FieldTyped
  <2>2. A!Structs = Structs
    BY <1>1, GraphTyped
  <2> QED BY <2>1, <2>2 DEF A!Places
<1>3. ASSUME NEW c \in Chains(p)
      PROVE  c \in BoundedSeq(A!Places, Len(refs)) /\ c # <<>> /\ A!End(p, c) # 0
  <2>1. Len(c) < Len(refs) /\ c \in Seq(A!Places) /\ c # <<>>
    BY <1>1, <1>3, ChainsShort, ChainsContinue
  <2>2. c \in [1..Len(c) -> A!Places] /\ Len(c) \in 0..Len(refs)
    BY <1>1, <2>1, LenProperties
  <2>3. c \in BoundedSeq(A!Places, Len(refs))
    BY <2>2 DEF BoundedSeq, SeqOf
  <2>4. A!End(p, c) \in Structs /\ 0 \notin Structs
    BY <1>1, ChainsEnd, GraphTyped DEF Below
  <2> QED BY <2>1, <2>3, <2>4
<1>4. ASSUME NEW c \in BoundedSeq(A!Places, Len(refs)), c # <<>>, A!End(p, c) # 0
      PROVE  c \in Chains(p)
  <2> DEFINE K == { d \in Seq(Nat) : d # <<>> /\ A!End(p, d) # 0 /\ d \notin Chains(p) }
  <2>1. ASSUME NEW d \in Seq(Nat), NEW f \in Nat, Append(d, f) \in K
        PROVE  d \in K
    <3>1. A!End(p, d) # 0 /\ f \in DOMAIN refs[A!End(p, d)]
      BY <1>1, <2>1, EndProperties
    <3>2. d \notin Walked(p)
      BY <1>1, <2>1, <3>1 DEF Complete, Follows
    <3> QED BY <3>1, <3>2 DEF Walked
  <2>2. K = {}
    <3>1. K \in SUBSET Seq(Nat) /\ <<>> \notin K
      OBVIOUS
    <3> HIDE DEF K
    <3> QED BY <2>1, <3>1, NoSequence
  <2>3. c \in Seq(Nat)
    <3>1. PICK m \in 0..Len(refs) : c \in [1..m -> A!Places]
      BY <1>4 DEF BoundedSeq, SeqOf
    <3>2. c \in [1..m -> Nat] /\ m \in Nat
      <4>1. m \in Nat
        BY <1>1
      <4>2. \A i \in 1..m : c[i] \in Nat
        BY <1>2, <3>1
      <4> QED BY <3>1, <4>1, <4>2
    <3> QED BY <3>2, SeqDef
  <2> QED BY <1>4, <2>2, <2>3
<1> QED BY <1>3, <1>4

(* Numbers of aliases only repeat where letters do.                        *)
LEMMA DistinctLemma ==
  ASSUME AliasInv
  PROVE  AliasesDistinct
<1> SUFFICES ASSUME offs <= Letters * 159, NEW p \in Structs
             PROVE  A!Cardinality({ aq[p][k].alias : k \in DOMAIN aq[p] }) = Len(aq[p])
  <2>1. A!Structs = Structs
    BY GraphTyped DEF AliasInv
  <2> QED BY <2>1 DEF AliasesDistinct, A!AliasesDistinct
<1> PICK m \in Nat : m = Len(aq[p]) /\ DOMAIN aq[p] = 1..m
  <2>1. aq[p] \in Seq(EntryType)
    BY DEF AliasInv
  <2> QED BY <2>1, LenProperties
<1> PICK num \in [1..m -> Nat] :
      /\ \A k \in 1..m : num[k] < offs /\ aq[p][k].alias = A!Alias(num[k])
      /\ \A j, k \in 1..m : j < k => num[j] < num[k]
  BY Zenon DEF AliasInv, Numbered
<1> DEFINE T == { aq[p][k].alias : k \in 1..m }
           f == [k \in 1..m |-> aq[p][k].alias]
<1>1. ASSUME NEW j \in 1..m, NEW k \in 1..m, f[j] = f[k] PROVE j = k
  <2>1. A!Alias(num[j]) = A!Alias(num[k])
    BY <1>1
  <2>2. /\ num[j] \in Nat /\ num[k] \in Nat /\ Letters * 159 \in Nat /\ offs \in Nat
        /\ num[j] < offs /\ num[k] < offs
    <3>1. num[j] \in Nat /\ num[k] \in Nat /\ num[j] < offs /\ num[k] < offs
      OBVIOUS
    <3>2. Letters * 159 \in Nat
      BY ConstantsAssumption
    <3> QED BY <3>1, <3>2 DEF AliasInv
  <2>3. num[j] < Letters * 159 /\ num[k] < Letters * 159
    BY <2>2
  <2>4. num[j] = num[k]
    BY <2>1, <2>2, <2>3, AliasInjective
  <2>5. ~(j < k) /\ ~(k < j)
    BY <2>2, <2>4
  <2> QED BY <2>5
<1>2. f \in [1..m -> T] /\ \A a \in T : \E k \in 1..m : f[k] = a
  OBVIOUS
<1>3. f \in Bijection(1..m, T)
  <2> HIDE DEF f, T
  <2> QED BY <1>1, <1>2, Zenon DEF Bijection, Injection, IsInjective, Surjection
<1>4. Cardinality(T) = m
  <2>1. ExistsBijection(1..m, T)
    BY <1>3 DEF ExistsBijection
  <2> HIDE DEF T
  <2> QED BY <2>1, Interval, FS_Bijection
<1>5. A!Cardinality(T) = Cardinality(T)
  BY DEF A!Cardinality, Cardinality
<1> QED BY <1>4, <1>5

(***************************************************************************)
(* Unique statements: until an error is counted, the names that were       *)
(* looked at are fields, and different; and the statements in front of the *)
(* one that is compared are those written, in order.                       *)
(***************************************************************************)
Plain(q) == \A i \in 1..Len(q) : U!Resolvable(q, i)

InOrder(q, s) ==
  /\ Range(s) = Range(q) /\ Len(s) = Len(q)
  /\ \A i, j \in DOMAIN s : i < j => s[i] < s[j]

UniqueInv ==
  /\ written \in Seq(Seq(Nat)) /\ nq \in Seq(Seq(Nat)) /\ Len(nq) = Len(written)
  /\ \A k \in 1..Len(written) : Len(written[k]) >= 2
  /\ u \in 1..(Len(nq) + 1)
  /\ progress \in {"resolve", "refused", "check", "accepted"}
  /\ progress = "resolve" =>
       /\ nq = written /\ errs \in Nat /\ resolved \in Nat
       /\ u <= Len(nq) => resolved < Len(written[u])
       /\ errs = 0 => /\ \A k \in 1..(u - 1) : Plain(written[k])
                      /\ u <= Len(nq) => \A i \in 1..resolved : U!Resolvable(written[u], i)
  /\ progress \in {"check", "accepted"} =>
       \A k \in 1..Len(written) : /\ Plain(written[k])
                                  /\ k < u => InOrder(written[k], nq[k])
                                  /\ k >= u => nq[k] = written[k]
  /\ progress = "accepted" => u > Len(nq)

(* The numbers of a finite set can be put in ascending order.              *)
LEMMA NumbersInOrder ==
  ASSUME NEW S \in SUBSET Nat, IsFiniteSet(S), NEW n \in Nat, Cardinality(S) = n
  PROVE  \E f \in [1..n -> S] : Range(f) = S /\ \A i, j \in 1..n : i < j => f[i] < f[j]
<1>1. PICK R : \A a, b \in S : <<a, b>> \in R <=> a < b
  <2>1. \A a, b \in S : <<a, b>> \in { r \in Nat \X Nat : r[1] < r[2] } <=> a < b
    OBVIOUS
  <2> QED BY <2>1
<1>2. Orders(R, S)
  <2>1. \A a, b, c \in Nat : /\ ~(a < a) /\ (a < b /\ b < c => a < c)
                             /\ a = b \/ a < b \/ b < a
    OBVIOUS
  <2> QED BY <1>1, <2>1 DEF Orders
<1>3. PICK f \in [1..n -> S] : Ordered(R, f, n) /\ \A a \in S : \E i \in 1..n : f[i] = a
  <2>1. Sorts(R, S, Cardinality(S))
    BY <1>2, Ordering
  <2> QED BY <2>1, Zenon DEF Sorts
<1>4. \A i, j \in 1..n : i < j => f[i] < f[j]
  BY <1>1, <1>3 DEF Ordered
<1>5. Range(f) = S
  <2>1. Range(f) \subseteq S /\ DOMAIN f = 1..n
    BY DEF Range
  <2>2. \A a \in S : a \in Range(f)
    BY <1>3, <2>1 DEF Range
  <2> QED BY <2>1, <2>2
<1> QED BY <1>4, <1>5

(* There is a normal form of a statement that names no field twice.        *)
LEMMA NormalProperties ==
  ASSUME NEW q \in Seq(Nat), Plain(q)
  PROVE  U!Normal(q) \in Seq(Nat) /\ InOrder(q, U!Normal(q))
<1> PICK n \in Nat : n = Len(q) /\ q \in [1..n -> Nat] /\ DOMAIN q = 1..n
  BY LenProperties
<1> PICK S : S = Range(q)
  OBVIOUS
<1>1. S \subseteq Nat /\ S = { q[i] : i \in 1..n } /\ U!Range(q) = S
  BY Named DEF Range
<1>2. \A i, j \in 1..n : q[i] = q[j] => i = j
  <2>1. \A i, j \in 1..n : j < i => q[j] # q[i]
    <3> SUFFICES ASSUME NEW i \in 1..n, NEW j \in 1..n, j < i PROVE q[j] # q[i]
      OBVIOUS
    <3>1. j \in 1..(i - 1)
      OBVIOUS
    <3> QED BY <3>1 DEF Plain, U!Resolvable
  <2>2. \A i, j \in 1..n : i < j \/ j < i \/ i = j
    OBVIOUS
  <2> QED BY <2>1, <2>2
<1>3. q \in Bijection(1..n, S)
  <2>1. q \in [1..n -> S] /\ \A a \in S : \E i \in 1..n : q[i] = a
    BY <1>1
  <2> QED BY <1>2, <2>1, Zenon DEF Bijection, Injection, IsInjective, Surjection
<1>4. IsFiniteSet(S) /\ Cardinality(S) = n
  <2>1. ExistsBijection(1..n, S)
    BY <1>3 DEF ExistsBijection
  <2> QED BY <2>1, Interval, FS_Bijection
<1>5. PICK f \in [1..n -> S] : Range(f) = S /\ \A i, j \in 1..n : i < j => f[i] < f[j]
  BY <1>1, <1>4, NumbersInOrder
<1> DEFINE Sorted(s) == U!Range(s) = S /\ \A i, j \in 1..n : i < j => s[i] < s[j]
<1>6. f \in [1..n -> S] /\ Sorted(f)
  BY <1>5, Named
<1>7. U!Normal(q) = CHOOSE s \in [1..n -> S] : Sorted(s)
  BY <1>1 DEF U!Normal
<1> PICK s : s = U!Normal(q)
  OBVIOUS
<1>8. s \in [1..n -> S] /\ Sorted(s)
  <2> HIDE DEF Sorted
  <2> QED BY <1>6, <1>7
<1>9. s \in Seq(Nat) /\ Len(s) = n /\ DOMAIN s = 1..n
  <2>1. s \in [1..n -> Nat]
    BY <1>1, <1>8
  <2> QED BY <2>1
<1> QED BY <1>8, <1>9, Named DEF InOrder

(* No name has been looked at.                                             *)
LEMMA UniqueStart ==
  ASSUME nq \in Seq(Seq(Nat)), \A k \in DOMAIN nq : Len(nq[k]) >= 2, U!Start
  PROVE  UniqueInv
<1>1. /\ written = nq /\ u = 1 /\ resolved = 0 /\ errs = 0 /\ progress = "resolve"
  BY DEF U!Start
<1>2. Len(nq) \in Nat /\ DOMAIN nq = 1..Len(nq)
  BY LenProperties
<1>3. \A k \in 1..Len(nq) : Len(nq[k]) \in Nat
  BY LenProperties, ElementOfSeq
<1>4. 1 <= Len(nq) => 0 < Len(nq[1])
  <2> SUFFICES ASSUME 1 <= Len(nq) PROVE 0 < Len(nq[1])
    OBVIOUS
  <2>1. 1 \in 1..Len(nq) /\ 1 \in DOMAIN nq
    BY <1>2
  <2>2. Len(nq[1]) \in Nat /\ Len(nq[1]) >= 2
    BY <1>3, <2>1
  <2> QED BY <2>2
<1>5. u \in 1..(Len(nq) + 1) /\ \A k \in 1..0 : FALSE
  BY <1>1, <1>2
<1>6. \A k \in 1..(u - 1) : Plain(written[k])
  BY <1>1
<1>7. u <= Len(nq) => \A i \in 1..resolved : U!Resolvable(written[u], i)
  BY <1>1
<1> QED BY <1>1, <1>2, <1>4, <1>5, <1>6, <1>7 DEF UniqueInv

(* Each step keeps the invariant of unique statements.                     *)
LEMMA UniqueStep ==
  ASSUME UniqueInv, U!Next
  PROVE  UniqueInv'
<1> PICK n \in Nat : n = Len(nq) /\ n = Len(written)
  BY LenProperties DEF UniqueInv
<1>1. /\ written \in Seq(Seq(Nat)) /\ nq \in Seq(Seq(Nat)) /\ u \in 1..(n + 1)
      /\ \A k \in 1..n : Len(written[k]) >= 2
      /\ \A k \in 1..n : written[k] \in Seq(Nat) /\ Len(written[k]) \in Nat
  BY LenProperties, ElementOfSeq DEF UniqueInv
<1>2. CASE U!Resolve
  <2>1. /\ progress = "resolve" /\ u <= n /\ nq = written
        /\ written' = written /\ nq' = nq /\ progress' = progress
        /\ errs \in Nat /\ resolved \in Nat /\ resolved < Len(written[u]) /\ u \in 1..n
    BY <1>1, <1>2 DEF U!Resolve, UniqueInv
  <2>2. /\ errs' = IF U!Resolvable(written[u], resolved + 1) THEN errs ELSE errs + 1
        /\ IF resolved + 1 = Len(written[u])
           THEN u' = u + 1 /\ resolved' = 0
           ELSE resolved' = resolved + 1 /\ u' = u
    BY <1>2, <2>1 DEF U!Resolve
  <2>3. errs' \in Nat /\ (errs' = 0 => errs = 0 /\ U!Resolvable(written[u], resolved + 1))
    BY <2>1, <2>2
  <2>4. ASSUME errs' = 0
        PROVE  /\ \A k \in 1..(u - 1) : Plain(written[k])
               /\ \A i \in 1..(resolved + 1) : U!Resolvable(written[u], i)
    <3>1. /\ \A k \in 1..(u - 1) : Plain(written[k])
          /\ \A i \in 1..resolved : U!Resolvable(written[u], i)
      BY <2>1, <2>3, <2>4 DEF UniqueInv
    <3>2. \A i \in 1..(resolved + 1) : i = resolved + 1 \/ i \in 1..resolved
      BY <2>1
    <3> QED BY <2>3, <2>4, <3>1, <3>2
  <2>5. CASE resolved + 1 = Len(written[u])
    <3>1. u' = u + 1 /\ resolved' = 0
      BY <2>2, <2>5
    <3>2. ASSUME errs' = 0 PROVE \A k \in 1..u : Plain(written[k])
      <4>1. \A k \in 1..u : k = u \/ k \in 1..(u - 1)
        BY <2>1
      <4> QED BY <2>4, <2>5, <3>2, <4>1 DEF Plain
    <3>3. u' <= n => resolved' < Len(written'[u'])
      <4>1. u' <= n => u' \in 1..n
        BY <2>1, <3>1
      <4> QED BY <1>1, <2>1, <3>1, <4>1
    <3>4. u' \in 1..(n + 1) /\ u' - 1 = u /\ ~(1 <= 0)
      BY <2>1, <3>1
    <3> QED BY <1>1, <2>1, <2>3, <3>1, <3>2, <3>3, <3>4 DEF UniqueInv
  <2>6. CASE resolved + 1 # Len(written[u])
    <3>1. u' = u /\ resolved' = resolved + 1
      BY <2>2, <2>6
    <3>2. resolved' < Len(written'[u']) /\ resolved' \in Nat
      BY <1>1, <2>1, <2>6, <3>1
    <3>3. \A q, i : U!Resolvable(q, i)' = U!Resolvable(q, i)
      BY Zenon DEF U!Resolvable
    <3> QED BY <1>1, <2>1, <2>3, <2>4, <3>1, <3>2, <3>3 DEF UniqueInv
  <2> QED BY <2>5, <2>6
<1>3. CASE U!EndResolve
  <2>1. /\ progress = "resolve" /\ u > n /\ nq = written /\ errs \in Nat
        /\ progress' = IF errs > 0 THEN "refused" ELSE "check"
        /\ u' = 1 /\ nq' = nq /\ written' = written /\ resolved' = resolved /\ errs' = errs
    BY <1>3 DEF U!EndResolve, UniqueInv
  <2>2. CASE errs > 0
    BY <1>1, <2>1, <2>2 DEF UniqueInv
  <2>3. CASE ~(errs > 0)
    <3>1. errs = 0 /\ progress' = "check"
      BY <2>1, <2>3
    <3>2. \A k \in 1..n : Plain(written[k])
      <4>1. \A k \in 1..n : k \in 1..(u - 1)
        BY <1>1, <2>1
      <4> QED BY <2>1, <3>1, <4>1 DEF UniqueInv
    <3>3. \A k \in 1..n : ~(k < 1)
      OBVIOUS
    <3> QED BY <1>1, <2>1, <3>1, <3>2, <3>3 DEF UniqueInv
  <2> QED BY <2>2, <2>3
<1>4. CASE U!Check
  <2>1. progress = "check" /\ u <= n /\ u \in 1..n /\ written' = written /\ resolved' = resolved
    BY <1>1, <1>4 DEF U!Check
  <2>2. CASE U!Compared(u) # {}
    <3>1. progress' = "refused" /\ nq' = nq /\ u' = u
      BY <1>4, <2>2 DEF U!Check
    <3> QED BY <1>1, <2>1, <3>1 DEF UniqueInv
  <2>3. CASE U!Compared(u) = {}
    <3>1. /\ nq' = [nq EXCEPT ![u] = U!Normal(nq[u])] /\ u' = u + 1
          /\ errs' = errs /\ progress' = "check"
      BY <1>4, <2>1, <2>3 DEF U!Check
    <3>2. \A k \in 1..n : /\ Plain(written[k])
                          /\ k < u => InOrder(written[k], nq[k])
                          /\ k >= u => nq[k] = written[k]
      BY <2>1 DEF UniqueInv
    <3>3. nq[u] = written[u] /\ U!Normal(nq[u]) \in Seq(Nat) /\ InOrder(written[u], U!Normal(nq[u]))
      <4> PICK q \in Seq(Nat) : q = written[u]
        BY <1>1, <2>1
      <4>1. nq[u] = q /\ Plain(q)
        <5>1. u \in 1..n /\ u >= u
          BY <2>1
        <5>2. nq[u] = written[u] /\ Plain(written[u])
          BY <3>2, <5>1, Zenon
        <5> QED BY <5>2
      <4>2. U!Normal(q) \in Seq(Nat) /\ InOrder(q, U!Normal(q))
        BY <4>1, NormalProperties
      <4> QED BY <4>1, <4>2
    <3>4. /\ nq' \in Seq(Seq(Nat)) /\ Len(nq') = n
          /\ nq'[u] = U!Normal(nq[u]) /\ \A k \in 1..n : k # u => nq'[k] = nq[k]
      <4>1. nq \in [1..n -> Seq(Nat)]
        BY <1>1, LenProperties
      <4>2. nq' \in [1..n -> Seq(Nat)]
        BY <2>1, <3>1, <3>3, <4>1
      <4> QED BY <2>1, <3>1, <4>1, <4>2
    <3>5. \A k \in 1..n : /\ k < u + 1 => k < u \/ k = u
                          /\ k >= u + 1 => k >= u /\ k # u
                          /\ k < u => k # u
      BY <1>1
    <3>6. \A k \in 1..n : /\ k < u + 1 => InOrder(written[k], nq'[k])
                          /\ k >= u + 1 => nq'[k] = written[k]
      BY <3>2, <3>3, <3>4, <3>5
    <3>7. u' \in 1..(n + 1)
      BY <2>1, <3>1
    <3> QED BY <1>1, <2>1, <3>1, <3>2, <3>4, <3>6, <3>7 DEF UniqueInv, InOrder
  <2> QED BY <2>2, <2>3
<1>5. CASE U!EndCheck
  <2>1. /\ progress = "check" /\ u > n /\ progress' = "accepted"
        /\ nq' = nq /\ written' = written /\ u' = u /\ resolved' = resolved /\ errs' = errs
    BY <1>5 DEF U!EndCheck
  <2> QED BY <1>1, <2>1 DEF UniqueInv
<1> QED BY <1>2, <1>3, <1>4, <1>5 DEF U!Next

(***************************************************************************)
(* The order of structures.  A structure of a walk is behind the first of  *)
(* it, and is lifted above the one that embeds it: at once or, if not yet  *)
(* in this walk, by the call that is to reach it.                          *)
(***************************************************************************)
WalkType == [at : Structs, field : Nat \ {0}, high : Nat]

Tree == \A p, q, t \in Structs : O!Embeds(p, t) /\ O!Embeds(q, t) => p = q
Acyclic == \A p \in Structs : p \notin Below(p)

OrderTyped ==
  /\ Graph
  /\ colour \in [Structs -> Nat] /\ height \in [Structs -> Nat]
  /\ root \in 1..(Len(refs) + 1) /\ now \in Nat \ {0} /\ calls \in Seq(WalkType)
  /\ sorted \in BOOLEAN

Visited(p) == colour[p] = now

Colours ==
  /\ \A p \in Structs : colour[p] <= now /\ (calls = <<>> => ~Visited(p))
  /\ \A i \in DOMAIN calls : Visited(calls[i].at)
  /\ \A i, j \in DOMAIN calls : calls[i].at = calls[j].at => i = j
  /\ \A i \in 1..(root - 1) :
       ~sorted => colour[order[i]] # 0 \/ refs[order[i]] = <<>>

FromRoot ==
  calls # <<>> =>
    \A t \in Structs : Visited(t) =>
      t = calls[1].at \/ (t \in Below(calls[1].at) /\ \A p \in Structs : O!Embeds(p, t) => Visited(p))

ToLift(p, t) ==
  \E i \in DOMAIN calls :
    /\ calls[i].at = p /\ height[t] + calls[i].high >= height[p] + 1
    /\ \A k \in DOMAIN refs[p] : refs[p][k] = t => calls[i].field <= k

Lifted(p, t) ==
  /\ ~Visited(p) => height[t] >= height[p] /\ (colour[p] # 0 => height[t] >= height[p] + 1)
  /\ Visited(p) /\ Visited(t) => height[t] >= height[p] + 1
  /\ Visited(p) /\ ~Visited(t) => ToLift(p, t)

OrderInv ==
  /\ OrderTyped /\ Colours
  /\ Tree => FromRoot /\ \A p, t \in Structs : O!Embeds(p, t) => Lifted(p, t)
  /\ sorted =>
       /\ calls = <<>> /\ \A i, j \in 1..Len(refs) : i < j => O!Before(order[i], order[j])
       /\ \A p \in Structs : colour[p] # 0 \/ refs[p] = <<>>

(* No structure has been reached, or lifted.                               *)
LEMMA OrderStart ==
  ASSUME Graph, O!Start
  PROVE  OrderInv
<1>1. /\ colour = [p \in Structs |-> 0] /\ height = [p \in Structs |-> 0]
      /\ root = 1 /\ now = 1 /\ calls = <<>> /\ sorted = FALSE
  BY GraphTyped DEF O!Start
<1>2. Len(refs) \in Nat
  BY GraphTyped
<1>3. OrderTyped
  <2>1. root \in 1..(Len(refs) + 1) /\ calls \in Seq(WalkType)
    BY <1>1, <1>2
  <2>2. colour \in [Structs -> Nat] /\ height \in [Structs -> Nat]
    BY <1>1
  <2>3. now \in Nat \ {0}
    BY <1>1
  <2>4. sorted \in BOOLEAN
    BY <1>1, Zenon
  <2> QED BY <2>1, <2>2, <2>3, <2>4 DEF OrderTyped
<1>4. \A p \in Structs : colour[p] = 0 /\ height[p] = 0
  BY <1>1
<1>5. Colours
  BY <1>1, <1>4 DEF Colours, Visited
<1>6. FromRoot
  BY <1>1 DEF FromRoot
<1>7. \A p, t \in Structs : Lifted(p, t)
  BY <1>1, <1>4 DEF Lifted, Visited
<1> QED BY <1>1, <1>3, <1>5, <1>6, <1>7 DEF OrderInv

(* A walk starts, or is not needed.                                        *)
LEMMA OrderWalk ==
  ASSUME OrderInv, Acyclic, O!StartWalk
  PROVE  OrderInv'
<1> PICK n \in Nat : n = Len(refs)
  BY GraphTyped DEF OrderInv, OrderTyped
<1>1. /\ calls = <<>> /\ root <= n /\ root' = root + 1 /\ refs' = refs /\ order' = order
      /\ height' = height /\ sorted' = sorted
  BY DEF O!StartWalk, O!N
<1>2. /\ Graph /\ colour \in [Structs -> Nat] /\ height \in [Structs -> Nat]
      /\ root \in 1..n /\ now \in Nat \ {0} /\ sorted \in BOOLEAN
  <2>1. root \in 1..(n + 1)
    BY DEF OrderInv, OrderTyped
  <2>2. root \in 1..n
    BY <1>1, <2>1
  <2> QED BY <2>2 DEF OrderInv, OrderTyped
<1> PICK p \in Structs : p = order[root]
  BY <1>2, GraphTyped
<1>3. /\ \A q \in Structs : colour[q] <= now /\ ~Visited(q)
      /\ \A i \in 1..(root - 1) : ~sorted => colour[order[i]] # 0 \/ refs[order[i]] = <<>>
  BY <1>1 DEF OrderInv, Colours
<1>4. \A i \in 1..(root' - 1) : i = root \/ i \in 1..(root - 1)
  BY <1>1, <1>2
<1>5. /\ Structs' = Structs /\ Graph' /\ root' \in 1..(Len(refs') + 1) /\ WalkType' = WalkType
      /\ Tree' = Tree /\ \A q, t : O!Embeds(q, t)' = O!Embeds(q, t)
  <2>1. Structs' = Structs /\ Graph' /\ WalkType' = WalkType
    BY <1>1, <1>2, SameEnds DEF Graph, WalkType
  <2>2. root' \in 1..(Len(refs') + 1)
    BY <1>1, <1>2
  <2>3. \A q, t : O!Embeds(q, t)' = O!Embeds(q, t)
    BY <1>1, Zenon DEF O!Embeds
  <2>4. Tree' = Tree
    BY <2>1, <2>3, Zenon DEF Tree
  <2> QED BY <2>1, <2>2, <2>3, <2>4
<1>6. sorted => /\ \A i, j \in 1..Len(refs) : i < j => O!Before(order[i], order[j])
                /\ \A q \in Structs : colour[q] # 0 \/ refs[q] = <<>>
  BY DEF OrderInv
<1>7. CASE colour[p] # 0
  <2>1. colour' = colour /\ calls' = calls /\ now' = now
    BY <1>7 DEF O!StartWalk
  <2>2. OrderTyped'
    BY <1>1, <1>2, <1>5, <2>1 DEF OrderTyped
  <2>3. Colours'
    BY <1>1, <1>3, <1>4, <1>5, <1>7, <2>1 DEF Colours, Visited
  <2>4. FromRoot'
    BY <1>1, <2>1 DEF FromRoot
  <2>5. \A q, t \in Structs : Lifted(q, t) <=> Lifted(q, t)'
    BY <1>1, <2>1 DEF Lifted, Visited, ToLift
  <2>6. (sorted => /\ calls = <<>> /\ \A i, j \in 1..Len(refs) : i < j => O!Before(order[i], order[j])
                   /\ \A q \in Structs : colour[q] # 0 \/ refs[q] = <<>>)'
    BY <1>1, <1>5, <1>6, <2>1 DEF O!Before
  <2> QED BY <1>5, <2>2, <2>3, <2>4, <2>5, <2>6 DEF OrderInv
<1>8. CASE colour[p] = 0 /\ refs[p] = <<>>
  <2>1. colour' = colour /\ calls' = calls /\ now' = now + 1
    BY <1>8 DEF O!StartWalk
  <2>2. OrderTyped'
    BY <1>1, <1>2, <1>5, <2>1 DEF OrderTyped
  <2>3. \A q \in Structs : colour[q] < now + 1 /\ colour[q] <= now + 1 /\ colour[q] # now + 1
    BY <1>2, <1>3
  <2>4. Colours'
    BY <1>1, <1>3, <1>4, <1>5, <1>8, <2>1, <2>3 DEF Colours, Visited
  <2>5. FromRoot'
    BY <1>1, <2>1 DEF FromRoot
  <2>6. \A q, t \in Structs : Lifted(q, t) => Lifted(q, t)'
    BY <1>1, <1>3, <2>1, <2>3 DEF Lifted, Visited
  <2>7. (sorted => /\ calls = <<>> /\ \A i, j \in 1..Len(refs) : i < j => O!Before(order[i], order[j])
                   /\ \A q \in Structs : colour[q] # 0 \/ refs[q] = <<>>)'
    BY <1>1, <1>5, <1>6, <2>1 DEF O!Before
  <2> QED BY <1>5, <2>2, <2>4, <2>5, <2>6, <2>7 DEF OrderInv
<1>9. CASE colour[p] = 0 /\ refs[p] # <<>>
  <2>1. colour' = [colour EXCEPT ![p] = now] /\ now' = now
        /\ calls' = <<[at |-> p, field |-> 1, high |-> 1]>>
    BY <1>9 DEF O!StartWalk
  <2>2. /\ colour' \in [Structs -> Nat] /\ colour'[p] = now
        /\ \A q \in Structs : q # p => colour'[q] = colour[q]
    BY <1>2, <2>1
  <2> PICK call : call = [at |-> p, field |-> 1, high |-> 1]
    OBVIOUS
  <2>3. /\ calls' \in Seq(WalkType) /\ DOMAIN (calls') = {1} /\ calls'[1] = call
        /\ call.at = p /\ call.field = 1 /\ call.high = 1 /\ calls' # <<>>
    <3>1. call \in WalkType
      BY DEF WalkType
    <3>2. <<call>> \in Seq(WalkType) /\ DOMAIN <<call>> = {1} /\ <<call>>[1] = call /\ <<call>> # <<>>
      BY <3>1
    <3> QED BY <2>1, <3>2
  <2>4. ~sorted
    BY <1>6, <1>9
  <2>5. OrderTyped'
    BY <1>1, <1>2, <1>5, <2>1, <2>2, <2>3 DEF OrderTyped
  <2>6. \A q \in Structs : /\ Visited(q)' <=> q = p
                           /\ colour'[q] <= now /\ (colour[q] # 0 => colour'[q] # 0)
    BY <1>2, <1>3, <2>1, <2>2 DEF Visited
  <2>7. Colours'
    <3>1. \A i \in 1..(root' - 1) : order[i] \in Structs
      <4>1. \A i \in 1..n : order[i] \in Structs
        BY <1>2, GraphTyped
      <4>2. \A i \in 1..(root' - 1) : i \in 1..n
        BY <1>1, <1>2
      <4> QED BY <4>1, <4>2
    <3>2. colour'[p] # 0
      BY <1>2, <2>2
    <3>3. \A i \in 1..(root' - 1) : colour'[order[i]] # 0 \/ refs[order[i]] = <<>>
      BY <1>3, <1>4, <2>4, <2>6, <3>1, <3>2
    <3>4. \A q \in Structs : Visited(q)' <=> q = p
      BY <2>6
    <3> QED BY <1>1, <1>5, <2>1, <2>3, <2>6, <3>3, <3>4 DEF Colours
  <2>8. FromRoot'
    BY <1>1, <2>3, <2>6, <1>5 DEF FromRoot
  <2>9. ASSUME NEW q \in Structs, NEW t \in Structs, O!Embeds(q, t), Lifted(q, t)
        PROVE  Lifted(q, t)'
    <3>1. ~Visited(q) /\ height[t] >= height[q] /\ (colour[q] # 0 => height[t] >= height[q] + 1)
      BY <1>3, <2>9 DEF Lifted
    <3>2. CASE q # p
      BY <1>1, <2>2, <2>6, <3>1, <3>2 DEF Lifted
    <3>3. CASE q = p
      <4>1. t # p
        BY <1>2, <2>9, <3>3, BelowProperties, Named DEF Acyclic, O!Embeds, Range
      <4>2. ToLift(q, t)'
        <5>1. \A k \in DOMAIN refs[q] : 1 <= k
          BY <1>2, FieldTyped
        <5>2. height[t] \in Nat /\ height[q] \in Nat
          BY <1>2
        <5>3. 1 \in {1} /\ height[t] + 1 >= height[q] + 1
          BY <3>1, <5>2
        <5> QED BY <1>1, <2>3, <3>3, <5>1, <5>3 DEF ToLift
      <4> QED BY <2>6, <3>3, <4>1, <4>2 DEF Lifted
    <3> QED BY <3>2, <3>3
  <2> QED BY <1>1, <1>5, <2>4, <2>5, <2>7, <2>8, <2>9 DEF OrderInv
<1> QED BY <1>7, <1>8, <1>9

(* The innermost call of annotate().                                       *)
LEMMA TopCall ==
  ASSUME OrderTyped, calls # <<>>
  PROVE  /\ Len(calls) \in Nat \ {0} /\ DOMAIN calls = 1..Len(calls)
         /\ O!Last(calls) = calls[Len(calls)] /\ calls[Len(calls)] \in WalkType
         /\ \A i \in 1..Len(calls) : calls[i] \in WalkType
         /\ O!Front(calls) \in Seq(WalkType) /\ Len(O!Front(calls)) = Len(calls) - 1
         /\ \A i \in 1..(Len(calls) - 1) : O!Front(calls)[i] = calls[i]
<1>1. calls \in Seq(WalkType)
  BY DEF OrderTyped
<1>2. /\ Len(calls) \in Nat \ {0}
      /\ O!Last(calls) = calls[Len(calls)] /\ calls[Len(calls)] \in WalkType
      /\ O!Front(calls) \in Seq(WalkType) /\ Len(O!Front(calls)) = Len(calls) - 1
      /\ \A i \in 1..(Len(calls) - 1) : O!Front(calls)[i] = calls[i]
  BY <1>1, Popped, Named
<1>3. DOMAIN calls = 1..Len(calls) /\ \A i \in 1..Len(calls) : calls[i] \in WalkType
  BY <1>1, LenProperties, ElementOfSeq
<1> QED BY <1>2, <1>3

(* A call that has looked at all fields has lifted their targets.          *)
LEMMA OrderReturn ==
  ASSUME OrderInv, calls # <<>>, O!Last(calls).field > Len(refs[O!Last(calls).at]), O!Annotate
  PROVE  OrderInv'
<1> PICK n \in Nat \ {0} : n = Len(calls)
  BY TopCall DEF OrderInv
<1> PICK top \in WalkType : top = calls[n]
  BY TopCall DEF OrderInv
<1>1. /\ refs' = refs /\ order' = order /\ root' = root /\ sorted' = sorted
      /\ calls' = O!Front(calls) /\ colour' = colour /\ height' = height
      /\ now' = IF n = 1 THEN now + 1 ELSE now
  BY DEF O!Annotate
<1>2. /\ OrderTyped /\ Colours /\ Graph /\ colour \in [Structs -> Nat] /\ height \in [Structs -> Nat]
      /\ root \in 1..(Len(refs) + 1) /\ now \in Nat \ {0} /\ sorted \in BOOLEAN
  BY DEF OrderInv, OrderTyped
<1>3. /\ DOMAIN calls = 1..n /\ O!Last(calls) = top
      /\ calls' \in Seq(WalkType) /\ Len(calls') = n - 1
      /\ \A i \in 1..(n - 1) : calls'[i] = calls[i]
  BY <1>1, <1>2, TopCall
<1>4. DOMAIN (calls') = 1..(n - 1) /\ \A i \in 1..(n - 1) : i \in 1..n
  BY <1>3, LenProperties
<1>5. calls' = <<>> <=> n = 1
  BY <1>3, EmptySeq
<1>6. ~sorted
  BY DEF OrderInv
<1>7. /\ Structs' = Structs /\ Graph' /\ WalkType' = WalkType
      /\ \A q, t : O!Embeds(q, t)' = O!Embeds(q, t)
  BY <1>1, <1>2, SameEnds DEF Graph, WalkType, O!Embeds
<1>8. Tree' = Tree
  BY <1>7, Zenon DEF Tree
<1>9. OrderTyped'
  <2>1. now' \in Nat \ {0}
    BY <1>1, <1>2
  <2> QED BY <1>1, <1>2, <1>3, <1>7, <2>1 DEF OrderTyped
<1>10. \A p \in Structs : colour[p] <= now /\ colour[p] \in Nat
  BY <1>2 DEF Colours
<1>11. ASSUME NEW p \in Structs, NEW t \in Structs, ToLift(p, t), O!Embeds(p, t)
       PROVE  n # 1 /\ ToLift(p, t)'
  <2>1. PICK i \in 1..n :
          /\ calls[i].at = p /\ height[t] + calls[i].high >= height[p] + 1
          /\ \A k \in DOMAIN refs[p] : refs[p][k] = t => calls[i].field <= k
    BY <1>3, <1>11 DEF ToLift
  <2>2. PICK k \in DOMAIN refs[p] : refs[p][k] = t
    BY <1>11, Named DEF O!Embeds, Range
  <2>3. i # n
    <3> SUFFICES ASSUME i = n PROVE FALSE
      OBVIOUS
    <3>1. top.at = p /\ top.field <= k /\ top.field > Len(refs[p])
      BY <1>3, <2>1, <2>2
    <3>2. k <= Len(refs[p]) /\ k \in Nat /\ Len(refs[p]) \in Nat /\ top.field \in Nat
      BY <1>2, FieldTyped DEF WalkType
    <3> QED BY <3>1, <3>2
  <2>4. i \in 1..(n - 1) /\ n # 1
    BY <2>3
  <2> QED BY <1>1, <1>3, <1>4, <2>1, <2>4 DEF ToLift
<1>12. CASE n = 1
  <2>1. now' = now + 1 /\ calls' = <<>>
    BY <1>1, <1>5, <1>12
  <2>2. \A p \in Structs : colour[p] <= now + 1 /\ colour[p] # now + 1
    BY <1>2, <1>10
  <2>3. Colours'
    BY <1>1, <1>2, <1>6, <1>7, <2>1, <2>2 DEF Colours, Visited
  <2>4. FromRoot'
    BY <2>1 DEF FromRoot
  <2>5. ASSUME NEW p \in Structs, NEW t \in Structs, O!Embeds(p, t), Lifted(p, t)
        PROVE  Lifted(p, t)'
    <3>1. height[t] \in Nat /\ height[p] \in Nat
      BY <1>2
    <3>2. height[t] >= height[p] /\ (colour[p] # 0 => height[t] >= height[p] + 1)
      BY <1>11, <1>12, <2>5, <3>1 DEF Lifted
    <3> QED BY <1>1, <2>1, <2>2, <3>2 DEF Lifted, Visited
  <2> QED BY <1>1, <1>6, <1>7, <1>8, <1>9, <2>3, <2>4, <2>5 DEF OrderInv
<1>13. CASE n # 1
  <2>1. now' = now /\ calls' # <<>> /\ 1 \in 1..(n - 1) /\ 1 \in 1..n
    BY <1>1, <1>5, <1>13
  <2>2. \A p \in Structs : Visited(p)' <=> Visited(p)
    BY <1>1, <2>1 DEF Visited
  <2>3. Colours'
    <3>1. \A p \in Structs : colour'[p] <= now'
      BY <1>1, <1>10, <2>1
    <3>2. \A i \in DOMAIN (calls') : Visited(calls[i].at)'
      <4>1. \A i \in 1..n : colour[calls[i].at] = now
        BY <1>2, <1>3 DEF Colours, Visited
      <4>2. \A i \in 1..(n - 1) : colour'[calls'[i].at] = now'
        BY <1>1, <1>3, <1>4, <2>1, <4>1
      <4> QED BY <1>4, <4>2 DEF Visited
    <3>3. \A i, j \in DOMAIN (calls') : calls'[i].at = calls'[j].at => i = j
      BY <1>2, <1>3, <1>4 DEF Colours
    <3>4. \A i \in 1..(root - 1) : colour[order[i]] # 0 \/ refs[order[i]] = <<>>
      BY <1>2, <1>6 DEF Colours
    <3> QED BY <1>1, <1>7, <2>1, <3>1, <3>2, <3>3, <3>4 DEF Colours
  <2>4. FromRoot => FromRoot'
    <3>1. calls'[1] = calls[1] /\ calls # <<>>
      BY <1>3, <2>1
    <3> QED BY <1>1, <1>7, <2>1, <2>2, <3>1, SameEnds DEF FromRoot
  <2>5. ASSUME NEW p \in Structs, NEW t \in Structs, O!Embeds(p, t), Lifted(p, t)
        PROVE  Lifted(p, t)'
    BY <1>1, <1>11, <2>2, <2>5 DEF Lifted
  <2> QED BY <1>1, <1>6, <1>7, <1>8, <1>9, <2>3, <2>4, <2>5 DEF OrderInv
<1> QED BY <1>12, <1>13

(* A structure that this walk has reached already is passed over.          *)
LEMMA OrderPass ==
  ASSUME OrderInv, calls # <<>>, O!Last(calls).field <= Len(refs[O!Last(calls).at]), O!Annotate,
         colour[refs[O!Last(calls).at][O!Last(calls).field]] = now
  PROVE  OrderInv'
<1> PICK n \in Nat \ {0} : n = Len(calls)
  BY TopCall DEF OrderInv
<1> PICK top \in WalkType : top = calls[n]
  BY TopCall DEF OrderInv
<1>1. /\ OrderTyped /\ Colours /\ Graph /\ colour \in [Structs -> Nat] /\ height \in [Structs -> Nat]
      /\ root \in 1..(Len(refs) + 1) /\ now \in Nat \ {0} /\ sorted \in BOOLEAN
  BY DEF OrderInv, OrderTyped
<1>2. /\ DOMAIN calls = 1..n /\ O!Last(calls) = top
      /\ O!Front(calls) \in Seq(WalkType) /\ Len(O!Front(calls)) = n - 1
      /\ \A i \in 1..(n - 1) : O!Front(calls)[i] = calls[i]
  BY <1>1, TopCall
<1>3. top.at \in Structs /\ top.field \in Nat \ {0} /\ top.high \in Nat
  BY DEF WalkType
<1>4. PICK rest : rest = [top EXCEPT !.field = @ + 1]
  OBVIOUS
<1>5. /\ rest \in WalkType
      /\ rest.at = top.at /\ rest.field = top.field + 1 /\ rest.high = top.high
  <2>1. top.field + 1 \in Nat \ {0}
    BY <1>3
  <2> QED BY <1>3, <1>4, <2>1 DEF WalkType
<1>6. /\ refs' = refs /\ order' = order /\ root' = root /\ sorted' = sorted
      /\ calls' = Append(O!Front(calls), rest) /\ colour' = colour /\ height' = height /\ now' = now
  <2>1. ~(O!Last(calls).field > Len(refs[O!Last(calls).at]))
    BY <1>1, <1>2, <1>3, FieldTyped
  <2> QED BY <1>2, <1>4, <2>1 DEF O!Annotate
<1>7. /\ calls' \in Seq(WalkType) /\ Len(calls') = n /\ DOMAIN (calls') = 1..n
      /\ \A i \in 1..(n - 1) : calls'[i] = calls[i]
      /\ calls'[n] = rest
  <2> PICK front \in Seq(WalkType) : front = O!Front(calls)
    BY <1>2
  <2>1. Len(front) = n - 1 /\ \A i \in 1..(n - 1) : front[i] = calls[i]
    BY <1>2
  <2>2. /\ Append(front, rest) \in Seq(WalkType) /\ Len(Append(front, rest)) = Len(front) + 1
        /\ DOMAIN Append(front, rest) = 1..(Len(front) + 1)
        /\ \A i \in 1..Len(front) : Append(front, rest)[i] = front[i]
        /\ Append(front, rest)[Len(front) + 1] = rest
    BY <1>5, Pushed
  <2>3. Len(front) + 1 = n
    BY <2>1
  <2> QED BY <1>6, <2>1, <2>2, <2>3
<1>8. \A i \in 1..n : calls'[i].at = calls[i].at /\ calls'[i].high = calls[i].high
  <2>1. \A i \in 1..n : i = n \/ i \in 1..(n - 1)
    OBVIOUS
  <2> QED BY <1>7, <1>5, <2>1
<1>9. ~sorted
  BY DEF OrderInv
<1>10. /\ Structs' = Structs /\ Graph' /\ WalkType' = WalkType
       /\ \A q, t : O!Embeds(q, t)' = O!Embeds(q, t)
  BY <1>1, <1>6, SameEnds DEF Graph, WalkType, O!Embeds
<1>11. Tree' = Tree
  BY <1>10, Zenon DEF Tree
<1>12. OrderTyped'
  BY <1>1, <1>6, <1>7, <1>10 DEF OrderTyped
<1>13. calls' # <<>> /\ \A p \in Structs : Visited(p)' <=> Visited(p)
  BY <1>6, <1>7 DEF Visited
<1>14. Colours'
  <2>1. \A p \in Structs : colour'[p] <= now'
    BY <1>1, <1>6 DEF Colours
  <2>2. \A i \in DOMAIN (calls') : Visited(calls[i].at)'
    BY <1>1, <1>2, <1>6, <1>7, <1>8 DEF Colours, Visited
  <2>3. \A i, j \in DOMAIN (calls') : calls'[i].at = calls'[j].at => i = j
    BY <1>1, <1>2, <1>7, <1>8 DEF Colours
  <2>4. \A i \in 1..(root - 1) : colour[order[i]] # 0 \/ refs[order[i]] = <<>>
    BY <1>1, <1>9 DEF Colours
  <2> QED BY <1>6, <1>10, <1>13, <2>1, <2>2, <2>3, <2>4 DEF Colours
<1>15. FromRoot => FromRoot'
  <2>1. calls'[1].at = calls[1].at
    BY <1>8
  <2> QED BY <1>6, <1>10, <1>13, <2>1, SameEnds DEF FromRoot
<1>16. ASSUME NEW p \in Structs, NEW t \in Structs, ToLift(p, t), ~Visited(t)
       PROVE  ToLift(p, t)'
  <2>1. PICK i \in 1..n :
          /\ calls[i].at = p /\ height[t] + calls[i].high >= height[p] + 1
          /\ \A k \in DOMAIN refs[p] : refs[p][k] = t => calls[i].field <= k
    BY <1>2, <1>16 DEF ToLift
  <2>2. ASSUME NEW k \in DOMAIN refs[p], refs[p][k] = t
        PROVE  calls'[i].field <= k
    <3>1. calls[i].field <= k /\ k \in Nat
      BY <1>1, <2>1, <2>2, FieldTyped
    <3>2. CASE i = n
      <4>1. p = top.at /\ k # top.field
        BY <1>2, <1>16, <2>1, <2>2, <3>2 DEF Visited
      <4>2. top.field <= k /\ top.field \in Nat
        BY <1>3, <3>1, <3>2
      <4>3. top.field + 1 <= k
        BY <3>1, <4>1, <4>2
      <4> QED BY <1>7, <1>5, <3>2, <4>3
    <3>3. CASE i # n
      <4>1. i \in 1..(n - 1)
        BY <3>3
      <4> QED BY <1>7, <3>1, <4>1
    <3> QED BY <3>2, <3>3
  <2> QED BY <1>6, <1>7, <1>8, <2>1, <2>2 DEF ToLift
<1>17. \A p, t \in Structs : Lifted(p, t) => Lifted(p, t)'
  BY <1>6, <1>13, <1>16 DEF Lifted
<1> QED BY <1>6, <1>9, <1>10, <1>11, <1>12, <1>14, <1>15, <1>17 DEF OrderInv

(* A structure is lifted above the one that embeds it, by the call of that *)
(* one, and a call for those it embeds is made.                            *)
LEMMA OrderVisit ==
  ASSUME OrderInv, Acyclic, calls # <<>>, O!Last(calls).field <= Len(refs[O!Last(calls).at]),
         O!Annotate, colour[refs[O!Last(calls).at][O!Last(calls).field]] # now
  PROVE  OrderInv'
<1> PICK n \in Nat \ {0} : n = Len(calls)
  BY TopCall DEF OrderInv
<1> PICK top \in WalkType : top = calls[n]
  BY TopCall DEF OrderInv
<1>1. /\ OrderTyped /\ Colours /\ Graph /\ colour \in [Structs -> Nat] /\ height \in [Structs -> Nat]
      /\ root \in 1..(Len(refs) + 1) /\ now \in Nat \ {0} /\ sorted \in BOOLEAN
  BY DEF OrderInv, OrderTyped
<1>2. /\ DOMAIN calls = 1..n /\ O!Last(calls) = top
      /\ O!Front(calls) \in Seq(WalkType) /\ Len(O!Front(calls)) = n - 1
      /\ \A i \in 1..(n - 1) : O!Front(calls)[i] = calls[i]
  BY <1>1, TopCall
<1>3. top.at \in Structs /\ top.field \in Nat \ {0} /\ top.high \in Nat /\ top.field \in DOMAIN refs[top.at]
  <2>1. top.at \in Structs /\ top.field \in Nat \ {0} /\ top.high \in Nat
    BY DEF WalkType
  <2> QED BY <1>1, <1>2, <2>1, FieldTyped
<1> PICK v \in Structs : v = refs[top.at][top.field]
  BY <1>1, <1>3, FieldTyped
<1>4. PICK rest : rest = [top EXCEPT !.field = @ + 1]
  OBVIOUS
<1>5. /\ rest \in WalkType
      /\ rest.at = top.at /\ rest.field = top.field + 1 /\ rest.high = top.high
  <2>1. top.field + 1 \in Nat \ {0}
    BY <1>3
  <2> QED BY <1>3, <1>4, <2>1 DEF WalkType
<1>6. PICK call : call = [at |-> v, field |-> 1, high |-> top.high + 1]
  OBVIOUS
<1>7. call \in WalkType /\ call.at = v /\ call.field = 1 /\ call.high = top.high + 1
  <2>1. top.high + 1 \in Nat /\ 1 \in Nat \ {0}
    BY <1>3
  <2> QED BY <1>6, <2>1 DEF WalkType
<1>8. /\ refs' = refs /\ order' = order /\ root' = root /\ sorted' = sorted /\ now' = now
      /\ calls' = Append(Append(O!Front(calls), rest), call)
      /\ colour' = [colour EXCEPT ![v] = now]
      /\ height' = [height EXCEPT ![v] = @ + top.high]
      /\ ~Visited(v)
  <2>1. ~(O!Last(calls).field > Len(refs[O!Last(calls).at]))
    BY <1>1, <1>2, <1>3, FieldTyped
  <2> QED BY <1>2, <1>4, <1>6, <2>1 DEF O!Annotate, O!Visit, Visited
<1>9. /\ refs' = refs /\ order' = order /\ root' = root /\ sorted' = sorted /\ now' = now
      /\ ~Visited(v)
  BY <1>8
<1>10. /\ calls' \in Seq(WalkType) /\ Len(calls') = n + 1 /\ DOMAIN (calls') = 1..(n + 1)
       /\ \A i \in 1..(n - 1) : calls'[i] = calls[i]
       /\ calls'[n] = rest /\ calls'[n + 1] = call
  <2> PICK front \in Seq(WalkType) : front = O!Front(calls)
    BY <1>2
  <2>1. Len(front) = n - 1 /\ \A i \in 1..(n - 1) : front[i] = calls[i]
    BY <1>2
  <2>2. /\ Append(Append(front, rest), call) \in Seq(WalkType)
        /\ Len(Append(Append(front, rest), call)) = n + 1
        /\ DOMAIN Append(Append(front, rest), call) = 1..(n + 1)
        /\ \A i \in 1..(n - 1) : Append(Append(front, rest), call)[i] = front[i]
        /\ Append(Append(front, rest), call)[n] = rest
        /\ Append(Append(front, rest), call)[n + 1] = call
    BY <1>5, <1>7, <2>1, PushedTwice
  <2> QED BY <1>8, <2>1, <2>2
<1>11. /\ calls'[n].field = top.field + 1
       /\ calls'[n + 1].at = v /\ calls'[n + 1].field = 1 /\ calls'[n + 1].high = top.high + 1
  <2>1. calls'[n] = rest /\ calls'[n + 1] = call
    BY <1>10, Zenon
  <2> QED BY <1>5, <1>7, <2>1, Zenon
<1>12. \A i \in 1..n : calls'[i].at = calls[i].at /\ calls'[i].high = calls[i].high
  <2>1. \A i \in 1..n : i = n \/ i \in 1..(n - 1)
    OBVIOUS
  <2>2. calls'[n] = rest /\ \A i \in 1..(n - 1) : calls'[i] = calls[i]
    BY <1>10, Zenon
  <2>3. calls'[n].at = calls[n].at /\ calls'[n].high = calls[n].high
    BY <1>5, <2>2, Zenon
  <2> QED BY <2>1, <2>2, <2>3, Zenon
<1>13. ~sorted
  BY DEF OrderInv
<1>14. /\ Structs' = Structs /\ Graph' /\ WalkType' = WalkType
       /\ \A q, t : O!Embeds(q, t)' = O!Embeds(q, t)
  BY <1>1, <1>9, SameEnds DEF Graph, WalkType, O!Embeds
<1>15. Tree' = Tree
  BY <1>14, Zenon DEF Tree
<1>16. /\ colour' \in [Structs -> Nat] /\ colour'[v] = now
       /\ \A q \in Structs : q # v => colour'[q] = colour[q]
       /\ height' \in [Structs -> Nat] /\ height'[v] = height[v] + top.high
       /\ \A q \in Structs : q # v => height'[q] = height[q]
  <2> PICK h \in Nat : h = height[v] + top.high
    BY <1>1, <1>3
  <2>1. colour' = [colour EXCEPT ![v] = now] /\ height' = [height EXCEPT ![v] = h]
    BY <1>8
  <2>2. colour' \in [Structs -> Nat] /\ height' \in [Structs -> Nat]
    BY <1>1, <2>1
  <2>3. colour'[v] = now /\ \A q \in Structs : q # v => colour'[q] = colour[q]
    BY <1>1, <2>1
  <2>4. height'[v] = h /\ \A q \in Structs : q # v => height'[q] = height[q]
    BY <1>1, <2>1
  <2> QED BY <2>2, <2>3, <2>4
<1>17. OrderTyped'
  BY <1>1, <1>9, <1>10, <1>14, <1>16 DEF OrderTyped
<1>18. calls' # <<>> /\ \A p \in Structs : Visited(p)' <=> Visited(p) \/ p = v
  <2>1. calls' # <<>>
    BY <1>10
  <2>2. now' = now
    BY <1>9
  <2>3. \A p \in Structs : colour'[p] = now <=> colour[p] = now \/ p = v
    BY <1>16, Zenon
  <2> QED BY <2>1, <2>2, <2>3 DEF Visited
<1>19. \A i \in 1..(n + 1) : i = n + 1 \/ i \in 1..n
  BY UpTo
<1>20. \A i \in 1..n : Visited(calls[i].at) /\ calls[i].at # v /\ calls[i].at \in Structs
  <2>1. \A i \in 1..n : calls[i].at \in Structs
    BY <1>1, TopCall DEF WalkType
  <2> QED BY <1>1, <1>2, <1>9, <2>1 DEF Colours
<1>21. Colours'
  <2>1. \A p \in Structs : colour'[p] <= now'
    <3>1. \A p \in Structs : colour[p] <= now
      BY <1>1 DEF Colours
    <3>2. now <= now /\ now' = now
      BY <1>1, <1>9
    <3> QED BY <1>16, <3>1, <3>2
  <2>2. ASSUME NEW i \in DOMAIN (calls') PROVE Visited(calls[i].at)'
    <3>1. CASE i = n + 1
      BY <1>18, <1>11, <3>1, Zenon DEF Visited
    <3>2. CASE i \in 1..n
      <4>1. calls'[i].at = calls[i].at
        BY <1>12, <3>2
      <4>2. calls[i].at \in Structs /\ Visited(calls[i].at)
        BY <1>20, <3>2
      <4> QED BY <1>18, <4>1, <4>2, Zenon DEF Visited
    <3> QED BY <1>10, <1>19, <3>1, <3>2
  <2>3. ASSUME NEW i \in DOMAIN (calls'), NEW j \in DOMAIN (calls'), calls'[i].at = calls'[j].at
        PROVE  i = j
    <3>1. \A m \in 1..n : calls'[m].at # v
      BY <1>12, <1>20
    <3>2. calls'[n + 1].at = v
      BY <1>11
    <3>3. \A l, m \in 1..n : calls'[l].at = calls'[m].at => l = m
      <4>1. \A l, m \in 1..n : calls[l].at = calls[m].at => l = m
        BY <1>1, <1>2 DEF Colours
      <4> QED BY <1>12, <4>1, Zenon
    <3> QED BY <1>10, <1>19, <2>3, <3>1, <3>2, <3>3
  <2>4. \A i \in 1..(root - 1) : colour'[order[i]] # 0 \/ refs[order[i]] = <<>>
    <3>1. \A i \in 1..(root - 1) : order[i] \in Structs
      <4>1. \A i \in 1..(root - 1) : i \in 1..Len(refs)
        BY <1>1, GraphTyped
      <4> QED BY <1>1, <4>1, GraphTyped
    <3>2. \A i \in 1..(root - 1) : colour[order[i]] # 0 \/ refs[order[i]] = <<>>
      BY <1>1, <1>13 DEF Colours
    <3>3. colour'[v] # 0 /\ \A q \in Structs : q # v => colour'[q] = colour[q]
      BY <1>1, <1>16
    <3> QED BY <3>1, <3>2, <3>3, Zenon
  <2> QED BY <1>9, <1>14, <1>18, <2>1, <2>2, <2>3, <2>4 DEF Colours
<1> PICK r \in Structs : r = calls[1].at
  <2>1. 1 \in 1..n
    OBVIOUS
  <2> QED BY <1>20, <2>1
<1>22. calls'[1].at = r
  <2>1. 1 \in 1..n
    OBVIOUS
  <2> QED BY <1>12, <2>1
<1>23. O!Embeds(top.at, v)
  BY <1>3, Named DEF O!Embeds, Range
<1>24. Visited(top.at) /\ top.at # v
  <2>1. n \in 1..n
    OBVIOUS
  <2> QED BY <1>20, <2>1
<1>25. ASSUME Tree, FromRoot PROVE FromRoot'
  <2>1. \A t \in Structs : Visited(t) =>
          t = r \/ (t \in Below(r) /\ \A p \in Structs : O!Embeds(p, t) => Visited(p))
    BY <1>25 DEF FromRoot
  <2>2. v \in Below(r)
    <3>1. top.at \in Structs /\ (top.at = r \/ top.at \in Below(r))
      BY <1>3, <1>24, <2>1
    <3>2. v \in Range(refs[top.at])
      BY <1>3 DEF Range
    <3>3. v \in Below(top.at) /\ top.at \in Structs
      BY <1>1, <1>3, BelowProperties
    <3> QED BY <1>1, <3>1, <3>3, BelowProperties
  <2>3. \A p \in Structs : O!Embeds(p, v) => Visited(p)
    BY <1>3, <1>23, <1>24, <1>25 DEF Tree
  <2> QED BY <1>9, <1>14, <1>18, <1>22, <2>1, <2>2, <2>3, SameEnds DEF FromRoot
<1>26. ASSUME Tree, FromRoot, NEW t \in Structs, O!Embeds(v, t) PROVE ~Visited(t) /\ t # v
  <2>1. t \in Below(v)
    <3>1. PICK k \in DOMAIN refs[v] : refs[v][k] = t
      BY <1>26, Named DEF O!Embeds, Range
    <3>2. \A i \in DOMAIN refs[v] : refs[v][i] \in Below(v)
      BY <1>1, BelowProperties
    <3> QED BY <3>1, <3>2
  <2>2. t # v
    BY <2>1 DEF Acyclic
  <2>3. ASSUME Visited(t) PROVE FALSE
    <3>1. t = r
      BY <1>9, <1>26, <2>3 DEF FromRoot
    <3>2. v \in Below(r)
      <4>1. top.at = r \/ top.at \in Below(r)
        BY <1>3, <1>24, <1>26 DEF FromRoot
      <4>2. v \in Below(top.at) /\ top.at \in Structs
        BY <1>1, <1>3, BelowProperties
      <4> QED BY <1>1, <4>1, <4>2, BelowProperties
    <3>3. r \in Below(r)
      BY <1>1, <2>1, <3>1, <3>2, BelowProperties
    <3> QED BY <3>3 DEF Acyclic
  <2> QED BY <2>2, <2>3
<1>27. ASSUME Tree, FromRoot, NEW p \in Structs, NEW t \in Structs, O!Embeds(p, t), Lifted(p, t)
       PROVE  Lifted(p, t)'
  <2>1. height[p] \in Nat /\ height[t] \in Nat
    BY <1>1
  <2>2. CASE p = v
    <3>1. ~Visited(t) /\ t # v /\ height[t] >= height[p]
      BY <1>9, <1>26, <1>27, <2>2 DEF Lifted
    <3>2. height'[t] + call.high >= height'[p] + 1
      <4>1. call.high = top.high + 1 /\ height'[p] = height[p] + top.high /\ height'[t] = height[t]
        BY <1>16, <1>7, <2>2, <3>1
      <4> QED BY <1>3, <2>1, <3>1, <4>1
    <3>3. ToLift(p, t)'
      <4>1. \A k \in DOMAIN refs[p] : 1 <= k
        BY <1>1, FieldTyped
      <4>2. n + 1 \in 1..(n + 1)
        OBVIOUS
      <4>3. calls'[n + 1].at = p /\ calls'[n + 1].field = 1 /\ calls'[n + 1].high = call.high
        BY <1>7, <1>11, <2>2
      <4>4. refs' = refs /\ DOMAIN (calls') = 1..(n + 1)
        BY <1>9, <1>10
      <4> QED BY <3>2, <4>1, <4>2, <4>3, <4>4 DEF ToLift
    <3> QED BY <1>18, <2>2, <3>1, <3>3 DEF Lifted
  <2>3. CASE t = v
    <3>1. p = top.at /\ Visited(p) /\ ~Visited(t) /\ p # v
      BY <1>3, <1>9, <1>23, <1>24, <1>27, <2>3 DEF Tree
    <3>2. PICK i \in 1..n : calls[i].at = p /\ height[t] + calls[i].high >= height[p] + 1
      BY <1>2, <1>27, <3>1 DEF Lifted, ToLift
    <3>3. i = n
      <4>1. n \in 1..n
        OBVIOUS
      <4> QED BY <1>1, <1>2, <3>1, <3>2, <4>1 DEF Colours
    <3>4. height'[t] >= height'[p] + 1
      BY <1>16, <2>3, <3>1, <3>2, <3>3
    <3> QED BY <1>18, <2>3, <3>1, <3>4 DEF Lifted
  <2>4. CASE p # v /\ t # v
    <3>1. /\ height'[p] = height[p] /\ height'[t] = height[t] /\ colour'[p] = colour[p]
          /\ (Visited(p)' <=> Visited(p)) /\ (Visited(t)' <=> Visited(t))
      BY <1>16, <1>18, <2>4
    <3>2. ASSUME ToLift(p, t) PROVE ToLift(p, t)'
      <4>1. PICK i \in 1..n :
              /\ calls[i].at = p /\ height[t] + calls[i].high >= height[p] + 1
              /\ \A k \in DOMAIN refs[p] : refs[p][k] = t => calls[i].field <= k
        BY <1>2, <3>2 DEF ToLift
      <4>2. ASSUME NEW k \in DOMAIN refs[p], refs[p][k] = t
            PROVE  calls'[i].field <= k
        <5>1. calls[i].field <= k /\ k \in Nat
          BY <1>1, <4>1, <4>2, FieldTyped
        <5>2. CASE i = n
          <6>1. p = top.at /\ k # top.field
            BY <2>4, <4>1, <4>2, <5>2
          <6>2. top.field <= k /\ top.field \in Nat
            BY <1>3, <5>1, <5>2
          <6>3. top.field + 1 <= k
            BY <5>1, <6>1, <6>2
          <6> QED BY <1>11, <5>2, <6>3
        <5>3. CASE i # n
          <6>1. i \in 1..(n - 1)
            BY <5>3
          <6> QED BY <1>10, <5>1, <6>1
        <5> QED BY <5>2, <5>3
      <4>3. i \in 1..(n + 1)
        OBVIOUS
      <4> QED BY <1>9, <1>10, <1>12, <3>1, <4>1, <4>2, <4>3 DEF ToLift
    <3> QED BY <1>27, <3>1, <3>2 DEF Lifted
  <2> QED BY <2>2, <2>3, <2>4
<1> QED BY <1>9, <1>13, <1>14, <1>15, <1>17, <1>21, <1>25, <1>27 DEF OrderInv

(* Structures are sorted, each of which has been reached by a walk then,   *)
(* or embeds none.                                                         *)
LEMMA Comparison ==
  ASSUME OrderInv
  PROVE  \E R : /\ Orders(R, Structs)
                /\ \A p, q \in Structs : <<p, q>> \in R <=> O!Before(p, q)
<1>1. PICK R : R = { x \in Structs \X Structs : O!Before(x[1], x[2]) }
  OBVIOUS
<1>2. \A p, q \in Structs : <<p, q>> \in R <=> O!Before(p, q)
  BY <1>1
<1>3. \A p \in Structs : height[p] \in Nat /\ p \in Nat
  BY GraphTyped DEF OrderInv, OrderTyped
<1>4. \A p \in Structs : ~O!Before(p, p)
  BY <1>3 DEF O!Before
<1>5. \A p, q, t \in Structs : O!Before(p, q) /\ O!Before(q, t) => O!Before(p, t)
  BY <1>3 DEF O!Before
<1>6. \A p, q \in Structs : p = q \/ O!Before(p, q) \/ O!Before(q, p)
  BY <1>3 DEF O!Before
<1>7. Orders(R, Structs)
  <2> \A p, q \in Structs : <<p, q>> \in R <=> O!Before(p, q)
    BY <1>2
  <2>1. \A p \in Structs : <<p, p>> \notin R
    BY <1>4, Zenon
  <2>2. \A p, q, t \in Structs : <<p, q>> \in R /\ <<q, t>> \in R => <<p, t>> \in R
    BY <1>5, Zenon
  <2>3. \A p, q \in Structs : p = q \/ <<p, q>> \in R \/ <<q, p>> \in R
    BY <1>6, Zenon
  <2> QED BY <2>1, <2>2, <2>3, Zenon DEF Orders
<1> QED BY <1>2, <1>7

(* Sorting keeps the heights and colours.                                  *)
LEMMA OrderSort ==
  ASSUME OrderInv, O!Sort
  PROVE  OrderInv' /\ sorted'
<1> PICK n \in Nat : n = Len(refs)
  BY GraphTyped DEF OrderInv, OrderTyped
<1>1. /\ calls = <<>> /\ root > n /\ ~sorted /\ sorted' = TRUE
      /\ refs' = refs /\ colour' = colour /\ height' = height /\ root' = root
      /\ now' = now /\ calls' = calls
  BY DEF O!Sort, O!N
<1>2. /\ OrderTyped /\ Colours /\ Graph /\ colour \in [Structs -> Nat] /\ height \in [Structs -> Nat]
      /\ root \in 1..(n + 1) /\ now \in Nat \ {0} /\ calls \in Seq(WalkType)
  BY DEF OrderInv, OrderTyped
<1>3. Structs = 1..n /\ O!Structs = Structs /\ IsFiniteSet(Structs) /\ Cardinality(Structs) = n
  BY <1>2, GraphTyped
<1>4. PICK s \in [1..n -> Structs] :
        /\ order' = s /\ \A i, j \in 1..n : i < j => O!Before(s[i], s[j])
        /\ \A p \in Structs : \E i \in 1..n : s[i] = p
  <2> DEFINE Sorted(s) == \A i, j \in 1..n : i < j => O!Before(s[i], s[j])
  <2>1. PICK R : /\ Orders(R, Structs)
                 /\ \A p, q \in Structs : <<p, q>> \in R <=> O!Before(p, q)
    BY Comparison
  <2>2. Sorts(R, Structs, n)
    BY <1>3, <2>1, Ordering
  <2>3. \A s \in [1..n -> Structs] : Ordered(R, s, n) <=> Sorted(s)
    <3> SUFFICES ASSUME NEW s \in [1..n -> Structs] PROVE Ordered(R, s, n) <=> Sorted(s)
      OBVIOUS
    <3>1. \A i \in 1..n : s[i] \in Structs
      OBVIOUS
    <3>2. \A i, j \in 1..n : <<s[i], s[j]>> \in R <=> O!Before(s[i], s[j])
      BY <2>1, <3>1, Zenon
    <3> QED BY <3>2, Zenon DEF Ordered
  <2> HIDE DEF Sorted
  <2>4. \E s \in [1..n -> Structs] : Sorted(s)
    BY <2>2, <2>3 DEF Sorts
  <2>5. PICK s : s = CHOOSE f \in [1..n -> Structs] : Sorted(f)
    OBVIOUS
  <2>6. s \in [1..n -> Structs] /\ Sorted(s)
    BY <2>4, <2>5, Zenon
  <2>7. order' = s
    BY <1>3, <2>5, Zenon DEF O!Sort, O!N, Sorted
  <2>8. \A p \in Structs : \E i \in 1..n : s[i] = p
    BY <2>2, <2>3, <2>6 DEF Sorts
  <2>9. \A i, j \in 1..n : i < j => O!Before(s[i], s[j])
    BY <2>6, Zenon DEF Sorted
  <2> QED BY <2>6, <2>7, <2>8, <2>9
<1>5. /\ Structs' = Structs /\ WalkType' = WalkType
      /\ \A q, t : O!Embeds(q, t)' = O!Embeds(q, t)
  BY <1>1, SameEnds DEF WalkType, O!Embeds
<1>6. Graph'
  <2>1. s \in Seq(Structs) /\ Len(s) = n /\ DOMAIN s = 1..n
    <3>1. s \in Seq(Structs) /\ DOMAIN s = 1..n
      OBVIOUS
    <3> QED BY <3>1, LenProperties
  <2>2. Range(s) = Structs
    BY <1>4, <2>1 DEF Range
  <2> QED BY <1>1, <1>2, <1>4, <1>5, <2>1, <2>2 DEF Graph
<1>7. OrderTyped'
  BY <1>1, <1>2, <1>5, <1>6 DEF OrderTyped
<1>8. Colours'
  BY <1>1, <1>2, <1>5 DEF Colours, Visited
<1>9. Tree' = Tree
  BY <1>5, Zenon DEF Tree
<1>10. \A p \in Structs : colour[p] # 0 \/ refs[p] = <<>>
  <2> SUFFICES ASSUME NEW p \in Structs PROVE colour[p] # 0 \/ refs[p] = <<>>
    OBVIOUS
  <2>1. PICK i \in 1..n : order[i] = p
    BY <1>2, GraphTyped
  <2>2. i \in 1..(root - 1)
    BY <1>1, <1>2
  <2> QED BY <1>1, <1>2, <2>1, <2>2 DEF Colours
<1>11. (\A i, j \in 1..Len(refs) : i < j => O!Before(order[i], order[j]))'
  BY <1>1, <1>4 DEF O!Before
<1>12. FromRoot'
  BY <1>1 DEF FromRoot
<1>13. \A p, t : Lifted(p, t)' = Lifted(p, t)
  <2>1. \A p : Visited(p)' = Visited(p)
    BY <1>1, Zenon DEF Visited
  <2>2. \A p, t : ToLift(p, t)' = ToLift(p, t)
    BY <1>1, Zenon DEF ToLift
  <2> QED BY <1>1, <2>1, <2>2 DEF Lifted
<1> QED BY <1>1, <1>5, <1>7, <1>8, <1>9, <1>10, <1>11, <1>12, <1>13 DEF OrderInv

(* Each step keeps the invariant of the order.                             *)
LEMMA OrderStep ==
  ASSUME OrderInv, Acyclic, O!Next
  PROVE  OrderInv'
<1>1. CASE O!StartWalk
  BY <1>1, OrderWalk
<1>2. CASE O!Annotate
  <2>1. calls # <<>>
    BY <1>2 DEF O!Annotate
  <2> PICK top \in WalkType : top = O!Last(calls)
    BY <2>1, TopCall DEF OrderInv
  <2>2. top.field \in Nat /\ Len(refs[top.at]) \in Nat
    BY GraphTyped DEF WalkType, OrderInv, OrderTyped
  <2>3. CASE top.field > Len(refs[top.at])
    BY <1>2, <2>1, <2>3, OrderReturn
  <2>4. CASE top.field <= Len(refs[top.at]) /\ colour[refs[top.at][top.field]] = now
    BY <1>2, <2>1, <2>4, OrderPass
  <2>5. CASE top.field <= Len(refs[top.at]) /\ colour[refs[top.at][top.field]] # now
    BY <1>2, <2>1, <2>5, OrderVisit
  <2> QED BY <2>2, <2>3, <2>4, <2>5
<1>3. CASE O!Sort
  BY <1>3, OrderSort
<1> QED BY <1>1, <1>2, <1>3 DEF O!Next

(* Steps of other parts keep what is said of the order.                    *)
LEMMA SameOrder ==
  ASSUME OrderInv, UNCHANGED <<refs, order, OrderVars>>
  PROVE  OrderInv'
<1>1. /\ refs' = refs /\ order' = order /\ colour' = colour /\ height' = height
      /\ root' = root /\ now' = now /\ calls' = calls /\ sorted' = sorted
  BY DEF OrderVars
<1>2. /\ Structs' = Structs /\ WalkType' = WalkType
      /\ \A q, t : O!Embeds(q, t)' = O!Embeds(q, t)
  BY <1>1, SameEnds DEF WalkType, O!Embeds
<1>3. OrderTyped'
  BY <1>1, <1>2 DEF OrderInv, OrderTyped, Graph
<1>4. \A p : Visited(p)' = Visited(p)
  BY <1>1, Zenon DEF Visited
<1>5. \A p, t : ToLift(p, t)' = ToLift(p, t)
  BY <1>1, Zenon DEF ToLift
<1>6. \A p, t : Lifted(p, t)' = Lifted(p, t)
  BY <1>1, <1>4, <1>5 DEF Lifted
<1>7. Colours'
  BY <1>1, <1>2, <1>4 DEF OrderInv, Colours
<1>8. FromRoot' = FromRoot
  BY <1>1, <1>2, <1>4, SameEnds DEF FromRoot
<1>9. Tree' = Tree
  BY <1>2, Zenon DEF Tree
<1>10. sorted => (\A i, j \in 1..Len(refs) : i < j => O!Before(order[i], order[j]))'
  BY <1>1 DEF OrderInv, O!Before
<1> QED BY <1>1, <1>2, <1>3, <1>6, <1>7, <1>8, <1>9, <1>10 DEF OrderInv

(* Sorted by heights, an embedded structure is in front.                   *)
LEMMA TreesLemma ==
  ASSUME OrderInv
  PROVE  TreesSorted
<1> SUFFICES ASSUME sorted, \A t \in Structs : O!Cardinality({ q \in Structs : O!Embeds(q, t) }) <= 1,
                    NEW p \in Structs, NEW t \in Structs, O!Embeds(p, t)
             PROVE  O!Position(t) < O!Position(p)
  <2>1. O!Structs = Structs
    BY GraphTyped DEF OrderInv, OrderTyped
  <2> QED BY <2>1 DEF TreesSorted, O!TreesSorted, O!EmbeddedFirst
<1> PICK n \in Nat : n = Len(refs)
  BY GraphTyped DEF OrderInv, OrderTyped
<1>1. /\ Graph /\ OrderTyped /\ Colours /\ height \in [Structs -> Nat] /\ calls = <<>>
      /\ \A i, j \in 1..n : i < j => O!Before(order[i], order[j])
      /\ \A q \in Structs : colour[q] # 0 \/ refs[q] = <<>>
  BY DEF OrderInv, OrderTyped
<1>2. Tree
  <2> SUFFICES ASSUME NEW a \in Structs, NEW b \in Structs, NEW d \in Structs,
                      O!Embeds(a, d), O!Embeds(b, d)
               PROVE  a = b
    BY DEF Tree
  <2> PICK K \in SUBSET Structs : K = { q \in Structs : O!Embeds(q, d) }
    OBVIOUS
  <2>1. O!Cardinality(K) = Cardinality(K)
    BY DEF O!Cardinality, Cardinality
  <2>2. Cardinality(K) <= 1 /\ a \in K /\ b \in K
    BY <2>1
  <2>3. IsFiniteSet(K) /\ Cardinality(K) \in Nat
    BY <1>1, GraphTyped, FS_Subset, FS_CardinalityType
  <2>4. IsFiniteSet({a, b}) /\ Cardinality({a, b}) <= Cardinality(K)
    BY <2>2, <2>3, FS_Subset
  <2>5. ASSUME a # b PROVE Cardinality({a, b}) = 2
    <3>1. IsFiniteSet({a}) /\ Cardinality({a}) = 1
      BY FS_Singleton
    <3>2. Cardinality({a} \cup {b}) = Cardinality({a}) + 1
      BY <2>5, <3>1, FS_AddElement
    <3>3. {a} \cup {b} = {a, b}
      OBVIOUS
    <3> QED BY <3>1, <3>2, <3>3
  <2> QED BY <2>2, <2>3, <2>4, <2>5
<1>3. height[t] >= height[p] + 1
  <2>1. Lifted(p, t) /\ ~Visited(p)
    BY <1>1, <1>2 DEF OrderInv, Colours
  <2>2. colour[p] # 0
    BY <1>1, Named DEF O!Embeds, Range
  <2> QED BY <2>1, <2>2 DEF Lifted
<1>4. \A q \in Structs : O!Position(q) \in 1..n /\ order[O!Position(q)] = q
  <2> SUFFICES ASSUME NEW q \in Structs PROVE O!Position(q) \in 1..n /\ order[O!Position(q)] = q
    OBVIOUS
  <2>1. \E k \in 1..n : order[k] = q
    BY <1>1, GraphTyped
  <2>2. O!Position(q) = CHOOSE k \in 1..n : order[k] = q
    BY DEF O!Position, O!N
  <2> QED BY <2>1, <2>2, Zenon
<1>5. ~O!Before(p, t) /\ p # t
  <2>1. height[t] \in Nat /\ height[p] \in Nat
    BY <1>1
  <2> QED BY <1>3, <2>1 DEF O!Before
<1>6. ~(O!Position(p) < O!Position(t)) /\ O!Position(p) # O!Position(t)
  BY <1>1, <1>4, <1>5, Zenon
<1> QED BY <1>4, <1>6

(***************************************************************************)
(* Marks.  What is below a structure is what a field of it refers to, or   *)
(* what is below that, so the recursion finds what is below.               *)
(***************************************************************************)
LEMMA BelowSplit ==
  ASSUME Graph, NEW p \in Structs
  PROVE  \A q : q \in Below(p) <=>
           \E k \in DOMAIN refs[p] : q = refs[p][k] \/ q \in Below(refs[p][k])
<1> DEFINE S == { q \in Structs : \E k \in DOMAIN refs[p] : q = refs[p][k] \/ q \in Below(refs[p][k]) }
<1>1. S \in SUBSET Structs
  OBVIOUS
<1>2. \A k \in DOMAIN refs[p] : refs[p][k] \in Structs /\ refs[p][k] \in Below(p)
  BY FieldTyped, BelowProperties
<1>3. Range(refs[p]) \subseteq S
  BY <1>2 DEF Range
<1>4. ASSUME NEW s \in S PROVE Range(refs[s]) \subseteq S
  <2>1. PICK k \in DOMAIN refs[p] : s = refs[p][k] \/ s \in Below(refs[p][k])
    OBVIOUS
  <2>2. Range(refs[s]) \subseteq Below(refs[p][k])
    <3>1. CASE s = refs[p][k]
      <4>1. \A i \in DOMAIN refs[s] : refs[s][i] \in Below(s)
        BY BelowProperties
      <4> QED BY <3>1, <4>1 DEF Range
    <3>2. CASE s \in Below(refs[p][k])
      BY <1>2, <3>2, BelowProperties
    <3> QED BY <2>1, <3>1, <3>2
  <2>3. Range(refs[s]) \subseteq Structs
    BY GraphTyped
  <2> QED BY <2>2, <2>3
<1>5. Below(p) \subseteq S
  <2> HIDE DEF S
  <2> QED BY <1>1, <1>3, <1>4, BelowProperties
<1>6. ASSUME NEW k \in DOMAIN refs[p] PROVE Below(refs[p][k]) \subseteq Below(p)
  BY <1>2, BelowProperties
<1> QED BY <1>2, <1>5, <1>6

Null(q) == \E k \in DOMAIN refs[q] : <<q, k>> \in nullable
NullIn(p) == \E q \in {p} \cup Below(p) : Null(q)
Looks(found) ==
  found = [q \in Structs |->
             \/ q \in marked
             \/ \E k \in DOMAIN refs[q] : <<q, k>> \in nullable \/ found[refs[q][k]]]

(* A field that may be null is one of the structure, or is further down.   *)
LEMMA NullSplit ==
  ASSUME Graph, NEW p \in Structs
  PROVE  NullIn(p) <=> \E k \in DOMAIN refs[p] : <<p, k>> \in nullable \/ NullIn(refs[p][k])
<1>1. \A q : q \in Below(p) <=>
        \E k \in DOMAIN refs[p] : q = refs[p][k] \/ q \in Below(refs[p][k])
  BY BelowSplit
<1> QED BY <1>1 DEF NullIn, Null

(* So check_reffind() finds a field that may be null if there is one.      *)
LEMMA LooksExactly ==
  ASSUME AliasInv, \A q \in Structs : Complete(q),
         marked \subseteq Structs, \A q \in marked : NullIn(q)
  PROVE  \A p \in Structs : HasNullrefs(p) <=> NullIn(p)
<1>1. Graph
  BY DEF AliasInv
<1>2. \A q \in Structs : \A k \in DOMAIN refs[q] : refs[q][k] \in Structs /\ refs[q][k] \in Below(q)
  BY <1>1, FieldTyped, BelowProperties
<1>3. \A q \in Structs : NullIn(q) <=>
        \/ q \in marked
        \/ \E k \in DOMAIN refs[q] : <<q, k>> \in nullable \/ NullIn(refs[q][k])
  BY <1>1, NullSplit
<1>4. \E found : Looks(found)
  <2> PICK found : found = [q \in Structs |-> IF NullIn(q) THEN TRUE ELSE FALSE]
    OBVIOUS
  <2>1. \A q \in Structs : found[q] = IF NullIn(q) THEN TRUE ELSE FALSE
    OBVIOUS
  <2>2. \A q \in Structs : \A k \in DOMAIN refs[q] : found[refs[q][k]] <=> NullIn(refs[q][k])
    BY <1>2, <2>1, Zenon
  <2>3. ASSUME NEW q \in Structs
        PROVE  found[q] = (\/ q \in marked
                           \/ \E k \in DOMAIN refs[q] : <<q, k>> \in nullable \/ found[refs[q][k]])
    <3>1. NullIn(q) <=> (\/ q \in marked
                         \/ \E k \in DOMAIN refs[q] : <<q, k>> \in nullable \/ found[refs[q][k]])
      BY <1>3, <2>2, Zenon
    <3>2. CASE NullIn(q)
      BY <2>1, <3>1, <3>2, Zenon
    <3>3. CASE ~NullIn(q)
      BY <2>1, <3>1, <3>3, Zenon
    <3> QED BY <3>2, <3>3
  <2>4. found = [q \in Structs |-> found[q]]
    OBVIOUS
  <2> QED BY <2>3, <2>4, ZenonT(30) DEF Looks
<1>5. ASSUME NEW found, Looks(found)
      PROVE  \A q \in Structs : found[q] <=> NullIn(q)
  <2> DEFINE Bad == { q \in Structs : ~(found[q] <=> NullIn(q)) }
             Sizes == { Cardinality(Below(q)) : q \in Bad }
  <2> SUFFICES ASSUME Bad # {} PROVE FALSE
    OBVIOUS
  <2>1. \A q \in Structs : Cardinality(Below(q)) \in Nat
    BY <1>1, BelowProperties, GraphTyped
  <2>2. PICK n \in Sizes : \A m \in Sizes : n <= m
    <3>1. Sizes \in SUBSET Nat /\ Sizes # {}
      BY <2>1
    <3> HIDE DEF Sizes
    <3> QED BY <3>1, Smallest
  <2>3. PICK q \in Bad : n = Cardinality(Below(q))
    OBVIOUS
  <2>4. ASSUME NEW k \in DOMAIN refs[q] PROVE found[refs[q][k]] <=> NullIn(refs[q][k])
    <3> SUFFICES ASSUME refs[q][k] \in Bad PROVE FALSE
      BY <1>2
    <3>1. Cardinality(Below(refs[q][k])) \in Sizes
      OBVIOUS
    <3>2. Cardinality(Below(refs[q][k])) < n /\ Cardinality(Below(refs[q][k])) \in Nat /\ n \in Nat
      BY <1>2, <2>1, <2>3, Descent
    <3>3. n <= Cardinality(Below(refs[q][k]))
      <4> HIDE DEF Sizes
      <4> QED BY <2>2, <3>1
    <3> QED BY <3>2, <3>3
  <2>5. found[q] = (\/ q \in marked
                    \/ \E k \in DOMAIN refs[q] : <<q, k>> \in nullable \/ found[refs[q][k]])
    BY <1>5, Zenon DEF Looks
  <2>6. found[q] <=> NullIn(q)
    BY <1>3, <2>4, <2>5, Zenon
  <2> QED BY <2>6
<1>6. Looks(CHOOSE found : Looks(found))
  BY <1>4, Zenon
<1>7. ASSUME NEW p \in Structs
      PROVE  HasNullrefs(p) = (CHOOSE found : Looks(found))[p]
  BY Zenon DEF HasNullrefs, Looks
<1> QED BY <1>5, <1>6, <1>7, Zenon

MarkInv ==
  /\ ~sorted => next = 1 /\ marked = {}
  /\ sorted =>
       /\ next \in 1..(Len(refs) + 1) /\ marked \subseteq Structs
       /\ \A i \in 1..Len(refs) : order[i] \in marked <=> i < next /\ NullIn(order[i])

(* One more structure is marked, or is not.                                *)
LEMMA MarkStep ==
  ASSUME AliasInv, \A q \in Structs : Complete(q), MarkInv, MarkNullrefs
  PROVE  MarkInv'
<1> PICK n \in Nat : n = Len(refs) /\ n = Len(order)
  BY GraphTyped DEF AliasInv, Graph
<1>1. Graph
  BY DEF AliasInv
<1>2. /\ sorted /\ next <= n /\ next' = next + 1
      /\ marked' = IF HasNullrefs(order[next]) THEN marked \cup {order[next]} ELSE marked
      /\ refs' = refs /\ order' = order /\ nullable' = nullable /\ sorted' = sorted
  BY DEF MarkNullrefs, OrderVars
<1>3. /\ next \in 1..(n + 1) /\ marked \subseteq Structs
      /\ \A i \in 1..n : order[i] \in marked <=> i < next /\ NullIn(order[i])
  BY <1>2 DEF MarkInv
<1>4. next \in 1..n /\ next' \in 1..(n + 1) /\ order[next] \in Structs
  <2>1. next \in 1..n /\ next' \in 1..(n + 1)
    BY <1>2, <1>3
  <2> QED BY <1>1, <2>1, GraphTyped
<1>5. HasNullrefs(order[next]) <=> NullIn(order[next])
  <2>1. \A q \in marked : NullIn(q)
    <3> SUFFICES ASSUME NEW q \in marked PROVE NullIn(q)
      OBVIOUS
    <3>1. PICK i \in 1..n : order[i] = q
      BY <1>1, <1>3, GraphTyped
    <3> QED BY <1>3, <3>1
  <2> QED BY <1>3, <1>4, <2>1, LooksExactly
<1>6. \A q : NullIn(q)' = NullIn(q)
  <2>1. \A q : Null(q)' = Null(q)
    BY <1>2, Zenon DEF Null
  <2>2. \A q : Below(q)' = Below(q)
    BY <1>2, SameEnds
  <2> QED BY <2>1, <2>2, Zenon DEF NullIn
<1>7. \A i \in 1..n : order[i] = order[next] => i = next
  BY <1>1, <1>4, GraphTyped
<1>8. ASSUME NEW i \in 1..n
      PROVE  order[i] \in marked' <=> i < next + 1 /\ NullIn(order[i])
  <2>1. CASE i = next
    <3>1. ~(i < next) /\ i < next + 1
      BY <2>1
    <3>2. order[i] \notin marked
      BY <1>3, <3>1
    <3> QED BY <1>2, <1>5, <2>1, <3>1, <3>2
  <2>2. CASE i # next
    <3>1. i < next <=> i < next + 1
      BY <1>4, <2>2
    <3>2. order[i] # order[next]
      BY <1>7, <2>2
    <3>3. order[i] \in marked' <=> order[i] \in marked
      BY <1>2, <3>2
    <3> QED BY <1>3, <3>1, <3>3
  <2> QED BY <2>1, <2>2
<1>9. marked' \subseteq Structs
  BY <1>2, <1>3, <1>4
<1>10. Structs' = Structs
  BY <1>2, SameEnds
<1> QED BY <1>2, <1>4, <1>6, <1>8, <1>9, <1>10 DEF MarkInv

(* The last field of a chain, and what is in front of it.                  *)
LEMMA ChainParts ==
  ASSUME NEW c \in Seq(Nat), NEW f \in Nat
  PROVE  Front(Append(c, f)) = c /\ Last(Append(c, f)) = f
<1> PICK d \in Seq(Nat) : d = Append(c, f)
  BY AppendProperties
<1>1. /\ Len(d) = Len(c) + 1 /\ d[Len(c) + 1] = f /\ Len(c) \in Nat /\ d # <<>>
      /\ \A i \in 1..Len(c) : d[i] = c[i]
  BY Pushed, Longer
<1>2. /\ Last(d) = d[Len(d)] /\ Front(d) \in Seq(Nat) /\ Len(Front(d)) = Len(d) - 1
      /\ \A i \in 1..(Len(d) - 1) : Front(d)[i] = d[i]
  BY <1>1, Popped
<1>3. Len(Front(d)) = Len(c) /\ \A i \in 1..Len(c) : Front(d)[i] = c[i]
  BY <1>1, <1>2
<1>4. Front(d) = c
  BY <1>2, <1>3, SeqEqual
<1> QED BY <1>1, <1>2, <1>4

(* The fields further down are those chains end in.                        *)
LEMMA MarkLemma ==
  ASSUME AliasInv, sorted => \A q \in Structs : Complete(q), MarkInv
  PROVE  MarkedExactly
<1> SUFFICES ASSUME sorted, next > Len(order)
             PROVE  marked = { p \in Structs : \E k \in DOMAIN aq[p] :
                                 EndsIn(p, aq[p][k].chain) \in nullable }
  BY DEF MarkedExactly, Linked
<1>1. Graph /\ Len(order) = Len(refs)
  BY DEF AliasInv, Graph
<1>2. ASSUME NEW p \in Structs PROVE p \in marked <=> NullIn(p)
  <2>1. PICK i \in 1..Len(refs) : order[i] = p
    BY <1>1, GraphTyped
  <2>2. i < next
    BY <1>1, <2>1, GraphTyped DEF MarkInv
  <2> QED BY <2>1, <2>2 DEF MarkInv
<1>3. ASSUME NEW p \in Structs
      PROVE  NullIn(p) <=> \E c \in Chains(p) : EndsIn(p, c) \in nullable
  <2>1. Complete(p) /\ Chains(p) \subseteq Seq(Nat)
    BY ChainsContinue
  <2>2. Below(p) = { A!End(p, c) : c \in Chains(p) } /\ A!End(p, <<>>) = p
    BY <1>1, <2>1, ChainsEnd, EndProperties
  <2>3. ASSUME NEW c \in Seq(Nat), NEW f \in Nat
        PROVE  EndsIn(p, Append(c, f)) = <<A!End(p, c), f>>
    BY ChainParts DEF EndsIn
  <2>4. ASSUME NEW d \in Chains(p), EndsIn(p, d) \in nullable PROVE NullIn(p)
    <3> PICK c \in Seq(Nat), f \in Nat : d = Append(c, f)
      BY <2>1, ChainsContinue, SequenceEmptyOrAppend
    <3>1. c \in Walked(p) /\ f \in DOMAIN refs[A!End(p, c)]
      BY ChainsContinue
    <3>2. A!End(p, c) \in {p} \cup Below(p)
      BY <2>2, <3>1 DEF Walked
    <3>3. <<A!End(p, c), f>> \in nullable
      BY <2>3, <2>4
    <3> QED BY <3>1, <3>2, <3>3 DEF NullIn, Null
  <2>5. ASSUME NullIn(p) PROVE \E c \in Chains(p) : EndsIn(p, c) \in nullable
    <3> PICK q \in {p} \cup Below(p) : \E f \in DOMAIN refs[q] : <<q, f>> \in nullable
      BY <2>5 DEF NullIn, Null
    <3>1. PICK f \in DOMAIN refs[q] : <<q, f>> \in nullable
      OBVIOUS
    <3>2. PICK c \in Walked(p) : A!End(p, c) = q
      BY <2>2, <3>1 DEF Walked
    <3>3. Append(c, f) \in Chains(p)
      BY <2>1, <3>2 DEF Complete, Follows
    <3>4. c \in Seq(Nat) /\ f \in Nat
      <4>1. c \in Seq(Nat)
        BY <2>1, Longer, Zenon DEF Walked
      <4>2. q \in Structs
        BY <3>1 DEF Below
      <4> QED BY <1>1, <4>1, <4>2, FieldTyped
    <3>5. EndsIn(p, Append(c, f)) \in nullable
      BY <2>3, <3>1, <3>2, <3>4
    <3> QED BY <3>3, <3>5
  <2> QED BY <2>4, <2>5
<1>4. marked \subseteq Structs
  BY DEF MarkInv
<1>5. \A p \in Structs : (\E k \in DOMAIN aq[p] : EndsIn(p, aq[p][k].chain) \in nullable)
                           <=> \E c \in Chains(p) : EndsIn(p, c) \in nullable
  BY Zenon DEF Chains
<1> QED BY <1>2, <1>3, <1>4, <1>5

(***************************************************************************)
(* The linker.  Each part starts when the one in front of it has accepted  *)
(* the configuration.                                                      *)
(***************************************************************************)
LinkInv ==
  /\ AliasInv /\ UniqueInv /\ OrderInv /\ MarkInv
  /\ progress = "accepted" => phase = "accepted"
  /\ sorted \/ calls # <<>> => progress = "accepted"

(* Steps of other parts keep what is said of unique statements.            *)
LEMMA SameUnique ==
  ASSUME UniqueInv, UNCHANGED UniqueVars
  PROVE  UniqueInv'
<1>1. /\ nq' = nq /\ written' = written /\ u' = u /\ resolved' = resolved
      /\ errs' = errs /\ progress' = progress
  BY DEF UniqueVars
<1> QED BY <1>1 DEF UniqueInv

(* Steps of other parts keep what is said of marks.                        *)
LEMMA SameMark ==
  ASSUME MarkInv, UNCHANGED <<refs, order, nullable, sorted, MarkVars>>
  PROVE  MarkInv'
<1>1. /\ refs' = refs /\ order' = order /\ nullable' = nullable /\ sorted' = sorted
      /\ next' = next /\ marked' = marked
  BY DEF MarkVars
<1>2. \A q : NullIn(q)' = NullIn(q)
  <2>1. \A q : Null(q)' = Null(q)
    BY <1>1, Zenon DEF Null
  <2>2. \A q : Below(q)' = Below(q)
    BY <1>1, SameEnds
  <2> QED BY <2>1, <2>2, Zenon DEF NullIn
<1> QED BY <1>1, <1>2, SameEnds DEF MarkInv

(* Aliases are not touched when structures are put in another order.       *)
LEMMA AcceptedAliases ==
  ASSUME AliasInv, phase = "accepted", Graph', UNCHANGED <<refs, AliasVars>>
  PROVE  AliasInv'
<1>1. /\ refs' = refs /\ orig' = orig /\ stack' = stack /\ offs' = offs
      /\ aq' = aq /\ phase' = phase
  BY DEF AliasVars
<1>2. /\ Structs' = Structs /\ offs' \in Nat
      /\ (aq \in [Structs -> Seq(EntryType)])' /\ (stack \in Seq(CallType))'
  BY <1>1, SameEnds DEF AliasInv, CallType, EntryType
<1>3. \A p : Chains(p)' = Chains(p)
  BY <1>1, Zenon DEF Chains
<1>4. \A p : Continues(p)' = Continues(p) /\ Complete(p)' = Complete(p)
  BY <1>1, <1>3, SameChains
<1>5. \A p : Numbered(p)' = Numbered(p)
  BY <1>1 DEF Numbered
<1> QED BY <1>1, <1>2, <1>4, <1>5 DEF AliasInv

(* A parsed configuration.                                                 *)
LEMMA LinkInit ==
  ASSUME Init
  PROVE  LinkInv
<1> PICK c \in Configs : refs = c.refs /\ order = c.order /\ nq = c.uniques
  BY DEF Init
<1>1. Graph
  BY ConfigsAssumption DEF Graph, Structs
<1>2. nq \in Seq(Seq(Nat)) /\ \A k \in DOMAIN nq : Len(nq[k]) >= 2
  BY ConfigsAssumption
<1>3. U!Start /\ A!Start /\ O!Start /\ next = 1 /\ marked = {}
  BY DEF Init
<1>4. progress = "resolve" /\ sorted = FALSE /\ calls = <<>>
  BY <1>3 DEF U!Start, O!Start
<1>5. AliasInv /\ UniqueInv /\ OrderInv
  BY <1>1, <1>2, <1>3, AliasesStart, UniqueStart, OrderStart
<1>6. MarkInv
  BY <1>3, <1>4 DEF MarkInv
<1> QED BY <1>4, <1>5, <1>6 DEF LinkInv

(* Each step of the linker keeps the invariant.                            *)
LEMMA LinkNext ==
  ASSUME LinkInv, Next
  PROVE  LinkInv'
<1>1. AliasInv /\ UniqueInv /\ OrderInv /\ MarkInv
  BY DEF LinkInv
<1>2. CASE ResolveNames
  <2>1. /\ UNCHANGED <<refs, order, nullable, AliasVars, OrderVars, MarkVars>>
        /\ U!Next /\ progress = "resolve" /\ progress' # "accepted"
    BY <1>2 DEF ResolveNames, U!Next, U!Resolve, U!EndResolve
  <2>2. AliasInv' /\ UniqueInv' /\ OrderInv'
    BY <1>1, <2>1, SameAliases, UniqueStep, SameOrder
  <2>3. sorted' = sorted /\ calls' = calls
    BY <2>1 DEF OrderVars
  <2>4. MarkInv'
    BY <1>1, <2>1, <2>3, SameMark
  <2> QED BY <2>1, <2>2, <2>3, <2>4 DEF LinkInv
<1>3. CASE CreateAliases
  <2>1. /\ progress = "check" /\ A!Next
        /\ UNCHANGED <<nullable, UniqueVars, OrderVars, MarkVars>>
    BY <1>3 DEF CreateAliases
  <2>2. refs' = refs /\ order' = order
    BY <2>1 DEF A!Next, A!Field, A!Refuse, A!Exhaust, A!Create, A!Return, A!NextStruct
  <2>3. sorted' = sorted /\ calls' = calls /\ progress' = progress
    BY <2>1 DEF OrderVars, UniqueVars
  <2>4. AliasInv' /\ UniqueInv' /\ OrderInv' /\ MarkInv'
    BY <1>1, <2>1, <2>2, <2>3, AliasStep, SameUnique, SameOrder, SameMark
  <2> QED BY <2>1, <2>3, <2>4 DEF LinkInv
<1>4. CASE CheckUniques
  <2>1. /\ phase = "accepted" /\ U!Next /\ progress # "accepted"
        /\ UNCHANGED <<refs, order, nullable, AliasVars, OrderVars, MarkVars>>
    BY <1>4 DEF CheckUniques, U!Next, U!Check, U!EndCheck
  <2>2. phase' = phase /\ sorted' = sorted /\ calls' = calls
    BY <2>1 DEF AliasVars, OrderVars
  <2>3. AliasInv' /\ UniqueInv' /\ OrderInv' /\ MarkInv'
    BY <1>1, <2>1, <2>2, SameAliases, UniqueStep, SameOrder, SameMark
  <2> QED BY <2>1, <2>2, <2>3 DEF LinkInv
<1>5. CASE OrderStructs
  <2>1. /\ progress = "accepted" /\ phase = "accepted" /\ O!Next
        /\ UNCHANGED <<nullable, UniqueVars, AliasVars, MarkVars>>
    BY <1>5 DEF OrderStructs, LinkInv
  <2>2. /\ refs' = refs /\ nullable' = nullable /\ progress' = progress /\ phase' = phase
        /\ next' = next /\ marked' = marked
    BY <2>1 DEF O!Next, O!StartWalk, O!Annotate, O!Sort, UniqueVars, AliasVars, MarkVars
  <2>3. Acyclic
    BY <1>1, <2>1, Descent DEF AliasInv, Acyclic
  <2>4. OrderInv'
    BY <1>1, <2>1, <2>3, OrderStep
  <2>5. Graph'
    BY <2>4 DEF OrderInv, OrderTyped
  <2>6. AliasInv' /\ UniqueInv'
    BY <1>1, <2>1, <2>2, <2>5, AcceptedAliases, SameUnique
  <2>7. ASSUME O!Sort PROVE MarkInv'
    <3>1. next' = 1 /\ marked' = {} /\ sorted'
      BY <1>1, <2>2, <2>7 DEF MarkInv, O!Sort
    <3>2. (next \in 1..(Len(refs) + 1))'
      <4>1. Len(refs) \in Nat
        BY <1>1, GraphTyped DEF AliasInv
      <4>2. 1 \in 1..(Len(refs) + 1)
        BY <4>1
      <4> QED BY <2>2, <3>1, <4>2
    <3>3. (\A i \in 1..Len(refs) : ~(i < next))'
      BY <3>1
    <3> QED BY <3>1, <3>2, <3>3 DEF MarkInv
  <2>8. ASSUME ~O!Sort PROVE MarkInv'
    <3>1. order' = order /\ sorted' = sorted
      BY <2>1, <2>8 DEF O!Next, O!StartWalk, O!Annotate
    <3> QED BY <1>1, <2>1, <2>2, <3>1, SameMark
  <2> QED BY <2>1, <2>2, <2>4, <2>6, <2>7, <2>8 DEF LinkInv
<1>6. CASE MarkNullrefs
  <2>1. UNCHANGED <<refs, order, nullable, UniqueVars, AliasVars, OrderVars>> /\ sorted
    BY <1>6 DEF MarkNullrefs
  <2>2. progress' = progress /\ phase' = phase /\ sorted' = sorted /\ calls' = calls
    BY <2>1 DEF UniqueVars, AliasVars, OrderVars
  <2>3. \A q \in Structs : Complete(q)
    BY <1>1, <2>1 DEF LinkInv, AliasInv
  <2>4. AliasInv' /\ UniqueInv' /\ OrderInv' /\ MarkInv'
    BY <1>1, <1>6, <2>1, <2>3, SameAliases, SameUnique, SameOrder, MarkStep
  <2> QED BY <2>2, <2>4 DEF LinkInv
<1> QED BY <1>2, <1>3, <1>4, <1>5, <1>6 DEF Next

(* And so does a step of something else.                                   *)
LEMMA LinkStutters ==
  ASSUME LinkInv, UNCHANGED vars
  PROVE  LinkInv'
<1>1. /\ UNCHANGED <<refs, order, nullable>> /\ UNCHANGED UniqueVars /\ UNCHANGED AliasVars
      /\ UNCHANGED OrderVars /\ UNCHANGED MarkVars
  BY DEF vars
<1>2. progress' = progress /\ phase' = phase /\ sorted' = sorted /\ calls' = calls
  BY <1>1 DEF UniqueVars, AliasVars, OrderVars
<1>3. AliasInv' /\ UniqueInv' /\ OrderInv' /\ MarkInv'
  BY <1>1, <1>2, SameAliases, SameUnique, SameOrder, SameMark DEF LinkInv
<1> QED BY <1>2, <1>3 DEF LinkInv

(* The invariant of the linker.                                            *)
LEMMA Links == Spec => []LinkInv
<1>1. LinkInv /\ [Next]_vars => LinkInv'
  BY LinkNext, LinkStutters
<1> QED BY <1>1, LinkInit, PTL DEF Spec

(***************************************************************************)
(* Theorems.                                                               *)
(***************************************************************************)
(* linker_aliases_create() refuses every structure that contains itself,   *)
(* through other structures too and however the search comes upon it: none *)
(* is left in an accepted configuration, for any number of structures and  *)
(* fields.  And one it names in its message does contain itself.           *)
THEOREM RecursiveRefused == Spec => []CirclesRefused
<1>1. LinkInv => CirclesRefused
  BY CirclesLemma DEF LinkInv
<1> QED BY <1>1, Links, PTL

(* An accepted configuration has an alias for every chain of struct fields *)
(* of every structure, and for nothing else: what the assertions of        *)
(* linker_aliases_resolve() and gen_sql_stmt_join() are about.             *)
THEOREM AliasesComplete == Spec => []ChainsComplete
<1>1. LinkInv => ChainsComplete
  BY CompleteLemma DEF LinkInv
<1> QED BY <1>1, Links, PTL

(* Two chains of a structure have different aliases, while no letter       *)
(* counted from 'a' passes the last byte, 255.  The limit of the code,     *)
(* Letters * Letters * Letters, is too large for that.                     *)
THEOREM AliasesApart == Spec => []AliasesDistinct
<1>1. LinkInv => AliasesDistinct
  BY DistinctLemma DEF LinkInv
<1> QED BY <1>1, Links, PTL

(* Whatever structures contain, the calls of linker_aliases_create() are   *)
(* never deeper than there are aliases, as the nested ones are counted     *)
(* too, and the aliases are never more than the limit.                     *)
THEOREM WalksBounded == Spec => []WalksCounted
<1> DEFINE Walks == offs <= A!Limit /\ Len(stack) <= offs + 1
<1>1. A!Limit \in Nat
  <2>1. Letters \in Nat /\ Letters * Letters \in Nat
    BY ConstantsAssumption
  <2> QED BY <2>1 DEF A!Limit
<1>2. Init => Walks
  BY <1>1 DEF Init, A!Start
<1>3. ASSUME LinkInv, Walks, CreateAliases PROVE Walks'
  <2>1. AliasInv /\ A!Next
    BY <1>3 DEF LinkInv, CreateAliases
  <2>2. offs \in Nat /\ stack \in Seq(CallType) /\ Len(stack) \in Nat
    BY <2>1, LenProperties DEF AliasInv
  <2>3. CASE A!Field /\ (A!Refuse \/ A!Exhaust)
    BY <1>3, <2>3 DEF A!Refuse, A!Exhaust
  <2>4. CASE A!Field /\ A!Create
    BY <1>3, <1>1, <2>1, <2>2, <2>4, CreatePushes DEF A!Field
  <2>5. CASE A!Return
    <3>1. Len(stack') = Len(stack) - 1 /\ offs' = offs
      BY <2>1, <2>5, TopProperties DEF A!Return
    <3>2. PICK n \in Nat, o \in Nat : n = Len(stack) /\ o = offs /\ n <= o + 1
      BY <1>3, <2>2
    <3>3. Len(stack') <= offs' + 1
      BY <3>1, <3>2
    <3> QED BY <1>3, <3>1, <3>3
  <2>6. CASE A!NextStruct
    <3>1. offs' = offs /\ (Len(stack') = 1 \/ stack' = stack)
      BY <2>6 DEF A!NextStruct
    <3>2. 1 <= offs + 1
      BY <2>2
    <3>3. Len(stack') <= offs' + 1
      <4>1. CASE Len(stack') = 1
        BY <3>1, <3>2, <4>1
      <4>2. CASE stack' = stack
        BY <1>3, <3>1, <4>2
      <4> QED BY <3>1, <4>1, <4>2
    <3> QED BY <1>3, <3>1, <3>3
  <2> QED BY <2>1, <2>3, <2>4, <2>5, <2>6 DEF A!Next, A!Field
<1>4. ASSUME Walks, ~CreateAliases, [Next]_vars PROVE Walks'
  <2>1. UNCHANGED <<offs, stack>>
    BY <1>4 DEF Next, ResolveNames, CheckUniques, OrderStructs, MarkNullrefs, vars, AliasVars
  <2> QED BY <1>4, <2>1
<1>5. LinkInv /\ Walks /\ [Next]_vars => Walks'
  BY <1>3, <1>4
<1>6. Walks => WalksCounted
  BY DEF WalksCounted, A!WalksCounted
<1> QED BY <1>2, <1>5, <1>6, Links, PTL DEF Spec

(* Each statement passed is different from the first of its size in front  *)
(* of it, which is the first one it is compared with.                      *)
FirstOfSize(k) == \A i \in 1..(k - 1) : Len(written[i]) # Len(written[k])
FirstDiffers(j) ==
  \A k \in 1..(j - 1) :
    Len(written[k]) = Len(written[j]) /\ FirstOfSize(k)
      => ~(Range(written[j]) \subseteq Range(written[k]))
PassedDiffer ==
  progress \in {"check", "accepted"} => \A j \in 1..(u - 1) : FirstDiffers(j)

(* What is compared has the fields that were written.                      *)
LEMMA SameFields ==
  ASSUME UniqueInv, progress \in {"check", "accepted"}, NEW k \in 1..Len(written)
  PROVE  Range(nq[k]) = Range(written[k]) /\ Len(nq[k]) = Len(written[k])
<1>1. u \in Nat /\ k \in Nat /\ (k < u \/ k >= u)
  BY LenProperties DEF UniqueInv
<1>2. /\ k < u => InOrder(written[k], nq[k])
      /\ k >= u => nq[k] = written[k]
  BY DEF UniqueInv
<1> QED BY <1>1, <1>2 DEF InOrder

(* A statement that passes is not contained in the first of its size.      *)
LEMMA ComparedWithFirst ==
  ASSUME UniqueInv, progress = "check", u <= Len(nq), U!Compared(u) = {}
  PROVE  FirstDiffers(u)
<1> PICK n \in Nat : n = Len(nq) /\ n = Len(written) /\ DOMAIN nq = 1..n
  BY LenProperties DEF UniqueInv
<1>1. u \in 1..n
  BY DEF UniqueInv
<1> SUFFICES ASSUME NEW k \in 1..(u - 1), Len(written[k]) = Len(written[u]), FirstOfSize(k),
                    Range(written[u]) \subseteq Range(written[k])
             PROVE  FALSE
  BY DEF FirstDiffers
<1>2. k \in 1..n /\ k # u
  BY <1>1
<1>3. \A i \in 1..n : Range(nq[i]) = Range(written[i]) /\ Len(nq[i]) = Len(written[i])
  BY SameFields
<1>4. k \in U!SameSize(u)
  BY <1>1, <1>2, <1>3 DEF U!SameSize
<1>5. ASSUME NEW i \in U!SameSize(u), i <= k PROVE U!Contained(u, i)
  <2>1. i \in 1..n /\ Len(written[i]) = Len(written[k])
    BY <1>1, <1>3 DEF U!SameSize
  <2>2. ~(i \in 1..(k - 1))
    BY <2>1 DEF FirstOfSize
  <2>3. i = k
    BY <1>2, <1>5, <2>1, <2>2
  <2> QED BY <1>1, <1>2, <1>3, <2>3, Named DEF U!Contained
<1>6. k \in U!Compared(u)
  BY <1>4, <1>5 DEF U!Compared
<1> QED BY <1>6

LEMMA DifferStep ==
  ASSUME UniqueInv, PassedDiffer, U!Next
  PROVE  PassedDiffer'
<1>1. u \in Nat /\ written' = written
  BY LenProperties DEF UniqueInv, U!Next, U!Resolve, U!EndResolve, U!Check, U!EndCheck
<1>2. \A j : FirstDiffers(j)' <=> FirstDiffers(j)
  BY <1>1 DEF FirstDiffers, FirstOfSize
<1>3. CASE U!Resolve
  BY <1>3 DEF U!Resolve, PassedDiffer
<1>4. CASE U!EndResolve
  <2>1. u' = 1
    BY <1>4 DEF U!EndResolve
  <2> QED BY <2>1 DEF PassedDiffer
<1>5. CASE U!Check
  <2>1. progress = "check" /\ u <= Len(nq)
    BY <1>5 DEF U!Check
  <2>2. CASE U!Compared(u) # {}
    BY <1>5, <2>2 DEF U!Check, PassedDiffer
  <2>3. CASE U!Compared(u) = {}
    <3>1. FirstDiffers(u) /\ u' = u + 1
      BY <1>5, <2>1, <2>3, ComparedWithFirst DEF U!Check
    <3>2. \A j \in 1..(u' - 1) : j = u \/ j \in 1..(u - 1)
      BY <1>1, <3>1
    <3>3. \A j \in 1..(u' - 1) : FirstDiffers(j)
      BY <2>1, <3>1, <3>2 DEF PassedDiffer
    <3> QED BY <1>2, <3>3 DEF PassedDiffer
  <2> QED BY <2>2, <2>3
<1>6. CASE U!EndCheck
  <2>1. progress = "check" /\ u' = u
    BY <1>6 DEF U!EndCheck
  <2> QED BY <1>2, <2>1 DEF PassedDiffer
<1> QED BY <1>3, <1>4, <1>5, <1>6 DEF U!Next

(* Unique statements that are accepted have the fields they were written   *)
(* with, each once, and in order, and the first of a size is equal to no   *)
(* other, for any number of statements and fields.                         *)
THEOREM UniquesNormal == Spec => []UniqueNormal
<1>1. UniqueInv => U!AcceptedNormal
  <2> SUFFICES ASSUME UniqueInv, progress = "accepted", NEW k \in DOMAIN nq
               PROVE  InOrder(written[k], nq[k])
    BY Named DEF U!AcceptedNormal, InOrder
  <2> PICK n \in Nat : n = Len(nq) /\ n = Len(written) /\ DOMAIN nq = 1..n
    BY LenProperties DEF UniqueInv
  <2>1. u \in 1..(n + 1) /\ u > n
    BY DEF UniqueInv
  <2>2. k \in 1..n /\ k < u
    BY <2>1
  <2> QED BY <2>2 DEF UniqueInv
<1>2. UniqueInv /\ PassedDiffer => U!FirstOfSizeDiffers
  <2> SUFFICES ASSUME UniqueInv, PassedDiffer, progress = "accepted",
                      NEW k \in DOMAIN nq, NEW j \in DOMAIN nq, j # k, Len(nq[j]) = Len(nq[k]),
                      \A i \in 1..(k - 1) : Len(nq[i]) # Len(nq[k]), Range(nq[j]) = Range(nq[k])
               PROVE  FALSE
    BY Named DEF U!FirstOfSizeDiffers
  <2> PICK n \in Nat : n = Len(nq) /\ n = Len(written) /\ DOMAIN nq = 1..n
    BY LenProperties DEF UniqueInv
  <2>1. u \in 1..(n + 1) /\ u > n
    BY DEF UniqueInv
  <2>2. \A i \in 1..n : Range(nq[i]) = Range(written[i]) /\ Len(nq[i]) = Len(written[i])
    BY SameFields
  <2>3. j \in 1..(u - 1) /\ k \in 1..(j - 1)
    <3>1. ~(j \in 1..(k - 1))
      OBVIOUS
    <3> QED BY <2>1, <3>1
  <2>4. FirstOfSize(k)
    BY <2>2 DEF FirstOfSize
  <2>5. FirstDiffers(j)
    BY <2>3 DEF PassedDiffer
  <2> QED BY <2>2, <2>3, <2>4, <2>5 DEF FirstDiffers
<1>3. Init => PassedDiffer
  BY DEF Init, U!Start, PassedDiffer
<1>4. UniqueInv /\ PassedDiffer /\ [Next]_vars => PassedDiffer'
  <2> SUFFICES ASSUME UniqueInv, PassedDiffer, [Next]_vars PROVE PassedDiffer'
    OBVIOUS
  <2>1. U!Next \/ UNCHANGED UniqueVars
    BY DEF Next, ResolveNames, CreateAliases, CheckUniques, OrderStructs, MarkNullrefs, vars, U!Next
  <2>2. CASE UNCHANGED UniqueVars
    <3>1. u' = u /\ written' = written /\ progress' = progress
      BY <2>2 DEF UniqueVars
    <3> QED BY <3>1 DEF PassedDiffer, FirstDiffers, FirstOfSize
  <2> QED BY <2>1, <2>2, DifferStep
<1>5. U!AcceptedNormal /\ U!FirstOfSizeDiffers => UniqueNormal
  BY DEF UniqueNormal
<1> QED BY <1>1, <1>2, <1>3, <1>4, <1>5, Links, PTL DEF Spec, LinkInv

(* The sort of ort_parse_close() puts an embedded structure in front of    *)
(* the one that embeds it, if none is embedded by two: the height of each  *)
(* is above that of what embeds it, whatever the order of declaration.     *)
THEOREM EmbeddedInFront == Spec => []TreesSorted
<1>1. LinkInv => TreesSorted
  BY TreesLemma DEF LinkInv
<1> QED BY <1>1, Links, PTL

(* check_reffind() marks the structures from which a chain of fields ends  *)
(* in one that may be null, and no others; although it looks at a mark of  *)
(* an earlier structure instead of what is below that one.                 *)
THEOREM NullrefsMarked == Spec => []MarkedExactly
<1>1. LinkInv => MarkedExactly
  <2> SUFFICES ASSUME LinkInv PROVE MarkedExactly
    OBVIOUS
  <2>1. sorted => \A q \in Structs : Complete(q)
    BY DEF LinkInv, AliasInv
  <2> QED BY <2>1, MarkLemma DEF LinkInv
<1> QED BY <1>1, Links, PTL
===============================================================================
