---------------------------- MODULE Queries_proofs ----------------------------
(***************************************************************************)
(* Proofs about Queries, for every configuration, table and argument: each *)
(* place is bound to the argument of its own term, but in the iterators of *)
(* C with a term behind a hashed password; what is returned satisfies the  *)
(* terms; nothing that does is left out, but for the window; and a grouped *)
(* list has the best of every group.                                       *)
(*                                                                         *)
(* While terms are bound, every element written belongs to a term passed,  *)
(* with place and argument as they should be, or, in the iterators of C,   *)
(* exchanged.  If the array has the length the statement asks for, either  *)
(* is right, and the statement selects the rows that satisfy the terms it  *)
(* has.  While rows are looked at, those returned and those left make up   *)
(* the window of an ordering, without the rejected ones.                   *)
(***************************************************************************)
EXTENDS Queries, FiniteSetTheorems, SequenceTheorems, WellFoundedInduction,
        TLAPS

(***************************************************************************)
(* Counting the members of a set up to a number.                           *)
(***************************************************************************)
Counted(K, k) == Cardinality({ j \in 1..k : j \in K })

(* The count starts at 0 and is one more at each member.                   *)
LEMMA CountedStep ==
  ASSUME NEW K, NEW k \in Nat
  PROVE  /\ Counted(K, k) \in Nat
         /\ Counted(K, 0) = 0
         /\ Counted(K, k + 1) = IF k + 1 \in K THEN Counted(K, k) + 1 ELSE Counted(K, k)
<1> DEFINE UpTo(n) == { j \in 1..n : j \in K }
<1>1. IsFiniteSet(UpTo(k))
  <2>1. IsFiniteSet(1..k) /\ UpTo(k) \in SUBSET (1..k)
    BY FS_Interval
  <2> QED BY <2>1, FS_Subset
<1>2. UpTo(0) = {}
  OBVIOUS
<1>3. k + 1 \notin UpTo(k)
  OBVIOUS
<1>4. UpTo(k + 1) = IF k + 1 \in K THEN UpTo(k) \cup {k + 1} ELSE UpTo(k)
  OBVIOUS
<1> HIDE DEF UpTo
<1>5. Cardinality(UpTo(k)) \in Nat /\ Cardinality(UpTo(0)) = 0
  BY <1>1, <1>2, FS_CardinalityType, FS_EmptySet
<1>6. Cardinality(UpTo(k + 1)) =
        IF k + 1 \in K THEN Cardinality(UpTo(k)) + 1 ELSE Cardinality(UpTo(k))
  BY <1>1, <1>3, <1>4, FS_AddElement
<1> QED BY <1>5, <1>6 DEF Counted, UpTo

(* A set counted further has as many members as a subset has, or more, and *)
(* more if it has one the subset lacks.                                    *)
LEMMA CountedMore ==
  ASSUME NEW K, NEW L \in SUBSET K, NEW j \in Nat, NEW k \in Nat, j <= k
  PROVE  /\ Counted(L, j) <= Counted(K, k)
         /\ \A x \in 1..k : x \in K /\ (x \notin L \/ j < x) => Counted(L, j) < Counted(K, k)
         /\ j = k /\ (\A x \in 1..k : x \in K => x \in L) => Counted(L, j) = Counted(K, k)
<1> DEFINE A == { x \in 1..j : x \in L }
           B == { x \in 1..k : x \in K }
<1>1. A \in SUBSET B /\ B \in SUBSET (1..k)
  OBVIOUS
<1>2. \A x \in 1..k : x \in K /\ (x \notin L \/ j < x) => x \in B /\ x \notin A
  OBVIOUS
<1>3. j = k /\ (\A x \in 1..k : x \in K => x \in L) => A = B
  OBVIOUS
<1> HIDE DEF A, B
<1>4. IsFiniteSet(1..k)
  BY FS_Interval
<1>5. IsFiniteSet(B)
  BY <1>1, <1>4, FS_Subset
<1>6. /\ Cardinality(A) <= Cardinality(B) /\ IsFiniteSet(A)
      /\ Cardinality(B) = Cardinality(A) => B = A
  BY <1>1, <1>5, FS_Subset
<1>7. Cardinality(A) \in Nat /\ Cardinality(B) \in Nat
  BY <1>5, <1>6, FS_CardinalityType
<1>8. \A x \in 1..k : x \in K /\ (x \notin L \/ j < x) => Cardinality(A) < Cardinality(B)
  BY <1>2, <1>6, <1>7
<1> QED BY <1>3, <1>6, <1>8 DEF Counted, A, B

(* Counted to the same number.                                             *)
LEMMA CountedFewer ==
  ASSUME NEW K, NEW L \in SUBSET K, NEW k \in Nat
  PROVE  /\ (\E x \in 1..k : x \in K /\ x \notin L) => Counted(L, k) < Counted(K, k)
         /\ (\A x \in 1..k : x \in K => x \in L) => Counted(L, k) = Counted(K, k)
<1>1. k <= k
  OBVIOUS
<1>2. \A x \in 1..k : x \in K /\ (x \notin L \/ k < x) => Counted(L, k) < Counted(K, k)
  BY <1>1, CountedMore
<1>3. k = k /\ (\A x \in 1..k : x \in K => x \in L) => Counted(L, k) = Counted(K, k)
  BY <1>1, CountedMore
<1> QED BY <1>2, <1>3

(***************************************************************************)
(* The places and arguments of terms.                                      *)
(***************************************************************************)
ArgumentTerms == { k \in DOMAIN Terms : ~IsUnary(Terms[k]) }
PlaceTerms == { k \in DOMAIN Terms : IsPlace(Terms[k]) }

(* What the assumption about queries says of the query at hand.            *)
LEMMA TermsTyped ==
  ASSUME query \in Searches
  PROVE  /\ Terms \in Seq(Term) /\ Len(Terms) \in Nat /\ DOMAIN Terms = 1..Len(Terms)
         /\ \A k \in DOMAIN Terms : Terms[k] \in Term
         /\ query.limit \in Nat /\ query.offset \in Nat
         /\ query.type \in {"search", "list", "iterate", "count"}
         /\ query.group \in {"none", "maxrow", "minrow"}
<1>1. /\ Terms \in Seq(Term) /\ query.limit \in Nat /\ query.offset \in Nat
      /\ query.type \in {"search", "list", "iterate", "count"}
      /\ query.group \in {"none", "maxrow", "minrow"}
  BY SearchesAssumption DEF Terms
<1>2. Len(Terms) \in Nat /\ DOMAIN Terms = 1..Len(Terms)
  BY <1>1, LenProperties
<1>3. \A k \in DOMAIN Terms : Terms[k] \in Term
  BY <1>1, ElementOfSeq
<1> QED BY <1>1, <1>2, <1>3

(* Places and arguments count the terms that have one.                     *)
LEMMA PlacesCounted ==
  ASSUME query \in Searches
  PROVE  /\ PlaceTerms \in SUBSET ArgumentTerms
         /\ \A k \in 0..Len(Terms) : /\ Place(k) = Counted(PlaceTerms, k)
                                     /\ Argument(k) = Counted(ArgumentTerms, k)
<1>1. DOMAIN Terms = 1..Len(Terms) /\ Len(Terms) \in Nat
  BY TermsTyped
<1>2. PlaceTerms \in SUBSET ArgumentTerms
  BY DEF PlaceTerms, ArgumentTerms, IsPlace
<1>3. ASSUME NEW k \in 0..Len(Terms)
      PROVE  /\ { j \in 1..k : IsPlace(Terms[j]) } = { j \in 1..k : j \in PlaceTerms }
             /\ { j \in 1..k : ~IsUnary(Terms[j]) } = { j \in 1..k : j \in ArgumentTerms }
  <2>1. \A j \in 1..k : j \in DOMAIN Terms
    BY <1>1
  <2> QED BY <2>1 DEF PlaceTerms, ArgumentTerms
<1> QED BY <1>2, <1>3 DEF Place, Argument, Counted

(* How they advance from one term to the next.                             *)
LEMMA TermPlaced ==
  ASSUME query \in Searches
  PROVE  /\ \A k \in 0..Len(Terms) : Place(k) \in Nat /\ Argument(k) \in Nat
         /\ Place(0) = 0 /\ Argument(0) = 0
         /\ \A k \in DOMAIN Terms :
              /\ Place(k) = IF IsPlace(Terms[k]) THEN Place(k - 1) + 1 ELSE Place(k - 1)
              /\ Argument(k) = IF IsUnary(Terms[k]) THEN Argument(k - 1)
                               ELSE Argument(k - 1) + 1
<1>1. DOMAIN Terms = 1..Len(Terms) /\ Len(Terms) \in Nat
  BY TermsTyped
<1>2. \A k \in 0..Len(Terms) : Place(k) \in Nat /\ Argument(k) \in Nat
  BY <1>1, PlacesCounted, CountedStep
<1>3. Place(0) = 0 /\ Argument(0) = 0
  BY <1>1, PlacesCounted, CountedStep
<1>4. ASSUME NEW k \in DOMAIN Terms
      PROVE  /\ Place(k) = IF IsPlace(Terms[k]) THEN Place(k - 1) + 1 ELSE Place(k - 1)
             /\ Argument(k) = IF IsUnary(Terms[k]) THEN Argument(k - 1)
                              ELSE Argument(k - 1) + 1
  <2>1. k \in 0..Len(Terms) /\ k - 1 \in 0..Len(Terms) /\ k - 1 \in Nat /\ (k - 1) + 1 = k
    BY <1>1
  <2>2. (k \in PlaceTerms <=> IsPlace(Terms[k])) /\ (k \in ArgumentTerms <=> ~IsUnary(Terms[k]))
    BY DEF PlaceTerms, ArgumentTerms
  <2>3. Counted(PlaceTerms, k) = IF k \in PlaceTerms THEN Counted(PlaceTerms, k - 1) + 1
                                 ELSE Counted(PlaceTerms, k - 1)
    BY <2>1, CountedStep
  <2>4. Counted(ArgumentTerms, k) =
          IF k \in ArgumentTerms THEN Counted(ArgumentTerms, k - 1) + 1
          ELSE Counted(ArgumentTerms, k - 1)
    BY <2>1, CountedStep
  <2> QED BY <2>1, <2>2, <2>3, <2>4, PlacesCounted
<1> QED BY <1>2, <1>3, <1>4

(* No two terms have a place.  A term comes as late among the arguments as *)
(* among the places, but for hashed passwords before it.                   *)
LEMMA PlacesOrdered ==
  ASSUME query \in Searches
  PROVE  /\ \A k \in DOMAIN Terms, n \in 0..Len(Terms) : k <= n => Place(k) <= Place(n)
         /\ \A j, k \in PlaceTerms : Place(j) = Place(k) => j = k
         /\ \A k \in DOMAIN Terms :
              (\A j \in 1..k : ~IsHash(Terms[j])) => Argument(k) = Place(k)
         /\ \A k \in DOMAIN Terms :
              (\E j \in 1..k : IsHash(Terms[j])) => Argument(k) > Place(k)
<1>1. /\ DOMAIN Terms = 1..Len(Terms) /\ Len(Terms) \in Nat
      /\ PlaceTerms \in SUBSET ArgumentTerms /\ PlaceTerms \in SUBSET (DOMAIN Terms)
  BY TermsTyped, PlacesCounted DEF PlaceTerms
<1>2. \A k \in 0..Len(Terms) : /\ Place(k) = Counted(PlaceTerms, k) /\ Place(k) \in Nat
                               /\ Argument(k) = Counted(ArgumentTerms, k)
                               /\ Argument(k) \in Nat
  BY PlacesCounted, TermPlaced
<1>3. \A k \in DOMAIN Terms, n \in 0..Len(Terms) : k <= n => Place(k) <= Place(n)
  BY <1>1, <1>2, CountedMore
<1>4. ASSUME NEW j \in PlaceTerms, NEW k \in PlaceTerms, j < k PROVE Place(j) < Place(k)
  <2>1. j \in 0..Len(Terms) /\ k \in 0..Len(Terms) /\ k \in 1..k
    BY <1>1
  <2>2. Counted(PlaceTerms, j) < Counted(PlaceTerms, k)
    BY <1>4, <2>1, CountedMore
  <2> QED BY <1>2, <2>1, <2>2
<1>5. \A j, k \in PlaceTerms : Place(j) = Place(k) => j = k
  <2>1. \A j \in PlaceTerms : j \in Nat /\ Place(j) \in Nat
    BY <1>1, <1>2
  <2> QED BY <1>4, <2>1
<1>6. ASSUME NEW k \in DOMAIN Terms
      PROVE  /\ (\A j \in 1..k : ~IsHash(Terms[j])) => Argument(k) = Place(k)
             /\ (\E j \in 1..k : IsHash(Terms[j])) => Argument(k) > Place(k)
  <2>1. k \in Nat /\ k \in 0..Len(Terms) /\ \A j \in 1..k : j \in DOMAIN Terms
    BY <1>1
  <2>2. \A j \in 1..k : IsHash(Terms[j]) => j \in ArgumentTerms /\ j \notin PlaceTerms
    BY <2>1 DEF ArgumentTerms, PlaceTerms, IsPlace, IsHash, IsUnary
  <2>3. \A j \in 1..k : j \in ArgumentTerms /\ ~IsHash(Terms[j]) => j \in PlaceTerms
    BY <2>1 DEF ArgumentTerms, PlaceTerms, IsPlace
  <2>4. (\A j \in 1..k : ~IsHash(Terms[j])) => Argument(k) = Place(k)
    <3>1. (\A j \in 1..k : ~IsHash(Terms[j]))
          => (\A j \in 1..k : j \in ArgumentTerms => j \in PlaceTerms)
      BY <2>3
    <3>2. (\A j \in 1..k : j \in ArgumentTerms => j \in PlaceTerms)
          => Counted(PlaceTerms, k) = Counted(ArgumentTerms, k)
      BY <1>1, <2>1, CountedFewer
    <3> QED BY <1>2, <2>1, <3>1, <3>2
  <2>5. (\E j \in 1..k : IsHash(Terms[j])) => Argument(k) > Place(k)
    <3>1. \A j \in 1..k : j \in ArgumentTerms /\ j \notin PlaceTerms
            => Counted(PlaceTerms, k) < Counted(ArgumentTerms, k)
      BY <1>1, <2>1, CountedFewer
    <3> QED BY <1>2, <2>1, <2>2, <3>1
  <2> QED BY <2>4, <2>5
<1> QED BY <1>3, <1>5, <1>6

(* Every place is some term's.                                             *)
LEMMA PlacesFilled ==
  ASSUME query \in Searches
  PROVE  /\ \A k \in PlaceTerms : Place(k) \in Places
         /\ \A p \in Places : \E k \in PlaceTerms : Place(k) = p
<1>1. /\ DOMAIN Terms = 1..Len(Terms) /\ Len(Terms) \in Nat
      /\ PlaceTerms \in SUBSET (1..Len(Terms)) /\ Len(Terms) \in 0..Len(Terms)
  BY TermsTyped DEF PlaceTerms
<1>2. PICK n \in Nat : n = Place(Len(Terms))
  BY <1>1, TermPlaced
<1>3. \A k \in PlaceTerms : Place(k) \in 1..n
  <2> SUFFICES ASSUME NEW k \in PlaceTerms PROVE Place(k) \in 1..n
    OBVIOUS
  <2>1. k \in DOMAIN Terms /\ IsPlace(Terms[k]) /\ k - 1 \in 0..Len(Terms)
        /\ k \in 0..Len(Terms) /\ k <= Len(Terms)
    BY <1>1 DEF PlaceTerms
  <2>2. Place(k) \in Nat /\ Place(k) <= n /\ Place(k - 1) \in Nat /\ Place(k) = Place(k - 1) + 1
    BY <1>1, <1>2, <2>1, TermPlaced, PlacesOrdered
  <2> QED BY <2>2
<1>4. PICK f : f = [k \in PlaceTerms |-> Place(k)]
  OBVIOUS
<1>5. f \in Injection(PlaceTerms, 1..n)
  BY <1>3, <1>4, PlacesOrdered DEF Injection, IsInjective
<1>6. IsFiniteSet(1..n) /\ Cardinality(1..n) = n
  BY FS_Interval
<1>7. Cardinality(PlaceTerms) = n
  <2>1. { j \in 1..Len(Terms) : j \in PlaceTerms } = PlaceTerms
    BY <1>1
  <2> QED BY <1>1, <1>2, <2>1, PlacesCounted DEF Counted
<1>8. f \in Surjection(PlaceTerms, 1..n)
  BY <1>5, <1>6, <1>7, FS_Injection
<1> QED BY <1>2, <1>3, <1>4, <1>8 DEF Surjection, Places

(***************************************************************************)
(* Binding.  The iterators of C have the place and the argument the wrong  *)
(* way round.                                                              *)
(***************************************************************************)
Swapped == backend = "c" /\ query.type = "iterate"
Before == 1..(term - 1)

Direct ==
  /\ idx = Place(term - 1) + 1 /\ pos = Argument(term - 1) + 1
  /\ parms \in [1..Place(term - 1) -> Nat]
  /\ \A p \in DOMAIN parms :
       \E k \in Before : IsPlace(Terms[k]) /\ Place(k) = p /\ parms[p] = Argument(k)

Crossed ==
  /\ pos = Place(term - 1) + 1 /\ idx = Argument(term - 1) + 1
  /\ \A p \in DOMAIN parms :
       \E k \in Before : IsPlace(Terms[k]) /\ Argument(k) = p /\ parms[p] = Place(k)
  /\ \A k \in Before : IsPlace(Terms[k]) => Argument(k) \in DOMAIN parms

Binding ==
  /\ backend \in Backends /\ query \in Searches /\ Allowed(query) /\ table \in Tables
  /\ term \in 1..(Len(Terms) + 1)
  /\ IF Swapped THEN Crossed ELSE Direct

(* At first nothing is bound.                                              *)
LEMMA BindingStarts == Init => Binding
<1> SUFFICES ASSUME Init PROVE Binding
  OBVIOUS
<1>1. query \in Searches /\ term = 1 /\ idx = 1 /\ pos = 1 /\ parms = <<>>
  BY DEF Init
<1>2. Len(Terms) \in Nat /\ Place(0) = 0 /\ Argument(0) = 0
  BY <1>1, TermsTyped, TermPlaced
<1>3. Before = {} /\ term - 1 = 0
  BY <1>1 DEF Before
<1>4. DOMAIN parms = {} /\ parms \in [1..0 -> Nat]
  <2>1. 1..0 = {}
    OBVIOUS
  <2> QED BY <1>1, <2>1
<1>5. Crossed
  BY <1>1, <1>2, <1>3, <1>4 DEF Crossed
<1>6. Direct
  BY <1>1, <1>2, <1>3, <1>4 DEF Direct
<1> QED BY <1>1, <1>2, <1>5, <1>6 DEF Binding, Init

(* Binding is about the variables of the binding loop alone.               *)
LEMMA BindingKept ==
  ASSUME Binding, UNCHANGED <<backend, query, table, term, idx, pos, parms>>
  PROVE  Binding'
<1>1. Terms' = Terms /\ (\A k : Place(k)' = Place(k)) /\ (\A k : Argument(k)' = Argument(k))
      /\ Allowed(query)' = Allowed(query) /\ Swapped' = Swapped /\ Before' = Before
  BY DEF Place, Argument, Terms, Allowed, Swapped, Before
<1>2. Crossed => Crossed'
  BY <1>1 DEF Crossed
<1>3. Direct => Direct'
  BY <1>1 DEF Direct
<1> QED BY <1>1, <1>2, <1>3 DEF Binding

(* A term is bound: it has an index and an argument, as far as those       *)
(* before it did.                                                          *)
LEMMA DirectStep ==
  ASSUME Binding, ~Swapped, term <= Len(Terms),
         UNCHANGED <<backend, query, table>>, term' = term + 1,
         pos' = IF IsUnary(Terms[term]) THEN pos ELSE pos + 1,
         IF IsPlace(Terms[term])
         THEN /\ idx' = idx + 1
              /\ parms' = [p \in DOMAIN parms \cup {idx} |-> IF p = idx THEN pos ELSE parms[p]]
         ELSE UNCHANGED <<parms, idx>>
  PROVE  Direct'
<1>1. /\ query \in Searches /\ term \in 1..(Len(Terms) + 1) /\ Direct
      /\ Len(Terms) \in Nat /\ DOMAIN Terms = 1..Len(Terms)
  BY TermsTyped DEF Binding
<1>2. term \in DOMAIN Terms /\ term \in Nat /\ term - 1 \in 0..Len(Terms)
  BY <1>1
<1>3. PICK n \in Nat : n = Place(term - 1)
  BY <1>1, <1>2, TermPlaced
<1>4. PICK a \in Nat : a = Argument(term - 1)
  BY <1>1, <1>2, TermPlaced
<1>5. /\ Place(term) = IF IsPlace(Terms[term]) THEN n + 1 ELSE n
      /\ Argument(term) = IF IsUnary(Terms[term]) THEN a ELSE a + 1
  BY <1>1, <1>2, <1>3, <1>4, TermPlaced
<1>6. /\ idx = n + 1 /\ pos = a + 1 /\ parms \in [1..n -> Nat]
      /\ \A p \in 1..n : \E k \in Before :
           IsPlace(Terms[k]) /\ Place(k) = p /\ parms[p] = Argument(k)
  BY <1>1, <1>3, <1>4 DEF Direct
<1>7. IsPlace(Terms[term]) => ~IsUnary(Terms[term])
  BY DEF IsPlace
<1>8. Before' = Before \cup {term}
  BY <1>2 DEF Before
<1>9. /\ idx' = Place(term) + 1 /\ pos' = Argument(term) + 1
      /\ parms' \in [1..Place(term) -> Nat]
      /\ \A p \in 1..Place(term) : \E k \in Before' :
           IsPlace(Terms[k]) /\ Place(k) = p /\ parms'[p] = Argument(k)
  <2>1. CASE IsPlace(Terms[term])
    <3>1. 1..(n + 1) = (1..n) \cup {n + 1} /\ n + 1 \notin 1..n
      OBVIOUS
    <3>2. parms' = [p \in 1..(n + 1) |-> IF p = n + 1 THEN a + 1 ELSE parms[p]]
      BY <1>6, <2>1, <3>1
    <3>3. parms' \in [1..(n + 1) -> Nat] /\ parms'[n + 1] = a + 1
          /\ \A p \in 1..n : parms'[p] = parms[p]
      BY <1>6, <3>1, <3>2
    <3>4. Place(term) = n + 1 /\ Argument(term) = a + 1
      BY <1>5, <1>7, <2>1
    <3>5. ASSUME NEW p \in 1..(n + 1)
          PROVE  \E k \in Before' : IsPlace(Terms[k]) /\ Place(k) = p /\ parms'[p] = Argument(k)
      <4>1. CASE p = n + 1
        BY <1>8, <2>1, <3>3, <3>4, <4>1
      <4>2. CASE p \in 1..n
        BY <1>6, <1>8, <3>3, <4>2
      <4> QED BY <3>1, <4>1, <4>2
    <3> QED BY <1>6, <1>7, <2>1, <3>3, <3>4, <3>5
  <2>2. CASE ~IsPlace(Terms[term])
    <3>1. Place(term) = n /\ idx' = idx /\ parms' = parms
      BY <1>5, <2>2
    <3>2. pos' = Argument(term) + 1
      BY <1>5, <1>6
    <3> QED BY <1>6, <1>8, <3>1, <3>2
  <2> QED BY <2>1, <2>2
<1>10. term' - 1 = term
  BY <1>2
<1>11. Terms' = Terms /\ (\A k : Place(k)' = Place(k)) /\ (\A k : Argument(k)' = Argument(k))
  BY DEF Place, Argument, Terms
<1> QED BY <1>9, <1>10, <1>11 DEF Direct

(* The same for an iterator in C.                                          *)
LEMMA CrossedStep ==
  ASSUME Binding, Swapped, term <= Len(Terms),
         UNCHANGED <<backend, query, table>>, term' = term + 1,
         idx' = IF IsUnary(Terms[term]) THEN idx ELSE idx + 1,
         IF IsPlace(Terms[term])
         THEN /\ pos' = pos + 1
              /\ parms' = [p \in DOMAIN parms \cup {idx} |-> IF p = idx THEN pos ELSE parms[p]]
         ELSE UNCHANGED <<parms, pos>>
  PROVE  Crossed'
<1>1. /\ query \in Searches /\ term \in 1..(Len(Terms) + 1) /\ Crossed
      /\ Len(Terms) \in Nat /\ DOMAIN Terms = 1..Len(Terms)
  BY TermsTyped DEF Binding
<1>2. term \in DOMAIN Terms /\ term \in Nat /\ term - 1 \in 0..Len(Terms)
  BY <1>1
<1>3. PICK n \in Nat : n = Place(term - 1)
  BY <1>1, <1>2, TermPlaced
<1>4. PICK a \in Nat : a = Argument(term - 1)
  BY <1>1, <1>2, TermPlaced
<1>5. /\ Place(term) = IF IsPlace(Terms[term]) THEN n + 1 ELSE n
      /\ Argument(term) = IF IsUnary(Terms[term]) THEN a ELSE a + 1
  BY <1>1, <1>2, <1>3, <1>4, TermPlaced
<1>6. /\ pos = n + 1 /\ idx = a + 1
      /\ \A p \in DOMAIN parms : \E k \in Before :
           IsPlace(Terms[k]) /\ Argument(k) = p /\ parms[p] = Place(k)
      /\ \A k \in Before : IsPlace(Terms[k]) => Argument(k) \in DOMAIN parms
  BY <1>1, <1>3, <1>4 DEF Crossed
<1>7. IsPlace(Terms[term]) => ~IsUnary(Terms[term])
  BY DEF IsPlace
<1>8. Before' = Before \cup {term}
  BY <1>2 DEF Before
<1>9. /\ pos' = Place(term) + 1 /\ idx' = Argument(term) + 1
      /\ \A p \in DOMAIN parms' : \E k \in Before' :
           IsPlace(Terms[k]) /\ Argument(k) = p /\ parms'[p] = Place(k)
      /\ \A k \in Before' : IsPlace(Terms[k]) => Argument(k) \in DOMAIN parms'
  <2>1. CASE IsPlace(Terms[term])
    <3>1. Place(term) = n + 1 /\ Argument(term) = a + 1
      BY <1>5, <1>7, <2>1
    <3>2. parms' = [p \in DOMAIN parms \cup {a + 1} |-> IF p = a + 1 THEN n + 1 ELSE parms[p]]
      BY <1>6, <2>1
    <3>3. /\ DOMAIN parms' = DOMAIN parms \cup {a + 1} /\ parms'[a + 1] = n + 1
          /\ \A p \in DOMAIN parms : p # a + 1 => parms'[p] = parms[p]
      BY <3>2
    <3>4. ASSUME NEW p \in DOMAIN parms'
          PROVE  \E k \in Before' : IsPlace(Terms[k]) /\ Argument(k) = p /\ parms'[p] = Place(k)
      <4>1. CASE p = a + 1
        BY <1>8, <2>1, <3>1, <3>3, <4>1
      <4>2. CASE p # a + 1
        BY <1>6, <1>8, <3>3, <4>2
      <4> QED BY <4>1, <4>2
    <3>5. \A k \in Before' : IsPlace(Terms[k]) => Argument(k) \in DOMAIN parms'
      BY <1>6, <1>8, <3>1, <3>3
    <3> QED BY <1>6, <1>7, <2>1, <3>1, <3>4, <3>5
  <2>2. CASE ~IsPlace(Terms[term])
    <3>1. Place(term) = n /\ pos' = pos /\ parms' = parms
      BY <1>5, <2>2
    <3>2. idx' = Argument(term) + 1
      BY <1>5, <1>6
    <3> QED BY <1>6, <1>8, <2>2, <3>1, <3>2
  <2> QED BY <2>1, <2>2
<1>10. term' - 1 = term
  BY <1>2
<1>11. Terms' = Terms /\ (\A k : Place(k)' = Place(k)) /\ (\A k : Argument(k)' = Argument(k))
  BY DEF Place, Argument, Terms
<1> QED BY <1>9, <1>10, <1>11 DEF Crossed

(* Either way of binding keeps the invariant, and there are no iterators   *)
(* that push.                                                              *)
LEMMA BindStep ==
  ASSUME Binding, Bind \/ Push
  PROVE  Binding'
<1>1. /\ UNCHANGED <<backend, query, table>> /\ term <= Len(Terms) /\ term' = term + 1
  BY DEF Bind, Push
<1>2. /\ Terms' = Terms /\ Swapped' = Swapped /\ Allowed(query)' = Allowed(query)
      /\ query \in Searches /\ term \in 1..(Len(Terms) + 1) /\ Len(Terms) \in Nat
  BY <1>1, TermsTyped DEF Terms, Swapped, Allowed, Binding
<1>3. \A t : IsPlace(t) <=> ~IsUnary(t) /\ ~IsHash(t)
  BY DEF IsPlace
<1>4. CASE Bind /\ Swapped
  <2> PICK n \in Nat : n = Place(term - 1)
    BY <1>1, <1>2, TermPlaced
  <2>1. pos = n + 1 /\ pos + 0 = pos
    BY <1>4 DEF Binding, Crossed
  <2>2. /\ idx' = IF IsUnary(Terms[term]) THEN idx ELSE idx + 1
        /\ IF IsPlace(Terms[term])
           THEN /\ pos' = pos + 1
                /\ parms' = [p \in DOMAIN parms \cup {idx} |->
                               IF p = idx THEN pos ELSE parms[p]]
           ELSE UNCHANGED <<parms, pos>>
    <3>1. query.type = "iterate"
      BY <1>4 DEF Swapped
    <3> QED BY <1>3, <1>4, <2>1, <3>1 DEF Bind, Advance
  <2>3. Crossed'
    BY <1>1, <1>4, <2>2, CrossedStep
  <2> QED BY <1>1, <1>2, <1>4, <2>3 DEF Binding
<1>5. CASE ~Swapped
  <2>1. /\ pos' = IF IsUnary(Terms[term]) THEN pos ELSE pos + 1
        /\ IF IsPlace(Terms[term])
           THEN /\ idx' = idx + 1
                /\ parms' = [p \in DOMAIN parms \cup {idx} |->
                               IF p = idx THEN pos ELSE parms[p]]
           ELSE UNCHANGED <<parms, idx>>
    <3> PICK n \in Nat : n = Place(term - 1)
      BY <1>1, <1>2, TermPlaced
    <3>1. idx = n + 1 /\ parms \in [1..n -> Nat] /\ pos \in Nat
      BY <1>1, <1>2, <1>5, TermPlaced DEF Binding, Direct
    <3>2. CASE Bind
      <4>1. query.type # "iterate" \/ backend # "c"
        BY <1>5 DEF Swapped
      <4>2. idx + 0 = idx
        BY <3>1
      <4> QED BY <1>3, <3>2, <4>1, <4>2 DEF Bind, Advance
    <3>3. CASE Push
      <4>1. parms \in Seq(Nat) /\ Len(parms) = n
        BY <3>1, IsASeq, LenProperties
      <4>2. Append(parms, pos) = [p \in DOMAIN parms \cup {idx} |->
                                    IF p = idx THEN pos ELSE parms[p]]
        <5>1. 1..(n + 1) = (1..n) \cup {n + 1} /\ DOMAIN parms = 1..n /\ n + 1 \notin 1..n
          BY <3>1
        <5>2. PICK s : s = Append(parms, pos)
          OBVIOUS
        <5>3. /\ s \in Seq(Nat) /\ Len(s) = n + 1 /\ s[n + 1] = pos
              /\ \A p \in 1..n : s[p] = parms[p]
          BY <3>1, <4>1, <5>2, AppendProperties
        <5>4. s = [p \in 1..(n + 1) |-> s[p]]
          BY <5>3, LenProperties, SeqDef
        <5>5. s = [p \in 1..(n + 1) |-> IF p = n + 1 THEN pos ELSE parms[p]]
          BY <5>1, <5>3, <5>4
        <5> QED BY <3>1, <5>1, <5>2, <5>5
      <4> QED BY <3>3, <4>2 DEF Push
    <3> QED BY <3>2, <3>3
  <2>2. Direct'
    BY <1>1, <1>5, <2>1, DirectStep
  <2> QED BY <1>1, <1>2, <1>5, <2>2 DEF Binding
<1>6. CASE Push /\ Swapped
  BY <1>6 DEF Push, Swapped
<1> QED BY <1>4, <1>5, <1>6

(* All terms are bound, and the array is as long as it should be.          *)
AllBound == \A k \in DOMAIN Terms : IsPlace(Terms[k]) => parms[Place(k)] = Argument(k)

(* In an iterator the array is written at arguments: if these are the      *)
(* places, no term with a place is behind a hashed password.               *)
LEMMA WellBound ==
  ASSUME Binding, term > Len(Terms), DOMAIN parms = Places
  PROVE  AllBound
<1>1. /\ query \in Searches /\ term \in 1..(Len(Terms) + 1)
      /\ Len(Terms) \in Nat /\ DOMAIN Terms = 1..Len(Terms)
  BY TermsTyped DEF Binding
<1>2. term - 1 = Len(Terms) /\ Before = DOMAIN Terms
  BY <1>1 DEF Before
<1>3. /\ \A k \in DOMAIN Terms : k \in 0..Len(Terms) /\ k <= Len(Terms)
      /\ Len(Terms) \in 0..Len(Terms)
  BY <1>1
<1>4. /\ \A k \in PlaceTerms : /\ k \in DOMAIN Terms /\ Place(k) \in Places
                               /\ Place(k) \in Nat /\ Argument(k) \in Nat
      /\ Place(Len(Terms)) \in Nat
  BY <1>1, <1>3, TermPlaced, PlacesFilled DEF PlaceTerms
<1>5. SUFFICES ASSUME NEW k \in PlaceTerms PROVE parms[Place(k)] = Argument(k)
  BY DEF AllBound, PlaceTerms
<1>6. CASE ~Swapped
  <2>1. PICK j \in Before : IsPlace(Terms[j]) /\ Place(j) = Place(k)
                            /\ parms[Place(k)] = Argument(j)
    BY <1>4, <1>6 DEF Binding, Direct
  <2>2. j \in PlaceTerms
    BY <1>2, <2>1 DEF PlaceTerms
  <2> QED BY <1>1, <2>1, <2>2, PlacesOrdered
<1>7. CASE Swapped
  <2>1. ASSUME NEW j \in PlaceTerms, Argument(j) # Place(j) PROVE FALSE
    <3>1. PICK h \in 1..j : IsHash(Terms[h])
      BY <1>1, <1>4, <2>1, PlacesOrdered
    <3>2. Place(Len(Terms)) \in Places
      <4>1. Place(j) \in 1..Place(Len(Terms))
        BY <1>4 DEF Places
      <4> QED BY <1>4, <4>1 DEF Places
    <3>3. PICK l \in PlaceTerms : Place(l) = Place(Len(Terms))
      BY <1>1, <3>2, PlacesFilled
    <3>4. j <= l
      <4> SUFFICES ASSUME l < j PROVE FALSE
        BY <1>1, <1>4
      <4>1. Place(l) <= Place(j) /\ Place(j) <= Place(Len(Terms))
        BY <1>1, <1>3, <1>4, PlacesOrdered
      <4>2. Place(l) = Place(j)
        BY <1>4, <3>3, <4>1
      <4>3. l = j
        BY <1>1, <4>2, PlacesOrdered
      <4> QED BY <1>1, <1>4, <4>3
    <3>5. Argument(l) > Place(l)
      <4>1. h \in 1..l
        BY <1>1, <1>4, <3>4
      <4> QED BY <1>1, <1>4, <3>1, <4>1, PlacesOrdered
    <3>6. Argument(l) \in DOMAIN parms
      BY <1>2, <1>4, <1>7 DEF Binding, Crossed, PlaceTerms
    <3> QED BY <1>4, <3>3, <3>5, <3>6 DEF Places
  <2>2. Argument(k) \in DOMAIN parms
    BY <1>2, <1>4, <1>7 DEF Binding, Crossed, PlaceTerms
  <2>3. PICK j \in Before : IsPlace(Terms[j]) /\ Argument(j) = Argument(k)
                            /\ parms[Argument(k)] = Place(j)
    BY <1>7, <2>2 DEF Binding, Crossed
  <2>4. j \in PlaceTerms
    BY <1>2, <2>3 DEF PlaceTerms
  <2> QED BY <2>1, <2>3, <2>4
<1> QED BY <1>6, <1>7

(***************************************************************************)
(* Which rows are returned.                                                *)
(***************************************************************************)

(* What the assumption about tables says of the table at hand.             *)
LEMMA TableTyped ==
  ASSUME table \in Tables
  PROVE  /\ IsFiniteSet(table)
         /\ \A row \in table : row.pw \in Nat /\ row.v \in Nat
BY TablesAssumption DEF Row

(* Comparing passwords rejects what does not satisfy their terms.          *)
LEMMA Judged ==
  ASSUME table \in Tables, NEW row \in table
  PROVE  \A k : k \in Rejected(row)
                <=> k \in DOMAIN Terms /\ IsHash(Terms[k]) /\ ~Satisfies(row, k)
<1> SUFFICES ASSUME NEW k \in DOMAIN Terms, IsHash(Terms[k])
             PROVE  k \in Rejected(row) <=> ~Satisfies(row, k)
  BY DEF Rejected
<1>1. row.pw \in Nat
  BY TableTyped
<1>2. row.pw # Null => Plain(row.pw) \in {1, 2}
  BY <1>1 DEF Plain, Null
<1>3. row.pw = Null => Plain(row.pw) = Null
  BY DEF Plain
<1>4. Terms[k].op \in {"eq", "neq"} /\ ~IsUnary(Terms[k])
  BY DEF IsHash, IsUnary
<1> DEFINE arg == args[Argument(k)]
           plain == Plain(row.pw)
<1>5. Satisfies(row, k) <=> Holds(Terms[k].op, plain, arg)
  BY <1>4 DEF Satisfies
<1>6. Holds(Terms[k].op, plain, arg) <=>
        /\ plain # Null /\ arg # Null
        /\ Terms[k].op = "eq" => plain = arg
        /\ Terms[k].op = "neq" => plain # arg
  BY <1>4 DEF Holds
<1>7. k \in Rejected(row) <=>
        \/ arg = Null \/ row.pw = Null
        \/ Terms[k].op = "eq" /\ arg # plain
        \/ Terms[k].op = "neq" /\ arg = plain
  <2>1. Terms[k].op = "eq" => (Terms[k].op = "neq") = FALSE
    OBVIOUS
  <2>2. Terms[k].op = "neq" => (Terms[k].op = "neq") = TRUE
    OBVIOUS
  <2> QED BY <1>4, <2>1, <2>2 DEF Rejected
<1>8. plain = Null <=> row.pw = Null
  BY <1>2, <1>3 DEF Null
<1> QED BY <1>4, <1>5, <1>6, <1>7, <1>8

(* The statement selects by the other terms.                               *)
LEMMA Selects ==
  ASSUME AllBound, NEW row
  PROVE  Where(row) <=> \A k \in DOMAIN Terms : ~IsHash(Terms[k]) => Satisfies(row, k)
<1> SUFFICES ASSUME NEW k \in DOMAIN Terms, ~IsHash(Terms[k])
             PROVE  Holds(Terms[k].op, row[Terms[k].field], Bound(k)) <=> Satisfies(row, k)
  BY DEF Where
<1>1. CASE IsUnary(Terms[k])
  BY <1>1 DEF Bound, Satisfies, IsPlace
<1>2. CASE ~IsUnary(Terms[k])
  BY <1>2 DEF Bound, Satisfies, IsPlace, AllBound
<1> QED BY <1>1, <1>2

(* Of the rows of the statement, those are accepted that satisfy all       *)
(* terms; without groups, these are all that do.                           *)
LEMMA Accepted ==
  ASSUME AllBound, table \in Tables
  PROVE  /\ \A row \in Selected : Rejected(row) = {} <=> row \in Matching
         /\ NoHash => Selected \subseteq Matching
         /\ query.group = "none" => Matching \subseteq Selected
         /\ Selected \subseteq table /\ IsFiniteSet(Selected)
         /\ Cardinality(Selected) \in Nat
<1>1. Selected \subseteq table
  BY DEF Selected
<1>2. \A row \in Selected : \A k \in DOMAIN Terms : ~IsHash(Terms[k]) => Satisfies(row, k)
  BY Selects DEF Selected
<1>3. ASSUME NEW row \in Selected
      PROVE  Rejected(row) = {} <=> row \in Matching
  <2>1. \A k : k \in Rejected(row)
               <=> k \in DOMAIN Terms /\ IsHash(Terms[k]) /\ ~Satisfies(row, k)
    BY <1>1, Judged
  <2>2. row \in table /\ \A k \in DOMAIN Terms : ~IsHash(Terms[k]) => Satisfies(row, k)
    BY <1>1, <1>2
  <2> QED BY <2>1, <2>2 DEF Matching
<1>4. NoHash => Selected \subseteq Matching
  BY <1>1, <1>2 DEF NoHash, Matching
<1>5. query.group = "none" => Matching \subseteq Selected
  BY Selects DEF Matching, Selected, Grouped
<1>6. IsFiniteSet(Selected)
  BY <1>1, TableTyped, FS_Subset
<1> QED BY <1>1, <1>3, <1>4, <1>5, <1>6, FS_CardinalityType

(* The head of the rest is taken over, or passed over.                     *)
LEMMA HeadTaken ==
  ASSUME NEW S, NEW g \in Seq(S), NEW r \in Seq(S), r # <<>>
  PROVE  /\ Head(r) \in S /\ Tail(r) \in Seq(S) /\ Append(g, Head(r)) \in Seq(S)
         /\ Append(g, Head(r)) \o Tail(r) = g \o r
         /\ Range(r) = {Head(r)} \cup Range(Tail(r))
         /\ Range(Append(g, Head(r))) = Range(g) \cup {Head(r)}
         /\ Len(g \o Tail(r)) = Len(g \o r) - 1
         /\ \A i \in 1..Len(g \o Tail(r)) :
              (g \o Tail(r))[i] = (g \o r)[IF i <= Len(g) THEN i ELSE i + 1]
<1> PICK m \in Nat : m = Len(g)
  BY LenProperties
<1> PICK n \in Nat : n = Len(r)
  BY LenProperties
<1>1. n >= 1 /\ DOMAIN g = 1..m /\ DOMAIN r = 1..n
  <2>1. n # 0
    BY EmptySeq
  <2> QED BY <2>1, LenProperties
<1> PICK h : h = Head(r)
  OBVIOUS
<1> PICK t : t = Tail(r)
  OBVIOUS
<1>2. h \in S /\ h = r[1] /\ t \in Seq(S) /\ Len(t) = n - 1 /\ \A i \in 1..(n - 1) : t[i] = r[i + 1]
  BY HeadTailProperties
<1> PICK a : a = Append(g, h)
  OBVIOUS
<1>3. a \in Seq(S) /\ Len(a) = m + 1 /\ a[m + 1] = h /\ \A i \in 1..m : a[i] = g[i]
  BY <1>2, AppendProperties
<1> PICK all : all = g \o r
  OBVIOUS
<1>4. all \in Seq(S) /\ Len(all) = m + n
      /\ \A i \in 1..(m + n) : all[i] = IF i <= m THEN g[i] ELSE r[i - m]
  BY ConcatProperties
<1> PICK less : less = g \o t
  OBVIOUS
<1>5. less \in Seq(S) /\ Len(less) = m + n - 1
      /\ \A i \in 1..(m + n - 1) : less[i] = IF i <= m THEN g[i] ELSE t[i - m]
  BY <1>1, <1>2, ConcatProperties
<1> PICK both : both = a \o t
  OBVIOUS
<1>6. both \in Seq(S) /\ Len(both) = m + n
      /\ \A i \in 1..(m + n) : both[i] = IF i <= m + 1 THEN a[i] ELSE t[i - (m + 1)]
  BY <1>1, <1>2, <1>3, ConcatProperties
<1>7. ASSUME NEW i \in 1..(m + n) PROVE both[i] = all[i]
  <2>1. CASE i <= m
    BY <1>3, <1>4, <1>6, <2>1
  <2>2. CASE i = m + 1
    BY <1>2, <1>3, <1>4, <1>6, <2>2
  <2>3. CASE i > m + 1
    <3>1. i - (m + 1) \in 1..(n - 1) /\ i - (m + 1) + 1 = i - m
      BY <2>3
    <3> QED BY <1>2, <1>4, <1>6, <2>3, <3>1
  <2> QED BY <2>1, <2>2, <2>3
<1>8. both = all
  BY <1>4, <1>6, <1>7, SeqEqual
<1>9. ASSUME NEW i \in 1..(m + n - 1)
      PROVE  less[i] = all[IF i <= m THEN i ELSE i + 1]
  <2>1. CASE i <= m
    BY <1>4, <1>5, <2>1
  <2>2. CASE i > m
    <3>1. i - m \in 1..(n - 1) /\ (i - m) + 1 = (i + 1) - m /\ i + 1 \in 1..(m + n) /\ i + 1 > m
      BY <2>2
    <3> QED BY <1>2, <1>4, <1>5, <2>2, <3>1
  <2> QED BY <2>1, <2>2
<1>10. Range(r) = {h} \cup Range(t)
  <2>1. DOMAIN t = 1..(n - 1)
    BY <1>2, LenProperties
  <2>2. ASSUME NEW i \in 1..n PROVE r[i] \in {h} \cup Range(t)
    <3>1. CASE i = 1
      BY <1>2, <3>1
    <3>2. CASE i # 1
      <4>1. i - 1 \in 1..(n - 1) /\ (i - 1) + 1 = i
        BY <3>2
      <4> QED BY <1>2, <2>1, <4>1 DEF Range
    <3> QED BY <3>1, <3>2
  <2>3. \A i \in 1..(n - 1) : i + 1 \in 1..n /\ 1 \in 1..n
    BY <1>1
  <2>4. \A i \in 1..(n - 1) : t[i] \in Range(r)
    BY <1>1, <1>2, <2>3 DEF Range
  <2>5. h \in Range(r)
    <3>1. 1 \in DOMAIN r /\ h = r[1]
      BY <1>1, <1>2
    <3> QED BY <3>1 DEF Range
  <2>6. Range(r) \subseteq {h} \cup Range(t)
    <3>1. \A x \in Range(r) : \E i \in 1..n : x = r[i]
      BY <1>1 DEF Range
    <3> QED BY <2>2, <3>1
  <2>7. Range(t) \subseteq Range(r)
    <3>1. \A x \in Range(t) : \E i \in 1..(n - 1) : x = t[i]
      BY <2>1 DEF Range
    <3> QED BY <2>4, <3>1
  <2> QED BY <2>5, <2>6, <2>7
<1>11. Range(a) = Range(g) \cup {h}
  <2>1. DOMAIN a = 1..(m + 1) /\ 1..(m + 1) = (1..m) \cup {m + 1}
    BY <1>3, LenProperties
  <2>2. \A i \in 1..(m + 1) : a[i] = h \/ (i \in 1..m /\ a[i] = g[i])
    BY <1>3, <2>1
  <2> QED BY <1>1, <1>3, <2>1, <2>2 DEF Range
<1>12. Len(less) = Len(all) - 1
  BY <1>4, <1>5
<1>13. \A i \in 1..Len(less) : less[i] = all[IF i <= m THEN i ELSE i + 1]
  BY <1>5, <1>9
<1> QED BY <1>2, <1>3, <1>8, <1>10, <1>11, <1>12, <1>13, Zenon

(* What may be ahead of a row in an ordering of the selected ones.         *)
Ahead(row) == { other \in Selected : InFront(other, row) }

(* An ordering has every selected row once; a row has no more in front of  *)
(* it than its place allows.                                               *)
LEMMA OrderingProperties ==
  ASSUME AllBound, table \in Tables, NEW s \in Orderings
  PROVE  /\ s \in Seq(Selected) /\ Len(s) = Cardinality(Selected) /\ IsInjective(s)
         /\ \A i, j \in DOMAIN s : i < j => InOrder(s[i], s[j])
         /\ \A row \in Selected : \E i \in DOMAIN s : s[i] = row
         /\ \A i \in DOMAIN s : Cardinality(Ahead(s[i])) <= i - 1
                                /\ Cardinality(Ahead(s[i])) \in Nat
<1> PICK n \in Nat : n = Cardinality(Selected)
  BY Accepted
<1>1. /\ IsFiniteSet(Selected) /\ s \in [1..n -> Selected] /\ IsInjective(s)
      /\ \A i, j \in 1..n : i < j => InOrder(s[i], s[j])
  BY Accepted DEF Orderings
<1>2. s \in Seq(Selected) /\ Len(s) = n
  <2>1. s \in Seq(Selected)
    BY <1>1, SeqDef
  <2> QED BY <1>1, <2>1, LenProperties
<1>3. \A row \in Selected : \E i \in 1..n : s[i] = row
  <2>1. s \in Injection(1..n, Selected)
    BY <1>1 DEF Injection
  <2>2. IsFiniteSet(1..n) /\ Cardinality(1..n) = n
    BY FS_Interval
  <2>3. s \in Surjection(1..n, Selected)
    BY <1>1, <2>1, <2>2, FS_Injection
  <2> QED BY <2>3 DEF Surjection
<1>4. ASSUME NEW i \in 1..n
      PROVE  Cardinality(Ahead(s[i])) <= i - 1 /\ Cardinality(Ahead(s[i])) \in Nat
  <2> DEFINE first == { s[j] : j \in 1..(i - 1) }
             f == [j \in 1..(i - 1) |-> s[j]]
  <2>1. Ahead(s[i]) \in SUBSET first
    <3> SUFFICES ASSUME NEW row \in Selected, InFront(row, s[i]) PROVE row \in first
      BY DEF Ahead
    <3>1. PICK j \in 1..n : s[j] = row
      BY <1>3
    <3>2. ~(i < j)
      BY <1>1, <3>1 DEF InFront
    <3>3. j # i
      BY <3>1 DEF InFront
    <3>4. j \in 1..(i - 1)
      BY <3>2, <3>3
    <3> QED BY <3>1, <3>4
  <2>2. f \in Surjection(1..(i - 1), first)
    BY DEF Surjection
  <2>3. IsFiniteSet(1..(i - 1)) /\ Cardinality(1..(i - 1)) = i - 1 /\ i - 1 \in Nat
    <3>1. i - 1 \in Nat /\ i - 1 \in Int /\ 1 \in Int
      OBVIOUS
    <3>2. IsFiniteSet(1..(i - 1))
          /\ Cardinality(1..(i - 1)) = IF 1 > i - 1 THEN 0 ELSE (i - 1) - 1 + 1
      BY <3>1, FS_Interval
    <3> QED BY <3>1, <3>2
  <2> HIDE DEF first, f
  <2>4. IsFiniteSet(first) /\ Cardinality(first) <= i - 1
    BY <2>2, <2>3, FS_Surjection
  <2>5. IsFiniteSet(Ahead(s[i])) /\ Cardinality(Ahead(s[i])) <= Cardinality(first)
    BY <2>1, <2>4, FS_Subset
  <2> QED BY <2>3, <2>4, <2>5, FS_CardinalityType
<1> QED BY <1>1, <1>2, <1>3, <1>4

(* What is ready to be looked at when the statement has been prepared.     *)
Ready(w) ==
  /\ IsInjective(w)
  /\ \A i, j \in DOMAIN w : i < j => InOrder(w[i], w[j])
  /\ query.limit > 0 => Len(w) <= query.limit
Windowed(w) ==
  /\ query.limit > 0 =>
       LET left == Cardinality(Selected) - query.offset
       IN Len(w) = IF left > query.limit THEN query.limit ELSE IF left > 0 THEN left ELSE 0
  /\ \A i \in DOMAIN w : Cardinality(Ahead(w[i])) <= query.offset + i - 1

(* So has a window of it, but for those the offset passes over.            *)
LEMMA WindowProperties ==
  ASSUME AllBound, table \in Tables, query \in Searches, NEW s \in Orderings
  PROVE  /\ Window(s) \in Seq(Selected)
         /\ query.type = "search" \/ query.limit = 0 =>
              \A row \in Selected : row \in Range(Window(s))
         /\ query.type # "search" => Ready(Window(s)) /\ Windowed(Window(s))
<1>1. /\ s \in Seq(Selected) /\ IsInjective(s)
      /\ \A i, j \in DOMAIN s : i < j => InOrder(s[i], s[j])
      /\ \A row \in Selected : \E i \in DOMAIN s : s[i] = row
      /\ \A i \in DOMAIN s : Cardinality(Ahead(s[i])) <= i - 1
                             /\ Cardinality(Ahead(s[i])) \in Nat
  BY OrderingProperties
<1> PICK n \in Nat : n = Cardinality(Selected)
  BY Accepted
<1>2. Len(s) = n /\ DOMAIN s = 1..n /\ \A i \in 1..n : s[i] \in Selected
  BY <1>1, OrderingProperties, LenProperties
<1> PICK limit \in Nat : limit = query.limit
  BY TermsTyped
<1> PICK offset \in Nat : offset = query.offset
  BY TermsTyped
<1>3. CASE query.type = "search" \/ limit = 0
  <2>1. Window(s) = s
    BY <1>3 DEF Window
  <2>2. \A row \in Selected : row \in Range(s)
    BY <1>1 DEF Range
  <2>3. (Ready(s) /\ Windowed(s)) \/ query.type = "search"
    <3>1. ASSUME NEW i \in 1..n
          PROVE  Cardinality(Ahead(s[i])) <= offset + i - 1
      <4>1. PICK c \in Nat : c = Cardinality(Ahead(s[i])) /\ c <= i - 1
        BY <1>1, <1>2
      <4> QED BY <4>1
    <3> QED BY <1>1, <1>2, <1>3, <3>1 DEF Ready, Windowed
  <2> QED BY <1>1, <2>1, <2>2, <2>3
<1>4. CASE query.type # "search" /\ limit > 0
  <2> DEFINE last == IF offset + limit < n THEN offset + limit ELSE n
  <2> PICK size \in Nat : size = IF last > offset THEN last - offset ELSE 0
    OBVIOUS
  <2> PICK w : w = [i \in 1..size |-> s[offset + i]]
    OBVIOUS
  <2>1. 1..(last - offset) = 1..size
    OBVIOUS
  <2>2. Window(s) = w
    <3>1. Window(s) = [i \in 1..(last - offset) |-> s[offset + i]]
      BY <1>2, <1>4 DEF Window
    <3> QED BY <2>1, <3>1
  <2>3. /\ size <= limit
        /\ size = IF n - offset > limit THEN limit ELSE IF n - offset > 0 THEN n - offset ELSE 0
        /\ \A i \in 1..size : i \in Nat /\ offset + i \in 1..n
    <3>1. CASE offset + limit < n
      BY <1>4, <3>1
    <3>2. CASE ~(offset + limit < n)
      BY <1>4, <3>2
    <3> QED BY <3>1, <3>2
  <2> HIDE DEF last
  <2>4. \A i \in 1..size : s[offset + i] \in Selected
    BY <1>2, <2>3
  <2>5. w \in Seq(Selected)
    BY <2>4, IsASeq
  <2>6. Len(w) = size /\ DOMAIN w = 1..size /\ \A i \in 1..size : w[i] = s[offset + i]
    BY <2>5, LenProperties
  <2>7. IsInjective(w)
    <3> SUFFICES ASSUME NEW i \in 1..size, NEW j \in 1..size, w[i] = w[j]
                 PROVE  i = j
      BY <2>6 DEF IsInjective
    <3>1. offset + i = offset + j
      BY <1>1, <1>2, <2>3, <2>6 DEF IsInjective
    <3> QED BY <2>3, <3>1
  <2>8. ASSUME NEW i \in 1..size, NEW j \in 1..size, i < j
        PROVE  InOrder(w[i], w[j])
    <3>1. offset + i < offset + j /\ offset + i \in DOMAIN s /\ offset + j \in DOMAIN s
      BY <1>2, <2>3, <2>8
    <3>2. InOrder(s[offset + i], s[offset + j])
      BY <1>1, <3>1
    <3> QED BY <2>6, <3>2
  <2>9. ASSUME NEW i \in 1..size
        PROVE  Cardinality(Ahead(w[i])) <= offset + i - 1
    <3>1. offset + i \in DOMAIN s
      BY <1>2, <2>3
    <3>2. Cardinality(Ahead(s[offset + i])) <= (offset + i) - 1
      BY <1>1, <3>1
    <3> QED BY <2>6, <3>2
  <2>10. Ready(w)
    BY <2>3, <2>6, <2>7, <2>8 DEF Ready
  <2>11. Windowed(w)
    <3>1. Len(w) = LET left == Cardinality(Selected) - query.offset
                   IN IF left > query.limit THEN query.limit
                      ELSE IF left > 0 THEN left ELSE 0
      BY <2>3, <2>6
    <3> QED BY <2>6, <2>9, <3>1 DEF Windowed
  <2> QED BY <1>4, <2>2, <2>5, <2>10, <2>11
<1> QED BY <1>3, <1>4

(***************************************************************************)
(* The invariant.                                                          *)
(***************************************************************************)
SearchOne ==
  /\ Len(got) <= 1 /\ (rest # <<>> => got = <<>>)
  /\ (NoHash \/ IsUnique(query)) /\ rest = <<>> /\ got = <<>> => Selected \cap Matching = {}

Listed ==
  /\ Ready(got \o rest) /\ (NoHash => Windowed(got \o rest))
  /\ query.limit = 0 => \A row \in Selected \cap Matching : row \in Range(got) \cup Range(rest)

Answered ==
  /\ AllBound /\ ~Fails
  /\ got \in Seq(Selected) /\ rest \in Seq(Selected) /\ Range(got) \subseteq Matching
  /\ phase = "done" => rest = <<>>
  /\ query.type = "count" => phase = "done" /\ got = <<>> /\ number = Cardinality(Selected)
  /\ query.type = "search" => SearchOne
  /\ query.type \in {"list", "iterate"} => Listed

Answering == phase \in {"rows", "done", "crash"}

IInv ==
  /\ Binding
  /\ ~Answering => phase \in {"bind", "exit", "undefined"} /\ got = <<>> /\ rest = <<>>
  /\ Answering => Answered

(* What does not change while rows are looked at.                          *)
LEMMA Frame ==
  ASSUME UNCHANGED <<backend, query, table, args, parms>>
  PROVE  /\ Selected' = Selected /\ Matching' = Matching /\ NoHash' = NoHash
         /\ AllBound' = AllBound /\ Fails' = Fails
         /\ \A row : Ahead(row)' = Ahead(row)
         /\ \A a, b : InOrder(a, b)' = InOrder(a, b)
<1>1. /\ Terms' = Terms /\ (\A k : Place(k)' = Place(k)) /\ (\A k : Argument(k)' = Argument(k))
      /\ NoHash' = NoHash /\ Fails' = Fails
  BY DEF Place, Argument, Terms, NoHash, Fails
<1>2. (\A k : Bound(k)' = Bound(k)) /\ AllBound' = AllBound
  BY <1>1 DEF Bound, AllBound
<1>3. \A row : Where(row)' = Where(row) /\ Grouped(row)' = Grouped(row)
  BY <1>1, <1>2 DEF Where, Grouped, Better
<1>4. \A row, k : Satisfies(row, k)' = Satisfies(row, k)
  BY <1>1 DEF Satisfies
<1>5. Selected' = Selected
  BY <1>3 DEF Selected
<1>6. Matching' = Matching
  BY <1>1, <1>4 DEF Matching
<1>7. \A a, b : InOrder(a, b)' = InOrder(a, b)
  BY DEF InOrder
<1>8. \A row : Ahead(row)' = Ahead(row)
  BY <1>5, <1>7 DEF Ahead, InFront
<1> QED BY <1>1, <1>2, <1>5, <1>6, <1>7, <1>8

(* A unique query selects one row.                                         *)
LEMMA OneSelected ==
  ASSUME table \in Tables, IsUnique(query), NEW a \in Selected, NEW b \in Selected
  PROVE  a = b
<1>1. ASSUME NEW field, Equals(query, field), field # "pw"
      PROVE  a[field] = b[field] /\ a[field] # Null
  <2>1. PICK k \in DOMAIN Terms : Terms[k] = [field |-> field, op |-> "eq"]
    BY <1>1 DEF Equals, Terms
  <2>2. Terms[k].field = field /\ Terms[k].op = "eq" /\ ~IsHash(Terms[k])
    BY <1>1, <2>1 DEF IsHash
  <2>3. Holds("eq", a[field], Bound(k)) /\ Holds("eq", b[field], Bound(k))
    BY <2>2 DEF Selected, Where
  <2> QED BY <2>3 DEF Holds
<1>2. a \in table /\ b \in table
  BY DEF Selected
<1>3. CASE Equals(query, "id")
  BY <1>1, <1>2, <1>3, TablesAssumption
<1>4. CASE CheckSearchUnique(query)
  <2>1. Equals(query, "k") /\ Equals(query, "g")
    BY <1>4 DEF CheckSearchUnique
  <2> QED BY <1>1, <1>2, <2>1, TablesAssumption
<1> QED BY <1>3, <1>4 DEF IsUnique

(***************************************************************************)
(* The steps.                                                              *)
(***************************************************************************)
LEMMA PrepareStep ==
  ASSUME IInv, Prepare
  PROVE  IInv'
<1>1. /\ phase = "bind" /\ term > Len(Terms) /\ DOMAIN parms = Places /\ Binding
      /\ UNCHANGED <<backend, query, table, args, term, idx, pos, parms, got>>
      /\ got = <<>> /\ rest = <<>>
  BY DEF Prepare, IInv, Answering
<1>2. AllBound /\ Binding' /\ query \in Searches /\ table \in Tables
  BY <1>1, WellBound, BindingKept DEF Binding
<1>3. CASE Fails
  BY <1>1, <1>2, <1>3 DEF Prepare, IInv, Answering
<1>4. CASE ~Fails /\ query.type = "count"
  <2>1. phase' = "done" /\ number' = Cardinality(Selected) /\ rest' = rest
    BY <1>4 DEF Prepare
  <2>2. /\ Selected' = Selected /\ Matching' = Matching
        /\ AllBound' = AllBound /\ Fails' = Fails
    BY <1>1, Frame
  <2>3. <<>> \in Seq(Selected) /\ Range(<<>>) = {}
    BY EmptySeq DEF Range
  <2>4. Answered'
    BY <1>1, <1>2, <1>4, <2>1, <2>2, <2>3 DEF Answered
  <2> QED BY <1>2, <2>1, <2>4 DEF IInv, Answering
<1>5. CASE ~Fails /\ query.type # "count"
  <2>1. PICK s \in Orderings : rest' = Window(s)
    BY <1>5 DEF Prepare
  <2>2. PICK w : w = Window(s)
    OBVIOUS
  <2>3. phase' = "rows" /\ rest' = w /\ got' = <<>>
    BY <1>1, <1>5, <2>1, <2>2 DEF Prepare
  <2>4. /\ w \in Seq(Selected)
        /\ query.type = "search" \/ query.limit = 0 => \A row \in Selected : row \in Range(w)
        /\ query.type # "search" => Ready(w) /\ Windowed(w)
    BY <1>2, <2>2, WindowProperties
  <2>5. /\ Selected' = Selected /\ Matching' = Matching /\ NoHash' = NoHash
        /\ AllBound' = AllBound /\ Fails' = Fails
        /\ \A row : Ahead(row)' = Ahead(row)
        /\ \A a, b : InOrder(a, b)' = InOrder(a, b)
    BY <1>1, Frame
  <2>6. <<>> \in Seq(Selected) /\ Range(<<>>) = {} /\ Len(<<>>) = 0 /\ <<>> \o w = w
    BY <2>4, EmptySeq, ConcatEmptySeq DEF Range
  <2>7. query.type = "search" => SearchOne'
    <3> SUFFICES ASSUME query.type = "search", w = <<>>
                 PROVE  Selected = {}
      BY <2>3, <2>5, <2>6 DEF SearchOne
    <3> QED BY <2>4, <2>6
  <2>8. query.type # "search" => Listed'
    <3> SUFFICES ASSUME query.type # "search"
                 PROVE  Listed'
      OBVIOUS
    <3>1. Ready(got \o rest)'
      BY <1>1, <2>3, <2>4, <2>5, <2>6 DEF Ready
    <3>2. Windowed(got \o rest)'
      BY <1>1, <2>3, <2>4, <2>5, <2>6 DEF Windowed
    <3> QED BY <1>1, <2>3, <2>4, <2>5, <3>1, <3>2 DEF Listed
  <2>9. Answered'
    BY <1>1, <1>2, <1>5, <2>3, <2>4, <2>5, <2>6, <2>7, <2>8 DEF Answered
  <2> QED BY <1>2, <2>3, <2>9 DEF IInv, Answering
<1> QED BY <1>3, <1>4, <1>5

(* A list or an iterator takes a row, or passes over it.                   *)
LEMMA ListStep ==
  ASSUME IInv, phase = "rows", query.type # "search", rest # <<>>,
         rest' = Tail(rest),
         got' = IF Rejected(Head(rest)) = {} THEN Append(got, Head(rest)) ELSE got,
         UNCHANGED <<backend, query, table, args, term, idx, pos, parms, number, phase>>
  PROVE  IInv'
<1>1. /\ Binding /\ Answered /\ Binding' /\ query \in Searches /\ table \in Tables
      /\ AllBound /\ Listed /\ query.type \in {"list", "iterate"}
  <2>1. Binding /\ Answered /\ query \in Searches
    BY DEF IInv, Answering, Binding
  <2> QED BY <2>1, TermsTyped, BindingKept DEF Answered, Binding
<1>2. /\ Selected' = Selected /\ Matching' = Matching /\ NoHash' = NoHash
      /\ AllBound' = AllBound /\ Fails' = Fails
      /\ \A row : Ahead(row)' = Ahead(row)
      /\ \A a, b : InOrder(a, b)' = InOrder(a, b)
  BY Frame
<1> PICK g : g = got
  OBVIOUS
<1> PICK r : r = rest
  OBVIOUS
<1> PICK h : h = Head(r)
  OBVIOUS
<1>3. /\ g \in Seq(Selected) /\ r \in Seq(Selected) /\ r # <<>> /\ Range(g) \subseteq Matching
      /\ h \in Selected /\ Tail(r) \in Seq(Selected) /\ Append(g, h) \in Seq(Selected)
      /\ Append(g, h) \o Tail(r) = g \o r
      /\ Range(r) = {h} \cup Range(Tail(r))
      /\ Range(Append(g, h)) = Range(g) \cup {h}
      /\ Len(g \o Tail(r)) = Len(g \o r) - 1
      /\ \A i \in 1..Len(g \o Tail(r)) :
           (g \o Tail(r))[i] = (g \o r)[IF i <= Len(g) THEN i ELSE i + 1]
  BY <1>1, HeadTaken DEF Answered
<1>4. Rejected(h) = {} <=> h \in Matching
  BY <1>1, <1>3, Accepted
<1>5. NoHash => h \in Matching
  BY <1>1, <1>3, Accepted
<1>6. query.limit = 0 => \A row \in Selected \cap Matching : row \in Range(got') \cup Range(rest')
  <2>1. query.limit = 0 => \A row \in Selected \cap Matching : row \in Range(g) \cup Range(r)
    BY <1>1 DEF Listed
  <2>2. CASE Rejected(h) = {}
    BY <1>3, <2>1, <2>2
  <2>3. CASE Rejected(h) # {}
    BY <1>3, <1>4, <2>1, <2>3
  <2> QED BY <2>2, <2>3
<1>7. CASE Rejected(h) = {}
  <2>1. got' = Append(g, h) /\ rest' = Tail(r)
    BY <1>7
  <2>2. got' \o rest' = g \o r
    BY <1>3, <2>1
  <2>3. Ready(got \o rest)' /\ (NoHash => Windowed(got \o rest)')
    BY <1>1, <1>2, <2>2 DEF Listed, Ready, Windowed
  <2>4. Listed'
    BY <1>2, <1>6, <2>3 DEF Listed
  <2>5. Answered'
    BY <1>1, <1>2, <1>3, <1>4, <1>7, <2>1, <2>4 DEF Answered
  <2> QED BY <1>1, <2>5 DEF IInv, Answering
<1>8. CASE Rejected(h) # {}
  <2>1. got' = g /\ rest' = Tail(r) /\ ~NoHash
    BY <1>4, <1>5, <1>8
  <2>2. PICK m \in Nat : m = Len(g)
    BY <1>3, LenProperties
  <2>3. PICK all \in Seq(Selected) : all = g \o r
    BY <1>3, ConcatProperties
  <2>4. PICK less \in Seq(Selected) : less = g \o Tail(r)
    BY <1>3, ConcatProperties
  <2>5. PICK n \in Nat : n = Len(less)
    BY LenProperties
  <2>6. /\ DOMAIN less = 1..n /\ DOMAIN all = 1..(n + 1) /\ Len(all) = n + 1
        /\ \A i \in 1..n : less[i] = all[IF i <= m THEN i ELSE i + 1]
    <3>1. Len(all) \in Nat /\ n = Len(all) - 1
      BY <1>3, <2>3, <2>4, <2>5, LenProperties
    <3> QED BY <1>3, <2>2, <2>3, <2>4, <2>5, <3>1, LenProperties
  <2>7. Ready(all)
    BY <1>1, <2>3 DEF Listed
  <2>8. IsInjective(less)
    <3> SUFFICES ASSUME NEW i \in 1..n, NEW j \in 1..n, less[i] = less[j]
                 PROVE  i = j
      BY <2>6 DEF IsInjective
    <3> DEFINE i1 == IF i <= m THEN i ELSE i + 1
               j1 == IF j <= m THEN j ELSE j + 1
    <3>1. i1 \in 1..(n + 1) /\ j1 \in 1..(n + 1)
      OBVIOUS
    <3>2. less[i] = all[i1] /\ less[j] = all[j1]
      BY <2>6
    <3> HIDE DEF i1, j1
    <3>3. i1 = j1
      BY <2>6, <2>7, <3>1, <3>2 DEF Ready, IsInjective
    <3> QED BY <3>3 DEF i1, j1
  <2>9. ASSUME NEW i \in 1..n, NEW j \in 1..n, i < j PROVE InOrder(less[i], less[j])
    <3> DEFINE i1 == IF i <= m THEN i ELSE i + 1
               j1 == IF j <= m THEN j ELSE j + 1
    <3>1. i1 \in 1..(n + 1) /\ j1 \in 1..(n + 1) /\ i1 < j1
      BY <2>9
    <3> HIDE DEF i1, j1
    <3>2. InOrder(all[i1], all[j1])
      BY <2>6, <2>7, <3>1 DEF Ready
    <3> QED BY <2>6, <3>2 DEF i1, j1
  <2>10. query.limit > 0 => n <= query.limit
    <3>1. query.limit \in Nat
      BY <1>1, TermsTyped
    <3> QED BY <2>6, <2>7, <3>1 DEF Ready
  <2>11. got' \o rest' = less
    BY <2>1, <2>4
  <2>12. Ready(got \o rest)'
    <3>1. DOMAIN less = 1..n /\ Len(less) = n
      BY <2>5, <2>6
    <3>2. \A i, j \in DOMAIN less : i < j => InOrder(less[i], less[j])'
      BY <1>2, <2>9, <3>1
    <3>3. query.limit' > 0 => Len(less) <= query.limit'
      BY <1>2, <2>10, <3>1
    <3> QED BY <2>8, <2>11, <3>2, <3>3 DEF Ready
  <2>13. Listed'
    BY <1>2, <1>6, <2>1, <2>12 DEF Listed
  <2>14. Answered'
    BY <1>1, <1>2, <1>3, <2>1, <2>13 DEF Answered
  <2> QED BY <1>1, <2>14 DEF IInv, Answering
<1> QED BY <1>7, <1>8

(* A search takes the first row, or no row at all.                         *)
LEMMA SearchStep ==
  ASSUME IInv, phase = "rows", query.type = "search", rest # <<>>,
         rest' = <<>>, phase' \in {"rows", "crash"},
         got' = IF Rejected(Head(rest)) = {} THEN <<Head(rest)>> ELSE got,
         UNCHANGED <<backend, query, table, args, term, idx, pos, parms, number>>
  PROVE  IInv'
<1>1. /\ Binding /\ Answered /\ Binding' /\ table \in Tables
      /\ AllBound /\ SearchOne
  <2>1. Binding /\ Answered
    BY DEF IInv, Answering
  <2> QED BY <2>1, BindingKept DEF Answered, Binding
<1>2. /\ Selected' = Selected /\ Matching' = Matching /\ NoHash' = NoHash
      /\ AllBound' = AllBound /\ Fails' = Fails /\ IsUnique(query)' = IsUnique(query)
  BY Frame DEF IsUnique, CheckSearchUnique, Equals
<1> PICK h : h = Head(rest)
  OBVIOUS
<1>3. h \in Selected /\ got = <<>>
  BY <1>1, HeadTailProperties DEF Answered, SearchOne
<1>4. Rejected(h) = {} <=> h \in Matching
  BY <1>1, <1>3, Accepted
<1>5. <<>> \in Seq(Selected) /\ Len(<<>>) = 0 /\ Range(<<>>) = {}
  BY EmptySeq DEF Range
<1>6. <<h>> \in Seq(Selected) /\ Len(<<h>>) = 1 /\ Range(<<h>>) = {h} /\ <<h>> # <<>>
  BY <1>3 DEF Range
<1>7. CASE Rejected(h) = {}
  <2>1. got' = <<h>> /\ rest' = <<>>
    BY <1>7
  <2>2. SearchOne'
    <3>1. Len(got') <= 1 /\ got' # <<>> /\ rest' = <<>>
      BY <1>6, <2>1
    <3> QED BY <3>1 DEF SearchOne
  <2>3. Answered'
    BY <1>1, <1>2, <1>4, <1>5, <1>6, <1>7, <2>1, <2>2 DEF Answered
  <2> QED BY <1>1, <2>3 DEF IInv, Answering
<1>8. CASE Rejected(h) # {}
  <2>1. got' = <<>> /\ rest' = <<>> /\ h \notin Matching
    BY <1>3, <1>4, <1>8
  <2>2. ~NoHash
    BY <1>1, <1>3, <2>1, Accepted
  <2>3. IsUnique(query) => Selected \cap Matching = {}
    BY <1>1, <1>3, <2>1, OneSelected
  <2>4. SearchOne'
    BY <1>2, <1>5, <2>1, <2>2, <2>3 DEF SearchOne
  <2>5. Answered'
    BY <1>1, <1>2, <1>5, <2>1, <2>4 DEF Answered
  <2> QED BY <1>1, <2>5 DEF IInv, Answering
<1> QED BY <1>7, <1>8

(* The invariant is inductive.                                             *)
LEMMA Invariance == Spec => []IInv
<1>1. Init => IInv
  BY BindingStarts DEF Init, IInv, Answering
<1>2. IInv /\ [Next]_vars => IInv'
  <2> SUFFICES ASSUME IInv, [Next]_vars PROVE IInv'
    OBVIOUS
  <2>1. CASE Bind \/ Push
    <3>1. Binding'
      BY <2>1, BindStep DEF IInv
    <3>2. phase = "bind" /\ phase' = phase /\ got' = got /\ rest' = rest
      BY <2>1 DEF Bind, Push
    <3> QED BY <3>1, <3>2 DEF IInv, Answering
  <2>2. CASE Prepare
    BY <2>2, PrepareStep
  <2>3. CASE Overrun
    BY <2>3, BindingKept DEF Overrun, IInv, Answering
  <2>4. CASE StepList
    BY <2>4, ListStep DEF StepList
  <2>5. CASE StepSearch
    <3>1. phase' \in {"rows", "crash"}
      BY <2>5 DEF StepSearch
    <3> QED BY <2>5, <3>1, SearchStep DEF StepSearch
  <2>6. CASE StepNode \/ StepRust
    <3>1. Look /\ phase = "rows" /\ rest # <<>> /\ phase' = phase
      BY <2>6 DEF StepNode, StepRust, Look
    <3>2. CASE query.type # "search"
      BY <3>1, <3>2, ListStep DEF Look
    <3>3. CASE query.type = "search"
      <4>1. got = <<>> /\ rest \in Seq(Selected)
        BY <3>1, <3>3 DEF IInv, Answering, Answered, SearchOne
      <4>2. Append(got, Head(rest)) = <<Head(rest)>>
        BY <4>1
      <4> QED BY <3>1, <3>3, <4>2, SearchStep DEF Look
    <3> QED BY <3>2, <3>3
  <2>7. CASE Finalise
    <3>1. /\ phase = "rows" /\ rest = <<>> /\ phase' = "done"
          /\ UNCHANGED <<backend, query, table, args, term, idx, pos, parms, rest, got, number>>
      BY <2>7 DEF Finalise
    <3>2. Binding' /\ Answered
      BY <3>1, BindingKept DEF IInv, Answering
    <3>3. Answered'
      <4>1. /\ Selected' = Selected /\ Matching' = Matching /\ NoHash' = NoHash
            /\ AllBound' = AllBound /\ Fails' = Fails /\ IsUnique(query)' = IsUnique(query)
            /\ \A row : Ahead(row)' = Ahead(row)
            /\ \A a, b : InOrder(a, b)' = InOrder(a, b)
        BY <3>1, Frame DEF IsUnique, CheckSearchUnique, Equals
      <4>2. SearchOne => SearchOne'
        BY <3>1, <4>1 DEF SearchOne
      <4>3. Listed => Listed'
        BY <3>1, <4>1 DEF Listed, Ready, Windowed
      <4> QED BY <3>1, <3>2, <4>1, <4>2, <4>3 DEF Answered
    <3> QED BY <3>1, <3>2, <3>3 DEF IInv, Answering
  <2>8. CASE UNCHANGED vars
    <3>1. /\ UNCHANGED <<backend, query, table, args, term, idx, pos, parms, rest, got, number>>
          /\ phase' = phase
      BY <2>8 DEF vars
    <3>2. Binding'
      BY <3>1, BindingKept DEF IInv
    <3>3. Answered => Answered'
      <4>1. /\ Selected' = Selected /\ Matching' = Matching /\ NoHash' = NoHash
            /\ AllBound' = AllBound /\ Fails' = Fails /\ IsUnique(query)' = IsUnique(query)
            /\ \A row : Ahead(row)' = Ahead(row)
            /\ \A a, b : InOrder(a, b)' = InOrder(a, b)
        BY <3>1, Frame DEF IsUnique, CheckSearchUnique, Equals
      <4>2. SearchOne => SearchOne'
        BY <3>1, <4>1 DEF SearchOne
      <4>3. Listed => Listed'
        BY <3>1, <4>1 DEF Listed, Ready, Windowed
      <4> QED BY <3>1, <4>1, <4>2, <4>3 DEF Answered
    <3> QED BY <3>1, <3>2, <3>3 DEF IInv, Answering
  <2> QED BY <2>1, <2>2, <2>3, <2>4, <2>5, <2>6, <2>7, <2>8 DEF Next
<1> QED BY <1>1, <1>2, PTL DEF Spec

(***************************************************************************)
(* The properties.                                                         *)
(***************************************************************************)
(* BoundUnlessIterated: but for iterators in C with a term behind a hashed *)
(* password, every place is given the argument of its own term.            *)
THEOREM BindingRight == Spec => []BoundUnlessIterated
<1>1. IInv => BoundUnlessIterated
  <2> SUFFICES ASSUME IInv, Swapped => HashBehind(query) PROVE BoundRight
    BY DEF BoundUnlessIterated, Swapped
  <2>1. Binding /\ query \in Searches /\ term \in 1..(Len(Terms) + 1)
    BY DEF IInv, Binding
  <2>2. DOMAIN Terms = 1..Len(Terms) /\ Len(Terms) \in Nat
    BY <2>1, TermsTyped
  <2>3. Before \subseteq DOMAIN Terms
    BY <2>1, <2>2 DEF Before
  <2>4. CASE ~Swapped
    BY <2>1, <2>3, <2>4 DEF Binding, Direct, BoundRight
  <2>5. CASE Swapped
    <3> SUFFICES ASSUME NEW p \in DOMAIN parms
                 PROVE  \E k \in DOMAIN Terms :
                          IsPlace(Terms[k]) /\ Place(k) = p /\ parms[p] = Argument(k)
      BY DEF BoundRight
    <3>1. PICK k \in Before : IsPlace(Terms[k]) /\ Argument(k) = p /\ parms[p] = Place(k)
      BY <2>1, <2>5 DEF Binding, Crossed
    <3>2. \A j \in 1..k : ~IsHash(Terms[j])
      <4> SUFFICES ASSUME NEW j \in 1..k, IsHash(Terms[j]) PROVE FALSE
        OBVIOUS
      <4>1. j \in DOMAIN Terms /\ k \in DOMAIN Terms /\ j \in Nat /\ k \in Nat
        BY <2>2, <2>3
      <4>2. k < j
        BY <2>5, <3>1, <4>1 DEF HashBehind, Terms
      <4> QED BY <4>1, <4>2
    <3>3. Argument(k) = Place(k)
      BY <2>1, <2>3, <3>2, PlacesOrdered
    <3> QED BY <2>3, <3>1, <3>3
  <2> QED BY <2>4, <2>5
<1> QED BY <1>1, Invariance, PTL

(* ReturnedMatch: the rows returned satisfy the terms, with the arguments  *)
(* given, and none is returned twice.                                      *)
THEOREM ReturnedRight == Spec => []ReturnedMatch
<1>1. IInv => ReturnedMatch
  <2> SUFFICES ASSUME IInv PROVE ReturnedMatch
    OBVIOUS
  <2>1. Range(<<>>) = {} /\ IsInjective(<<>>)
    BY DEF Range, IsInjective
  <2>2. CASE got = <<>>
    BY <2>1, <2>2 DEF ReturnedMatch
  <2>3. CASE got # <<>>
    <3>1. Answered /\ query \in Searches
      BY <2>3 DEF IInv, Answering, Binding
    <3>2. got \in Seq(Selected) /\ rest \in Seq(Selected) /\ Range(got) \subseteq Matching
      BY <3>1 DEF Answered
    <3> PICK n \in Nat : n = Len(got)
      BY <3>2, LenProperties
    <3>3. DOMAIN got = 1..n
      BY <3>2, LenProperties
    <3>4. CASE query.type = "search"
      <4>1. n <= 1
        BY <3>1, <3>4 DEF Answered, SearchOne
      <4>2. \A i, j \in 1..n : i = j
        BY <4>1
      <4> QED BY <3>2, <3>3, <4>2 DEF ReturnedMatch, IsInjective
    <3>5. CASE query.type \in {"list", "iterate"}
      <4>1. IsInjective(got \o rest)
        BY <3>1, <3>5 DEF Answered, Listed, Ready
      <4>2. \A i \in 1..n : i \in DOMAIN (got \o rest) /\ (got \o rest)[i] = got[i]
        BY <3>2, ConcatProperties, LenProperties
      <4> QED BY <3>2, <3>3, <4>1, <4>2 DEF ReturnedMatch, IsInjective
    <3>6. CASE query.type = "count"
      BY <2>3, <3>1, <3>6 DEF Answered
    <3> QED BY <3>1, <3>4, <3>5, <3>6, TermsTyped
  <2> QED BY <2>2, <2>3
<1> QED BY <1>1, Invariance, PTL

(* MatchesAnswered: what satisfies the terms is listed, found or counted,  *)
(* but for what the window leaves out and for a search that looks at one   *)
(* of several rows.                                                        *)
THEOREM MatchesReturned == Spec => []MatchesAnswered
<1>1. IInv => MatchesAnswered
  <2> SUFFICES ASSUME IInv, phase = "done", query.group = "none"
               PROVE  CASE query.type = "search" ->
                             NoHash \/ IsUnique(query) => (got = <<>>) = (Matching = {})
                        [] query.type = "count" ->
                             query.limit = 0 => number = Cardinality(Matching)
                        [] OTHER -> AllOrWindow /\ (query.order # "none" => OrderKept)
    BY DEF MatchesAnswered
  <2>1. Answered /\ query \in Searches /\ table \in Tables /\ Allowed(query)
    BY DEF IInv, Answering, Binding
  <2>2. /\ got \in Seq(Selected) /\ rest = <<>> /\ Range(got) \subseteq Matching
        /\ AllBound /\ ~Fails
    BY <2>1 DEF Answered
  <2>3. /\ query.limit \in Nat /\ query.offset \in Nat
        /\ query.type \in {"search", "list", "iterate", "count"}
    BY <2>1, TermsTyped
  <2>4. /\ Matching \subseteq Selected /\ (NoHash => Matching = Selected)
        /\ IsFiniteSet(Selected) /\ Cardinality(Selected) \in Nat
    BY <2>1, <2>2, Accepted
  <2>5. CASE query.type = "search"
    <3>1. ASSUME NoHash \/ IsUnique(query) PROVE (got = <<>>) <=> (Matching = {})
      <4>1. CASE got = <<>>
        <5>1. Selected \cap Matching = {}
          BY <2>1, <2>2, <2>5, <3>1, <4>1 DEF Answered, SearchOne
        <5> QED BY <2>4, <4>1, <5>1
      <4>2. CASE got # <<>>
        <5>1. 1 \in DOMAIN got
          BY <2>2, <4>2, LenProperties, EmptySeq
        <5>2. got[1] \in Matching
          BY <2>2, <5>1 DEF Range
        <5> QED BY <4>2, <5>2
      <4> QED BY <4>1, <4>2
    <3> QED BY <2>5, <3>1
  <2>6. CASE query.type = "count"
    <3>1. NoHash
      BY <2>1, <2>6 DEF Allowed, NoHash, IsHash, Terms
    <3> QED BY <2>1, <2>4, <2>6, <3>1 DEF Answered
  <2>7. CASE query.type \in {"list", "iterate"}
    <3>1. got \o rest = got
      BY <2>2, ConcatEmptySeq
    <3>2. /\ Ready(got) /\ (NoHash => Windowed(got))
          /\ query.limit = 0 => \A row \in Selected \cap Matching : row \in Range(got)
      <4>1. Range(rest) = {}
        BY <2>2 DEF Range
      <4>2. Listed
        BY <2>1, <2>7 DEF Answered
      <4> QED BY <3>1, <4>1, <4>2 DEF Listed
    <3>3. AllOrWindow
      <4>1. CASE query.limit = 0
        <5>1. \A row : row \in Range(got) <=> row \in Matching
          BY <2>2, <2>4, <3>2, <4>1
        <5>2. Range(got) = Matching
          BY <5>1
        <5> QED BY <4>1, <5>2 DEF AllOrWindow
      <4>2. CASE query.limit # 0
        <5>1. query.limit > 0
          BY <2>3, <4>2
        <5>2. CASE NoHash
          BY <2>4, <3>2, <4>2, <5>1, <5>2 DEF AllOrWindow, Windowed
        <5>3. CASE ~NoHash
          BY <3>2, <4>2, <5>1, <5>3 DEF AllOrWindow, Ready
        <5> QED BY <5>2, <5>3
      <4> QED BY <4>1, <4>2
    <3>4. OrderKept
      <4>1. ASSUME NoHash, NEW i \in DOMAIN got
            PROVE  Cardinality({ row \in Matching : InFront(row, got[i]) })
                     <= query.offset + i - 1
        <5>1. Cardinality(Ahead(got[i])) <= query.offset + i - 1
          BY <3>2, <4>1 DEF Windowed
        <5>2. Ahead(got[i]) = { row \in Matching : InFront(row, got[i]) }
          BY <2>4, <4>1 DEF Ahead
        <5> QED BY <5>1, <5>2
      <4> QED BY <3>2, <4>1 DEF OrderKept, Ready
    <3> QED BY <2>7, <3>3, <3>4
  <2> QED BY <2>3, <2>5, <2>6, <2>7
<1> QED BY <1>1, Invariance, PTL

(***************************************************************************)
(* Of the rows of a group that are as good as a row or better, one is the  *)
(* best: a smallest set of better rows is empty.                           *)
(***************************************************************************)
BetterThan(row) == { other \in table : other.g = row.g /\ Better(other, row) }

LEMMA BestOfGroup ==
  ASSUME query.group # "none", table \in Tables, NEW row \in table
  PROVE  \E best \in table : best.g = row.g /\ Grouped(best)
<1>1. IsFiniteSet(table) /\ \A a \in table : a.v \in Nat
  BY TablesAssumption DEF Row
<1> DEFINE Sets == { BetterThan(a) : a \in { b \in table : b.g = row.g } }
<1>2. Sets \subseteq SUBSET table /\ BetterThan(row) \in Sets
  BY DEF BetterThan
<1>3. IsWellFoundedOn(StrictSubsetOrdering(table), SUBSET table)
  <2>1. \A T \in SUBSET table : IsFiniteSet(T)
    BY <1>1, FS_Subset
  <2>2. FiniteSubsetsOf(table) = SUBSET table
    BY <2>1 DEF FiniteSubsetsOf
  <2> QED BY <2>2, FS_StrictSubsetOrderingWellFounded, Zenon
<1>4. PICK X \in Sets : \A Y \in Sets : ~ (<<Y, X>> \in StrictSubsetOrdering(table))
  <2> HIDE DEF Sets
  <2> QED BY <1>2, <1>3, WFMin
<1>5. PICK best \in table : best.g = row.g /\ X = BetterThan(best)
  OBVIOUS
<1>6. ASSUME NEW c \in BetterThan(best) PROVE FALSE
  <2>1. c \in table /\ c.g = row.g /\ Better(c, best)
    BY <1>5 DEF BetterThan
  <2>2. \A other \in table : Better(other, c) => Better(other, best)
    BY <1>1, <2>1 DEF Better
  <2>3. ~Better(c, c)
    BY <1>1, <2>1 DEF Better
  <2>4. BetterThan(c) \subseteq BetterThan(best) /\ c \notin BetterThan(c)
    BY <1>5, <2>1, <2>2, <2>3 DEF BetterThan
  <2>5. BetterThan(c) \in Sets
    BY <2>1
  <2> HIDE DEF Sets
  <2>6. <<BetterThan(c), X>> \in StrictSubsetOrdering(table)
    BY <1>2, <1>5, <1>6, <2>4, <2>5 DEF StrictSubsetOrdering
  <2> QED BY <1>4, <2>5, <2>6
<1>7. Grouped(best)
  BY <1>6 DEF Grouped, BetterThan
<1> QED BY <1>5, <1>7

(* GroupsBest: a row listed of a group is one that no row of its group     *)
(* betters, and if there is nothing to leave a row out, every group has    *)
(* one.                                                                    *)
THEOREM GroupsRight == Spec => []GroupsBest
<1>1. IInv => GroupsBest
  <2> SUFFICES ASSUME IInv, phase = "done", query.type \in {"list", "iterate"},
                      query.group # "none"
               PROVE  /\ \A row \in Range(got) : Grouped(row)
                      /\ Terms = <<>> /\ query.limit = 0 =>
                           { row.g : row \in Range(got) } = { row.g : row \in table }
    BY DEF GroupsBest, Grouped
  <2>1. Answered /\ query \in Searches /\ table \in Tables
    BY DEF IInv, Answering, Binding
  <2>2. got \in Seq(Selected) /\ rest = <<>> /\ AllBound
    BY <2>1 DEF Answered
  <2>3. Range(got) \subseteq Selected
    BY <2>2, ElementOfSeq, LenProperties DEF Range
  <2>4. \A row \in Range(got) : row \in table /\ Grouped(row)
    BY <2>3 DEF Selected
  <2>5. ASSUME Terms = <<>>, query.limit = 0
        PROVE  { row.g : row \in Range(got) } = { row.g : row \in table }
    <3>1. DOMAIN Terms = {}
      BY <2>5
    <3>2. \A row \in table : Grouped(row) => row \in Selected \cap Matching
      BY <3>1 DEF Selected, Where, Matching
    <3>3. \A row \in Selected \cap Matching : row \in Range(got)
      <4>1. Range(rest) = {}
        BY <2>2 DEF Range
      <4>2. Listed
        BY <2>1 DEF Answered
      <4> QED BY <2>5, <4>1, <4>2 DEF Listed
    <3>4. \A row \in table : \E best \in Range(got) : best.g = row.g
      BY <2>1, <3>2, <3>3, BestOfGroup
    <3> QED BY <2>4, <3>4
  <2> QED BY <2>4, <2>5
<1> QED BY <1>1, Invariance, PTL
===============================================================================
