----------------------------- MODULE Modify_proofs -----------------------------
(***************************************************************************)
(* Proofs about Modify, for all configurations the linker accepts and all  *)
(* arguments.  In every output the parameter bound to a place is the       *)
(* argument at that place, hashed if it is to be (Right, BoundIs), although  *)
(* each output counts arguments and hashes in its own way; so a column     *)
(* gets its own argument (InsertedIs, SetIs), which keeps the tables typed *)
(* and passwords hashed.  A transaction of C keeps the lock of its mode    *)
(* (TransInv), which nobody else gets past.  The values of a result are    *)
(* filled in where they belong, from whatever position (FillsIn), and what *)
(* is left out is looked for where it was filled in (Follows): the object  *)
(* got is the one promised.  With SoundInv that makes every step one of    *)
(* Records.                                                                *)
(***************************************************************************)
EXTENDS Modify, FiniteSetTheorems, SequenceTheorems, WellFoundedInduction, TLAPS

(***************************************************************************)
(* Numbers and steps.                                                      *)
(***************************************************************************)
(* A set of numbers has a smallest.                                        *)
LEMMA Smallest ==
  ASSUME NEW K \in SUBSET Nat, K # {}
  PROVE  \E n \in K : \A m \in K : n <= m
<1> DEFINE Less == OpToRel(<, Nat)
<1>1. IsWellFoundedOn(Less, Nat)
  BY NatLessThanWellFounded
<1>2. PICK n \in K : \A y \in K : ~ (<<y, n>> \in Less)
  <2> HIDE DEF Less
  <2> QED BY <1>1, WFMin
<1>3. \A y \in K : ~(y < n)
  BY <1>2 DEF OpToRel
<1> QED BY <1>3

(* What holds at first and goes on holding holds up to the end.            *)
LEMMA UpTo ==
  ASSUME NEW n \in Nat, NEW T, 0 \in T, \A i \in 1..n : i - 1 \in T => i \in T
  PROVE  \A i \in 0..n : i \in T
<1> DEFINE K == { i \in 0..n : i \notin T }
<1>1. SUFFICES ASSUME K # {} PROVE FALSE
  OBVIOUS
<1>2. PICK k \in K : \A m \in K : k <= m
  <2> K \in SUBSET Nat
    OBVIOUS
  <2> HIDE DEF K
  <2> QED BY <1>1, Smallest
<1>3. k \in 1..n /\ k - 1 \in 0..n /\ k - 1 \notin K
  BY <1>2
<1> QED BY <1>3

(* A value changed step by step: the values there are on the way.          *)
Ways(n, S, base, g) ==
  { h \in [0..n -> S] : h[0] = base /\ \A i \in 1..n : h[i] = g[<<h[i - 1], i>>] }

LEMMA StepsExist ==
  ASSUME NEW n \in Nat, NEW S, NEW base \in S, NEW g \in [S \X (1..n) -> S]
  PROVE  Ways(n, S, base, g) # {}
<1> DEFINE Way(m) == { h \in [0..m -> S] :
                         h[0] = base /\ \A i \in 1..m : h[i] = g[<<h[i - 1], i>>] }
           T == { m \in 0..n : Way(m) # {} }
<1>1. 0 \in T
  <2>1. [i \in 0..0 |-> base] \in Way(0)
    OBVIOUS
  <2> QED BY <2>1
<1>2. ASSUME NEW m \in 1..n, m - 1 \in T PROVE m \in T
  <2>1. PICK h \in Way(m - 1) : TRUE
    BY <1>2
  <2> DEFINE w == [i \in 0..m |-> IF i = m THEN g[<<h[m - 1], m>>] ELSE h[i]]
  <2>2. h \in [0..(m - 1) -> S] /\ h[0] = base /\ \A i \in 1..(m - 1) : h[i] = g[<<h[i - 1], i>>]
    BY <2>1
  <2>3. h[m - 1] \in S /\ g[<<h[m - 1], m>>] \in S
    BY <2>2
  <2>4. w \in [0..m -> S]
    BY <2>2, <2>3
  <2>5. w[0] = base
    BY <2>2
  <2>6. ASSUME NEW i \in 1..m PROVE w[i] = g[<<w[i - 1], i>>]
    <3>1. w[i - 1] = h[i - 1]
      OBVIOUS
    <3>2. CASE i = m
      BY <3>1, <3>2
    <3>3. CASE i # m
      <4>1. i \in 1..(m - 1) /\ w[i] = h[i]
        BY <3>3
      <4> QED BY <4>1, <3>1, <2>2
    <3> QED BY <3>2, <3>3
  <2>7. w \in Way(m)
    BY <2>4, <2>5, <2>6
  <2>8. Way(m) # {}
    BY <2>7
  <2> HIDE DEF Way
  <2> QED BY <2>8
<1>3. n \in T
  <2>1. n \in 0..n
    OBVIOUS
  <2> HIDE DEF T
  <2> QED BY <1>1, <1>2, <2>1, UpTo
<1>4. Way(n) # {}
  <2> HIDE DEF Way
  <2> QED BY <1>3
<1> QED BY <1>4 DEF Ways

LEMMA StepsStay ==
  ASSUME NEW n \in Nat, NEW S, NEW base \in S, NEW g \in [S \X (1..n) -> S], NEW a,
         a = [i \in 0..n |-> a[i]], a[0] = base,
         \A i \in 1..n : a[i - 1] \in S => a[i] = g[<<a[i - 1], i>>]
  PROVE  a \in Ways(n, S, base, g)
<1> DEFINE T == { i \in 0..n : a[i] \in S }
<1>1. 0 \in T
  OBVIOUS
<1>2. ASSUME NEW i \in 1..n, i - 1 \in T PROVE i \in T
  <2>1. a[i - 1] \in S /\ a[i] = g[<<a[i - 1], i>>]
    BY <1>2
  <2> QED BY <2>1
<1>3. \A i \in 0..n : i \in T
  <2> HIDE DEF T
  <2> QED BY <1>1, <1>2, UpTo
<1>4. \A i \in 0..n : a[i] \in S
  BY <1>3
<1>5. a \in [0..n -> S]
  BY <1>4
<1>6. \A i \in 1..n : a[i] = g[<<a[i - 1], i>>]
  <2> TAKE i \in 1..n
  <2>1. i - 1 \in 0..n
    OBVIOUS
  <2> QED BY <1>4, <2>1
<1> QED BY <1>5, <1>6 DEF Ways

(***************************************************************************)
(* The elements of a sequence that pass a test, in their order.            *)
(***************************************************************************)
UpToPlace(P, m) == Cardinality({ j \in P : j <= m })

LEMMA PlacesCounted ==
  ASSUME NEW n \in Nat, NEW P \in SUBSET (1..n)
  PROVE  /\ IsFiniteSet(P) /\ Cardinality(P) \in Nat
         /\ \A m \in 0..n : UpToPlace(P, m) \in Nat
         /\ UpToPlace(P, 0) = 0 /\ UpToPlace(P, n) = Cardinality(P)
         /\ \A m \in 1..n : UpToPlace(P, m) = UpToPlace(P, m - 1) + (IF m \in P THEN 1 ELSE 0)
<1>1. IsFiniteSet(P) /\ Cardinality(P) \in Nat
  <2>1. IsFiniteSet(1..n)
    BY FS_Interval
  <2>2. IsFiniteSet(P)
    BY <2>1, FS_Subset
  <2> QED BY <2>2, FS_CardinalityType
<1>2. \A m \in 0..n : IsFiniteSet({ j \in P : j <= m }) /\ UpToPlace(P, m) \in Nat
  <2> TAKE m \in 0..n
  <2>1. { j \in P : j <= m } \subseteq P
    OBVIOUS
  <2>2. IsFiniteSet({ j \in P : j <= m })
    BY <1>1, <2>1, FS_Subset
  <2> QED BY <2>2, FS_CardinalityType DEF UpToPlace
<1>3. UpToPlace(P, 0) = 0
  <2>0. \A j \in P : ~(j <= 0)
    OBVIOUS
  <2>1. { j \in P : j <= 0 } = {}
    BY <2>0, Zenon
  <2> QED BY <2>1, FS_EmptySet DEF UpToPlace
<1>4. UpToPlace(P, n) = Cardinality(P)
  <2>0. \A j \in P : j <= n
    OBVIOUS
  <2>1. { j \in P : j <= n } = P
    BY <2>0, Zenon
  <2> QED BY <2>1 DEF UpToPlace
<1>5. ASSUME NEW m \in 1..n
      PROVE  UpToPlace(P, m) = UpToPlace(P, m - 1) + (IF m \in P THEN 1 ELSE 0)
  <2> DEFINE A == { j \in P : j <= m - 1 }
             B == { j \in P : j <= m }
  <2>0. IsFiniteSet(A) /\ m \notin A
    <3>1. m - 1 \in 0..n /\ ~(m <= m - 1)
      OBVIOUS
    <3> QED BY <1>2, <3>1, Zenon
  <2>1. CASE m \in P
    <3>0. \A j \in P : j <= m <=> j <= m - 1 \/ j = m
      OBVIOUS
    <3>1. B = A \cup {m}
      BY <2>1, <3>0, Zenon
    <3> HIDE DEF A, B
    <3>2. Cardinality(B) = Cardinality(A) + 1
      BY <2>0, <3>1, FS_AddElement
    <3> QED BY <3>2, <2>1 DEF A, B, UpToPlace
  <2>2. CASE m \notin P
    <3>0. \A j \in P : j <= m <=> j <= m - 1
      BY <2>2
    <3>1. B = A
      BY <3>0, Zenon
    <3>2. UpToPlace(P, m) = UpToPlace(P, m - 1) /\ UpToPlace(P, m - 1) \in Nat
      <4>1. m - 1 \in 0..n
        OBVIOUS
      <4> HIDE DEF A, B
      <4> QED BY <3>1, <4>1, <1>2 DEF A, B, UpToPlace
    <3> QED BY <3>2, <2>2
  <2> QED BY <2>1, <2>2
<1> QED BY <1>1, <1>2, <1>3, <1>4, <1>5

(* The n-th of some places is one of them, with n of them up to it.        *)
LEMMA NthIs ==
  ASSUME NEW n \in Nat, NEW P \in SUBSET (1..n), NEW k \in 1..Cardinality(P)
  PROVE  Nth(P, k) \in P /\ UpToPlace(P, Nth(P, k)) = k
<1>0. Cardinality(P) \in Nat
  BY PlacesCounted, Zenon
<1>a. /\ \A m \in 0..n : UpToPlace(P, m) \in Nat
      /\ UpToPlace(P, 0) = 0 /\ UpToPlace(P, n) = Cardinality(P)
      /\ \A m \in 1..n : UpToPlace(P, m) = UpToPlace(P, m - 1) + (IF m \in P THEN 1 ELSE 0)
  BY PlacesCounted, Zenon
<1> DEFINE K == { m \in 1..n : UpToPlace(P, m) >= k }
<1>1. n \in K
  <2>1. n # 0
    BY <1>a, <1>0
  <2> QED BY <2>1, <1>a, <1>0
<1>2. PICK m \in K : \A x \in K : m <= x
  <2> K \in SUBSET Nat
    OBVIOUS
  <2> HIDE DEF K
  <2> QED BY <1>1, Smallest
<1>3. m \in 1..n /\ m - 1 \in 0..n /\ m - 1 \notin K
  BY <1>2
<1>4. UpToPlace(P, m - 1) \in Nat /\ UpToPlace(P, m) \in Nat
      /\ UpToPlace(P, m) = UpToPlace(P, m - 1) + (IF m \in P THEN 1 ELSE 0)
  BY <1>a, <1>3
<1>5. UpToPlace(P, m - 1) < k
  <2>1. CASE m - 1 = 0
    BY <2>1, <1>a, <1>0
  <2>2. CASE m - 1 # 0
    BY <2>2, <1>3, <1>4, <1>0
  <2> QED BY <2>1, <2>2
<1>6. m \in P /\ UpToPlace(P, m) = k
  BY <1>2, <1>4, <1>5, <1>0
<1> QED BY <1>6 DEF Nth, UpToPlace

LEMMA NthUnique ==
  ASSUME NEW n \in Nat, NEW P \in SUBSET (1..n), NEW i \in P, NEW j \in P,
         UpToPlace(P, i) = UpToPlace(P, j)
  PROVE  i = j
<1>1. ASSUME NEW a \in P, NEW b \in P, a < b PROVE UpToPlace(P, a) # UpToPlace(P, b)
  <2>0. \A x \in P : (x <= a => x <= b) /\ ~(b <= a) /\ b <= b
    BY <1>1
  <2>1. { x \in P : x <= a } \subseteq { x \in P : x <= b } /\ b \notin { x \in P : x <= a }
        /\ b \in { x \in P : x <= b }
    BY <2>0, Zenon
  <2>2. IsFiniteSet({ x \in P : x <= b })
    <3>1. IsFiniteSet(P)
      BY PlacesCounted, Zenon
    <3>2. { x \in P : x <= b } \subseteq P
      OBVIOUS
    <3> QED BY <3>1, <3>2, FS_Subset
  <2>3. { x \in P : x <= a } # { x \in P : x <= b }
    BY <2>1
  <2> QED BY <2>1, <2>2, <2>3, FS_Subset DEF UpToPlace
<1> QED BY <1>1

(* Each of the places is the n-th one for some n.                          *)
LEMMA NthOf ==
  ASSUME NEW n \in Nat, NEW P \in SUBSET (1..n), NEW j \in P
  PROVE  UpToPlace(P, j) \in 1..Cardinality(P) /\ Nth(P, UpToPlace(P, j)) = j
<1> DEFINE A == { x \in P : x <= j }
<1>0. j <= j
  OBVIOUS
<1>1. A \subseteq P /\ j \in A /\ IsFiniteSet(P)
  BY <1>0, PlacesCounted, Zenon
<1>2. IsFiniteSet(A) /\ Cardinality(A) <= Cardinality(P) /\ Cardinality(A) # 0
  <2> HIDE DEF A
  <2>1. IsFiniteSet(A) /\ Cardinality(A) <= Cardinality(P)
    BY <1>1, FS_Subset
  <2> QED BY <2>1, <1>1, FS_EmptySet
<1>3. UpToPlace(P, j) \in 1..Cardinality(P)
  BY <1>2, FS_CardinalityType, PlacesCounted DEF UpToPlace
<1> QED BY <1>3, NthIs, NthUnique

(* The elements at some places of a sequence.                              *)
Picked(seq, P) == [n \in 1..Cardinality(P) |-> seq[Nth(P, n)]]

LEMMA PickedIs ==
  ASSUME NEW S, NEW seq \in Seq(S), NEW P \in SUBSET DOMAIN seq
  PROVE  /\ Picked(seq, P) \in Seq(S)
         /\ Len(Picked(seq, P)) = Cardinality(P) /\ Cardinality(P) \in Nat
         /\ \A k \in 1..Cardinality(P) : Nth(P, k) \in P /\ Picked(seq, P)[k] = seq[Nth(P, k)]
         /\ \A j \in P : \E k \in 1..Cardinality(P) : Nth(P, k) = j
         /\ \A k, l \in 1..Cardinality(P) : Nth(P, k) = Nth(P, l) => k = l
<1>1. DOMAIN seq = 1..Len(seq) /\ Len(seq) \in Nat
  BY LenProperties
<1>2. Cardinality(P) \in Nat
  BY <1>1, PlacesCounted
<1>3. \A k \in 1..Cardinality(P) : Nth(P, k) \in P /\ UpToPlace(P, Nth(P, k)) = k
  BY <1>1, NthIs
<1>4. \A j \in P : \E k \in 1..Cardinality(P) : Nth(P, k) = j
  BY <1>1, NthOf
<1>5. \A i \in P : seq[i] \in S
  BY <1>1, ElementOfSeq
<1>6. Picked(seq, P) \in [1..Cardinality(P) -> S]
  BY <1>3, <1>5 DEF Picked
<1>7. Picked(seq, P) \in Seq(S) /\ Len(Picked(seq, P)) = Cardinality(P)
  BY <1>2, <1>6, LenProperties, SeqDef
<1> QED BY <1>2, <1>3, <1>4, <1>7 DEF Picked

(* A set of places has a first and a last one.                             *)
LEMMA FirstOf ==
  ASSUME NEW P \in SUBSET Nat, P # {}
  PROVE  Min(P) \in P /\ \A j \in P : Min(P) <= j
BY Smallest DEF Min

LEMMA LastOf ==
  ASSUME NEW S \in SUBSET Int, NEW hi \in Int, S # {}, \A v \in S : v <= hi
  PROVE  Max(S) \in S /\ \A v \in S : v <= Max(S)
<1> DEFINE K == { n \in Nat : \E v \in S : n = hi - v }
<1>1. K # {}
  <2>1. PICK v \in S : TRUE
    OBVIOUS
  <2>2. hi - v \in K
    BY <2>1
  <2> QED BY <2>2
<1>2. PICK n \in K : \A m \in K : n <= m
  <2> K \in SUBSET Nat
    OBVIOUS
  <2> HIDE DEF K
  <2> QED BY <1>1, Smallest
<1>3. PICK m \in S : n = hi - m
  OBVIOUS
<1>4. ASSUME NEW v \in S PROVE v <= m
  <2>1. hi - v \in K
    OBVIOUS
  <2>2. n <= hi - v
    <3> HIDE DEF K
    <3> QED BY <1>2, <2>1
  <2>3. v \in Int /\ m \in Int /\ n = hi - m
    BY <1>3
  <2> QED BY <2>2, <2>3
<1>5. \E x \in S : \A y \in S : x >= y
  BY <1>3, <1>4
<1> QED BY <1>5 DEF Max

(***************************************************************************)
(* Fields, columns and inputs of a structure.                              *)
(***************************************************************************)
FieldSet == [name : STRING, type : {"int", "text", "password", "struct"},
             flags : SUBSET {"rowid", "unique", "null"}, ref : STRING, via : STRING]
Named(fields) ==
  /\ fields \in Seq(FieldSet)
  /\ \A i, j \in DOMAIN fields : fields[i].name = fields[j].name => i = j

LEMMA PickedNamed ==
  ASSUME NEW fields, Named(fields), NEW P \in SUBSET DOMAIN fields
  PROVE  /\ Named(Picked(fields, P))
         /\ Range(Picked(fields, P)) = { fields[i] : i \in P }
<1>1. fields \in Seq(FieldSet)
  BY DEF Named
<1> DEFINE out == Picked(fields, P)
<1>2. /\ out \in Seq(FieldSet) /\ Len(out) = Cardinality(P) /\ Cardinality(P) \in Nat
      /\ \A k \in 1..Cardinality(P) : Nth(P, k) \in P /\ out[k] = fields[Nth(P, k)]
      /\ \A j \in P : \E k \in 1..Cardinality(P) : Nth(P, k) = j
      /\ \A k, l \in 1..Cardinality(P) : Nth(P, k) = Nth(P, l) => k = l
  BY <1>1, PickedIs
<1> HIDE DEF out
<1>3. DOMAIN out = 1..Cardinality(P)
  BY <1>2, LenProperties
<1>4. Named(out)
  BY <1>2, <1>3 DEF Named
<1>5. Range(out) = { fields[i] : i \in P }
  <2>1. \A k \in DOMAIN out : \E i \in P : out[k] = fields[i]
    BY <1>2, <1>3
  <2>2. \A i \in P : \E k \in DOMAIN out : out[k] = fields[i]
    BY <1>2, <1>3
  <2>3. Range(out) \subseteq { fields[i] : i \in P }
    BY <2>1 DEF Range
  <2>4. { fields[i] : i \in P } \subseteq Range(out)
    BY <2>2 DEF Range
  <2> QED BY <2>3, <2>4
<1> QED BY <1>4, <1>5 DEF out

LEMMA ColumnsAre ==
  ASSUME NEW fields, Named(fields)
  PROVE  /\ Named(Columns(fields))
         /\ Range(Columns(fields)) = { f \in Range(fields) : f.type # "struct" }
<1> DEFINE P == { i \in DOMAIN fields : fields[i].type # "struct" }
<1>1. Columns(fields) = Picked(fields, P)
  BY DEF Columns, Filtered, Picked
<1>2. Named(Picked(fields, P)) /\ Range(Picked(fields, P)) = { fields[i] : i \in P }
  BY PickedNamed
<1>3. { fields[i] : i \in P } = { f \in Range(fields) : f.type # "struct" }
  BY Zenon DEF Range
<1> QED BY <1>1, <1>2, <1>3

LEMMA InputsAre ==
  ASSUME NEW fields, Named(fields)
  PROVE  /\ Named(Inputs(fields))
         /\ Range(Inputs(fields)) = { f \in Range(Columns(fields)) : "rowid" \notin f.flags }
<1> DEFINE cols == Columns(fields)
           P == { i \in DOMAIN cols : "rowid" \notin cols[i].flags }
<1>0. Named(cols)
  BY ColumnsAre
<1>1. Inputs(fields) = Picked(cols, P)
  BY DEF Inputs, Filtered, Picked
<1> HIDE DEF cols
<1>2. Named(Picked(cols, P)) /\ Range(Picked(cols, P)) = { cols[i] : i \in P }
  BY <1>0, PickedNamed
<1>3. { cols[i] : i \in P } = { f \in Range(cols) : "rowid" \notin f.flags }
  BY Zenon DEF Range
<1> QED BY <1>1, <1>2, <1>3 DEF cols

(* A field is found by its name.                                           *)
FirstNamed(fields, name) == SelectInSeq(fields, LAMBDA f : f.name = name)

LEMMA PlaceOfField ==
  ASSUME NEW fields, Named(fields), NEW i \in DOMAIN fields
  PROVE  FirstNamed(fields, fields[i].name) = i
<1> DEFINE P == { j \in 1..Len(fields) : fields[j].name = fields[i].name }
<1>1. DOMAIN fields = 1..Len(fields) /\ Len(fields) \in Nat
  BY LenProperties DEF Named
<1>2. P = {i}
  BY <1>1, Zenon DEF Named
<1>3. P \in SUBSET Nat /\ P # {}
  BY <1>1, <1>2
<1> HIDE DEF P
<1>4. Min(P) = i
  BY <1>2, <1>3, FirstOf
<1> QED BY <1>2, <1>4 DEF P, FirstNamed, SelectInSeq

LEMMA NoPlace ==
  ASSUME NEW fields, NEW name, \A i \in 1..Len(fields) : fields[i].name # name
  PROVE  FirstNamed(fields, name) = 0
<1>1. { j \in 1..Len(fields) : fields[j].name = name } = {}
  BY Zenon
<1> QED BY <1>1 DEF FirstNamed, SelectInSeq

LEMMA FieldOf ==
  ASSUME NEW fields, Named(fields), NEW f \in Range(fields)
  PROVE  Field(fields, f.name) = f
<1>1. PICK i \in DOMAIN fields : f = fields[i]
  BY DEF Range
<1>2. FirstNamed(fields, fields[i].name) = i
  BY PlaceOfField
<1> QED BY <1>1, <1>2 DEF Field, FirstNamed

(***************************************************************************)
(* Parameters.  What is bound to a place is the argument at that place,    *)
(* hashed if it is to be, in every output.                                 *)
(***************************************************************************)
Slots == [hashed : BOOLEAN, nullable : BOOLEAN]
Param == [from : {"v", "hash"}, n : Nat, looked : Nat]

(* The parameters for the first slots.                                     *)
Right(slots, m, parms, hashes) ==
  /\ hashes \in Seq(Nat)
  /\ \A j \in 1..m :
       /\ parms[j].looked = IF slots[j].nullable THEN j ELSE 0
       /\ IF slots[j].hashed
          THEN parms[j].from = "hash" /\ parms[j].n \in 1..Len(hashes) /\ hashes[parms[j].n] = j
          ELSE parms[j].from = "v" /\ parms[j].n = j

(* One more argument, or one more hash, keeps them right.                  *)
LEMMA RightNext ==
  ASSUME NEW slots \in Seq(Slots), NEW m \in 1..Len(slots), NEW parms, NEW hashes,
         Right(slots, m - 1, parms, hashes), NEW more, NEW hs,
         hs = IF slots[m].hashed THEN Append(hashes, m) ELSE hashes,
         \A j \in 1..(m - 1) : more[j] = parms[j],
         more[m] = Unless(IF slots[m].hashed THEN HashVar(Len(hashes) + 1) ELSE Arg(m),
                          slots[m].nullable, m)
  PROVE  Right(slots, m, more, hs)
<1>1. slots[m] \in Slots /\ m \in Nat /\ m # 0 /\ hashes \in Seq(Nat) /\ Len(hashes) \in Nat
  BY ElementOfSeq, LenProperties DEF Right
<1>2. /\ hs \in Seq(Nat) /\ Len(hs) \in Nat /\ Len(hashes) <= Len(hs)
      /\ \A k \in 1..Len(hashes) : hs[k] = hashes[k]
      /\ slots[m].hashed => Len(hs) = Len(hashes) + 1 /\ hs[Len(hashes) + 1] = m
  BY <1>1, AppendProperties
<1>3. ASSUME NEW j \in 1..m
      PROVE  /\ more[j].looked = IF slots[j].nullable THEN j ELSE 0
             /\ IF slots[j].hashed
                THEN more[j].from = "hash" /\ more[j].n \in 1..Len(hs) /\ hs[more[j].n] = j
                ELSE more[j].from = "v" /\ more[j].n = j
  <2>1. CASE j = m
    <3>1. more[m].looked = (IF slots[m].nullable THEN m ELSE 0)
      BY <1>1 DEF Unless, HashVar, Arg, Slots
    <3>2. slots[m].hashed => more[m].from = "hash" /\ more[m].n = Len(hashes) + 1
      BY <1>1 DEF Unless, HashVar, Arg, Slots
    <3>3. ~slots[m].hashed => more[m].from = "v" /\ more[m].n = m
      BY <1>1 DEF Unless, HashVar, Arg, Slots
    <3> QED BY <2>1, <3>1, <3>2, <3>3, <1>1, <1>2
  <2>2. CASE j # m
    <3>1. j \in 1..(m - 1)
      BY <2>2
    <3>2. more[j] = parms[j]
      BY <3>1
    <3>3. /\ parms[j].looked = IF slots[j].nullable THEN j ELSE 0
          /\ IF slots[j].hashed
             THEN parms[j].from = "hash" /\ parms[j].n \in 1..Len(hashes) /\ hashes[parms[j].n] = j
             ELSE parms[j].from = "v" /\ parms[j].n = j
      BY <3>1 DEF Right
    <3> QED BY <3>2, <3>3, <1>1, <1>2
  <2> QED BY <2>1, <2>2
<1> QED BY <1>2, <1>3 DEF Right

Given(slot, arg) ==
  IF slot.nullable /\ arg = Null THEN Null ELSE IF slot.hashed THEN Hash(arg) ELSE arg

LEMMA RightGives ==
  ASSUME NEW slots \in Seq(Slots), NEW binding, NEW v,
         Right(slots, Len(slots), binding.parms, binding.hashes), DOMAIN binding.parms = DOMAIN slots
  PROVE  Bound(binding, v) = [i \in 1..Len(slots) |-> Given(slots[i], v[i])]
<1> DEFINE value(p) == IF p.looked # 0 /\ v[p.looked] = Null THEN Null
                       ELSE IF p.from = "hash" THEN Hash(v[binding.hashes[p.n]])
                       ELSE v[p.n]
<1>1. ASSUME NEW i \in 1..Len(slots)
      PROVE  value(binding.parms[i]) = Given(slots[i], v[i])
  <2>1. i # 0 /\ slots[i] \in Slots
    BY ElementOfSeq, LenProperties
  <2>2. /\ binding.parms[i].looked = IF slots[i].nullable THEN i ELSE 0
        /\ IF slots[i].hashed
           THEN binding.parms[i].from = "hash" /\ binding.hashes[binding.parms[i].n] = i
           ELSE binding.parms[i].from = "v" /\ binding.parms[i].n = i
    BY DEF Right
  <2> QED BY <2>1, <2>2 DEF Given, Slots
<1>2. DOMAIN binding.parms = 1..Len(slots)
  BY LenProperties
<1>3. Bound(binding, v) = [i \in DOMAIN binding.parms |-> value(binding.parms[i])]
  BY DEF Bound
<1> HIDE DEF value
<1> QED BY <1>1, <1>2, <1>3

LEMMA BindCRight ==
  ASSUME NEW slots \in Seq(Slots)
  PROVE  /\ Right(slots, Len(slots), BindC(slots).parms, BindC(slots).hashes)
         /\ DOMAIN BindC(slots).parms = DOMAIN slots
<1> DEFINE n == Len(slots)
           S == [idx : Nat, pos : Nat, hpos : Nat, parms : [DOMAIN slots -> Param], hashes : Seq(Nat)]
           base == [idx |-> 1, pos |-> 1, hpos |-> 1,
                    parms |-> [i \in DOMAIN slots |-> Arg(0)], hashes |-> <<>>]
           g == [x \in S \X (1..n) |-> NextC(x[1], slots[x[2]])]
           Is(a) == a = [i \in 0..n |-> IF i = 0 THEN base ELSE NextC(a[i - 1], slots[i])]
           after == CHOOSE a : Is(a)
<1>1. n \in Nat /\ \A i \in 1..n : slots[i] \in Slots
  BY ElementOfSeq, LenProperties
<1>2. base \in S
  BY DEF Arg, Param
<1>3. g \in [S \X (1..n) -> S]
  <2> SUFFICES ASSUME NEW st \in S, NEW i \in 1..n PROVE NextC(st, slots[i]) \in S
    OBVIOUS
  <2>1. slots[i] \in Slots
    BY <1>1
  <2> DEFINE param == Unless(IF slots[i].hashed THEN HashVar(st.hpos) ELSE Arg(st.pos), slots[i].nullable, st.pos)
  <2>2. param \in Param
    BY <2>1 DEF Unless, HashVar, Arg, Slots, Param
  <2>3. [st.parms EXCEPT ![st.idx] = param] \in [DOMAIN slots -> Param]
    <3> HIDE DEF param
    <3> QED BY <2>2
  <2>4. Append(st.hashes, st.idx) \in Seq(Nat)
    BY AppendProperties
  <2> QED BY <2>1, <2>3, <2>4 DEF NextC, Slots
<1>4. PICK h \in Ways(n, S, base, g) : TRUE
  <2>1. n \in Nat
    BY <1>1
  <2> HIDE DEF n, S, base, g
  <2> QED BY <2>1, <1>2, <1>3, StepsExist
<1>5. Is(h)
  <2>1. \A i \in 1..n : h[i] = NextC(h[i - 1], slots[i])
    <3> SUFFICES ASSUME NEW i \in 1..n PROVE h[i] = NextC(h[i - 1], slots[i])
      OBVIOUS
    <3>1. i - 1 \in 0..n
      BY <1>1
    <3> QED BY <3>1 DEF Ways
  <2> QED BY <2>1 DEF Ways
<1>6. Is(after) /\ BindC(slots) = after[n]
  <2>1. Is(after)
    <3> HIDE DEF Is
    <3> QED BY <1>5
  <2> QED BY <2>1 DEF BindC, Steps
<1> HIDE DEF after
<1>61. /\ after = [i \in 0..n |-> after[i]] /\ after[0] = base
       /\ \A i \in 1..n : after[i] = NextC(after[i - 1], slots[i])
  <2>1. Is(after)
    BY <1>6
  <2> HIDE DEF n, base, S, g
  <2>2. after = [i \in 0..n |-> after[i]] /\ after[0] = base
    BY <1>1, <2>1
  <2>3. ASSUME NEW i \in 1..n PROVE after[i] = NextC(after[i - 1], slots[i])
    <3>1. i \in 0..n /\ i # 0
      BY <1>1
    <3> QED BY <3>1, <2>1
  <2> QED BY <2>2, <2>3
<1>7. after \in Ways(n, S, base, g)
  <2>1. after = [i \in 0..n |-> after[i]] /\ after[0] = base
    BY <1>61
  <2>2. ASSUME NEW i \in 1..n, after[i - 1] \in S PROVE after[i] = g[<<after[i - 1], i>>]
    <3>1. after[i] = NextC(after[i - 1], slots[i])
      BY <1>61
    <3> HIDE DEF S
    <3> QED BY <2>2, <3>1
  <2>3. n \in Nat
    BY <1>1
  <2> HIDE DEF n, S, base, g, Is
  <2> QED BY <2>1, <2>2, <2>3, <1>2, <1>3, StepsStay
<1>8. /\ after[0] = base
      /\ \A i \in 0..n : after[i] \in S
      /\ \A i \in 1..n : after[i] = NextC(after[i - 1], slots[i])
  <2> HIDE DEF S, g, base, n, Is
  <2> QED BY <1>61, <1>7 DEF Ways
<1> HIDE DEF base
<1> DEFINE Good(i, st) == /\ st.idx = i + 1 /\ st.pos = i + 1 /\ st.hpos = Len(st.hashes) + 1
                          /\ Right(slots, i, st.parms, st.hashes)
           T == { i \in 0..n : Good(i, after[i]) }
<1>9. 0 \in T
  <2>1. Len(<<>>) = 0 /\ <<>> \in Seq(Nat)
    OBVIOUS
  <2>2. Good(0, base)
    BY <2>1 DEF base, Right
  <2> QED BY <2>2, <1>1, <1>8
<1>10. ASSUME NEW i \in 1..n, i - 1 \in T PROVE i \in T
  <2> DEFINE st == after[i - 1]
             param == Unless(IF slots[i].hashed THEN HashVar(Len(st.hashes) + 1) ELSE Arg(i), slots[i].nullable, i)
             more == [st.parms EXCEPT ![i] = param]
             hs == IF slots[i].hashed THEN Append(st.hashes, i) ELSE st.hashes
  <2>1. /\ st \in S /\ st.idx = i /\ st.pos = i /\ st.hpos = Len(st.hashes) + 1
        /\ Right(slots, i - 1, st.parms, st.hashes)
    BY <1>1, <1>8, <1>10
  <2>2. after[i] = NextC(st, slots[i])
    BY <1>8
  <2> HIDE DEF st
  <2>3. /\ after[i].idx = i + 1 /\ after[i].pos = i + 1
        /\ after[i].hpos = IF slots[i].hashed THEN st.hpos + 1 ELSE st.hpos
        /\ after[i].parms = more /\ after[i].hashes = hs
    BY <2>1, <2>2 DEF NextC
  <2>4. i \in DOMAIN st.parms
    BY <2>1
  <2>5. more[i] = param /\ \A j \in 1..(i - 1) : more[j] = st.parms[j]
    <3>1. \A j \in 1..(i - 1) : j # i /\ j \in DOMAIN slots
      OBVIOUS
    <3> HIDE DEF param
    <3> QED BY <2>1, <2>4, <3>1
  <2>6. Right(slots, i, more, hs)
    <3> HIDE DEF more
    <3> QED BY <2>1, <2>5, RightNext
  <2>7. after[i].hpos = Len(after[i].hashes) + 1
    <3>1. st.hashes \in Seq(Nat)
      BY <2>1
    <3>2. Len(Append(st.hashes, i)) = Len(st.hashes) + 1 /\ Len(st.hashes) \in Nat
      BY <3>1, AppendProperties, LenProperties
    <3> HIDE DEF more
    <3> QED BY <2>1, <2>3, <3>2
  <2> HIDE DEF more, hs
  <2>8. Good(i, after[i])
    BY <2>3, <2>6, <2>7
  <2> HIDE DEF Good
  <2> QED BY <2>8
<1>11. n \in T
  <2>1. n \in 0..n
    BY <1>1
  <2>2. n \in Nat
    BY <1>1
  <2> HIDE DEF T, n
  <2> QED BY <2>1, <2>2, <1>9, <1>10, UpTo
<1>12. after[n] \in S /\ Right(slots, n, after[n].parms, after[n].hashes)
  BY <1>1, <1>8, <1>11
<1> QED BY <1>6, <1>12

LEMMA BindNodeRight ==
  ASSUME NEW slots \in Seq(Slots)
  PROVE  /\ Right(slots, Len(slots), BindNode(slots).parms, BindNode(slots).hashes)
         /\ DOMAIN BindNode(slots).parms = DOMAIN slots
<1> DEFINE n == Len(slots)
           S == [pos : Nat, parms : Seq(Param), hashes : Seq(Nat)]
           base == [pos |-> 1, parms |-> <<>>, hashes |-> <<>>]
           g == [x \in S \X (1..n) |-> Push(x[1], slots[x[2]])]
           Is(a) == a = [i \in 0..n |-> IF i = 0 THEN base ELSE Push(a[i - 1], slots[i])]
           after == CHOOSE a : Is(a)
<1>1. n \in Nat /\ \A i \in 1..n : slots[i] \in Slots
  BY ElementOfSeq, LenProperties
<1>2. base \in S
  OBVIOUS
<1>3. g \in [S \X (1..n) -> S]
  <2> SUFFICES ASSUME NEW st \in S, NEW i \in 1..n PROVE Push(st, slots[i]) \in S
    OBVIOUS
  <2>1. slots[i] \in Slots
    BY <1>1
  <2> DEFINE param == Unless(IF slots[i].hashed THEN HashVar(Len(st.hashes) + 1) ELSE Arg(st.pos), slots[i].nullable, st.pos)
  <2>2. param \in Param
    <3>1. Len(st.hashes) + 1 \in Nat /\ st.pos \in Nat
      BY LenProperties
    <3> QED BY <3>1, <2>1 DEF Unless, HashVar, Arg, Slots, Param
  <2>3. Append(st.parms, param) \in Seq(Param)
    <3> HIDE DEF param
    <3> QED BY <2>2, AppendProperties
  <2>4. Append(st.hashes, st.pos) \in Seq(Nat)
    BY AppendProperties
  <2> QED BY <2>1, <2>3, <2>4 DEF Push, Slots
<1>4. PICK h \in Ways(n, S, base, g) : TRUE
  <2>1. n \in Nat
    BY <1>1
  <2> HIDE DEF n, S, base, g
  <2> QED BY <2>1, <1>2, <1>3, StepsExist
<1>5. Is(h)
  <2>1. \A i \in 1..n : h[i] = Push(h[i - 1], slots[i])
    <3> SUFFICES ASSUME NEW i \in 1..n PROVE h[i] = Push(h[i - 1], slots[i])
      OBVIOUS
    <3>1. i - 1 \in 0..n
      BY <1>1
    <3> QED BY <3>1 DEF Ways
  <2> QED BY <2>1 DEF Ways
<1>6. Is(after) /\ BindNode(slots) = after[n]
  <2>1. Is(after)
    <3> HIDE DEF Is
    <3> QED BY <1>5
  <2> QED BY <2>1 DEF BindNode, Steps
<1> HIDE DEF after
<1>61. /\ after = [i \in 0..n |-> after[i]] /\ after[0] = base
       /\ \A i \in 1..n : after[i] = Push(after[i - 1], slots[i])
  <2>1. Is(after)
    BY <1>6
  <2> HIDE DEF n, base, S, g
  <2>2. after = [i \in 0..n |-> after[i]] /\ after[0] = base
    BY <1>1, <2>1
  <2>3. ASSUME NEW i \in 1..n PROVE after[i] = Push(after[i - 1], slots[i])
    <3>1. i \in 0..n /\ i # 0
      BY <1>1
    <3> QED BY <3>1, <2>1
  <2> QED BY <2>2, <2>3
<1>7. after \in Ways(n, S, base, g)
  <2>1. after = [i \in 0..n |-> after[i]] /\ after[0] = base
    BY <1>61
  <2>2. ASSUME NEW i \in 1..n, after[i - 1] \in S PROVE after[i] = g[<<after[i - 1], i>>]
    <3>1. after[i] = Push(after[i - 1], slots[i])
      BY <1>61
    <3> HIDE DEF S
    <3> QED BY <2>2, <3>1
  <2>3. n \in Nat
    BY <1>1
  <2> HIDE DEF n, S, base, g, Is
  <2> QED BY <2>1, <2>2, <2>3, <1>2, <1>3, StepsStay
<1>8. /\ after[0] = base
      /\ \A i \in 0..n : after[i] \in S
      /\ \A i \in 1..n : after[i] = Push(after[i - 1], slots[i])
  <2> HIDE DEF S, g, base, n, Is
  <2> QED BY <1>61, <1>7 DEF Ways
<1> HIDE DEF base
<1> DEFINE Good(i, st) == st.pos = i + 1 /\ Len(st.parms) = i /\ Right(slots, i, st.parms, st.hashes)
           T == { i \in 0..n : Good(i, after[i]) }
<1>9. 0 \in T
  <2>1. Len(<<>>) = 0 /\ <<>> \in Seq(Nat)
    OBVIOUS
  <2>2. Good(0, base)
    BY <2>1 DEF base, Right
  <2> QED BY <2>2, <1>1, <1>8
<1>10. ASSUME NEW i \in 1..n, i - 1 \in T PROVE i \in T
  <2> DEFINE st == after[i - 1]
             param == Unless(IF slots[i].hashed THEN HashVar(Len(st.hashes) + 1) ELSE Arg(i), slots[i].nullable, i)
             more == Append(st.parms, param)
             hs == IF slots[i].hashed THEN Append(st.hashes, i) ELSE st.hashes
  <2>1. /\ st \in S /\ st.pos = i /\ Len(st.parms) = i - 1 /\ st.parms \in Seq(Param)
        /\ Right(slots, i - 1, st.parms, st.hashes)
    BY SMTT(30), <1>1, <1>8, <1>10
  <2>2. after[i] = Push(st, slots[i])
    BY <1>8
  <2> HIDE DEF st
  <2>3. after[i].pos = i + 1 /\ after[i].parms = more /\ after[i].hashes = hs
    BY <2>1, <2>2 DEF Push
  <2>4. param \in Param
    <3>1. Len(st.hashes) + 1 \in Nat /\ i \in Nat /\ slots[i] \in Slots
      BY <1>1, <2>1, LenProperties
    <3> QED BY <3>1 DEF Unless, HashVar, Arg, Slots, Param
  <2> HIDE DEF param
  <2>5. more[i] = param /\ (\A j \in 1..(i - 1) : more[j] = st.parms[j]) /\ Len(more) = i
    BY <2>1, <2>4, AppendProperties
  <2>6. Right(slots, i, more, hs)
    <3> HIDE DEF more
    <3> QED BY <2>1, <2>5, RightNext DEF param
  <2>7. Good(i, after[i])
    <3> HIDE DEF more, hs
    <3> QED BY <2>3, <2>5, <2>6
  <2> HIDE DEF Good
  <2> QED BY <2>7
<1>11. n \in T
  <2>1. n \in 0..n
    BY <1>1
  <2>2. n \in Nat
    BY <1>1
  <2> HIDE DEF T, n
  <2> QED BY <2>1, <2>2, <1>9, <1>10, UpTo
<1>12. after[n].parms \in Seq(Param) /\ Len(after[n].parms) = n /\ Right(slots, n, after[n].parms, after[n].hashes)
  BY <1>1, <1>8, <1>11
<1>13. DOMAIN after[n].parms = DOMAIN slots
  BY <1>12, LenProperties
<1> QED BY <1>6, <1>12, <1>13

LEMMA BindRustRight ==
  ASSUME NEW slots \in Seq(Slots)
  PROVE  /\ Right(slots, Len(slots), BindRust(slots).parms, BindRust(slots).hashes)
         /\ DOMAIN BindRust(slots).parms = DOMAIN slots
<1> DEFINE n == Len(slots)
           ids == [i \in DOMAIN slots |-> i]
           P == { i \in DOMAIN ids : slots[ids[i]].hashed }
           Place(i) == Cardinality({ j \in 1..i : slots[j].hashed })
           parms == BindRust(slots).parms
           hashes == BindRust(slots).hashes
<1>1. n \in Nat /\ DOMAIN slots = 1..n /\ \A i \in 1..n : slots[i] \in Slots
  BY ElementOfSeq, LenProperties
<1>2. ids \in Seq(Nat) /\ P \in SUBSET (1..n) /\ P \in SUBSET DOMAIN ids
  <2>1. ids \in [1..n -> Nat]
    BY <1>1
  <2>2. ids \in Seq(Nat)
    BY <2>1, <1>1, SeqDef
  <2> QED BY <2>2, <1>1
<1>3. hashes = Picked(ids, P)
  BY DEF BindRust, Filtered, Picked
<1>4. parms = [i \in DOMAIN slots |->
        Unless(IF slots[i].hashed THEN HashVar(Place(i)) ELSE Arg(i), slots[i].nullable, i)]
  BY DEF BindRust
<1> HIDE DEF parms, hashes
<1>5. hashes \in Seq(Nat) /\ Len(hashes) = Cardinality(P)
      /\ \A k \in 1..Cardinality(P) : Nth(P, k) \in P /\ hashes[k] = ids[Nth(P, k)]
  <2> HIDE DEF ids, P
  <2> QED BY <1>2, <1>3, PickedIs
<1>6. ASSUME NEW i \in 1..n, slots[i].hashed
      PROVE  Place(i) \in 1..Len(hashes) /\ hashes[Place(i)] = i
  <2>1. i \in P
    BY <1>1, <1>6
  <2>2. \A j \in 1..n : j \in P <=> slots[j].hashed
    BY <1>1
  <2>3. \A j \in P : j \in 1..n
    BY <1>2
  <2>4. Place(i) = UpToPlace(P, i)
    <3>1. \A j : j \in 1..i /\ slots[j].hashed <=> j \in P /\ j <= i
      <4> HIDE DEF P
      <4> QED BY <2>2, <2>3, <1>1
    <3>2. { j \in 1..i : slots[j].hashed } = { j \in P : j <= i }
      <4> HIDE DEF P
      <4> QED BY <3>1, Zenon
    <3> QED BY <3>2 DEF UpToPlace
  <2>5. UpToPlace(P, i) \in 1..Cardinality(P) /\ Nth(P, UpToPlace(P, i)) = i
    <3>1. n \in Nat
      BY <1>1
    <3> HIDE DEF P, n
    <3> QED BY <3>1, <1>2, <2>1, NthOf
  <2>6. ids[i] = i
    BY <1>1
  <2> HIDE DEF P, ids, Place
  <2> QED BY <1>5, <2>4, <2>5, <2>6
<1>7. ASSUME NEW i \in 1..n
      PROVE  /\ parms[i].looked = IF slots[i].nullable THEN i ELSE 0
             /\ IF slots[i].hashed
                THEN parms[i].from = "hash" /\ parms[i].n \in 1..Len(hashes) /\ hashes[parms[i].n] = i
                ELSE parms[i].from = "v" /\ parms[i].n = i
  <2>1. slots[i] \in Slots
    BY <1>1
  <2>2. parms[i] = Unless(IF slots[i].hashed THEN HashVar(Place(i)) ELSE Arg(i), slots[i].nullable, i)
    BY <1>1, <1>4
  <2> HIDE DEF Place
  <2> QED BY <2>1, <2>2, <1>6 DEF Unless, HashVar, Arg, Slots
<1>8. Right(slots, n, parms, hashes)
  BY <1>5, <1>7 DEF Right
<1>9. DOMAIN parms = DOMAIN slots
  BY <1>4
<1> QED BY <1>8, <1>9 DEF parms, hashes

LEMMA BoundIs ==
  ASSUME NEW slots \in Seq(Slots), NEW v
  PROVE  Bound(Binding(slots), v) = [i \in 1..Len(slots) |-> Given(slots[i], v[i])]
BY SMTT(30), BindCRight, BindNodeRight, BindRustRight, RightGives DEF Binding

(***************************************************************************)
(* Configurations and arguments.                                           *)
(***************************************************************************)
LEMMA RangeSeq ==
  ASSUME NEW seq, seq \in Seq(Range(seq)), NEW S, \A i \in DOMAIN seq : seq[i] \in S
  PROVE  seq \in Seq(S)
<1>1. Len(seq) \in Nat /\ seq \in [1..Len(seq) -> Range(seq)] /\ DOMAIN seq = 1..Len(seq)
  BY LenProperties
<1>2. seq \in [1..Len(seq) -> S]
  BY <1>1
<1> QED BY <1>1, <1>2, SeqDef

LEMMA StructIs ==
  ASSUME NEW c \in DOMAIN Schemas, NEW s \in DOMAIN Schemas[c].fields
  PROVE  LET fields == Schemas[c].fields IN
         /\ Named(fields[s])
         /\ \A i \in DOMAIN fields[s] : FieldFits(fields, s, i)
         /\ \E i \in DOMAIN fields[s] : fields[s][i].name = "id"
<1> DEFINE fields == Schemas[c].fields
<1>1. StructFits(fields, s)
  BY SchemasAssumption DEF SchemaFits
<1>2. \A i \in DOMAIN fields[s] : fields[s][i] \in FieldSet
  BY <1>1 DEF StructFits, FieldFits, FieldSet
<1>3. fields[s] \in Seq(FieldSet)
  BY <1>1, <1>2, RangeSeq DEF StructFits
<1> QED BY <1>1, <1>3 DEF StructFits, Named

LEMMA UpdateIs ==
  ASSUME NEW c \in DOMAIN Schemas, NEW u \in Range(Schemas[c].uq) \cup Range(Schemas[c].dq)
  PROVE  UpdateFits(Schemas[c].fields, u)
BY SchemasAssumption DEF SchemaFits

(* There are as many arguments as there are fields to give one for.        *)
LEMMA ArgumentsAre ==
  ASSUME NEW fields, NEW F, fields \in Seq(F), NEW v \in ArgumentsOf(fields)
  PROVE  /\ DOMAIN v = 1..Len(fields) /\ Len(fields) \in Nat
         /\ \A i \in 1..Len(fields) : v[i] \in Arguments(fields[i])
<1> DEFINE n == Len(fields)
           U == UNION { Arguments(fields[i]) : i \in 1..n }
           S == SUBSET Seq(U)
           g == [x \in S \X (1..n) |-> OneMore(x[1], fields[x[2]])]
           Is(a) == a = [i \in 0..n |-> IF i = 0 THEN {<<>>} ELSE OneMore(a[i - 1], fields[i])]
           after == CHOOSE a : Is(a)
<1>1. n \in Nat
  BY LenProperties
<1>2. {<<>>} \in S
  OBVIOUS
<1>a. ASSUME NEW vs \in S, NEW i \in 1..n PROVE OneMore(vs, fields[i]) \in S
  <2>1. Arguments(fields[i]) \subseteq U
    OBVIOUS
  <2>2. ASSUME NEW w \in vs, NEW a \in Arguments(fields[i]) PROVE Append(w, a) \in Seq(U)
    <3>1. w \in Seq(U) /\ a \in U
      BY <2>1
    <3> HIDE DEF U
    <3> QED BY <3>1, AppendProperties
  <2> HIDE DEF U
  <2> QED BY <2>2 DEF OneMore
<1>3. g \in [S \X (1..n) -> S]
  <2> HIDE DEF S, n
  <2> QED BY <1>a
<1>4. PICK h \in Ways(n, S, {<<>>}, g) : TRUE
  <2> HIDE DEF n, S, g
  <2> QED BY <1>1, <1>2, <1>3, StepsExist
<1>5. Is(h)
  <2>1. ASSUME NEW i \in 1..n PROVE h[i] = OneMore(h[i - 1], fields[i])
    <3>1. i - 1 \in 0..n
      BY <1>1
    <3> QED BY <3>1 DEF Ways
  <2> QED BY <2>1 DEF Ways
<1>6. Is(after) /\ ArgumentsOf(fields) = after[n]
  <2>1. Is(after)
    <3> HIDE DEF Is
    <3> QED BY <1>5
  <2> QED BY <2>1 DEF ArgumentsOf, Steps
<1> HIDE DEF after
<1>b. after[0] = {<<>>} /\ \A i \in 1..n : after[i] = OneMore(after[i - 1], fields[i])
  <2>0. Is(after)
    BY <1>6
  <2> HIDE DEF n
  <2>1. after[0] = {<<>>}
    BY <2>0, <1>1
  <2>2. ASSUME NEW i \in 1..n PROVE after[i] = OneMore(after[i - 1], fields[i])
    <3>1. i \in 0..n /\ i # 0
      BY <1>1
    <3> QED BY <3>1, <2>0
  <2> QED BY <2>1, <2>2
<1> DEFINE Good(i, w) == w \in Seq(U) /\ Len(w) = i /\ \A j \in 1..i : w[j] \in Arguments(fields[j])
           T == { i \in 0..n : \A w \in after[i] : Good(i, w) }
<1>7. 0 \in T
  <2>1. Good(0, <<>>)
    OBVIOUS
  <2> HIDE DEF Good
  <2> QED BY <2>1, <1>1, <1>b
<1>8. ASSUME NEW i \in 1..n, i - 1 \in T PROVE i \in T
  <2>1. ASSUME NEW w \in after[i] PROVE Good(i, w)
    <3>1. PICK x \in after[i - 1], a \in Arguments(fields[i]) : w = Append(x, a)
      BY <2>1, <1>b DEF OneMore
    <3>2. Good(i - 1, x)
      BY <1>8
    <3>3. a \in U /\ x \in Seq(U) /\ Len(x) = i - 1
      BY <3>1, <3>2
    <3>4. w \in Seq(U) /\ Len(w) = i /\ w[i] = a /\ \A j \in 1..(i - 1) : w[j] = x[j]
      <4> HIDE DEF U
      <4> QED BY <3>1, <3>3, AppendProperties
    <3>5. \A j \in 1..i : w[j] \in Arguments(fields[j])
      <4> TAKE j \in 1..i
      <4>1. CASE j = i
        BY <4>1, <3>1, <3>4
      <4>2. CASE j # i
        <5>1. j \in 1..(i - 1)
          BY <4>2
        <5> QED BY <5>1, <3>2, <3>4
      <4> QED BY <4>1, <4>2
    <3> HIDE DEF U
    <3> QED BY <3>4, <3>5
  <2> HIDE DEF Good
  <2> QED BY <2>1
<1>9. n \in T
  <2>1. n \in 0..n
    BY <1>1
  <2> HIDE DEF T, n
  <2> QED BY <2>1, <1>1, <1>7, <1>8, UpTo
<1>10. Good(n, v)
  <2> HIDE DEF Good
  <2> QED BY <1>6, <1>9
<1>11. v \in Seq(U) /\ Len(v) = n /\ \A j \in 1..n : v[j] \in Arguments(fields[j])
  BY <1>10
<1> HIDE DEF U
<1> QED BY <1>1, <1>11, LenProperties

(***************************************************************************)
(* Rows and tables have the values their columns keep.                     *)
(***************************************************************************)
Val == [k : {"null", "int", "text", "raw", "hash"}, v : Seq(Int)]
Row(fields) ==
  { row \in [ColumnNames(fields) -> Val] :
      \A f \in Range(Columns(fields)) : Keeps(f, row[f.name]) }
Typed(fields, tables) ==
  /\ DOMAIN tables = DOMAIN fields
  /\ \A s \in DOMAIN fields : tables[s] \in Seq(Row(fields[s]))

LEMMA KeptIsVal ==
  ASSUME NEW f \in FieldSet, NEW a, Keeps(f, a) \/ Accepts(f, a)
  PROVE  a \in Val
<1>1. Null \in Val
  BY DEF Null, Value, Val
<1>2. \A t : OfType(t, a) => a \in Val
  BY DEF OfType, Val
<1> QED BY <1>1, <1>2 DEF Keeps, Accepts

LEMMA HashKept ==
  ASSUME NEW f, f.type = "password", NEW x \in Val, x.k \in {"raw", "hash"}
  PROVE  Keeps(f, x)
<1>1. OfType("hash", x)
  BY DEF OfType, Val
<1> QED BY <1>1 DEF Keeps

LEMMA TablesTyped ==
  ASSUME NEW c \in DOMAIN Schemas, NEW tables, TablesFit(Schemas[c].fields, tables)
  PROVE  Typed(Schemas[c].fields, tables)
<1> DEFINE fields == Schemas[c].fields
<1>1. ASSUME NEW s \in DOMAIN fields PROVE tables[s] \in Seq(Row(fields[s]))
  <2>0. Named(fields[s])
    BY StructIs
  <2>1. tables[s] \in Seq(Range(tables[s]))
    BY DEF TablesFit
  <2>2. ASSUME NEW row \in Range(tables[s]) PROVE row \in Row(fields[s])
    <3>1. /\ row = [name \in ColumnNames(fields[s]) |-> row[name]]
          /\ \A f \in Range(Columns(fields[s])) : Keeps(f, row[f.name])
      BY <2>2 DEF TablesFit
    <3>2. ASSUME NEW name \in ColumnNames(fields[s]) PROVE row[name] \in Val
      <4>1. PICK f \in Range(Columns(fields[s])) : name = f.name
        BY <3>2 DEF ColumnNames
      <4>2. f \in FieldSet
        <5>1. Range(Columns(fields[s])) \subseteq Range(fields[s])
          BY <2>0, ColumnsAre
        <5> QED BY <5>1, <2>0 DEF Named, Range
      <4> QED BY <4>1, <4>2, <3>1, KeptIsVal
    <3> QED BY <3>1, <3>2 DEF Row
  <2>3. \A i \in DOMAIN tables[s] : tables[s][i] \in Row(fields[s])
    BY <2>2 DEF Range
  <2> QED BY <2>1, <2>3, RangeSeq
<1> QED BY <1>1 DEF Typed, TablesFit

LEMMA GivenIs ==
  ASSUME NEW f \in FieldSet, NEW a, Accepts(f, a)
  PROVE  /\ Given(Slot(IsPassword(f), IsNull(f)), a)
              = IF f.type = "password" /\ a # Null THEN Hash(a) ELSE a
         /\ Keeps(f, Given(Slot(IsPassword(f), IsNull(f)), a))
<1> DEFINE x == IF f.type = "password" /\ a # Null THEN Hash(a) ELSE a
<1>1. Given(Slot(IsPassword(f), IsNull(f)), a) = x
  <2>1. a = Null => IsNull(f)
    BY DEF Accepts, OfType, Null, Value, FieldSet
  <2>2. CASE a = Null
    BY <2>1, <2>2 DEF Given, Slot
  <2>3. CASE a # Null
    BY <2>3 DEF Given, Slot, IsPassword
  <2> QED BY <2>2, <2>3
<1>2. Keeps(f, x)
  <2>1. CASE a = Null
    BY <2>1 DEF Accepts, OfType, Null, Value, FieldSet, Keeps
  <2>2. CASE a # Null /\ f.type # "password"
    BY <2>2 DEF Accepts, Keeps
  <2>3. CASE a # Null /\ f.type = "password"
    <3>1. a.k = "text" /\ a \in Val
      BY <2>3 DEF Accepts, OfType, Val
    <3>2. x = [k |-> "hash", v |-> a.v]
      BY <2>3 DEF Hash, Value
    <3> HIDE DEF x
    <3>3. x \in Val /\ x.k = "hash"
      BY <3>1, <3>2 DEF Val
    <3> HIDE DEF x
    <3> QED BY <2>3, <3>3, HashKept
  <2> QED BY <2>1, <2>2, <2>3
<1> QED BY <1>1, <1>2

(* A column of a structure.                                                *)
LEMMA ColumnIs ==
  ASSUME NEW c \in DOMAIN Schemas, NEW s \in DOMAIN Schemas[c].fields,
         NEW f \in Range(Columns(Schemas[c].fields[s]))
  PROVE  /\ f \in FieldSet /\ f.type # "struct" /\ f \in Range(Schemas[c].fields[s])
         /\ Field(Schemas[c].fields[s], f.name) = f
         /\ "rowid" \in f.flags <=> f.name = "id"
         /\ f.name = "id" => f.type = "int" /\ ~IsNull(f)
         /\ f.name \in ColumnNames(Schemas[c].fields[s])
<1> DEFINE fs == Schemas[c].fields[s]
<1>1. Named(fs) /\ \A i \in DOMAIN fs : FieldFits(Schemas[c].fields, s, i)
  BY StructIs
<1> HIDE DEF fs
<1>2. f \in Range(fs) /\ f.type # "struct"
  BY <1>1, ColumnsAre DEF fs
<1>3. PICK i \in DOMAIN fs : f = fs[i]
  BY <1>2 DEF Range
<1>4. FieldFits(Schemas[c].fields, s, i)
  BY <1>1
<1>5. f \in FieldSet
  BY <1>1, <1>3, ElementOfSeq, LenProperties DEF Named
<1>6. Field(fs, f.name) = f
  BY <1>1, <1>2, FieldOf
<1>7. /\ "rowid" \in f.flags <=> f.name = "id"
      /\ f.name = "id" => f.type = "int" /\ ~IsNull(f)
  BY <1>3, <1>4 DEF FieldFits, fs
<1> QED BY <1>2, <1>5, <1>6, <1>7 DEF ColumnNames, fs

(* The identifier of a new row is a number.                                *)
LEMMA NextIdIs ==
  ASSUME NEW c \in DOMAIN Schemas, NEW s \in DOMAIN Schemas[c].fields,
         NEW table \in Seq(Row(Schemas[c].fields[s]))
  PROVE  NextId(table) \in Val /\ OfType("int", NextId(table))
<1> DEFINE fs == Schemas[c].fields[s]
           ids == { table[i]["id"].v[1] : i \in DOMAIN table }
           all == {0} \cup ids
<1>1. PICK f \in Range(Columns(fs)) : f.name = "id"
  <2>1. Named(fs) /\ \A i \in DOMAIN fs : FieldFits(Schemas[c].fields, s, i)
    BY StructIs
  <2>2. PICK i \in DOMAIN fs : fs[i].name = "id"
    BY StructIs
  <2>3. fs[i].type # "struct" /\ fs[i] \in Range(fs)
    BY <2>1, <2>2 DEF FieldFits, Range
  <2> HIDE DEF fs
  <2> QED BY <2>1, <2>2, <2>3, ColumnsAre
<1>2. f.type = "int" /\ ~IsNull(f)
  BY <1>1, ColumnIs
<1>3. ASSUME NEW i \in DOMAIN table PROVE table[i]["id"].v[1] \in Int
  <2>1. table[i] \in Row(fs)
    BY ElementOfSeq, LenProperties
  <2>2. Keeps(f, table[i]["id"])
    BY <1>1, <2>1 DEF Row
  <2>3. OfType("int", table[i]["id"])
    BY <1>2, <2>2 DEF Keeps
  <2>4. table[i]["id"].v \in Seq(Int) /\ Len(table[i]["id"].v) = 1
    BY <2>3 DEF OfType
  <2> QED BY <2>4
<1>4. all \in SUBSET Int /\ all # {}
  BY <1>3
<1>5. \E hi \in Int : \A v \in all : v <= hi
  <2> DEFINE n == Len(table)
             Part(m) == {0} \cup { table[i]["id"].v[1] : i \in 1..m }
             T == { m \in 0..n : \E hi \in Int : \A v \in Part(m) : v <= hi }
  <2>1. n \in Nat /\ DOMAIN table = 1..n
    BY LenProperties
  <2>2. 0 \in T
    BY SMTT(30), <2>1
  <2>3. ASSUME NEW m \in 1..n, m - 1 \in T PROVE m \in T
    <3>1. PICK hi \in Int : \A v \in Part(m - 1) : v <= hi
      BY <2>3
    <3>2. table[m]["id"].v[1] \in Int
      BY <1>3, <2>1
    <3> DEFINE x == table[m]["id"].v[1]
               most == IF hi <= x THEN x ELSE hi
    <3>3. most \in Int /\ hi <= most /\ x <= most
      BY <3>2
    <3>4. ASSUME NEW v \in Part(m) PROVE v = x \/ v \in Part(m - 1)
      <4>1. \A i \in 1..m : i = m \/ i \in 1..(m - 1)
        OBVIOUS
      <4> QED BY <4>1, <3>4
    <3>5. \A v \in Part(m) : v \in Int
      <4>1. \A i \in 1..m : i \in DOMAIN table
        BY <2>1
      <4> QED BY <4>1, <1>3
    <3>6. \A v \in Part(m) : v <= most
      <4> TAKE v \in Part(m)
      <4>1. v \in Int
        BY <3>5
      <4>2. v = x \/ v <= hi
        <5> HIDE DEF Part
        <5> QED BY <3>1, <3>4
      <4> HIDE DEF x, most, Part
      <4> QED BY <4>1, <4>2, <3>2, <3>3 DEF x
    <3> HIDE DEF Part, most
    <3> QED BY <3>3, <3>6
  <2>4. n \in T
    <3>1. n \in 0..n
      BY <2>1
    <3> HIDE DEF T, n
    <3> QED BY <3>1, <2>1, <2>2, <2>3, UpTo
  <2>5. Part(n) = all
    BY <2>1
  <2> HIDE DEF Part, all
  <2> QED BY <2>4, <2>5
<1>6. Max(all) \in Int
  <2> HIDE DEF all
  <2> QED BY <1>4, <1>5, LastOf
<1>7. NextId(table) = [k |-> "int", v |-> <<1 + Max(all)>>]
  BY DEF NextId, Number, Value
<1> HIDE DEF all
<1>8. <<1 + Max(all)>> \in Seq(Int) /\ Len(<<1 + Max(all)>>) = 1
  BY <1>6
<1> QED BY <1>7, <1>8 DEF Val, OfType

(***************************************************************************)
(* What is inserted: each column gets the argument for it, as it is kept.  *)
(***************************************************************************)
Kept(f, a) == IF f.type = "password" /\ a # Null THEN Hash(a) ELSE a

LEMMA SqlPlace ==
  ASSUME NEW fields, Named(fields), Named(Inputs(fields)), NEW i \in DOMAIN Inputs(fields)
  PROVE  MarkOf(fields, Inputs(fields)[i].name) = i
<1> DEFINE in == Inputs(fields)
           sql == InsertSql(fields)
           P == { j \in 1..Len(sql) : sql[j] = in[i].name }
<1>1. Len(in) \in Nat /\ DOMAIN in = 1..Len(in) /\ in \in Seq(FieldSet)
  BY LenProperties DEF Named
<1>2. sql = [j \in DOMAIN in |-> in[j].name]
  BY DEF InsertSql
<1> HIDE DEF sql, in
<1>3. sql \in [1..Len(in) -> STRING]
  <2>1. \A j \in 1..Len(in) : in[j] \in FieldSet
    BY <1>1
  <2>2. \A j \in 1..Len(in) : in[j].name \in STRING
    BY <2>1 DEF FieldSet
  <2> QED BY <1>1, <1>2, <2>2
<1>4. Len(sql) = Len(in)
  BY <1>1, <1>3, SeqDef, LenProperties
<1>5. P = {i}
  <2>1. \A j \in 1..Len(sql) : sql[j] = in[i].name <=> j = i
    BY <1>1, <1>2, <1>4 DEF Named, in
  <2>2. i \in 1..Len(sql)
    BY <1>1, <1>4 DEF in
  <2> QED BY <2>1, <2>2, Zenon
<1>6. P \in SUBSET Nat /\ P # {}
  BY <1>4, <1>5, <1>1
<1> HIDE DEF P
<1>7. Min(P) = i
  BY <1>5, <1>6, FirstOf
<1> QED BY <1>5, <1>7 DEF P, MarkOf, SelectInSeq, sql, in

LEMMA SqlNoPlace ==
  ASSUME NEW fields, Named(Inputs(fields)), NEW name,
         \A i \in DOMAIN Inputs(fields) : Inputs(fields)[i].name # name
  PROVE  MarkOf(fields, name) = 0
<1> DEFINE in == Inputs(fields)
           sql == InsertSql(fields)
<1>1. Len(in) \in Nat /\ DOMAIN in = 1..Len(in) /\ in \in Seq(FieldSet)
  BY LenProperties DEF Named
<1>2. sql = [j \in DOMAIN in |-> in[j].name]
  BY DEF InsertSql
<1>3. \A j \in DOMAIN in : in[j].name # name
  OBVIOUS
<1> HIDE DEF sql, in
<1>4. sql \in [1..Len(in) -> STRING]
  <2>1. \A j \in 1..Len(in) : in[j] \in FieldSet
    BY <1>1
  <2>2. \A j \in 1..Len(in) : in[j].name \in STRING
    BY <2>1 DEF FieldSet
  <2> QED BY <1>1, <1>2, <2>2
<1>5. Len(sql) = Len(in)
  BY <1>1, <1>4, SeqDef, LenProperties
<1>6. { j \in 1..Len(sql) : sql[j] = name } = {}
  <2>1. \A j \in 1..Len(sql) : sql[j] # name
    BY <1>1, <1>2, <1>3, <1>5
  <2> QED BY <2>1, Zenon
<1> QED BY <1>6 DEF MarkOf, SelectInSeq, sql

LEMMA InsertSlotsAre ==
  ASSUME NEW fields, Named(fields)
  PROVE  /\ InsertSlots(fields) \in Seq(Slots)
         /\ Len(InsertSlots(fields)) = Len(Inputs(fields))
         /\ \A i \in 1..Len(Inputs(fields)) : InsertSlots(fields)[i]
              = Slot(IsPassword(Inputs(fields)[i]), IsNull(Inputs(fields)[i]))
<1> DEFINE in == Inputs(fields)
<1>1. Len(in) \in Nat /\ DOMAIN in = 1..Len(in)
  BY InputsAre, LenProperties DEF Named
<1>2. InsertSlots(fields) = [i \in DOMAIN in |-> Slot(IsPassword(in[i]), IsNull(in[i]))]
  BY DEF InsertSlots
<1> HIDE DEF in
<1>3. InsertSlots(fields) \in [1..Len(in) -> Slots]
  BY <1>1, <1>2 DEF Slot, Slots, IsPassword, IsNull
<1>4. InsertSlots(fields) \in Seq(Slots) /\ Len(InsertSlots(fields)) = Len(in)
  BY <1>1, <1>3, SeqDef, LenProperties
<1> QED BY <1>1, <1>2, <1>4 DEF in

NewIn(fs, v, table, row) ==
  /\ \A i \in DOMAIN Inputs(fs) : row[Inputs(fs)[i].name] = Kept(Inputs(fs)[i], v[i])
  /\ \A f \in Range(Columns(fs)) : "rowid" \in f.flags => row[f.name] = NextId(table)

LEMMA InsertedIs ==
  ASSUME NEW c \in DOMAIN Schemas, NEW s \in DOMAIN Schemas[c].fields, NEW fs,
         fs = Schemas[c].fields[s],
         NEW v \in ArgumentsOf(Inputs(fs)), NEW table \in Seq(Row(fs)), NEW row,
         row = Inserted(fs, Bound(Binding(InsertSlots(fs)), v), table)
  PROVE  row \in Row(fs) /\ DOMAIN row = ColumnNames(fs) /\ NewIn(fs, v, table, row)
<1> DEFINE in == Inputs(fs)
           p == Bound(Binding(InsertSlots(fs)), v)
<1>1. Named(fs) /\ Named(in)
  BY StructIs, InputsAre
<1>2. Len(in) \in Nat /\ DOMAIN in = 1..Len(in) /\ in \in Seq(FieldSet)
  BY <1>1, LenProperties DEF Named
<1>3. DOMAIN v = 1..Len(in) /\ \A i \in 1..Len(in) : v[i] \in Arguments(in[i])
  BY <1>2, ArgumentsAre
<1>4. \A i \in 1..Len(in) : p[i] = Given(Slot(IsPassword(in[i]), IsNull(in[i])), v[i])
  BY <1>1, InsertSlotsAre, BoundIs
<1>5. row = [name \in ColumnNames(fs) |-> IF MarkOf(fs, name) # 0 THEN p[MarkOf(fs, name)] ELSE NextId(table)]
  BY DEF Inserted
<1>6. \A i \in DOMAIN in : MarkOf(fs, in[i].name) = i
  BY <1>1, SqlPlace
<1>7. ASSUME NEW f \in Range(Columns(fs)), "rowid" \in f.flags PROVE MarkOf(fs, f.name) = 0
  <2>1. ASSUME NEW i \in DOMAIN in PROVE in[i].name # f.name
    <3>1. in[i] \in Range(Columns(fs)) /\ "rowid" \notin in[i].flags
      BY SMTT(30), <1>1, InputsAre DEF Range
    <3>2. Field(fs, f.name) = f /\ Field(fs, in[i].name) = in[i]
      BY <3>1, ColumnIs
    <3> QED BY <1>7, <3>1, <3>2
  <2> QED BY <2>1, <1>1, SqlNoPlace
<1>8. ASSUME NEW f \in Range(Columns(fs)), "rowid" \notin f.flags
      PROVE  \E i \in DOMAIN in : in[i] = f
  BY <1>1, <1>8, InputsAre DEF Range
<1> HIDE DEF in, p
<1>9. ASSUME NEW i \in DOMAIN in
      PROVE  row[in[i].name] = Kept(in[i], v[i]) /\ Keeps(in[i], row[in[i].name])
  <2>1. in[i] \in Range(Columns(fs)) /\ in[i] \in Range(in)
    BY <1>1, InputsAre DEF Range, in
  <2>2. in[i] \in FieldSet /\ in[i].name \in ColumnNames(fs)
    BY <2>1, ColumnIs
  <2>3. row[in[i].name] = p[i] /\ i # 0
    BY <1>2, <1>5, <1>6, <2>2
  <2>4. AsHash(in[i], "set") = in[i]
    BY DEF AsHash
  <2>5. v[i] \in Arguments(in[i])
    BY <1>2, <1>3
  <2>6. Accepts(in[i], v[i])
    BY <2>1, <2>4, <2>5, ArgumentsAssumption
  <2>7. p[i] = Given(Slot(IsPassword(in[i]), IsNull(in[i])), v[i])
    BY <1>2, <1>4
  <2> QED BY <2>2, <2>3, <2>6, <2>7, GivenIs DEF Kept
<1>10. ASSUME NEW f \in Range(Columns(fs)), "rowid" \in f.flags
       PROVE  row[f.name] = NextId(table) /\ Keeps(f, row[f.name])
  <2>1. f.name \in ColumnNames(fs) /\ f.type = "int"
    BY <1>10, ColumnIs
  <2>2. row[f.name] = NextId(table)
    BY <1>5, <1>7, <1>10, <2>1
  <2> QED BY <2>1, <2>2, NextIdIs DEF Keeps
<1>11. ASSUME NEW f \in Range(Columns(fs)) PROVE Keeps(f, row[f.name]) /\ row[f.name] \in Val
  <2>1. Keeps(f, row[f.name])
    BY <1>8, <1>9, <1>10
  <2> QED BY <2>1, ColumnIs, KeptIsVal
<1>12. row \in Row(fs)
  <2>1. \A name \in ColumnNames(fs) : row[name] \in Val
    BY <1>11 DEF ColumnNames
  <2>2. DOMAIN row = ColumnNames(fs) /\ row = [name \in ColumnNames(fs) |-> row[name]]
    BY <1>5
  <2> QED BY <1>11, <2>1, <2>2 DEF Row
<1> QED BY <1>5, <1>9, <1>10, <1>12 DEF in, NewIn

(***************************************************************************)
(* What is changed: a column that is set gets the argument for it, as it   *)
(* is kept, and one that is added to or concatenated to goes on having a   *)
(* value of its type.                                                      *)
(***************************************************************************)
LEMMA IntIs ==
  ASSUME NEW a, OfType("int", a) PROVE a \in Val /\ a.k = "int" /\ a.v[1] \in Int
<1>1. a \in Val /\ a.k = "int" /\ Len(a.v) = 1 /\ a.v \in Seq(Int)
  BY DEF OfType, Val
<1> QED BY <1>1

LEMMA NumberIs ==
  ASSUME NEW n \in Int PROVE OfType("int", Number(n))
<1>1. Number(n) = [k |-> "int", v |-> <<n>>]
  BY DEF Number, Value
<1>2. <<n>> \in Seq(Int) /\ Len(<<n>>) = 1
  OBVIOUS
<1> QED BY <1>1, <1>2 DEF OfType

LEMMA TextIs ==
  ASSUME NEW a, OfType("text", a) PROVE a \in Val /\ a.k = "text" /\ a.v \in Seq(Int) /\ a # Null
BY DEF OfType, Val, Null, Value

LEMMA IsText ==
  ASSUME NEW a \in Val, a.k = "text" PROVE OfType("text", a)
BY DEF OfType, Val

LEMMA NotNull ==
  ASSUME NEW t, NEW a, OfType(t, a) PROVE a # Null
BY DEF OfType, Null, Value

Changed(f, mod, old, a) ==
  CASE mod = "strset" -> a [] mod = "set" -> Kept(f, a)
    [] mod = "concat" /\ old = Null -> a [] OTHER -> Combined(mod, old, a)

LEMMA AssignedSet ==
  ASSUME NEW fs, NEW m, NEW f, NEW old, NEW a, f \in FieldSet, f.type # "struct",
         m.mod \in {"set", "strset"}, Accepts(AsHash(f, m.mod), a)
  PROVE  LET value == Given(Slot(Hashed(f, m), IsNull(f)), a)
             new == Assigned(fs, m, old, value)
         IN new = Changed(f, m.mod, old, a) /\ Keeps(f, new)
<1> DEFINE value == Given(Slot(Hashed(f, m), IsNull(f)), a)
<1> SUFFICES /\ Assigned(fs, m, old, value) = Changed(f, m.mod, old, a)
             /\ Keeps(f, Assigned(fs, m, old, value))
  OBVIOUS
<1>1. Assigned(fs, m, old, value) = value
  BY DEF Assigned
<1>2. CASE m.mod = "set"
  <2>1. Hashed(f, m) = IsPassword(f)
    BY <1>2 DEF Hashed, IsPassword
  <2>2. AsHash(f, m.mod) = f
    BY <1>2 DEF AsHash
  <2>3. Accepts(f, a)
    BY <2>2
  <2>4. value = Kept(f, a) /\ Keeps(f, value)
    BY <2>1, <2>3, GivenIs DEF Kept
  <2>5. Changed(f, m.mod, old, a) = Kept(f, a)
    BY <1>2 DEF Changed
  <2> HIDE DEF value
  <2> QED BY <1>1, <2>4, <2>5
<1>3. CASE m.mod = "strset"
  <2>1. Hashed(f, m) = FALSE
    BY <1>3 DEF Hashed
  <2>2. value = a
    BY <2>1 DEF Given, Slot
  <2>3. Keeps(f, a)
    <3>1. CASE f.type = "password"
      <4>1. AsHash(f, m.mod) = [f EXCEPT !.type = "hash"]
        BY <1>3, <3>1 DEF AsHash, IsPassword
      <4>2. (a = Null /\ IsNull(f)) \/ OfType("hash", a)
        BY <4>1 DEF Accepts, IsNull, FieldSet
      <4> QED BY <4>2, <3>1 DEF Keeps
    <3>2. CASE f.type # "password"
      <4>1. AsHash(f, m.mod) = f
        BY <1>3, <3>2 DEF AsHash, IsPassword
      <4> QED BY <4>1, <3>2 DEF Accepts, Keeps
    <3> QED BY <3>1, <3>2
  <2>4. Changed(f, m.mod, old, a) = a
    BY <1>3 DEF Changed
  <2> HIDE DEF value
  <2> QED BY <1>1, <2>2, <2>3, <2>4
<1> QED BY <1>2, <1>3

LEMMA AssignedCombined ==
  ASSUME NEW fs, NEW m, NEW f, NEW old, NEW a, f \in FieldSet, f.type # "struct",
         Field(fs, m.field) = f, m.mod \in {"inc", "dec", "concat"},
         m.mod \in {"inc", "dec"} => f.type = "int", m.mod = "concat" => f.type = "text",
         Keeps(f, old), Accepts(AsHash(f, m.mod), a)
  PROVE  LET value == Given(Slot(Hashed(f, m), IsNull(f)), a)
             new == Assigned(fs, m, old, value)
         IN new = Changed(f, m.mod, old, a) /\ Keeps(f, new)
<1> DEFINE value == Given(Slot(Hashed(f, m), IsNull(f)), a)
<1> SUFFICES /\ Assigned(fs, m, old, value) = Changed(f, m.mod, old, a)
             /\ Keeps(f, Assigned(fs, m, old, value))
  OBVIOUS
<1>1. Hashed(f, m) = FALSE /\ AsHash(f, m.mod) = f
  BY DEF Hashed, IsPassword, AsHash
<1>2. value = a
  BY <1>1 DEF Given, Slot
<1>3. (a = Null /\ IsNull(f)) \/ OfType(f.type, a)
  BY <1>1 DEF Accepts
<1>4. (old = Null /\ IsNull(f)) \/ OfType(f.type, old)
  BY DEF Keeps
<1> HIDE DEF value
<1>5. CASE m.mod \in {"inc", "dec"}
  <2>1. Assigned(fs, m, old, value) = Combined(m.mod, old, a)
    BY <1>2, <1>5 DEF Assigned
  <2>2. Changed(f, m.mod, old, a) = Combined(m.mod, old, a)
    BY <1>5 DEF Changed
  <2>3. Keeps(f, Combined(m.mod, old, a))
    <3>1. CASE old = Null \/ a = Null
      <4>1. IsNull(f)
        BY <1>3, <1>4, <3>1, NotNull
      <4>2. Combined(m.mod, old, a) = Null
        BY <3>1 DEF Combined
      <4> QED BY <4>1, <4>2 DEF Keeps
    <3>2. CASE old # Null /\ a # Null
      <4>1. old.v[1] \in Int /\ a.v[1] \in Int
        BY <1>3, <1>4, <1>5, <3>2, IntIs
      <4>2. \/ Combined(m.mod, old, a) = Number(old.v[1] + a.v[1])
            \/ Combined(m.mod, old, a) = Number(old.v[1] - a.v[1])
        BY <1>5, <3>2 DEF Combined
      <4>3. OfType("int", Combined(m.mod, old, a))
        BY <4>1, <4>2, NumberIs
      <4> QED BY <1>5, <4>3 DEF Keeps
    <3> QED BY <3>1, <3>2
  <2> QED BY <2>1, <2>2, <2>3
<1>6. CASE m.mod = "concat"
  <2>1. CASE a = Null
    <3>1. IsNull(f)
      BY <1>3, <2>1, NotNull
    <3>2. Assigned(fs, m, old, value) = Null /\ Changed(f, m.mod, old, a) = Null
      BY <1>2, <1>6, <2>1 DEF Assigned, Changed, Combined
    <3> QED BY <3>1, <3>2 DEF Keeps
  <2>2. CASE a # Null /\ old = Null
    <3>1. OfType("text", a) /\ IsNull(f) /\ a.v \in Seq(Int) /\ a.k = "text" /\ a \in Val
      BY <1>3, <1>4, <1>6, <2>2, NotNull, TextIs
    <3>2. Assigned(fs, m, old, value) = Combined("concat", Text(<<>>), a)
      BY <1>2, <1>6, <2>2, <3>1 DEF Assigned
    <3>3. Text(<<>>) # Null /\ Text(<<>>).k = "text" /\ Text(<<>>).v = <<>>
      BY DEF Text, Null, Value
    <3>4. Combined("concat", Text(<<>>), a) = Value("text", <<>> \o a.v)
      BY <2>2, <3>3 DEF Combined
    <3>5. <<>> \o a.v = a.v
      BY <3>1, ConcatEmptySeq
    <3>6. Value("text", a.v) = a
      BY <3>1 DEF Value, Val
    <3>7. Assigned(fs, m, old, value) = a /\ Changed(f, m.mod, old, a) = a
      BY <3>2, <3>4, <3>5, <3>6, <1>6, <2>2 DEF Changed
    <3> QED BY <3>1, <3>7, <1>6 DEF Keeps
  <2>3. CASE a # Null /\ old # Null
    <3>1. OfType("text", a) /\ OfType("text", old)
      BY <1>3, <1>4, <1>6, <2>3
    <3>2. Assigned(fs, m, old, value) = Combined("concat", old, a)
      BY <1>2, <1>6, <2>3 DEF Assigned
    <3>3. Changed(f, m.mod, old, a) = Combined("concat", old, a)
      BY <1>6, <2>3 DEF Changed
    <3>4. Combined("concat", old, a) = [k |-> old.k, v |-> old.v \o a.v]
      BY <2>3 DEF Combined, Value
    <3>5. old.k = "text" /\ old.v \o a.v \in Seq(Int)
      BY <3>1, TextIs, ConcatProperties
    <3>6. OfType("text", Combined("concat", old, a))
      <4>0. \A w \in Seq(Int) : [k |-> "text", v |-> w] \in Val /\ [k |-> "text", v |-> w].k = "text"
        BY DEF Val
      <4>1. Combined("concat", old, a) \in Val /\ Combined("concat", old, a).k = "text"
        BY <4>0, <3>4, <3>5
      <4> QED BY <4>1, IsText
    <3> QED BY <3>2, <3>3, <3>6, <1>6 DEF Keeps
  <2> QED BY <2>1, <2>2, <2>3
<1> QED BY <1>5, <1>6

(* The parameters of an update: those of the modifiers, and behind them    *)
(* those of the constraints that are no unary ones.                        *)
LEMMA BinaryIs ==
  ASSUME NEW C, NEW crq \in Seq(C)
  PROVE  /\ Binary(crq) \in Seq(C)
         /\ LET P == { i \in DOMAIN crq : ~IsUnary(crq[i]) }
            IN Binary(crq) = Picked(crq, P) /\ Len(Binary(crq)) = Cardinality(P)
<1> DEFINE P == { i \in DOMAIN crq : ~IsUnary(crq[i]) }
<1>1. Binary(crq) = Picked(crq, P)
  BY DEF Binary, Filtered, Picked
<1>2. P \in SUBSET DOMAIN crq
  OBVIOUS
<1>3. Picked(crq, P) \in Seq(C) /\ Len(Picked(crq, P)) = Cardinality(P)
  <2> HIDE DEF P
  <2> QED BY <1>2, PickedIs
<1> QED BY <1>1, <1>3

LEMMA JoinedIs ==
  ASSUME NEW S, NEW a \in Seq(S), NEW b \in Seq(S)
  PROVE  /\ a \o b \in Seq(S) /\ Len(a \o b) = Len(a) + Len(b)
         /\ \A i \in 1..Len(a) : (a \o b)[i] = a[i]
         /\ \A i \in 1..Len(b) : (a \o b)[Len(a) + i] = b[i]
<1>1. Len(a) \in Nat /\ Len(b) \in Nat
  BY LenProperties
<1>2. /\ a \o b \in Seq(S) /\ Len(a \o b) = Len(a) + Len(b)
      /\ \A i \in 1..(Len(a) + Len(b)) : (a \o b)[i] = IF i <= Len(a) THEN a[i] ELSE b[i - Len(a)]
  BY ConcatProperties
<1> QED BY <1>1, <1>2

LEMMA MadeSeq ==
  ASSUME NEW S, NEW n \in Nat, NEW seq \in [1..n -> S]
  PROVE  seq \in Seq(S) /\ Len(seq) = n
BY SeqDef, LenProperties

(* What a modifier is for.                                                 *)
LEMMA ModifierIs ==
  ASSUME NEW c \in DOMAIN Schemas, NEW u \in Range(Schemas[c].uq) \cup Range(Schemas[c].dq),
         NEW i \in 1..Len(u.mrq), NEW f, f = Field(Schemas[c].fields[u.strct], u.mrq[i].field)
  PROVE  /\ u.strct \in DOMAIN Schemas[c].fields
         /\ u.mrq[i].mod \in {"set", "strset", "inc", "dec", "concat"}
         /\ f \in Range(Columns(Schemas[c].fields[u.strct])) /\ f.name = u.mrq[i].field
         /\ u.mrq[i].mod \in {"inc", "dec"} => f.type = "int"
         /\ u.mrq[i].mod = "concat" => f.type = "text"
<1> DEFINE fs == Schemas[c].fields[u.strct]
<1>1. UpdateFits(Schemas[c].fields, u)
  BY UpdateIs
<1>2. u.strct \in DOMAIN Schemas[c].fields
  BY <1>1 DEF UpdateFits
<1>3. Named(fs)
  BY <1>2, StructIs
<1>4. u.mrq \in Seq([field : STRING, mod : {"set", "strset", "inc", "dec", "concat"}])
  BY <1>1 DEF UpdateFits
<1>5. i \in DOMAIN u.mrq /\ u.mrq[i] \in [field : STRING, mod : {"set", "strset", "inc", "dec", "concat"}]
  BY <1>4, LenProperties
<1> HIDE DEF fs
<1>6. PICK g \in Range(fs) :
        /\ g.name = u.mrq[i].field /\ g.type # "struct"
        /\ u.mrq[i].mod \in {"inc", "dec"} => g.type = "int"
        /\ u.mrq[i].mod = "concat" => g.type = "text"
  BY <1>1, <1>5 DEF UpdateFits, fs
<1>7. f = g
  BY <1>3, <1>6, FieldOf DEF fs
<1>8. f \in Range(Columns(fs))
  BY <1>3, <1>6, <1>7, ColumnsAre
<1> QED BY <1>2, <1>5, <1>6, <1>7, <1>8 DEF fs

LEMMA UpdateShape ==
  ASSUME NEW c \in DOMAIN Schemas, NEW u \in Range(Schemas[c].uq) \cup Range(Schemas[c].dq)
  PROVE  /\ Len(u.mrq) \in Nat /\ DOMAIN u.mrq = 1..Len(u.mrq)
         /\ Len(u.crq) \in Nat /\ DOMAIN u.crq = 1..Len(u.crq)
         /\ Len(Binary(u.crq)) \in Nat /\ DOMAIN Binary(u.crq) = 1..Len(Binary(u.crq))
         /\ u.crq \in Seq([field : STRING, op : STRING])
<1>1. /\ u.mrq \in Seq([field : STRING, mod : {"set", "strset", "inc", "dec", "concat"}])
      /\ u.crq \in Seq([field : STRING, op : STRING])
  BY UpdateIs DEF UpdateFits
<1>2. Binary(u.crq) \in Seq([field : STRING, op : STRING])
  BY <1>1, BinaryIs
<1> QED BY <1>1, <1>2, LenProperties

LEMMA UpdateSlotsAre ==
  ASSUME NEW c \in DOMAIN Schemas, NEW u \in Range(Schemas[c].uq) \cup Range(Schemas[c].dq),
         NEW fs, fs = Schemas[c].fields[u.strct]
  PROVE  LET slots == UpdateSlots(fs, u)
             m == Len(u.mrq)
         IN /\ slots \in Seq(Slots) /\ Len(slots) = m + Len(Binary(u.crq))
            /\ \A i \in 1..m : LET f == Field(fs, u.mrq[i].field)
                               IN slots[i] = Slot(Hashed(f, u.mrq[i]), IsNull(f))
            /\ \A i \in 1..Len(Binary(u.crq)) : slots[m + i] = Slot(FALSE, FALSE)
<1> DEFINE m == Len(u.mrq)
           k == Len(Binary(u.crq))
           of(i) == Slot(Hashed(Field(fs, u.mrq[i].field), u.mrq[i]), IsNull(Field(fs, u.mrq[i].field)))
           a == [i \in DOMAIN u.mrq |-> of(i)]
           b == [i \in DOMAIN Binary(u.crq) |-> Slot(FALSE, FALSE)]
<1>1. m \in Nat /\ DOMAIN u.mrq = 1..m /\ k \in Nat /\ DOMAIN Binary(u.crq) = 1..k
  BY UpdateShape
<1>2. UpdateSlots(fs, u) = a \o b
  BY DEF UpdateSlots
<1>3. \A i : of(i) \in Slots
  BY DEF Slot, Slots, Hashed, IsPassword, IsNull
<1>4. Slot(FALSE, FALSE) \in Slots
  BY DEF Slot, Slots
<1> HIDE DEF of
<1>5. a \in [1..m -> Slots] /\ b \in [1..k -> Slots]
  BY <1>1, <1>3, <1>4
<1>6. (\A i \in 1..m : a[i] = of(i)) /\ (\A i \in 1..k : b[i] = Slot(FALSE, FALSE))
  BY <1>1
<1> HIDE DEF a, b, m, k
<1>7. a \in Seq(Slots) /\ Len(a) = m /\ b \in Seq(Slots) /\ Len(b) = k
  BY <1>1, <1>5, MadeSeq
<1>8. /\ a \o b \in Seq(Slots) /\ Len(a \o b) = m + k
      /\ \A i \in 1..m : (a \o b)[i] = of(i)
      /\ \A i \in 1..k : (a \o b)[m + i] = Slot(FALSE, FALSE)
  <2>1. /\ a \o b \in Seq(Slots) /\ Len(a \o b) = m + k
        /\ \A i \in 1..m : (a \o b)[i] = a[i]
        /\ \A i \in 1..k : (a \o b)[m + i] = b[i]
    <3>1. /\ a \o b \in Seq(Slots) /\ Len(a \o b) = Len(a) + Len(b)
          /\ \A i \in 1..Len(a) : (a \o b)[i] = a[i]
          /\ \A i \in 1..Len(b) : (a \o b)[Len(a) + i] = b[i]
      <4>1. a \in Seq(Slots) /\ b \in Seq(Slots)
        BY <1>7
      <4> QED BY <4>1, JoinedIs
    <3> QED BY <3>1, <1>7
  <2> QED BY <2>1, <1>6
<1> QED BY <1>2, <1>8 DEF of, m, k

LEMMA UpdateArgumentsAre ==
  ASSUME schema \in DOMAIN Schemas, NEW u \in Range(Schema.uq) \cup Range(Schema.dq),
         NEW v \in ArgumentsFor(u)
  PROVE  \A i \in 1..Len(u.mrq) :
           Accepts(AsHash(Field(Fields(u.strct), u.mrq[i].field), u.mrq[i].mod), v[i])
<1> DEFINE con == Binary(u.crq)
           m == Len(u.mrq)
           k == Len(con)
           field(r) == Field(Fields(u.strct), r.field)
           a == [i \in DOMAIN u.mrq |-> AsHash(field(u.mrq[i]), u.mrq[i].mod)]
           b == [i \in DOMAIN con |-> Constrained(AsHash(field(con[i]), con[i].op))]
           F == Range(a) \cup Range(b)
<1>1. m \in Nat /\ DOMAIN u.mrq = 1..m /\ k \in Nat /\ DOMAIN con = 1..k
  BY UpdateShape DEF Schema
<1>2. v \in ArgumentsOf(a \o b)
  BY DEF ArgumentsFor
<1>3. a \in [1..m -> F] /\ b \in [1..k -> F]
  BY <1>1 DEF Range
<1>4. \A i \in 1..m : a[i] = AsHash(field(u.mrq[i]), u.mrq[i].mod)
  BY <1>1
<1> HIDE DEF a, b, m, k, F
<1>5. a \in Seq(F) /\ Len(a) = m /\ b \in Seq(F) /\ Len(b) = k
  BY <1>1, <1>3, MadeSeq
<1>6. a \o b \in Seq(F) /\ Len(a \o b) = m + k /\ \A i \in 1..m : (a \o b)[i] = a[i]
  BY <1>5, JoinedIs
<1>7. \A i \in 1..(m + k) : v[i] \in Arguments((a \o b)[i])
  BY <1>2, <1>6, ArgumentsAre
<1>8. ASSUME NEW i \in 1..m
      PROVE  Accepts(AsHash(field(u.mrq[i]), u.mrq[i].mod), v[i])
  <2>1. v[i] \in Arguments(AsHash(field(u.mrq[i]), u.mrq[i].mod))
    BY <1>1, <1>4, <1>6, <1>7
  <2>2. /\ u.strct \in DOMAIN Schemas[schema].fields
        /\ field(u.mrq[i]) \in Range(Columns(Schemas[schema].fields[u.strct]))
    BY ModifierIs DEF Schema, Fields, m
  <2>3. \E how \in {"set", "strset"} :
          AsHash(field(u.mrq[i]), u.mrq[i].mod) = AsHash(field(u.mrq[i]), how)
    <3>1. CASE u.mrq[i].mod = "strset"
      BY <3>1
    <3>2. CASE u.mrq[i].mod # "strset"
      <4>1. u.mrq[i].mod \notin {"streq", "strneq"}
        BY ModifierIs DEF Schema, m
      <4> QED BY <4>1, <3>2 DEF AsHash
    <3> QED BY <3>1, <3>2
  <2> HIDE DEF field
  <2> QED BY <2>1, <2>2, <2>3, ArgumentsAssumption
<1> QED BY <1>8 DEF m

(* A row after an update: of two modifiers for a column the second one     *)
(* counts, and one with none stays.                                        *)
Modifiers(u, name, i) == { j \in 1..i : u.mrq[j].field = name }

SetTo(u, fs, row, v, name) ==
  LET js == Modifiers(u, name, Len(u.mrq))
      j == Max(js)
  IN IF js = {} THEN row[name] ELSE Changed(Field(fs, name), u.mrq[j].mod, row[name], v[j])

LEMMA SetIs ==
  ASSUME schema \in DOMAIN Schemas, NEW u \in Range(Schema.uq) \cup Range(Schema.dq),
         NEW fs, fs = Fields(u.strct), NEW row \in Row(fs), NEW v \in ArgumentsFor(u), NEW p,
         p = Bound(Binding(UpdateSlots(fs, u)), v), NEW new, new = SetSql(fs, u, p, row)
  PROVE  /\ new \in Row(fs) /\ DOMAIN new = ColumnNames(fs)
         /\ \A name \in ColumnNames(fs) : new[name] = SetTo(u, fs, row, v, name)
<1> DEFINE n == Len(u.mrq)
           value(i) == Assigned(fs, u.mrq[i], row[u.mrq[i].field], p[i])
           step(x, i) == [x EXCEPT ![u.mrq[i].field] = value(i)]
           g == [x \in Row(fs) \X (1..n) |-> step(x[1], x[2])]
           Is(a) == a = [i \in 0..n |-> IF i = 0 THEN row ELSE step(a[i - 1], i)]
           after == CHOOSE a : Is(a)
<1>1. n \in Nat
  BY UpdateShape DEF Schema
<1>2. ASSUME NEW i \in 1..n
      PROVE  LET f == Field(fs, u.mrq[i].field) IN
             /\ f \in Range(Columns(fs)) /\ f.name = u.mrq[i].field
             /\ value(i) = Changed(f, u.mrq[i].mod, row[f.name], v[i]) /\ Keeps(f, value(i))
             /\ value(i) \in Val
  <2> DEFINE f == Field(fs, u.mrq[i].field)
  <2>1. /\ f \in Range(Columns(fs)) /\ f.name = u.mrq[i].field
        /\ u.mrq[i].mod \in {"set", "strset", "inc", "dec", "concat"}
        /\ u.mrq[i].mod \in {"inc", "dec"} => f.type = "int"
        /\ u.mrq[i].mod = "concat" => f.type = "text"
        /\ u.strct \in DOMAIN Schemas[schema].fields
    BY ModifierIs DEF Schema, Fields
  <2>2. f \in FieldSet /\ f.type # "struct"
    BY <2>1, ColumnIs DEF Schema, Fields
  <2>3. p[i] = Given(Slot(Hashed(f, u.mrq[i]), IsNull(f)), v[i])
    <3> DEFINE slots == UpdateSlots(fs, u)
    <3>1. /\ slots \in Seq(Slots) /\ Len(slots) = n + Len(Binary(u.crq)) /\ Len(Binary(u.crq)) \in Nat
          /\ slots[i] = Slot(Hashed(f, u.mrq[i]), IsNull(f))
      BY UpdateSlotsAre, UpdateShape DEF Schema, Fields
    <3>2. p = Bound(Binding(slots), v)
      OBVIOUS
    <3> HIDE DEF slots, f, n
    <3>3. i \in 1..Len(slots)
      BY <1>1, <3>1
    <3>4. p = [j \in 1..Len(slots) |-> Given(slots[j], v[j])]
      BY <3>1, <3>2, BoundIs
    <3> QED BY <3>1, <3>3, <3>4
  <2>4. Accepts(AsHash(f, u.mrq[i].mod), v[i])
    BY UpdateArgumentsAre
  <2>5. Keeps(f, row[f.name])
    BY <2>1 DEF Row
  <2> HIDE DEF f
  <2>6. value(i) = Changed(f, u.mrq[i].mod, row[f.name], v[i]) /\ Keeps(f, value(i))
    <3>1. PICK m, old, arg : m = u.mrq[i] /\ old = row[f.name] /\ arg = v[i]
      OBVIOUS
    <3>2. Field(fs, m.field) = f /\ m.field = f.name
      BY <2>1, <3>1 DEF f
    <3>3. value(i) = Assigned(fs, m, old, Given(Slot(Hashed(f, m), IsNull(f)), arg))
      BY <2>3, <3>1, <3>2
    <3>4. /\ Accepts(AsHash(f, m.mod), arg) /\ Keeps(f, old)
          /\ m.mod \in {"inc", "dec"} => f.type = "int"
          /\ m.mod = "concat" => f.type = "text"
      BY <2>1, <2>4, <2>5, <3>1
    <3> HIDE DEF value
    <3>5. CASE m.mod \in {"set", "strset"}
      <4>1. /\ value(i) = Changed(f, m.mod, old, arg)
            /\ Keeps(f, value(i))
        BY <2>2, <3>3, <3>4, <3>5, AssignedSet
      <4> QED BY <3>1, <4>1
    <3>6. CASE m.mod \in {"inc", "dec", "concat"}
      <4>1. /\ value(i) = Changed(f, m.mod, old, arg)
            /\ Keeps(f, value(i))
        BY <2>2, <3>2, <3>3, <3>4, <3>6, AssignedCombined
      <4> QED BY <3>1, <4>1
    <3> QED BY <3>1, <3>5, <3>6, <2>1
  <2> HIDE DEF value
  <2> QED BY <2>1, <2>2, <2>6, KeptIsVal DEF f
<1> HIDE DEF value
<1>3. g \in [Row(fs) \X (1..n) -> Row(fs)]
  <2> SUFFICES ASSUME NEW x \in Row(fs), NEW i \in 1..n PROVE step(x, i) \in Row(fs)
    OBVIOUS
  <2> DEFINE f == Field(fs, u.mrq[i].field)
  <2>1. /\ f \in Range(Columns(fs)) /\ f.name = u.mrq[i].field
        /\ Keeps(f, value(i)) /\ value(i) \in Val
    BY <1>2
  <2>2. x \in [ColumnNames(fs) -> Val] /\ \A h \in Range(Columns(fs)) : Keeps(h, x[h.name])
    BY DEF Row
  <2>3. step(x, i) \in [ColumnNames(fs) -> Val]
    BY <2>1, <2>2
  <2>4. ASSUME NEW h \in Range(Columns(fs)) PROVE Keeps(h, step(x, i)[h.name])
    <3>1. h.name \in ColumnNames(fs)
      BY DEF ColumnNames
    <3>2. CASE h.name = f.name
      <4>1. h = f
        <5>1. u.strct \in DOMAIN Schemas[schema].fields
          BY ModifierIs DEF Schema, Fields
        <5>2. Field(fs, h.name) = h /\ Field(fs, f.name) = f
          BY <5>1, <2>1, ColumnIs DEF Schema, Fields
        <5> QED BY <5>2, <3>2
      <4>2. step(x, i)[h.name] = value(i)
        BY <2>1, <2>2, <3>1, <3>2
      <4> HIDE DEF step, f
      <4> QED BY <4>1, <4>2, <2>1
    <3>3. CASE h.name # f.name
      <4>1. step(x, i)[h.name] = x[h.name]
        BY <2>1, <2>2, <3>1, <3>3
      <4> HIDE DEF step, f
      <4> QED BY <4>1, <2>2
    <3> QED BY <3>2, <3>3
  <2> HIDE DEF step
  <2> QED BY <2>3, <2>4 DEF Row
<1>4. PICK h \in Ways(n, Row(fs), row, g) : TRUE
  <2> HIDE DEF n, g
  <2> QED BY <1>1, <1>3, StepsExist
<1>5. Is(h)
  <2>1. ASSUME NEW i \in 1..n PROVE h[i] = step(h[i - 1], i)
    <3>1. i - 1 \in 0..n /\ h[i - 1] \in Row(fs) /\ h[i] = g[<<h[i - 1], i>>]
      <4>1. i - 1 \in 0..n
        BY <1>1
      <4> HIDE DEF n, g
      <4> QED BY <4>1 DEF Ways
    <3> HIDE DEF step
    <3> QED BY <3>1
  <2> HIDE DEF step
  <2> QED BY <2>1 DEF Ways
<1>6. Is(after) /\ new = after[n]
  <2>1. Is(after)
    <3> HIDE DEF Is
    <3> QED BY <1>5
  <2> QED BY <2>1 DEF SetSql, Steps, value
<1> HIDE DEF after, step
<1>7. after[0] = row /\ \A i \in 1..n : after[i] = step(after[i - 1], i)
  <2>0. Is(after)
    BY <1>6
  <2> HIDE DEF n
  <2>1. after[0] = row
    BY <2>0, <1>1
  <2>2. ASSUME NEW i \in 1..n PROVE after[i] = step(after[i - 1], i)
    <3>1. i \in 0..n /\ i # 0
      BY <1>1
    <3> QED BY <3>1, <2>0
  <2> QED BY <2>1, <2>2
<1>8. after \in Ways(n, Row(fs), row, g)
  <2>1. after = [i \in 0..n |-> after[i]]
    BY <1>6
  <2>2. ASSUME NEW i \in 1..n, after[i - 1] \in Row(fs) PROVE after[i] = g[<<after[i - 1], i>>]
    BY <1>7, <2>2
  <2> HIDE DEF n, g, Is
  <2> QED BY <2>1, <2>2, <1>1, <1>3, <1>7, StepsStay
<1>9. \A i \in 0..n : after[i] \in Row(fs)
  BY <1>8 DEF Ways
<1> HIDE DEF Is, g
<1> DEFINE js(i, name) == Modifiers(u, name, i)
           Good(i, x) == \A name \in ColumnNames(fs) :
             x[name] = IF js(i, name) = {} THEN row[name] ELSE value(Max(js(i, name)))
           T == { i \in 0..n : Good(i, after[i]) }
<1>10. 0 \in T
  <2>1. \A name : js(0, name) = {}
    BY DEF Modifiers
  <2>2. Good(0, row)
    <3> HIDE DEF js
    <3> QED BY <2>1
  <2> HIDE DEF Good
  <2> QED BY <2>2, <1>1, <1>7
<1>11. ASSUME NEW i \in 1..n, i - 1 \in T PROVE i \in T
  <2> DEFINE x == after[i - 1]
  <2>1. Good(i - 1, x) /\ x \in Row(fs) /\ DOMAIN x = ColumnNames(fs)
    BY <1>1, <1>9, <1>11 DEF Row
  <2>2. after[i] = [x EXCEPT ![u.mrq[i].field] = value(i)]
    BY <1>7 DEF step
  <2> HIDE DEF x
  <2>3. ASSUME NEW name \in ColumnNames(fs)
        PROVE  after[i][name] = IF js(i, name) = {} THEN row[name] ELSE value(Max(js(i, name)))
    <3>1. CASE name = u.mrq[i].field
      <4>1. i \in js(i, name) /\ js(i, name) \in SUBSET Int /\ \A j \in js(i, name) : j <= i
        BY <3>1 DEF Modifiers
      <4>2. Max(js(i, name)) = i
        <5> HIDE DEF js
        <5>1. Max(js(i, name)) \in js(i, name) /\ \A j \in js(i, name) : j <= Max(js(i, name))
          BY <4>1, LastOf
        <5> QED BY <4>1, <5>1
      <4>3. after[i][name] = value(i)
        BY <2>1, <2>2, <3>1
      <4> HIDE DEF js
      <4> QED BY <4>1, <4>2, <4>3
    <3>2. CASE name # u.mrq[i].field
      <4>1. js(i, name) = js(i - 1, name)
        <5>1. \A j \in 1..i : u.mrq[j].field = name => j \in 1..(i - 1)
          BY <3>2
        <5>2. \A j \in 1..(i - 1) : j \in 1..i
          OBVIOUS
        <5> QED BY <5>1, <5>2 DEF Modifiers
      <4>2. after[i][name] = x[name]
        BY <2>1, <2>2, <3>2
      <4> HIDE DEF js
      <4> QED BY <4>1, <4>2, <2>1
    <3> QED BY <3>1, <3>2
  <2> HIDE DEF js
  <2> QED BY <2>3
<1>12. n \in T
  <2>1. n \in 0..n
    BY <1>1
  <2> HIDE DEF T, n
  <2> QED BY <2>1, <1>1, <1>10, <1>11, UpTo
<1>13. ASSUME NEW name \in ColumnNames(fs), js(n, name) # {}
       PROVE  LET j == Max(js(n, name))
              IN value(j) = Changed(Field(fs, name), u.mrq[j].mod, row[name], v[j])
  <2> DEFINE j == Max(js(n, name))
  <2>1. j \in 1..n /\ u.mrq[j].field = name
    <3>1. js(n, name) \in SUBSET Int /\ \A i \in js(n, name) : i <= n
      BY <1>1 DEF Modifiers
    <3>2. j \in js(n, name)
      <4> HIDE DEF js, n
      <4> QED BY <1>1, <1>13, <3>1, LastOf
    <3> QED BY <3>2 DEF Modifiers
  <2> HIDE DEF j
  <2>2. value(j) = Changed(Field(fs, name), u.mrq[j].mod, row[name], v[j])
    BY <2>1, <1>2
  <2> QED BY <2>2 DEF j
<1>14. new \in Row(fs) /\ Good(n, new)
  <2> HIDE DEF Good
  <2> QED BY <1>1, <1>6, <1>9, <1>12
<1>15. DOMAIN new = ColumnNames(fs)
  BY <1>14 DEF Row
<1>16. ASSUME NEW name \in ColumnNames(fs)
       PROVE  new[name] = SetTo(u, fs, row, v, name)
  BY <1>13, <1>14 DEF SetTo
<1> QED BY <1>14, <1>15, <1>16

(***************************************************************************)
(* Steps keep tables typed.                                                *)
(***************************************************************************)
(* The rows that pass a test, and all rows but one, are rows.              *)
LEMMA PickedRows ==
  ASSUME NEW S, NEW table \in Seq(S), NEW P \in SUBSET DOMAIN table
  PROVE  [n \in 1..Cardinality(P) |-> table[Nth(P, n)]] \in Seq(S)
BY PickedIs DEF Picked

LEMMA RemovedRows ==
  ASSUME NEW S, NEW table \in Seq(S), NEW i \in DOMAIN table
  PROVE  RemoveAt(table, i) \in Seq(S)
<1>1. i \in 1..Len(table) /\ Len(table) \in Nat
  BY LenProperties
<1>2. SubSeq(table, 1, i - 1) \in Seq(S) /\ SubSeq(table, i + 1, Len(table)) \in Seq(S)
  BY <1>1, SubSeqProperties
<1> QED BY <1>2, ConcatProperties DEF RemoveAt

(* What is right about the database: its tables, as they are in the file   *)
(* and as the program sees them, and the lock of a transaction.            *)
DataInv ==
  /\ schema \in DOMAIN Schemas
  /\ Typed(Schema.fields, db) /\ Typed(Schema.fields, cur)

LEMMA TypedWith ==
  ASSUME NEW fields, NEW tables, Typed(fields, tables), NEW s \in DOMAIN fields,
         NEW table \in Seq(Row(fields[s]))
  PROVE  Typed(fields, [tables EXCEPT ![s] = table])
BY DEF Typed

LEMMA InsertTyped ==
  ASSUME DataInv, NEW s \in Structs, Insert(s) PROVE DataInv'
<1>1. PICK v \in ArgumentsOf(Inputs(Fields(s))) :
        LET row == Inserted(Fields(s), Bound(Binding(InsertSlots(Fields(s))), v), cur[s])
            tables == [cur EXCEPT ![s] = Append(@, row)]
        IN /\ schema' = schema
           /\ \/ cur' = tables /\ db' = IF open THEN db ELSE tables
              \/ UNCHANGED <<db, cur>>
  BY DEF Insert, Calls, Changes, Refuses, Throws
<1> DEFINE row == Inserted(Fields(s), Bound(Binding(InsertSlots(Fields(s))), v), cur[s])
           tables == [cur EXCEPT ![s] = Append(@, row)]
<1>2. schema \in DOMAIN Schemas /\ s \in DOMAIN Schemas[schema].fields
      /\ cur[s] \in Seq(Row(Fields(s))) /\ DOMAIN cur = DOMAIN Schema.fields
  BY DEF DataInv, Typed, Structs, Schema, Fields
<1>3. row \in Row(Fields(s))
  BY <1>2, InsertedIs DEF Fields, Schema
<1> HIDE DEF row
<1>4. Append(cur[s], row) \in Seq(Row(Fields(s)))
  BY <1>2, <1>3, AppendProperties
<1>5. Typed(Schema.fields, [cur EXCEPT ![s] = Append(cur[s], row)])
  BY <1>2, <1>4, TypedWith DEF DataInv, Fields, Structs
<1>6. tables = [cur EXCEPT ![s] = Append(cur[s], row)]
  OBVIOUS
<1>7. Typed(Schema.fields, tables)
  BY <1>5, <1>6
<1>8. schema' = schema /\ ((cur' = tables /\ (db' = db \/ db' = tables)) \/ UNCHANGED <<db, cur>>)
  BY <1>1 DEF row
<1> HIDE DEF tables
<1> QED BY <1>7, <1>8 DEF DataInv, Schema

LEMMA UpdateTyped ==
  ASSUME DataInv, NEW n \in DOMAIN Schema.uq, Update(n) PROVE DataInv'
<1> DEFINE u == Schema.uq[n]
           fs == Fields(u.strct)
           new(p, row) == IF WhereSql(u, p, row) THEN SetSql(fs, u, p, row) ELSE row
           tables(p) == [cur EXCEPT ![u.strct] = [i \in DOMAIN @ |-> new(p, @[i])]]
<1>1. PICK v \in ArgumentsFor(u) :
        LET p == Bound(Binding(UpdateSlots(fs, u)), v)
        IN /\ schema' = schema
           /\ \/ cur' = tables(p) /\ db' = IF open THEN db ELSE tables(p)
              \/ UNCHANGED <<db, cur>>
  BY DEF Update, Calls, Changes, Refuses, Throws
<1> DEFINE p == Bound(Binding(UpdateSlots(fs, u)), v)
           table == [i \in DOMAIN cur[u.strct] |-> new(p, cur[u.strct][i])]
<1>2. schema \in DOMAIN Schemas /\ u \in Range(Schema.uq) \cup Range(Schema.dq)
  BY DEF DataInv, Range
<1>3. u.strct \in DOMAIN Schema.fields
  BY <1>2, UpdateIs DEF Schema, UpdateFits
<1>4. cur[u.strct] \in Seq(Row(fs)) /\ DOMAIN cur = DOMAIN Schema.fields
  BY <1>3 DEF DataInv, Typed, Fields
<1> HIDE DEF u, fs
<1>5. ASSUME NEW row \in Row(fs) PROVE new(p, row) \in Row(fs)
  BY <1>2, SetIs DEF fs
<1> HIDE DEF p, new
<1>6. table \in Seq(Row(fs))
  <2>1. Len(cur[u.strct]) \in Nat /\ DOMAIN cur[u.strct] = 1..Len(cur[u.strct])
        /\ \A i \in 1..Len(cur[u.strct]) : cur[u.strct][i] \in Row(fs)
    BY <1>4, LenProperties, ElementOfSeq
  <2>2. table \in [1..Len(cur[u.strct]) -> Row(fs)]
    BY <2>1, <1>5
  <2> HIDE DEF table
  <2> QED BY <2>1, <2>2, MadeSeq
<1>7. tables(p) = [cur EXCEPT ![u.strct] = table]
  OBVIOUS
<1>8. Typed(Schema.fields, tables(p))
  <2> HIDE DEF table, tables
  <2>1. Typed(Schema.fields, [cur EXCEPT ![u.strct] = table])
    BY <1>3, <1>6, TypedWith DEF DataInv, fs, Fields
  <2> QED BY <2>1, <1>7
<1>9. schema' = schema /\ ((cur' = tables(p) /\ (db' = db \/ db' = tables(p))) \/ UNCHANGED <<db, cur>>)
  BY <1>1 DEF p
<1> HIDE DEF tables
<1> QED BY <1>8, <1>9 DEF DataInv, Schema

LEMMA DeleteTyped ==
  ASSUME DataInv, NEW n \in DOMAIN Schema.dq, Delete(n) PROVE DataInv'
<1> DEFINE u == Schema.dq[n]
           fs == Fields(u.strct)
           left(p, rows) == Filtered(rows, LAMBDA row : ~WhereSql(u, p, row))
           tables(p) == [cur EXCEPT ![u.strct] = left(p, @)]
<1>1. PICK v \in ArgumentsFor(u) :
        LET p == Bound(Binding(UpdateSlots(fs, u)), v)
        IN /\ schema' = schema
           /\ \/ cur' = tables(p) /\ db' = IF open THEN db ELSE tables(p)
              \/ UNCHANGED <<db, cur>>
              \/ cur' = db /\ UNCHANGED db
  BY DEF Delete, Calls, Changes, Refuses, Throws, Ends
<1> DEFINE p == Bound(Binding(UpdateSlots(fs, u)), v)
           table == left(p, cur[u.strct])
<1>2. schema \in DOMAIN Schemas /\ u \in Range(Schema.uq) \cup Range(Schema.dq)
  BY DEF DataInv, Range
<1>3. u.strct \in DOMAIN Schema.fields
  BY <1>2, UpdateIs DEF Schema, UpdateFits
<1>4. cur[u.strct] \in Seq(Row(fs)) /\ DOMAIN cur = DOMAIN Schema.fields
  BY <1>3 DEF DataInv, Typed, Fields
<1> HIDE DEF u, fs, p
<1>5. table \in Seq(Row(fs))
  <2> DEFINE P == { i \in DOMAIN cur[u.strct] : ~WhereSql(u, p, cur[u.strct][i]) }
  <2>1. table = [k \in 1..Cardinality(P) |-> cur[u.strct][Nth(P, k)]]
    BY DEF Filtered
  <2>2. P \in SUBSET DOMAIN cur[u.strct]
    OBVIOUS
  <2> HIDE DEF P, table
  <2> QED BY <1>4, <2>1, <2>2, PickedRows
<1>6. tables(p) = [cur EXCEPT ![u.strct] = table]
  OBVIOUS
<1>7. Typed(Schema.fields, tables(p))
  <2> HIDE DEF table, tables
  <2>1. Typed(Schema.fields, [cur EXCEPT ![u.strct] = table])
    BY <1>3, <1>5, TypedWith DEF DataInv, fs, Fields
  <2> QED BY <2>1, <1>6
<1>8. schema' = schema /\ (\/ cur' = tables(p) /\ (db' = db \/ db' = tables(p))
                           \/ UNCHANGED <<db, cur>>
                           \/ cur' = db /\ db' = db)
  BY <1>1 DEF p
<1> HIDE DEF tables
<1> QED BY <1>7, <1>8 DEF DataInv, Schema

(* The other steps leave tables as they are, give the program those of the *)
(* file or the file those of the program, or take a row from the file.     *)
LEMMA OtherTyped ==
  ASSUME DataInv, Other PROVE DataInv'
<1>1. PICK s \in DOMAIN db : \E i \in DOMAIN db[s] :
        db' = [db EXCEPT ![s] = RemoveAt(@, i)] /\ cur' = db' /\ schema' = schema
  BY DEF Other
<1>2. PICK i \in DOMAIN db[s] :
        db' = [db EXCEPT ![s] = RemoveAt(db[s], i)] /\ cur' = db' /\ schema' = schema
  BY <1>1
<1>3. s \in DOMAIN Schema.fields /\ db[s] \in Seq(Row(Schema.fields[s]))
  BY DEF DataInv, Typed
<1>4. RemoveAt(db[s], i) \in Seq(Row(Schema.fields[s]))
  BY <1>3, RemovedRows
<1>5. Typed(Schema.fields, db')
  BY <1>2, <1>3, <1>4, TypedWith DEF DataInv
<1> QED BY <1>2, <1>5 DEF DataInv, Schema

LEMMA TransactionTyped ==
  ASSUME DataInv, \/ \E s \in Structs : Get(s)
                  \/ \E m \in {"immediate", "deferred", "exclusive"} : OpenTrans(m)
                  \/ Commit \/ Rollback \/ Crash \/ Restart \/ UNCHANGED vars
  PROVE  DataInv'
<1>1. schema' = schema
  BY DEF Get, Calls, OpenTrans, CallsTrans, Commit, Rollback, Crash, Restart, vars
<1>2. db' \in {db, cur} /\ cur' \in {db, cur}
  BY DEF Get, Calls, OpenTrans, CallsTrans, Commit, Rollback, Closes, Misused, Ends, Crash, Restart, vars
<1> QED BY <1>1, <1>2 DEF DataInv, Schema

(* Every row of every table, in the database file and in the transaction,  *)
(* has a value for each column, of the column's type, and null only if the *)
(* column may be null: whatever is inserted, updated and deleted, and      *)
(* whenever the program ends.                                              *)
THEOREM TablesKeepTypes == Spec => []DataInv
<1>1. Init => DataInv
  <2> SUFFICES ASSUME Init PROVE DataInv
    OBVIOUS
  <2>1. schema \in DOMAIN Schemas /\ db \in Schema.starts /\ cur = db
    BY DEF Init
  <2>2. TablesFit(Schema.fields, db)
    BY <2>1, SchemasAssumption DEF SchemaFits, Schema
  <2>3. Typed(Schema.fields, db)
    BY <2>1, <2>2, TablesTyped DEF Schema
  <2> QED BY <2>1, <2>3 DEF DataInv
<1>2. DataInv /\ [Next]_vars => DataInv'
  BY InsertTyped, UpdateTyped, DeleteTyped, OtherTyped, TransactionTyped DEF Next
<1> QED BY <1>1, <1>2, PTL DEF Spec

(* man/ort.5: a password is inserted or updated as a password and          *)
(* extracted as a hash.  What is stored in a column for passwords is never *)
(* what was typed, for any configuration, any values, and in every output. *)
THEOREM PasswordsAreHashed == Spec => []PasswordsHashed
<1>1. DataInv => PasswordsHashed
  <2> SUFFICES ASSUME DataInv, NEW s \in DOMAIN db, NEW f \in Range(Fields(s)), IsPassword(f),
                      NEW row \in Range(db[s]) \cup Range(cur[s])
               PROVE  row[f.name].k # "text"
    BY DEF PasswordsHashed
  <2>1. s \in DOMAIN Schemas[schema].fields /\ schema \in DOMAIN Schemas
    BY DEF DataInv, Typed, Schema
  <2>2. db[s] \in Seq(Row(Fields(s))) /\ cur[s] \in Seq(Row(Fields(s)))
    BY <2>1 DEF DataInv, Typed, Schema, Fields
  <2>3. row \in Row(Fields(s))
    BY <2>2, ElementOfSeq, LenProperties DEF Range
  <2>4. f \in Range(Columns(Fields(s)))
    BY <2>1, StructIs, ColumnsAre DEF IsPassword, Schema, Fields
  <2>5. Keeps(f, row[f.name]) /\ f.type = "password"
    BY <2>3, <2>4 DEF Row, IsPassword
  <2> QED BY <2>5 DEF Keeps, OfType, Null, Value
<1> QED BY <1>1, TablesKeepTypes, PTL

(***************************************************************************)
(* Transactions and their locks.                                           *)
(***************************************************************************)
(* What is not in the file yet is in a transaction, which has a lock then. *)
TransInv ==
  /\ open \in BOOLEAN
  /\ lock \in {"none", "shared", "reserved", "exclusive"}
  /\ ~open => lock = "none"
  /\ lock = "none" => cur = db
  /\ backend = "c" /\ open /\ mode \in {"immediate", "exclusive"} => lock \in {"reserved", "exclusive"}

LEMMA WritesLock ==
  ASSUME TransInv, Writes
  PROVE  /\ lock' \in {"none", "shared", "reserved", "exclusive"}
         /\ ~open => lock' = "none"
         /\ open => lock' \in {"reserved", "exclusive"}
BY DEF TransInv, Writes, Locks

LEMMA ReadsLock ==
  ASSUME TransInv, Reads
  PROVE  /\ lock' \in {"none", "shared", "reserved", "exclusive"}
         /\ ~open => lock' = "none"
         /\ open => lock' # "none"
         /\ lock \in {"reserved", "exclusive"} => lock' \in {"reserved", "exclusive"}
BY DEF TransInv, Reads, Locks

(* A call writes, in the transaction or outside of one, or ends the        *)
(* program.                                                                *)
LEMMA CallsWrite ==
  ASSUME \/ \E s \in Structs : Insert(s)
         \/ \E n \in DOMAIN Schema.uq : Update(n)
         \/ \E n \in DOMAIN Schema.dq : Delete(n)
  PROVE  /\ backend' = backend
         /\ \/ /\ Writes /\ UNCHANGED <<open, mode>>
               /\ \/ db' = (IF open THEN db ELSE cur')
                  \/ UNCHANGED <<db, cur>>
            \/ Ends
BY ZenonT(30) DEF Insert, Update, Delete, Calls, Changes, Refuses, Throws

LEMMA TransInvStep ==
  ASSUME TransInv, [Next]_vars PROVE TransInv'
<1>1. CASE \/ \E s \in Structs : Insert(s)
           \/ \E n \in DOMAIN Schema.uq : Update(n)
           \/ \E n \in DOMAIN Schema.dq : Delete(n)
  <2>1. /\ backend' = backend
        /\ \/ /\ Writes /\ UNCHANGED <<open, mode>>
              /\ \/ db' = (IF open THEN db ELSE cur')
                 \/ UNCHANGED <<db, cur>>
           \/ Ends
    BY <1>1, CallsWrite
  <2>2. CASE Ends
    BY <2>2 DEF Ends, TransInv
  <2>3. CASE Writes /\ UNCHANGED <<open, mode>> /\ (db' = (IF open THEN db ELSE cur') \/ UNCHANGED <<db, cur>>)
    BY <2>3, WritesLock DEF TransInv
  <2> QED BY <2>1, <2>2, <2>3
<1>2. CASE \E s \in Structs : Get(s)
  <2>1. Reads /\ UNCHANGED <<db, cur, open, mode, backend>>
    BY <1>2 DEF Get, Calls
  <2> QED BY <2>1, ReadsLock DEF TransInv
<1>3. ASSUME NEW m \in {"immediate", "deferred", "exclusive"}, OpenTrans(m) PROVE TransInv'
  <2>1. CASE open
    BY <1>3, <2>1 DEF OpenTrans, CallsTrans, Misused, Ends, TransInv
  <2>2. CASE ~open
    <3>1. /\ open' = TRUE /\ mode' = m /\ lock' = LockOf(m) /\ UNCHANGED <<db, cur, backend>>
      BY <1>3, <2>2 DEF OpenTrans, CallsTrans
    <3>2. /\ LockOf(m) \in {"none", "reserved", "exclusive"}
          /\ backend = "c" /\ m \in {"immediate", "exclusive"} => LockOf(m) \in {"reserved", "exclusive"}
      BY DEF LockOf
    <3> QED BY <2>2, <3>1, <3>2 DEF TransInv
  <2> QED BY <2>1, <2>2
<1>4. CASE Commit \/ Rollback
  BY <1>4 DEF Commit, Rollback, CallsTrans, Closes, Misused, Ends, TransInv
<1>5. CASE Crash \/ Restart
  <2>1. CASE Crash
    BY <2>1 DEF Crash, Ends, TransInv
  <2>2. CASE Restart
    BY <2>2 DEF Restart, TransInv
  <2> QED BY <1>5, <2>1, <2>2
<1>6. CASE Other
  BY <1>6 DEF Other, TransInv
<1>7. CASE UNCHANGED vars
  BY <1>7 DEF vars, TransInv
<1> QED BY <1>1, <1>2, <1>3, <1>4, <1>5, <1>6, <1>7 DEF Next

LEMMA TransInvHolds == Spec => []TransInv
<1>1. Init => TransInv
  BY DEF Init, TransInv
<1> QED BY <1>1, TransInvStep, PTL DEF Spec

(* man/ort-c-header.1: with a transaction of the mode immediate or         *)
(* exclusive open in the C output, no step of anyone, the other programs   *)
(* included, changes the database, until the transaction is closed.        *)
THEOREM OthersAreExcludedInC == Spec => ExcludedInC
<1>1. TransInv /\ [Next]_vars
        => [backend = "c" /\ open /\ open' /\ mode \in {"immediate", "exclusive"} => db' = db]_vars
  <2> SUFFICES ASSUME TransInv, Next, backend = "c", open, open', mode \in {"immediate", "exclusive"}
               PROVE  db' = db
    BY DEF vars
  <2>1. lock # "none"
    BY DEF TransInv
  <2>2. CASE \/ \E s \in Structs : Insert(s)
             \/ \E n \in DOMAIN Schema.uq : Update(n)
             \/ \E n \in DOMAIN Schema.dq : Delete(n)
    <3>1. db' = (IF open THEN db ELSE cur') \/ db' = db
      BY <2>2, CallsWrite DEF Ends
    <3> QED BY <3>1
  <2>3. CASE \/ \E s \in Structs : Get(s)
             \/ \E m \in {"immediate", "deferred", "exclusive"} : OpenTrans(m)
             \/ Crash \/ Restart
    BY <2>3 DEF Get, OpenTrans, Misused, Ends, Crash, Restart
  <2>4. CASE Commit \/ Rollback
    BY <2>4 DEF Commit, Rollback, Closes, Misused, Ends
  <2>5. CASE Other
    BY <2>1, <2>5 DEF Other
  <2> QED BY <2>2, <2>3, <2>4, <2>5 DEF Next
<1> QED BY <1>1, TransInvHolds, PTL DEF Spec, ExcludedInC

(***************************************************************************)
(* The operators of Records are those of Modify.                           *)
(***************************************************************************)
LEMMA SameValues ==
  /\ R!Null = Null
  /\ \A x : R!Hash(x) = Hash(x)
  /\ \A n : R!Number(n) = Number(n)
  /\ \A x, y : R!Value(x, y) = Value(x, y)
  /\ \A f : R!IsNull(f) <=> IsNull(f)
  /\ \A c : R!IsUnary(c) <=> IsUnary(c)
  /\ \A op, a, b : R!Holds(op, a, b) <=> Holds(op, a, b)
  /\ \A op, a, b : R!Combined(op, a, b) = Combined(op, a, b)
  /\ \A is : R!Answer(is) = Answer(is)
<1>1. \A x, y : R!Value(x, y) = Value(x, y)
  BY DEF R!Value, Value
<1>2. R!Null = Null
  BY <1>1 DEF R!Null, Null
<1>3. \A x : R!Hash(x) = Hash(x)
  BY <1>1 DEF R!Hash, Hash
<1>4. \A n : R!Number(n) = Number(n)
  BY <1>1 DEF R!Number, Number
<1>5. \A f : R!IsNull(f) <=> IsNull(f)
  BY DEF R!IsNull, IsNull
<1>6. \A c : R!IsUnary(c) <=> IsUnary(c)
  BY DEF R!IsUnary, IsUnary
<1>7. \A op, a, b : R!Holds(op, a, b) <=> Holds(op, a, b)
  BY <1>2 DEF R!Holds, Holds
<1>8. \A op, a, b : R!Combined(op, a, b) = Combined(op, a, b)
  BY <1>1, <1>2, <1>4 DEF R!Combined, Combined
<1>9. \A is : R!Answer(is) = Answer(is)
  BY <1>2 DEF R!Answer, Answer
<1> QED BY <1>1, <1>2, <1>3, <1>4, <1>5, <1>6, <1>7, <1>8, <1>9

LEMMA SameSequences ==
  /\ \A f : R!Range(f) = Range(f)
  /\ \A P : R!Min(P) = Min(P) /\ R!Max(P) = Max(P)
  /\ \A P : R!Cardinality(P) = Cardinality(P)
  /\ \A P, n : R!Nth(P, n) = Nth(P, n)
  /\ \A table, i : R!RemoveAt(table, i) = RemoveAt(table, i)
  /\ \A table, column, value : R!RowWith(table, column, value) = RowWith(table, column, value)
  /\ \A fields, name : R!Field(fields, name) = Field(fields, name)
<1>1. \A f : R!Range(f) = Range(f)
  BY DEF R!Range, Range
<1>2. \A P : R!Min(P) = Min(P) /\ R!Max(P) = Max(P)
  BY DEF R!Min, Min, R!Max, Max
<1>0. \A P : R!Cardinality(P) = Cardinality(P)
  BY DEF R!Cardinality, Cardinality
<1>3. \A P, n : R!Nth(P, n) = Nth(P, n)
  BY <1>0 DEF R!Nth, Nth
<1>4. \A table, i : R!RemoveAt(table, i) = RemoveAt(table, i)
  BY DEF R!RemoveAt, RemoveAt
<1>5. \A table, column, value : R!RowWith(table, column, value) = RowWith(table, column, value)
  BY <1>2 DEF R!RowWith, RowWith, R!SelectInSeq, SelectInSeq
<1>6. \A fields, name : R!Field(fields, name) = Field(fields, name)
  BY <1>2 DEF R!Field, Field, R!SelectInSeq, SelectInSeq
<1> QED BY <1>0, <1>1, <1>2, <1>3, <1>4, <1>5, <1>6

LEMMA SameFields ==
  /\ \A fields : R!Columns(fields) = Columns(fields)
  /\ \A fields : R!ColumnNames(fields) = ColumnNames(fields)
  /\ \A fields : R!Inputs(fields) = Inputs(fields)
  /\ \A crq : R!Binary(crq) = Binary(crq)
  /\ R!Schema = Schema /\ \A s : R!Fields(s) = Fields(s)
<1>1. \A fields : R!Columns(fields) = Columns(fields)
  BY SameSequences DEF R!Columns, Columns, R!Filtered, Filtered
<1>2. \A fields : R!ColumnNames(fields) = ColumnNames(fields)
  BY <1>1, SameSequences DEF R!ColumnNames, ColumnNames
<1>3. \A fields : R!Inputs(fields) = Inputs(fields)
  BY <1>1, SameSequences DEF R!Inputs, Inputs, R!Filtered, Filtered
<1>4. \A crq : R!Binary(crq) = Binary(crq)
  BY SameSequences, SameValues DEF R!Binary, Binary, R!Filtered, Filtered
<1>5. R!Schema = Schema /\ \A s : R!Fields(s) = Fields(s)
  BY DEF R!Schema, Schema, R!Fields, Fields
<1> QED BY <1>1, <1>2, <1>3, <1>4, <1>5

LEMMA SameTables ==
  /\ \A fields, tables : R!Problem(fields, tables) = Problem(fields, tables)
  /\ \A table : R!NextId(table) = NextId(table)
<1>1. \A table, column : R!Repeated(table, column) <=> Repeated(table, column)
  BY SameValues DEF R!Repeated, Repeated
<1>2. \A fields, tables : R!Problem(fields, tables) = Problem(fields, tables)
  <2> TAKE fields, tables
  <2> DEFINE Twice(s, f) == "rowid" \in f.flags /\ Repeated(tables[s], f.name)
             Same(s, f) == "unique" \in f.flags /\ Repeated(tables[s], f.name)
             Dangling(s, f) ==
               /\ f.type # "struct" /\ f.ref # ""
               /\ \E i \in DOMAIN tables[s] :
                    LET key == tables[s][i][f.name]
                    IN key # Null /\ RowWith(tables[f.ref], "id", key) = 0
             RTwice(s, f) == "rowid" \in f.flags /\ R!Repeated(tables[s], f.name)
             RSame(s, f) == "unique" \in f.flags /\ R!Repeated(tables[s], f.name)
             RDangling(s, f) ==
               /\ f.type # "struct" /\ f.ref # ""
               /\ \E i \in DOMAIN tables[s] :
                    LET key == tables[s][i][f.name]
                    IN key # R!Null /\ R!RowWith(tables[f.ref], "id", key) = 0
             E1 == \E s \in DOMAIN fields : \E i \in DOMAIN fields[s] : Twice(s, fields[s][i])
             E2 == \E s \in DOMAIN fields : \E i \in DOMAIN fields[s] : Same(s, fields[s][i])
             E3 == \E s \in DOMAIN fields : \E i \in DOMAIN fields[s] : Dangling(s, fields[s][i])
             F1 == \E s \in DOMAIN fields : \E i \in DOMAIN fields[s] : RTwice(s, fields[s][i])
             F2 == \E s \in DOMAIN fields : \E i \in DOMAIN fields[s] : RSame(s, fields[s][i])
             F3 == \E s \in DOMAIN fields : \E i \in DOMAIN fields[s] : RDangling(s, fields[s][i])
  <2>1. \A s, f : Twice(s, f) <=> RTwice(s, f)
    BY <1>1
  <2>2. \A s, f : Same(s, f) <=> RSame(s, f)
    BY <1>1
  <2>3. \A s, f : Dangling(s, f) <=> RDangling(s, f)
    BY SameValues, SameSequences
  <2>4. Problem(fields, tables)
          = IF E1 THEN "primarykey" ELSE IF E2 THEN "unique" ELSE IF E3 THEN "foreignkey" ELSE "none"
    BY Zenon DEF Problem
  <2>5. R!Problem(fields, tables)
          = IF F1 THEN "primarykey" ELSE IF F2 THEN "unique" ELSE IF F3 THEN "foreignkey" ELSE "none"
    BY Zenon DEF R!Problem
  <2> HIDE DEF Twice, Same, Dangling, RTwice, RSame, RDangling
  <2>6. (E1 <=> F1) /\ (E2 <=> F2) /\ (E3 <=> F3)
    BY <2>1, <2>2, <2>3
  <2> HIDE DEF E1, E2, E3, F1, F2, F3
  <2> QED BY <2>4, <2>5, <2>6
<1>3. \A table : R!NextId(table) = NextId(table)
  BY SameValues, SameSequences DEF R!NextId, NextId
<1> QED BY <1>2, <1>3

(***************************************************************************)
(* Rows that are new or changed are those of Records.                      *)
(***************************************************************************)
LEMMA NewRowIs ==
  ASSUME DataInv, NEW s \in Structs, NEW v \in ArgumentsOf(Inputs(Fields(s)))
  PROVE  Inserted(Fields(s), Bound(Binding(InsertSlots(Fields(s))), v), cur[s]) = R!NewRow(s, v)
<1> DEFINE fs == Fields(s)
           in == Inputs(fs)
           row == Inserted(fs, Bound(Binding(InsertSlots(fs)), v), cur[s])
           new(name) == IF FirstNamed(in, name) = 0 THEN NextId(cur[s])
                        ELSE R!Stored(Field(fs, name), "set", v[FirstNamed(in, name)])
<1>1. schema \in DOMAIN Schemas /\ s \in DOMAIN Schemas[schema].fields
      /\ fs = Schemas[schema].fields[s] /\ cur[s] \in Seq(Row(fs))
  BY DEF DataInv, Typed, Structs, Schema, Fields
<1>2. /\ row \in Row(fs) /\ DOMAIN row = ColumnNames(fs)
      /\ \A i \in DOMAIN in : row[in[i].name] = Kept(in[i], v[i])
      /\ \A f \in Range(Columns(fs)) : "rowid" \in f.flags => row[f.name] = NextId(cur[s])
  <2>1. v \in ArgumentsOf(Inputs(fs))
    OBVIOUS
  <2>2. row = Inserted(fs, Bound(Binding(InsertSlots(fs)), v), cur[s])
    OBVIOUS
  <2> HIDE DEF fs, row
  <2>3. PICK table : table = cur[s]
    OBVIOUS
  <2>4. row = Inserted(fs, Bound(Binding(InsertSlots(fs)), v), table) /\ table \in Seq(Row(fs))
    BY <1>1, <2>2, <2>3
  <2>5. row \in Row(fs) /\ DOMAIN row = ColumnNames(fs) /\ NewIn(fs, v, table, row)
    BY <1>1, <2>1, <2>4, InsertedIs
  <2> QED BY <2>3, <2>5 DEF NewIn
<1>3. Named(fs) /\ Named(in)
  BY <1>1, StructIs, InputsAre
<1>4. R!NewRow(s, v) = [name \in ColumnNames(fs) |-> new(name)]
  <2> DEFINE place(name) == R!SelectInSeq(R!Inputs(R!Fields(s)), LAMBDA g : g.name = name)
             theirs(name) == IF place(name) = 0 THEN R!NextId(cur[s])
                             ELSE R!Stored(R!Field(R!Fields(s), name), "set", v[place(name)])
  <2>1. R!NewRow(s, v) = [name \in R!ColumnNames(R!Fields(s)) |-> theirs(name)]
    BY DEF R!NewRow
  <2>2. ASSUME NEW name PROVE place(name) = FirstNamed(in, name)
    BY SameFields, SameSequences DEF FirstNamed, SelectInSeq, R!SelectInSeq
  <2>3. R!ColumnNames(R!Fields(s)) = ColumnNames(fs)
    BY SameFields
  <2>4. ASSUME NEW name PROVE theirs(name) = new(name)
    <3>1. R!Field(R!Fields(s), name) = Field(fs, name) /\ R!NextId(cur[s]) = NextId(cur[s])
      BY SameFields, SameSequences, SameTables
    <3> HIDE DEF place
    <3> QED BY <2>2, <3>1
  <2> HIDE DEF theirs, new
  <2> QED BY <2>1, <2>3, <2>4
<1> HIDE DEF row, in
<1>5. ASSUME NEW name \in ColumnNames(fs) PROVE row[name] = new(name)
  <2>1. PICK f \in Range(Columns(fs)) : f.name = name
    BY DEF ColumnNames
  <2>2. Field(fs, name) = f
    BY <1>1, <2>1, ColumnIs
  <2>3. CASE "rowid" \in f.flags
    <3>1. ASSUME NEW i \in DOMAIN in PROVE in[i].name # name
      <4>1. in[i] \in Range(Columns(fs)) /\ "rowid" \notin in[i].flags
        BY <1>3, InputsAre DEF Range, in
      <4>2. Field(fs, in[i].name) = in[i]
        BY <1>1, <4>1, ColumnIs
      <4> QED BY <2>2, <2>3, <4>1, <4>2
    <3>2. FirstNamed(in, name) = 0
      <4>1. DOMAIN in = 1..Len(in)
        BY <1>3, LenProperties DEF Named
      <4> QED BY <3>1, <4>1, NoPlace
    <3> QED BY <1>2, <2>1, <2>3, <3>2
  <2>4. CASE "rowid" \notin f.flags
    <3>1. PICK i \in DOMAIN in : in[i] = f
      BY <1>3, <2>1, <2>4, InputsAre DEF Range, in
    <3>2. FirstNamed(in, name) = i
      BY <1>3, <2>1, <3>1, PlaceOfField
    <3>3. i # 0
      BY <1>3, LenProperties DEF Named
    <3>4. row[name] = Kept(f, v[i])
      BY <1>2, <2>1, <3>1
    <3>5. R!Stored(f, "set", v[i]) = Kept(f, v[i])
      BY SameValues DEF R!Stored, Kept
    <3> QED BY <2>2, <3>2, <3>3, <3>4, <3>5
  <2> QED BY <2>3, <2>4
<1>6. row = [name \in ColumnNames(fs) |-> row[name]]
  BY <1>2 DEF Row
<1>7. row = [name \in ColumnNames(fs) |-> new(name)]
  <2> HIDE DEF new, fs
  <2> QED BY <1>5, <1>6
<1> QED BY <1>4, <1>7 DEF row

LEMMA ModifiedIs ==
  ASSUME NEW mod \in {"set", "strset", "inc", "dec", "concat"}, NEW f, NEW old, NEW a
  PROVE  R!Modified(f, mod, old, a) = Changed(f, mod, old, a)
<1>1. CASE mod = "set"
  <2>1. R!Modified(f, mod, old, a) = R!Stored(f, mod, a)
    BY <1>1 DEF R!Modified
  <2>2. R!Stored(f, mod, a) = Kept(f, a)
    BY <1>1, SameValues DEF R!Stored, Kept
  <2>3. Changed(f, mod, old, a) = Kept(f, a)
    BY <1>1 DEF Changed
  <2> QED BY <2>1, <2>2, <2>3
<1>2. CASE mod = "strset"
  <2>1. R!Modified(f, mod, old, a) = R!Stored(f, mod, a)
    BY <1>2 DEF R!Modified
  <2>2. R!Stored(f, mod, a) = a
    BY <1>2 DEF R!Stored
  <2>3. Changed(f, mod, old, a) = a
    BY <1>2 DEF Changed
  <2> QED BY <2>1, <2>2, <2>3
<1>3. CASE mod = "concat" /\ old = Null
  <2>1. R!Modified(f, mod, old, a) = a
    BY <1>3, SameValues DEF R!Modified
  <2>2. Changed(f, mod, old, a) = a
    BY <1>3 DEF Changed
  <2> QED BY <2>1, <2>2
<1>4. CASE mod \in {"inc", "dec", "concat"} /\ ~(mod = "concat" /\ old = Null)
  <2>1. R!Modified(f, mod, old, a) = Combined(mod, old, a)
    BY <1>4, SameValues DEF R!Modified
  <2>2. Changed(f, mod, old, a) = Combined(mod, old, a)
    BY <1>4 DEF Changed
  <2> QED BY <2>1, <2>2
<1> QED BY <1>1, <1>2, <1>3, <1>4

LEMMA ChangedRowIs ==
  ASSUME DataInv, NEW u \in Range(Schema.uq) \cup Range(Schema.dq), NEW row \in Row(Fields(u.strct)),
         NEW v \in ArgumentsFor(u), NEW p, p = Bound(Binding(UpdateSlots(Fields(u.strct), u)), v)
  PROVE  SetSql(Fields(u.strct), u, p, row) = R!ChangedRow(u, v, row)
<1> DEFINE fs == Fields(u.strct)
           new == SetSql(fs, u, p, row)
           js(name) == Modifiers(u, name, Len(u.mrq))
           to(name) == IF js(name) = {} THEN row[name]
                       ELSE Changed(Field(fs, name), u.mrq[Max(js(name))].mod, row[name], v[Max(js(name))])
<1>1. schema \in DOMAIN Schemas
  BY DEF DataInv
<1>2. /\ new \in Row(fs) /\ DOMAIN new = ColumnNames(fs)
      /\ \A name \in ColumnNames(fs) : new[name] = to(name)
  <2>1. v \in ArgumentsFor(u) /\ p = Bound(Binding(UpdateSlots(fs, u)), v)
    OBVIOUS
  <2>2. new = SetSql(fs, u, p, row) /\ row \in Row(fs) /\ fs = Fields(u.strct)
    OBVIOUS
  <2> HIDE DEF fs, new
  <2>3. /\ new \in Row(fs) /\ DOMAIN new = ColumnNames(fs)
        /\ \A name \in ColumnNames(fs) : new[name] = SetTo(u, fs, row, v, name)
    BY <1>1, <2>1, <2>2, SetIs
  <2> QED BY <2>3 DEF SetTo
<1>3. DOMAIN row = ColumnNames(fs)
  BY DEF Row
<1>4. ASSUME NEW name
      PROVE  R!SelectLastInSeq(u.mrq, LAMBDA m : m.field = name) = IF js(name) = {} THEN 0 ELSE Max(js(name))
  BY SameSequences DEF R!SelectLastInSeq, Modifiers
<1>5. ASSUME NEW name, js(name) # {}
      PROVE  Max(js(name)) \in 1..Len(u.mrq)
  <2>1. Len(u.mrq) \in Nat
    BY <1>1, UpdateShape DEF Schema
  <2>2. js(name) \in SUBSET Int /\ js(name) \subseteq 1..Len(u.mrq) /\ \A j \in js(name) : j <= Len(u.mrq)
    BY <2>1 DEF Modifiers
  <2> HIDE DEF js
  <2> QED BY <1>5, <2>1, <2>2, LastOf
<1>6. ASSUME NEW j \in 1..Len(u.mrq), NEW f, NEW old, NEW a
      PROVE  R!Modified(f, u.mrq[j].mod, old, a) = Changed(f, u.mrq[j].mod, old, a)
  <2>1. u.mrq[j].mod \in {"set", "strset", "inc", "dec", "concat"}
    BY <1>1, ModifierIs DEF Schema
  <2> QED BY <2>1, ModifiedIs
<1>7. R!ChangedRow(u, v, row) = [name \in ColumnNames(fs) |-> to(name)]
  <2> DEFINE last(name) == R!SelectLastInSeq(u.mrq, LAMBDA m : m.field = name)
             theirs(name) == IF last(name) = 0 THEN row[name]
                             ELSE R!Modified(R!Field(R!Fields(u.strct), name), u.mrq[last(name)].mod, row[name], v[last(name)])
  <2>1. R!ChangedRow(u, v, row) = [name \in DOMAIN row |-> theirs(name)]
    BY DEF R!ChangedRow
  <2>2. ASSUME NEW name PROVE theirs(name) = to(name)
    <3>1. R!Field(R!Fields(u.strct), name) = Field(fs, name)
      BY SameSequences, SameFields
    <3>2. last(name) = IF js(name) = {} THEN 0 ELSE Max(js(name))
      BY <1>4
    <3> HIDE DEF last, js, fs
    <3>3. CASE js(name) = {}
      BY <3>2, <3>3
    <3>4. CASE js(name) # {}
      <4>1. Max(js(name)) \in 1..Len(u.mrq) /\ Max(js(name)) # 0
        BY <1>5, <3>4
      <4> QED BY <3>1, <3>2, <3>4, <4>1, <1>6
    <3> QED BY <3>3, <3>4
  <2> HIDE DEF theirs, to
  <2> QED BY <2>1, <2>2, <1>3
<1>8. new = [name \in ColumnNames(fs) |-> new[name]]
  BY <1>2 DEF Row
<1>9. new = [name \in ColumnNames(fs) |-> to(name)]
  <2> HIDE DEF new, to, fs
  <2> QED BY <1>2, <1>8
<1> QED BY <1>7, <1>9

(***************************************************************************)
(* A row meets the constraints of a statement, whose question marks are    *)
(* numbered from the left, if it meets those of Records.                   *)
(***************************************************************************)
Terms(crq) == { i \in DOMAIN crq : ~IsUnary(crq[i]) }

LEMMA TermsUpTo ==
  ASSUME NEW C, NEW crq \in Seq(C), NEW i \in 1..Len(crq)
  PROVE  Len(Binary(SubSeq(crq, 1, i))) = UpToPlace(Terms(crq), i)
<1> DEFINE front == SubSeq(crq, 1, i)
<1>1. Len(crq) \in Nat /\ DOMAIN crq = 1..Len(crq)
  BY LenProperties
<1>2. front \in Seq(C) /\ Len(front) = i /\ \A j \in 1..i : front[j] = crq[j]
  BY <1>1, SubSeqProperties
<1>3. DOMAIN front = 1..i
  BY <1>1, <1>2, LenProperties
<1> HIDE DEF front
<1>4. Len(Binary(front)) = Cardinality({ j \in DOMAIN front : ~IsUnary(front[j]) })
  BY <1>2, BinaryIs
<1>5. { j \in DOMAIN front : ~IsUnary(front[j]) } = { j \in Terms(crq) : j <= i }
  <2>1. \A j : j \in DOMAIN front /\ ~IsUnary(front[j]) <=> j \in Terms(crq) /\ j <= i
    <3>1. \A j \in 1..i : j \in 1..Len(crq) /\ j <= i
      BY <1>1
    <3>2. \A j \in 1..Len(crq) : j <= i => j \in 1..i
      BY <1>1
    <3> QED BY <1>1, <1>2, <1>3, <3>1, <3>2 DEF Terms
  <2> QED BY <2>1, Zenon
<1> QED BY <1>4, <1>5 DEF front, UpToPlace

LEMMA TermBound ==
  ASSUME schema \in DOMAIN Schemas, NEW u \in Range(Schema.uq) \cup Range(Schema.dq), NEW v, NEW p,
         p = Bound(Binding(UpdateSlots(Fields(u.strct), u)), v), NEW k \in 1..Len(Binary(u.crq))
  PROVE  p[Len(u.mrq) + k] = v[Len(u.mrq) + k]
<1> DEFINE slots == UpdateSlots(Fields(u.strct), u)
           m == Len(u.mrq)
<1>1. /\ slots \in Seq(Slots) /\ Len(slots) = m + Len(Binary(u.crq))
      /\ slots[m + k] = Slot(FALSE, FALSE)
  BY UpdateSlotsAre DEF Schema, Fields
<1>2. m \in Nat /\ Len(Binary(u.crq)) \in Nat
  BY UpdateShape DEF Schema
<1>3. p = Bound(Binding(slots), v)
  OBVIOUS
<1> HIDE DEF slots, m
<1>4. m + k \in 1..Len(slots)
  BY <1>1, <1>2
<1>5. p = [i \in 1..Len(slots) |-> Given(slots[i], v[i])]
  BY <1>1, <1>3, BoundIs
<1>6. p[m + k] = Given(Slot(FALSE, FALSE), v[m + k])
  BY <1>1, <1>4, <1>5
<1> QED BY <1>6 DEF Given, Slot, m

LEMMA MeetsIs ==
  ASSUME schema \in DOMAIN Schemas, NEW u \in Range(Schema.uq) \cup Range(Schema.dq), NEW row, NEW v,
         NEW p, p = Bound(Binding(UpdateSlots(Fields(u.strct), u)), v)
  PROVE  WhereSql(u, p, row) <=> R!Meets(u, v, row)
<1> DEFINE crq == u.crq
           m == Len(u.mrq)
           n == Len(crq)
           P == Terms(crq)
           S == [place : Nat, holds : BOOLEAN]
           base == [place |-> m + 1, holds |-> TRUE]
           test(c, x) == Holds(c.op, row[c.field], x)
           step(st, i) == IF IsUnary(crq[i]) THEN [st EXCEPT !.holds = @ /\ test(crq[i], Null)]
                          ELSE [place |-> st.place + 1, holds |-> st.holds /\ test(crq[i], p[st.place])]
           g == [x \in S \X (1..n) |-> step(x[1], x[2])]
           Is(a) == a = [i \in 0..n |-> IF i = 0 THEN base ELSE step(a[i - 1], i)]
           after == CHOOSE a : Is(a)
           Met(i) == test(crq[i], IF IsUnary(crq[i]) THEN Null ELSE v[m + UpToPlace(P, i)])
<1>1. /\ m \in Nat /\ n \in Nat /\ DOMAIN crq = 1..n /\ crq \in Seq([field : STRING, op : STRING])
      /\ P \in SUBSET (1..n)
  BY UpdateShape DEF Schema, Terms
<1>2. Cardinality(P) = Len(Binary(crq)) /\ Cardinality(P) \in Nat
  <2>1. Cardinality(P) = Len(Binary(crq))
    BY <1>1, BinaryIs DEF Terms
  <2> QED BY <1>1, <2>1, PlacesCounted
<1>3. ASSUME NEW i \in 1..n
      PROVE  /\ UpToPlace(P, i) \in Nat /\ UpToPlace(P, i - 1) \in Nat /\ UpToPlace(P, 0) = 0
             /\ UpToPlace(P, i) = UpToPlace(P, i - 1) + (IF IsUnary(crq[i]) THEN 0 ELSE 1)
             /\ ~IsUnary(crq[i]) => p[m + UpToPlace(P, i)] = v[m + UpToPlace(P, i)]
  <2>1. i \in P <=> ~IsUnary(crq[i])
    BY <1>1 DEF Terms
  <2> HIDE DEF P, n, crq
  <2>2. i \in 0..n /\ i - 1 \in 0..n
    BY <1>1
  <2>3. /\ UpToPlace(P, i) \in Nat /\ UpToPlace(P, i - 1) \in Nat /\ UpToPlace(P, 0) = 0
        /\ UpToPlace(P, i) = UpToPlace(P, i - 1) + (IF i \in P THEN 1 ELSE 0)
    <3>1. /\ \A k \in 0..n : UpToPlace(P, k) \in Nat
          /\ UpToPlace(P, 0) = 0
          /\ \A k \in 1..n : UpToPlace(P, k) = UpToPlace(P, k - 1) + (IF k \in P THEN 1 ELSE 0)
      BY <1>1, PlacesCounted
    <3> QED BY <2>2, <3>1
  <2>4. ASSUME ~IsUnary(crq[i]) PROVE p[m + UpToPlace(P, i)] = v[m + UpToPlace(P, i)]
    <3>1. UpToPlace(P, i) \in 1..Cardinality(P)
      BY <1>1, <2>1, <2>4, NthOf
    <3> QED BY <1>2, <3>1, TermBound DEF crq
  <2> QED BY <2>1, <2>3, <2>4
<1>4. base \in S /\ g \in [S \X (1..n) -> S]
  <2>1. ASSUME NEW st \in S, NEW i \in 1..n PROVE step(st, i) \in S
    <3>1. \A c, x : test(c, x) \in BOOLEAN
      BY DEF Holds
    <3> HIDE DEF test
    <3>2. CASE IsUnary(crq[i])
      BY <3>1, <3>2
    <3>3. CASE ~IsUnary(crq[i])
      BY <3>1, <3>3
    <3> QED BY <3>2, <3>3
  <2> HIDE DEF step, n
  <2>2. base \in S
    BY <1>1
  <2> HIDE DEF S
  <2> QED BY <2>1, <2>2
<1>5. PICK h \in Ways(n, S, base, g) : TRUE
  <2> HIDE DEF n, g, base, S
  <2> QED BY <1>1, <1>4, StepsExist
<1>6. Is(h)
  <2>1. ASSUME NEW i \in 1..n PROVE h[i] = step(h[i - 1], i)
    <3>1. i - 1 \in 0..n
      BY <1>1
    <3> HIDE DEF n
    <3>2. h[i - 1] \in S /\ h[i] = g[<<h[i - 1], i>>]
      <4> HIDE DEF g, S
      <4> QED BY <3>1 DEF Ways
    <3> HIDE DEF step, S
    <3> QED BY <3>2
  <2> HIDE DEF step, base, S
  <2> QED BY <2>1 DEF Ways
<1>7. Is(after) /\ WhereSql(u, p, row) = after[n].holds
  <2>1. Is(after)
    <3> HIDE DEF Is
    <3> QED BY <1>6
  <2> QED BY <2>1 DEF WhereSql, Steps
<1> HIDE DEF after, step
<1>8. /\ after = [i \in 0..n |-> after[i]] /\ after[0] = base
      /\ \A i \in 1..n : after[i] = step(after[i - 1], i)
  <2>1. Is(after)
    BY <1>7
  <2> HIDE DEF n, base, S, g
  <2>2. after = [i \in 0..n |-> after[i]] /\ after[0] = base
    BY <1>1, <2>1
  <2>3. ASSUME NEW i \in 1..n PROVE after[i] = step(after[i - 1], i)
    <3>1. i \in 0..n /\ i # 0
      BY <1>1
    <3> QED BY <3>1, <2>1
  <2> QED BY <2>2, <2>3
<1>9. after \in Ways(n, S, base, g)
  <2>1. ASSUME NEW i \in 1..n, after[i - 1] \in S PROVE after[i] = g[<<after[i - 1], i>>]
    BY <1>8, <2>1
  <2> HIDE DEF n, g, Is, S, base
  <2> QED BY <2>1, <1>1, <1>4, <1>8, StepsStay
<1>10. \A i \in 0..n : after[i] \in S
  BY <1>9 DEF Ways
<1> HIDE DEF Is, g
<1> DEFINE Good(i, st) == st.place = m + 1 + UpToPlace(P, i) /\ (st.holds <=> \A j \in 1..i : Met(j))
           T == { i \in 0..n : Good(i, after[i]) }
<1>11. 0 \in T
  <2>1. UpToPlace(P, 0) = 0
    BY <1>1, PlacesCounted
  <2> HIDE DEF Met, P
  <2>2. Good(0, base)
    BY <2>1, <1>1
  <2> HIDE DEF Good, base
  <2> QED BY <1>1, <1>8, <2>2
<1>12. ASSUME NEW i \in 1..n, i - 1 \in T PROVE i \in T
  <2> DEFINE st == after[i - 1]
  <2>1. st \in S /\ Good(i - 1, st) /\ after[i] = step(st, i)
    BY <1>1, <1>8, <1>10, <1>12
  <2> HIDE DEF st, P
  <2>2. \A j : j \in 1..i <=> j \in 1..(i - 1) \/ j = i
    BY <1>1
  <2>3. after[i].holds <=> st.holds /\ Met(i)
    <3>1. CASE IsUnary(crq[i])
      BY <3>1, <2>1 DEF step
    <3>2. CASE ~IsUnary(crq[i])
      <4>1. st.place = m + UpToPlace(P, i)
        <5> HIDE DEF Met, m, n, crq
        <5> QED BY <3>2, <2>1, <1>1, <1>3
      <4>2. p[st.place] = v[m + UpToPlace(P, i)]
        BY <3>2, <4>1, <1>3
      <4>3. after[i].holds = (st.holds /\ test(crq[i], p[st.place]))
        BY <3>2, <2>1 DEF step
      <4> HIDE DEF test, st, P
      <4> QED BY <3>2, <4>2, <4>3
    <3> QED BY <3>1, <3>2
  <2>4. after[i].place = m + 1 + UpToPlace(P, i)
    <3> HIDE DEF Met, m, n
    <3>1. CASE IsUnary(crq[i])
      BY <3>1, <2>1, <1>1, <1>3 DEF step
    <3>2. CASE ~IsUnary(crq[i])
      BY <3>2, <2>1, <1>1, <1>3 DEF step
    <3> QED BY <3>1, <3>2
  <2> HIDE DEF Met, n, m
  <2>5. after[i].holds <=> \A j \in 1..i : Met(j)
    BY <2>1, <2>2, <2>3
  <2> QED BY <2>4, <2>5
<1>13. n \in T
  <2>1. n \in 0..n
    BY <1>1
  <2> HIDE DEF T, n
  <2> QED BY <2>1, <1>1, <1>11, <1>12, UpTo
<1>14. WhereSql(u, p, row) <=> \A j \in 1..n : Met(j)
  <2> HIDE DEF Met
  <2> QED BY <1>7, <1>13
<1>15. R!Meets(u, v, row) <=> \A j \in 1..n : Met(j)
  <2> DEFINE Theirs(i) == R!Holds(crq[i].op, row[crq[i].field],
               IF R!IsUnary(crq[i]) THEN R!Null ELSE v[m + Len(R!Binary(SubSeq(crq, 1, i)))])
  <2>1. R!Meets(u, v, row) <=> \A i \in DOMAIN crq : Theirs(i)
    BY DEF R!Meets
  <2>2. ASSUME NEW i \in 1..n PROVE Theirs(i) <=> Met(i)
    <3>1. R!Binary(SubSeq(crq, 1, i)) = Binary(SubSeq(crq, 1, i))
      BY SameFields
    <3>2. Len(Binary(SubSeq(crq, 1, i))) = UpToPlace(P, i)
      BY <1>1, TermsUpTo
    <3> HIDE DEF P, crq, m
    <3> QED BY <3>1, <3>2, SameValues
  <2> HIDE DEF Theirs, Met
  <2> QED BY <1>1, <2>1, <2>2
<1> QED BY <1>14, <1>15

(***************************************************************************)
(* Every step is one of Records.                                           *)
(***************************************************************************)
(* While the program is not running it has no transaction open, and no     *)
(* constraint is ever violated.                                            *)
SoundInv ==
  /\ running \in BOOLEAN /\ (~running => ~open)
  /\ Problem(Schema.fields, db) = "none" /\ Problem(Schema.fields, cur) = "none"

LEMMA SoundInvStep ==
  ASSUME SoundInv, [Next]_vars PROVE SoundInv'
<1>1. CASE \/ \E s \in Structs : Insert(s)
           \/ \E n \in DOMAIN Schema.uq : Update(n)
           \/ \E n \in DOMAIN Schema.dq : Delete(n)
  <2>1. /\ schema' = schema /\ running
        /\ \/ /\ Problem(Schema.fields, cur') = "none" /\ db' = (IF open THEN db ELSE cur')
              /\ UNCHANGED <<open, running>>
           \/ UNCHANGED <<db, cur, open, running>>
           \/ Ends
    BY ZenonT(30), <1>1 DEF Insert, Update, Delete, Calls, Changes, Refuses, Throws
  <2> QED BY <2>1 DEF Ends, SoundInv, Schema
<1>2. CASE \E s \in Structs : Get(s)
  <2>1. UNCHANGED <<schema, db, cur, open, running>>
    BY <1>2 DEF Get, Calls
  <2> QED BY <2>1 DEF SoundInv, Schema
<1>3. CASE \E m \in {"immediate", "deferred", "exclusive"} : OpenTrans(m)
  <2>1. /\ UNCHANGED <<schema, db>> /\ cur' \in {db, cur}
        /\ running' \in BOOLEAN /\ (~running' => ~open')
    BY <1>3 DEF OpenTrans, CallsTrans, Misused, Ends, SoundInv
  <2> QED BY <2>1 DEF SoundInv, Schema
<1>4. CASE Commit \/ Rollback
  <2>1. /\ UNCHANGED schema /\ db' \in {db, cur} /\ cur' \in {db, cur}
        /\ running' \in BOOLEAN /\ (~running' => ~open')
    BY <1>4 DEF Commit, Rollback, CallsTrans, Closes, Misused, Ends, SoundInv
  <2> QED BY <2>1 DEF SoundInv, Schema
<1>5. CASE Crash \/ Restart
  <2>1. /\ UNCHANGED <<schema, db>> /\ cur' \in {db, cur}
        /\ running' \in BOOLEAN /\ (~running' => ~open')
    BY <1>5 DEF Crash, Restart, Ends, SoundInv
  <2> QED BY <2>1 DEF SoundInv, Schema
<1>6. CASE Other
  <2>1. /\ UNCHANGED <<schema, open, running>> /\ cur' = db'
        /\ Problem(Schema.fields, db') = "none"
    BY <1>6 DEF Other
  <2> QED BY <2>1 DEF SoundInv, Schema
<1>7. CASE UNCHANGED vars
  BY <1>7 DEF vars, SoundInv, Schema
<1> QED BY <1>1, <1>2, <1>3, <1>4, <1>5, <1>6, <1>7 DEF Next

LEMMA SoundInvHolds == Spec => []SoundInv
<1>1. Init => SoundInv
  <2> SUFFICES ASSUME Init PROVE SoundInv
    OBVIOUS
  <2>1. /\ schema \in DOMAIN Schemas /\ db \in Schema.starts /\ cur = db
        /\ open = FALSE /\ running = TRUE
    BY DEF Init
  <2>2. Problem(Schema.fields, db) = "none"
    BY <2>1, SchemasAssumption DEF SchemaFits, Schema
  <2> QED BY <2>1, <2>2 DEF SoundInv
<1> QED BY <1>1, SoundInvStep, PTL DEF Spec

(* What a change or a refusal is.                                          *)
LEMMA ChangeIs ==
  ASSUME NEW tables, NEW answer, Changes(tables, answer)
  PROVE  R!Change(tables, answer)
BY SameTables, SameFields DEF Changes, R!Change

LEMMA RefusalIs ==
  ASSUME NEW problem, Refuses(problem) PROVE problem # "none" /\ R!Fail
BY SameValues DEF Refuses, Throws, R!Fail

LEMMA EndIs ==
  ASSUME Ends, result' = Answer("failed") PROVE R!Fail
BY SameValues DEF Ends, R!Fail

LEMMA InsertIs ==
  ASSUME DataInv, NEW s \in Structs, Insert(s) PROVE R!Called
<1>1. PICK v \in ArgumentsOf(Inputs(Fields(s))) :
        LET row == Inserted(Fields(s), Bound(Binding(InsertSlots(Fields(s))), v), cur[s])
            tables == [cur EXCEPT ![s] = Append(@, row)]
        IN /\ schema' = schema /\ call' = [fn |-> "insert", strct |-> s, v |-> v]
           /\ \/ Changes(tables, [Answer("id") EXCEPT !.id = row["id"]])
              \/ Refuses(Problem(Schema.fields, tables))
  BY DEF Insert, Calls
<1> DEFINE row == R!NewRow(s, v)
           tables == [cur EXCEPT ![s] = Append(@, row)]
<1>2. \/ Changes(tables, [Answer("id") EXCEPT !.id = row["id"]])
      \/ Refuses(Problem(Schema.fields, tables))
  BY <1>1, NewRowIs
<1> HIDE DEF row
<1>3. R!Answer("id") = Answer("id") /\ R!Problem(R!Schema.fields, tables) = Problem(Schema.fields, tables)
  BY SameValues, SameTables, SameFields
<1>4. \/ R!Change(tables, [R!Answer("id") EXCEPT !.id = row["id"]])
      \/ R!Problem(R!Schema.fields, tables) # "none" /\ R!Fail
  <2> HIDE DEF tables
  <2> QED BY <1>2, <1>3, ChangeIs, RefusalIs
<1>5. R!Insert(s, v)
  BY <1>4 DEF R!Insert, row
<1>6. call'.fn = "insert" /\ call'.strct = s /\ call'.v = v /\ schema' = schema
  BY <1>1
<1> QED BY <1>5, <1>6 DEF R!Called

LEMMA UpdateIsTheirs ==
  ASSUME DataInv, NEW n \in DOMAIN Schema.uq, Update(n) PROVE R!Called
<1> DEFINE u == Schema.uq[n]
           fs == Fields(u.strct)
           ours(p, row) == IF WhereSql(u, p, row) THEN SetSql(fs, u, p, row) ELSE row
           theirs(v, row) == IF R!Meets(u, v, row) THEN R!ChangedRow(u, v, row) ELSE row
           old == cur[u.strct]
           tables(v) == [cur EXCEPT ![u.strct] = [i \in DOMAIN old |-> theirs(v, old[i])]]
<1>1. PICK v \in ArgumentsFor(u) :
        LET p == Bound(Binding(UpdateSlots(fs, u)), v)
            made == [cur EXCEPT ![u.strct] = [i \in DOMAIN @ |-> ours(p, @[i])]]
        IN /\ schema' = schema /\ call' = [fn |-> "update", n |-> n, v |-> v]
           /\ \/ Changes(made, Answer("done"))
              \/ Refuses(Problem(Schema.fields, made))
  BY DEF Update, Calls
<1> DEFINE p == Bound(Binding(UpdateSlots(fs, u)), v)
           made == [cur EXCEPT ![u.strct] = [i \in DOMAIN old |-> ours(p, old[i])]]
<1>2. schema \in DOMAIN Schemas /\ u \in Range(Schema.uq) \cup Range(Schema.dq)
  BY DEF DataInv, Range
<1>3. old \in Seq(Row(fs))
  <2>1. u.strct \in DOMAIN Schema.fields
    BY <1>2, UpdateIs DEF Schema, UpdateFits
  <2> QED BY <2>1 DEF DataInv, Typed, Fields
<1>4. \A i \in DOMAIN old : ours(p, old[i]) = theirs(v, old[i])
  <2> SUFFICES ASSUME NEW i \in DOMAIN old PROVE ours(p, old[i]) = theirs(v, old[i])
    OBVIOUS
  <2> DEFINE row == old[i]
  <2>1. row \in Row(fs)
    BY <1>3, ElementOfSeq, LenProperties
  <2>2. p = Bound(Binding(UpdateSlots(Fields(u.strct), u)), v)
    OBVIOUS
  <2> HIDE DEF row, p, u, old
  <2>3. WhereSql(u, p, row) <=> R!Meets(u, v, row)
    BY <1>2, <2>2, MeetsIs
  <2>4. SetSql(fs, u, p, row) = R!ChangedRow(u, v, row)
    BY <1>2, <2>1, <2>2, ChangedRowIs
  <2> QED BY <2>3, <2>4 DEF row
<1> HIDE DEF ours, theirs
<1>5. made = tables(v)
  <2> HIDE DEF old, p, u
  <2>1. [i \in DOMAIN old |-> ours(p, old[i])] = [i \in DOMAIN old |-> theirs(v, old[i])]
    BY <1>4
  <2> QED BY <2>1
<1>6. /\ schema' = schema /\ call' = [fn |-> "update", n |-> n, v |-> v]
      /\ \/ Changes(made, Answer("done"))
         \/ Refuses(Problem(Schema.fields, made))
  BY <1>1
<1> HIDE DEF made
<1>7. R!Answer("done") = Answer("done") /\ R!Problem(R!Schema.fields, made) = Problem(Schema.fields, made)
  BY SameValues, SameTables, SameFields
<1>8. R!Attempt(made)
  BY <1>6, <1>7, ChangeIs, RefusalIs DEF R!Attempt
<1>9. R!Update(u, v) <=> R!Attempt(tables(v))
  BY DEF R!Update, theirs
<1>10. R!Schema.uq[n] = u
  BY SameFields
<1>11. R!Update(R!Schema.uq[call'.n], call'.v)
  <2>1. call'.n = n /\ call'.v = v
    BY <1>6
  <2> HIDE DEF u, tables
  <2> QED BY <2>1, <1>5, <1>8, <1>9, <1>10
<1>12. call'.fn = "update"
  BY <1>6
<1> QED BY <1>6, <1>11, <1>12 DEF R!Called

LEMMA DeleteIsTheirs ==
  ASSUME DataInv, NEW n \in DOMAIN Schema.dq, Delete(n) PROVE R!Called
<1> DEFINE u == Schema.dq[n]
           fs == Fields(u.strct)
           old == cur[u.strct]
           left(p) == Filtered(old, LAMBDA row : ~WhereSql(u, p, row))
           kept(v) == R!Filtered(old, LAMBDA row : ~R!Meets(u, v, row))
           tables(v) == [cur EXCEPT ![u.strct] = kept(v)]
<1>1. PICK v \in ArgumentsFor(u) :
        LET p == Bound(Binding(UpdateSlots(fs, u)), v)
            made == [cur EXCEPT ![u.strct] = Filtered(@, LAMBDA row : ~WhereSql(u, p, row))]
            problem == Problem(Schema.fields, made)
        IN /\ schema' = schema /\ call' = [fn |-> "delete", n |-> n, v |-> v]
           /\ \/ Changes(made, Answer("done"))
              \/ backend # "c" /\ Refuses(problem)
              \/ backend = "c" /\ problem # "none" /\ Ends /\ result' = Answer("failed")
  BY DEF Delete, Calls
<1> DEFINE p == Bound(Binding(UpdateSlots(fs, u)), v)
           made == [cur EXCEPT ![u.strct] = left(p)]
<1>2. schema \in DOMAIN Schemas /\ u \in Range(Schema.uq) \cup Range(Schema.dq)
  BY DEF DataInv, Range
<1>4. \A row : WhereSql(u, p, row) <=> R!Meets(u, v, row)
  <2> SUFFICES ASSUME NEW row PROVE WhereSql(u, p, row) <=> R!Meets(u, v, row)
    OBVIOUS
  <2>2. p = Bound(Binding(UpdateSlots(Fields(u.strct), u)), v)
    OBVIOUS
  <2> HIDE DEF p, u
  <2> QED BY <1>2, <2>2, MeetsIs
<1>5. made = tables(v)
  <2> DEFINE Q1 == { i \in DOMAIN old : ~WhereSql(u, p, old[i]) }
             Q2 == { i \in DOMAIN old : ~R!Meets(u, v, old[i]) }
  <2>1. left(p) = [k \in 1..Cardinality(Q1) |-> old[Nth(Q1, k)]]
    BY DEF Filtered
  <2>2. kept(v) = [k \in 1..R!Cardinality(Q2) |-> old[R!Nth(Q2, k)]]
    BY DEF R!Filtered
  <2>3. Q1 = Q2
    <3> HIDE DEF old, u, p
    <3> QED BY <1>4, Zenon
  <2> HIDE DEF Q1, Q2, left, kept, old, u, p
  <2>4. left(p) = kept(v)
    BY <2>1, <2>2, <2>3, SameSequences
  <2> QED BY <2>4
<1>6. /\ schema' = schema /\ call' = [fn |-> "delete", n |-> n, v |-> v]
      /\ \/ Changes(made, Answer("done"))
         \/ backend # "c" /\ Refuses(Problem(Schema.fields, made))
         \/ backend = "c" /\ Problem(Schema.fields, made) # "none" /\ Ends /\ result' = Answer("failed")
  BY <1>1
<1> HIDE DEF made
<1>7. R!Answer("done") = Answer("done") /\ R!Problem(R!Schema.fields, made) = Problem(Schema.fields, made)
  BY SameValues, SameTables, SameFields
<1>8. R!Attempt(made)
  BY <1>6, <1>7, ChangeIs, RefusalIs, EndIs DEF R!Attempt
<1>9. R!Delete(u, v) <=> R!Attempt(tables(v))
  BY DEF R!Delete
<1>10. R!Schema.dq[n] = u
  BY SameFields
<1>11. R!Delete(R!Schema.dq[call'.n], call'.v)
  <2>1. call'.n = n /\ call'.v = v
    BY <1>6
  <2> HIDE DEF u, tables
  <2> QED BY <2>1, <1>5, <1>8, <1>9, <1>10
<1>12. call'.fn = "delete"
  BY <1>6
<1> QED BY <1>6, <1>11, <1>12 DEF R!Called

LEMMA TransactionIs ==
  ASSUME TransInv, SoundInv,
         (\E m \in {"immediate", "deferred", "exclusive"} : OpenTrans(m)) \/ Commit \/ Rollback
  PROVE  R!Called
<1>1. CASE \E m \in {"immediate", "deferred", "exclusive"} : OpenTrans(m)
  <2>1. /\ schema' = schema /\ call' = [fn |-> "open"]
        /\ \/ open /\ Misused
           \/ ~open /\ open' = TRUE /\ result' = Answer("done") /\ UNCHANGED <<db, cur>>
    BY <1>1 DEF OpenTrans, CallsTrans
  <2>2. R!Begin
    BY <2>1, SameValues DEF Misused, Ends, R!Begin, R!Fail
  <2> QED BY <2>1, <2>2 DEF R!Called
<1>2. CASE Commit
  <2>1. /\ schema' = schema /\ call' = [fn |-> "commit"]
        /\ IF open THEN Closes(cur) ELSE Misused
    BY <1>2 DEF Commit, CallsTrans
  <2>2. R!End(cur)
    BY <2>1, SameValues DEF Misused, Ends, Closes, R!End, R!Fail, TransInv
  <2> QED BY <2>1, <2>2 DEF R!Called
<1>3. CASE Rollback
  <2>1. /\ schema' = schema /\ call' = [fn |-> "rollback"]
        /\ IF open THEN Closes(db) ELSE Misused
    BY <1>3 DEF Rollback, CallsTrans
  <2>2. R!End(db)
    BY <2>1, SameValues DEF Misused, Ends, Closes, R!End, R!Fail, TransInv
  <2> QED BY <2>1, <2>2 DEF R!Called
<1> QED BY <1>1, <1>2, <1>3

LEMMA StopIs ==
  ASSUME TransInv, SoundInv, Crash \/ Restart PROVE R!Stop
BY SameValues DEF Crash, Restart, Ends, R!Stop, TransInv, SoundInv

LEMMA OtherIs ==
  ASSUME TransInv, Other PROVE R!Others
BY SameSequences DEF Other, R!Others, TransInv

(***************************************************************************)
(* Structures within structures.  A structure does not contain itself, so  *)
(* what holds of every structure, if it does of those within it, holds of  *)
(* all.  Objects, results and the functions that read them are defined     *)
(* along structures: each looks at those within only (the lemmas named     *)
(* Local), so there is one, built up by rank (those named Exist).          *)
(***************************************************************************)
Within(s) == { f.ref : f \in { g \in Range(Fields(s)) : g.type = "struct" } }
Ranked(rank, n) ==
  /\ n \in Nat /\ rank \in [Structs -> 0..n]
  /\ \A s \in Structs : \A t \in Within(s) : t \in Structs /\ rank[t] < rank[s]

LEMMA NestIs ==
  ASSUME schema \in DOMAIN Schemas, NEW s \in Structs, NEW f \in Range(Fields(s)), f.type = "struct"
  PROVE  /\ f.ref \in Structs /\ f \in FieldSet /\ Field(Fields(s), f.name) = f
         /\ LET g == Field(Fields(s), f.via) IN
            /\ g \in Range(Columns(Fields(s))) /\ g.name = f.via
            /\ g.type = "int" /\ g.ref = f.ref /\ g.ref # ""
<1> DEFINE fs == Fields(s)
<1>1. s \in DOMAIN Schemas[schema].fields /\ fs = Schemas[schema].fields[s]
  BY DEF Structs, Fields, Schema
<1>2. Named(fs) /\ \A i \in DOMAIN fs : FieldFits(Schemas[schema].fields, s, i)
  BY <1>1, StructIs
<1>3. PICK i \in DOMAIN fs : f = fs[i]
  BY DEF Range
<1>4. /\ f.ref # "" => f.ref \in Structs
      /\ \E j \in DOMAIN fs : fs[j].name = f.via /\ fs[j].type = "int"
                              /\ fs[j].ref = f.ref /\ f.ref # ""
  <2>1. FieldFits(Schemas[schema].fields, s, i)
    BY <1>2, <1>3
  <2>2. f = Schemas[schema].fields[s][i]
    BY <1>1, <1>3
  <2> HIDE DEF fs
  <2>3. /\ f.ref # "" => f.ref \in DOMAIN Schemas[schema].fields
        /\ \E j \in DOMAIN Schemas[schema].fields[s] :
             /\ Schemas[schema].fields[s][j].name = f.via /\ Schemas[schema].fields[s][j].type = "int"
             /\ Schemas[schema].fields[s][j].ref = f.ref /\ f.ref # ""
    BY <2>1, <2>2 DEF FieldFits
  <2> QED BY <2>3, <1>1 DEF Structs, Schema
<1> HIDE DEF fs
<1>5. PICK j \in DOMAIN fs : fs[j].name = f.via /\ fs[j].type = "int"
                            /\ fs[j].ref = f.ref /\ f.ref # ""
  BY <1>4
<1>6. fs[j] \in Range(fs) /\ Field(fs, f.via) = fs[j]
  <2>1. fs[j] \in Range(fs)
    BY DEF Range
  <2> QED BY <1>2, <1>5, <2>1, FieldOf
<1>7. fs[j] \in Range(Columns(fs))
  BY <1>2, <1>5, <1>6, ColumnsAre
<1>8. f \in FieldSet /\ Field(fs, f.name) = f
  BY <1>2, <1>3, FieldOf, ElementOfSeq, LenProperties DEF Named, fs
<1> QED BY <1>4, <1>5, <1>6, <1>7, <1>8 DEF fs

LEMMA RankExists ==
  ASSUME schema \in DOMAIN Schemas
  PROVE  \E rank, n : Ranked(rank, n)
<1> DEFINE n == Cardinality(Structs)
<1>1. SchemaFits(Schema)
  BY SchemasAssumption DEF Schema
<1>2. n \in Nat
  BY <1>1, FS_CardinalityType DEF SchemaFits, Structs
<1>3. PICK rank \in [Structs -> 0..n] :
        \A s \in Structs : \A f \in Range(Fields(s)) : f.type = "struct" => rank[f.ref] < rank[s]
  BY <1>1 DEF SchemaFits, Structs, Fields
<1>4. ASSUME NEW s \in Structs, NEW t \in Within(s) PROVE t \in Structs /\ rank[t] < rank[s]
  <2>1. PICK f \in Range(Fields(s)) : f.type = "struct" /\ t = f.ref
    BY DEF Within
  <2> QED BY <2>1, <1>3, NestIs
<1>5. Ranked(rank, n)
  BY <1>2, <1>3, <1>4 DEF Ranked
<1> QED BY <1>5

LEMMA ByNesting ==
  ASSUME schema \in DOMAIN Schemas, NEW T, \A s \in Structs : Within(s) \subseteq T => s \in T
  PROVE  \A s \in Structs : s \in T
<1>1. PICK rank, n : Ranked(rank, n)
  BY RankExists
<1> DEFINE K == { rank[s] : s \in Structs \ T }
<1>2. SUFFICES ASSUME K # {} PROVE FALSE
  OBVIOUS
<1>3. K \in SUBSET Nat
  BY <1>1 DEF Ranked
<1>4. PICK k \in K : \A m \in K : k <= m
  <2> HIDE DEF K
  <2> QED BY <1>2, <1>3, Smallest
<1>5. PICK s \in Structs \ T : k = rank[s]
  OBVIOUS
<1>6. PICK t \in Within(s) : t \notin T
  OBVIOUS
<1>7. t \in Structs /\ rank[t] < rank[s] /\ rank[t] \in Nat /\ rank[s] \in Nat
  BY <1>1, <1>5, <1>6 DEF Ranked
<1>8. rank[t] \in K
  BY <1>6, <1>7
<1> HIDE DEF K
<1> QED BY <1>4, <1>5, <1>7, <1>8

LEMMA NameIs ==
  ASSUME schema \in DOMAIN Schemas, NEW s \in Structs, NEW name \in Names(Fields(s))
  PROVE  LET f == Field(Fields(s), name) IN
         /\ f \in Range(Fields(s)) /\ f.name = name
         /\ f.type = "struct" => f.ref \in Within(s)
         /\ f.type # "struct" => f \in Range(Columns(Fields(s)))
<1> DEFINE fs == Fields(s)
<1>1. Named(fs)
  BY StructIs DEF Structs, Fields, Schema
<1>2. PICK f \in Range(fs) : f.name = name
  BY DEF Names
<1>3. Field(fs, name) = f
  BY <1>1, <1>2, FieldOf
<1>4. f.type = "struct" => f.ref \in Within(s)
  BY DEF Within
<1>5. f.type # "struct" => f \in Range(Columns(fs))
  BY <1>1, ColumnsAre
<1> QED BY <1>2, <1>3, <1>4, <1>5

LEMMA RowIn ==
  ASSUME NEW S, NEW table \in Seq(S), NEW column, NEW value, RowWith(table, column, value) # 0
  PROVE  RowWith(table, column, value) \in DOMAIN table
<1> DEFINE P == { j \in 1..Len(table) : table[j][column] = value }
<1>1. RowWith(table, column, value) = IF P = {} THEN 0 ELSE Min(P)
  BY DEF RowWith, SelectInSeq
<1>2. P \in SUBSET Nat /\ P \subseteq DOMAIN table
  BY LenProperties
<1> HIDE DEF P
<1> QED BY <1>1, <1>2, FirstOf

(* A reference that is never null, and any that is not, leads to a row.    *)
LEMMA KeyIs ==
  ASSUME DataInv, SoundInv, NEW s \in Structs, NEW i \in DOMAIN cur[s],
         NEW f \in Range(Fields(s)), f.type = "struct"
  PROVE  /\ ~Optional(Fields(s), f) => cur[s][i][f.via] # Null
         /\ cur[s][i][f.via] # Null => Target(f, cur[s][i]) \in DOMAIN cur[f.ref]
<1> DEFINE fs == Fields(s)
           row == cur[s][i]
           g == Field(fs, f.via)
<1>1. /\ f.ref \in Structs /\ g \in Range(Columns(fs)) /\ g.name = f.via
      /\ g.type = "int" /\ g.ref = f.ref /\ g.ref # ""
  BY NestIs DEF DataInv
<1>2. cur[s] \in Seq(Row(fs)) /\ cur[f.ref] \in Seq(Row(Fields(f.ref)))
  BY <1>1 DEF DataInv, Typed, Structs, Fields
<1>3. row \in Row(fs)
  BY <1>2, ElementOfSeq, LenProperties
<1>4. Keeps(g, row[f.via])
  BY <1>1, <1>3 DEF Row
<1>5. ~IsNull(g) => row[f.via] # Null
  BY <1>1, <1>4, NotNull DEF Keeps
<1>6. ASSUME row[f.via] # Null PROVE RowWith(cur[f.ref], "id", row[f.via]) # 0
  <2>1. Problem(Schema.fields, cur) = "none"
    BY DEF SoundInv
  <2>2. \A q \in DOMAIN Schema.fields : \A j \in DOMAIN Schema.fields[q] :
          LET h == Schema.fields[q][j] IN
          ~(/\ h.type # "struct" /\ h.ref # ""
            /\ \E k \in DOMAIN cur[q] :
                 LET key == cur[q][k][h.name]
                 IN key # Null /\ RowWith(cur[h.ref], "id", key) = 0)
    BY <2>1, Zenon DEF Problem
  <2>3. Named(fs) /\ fs = Schema.fields[s] /\ s \in DOMAIN Schema.fields
    BY StructIs DEF Structs, Fields, Schema, DataInv
  <2>4. g \in Range(fs)
    BY <1>1, <2>3, ColumnsAre
  <2>5. PICK j \in DOMAIN fs : g = fs[j]
    BY <2>4 DEF Range
  <2> HIDE DEF fs, g, row
  <2>6. ~(\E k \in DOMAIN cur[s] : cur[s][k][g.name] # Null /\ RowWith(cur[g.ref], "id", cur[s][k][g.name]) = 0)
    BY <2>2, <2>3, <2>5, <1>1
  <2> QED BY <1>1, <1>6, <2>6 DEF row
<1>7. ASSUME RowWith(cur[f.ref], "id", row[f.via]) # 0
      PROVE  RowWith(cur[f.ref], "id", row[f.via]) \in DOMAIN cur[f.ref]
  BY <1>2, <1>7, RowIn
<1> QED BY <1>5, <1>6, <1>7 DEF Optional, Target

(***************************************************************************)
(* Objects: whole ones, and those that are filled in from one result, in   *)
(* which an optional reference is not followed.                            *)
(***************************************************************************)
ObjectOf(flat, h, s) ==
  [i \in DOMAIN cur[s] |->
    [name \in Names(Fields(s)) |->
       LET f == Field(Fields(s), name)
           row == cur[s][i]
       IN IF f.type # "struct" THEN row[name]
          ELSE IF row[f.via] = Null \/ (flat /\ Optional(Fields(s), f)) THEN {}
          ELSE { h[f.ref][Target(f, row)] }]]

Flat == CHOOSE h : h = [s \in Structs |-> ObjectOf(TRUE, h, s)]

LEMMA ObjectOfLocal ==
  ASSUME DataInv, NEW flat, NEW s \in Structs, NEW h1, NEW h2, \A t \in Within(s) : h1[t] = h2[t]
  PROVE  ObjectOf(flat, h1, s) = ObjectOf(flat, h2, s)
<1>1. \A name \in Names(Fields(s)) :
        LET f == Field(Fields(s), name) IN f.type = "struct" => h1[f.ref] = h2[f.ref]
  BY NameIs DEF DataInv
<1>2. \A i \in DOMAIN cur[s] : ObjectOf(flat, h1, s)[i] = ObjectOf(flat, h2, s)[i]
  BY <1>1 DEF ObjectOf
<1> QED BY <1>2 DEF ObjectOf

LEMMA ObjectsExist ==
  ASSUME DataInv, NEW flat
  PROVE  \E h : h = [s \in Structs |-> ObjectOf(flat, h, s)]
<1>1. PICK rank, n : Ranked(rank, n)
  BY RankExists DEF DataInv
<1> DEFINE Upto(h, k) == /\ h = [s \in Structs |-> h[s]]
                         /\ \A s \in Structs : rank[s] < k => h[s] = ObjectOf(flat, h, s)
           T == { k \in 0..(n + 1) : \E h : Upto(h, k) }
<1>2. n \in Nat /\ \A s \in Structs : rank[s] \in 0..n
  BY <1>1 DEF Ranked
<1>3. 0 \in T
  <2>1. Upto([s \in Structs |-> 0], 0)
    BY <1>2
  <2>2. 0 \in 0..(n + 1)
    BY <1>2
  <2> HIDE DEF Upto
  <2> QED BY <2>1, <2>2
<1>4. ASSUME NEW k \in 1..(n + 1), k - 1 \in T PROVE k \in T
  <2>1. PICK h : Upto(h, k - 1)
    BY <1>4
  <2> DEFINE w == [s \in Structs |-> ObjectOf(flat, h, s)]
  <2>2. ASSUME NEW s \in Structs, rank[s] < k PROVE w[s] = ObjectOf(flat, w, s)
    <3>1. ASSUME NEW t \in Within(s) PROVE w[t] = h[t]
      <4>1. t \in Structs /\ rank[t] < k - 1
        BY <1>1, <1>2, <2>2 DEF Ranked
      <4> QED BY <2>1, <4>1
    <3> HIDE DEF w
    <3>2. ObjectOf(flat, w, s) = ObjectOf(flat, h, s)
      BY <3>1, ObjectOfLocal
    <3> QED BY <3>2 DEF w
  <2>3. w = [s \in Structs |-> w[s]]
    OBVIOUS
  <2> HIDE DEF w
  <2>4. Upto(w, k)
    BY <2>2, <2>3
  <2> HIDE DEF Upto
  <2> QED BY <2>4
<1>5. n + 1 \in T
  <2>1. n + 1 \in 0..(n + 1) /\ n + 1 \in Nat
    BY <1>2
  <2> HIDE DEF T
  <2> QED BY <1>3, <1>4, <2>1, UpTo
<1>6. PICK h : Upto(h, n + 1)
  BY <1>5
<1>7. \A s \in Structs : h[s] = ObjectOf(flat, h, s)
  BY <1>2, <1>6
<1>8. h = [s \in Structs |-> h[s]]
  BY <1>6
<1> HIDE DEF Upto
<1> QED BY <1>7, <1>8

LEMMA FlatIs ==
  ASSUME DataInv PROVE Flat = [s \in Structs |-> ObjectOf(TRUE, Flat, s)]
<1>1. \E h : h = [s \in Structs |-> ObjectOf(TRUE, h, s)]
  BY ObjectsExist
<1> QED BY <1>1 DEF Flat

LEMMA ObjectIs ==
  ASSUME DataInv PROVE R!Object = [s \in Structs |-> ObjectOf(FALSE, R!Object, s)]
<1> DEFINE theirs(h, s) ==
             [i \in DOMAIN cur[s] |->
               [name \in R!Names(R!Fields(s)) |->
                  LET f == R!Field(R!Fields(s), name)
                      key == cur[s][i][f.via]
                  IN IF f.type # "struct" THEN cur[s][i][name]
                     ELSE IF key = R!Null THEN {} ELSE { h[f.ref][R!RowWith(cur[f.ref], "id", key)] }]]
<1>1. R!Object = CHOOSE h : h = [s \in DOMAIN R!Schema.fields |-> theirs(h, s)]
  BY DEF R!Object
<1>2. ASSUME NEW h, NEW s PROVE theirs(h, s) = ObjectOf(FALSE, h, s)
  <2>1. R!Names(R!Fields(s)) = Names(Fields(s))
    BY SameSequences, SameFields DEF R!Names, Names
  <2> QED BY <2>1, SameSequences, SameFields, SameValues DEF ObjectOf, Target
<1> HIDE DEF theirs
<1>3. DOMAIN R!Schema.fields = Structs
  BY SameFields DEF Structs
<1>4. ASSUME NEW h
      PROVE  [s \in DOMAIN R!Schema.fields |-> theirs(h, s)] = [s \in Structs |-> ObjectOf(FALSE, h, s)]
  BY <1>2, <1>3
<1>5. R!Object = CHOOSE h : h = [s \in Structs |-> ObjectOf(FALSE, h, s)]
  BY <1>1, <1>4
<1>6. \E h : h = [s \in Structs |-> ObjectOf(FALSE, h, s)]
  BY ObjectsExist
<1> QED BY <1>5, <1>6

(***************************************************************************)
(* Results.                                                                *)
(***************************************************************************)
LEMMA JoinedAre ==
  ASSUME schema \in DOMAIN Schemas, NEW s \in Structs
  PROVE  LET fs == Fields(s)
             in == Joined(fs)
         IN /\ Named(fs) /\ Named(in) /\ Len(in) \in Nat /\ DOMAIN in = 1..Len(in)
            /\ \A n \in 1..Len(in) :
                 /\ in[n] \in Range(fs) /\ in[n].type = "struct" /\ ~Optional(fs, in[n])
                 /\ in[n].ref \in Within(s) /\ in[n].ref \in Structs
            /\ \A f \in Range(fs) : f.type = "struct" /\ ~Optional(fs, f) =>
                 \E n \in 1..Len(in) : in[n] = f
<1> DEFINE fs == Fields(s)
           in == Joined(fs)
           P == { i \in DOMAIN fs : fs[i].type = "struct" /\ ~Optional(fs, fs[i]) }
<1>1. Named(fs)
  BY StructIs DEF Structs, Fields, Schema
<1>2. in = Picked(fs, P)
  BY DEF Joined, Filtered, Picked
<1>3. Named(in) /\ Range(in) = { fs[i] : i \in P }
  BY <1>1, <1>2, PickedNamed
<1>4. Len(in) \in Nat /\ DOMAIN in = 1..Len(in)
  BY <1>3, LenProperties DEF Named
<1>5. ASSUME NEW n \in 1..Len(in)
      PROVE  /\ in[n] \in Range(fs) /\ in[n].type = "struct" /\ ~Optional(fs, in[n])
             /\ in[n].ref \in Within(s) /\ in[n].ref \in Structs
  <2>1. PICK i \in P : in[n] = fs[i]
    BY <1>3, <1>4 DEF Range
  <2> HIDE DEF in
  <2>2. in[n] \in Range(fs) /\ in[n].type = "struct" /\ ~Optional(fs, in[n])
    BY <2>1 DEF Range
  <2>3. in[n].ref \in Within(s)
    BY <2>2 DEF Within
  <2>4. in[n].ref \in Structs
    BY <2>2, NestIs
  <2> QED BY <2>2, <2>3, <2>4
<1>6. ASSUME NEW f \in Range(fs), f.type = "struct", ~Optional(fs, f)
      PROVE  \E n \in 1..Len(in) : in[n] = f
  <2>1. PICK i \in DOMAIN fs : f = fs[i]
    BY DEF Range
  <2>2. f \in { fs[j] : j \in P }
    BY <1>6, <2>1
  <2> QED BY <1>3, <1>4, <2>2 DEF Range
<1> QED BY <1>1, <1>3, <1>4, <1>5, <1>6

SqlOf(h, s) ==
  [i \in DOMAIN cur[s] |->
    LET row == cur[s][i]
        in == Joined(Fields(s))
    IN Steps(Len(in), InOrder(Fields(s), row),
             LAMBDA set, n : set \o h[in[n].ref][Target(in[n], row)])]

LEMMA SqlOfLocal ==
  ASSUME DataInv, NEW s \in Structs, NEW h1, NEW h2, \A t \in Within(s) : h1[t] = h2[t]
  PROVE  SqlOf(h1, s) = SqlOf(h2, s)
<1> SUFFICES ASSUME NEW i \in DOMAIN cur[s] PROVE SqlOf(h1, s)[i] = SqlOf(h2, s)[i]
  BY DEF SqlOf
<1> DEFINE row == cur[s][i]
           in == Joined(Fields(s))
           N == Len(in)
           base == InOrder(Fields(s), row)
           Is(h, a) == a = [n \in 0..N |-> IF n = 0 THEN base
                                           ELSE a[n - 1] \o h[in[n].ref][Target(in[n], row)]]
<1>1. N \in Nat /\ \A n \in 1..N : h1[in[n].ref] = h2[in[n].ref]
  BY JoinedAre DEF DataInv
<1>2. SqlOf(h1, s)[i] = (CHOOSE a : Is(h1, a))[N] /\ SqlOf(h2, s)[i] = (CHOOSE a : Is(h2, a))[N]
  BY DEF SqlOf, Steps
<1>3. ASSUME NEW a PROVE Is(h1, a) <=> Is(h2, a)
  <2> HIDE DEF N, base, row, in
  <2>1. \A n \in 0..N : n # 0 => h1[in[n].ref] = h2[in[n].ref]
    BY <1>1
  <2> QED BY <2>1
<1> HIDE DEF Is
<1> QED BY <1>2, <1>3

LEMMA SqlExists ==
  ASSUME DataInv
  PROVE  \E h : h = [s \in Structs |-> SqlOf(h, s)]
<1>1. PICK rank, n : Ranked(rank, n)
  BY RankExists DEF DataInv
<1> DEFINE Upto(h, k) == /\ h = [s \in Structs |-> h[s]]
                         /\ \A s \in Structs : rank[s] < k => h[s] = SqlOf(h, s)
           T == { k \in 0..(n + 1) : \E h : Upto(h, k) }
<1>2. n \in Nat /\ \A s \in Structs : rank[s] \in 0..n
  BY <1>1 DEF Ranked
<1>3. 0 \in T
  <2>1. Upto([s \in Structs |-> 0], 0)
    BY <1>2
  <2>2. 0 \in 0..(n + 1)
    BY <1>2
  <2> HIDE DEF Upto
  <2> QED BY <2>1, <2>2
<1>4. ASSUME NEW k \in 1..(n + 1), k - 1 \in T PROVE k \in T
  <2>1. PICK h : Upto(h, k - 1)
    BY <1>4
  <2> DEFINE w == [s \in Structs |-> SqlOf(h, s)]
  <2>2. ASSUME NEW s \in Structs, rank[s] < k PROVE w[s] = SqlOf(w, s)
    <3>1. ASSUME NEW t \in Within(s) PROVE w[t] = h[t]
      <4>1. t \in Structs /\ rank[t] < k - 1
        BY <1>1, <1>2, <2>2 DEF Ranked
      <4> QED BY <2>1, <4>1
    <3> HIDE DEF w
    <3>2. SqlOf(w, s) = SqlOf(h, s)
      BY <3>1, SqlOfLocal
    <3> QED BY <3>2 DEF w
  <2>3. w = [s \in Structs |-> w[s]]
    OBVIOUS
  <2> HIDE DEF w
  <2>4. Upto(w, k)
    BY <2>2, <2>3
  <2> HIDE DEF Upto
  <2> QED BY <2>4
<1>5. n + 1 \in T
  <2>1. n + 1 \in 0..(n + 1) /\ n + 1 \in Nat
    BY <1>2
  <2> HIDE DEF T
  <2> QED BY <1>3, <1>4, <2>1, UpTo
<1>6. PICK h : Upto(h, n + 1)
  BY <1>5
<1>7. \A s \in Structs : h[s] = SqlOf(h, s)
  BY <1>2, <1>6
<1>8. h = [s \in Structs |-> h[s]]
  BY <1>6
<1> HIDE DEF Upto
<1> QED BY <1>7, <1>8

LEMMA SqlIs ==
  ASSUME DataInv PROVE SelectSql = [s \in Structs |-> SqlOf(SelectSql, s)]
<1>1. SelectSql = CHOOSE h : h = [s \in Structs |-> SqlOf(h, s)]
  BY DEF SelectSql, SqlOf
<1>2. \E h : h = [s \in Structs |-> SqlOf(h, s)]
  BY SqlExists
<1> QED BY <1>1, <1>2

(* The values of a result, structure by structure.                         *)
Parts(s, i, a) ==
  LET row == cur[s][i]
      in == Joined(Fields(s))
  IN /\ a \in [0..Len(in) -> Seq(Val)]
     /\ a[0] = InOrder(Fields(s), row) /\ SelectSql[s][i] = a[Len(in)]
     /\ \A n \in 1..Len(in) : a[n] = a[n - 1] \o SelectSql[in[n].ref][Target(in[n], row)]

LEMMA SqlParts ==
  ASSUME DataInv, SoundInv, NEW s \in Structs, NEW i \in DOMAIN cur[s],
         \A t \in Within(s) : \A j \in DOMAIN cur[t] : SelectSql[t][j] \in Seq(Val)
  PROVE  \E a : Parts(s, i, a)
<1> DEFINE row == cur[s][i]
           in == Joined(Fields(s))
           N == Len(in)
           base == InOrder(Fields(s), row)
           of(n) == SelectSql[in[n].ref][Target(in[n], row)]
           Is(a) == a = [n \in 0..N |-> IF n = 0 THEN base ELSE a[n - 1] \o of(n)]
           g == [x \in Seq(Val) \X (1..N) |-> x[1] \o of(x[2])]
<1>1. /\ N \in Nat
      /\ \A n \in 1..N : in[n] \in Range(Fields(s)) /\ in[n].type = "struct"
                         /\ ~Optional(Fields(s), in[n]) /\ in[n].ref \in Within(s)
  BY JoinedAre DEF DataInv
<1>2. base \in Seq(Val)
  <2> DEFINE cols == Columns(Fields(s))
  <2>1. Named(cols)
    BY JoinedAre, ColumnsAre DEF DataInv
  <2>2. cur[s] \in Seq(Row(Fields(s)))
    BY DEF DataInv, Typed, Structs, Fields
  <2>3. row \in Row(Fields(s))
    BY <2>2, ElementOfSeq, LenProperties
  <2>4. Len(cols) \in Nat /\ DOMAIN cols = 1..Len(cols)
    BY <2>1, LenProperties DEF Named
  <2> HIDE DEF row
  <2>5. \A k \in 1..Len(cols) : row[cols[k].name] \in Val
    BY <2>3, <2>4 DEF Row, ColumnNames, Range
  <2>6. base = [k \in 1..Len(cols) |-> row[cols[k].name]]
    BY <2>4 DEF InOrder
  <2> HIDE DEF cols, base
  <2>7. base \in [1..Len(cols) -> Val]
    BY <2>5, <2>6
  <2> QED BY <2>4, <2>7, MadeSeq
<1>3. \A n \in 1..N : of(n) \in Seq(Val)
  BY <1>1, KeyIs
<1> HIDE DEF of, base, N
<1>4. g \in [Seq(Val) \X (1..N) -> Seq(Val)]
  <2>1. ASSUME NEW x \in Seq(Val), NEW n \in 1..N PROVE x \o of(n) \in Seq(Val)
    BY <1>3, JoinedIs
  <2> QED BY <2>1
<1>5. PICK h \in Ways(N, Seq(Val), base, g) : TRUE
  <2> HIDE DEF g
  <2> QED BY <1>1, <1>2, <1>4, StepsExist
<1>6. /\ h \in [0..N -> Seq(Val)] /\ h[0] = base
      /\ \A n \in 1..N : h[n] = g[<<h[n - 1], n>>]
  BY DEF Ways
<1>7. \A n \in 1..N : h[n - 1] \in Seq(Val)
  <2> TAKE n \in 1..N
  <2>1. n - 1 \in 0..N
    BY <1>1
  <2> QED BY <1>6, <2>1
<1>8. Is(h)
  <2>1. \A n \in 1..N : h[n] = h[n - 1] \o of(n)
    BY <1>6, <1>7
  <2> HIDE DEF g
  <2> QED BY SMTT(30), <1>1, <1>6, <2>1
<1>9. SelectSql[s][i] = (CHOOSE a : Is(a))[N]
  <2>1. SelectSql[s] = SqlOf(SelectSql, s)
    BY SqlIs
  <2>2. SqlOf(SelectSql, s)[i] = (CHOOSE a : Is(a))[N]
    BY DEF SqlOf, Steps, of, base, N
  <2> QED BY <2>1, <2>2
<1> DEFINE after == CHOOSE a : Is(a)
<1>10. Is(after)
  <2> HIDE DEF Is
  <2> QED BY <1>8
<1> HIDE DEF after
<1>11. /\ after = [n \in 0..N |-> after[n]] /\ after[0] = base
       /\ \A n \in 1..N : after[n] = after[n - 1] \o of(n)
  <2>1. Is(after)
    BY <1>10
  <2> HIDE DEF g
  <2>2. after = [n \in 0..N |-> after[n]] /\ after[0] = base
    BY <1>1, <2>1
  <2>3. ASSUME NEW n \in 1..N PROVE after[n] = after[n - 1] \o of(n)
    <3>1. n \in 0..N /\ n # 0
      BY <1>1
    <3> QED BY <3>1, <2>1
  <2> QED BY <2>2, <2>3
<1> HIDE DEF Is
<1>12. after \in Ways(N, Seq(Val), base, g)
  <2>1. ASSUME NEW n \in 1..N, after[n - 1] \in Seq(Val) PROVE after[n] = g[<<after[n - 1], n>>]
    BY <1>11, <2>1
  <2> HIDE DEF g
  <2> QED BY <2>1, <1>1, <1>2, <1>4, <1>11, StepsStay
<1>13. after \in [0..N -> Seq(Val)]
  BY <1>12 DEF Ways
<1>14. Parts(s, i, after)
  BY <1>9, <1>11, <1>13 DEF Parts, of, base, N, after
<1> QED BY <1>14

LEMMA SqlTyped ==
  ASSUME DataInv, SoundInv
  PROVE  \A s \in Structs : \A i \in DOMAIN cur[s] : SelectSql[s][i] \in Seq(Val)
<1> DEFINE T == { s \in Structs : \A i \in DOMAIN cur[s] : SelectSql[s][i] \in Seq(Val) }
<1>1. ASSUME NEW s \in Structs, Within(s) \subseteq T PROVE s \in T
  <2>1. ASSUME NEW i \in DOMAIN cur[s] PROVE SelectSql[s][i] \in Seq(Val)
    <3>1. PICK a : Parts(s, i, a)
      BY <1>1, SqlParts
    <3>2. Len(Joined(Fields(s))) \in Nat
      BY JoinedAre DEF DataInv
    <3> QED BY <3>1, <3>2 DEF Parts
  <2> QED BY <2>1
<1>2. \A s \in Structs : s \in T
  <2> HIDE DEF T
  <2> QED BY <1>1, ByNesting DEF DataInv
<1> QED BY <1>2

(***************************************************************************)
(* Filling in.  From where the values of a result are, every output fills  *)
(* in the object of its row, and it goes on behind them.                   *)
(***************************************************************************)
LEMMA InOrderIs ==
  ASSUME DataInv, NEW s \in Structs, NEW i \in DOMAIN cur[s]
  PROVE  LET cols == Columns(Fields(s))
             all == InOrder(Fields(s), cur[s][i])
         IN /\ Named(cols) /\ Len(cols) \in Nat /\ DOMAIN cols = 1..Len(cols)
            /\ all \in Seq(Val) /\ Len(all) = Len(cols)
            /\ \A k \in 1..Len(cols) : all[k] = cur[s][i][cols[k].name]
<1> DEFINE cols == Columns(Fields(s))
           row == cur[s][i]
           all == InOrder(Fields(s), row)
<1>1. Named(cols)
  BY JoinedAre, ColumnsAre DEF DataInv
<1>2. cur[s] \in Seq(Row(Fields(s)))
  BY DEF DataInv, Typed, Structs, Fields
<1>3. row \in Row(Fields(s))
  BY <1>2, ElementOfSeq, LenProperties
<1>4. Len(cols) \in Nat /\ DOMAIN cols = 1..Len(cols)
  BY <1>1, LenProperties DEF Named
<1> HIDE DEF row
<1>5. \A k \in 1..Len(cols) : row[cols[k].name] \in Val
  BY <1>3, <1>4 DEF Row, ColumnNames, Range
<1>6. all = [k \in 1..Len(cols) |-> row[cols[k].name]]
  BY <1>4 DEF InOrder
<1> HIDE DEF cols, all
<1>7. all \in [1..Len(cols) -> Val]
  BY <1>5, <1>6
<1>8. all \in Seq(Val) /\ Len(all) = Len(cols)
  BY <1>4, <1>7, MadeSeq
<1> QED BY <1>1, <1>4, <1>6, <1>8 DEF cols, all, row

Holding(set, pos, seq) == \A k \in 1..Len(seq) : set[pos + k - 1] = seq[k]

Base(s, i) ==
  [name \in Names(Fields(s)) |->
     IF Field(Fields(s), name).type = "struct" THEN {} ELSE cur[s][i][name]]

LEMMA FillAtIs ==
  ASSUME DataInv, NEW s \in Structs, NEW i \in DOMAIN cur[s], NEW set, NEW pos \in Nat,
         Holding(set, pos, InOrder(Fields(s), cur[s][i]))
  PROVE  FillAt(Fields(s), set, pos)
           = [obj |-> Base(s, i), pos |-> pos + Len(InOrder(Fields(s), cur[s][i]))]
<1> DEFINE fs == Fields(s)
           cols == Columns(fs)
           row == cur[s][i]
           ours(name) == IF Field(fs, name).type = "struct" THEN {}
                         ELSE set[pos + (FirstNamed(cols, name) - 1)]
<1>1. FillAt(fs, set, pos) = [obj |-> [name \in Names(fs) |-> ours(name)], pos |-> pos + Len(cols)]
  BY DEF FillAt, FirstNamed
<1>2. /\ Named(cols) /\ Len(cols) \in Nat /\ DOMAIN cols = 1..Len(cols)
      /\ Len(InOrder(fs, row)) = Len(cols)
      /\ \A k \in 1..Len(cols) : InOrder(fs, row)[k] = row[cols[k].name]
  BY InOrderIs
<1>3. ASSUME NEW name \in Names(fs)
      PROVE  ours(name) = IF Field(fs, name).type = "struct" THEN {} ELSE row[name]
  <2> DEFINE f == Field(fs, name)
  <2>1. f.name = name /\ (f.type # "struct" => f \in Range(cols))
    BY NameIs DEF DataInv
  <2>2. CASE f.type = "struct"
    BY <2>2
  <2>3. CASE f.type # "struct"
    <3>1. PICK k \in 1..Len(cols) : cols[k] = f
      BY <1>2, <2>1, <2>3 DEF Range
    <3>2. FirstNamed(cols, name) = k
      BY <1>2, <2>1, <3>1, PlaceOfField
    <3>3. pos + (k - 1) = pos + k - 1
      BY <1>2
    <3> HIDE DEF f, cols, fs
    <3>4. set[pos + k - 1] = row[name]
      BY <1>2, <2>1, <3>1 DEF Holding, fs
    <3> QED BY <2>3, <3>2, <3>3, <3>4 DEF f
  <2> QED BY <2>2, <2>3
<1> HIDE DEF ours
<1>4. [name \in Names(fs) |-> ours(name)] = Base(s, i)
  BY <1>3 DEF Base
<1> QED BY <1>1, <1>2, <1>4

LEMMA FillCIs ==
  ASSUME DataInv, NEW s \in Structs, NEW i \in DOMAIN cur[s], NEW set, NEW pos \in Nat,
         Holding(set, pos, InOrder(Fields(s), cur[s][i]))
  PROVE  FillC(Fields(s), set, pos)
           = [obj |-> Base(s, i), pos |-> pos + Len(InOrder(Fields(s), cur[s][i]))]
<1> DEFINE fs == Fields(s)
           cols == Columns(fs)
           row == cur[s][i]
           N == Len(fs)
           P == { j \in DOMAIN fs : fs[j].type # "struct" }
           base == [obj |-> [name \in Names(fs) |-> {}], pos |-> pos]
           step(st, n) == IF fs[n].type = "struct" THEN st
                          ELSE [obj |-> [st.obj EXCEPT ![fs[n].name] = set[st.pos]], pos |-> st.pos + 1]
           Is(a) == a = [n \in 0..N |-> IF n = 0 THEN base ELSE step(a[n - 1], n)]
           part(n) == [name \in Names(fs) |->
                         IF Field(fs, name).type = "struct" \/ FirstNamed(fs, name) > n THEN {} ELSE row[name]]
           E == [n \in 0..N |-> [obj |-> part(n), pos |-> pos + UpToPlace(P, n)]]
           after == CHOOSE a : Is(a)
<1>1. FillC(fs, set, pos) = after[N]
  BY DEF FillC, Steps
<1>2. /\ Len(cols) \in Nat /\ Len(InOrder(fs, row)) = Len(cols)
      /\ \A k \in 1..Len(cols) : InOrder(fs, row)[k] = row[cols[k].name]
  BY InOrderIs
<1>3. Named(fs) /\ N \in Nat /\ DOMAIN fs = 1..N
  BY JoinedAre, LenProperties DEF DataInv, Named
<1>4. P \in SUBSET (1..N) /\ cols = Picked(fs, P)
  BY <1>3 DEF Columns, Filtered, Picked
<1>5. /\ Len(cols) = Cardinality(P)
      /\ \A k \in 1..Cardinality(P) : cols[k] = fs[Nth(P, k)]
  <2>1. fs \in Seq(FieldSet) /\ P \in SUBSET DOMAIN fs
    BY <1>3 DEF Named
  <2> HIDE DEF P, cols, fs
  <2>2. /\ Len(Picked(fs, P)) = Cardinality(P)
        /\ \A k \in 1..Cardinality(P) : Picked(fs, P)[k] = fs[Nth(P, k)]
    BY <2>1, PickedIs
  <2> QED BY <1>4, <2>2
<1>6. ASSUME NEW name \in Names(fs)
      PROVE  FirstNamed(fs, name) \in 1..N /\ fs[FirstNamed(fs, name)].name = name
             /\ Field(fs, name) = fs[FirstNamed(fs, name)]
  <2>1. PICK j \in DOMAIN fs : fs[j].name = name
    BY DEF Names, Range
  <2>2. FirstNamed(fs, name) = j
    BY <1>3, <2>1, PlaceOfField
  <2> QED BY <1>3, <2>1, <2>2 DEF Field, FirstNamed
<1>7. ASSUME NEW n \in 1..N
      PROVE  /\ n - 1 \in 0..N /\ n \in 0..N /\ fs[n].name \in Names(fs) /\ FirstNamed(fs, fs[n].name) = n
             /\ UpToPlace(P, n - 1) \in Nat
             /\ UpToPlace(P, n) = UpToPlace(P, n - 1) + (IF n \in P THEN 1 ELSE 0)
             /\ n \in P <=> fs[n].type # "struct"
  <2>1. n - 1 \in 0..N /\ n \in 0..N
    BY <1>3
  <2>2. fs[n].name \in Names(fs) /\ FirstNamed(fs, fs[n].name) = n
    BY <1>3, PlaceOfField DEF Names, Range
  <2>3. n \in P <=> fs[n].type # "struct"
    BY <1>3
  <2> HIDE DEF P, N
  <2>4. /\ \A m \in 0..N : UpToPlace(P, m) \in Nat
        /\ \A m \in 1..N : UpToPlace(P, m) = UpToPlace(P, m - 1) + (IF m \in P THEN 1 ELSE 0)
    BY <1>3, <1>4, PlacesCounted
  <2> QED BY <2>1, <2>2, <2>3, <2>4
<1>8. /\ UpToPlace(P, 0) = 0 /\ UpToPlace(P, N) = Len(cols)
  <2> HIDE DEF P, N, cols
  <2> QED BY <1>3, <1>4, <1>5, PlacesCounted
<1>9. ASSUME NEW n \in 1..N PROVE step(E[n - 1], n) = E[n]
  <2> HIDE DEF P, N, cols, part
  <2>1. /\ E[n - 1] = [obj |-> part(n - 1), pos |-> pos + UpToPlace(P, n - 1)]
        /\ E[n] = [obj |-> part(n), pos |-> pos + UpToPlace(P, n)]
    BY <1>7
  <2> HIDE DEF E
  <2>2. CASE fs[n].type = "struct"
    <3>1. part(n) = part(n - 1)
      <4>1. ASSUME NEW name \in Names(fs), Field(fs, name).type # "struct"
            PROVE  FirstNamed(fs, name) > n <=> FirstNamed(fs, name) > n - 1
        <5>1. FirstNamed(fs, name) # n /\ FirstNamed(fs, name) \in Int /\ n \in Int
          BY <1>3, <1>6, <2>2, <4>1
        <5> QED BY <5>1
      <4> HIDE DEF fs
      <4> QED BY <4>1 DEF part
    <3>2. step(E[n - 1], n) = E[n - 1]
      BY <2>2
    <3>3. UpToPlace(P, n) = UpToPlace(P, n - 1)
      BY <1>7, <2>2
    <3> QED BY <2>1, <3>1, <3>2, <3>3
  <2>3. CASE fs[n].type # "struct"
    <3> DEFINE k == UpToPlace(P, n)
    <3>1. k = UpToPlace(P, n - 1) + 1 /\ UpToPlace(P, n - 1) \in Nat /\ n \in P
      BY <1>7, <2>3
    <3>2. k \in 1..Cardinality(P) /\ Nth(P, k) = n
      BY <1>3, <1>4, <3>1, NthOf
    <3>3. set[pos + k - 1] = row[fs[n].name]
      <4> HIDE DEF k, fs
      <4>1. set[pos + k - 1] = InOrder(fs, row)[k]
        BY <1>2, <1>5, <3>2 DEF Holding, fs
      <4> QED BY <4>1, <1>2, <1>5, <3>2
    <3>4. pos + UpToPlace(P, n - 1) = pos + k - 1 /\ pos + UpToPlace(P, n - 1) + 1 = pos + UpToPlace(P, n)
      BY <3>1
    <3>5. [part(n - 1) EXCEPT ![fs[n].name] = row[fs[n].name]] = part(n)
      <4>1. ASSUME NEW name \in Names(fs), name # fs[n].name
            PROVE  FirstNamed(fs, name) > n <=> FirstNamed(fs, name) > n - 1
        <5>1. FirstNamed(fs, name) # n /\ FirstNamed(fs, name) \in Int /\ n \in Int
          BY <1>3, <1>6, <4>1
        <5> QED BY <5>1
      <4>2. /\ fs[n].name \in Names(fs) /\ Field(fs, fs[n].name).type # "struct"
            /\ ~(FirstNamed(fs, fs[n].name) > n)
        <5>1. FirstNamed(fs, fs[n].name) = n /\ fs[n].name \in Names(fs) /\ n \in Int
          BY <1>3, <1>7
        <5>2. Field(fs, fs[n].name) = fs[n]
          BY <5>1, <1>6
        <5> QED BY <5>1, <5>2, <2>3
      <4> DEFINE it == fs[n].name
      <4>3. it \in Names(fs) /\ Field(fs, it).type # "struct" /\ ~(FirstNamed(fs, it) > n)
        BY <4>2
      <4>4. \A name \in Names(fs) : name # it =>
              (FirstNamed(fs, name) > n <=> FirstNamed(fs, name) > n - 1)
        BY <4>1
      <4> HIDE DEF it, fs, row
      <4>5. [part(n - 1) EXCEPT ![it] = row[it]] = part(n)
        BY <4>3, <4>4 DEF part
      <4> QED BY <4>5 DEF it
    <3> HIDE DEF k
    <3> QED BY <2>1, <2>3, <3>3, <3>4, <3>5
  <2> QED BY <2>2, <2>3
<1>10. Is(E)
  <2>1. part(0) = [name \in Names(fs) |-> {}]
    <3>1. \A name \in Names(fs) : FirstNamed(fs, name) > 0
      BY <1>3, <1>6
    <3> HIDE DEF fs
    <3> QED BY <3>1
  <2> HIDE DEF part, P, N
  <2>2. E[0] = base
    <3>1. E[0] = [obj |-> part(0), pos |-> pos + UpToPlace(P, 0)]
      BY <1>3
    <3>2. pos + UpToPlace(P, 0) = pos
      BY <1>8
    <3> HIDE DEF E
    <3> QED BY <2>1, <3>1, <3>2
  <2>3. E = [n \in 0..N |-> E[n]]
    OBVIOUS
  <2>4. ASSUME NEW n \in 0..N, n # 0 PROVE E[n] = step(E[n - 1], n)
    <3>1. n \in 1..N
      BY <1>3, <2>4
    <3> QED BY <1>9, <3>1
  <2> HIDE DEF E, base, step
  <2> QED BY <2>2, <2>3, <2>4
<1>11. Is(after)
  <2> HIDE DEF Is, E
  <2> QED BY <1>10
<1>12. after[N] = E[N]
  <2> DEFINE T == { n \in 0..N : after[n] = E[n] }
  <2> HIDE DEF after, E, step, base, N
  <2>1. after[0] = base /\ E[0] = base
    BY <1>3, <1>10, <1>11
  <2>2. ASSUME NEW n \in 1..N PROVE after[n] = step(after[n - 1], n) /\ n \in 0..N
    <3>1. n \in 0..N /\ n # 0
      BY <1>3
    <3> QED BY <3>1, <1>11
  <2> HIDE DEF Is
  <2>3. 0 \in T
    BY <1>3, <2>1
  <2>4. \A n \in 1..N : n - 1 \in T => n \in T
    BY <1>9, <2>2
  <2>5. N \in 0..N
    BY <1>3
  <2> HIDE DEF T
  <2>6. N \in T
    BY <1>3, <2>3, <2>4, <2>5, UpTo
  <2> QED BY <2>6 DEF T
<1>13. part(N) = Base(s, i)
  <2>1. \A name \in Names(fs) : ~(FirstNamed(fs, name) > N)
    BY <1>3, <1>6
  <2> HIDE DEF N
  <2> QED BY <2>1 DEF Base
<1>14. E[N] = [obj |-> part(N), pos |-> pos + UpToPlace(P, N)]
  <2> HIDE DEF part, P, N
  <2> QED BY <1>3
<1> HIDE DEF after, E, part, P, N
<1> QED BY <1>1, <1>2, <1>8, <1>12, <1>13, <1>14

FillFirst(s, set, pos) ==
  IF backend = "c" THEN FillC(Fields(s), set, pos) ELSE FillAt(Fields(s), set, pos)
FillOf(set, h, s) ==
  [pos \in Nat |->
    LET in == Joined(Fields(s))
    IN Steps(Len(in), FillFirst(s, set, pos),
             LAMBDA st, n : LET nested == h[in[n].ref][st.pos] IN
               [obj |-> [st.obj EXCEPT ![in[n].name] = {nested.obj}], pos |-> nested.pos])]
Fills(set) == CHOOSE h : h = [s \in Structs |-> FillOf(set, h, s)]

LEMMA FillOfLocal ==
  ASSUME DataInv, NEW set, NEW s \in Structs, NEW h1, NEW h2, \A t \in Within(s) : h1[t] = h2[t]
  PROVE  FillOf(set, h1, s) = FillOf(set, h2, s)
<1> SUFFICES ASSUME NEW pos \in Nat PROVE FillOf(set, h1, s)[pos] = FillOf(set, h2, s)[pos]
  BY DEF FillOf
<1> DEFINE in == Joined(Fields(s))
           N == Len(in)
           base == FillFirst(s, set, pos)
           step(st, n, nested) == [obj |-> [st.obj EXCEPT ![in[n].name] = {nested.obj}], pos |-> nested.pos]
           Is(h, a) == a = [n \in 0..N |-> IF n = 0 THEN base
                                           ELSE step(a[n - 1], n, h[in[n].ref][a[n - 1].pos])]
<1>1. N \in Nat /\ \A n \in 1..N : h1[in[n].ref] = h2[in[n].ref]
  BY JoinedAre DEF DataInv
<1>2. /\ FillOf(set, h1, s)[pos] = (CHOOSE a : Is(h1, a))[N]
      /\ FillOf(set, h2, s)[pos] = (CHOOSE a : Is(h2, a))[N]
  BY DEF FillOf, Steps
<1>3. ASSUME NEW a PROVE Is(h1, a) <=> Is(h2, a)
  <2> HIDE DEF N, base, in, step
  <2>1. \A n \in 0..N : n # 0 => h1[in[n].ref] = h2[in[n].ref]
    BY <1>1
  <2> QED BY <2>1
<1> HIDE DEF Is
<1> QED BY <1>2, <1>3

LEMMA FillsExist ==
  ASSUME DataInv, NEW set
  PROVE  \E h : h = [s \in Structs |-> FillOf(set, h, s)]
<1>1. PICK rank, n : Ranked(rank, n)
  BY RankExists DEF DataInv
<1> DEFINE Upto(h, k) == /\ h = [s \in Structs |-> h[s]]
                         /\ \A s \in Structs : rank[s] < k => h[s] = FillOf(set, h, s)
           T == { k \in 0..(n + 1) : \E h : Upto(h, k) }
<1>2. n \in Nat /\ \A s \in Structs : rank[s] \in 0..n
  BY <1>1 DEF Ranked
<1>3. 0 \in T
  <2>1. Upto([s \in Structs |-> 0], 0)
    BY <1>2
  <2>2. 0 \in 0..(n + 1)
    BY <1>2
  <2> HIDE DEF Upto
  <2> QED BY <2>1, <2>2
<1>4. ASSUME NEW k \in 1..(n + 1), k - 1 \in T PROVE k \in T
  <2>1. PICK h : Upto(h, k - 1)
    BY <1>4
  <2> DEFINE w == [s \in Structs |-> FillOf(set, h, s)]
  <2>2. ASSUME NEW s \in Structs, rank[s] < k PROVE w[s] = FillOf(set, w, s)
    <3>1. ASSUME NEW t \in Within(s) PROVE w[t] = h[t]
      <4>1. t \in Structs /\ rank[t] < k - 1
        BY <1>1, <1>2, <2>2 DEF Ranked
      <4> QED BY <2>1, <4>1
    <3> HIDE DEF w
    <3>2. FillOf(set, w, s) = FillOf(set, h, s)
      BY <3>1, FillOfLocal
    <3> QED BY <3>2 DEF w
  <2>3. w = [s \in Structs |-> w[s]]
    OBVIOUS
  <2> HIDE DEF w
  <2>4. Upto(w, k)
    BY <2>2, <2>3
  <2> HIDE DEF Upto
  <2> QED BY <2>4
<1>5. n + 1 \in T
  <2>1. n + 1 \in 0..(n + 1) /\ n + 1 \in Nat
    BY <1>2
  <2> HIDE DEF T
  <2> QED BY <1>3, <1>4, <2>1, UpTo
<1>6. PICK h : Upto(h, n + 1)
  BY <1>5
<1>7. \A s \in Structs : h[s] = FillOf(set, h, s)
  BY <1>2, <1>6
<1>8. h = [s \in Structs |-> h[s]]
  BY <1>6
<1> HIDE DEF Upto
<1> QED BY <1>7, <1>8

LEMMA FillsAre ==
  ASSUME DataInv, NEW set PROVE Fills(set) = [s \in Structs |-> FillOf(set, Fills(set), s)]
<1>1. \E h : h = [s \in Structs |-> FillOf(set, h, s)]
  BY FillsExist
<1> QED BY <1>1 DEF Fills

FillsIn(set, s) ==
  \A i \in DOMAIN cur[s], pos \in Nat :
    Holding(set, pos, SelectSql[s][i]) =>
      Fills(set)[s][pos] = [obj |-> Flat[s][i], pos |-> pos + Len(SelectSql[s][i])]

LEMMA PartsHeld ==
  ASSUME DataInv, SoundInv, NEW s \in Structs, NEW i \in DOMAIN cur[s], NEW a, Parts(s, i, a),
         NEW set, NEW pos \in Nat, Holding(set, pos, SelectSql[s][i])
  PROVE  LET in == Joined(Fields(s))
             of(n) == SelectSql[in[n].ref][Target(in[n], cur[s][i])]
         IN /\ Holding(set, pos, a[0])
            /\ \A n \in 1..Len(in) :
                 /\ n - 1 \in 0..Len(in) /\ Len(a[n - 1]) \in Nat /\ Len(of(n)) \in Nat
                 /\ Len(a[n]) = Len(a[n - 1]) + Len(of(n))
                 /\ Holding(set, pos + Len(a[n - 1]), of(n))
<1> DEFINE in == Joined(Fields(s))
           N == Len(in)
           of(n) == SelectSql[in[n].ref][Target(in[n], cur[s][i])]
<1>1. N \in Nat /\ \A n \in 1..N : n - 1 \in 0..N /\ n \in 0..N
  BY JoinedAre DEF DataInv
<1>2. \A n \in 1..N : of(n) \in Seq(Val)
  <2> TAKE n \in 1..N
  <2>1. in[n] \in Range(Fields(s)) /\ in[n].type = "struct" /\ ~Optional(Fields(s), in[n])
        /\ in[n].ref \in Structs
    BY JoinedAre DEF DataInv
  <2> HIDE DEF in
  <2>2. Target(in[n], cur[s][i]) \in DOMAIN cur[in[n].ref]
    BY <2>1, KeyIs
  <2> QED BY <2>1, <2>2, SqlTyped
<1>3. /\ a \in [0..N -> Seq(Val)] /\ SelectSql[s][i] = a[N]
      /\ \A n \in 1..N : a[n] = a[n - 1] \o of(n)
  BY DEF Parts
<1> HIDE DEF of, N
<1>4. ASSUME NEW n \in 1..N
      PROVE  /\ Len(a[n - 1]) \in Nat /\ Len(of(n)) \in Nat /\ Len(a[n]) = Len(a[n - 1]) + Len(of(n))
             /\ \A k \in 1..Len(a[n - 1]) : a[n][k] = a[n - 1][k]
             /\ \A k \in 1..Len(of(n)) : a[n][Len(a[n - 1]) + k] = of(n)[k]
  <2>1. a[n - 1] \in Seq(Val) /\ of(n) \in Seq(Val) /\ a[n] = a[n - 1] \o of(n)
    BY <1>1, <1>2, <1>3
  <2> QED BY <2>1, JoinedIs, LenProperties
<1> DEFINE T == { d \in 0..N : Holding(set, pos, a[N - d]) }
<1>5. 0 \in T
  BY <1>1, <1>3
<1>6. ASSUME NEW d \in 1..N, d - 1 \in T PROVE d \in T
  <2>1. PICK n \in 1..N : n = N - (d - 1) /\ n - 1 = N - d
    BY <1>1
  <2>2. Holding(set, pos, a[n])
    BY <1>6, <2>1
  <2>3. Len(a[n - 1]) \in Nat /\ Len(of(n)) \in Nat /\ Len(a[n]) = Len(a[n - 1]) + Len(of(n))
        /\ \A k \in 1..Len(a[n - 1]) : a[n][k] = a[n - 1][k]
    BY <1>4
  <2>4. \A k \in 1..Len(a[n - 1]) : k \in 1..Len(a[n])
    BY <2>3
  <2>5. Holding(set, pos, a[n - 1])
    BY <2>2, <2>3, <2>4 DEF Holding
  <2>6. d \in 0..N
    BY <1>1
  <2> QED BY <2>1, <2>5, <2>6
<1>7. \A d \in 0..N : d \in T
  <2> HIDE DEF T
  <2> QED BY <1>1, <1>5, <1>6, UpTo
<1>8. ASSUME NEW n \in 0..N PROVE Holding(set, pos, a[n])
  <2>1. N - n \in 0..N /\ N - (N - n) = n
    BY <1>1
  <2> QED BY <1>7, <2>1
<1>9. ASSUME NEW n \in 1..N PROVE Holding(set, pos + Len(a[n - 1]), of(n))
  <2> SUFFICES ASSUME NEW k \in 1..Len(of(n))
               PROVE  set[pos + Len(a[n - 1]) + k - 1] = of(n)[k]
    BY DEF Holding
  <2>1. Holding(set, pos, a[n])
    BY <1>1, <1>8
  <2>2. /\ Len(a[n - 1]) \in Nat /\ Len(of(n)) \in Nat /\ Len(a[n]) = Len(a[n - 1]) + Len(of(n))
        /\ a[n][Len(a[n - 1]) + k] = of(n)[k]
    BY <1>4
  <2>3. /\ Len(a[n - 1]) + k \in 1..Len(a[n])
        /\ pos + (Len(a[n - 1]) + k) - 1 = pos + Len(a[n - 1]) + k - 1
    BY <2>2
  <2>4. set[pos + (Len(a[n - 1]) + k) - 1] = a[n][Len(a[n - 1]) + k]
    BY <2>1, <2>3 DEF Holding
  <2> QED BY <2>2, <2>3, <2>4
<1>10. Holding(set, pos, a[0])
  BY <1>1, <1>8
<1> QED BY <1>1, <1>4, <1>9, <1>10 DEF of, N

LEMMA FillStep ==
  ASSUME DataInv, SoundInv, NEW set, NEW s \in Structs, \A t \in Within(s) : FillsIn(set, t)
  PROVE  FillsIn(set, s)
<1> SUFFICES ASSUME NEW i \in DOMAIN cur[s], NEW pos \in Nat, Holding(set, pos, SelectSql[s][i])
             PROVE  Fills(set)[s][pos] = [obj |-> Flat[s][i], pos |-> pos + Len(SelectSql[s][i])]
  BY DEF FillsIn
<1>1. PICK a : Parts(s, i, a)
  <2>1. \A t \in Within(s) : \A j \in DOMAIN cur[t] : SelectSql[t][j] \in Seq(Val)
    <3>1. \A t \in Within(s) : t \in Structs
      BY NestIs DEF DataInv, Within
    <3> QED BY <3>1, SqlTyped
  <2> QED BY <2>1, SqlParts
<1> DEFINE fs == Fields(s)
           in == Joined(fs)
           row == cur[s][i]
           N == Len(in)
           base == FillFirst(s, set, pos)
           of(n) == SelectSql[in[n].ref][Target(in[n], row)]
           nested(st, n) == Fills(set)[in[n].ref][st.pos]
           step(st, n) == [obj |-> [st.obj EXCEPT ![in[n].name] = {nested(st, n).obj}],
                           pos |-> nested(st, n).pos]
           Is(x) == x = [n \in 0..N |-> IF n = 0 THEN base ELSE step(x[n - 1], n)]
           after == CHOOSE x : Is(x)
           flat(f) == Flat[f.ref][Target(f, row)]
           part(n) == [name \in Names(fs) |->
                         LET f == Field(fs, name)
                         IN IF f.type # "struct" THEN row[name]
                            ELSE IF Optional(fs, f) \/ FirstNamed(in, name) > n THEN {} ELSE {flat(f)}]
           E == [n \in 0..N |-> [obj |-> part(n), pos |-> pos + Len(a[n])]]
<1>2. Fills(set)[s][pos] = after[N]
  <2>1. Fills(set)[s] = FillOf(set, Fills(set), s)
    BY FillsAre
  <2>2. FillOf(set, Fills(set), s)[pos] = after[N]
    BY DEF FillOf, Steps
  <2> QED BY <2>1, <2>2
<1>3. /\ Named(fs) /\ Named(in) /\ N \in Nat /\ DOMAIN in = 1..N
      /\ \A n \in 1..N : /\ in[n] \in Range(fs) /\ in[n].type = "struct" /\ ~Optional(fs, in[n])
                         /\ in[n].ref \in Within(s)
      /\ \A f \in Range(fs) : f.type = "struct" /\ ~Optional(fs, f) => \E n \in 1..N : in[n] = f
  BY JoinedAre DEF DataInv
<1>4. /\ a[0] = InOrder(fs, row) /\ SelectSql[s][i] = a[N]
      /\ Holding(set, pos, a[0])
      /\ \A n \in 1..N :
           /\ n - 1 \in 0..N /\ Len(a[n - 1]) \in Nat /\ Len(of(n)) \in Nat
           /\ Len(a[n]) = Len(a[n - 1]) + Len(of(n))
           /\ Holding(set, pos + Len(a[n - 1]), of(n))
  BY <1>1, PartsHeld DEF Parts
<1>5. base = [obj |-> Base(s, i), pos |-> pos + Len(a[0])]
  BY <1>4, FillCIs, FillAtIs DEF FillFirst
<1> HIDE DEF after, base
<1>6. ASSUME NEW n \in 1..N
      PROVE  Fills(set)[in[n].ref][pos + Len(a[n - 1])] = [obj |-> flat(in[n]), pos |-> pos + Len(a[n])]
  <2>1. FillsIn(set, in[n].ref)
    BY <1>3
  <2>2. Target(in[n], row) \in DOMAIN cur[in[n].ref]
    BY <1>3, KeyIs
  <2>3. pos + Len(a[n - 1]) \in Nat /\ Holding(set, pos + Len(a[n - 1]), of(n))
        /\ pos + Len(a[n]) = pos + Len(a[n - 1]) + Len(of(n))
    <3> HIDE DEF of, N
    <3>1. /\ Len(a[n - 1]) \in Nat /\ Len(of(n)) \in Nat /\ Len(a[n]) = Len(a[n - 1]) + Len(of(n))
          /\ Holding(set, pos + Len(a[n - 1]), of(n))
      BY <1>4
    <3> QED BY <3>1
  <2> HIDE DEF in, row
  <2>4. Fills(set)[in[n].ref][pos + Len(a[n - 1])]
          = [obj |-> flat(in[n]), pos |-> pos + Len(a[n - 1]) + Len(of(n))]
    BY <2>1, <2>2, <2>3 DEF FillsIn
  <2> QED BY <2>3, <2>4
<1>7. \A n \in 1..N : FirstNamed(in, in[n].name) = n
  BY <1>3, PlaceOfField
<1>8. ASSUME NEW name \in Names(fs), Field(fs, name).type = "struct", ~Optional(fs, Field(fs, name))
      PROVE  /\ FirstNamed(in, name) \in 1..N /\ Field(fs, name) = in[FirstNamed(in, name)]
             /\ in[FirstNamed(in, name)].name = name
  <2>1. Field(fs, name) \in Range(fs) /\ Field(fs, name).name = name
    BY NameIs DEF DataInv
  <2>2. PICK n \in 1..N : in[n] = Field(fs, name)
    BY <1>3, <1>8, <2>1
  <2>3. FirstNamed(in, name) = n
    BY <1>7, <2>1, <2>2
  <2> QED BY <2>1, <2>2, <2>3
<1>9. ASSUME NEW n \in 1..N PROVE step(E[n - 1], n) = E[n]
  <2>0. n \in 0..N /\ n - 1 \in 0..N /\ n \in Int
    BY <1>3
  <2> DEFINE it == in[n].name
  <2>1. it \in Names(fs) /\ Field(fs, it) = in[n] /\ FirstNamed(in, it) = n
    BY <1>3, <1>7, FieldOf DEF Names
  <2>2. ASSUME NEW name \in Names(fs), name # it,
               Field(fs, name).type = "struct", ~Optional(fs, Field(fs, name))
        PROVE  FirstNamed(in, name) > n <=> FirstNamed(in, name) > n - 1
    <3>1. FirstNamed(in, name) \in 1..N /\ in[FirstNamed(in, name)].name = name
      BY <1>8, <2>2
    <3>2. FirstNamed(in, name) # n
      BY <3>1, <2>2
    <3> QED BY <2>0, <3>1, <3>2
  <2>3. in[n].type = "struct" /\ ~Optional(fs, in[n])
    BY <1>3
  <2>4. ~(n > n) /\ n > n - 1
    BY <2>0
  <2> HIDE DEF it, fs, in, N, row, flat
  <2>5. [part(n - 1) EXCEPT ![it] = {flat(in[n])}] = part(n)
    BY <2>1, <2>2, <2>3, <2>4
  <2> HIDE DEF part
  <2>6. /\ E[n - 1] = [obj |-> part(n - 1), pos |-> pos + Len(a[n - 1])]
        /\ E[n] = [obj |-> part(n), pos |-> pos + Len(a[n])]
    BY <2>0
  <2> HIDE DEF E
  <2>7. nested(E[n - 1], n) = [obj |-> flat(in[n]), pos |-> pos + Len(a[n])]
    BY <1>6, <2>6
  <2> HIDE DEF nested
  <2>8. /\ E[n - 1].obj = part(n - 1) /\ nested(E[n - 1], n).obj = flat(in[n])
        /\ nested(E[n - 1], n).pos = pos + Len(a[n])
    BY <2>6, <2>7
  <2>9. step(E[n - 1], n) = [obj |-> [part(n - 1) EXCEPT ![it] = {flat(in[n])}], pos |-> pos + Len(a[n])]
    BY <2>8 DEF it
  <2> QED BY <2>5, <2>6, <2>9
<1>10. Is(E)
  <2>1. part(0) = Base(s, i)
    <3>1. \A name \in Names(fs) : Field(fs, name).type = "struct" /\ ~Optional(fs, Field(fs, name))
                                    => FirstNamed(in, name) > 0
      BY <1>3, <1>8
    <3> HIDE DEF fs, in
    <3>2. part(0) = [name \in Names(fs) |-> IF Field(fs, name).type = "struct" THEN {} ELSE row[name]]
      BY <3>1
    <3> HIDE DEF part
    <3> QED BY <3>2 DEF Base, fs
  <2> HIDE DEF part, N
  <2>2. E[0] = base
    <3>1. E[0] = [obj |-> part(0), pos |-> pos + Len(a[0])]
      BY <1>3
    <3> HIDE DEF E
    <3> QED BY <1>5, <2>1, <3>1
  <2>3. E = [n \in 0..N |-> E[n]]
    OBVIOUS
  <2>4. ASSUME NEW n \in 0..N, n # 0 PROVE E[n] = step(E[n - 1], n)
    <3>1. n \in 1..N
      BY <1>3, <2>4
    <3> QED BY <1>9, <3>1
  <2> HIDE DEF E, step
  <2> QED BY <2>2, <2>3, <2>4
<1>11. Is(after)
  <2> HIDE DEF Is, E
  <2> QED BY <1>10 DEF after
<1>12. after[N] = E[N]
  <2> DEFINE T == { n \in 0..N : after[n] = E[n] }
  <2> HIDE DEF E, step, N
  <2>1. after[0] = base /\ E[0] = base
    BY <1>3, <1>10, <1>11
  <2>2. ASSUME NEW n \in 1..N PROVE after[n] = step(after[n - 1], n) /\ n \in 0..N
    <3>1. n \in 0..N /\ n # 0
      BY <1>3
    <3> QED BY <3>1, <1>11
  <2> HIDE DEF Is
  <2>3. 0 \in T
    BY <1>3, <2>1
  <2>4. \A n \in 1..N : n - 1 \in T => n \in T
    BY <1>9, <2>2
  <2>5. N \in 0..N
    BY <1>3
  <2> HIDE DEF T
  <2>6. N \in T
    BY <1>3, <2>3, <2>4, <2>5, UpTo
  <2> QED BY <2>6 DEF T
<1>13. part(N) = Flat[s][i]
  <2>1. \A name \in Names(fs) : Field(fs, name).type = "struct" /\ ~Optional(fs, Field(fs, name))
                                  => ~(FirstNamed(in, name) > N) /\ row[Field(fs, name).via] # Null
    <3> TAKE name \in Names(fs)
    <3>1. Field(fs, name) \in Range(fs)
      BY NameIs DEF DataInv
    <3> QED BY <1>3, <1>8, <3>1, KeyIs
  <2>2. Flat[s] = ObjectOf(TRUE, Flat, s)
    BY FlatIs
  <2>3. ObjectOf(TRUE, Flat, s)[i]
          = [name \in Names(fs) |->
               LET f == Field(fs, name)
               IN IF f.type # "struct" THEN row[name]
                  ELSE IF row[f.via] = Null \/ Optional(fs, f) THEN {} ELSE {flat(f)}]
    BY DEF ObjectOf
  <2> HIDE DEF N, fs, row, in, flat
  <2>4. part(N) = ObjectOf(TRUE, Flat, s)[i]
    BY <2>1, <2>3
  <2> QED BY <2>2, <2>4
<1>14. E[N] = [obj |-> part(N), pos |-> pos + Len(a[N])]
  <2> HIDE DEF part, N
  <2> QED BY <1>3
<1> HIDE DEF E, part, N
<1> QED BY <1>2, <1>4, <1>12, <1>13, <1>14

LEMMA FilledIs ==
  ASSUME DataInv, SoundInv, NEW s \in Structs, NEW i \in DOMAIN cur[s]
  PROVE  Filled(s, SelectSql[s][i]) = Flat[s][i]
<1> DEFINE set == SelectSql[s][i]
           T == { t \in Structs : FillsIn(set, t) }
<1>1. ASSUME NEW t \in Structs, Within(t) \subseteq T PROVE t \in T
  <2>1. \A r \in Within(t) : FillsIn(set, r)
    BY <1>1
  <2> HIDE DEF set
  <2>2. FillsIn(set, t)
    BY <2>1, FillStep
  <2> QED BY <2>2
<1>2. \A t \in Structs : t \in T
  <2> HIDE DEF T
  <2> QED BY <1>1, ByNesting DEF DataInv
<1>3. FillsIn(set, s)
  BY <1>2
<1>4. Filled(s, set) = Fills(set)[s][1].obj
  BY DEF Filled, Fills, FillOf, FillFirst
<1>5. set \in Seq(Val)
  BY SqlTyped
<1> HIDE DEF set
<1>6. Holding(set, 1, set)
  <2>1. Len(set) \in Nat
    BY <1>5, LenProperties
  <2>2. \A k \in 1..Len(set) : 1 + k - 1 = k
    BY <2>1
  <2> QED BY <2>2 DEF Holding
<1>7. Fills(set)[s][1] = [obj |-> Flat[s][i], pos |-> 1 + Len(set)]
  BY <1>3, <1>6 DEF FillsIn, set
<1> QED BY <1>4, <1>7 DEF set

(***************************************************************************)
(* References that may be null are looked for in the objects filled in.    *)
(***************************************************************************)
NullOf(h, s) ==
  \E i \in DOMAIN Fields(s) :
    LET f == Fields(s)[i]
    IN f.type = "struct" /\ (Optional(Fields(s), f) \/ h[f.ref])

LEMMA NullOfLocal ==
  ASSUME DataInv, NEW s \in Structs, NEW h1, NEW h2, \A t \in Within(s) : h1[t] = h2[t]
  PROVE  NullOf(h1, s) = NullOf(h2, s)
<1>1. \A i \in DOMAIN Fields(s) : Fields(s)[i].type = "struct" => Fields(s)[i].ref \in Within(s)
  BY DEF Within, Range
<1>2. \A i \in DOMAIN Fields(s) : Fields(s)[i].type = "struct"
        => h1[Fields(s)[i].ref] = h2[Fields(s)[i].ref]
  BY <1>1
<1>3. NullOf(h1, s) <=> NullOf(h2, s)
  BY <1>2, Zenon DEF NullOf
<1>4. NullOf(h1, s) \in BOOLEAN /\ NullOf(h2, s) \in BOOLEAN
  BY DEF NullOf
<1> QED BY <1>3, <1>4

LEMMA NullsExist ==
  ASSUME DataInv
  PROVE  \E h : h = [s \in Structs |-> NullOf(h, s)]
<1>1. PICK rank, n : Ranked(rank, n)
  BY RankExists DEF DataInv
<1> DEFINE Upto(h, k) == /\ h = [s \in Structs |-> h[s]]
                         /\ \A s \in Structs : rank[s] < k => h[s] = NullOf(h, s)
           T == { k \in 0..(n + 1) : \E h : Upto(h, k) }
<1>2. n \in Nat /\ \A s \in Structs : rank[s] \in 0..n
  BY <1>1 DEF Ranked
<1>3. 0 \in T
  <2>1. Upto([s \in Structs |-> 0], 0)
    BY <1>2
  <2>2. 0 \in 0..(n + 1)
    BY <1>2
  <2> HIDE DEF Upto
  <2> QED BY <2>1, <2>2
<1>4. ASSUME NEW k \in 1..(n + 1), k - 1 \in T PROVE k \in T
  <2>1. PICK h : Upto(h, k - 1)
    BY <1>4
  <2> DEFINE w == [s \in Structs |-> NullOf(h, s)]
  <2>2. ASSUME NEW s \in Structs, rank[s] < k PROVE w[s] = NullOf(w, s)
    <3>1. ASSUME NEW t \in Within(s) PROVE w[t] = h[t]
      <4>1. t \in Structs /\ rank[t] < k - 1
        BY <1>1, <1>2, <2>2 DEF Ranked
      <4> QED BY <2>1, <4>1
    <3> HIDE DEF w
    <3>2. NullOf(w, s) = NullOf(h, s)
      BY <3>1, NullOfLocal
    <3> QED BY <3>2 DEF w
  <2>3. w = [s \in Structs |-> w[s]]
    OBVIOUS
  <2> HIDE DEF w
  <2>4. Upto(w, k)
    BY <2>2, <2>3
  <2> HIDE DEF Upto
  <2> QED BY <2>4
<1>5. n + 1 \in T
  <2>1. n + 1 \in 0..(n + 1) /\ n + 1 \in Nat
    BY <1>2
  <2> HIDE DEF T
  <2> QED BY <1>3, <1>4, <2>1, UpTo
<1>6. PICK h : Upto(h, n + 1)
  BY <1>5
<1>7. \A s \in Structs : h[s] = NullOf(h, s)
  BY <1>2, <1>6
<1>8. h = [s \in Structs |-> h[s]]
  BY <1>6
<1> HIDE DEF Upto
<1> QED BY <1>7, <1>8

LEMMA NullsAre ==
  ASSUME DataInv, NEW s \in Structs, ~HasNullRefs[s],
         NEW f \in Range(Fields(s)), f.type = "struct"
  PROVE  ~Optional(Fields(s), f) /\ ~HasNullRefs[f.ref]
<1>1. HasNullRefs = CHOOSE h : h = [t \in Structs |-> NullOf(h, t)]
  BY DEF HasNullRefs, NullOf
<1>2. HasNullRefs = [t \in Structs |-> NullOf(HasNullRefs, t)]
  BY <1>1, NullsExist
<1>3. HasNullRefs[s] = NullOf(HasNullRefs, s)
  BY <1>2
<1>4. ~NullOf(HasNullRefs, s)
  BY <1>3
<1>5. PICK i \in DOMAIN Fields(s) : f = Fields(s)[i]
  BY DEF Range
<1> QED BY <1>4, <1>5 DEF NullOf

(* An object without such references is filled in as a whole.              *)
LEMMA FlatWhole ==
  ASSUME DataInv, SoundInv, NEW s \in Structs, ~HasNullRefs[s], NEW i \in DOMAIN cur[s]
  PROVE  Flat[s][i] = R!Object[s][i]
<1> DEFINE T == { t \in Structs :
                    ~HasNullRefs[t] => \A j \in DOMAIN cur[t] : Flat[t][j] = R!Object[t][j] }
<1>1. ASSUME NEW t \in Structs, Within(t) \subseteq T PROVE t \in T
  <2> SUFFICES ASSUME ~HasNullRefs[t], NEW j \in DOMAIN cur[t] PROVE Flat[t][j] = R!Object[t][j]
    OBVIOUS
  <2> DEFINE fs == Fields(t)
             row == cur[t][j]
  <2>1. ASSUME NEW name \in Names(fs), Field(fs, name).type = "struct"
        PROVE  LET f == Field(fs, name) IN
               /\ row[f.via] # Null /\ ~Optional(fs, f)
               /\ Flat[f.ref][Target(f, row)] = R!Object[f.ref][Target(f, row)]
    <3> DEFINE f == Field(fs, name)
    <3>1. f \in Range(fs) /\ f.ref \in Within(t)
      BY <2>1, NameIs DEF DataInv
    <3>2. ~Optional(fs, f) /\ ~HasNullRefs[f.ref]
      BY <2>1, <3>1, NullsAre
    <3>3. row[f.via] # Null /\ Target(f, row) \in DOMAIN cur[f.ref]
      BY <2>1, <3>1, <3>2, KeyIs
    <3>4. f.ref \in T
      BY <1>1, <3>1
    <3>5. \A k \in DOMAIN cur[f.ref] : Flat[f.ref][k] = R!Object[f.ref][k]
      BY <3>2, <3>4
    <3>6. Flat[f.ref][Target(f, row)] = R!Object[f.ref][Target(f, row)]
      <4> HIDE DEF f, row, T
      <4> QED BY <3>3, <3>5
    <3> HIDE DEF row, T
    <3> QED BY <3>2, <3>3, <3>6
  <2>2. Flat[t] = ObjectOf(TRUE, Flat, t) /\ R!Object[t] = ObjectOf(FALSE, R!Object, t)
    BY FlatIs, ObjectIs
  <2> HIDE DEF T
  <2>3. ObjectOf(TRUE, Flat, t)[j] = ObjectOf(FALSE, R!Object, t)[j]
    BY <2>1 DEF ObjectOf
  <2> QED BY <2>2, <2>3
<1>2. \A t \in Structs : t \in T
  <2> HIDE DEF T
  <2> QED BY <1>1, ByNesting DEF DataInv
<1> QED BY <1>2

The(S) == CHOOSE within \in S : TRUE
Walked(o, path, a) == a = [n \in 0..Len(path) |-> IF n = 0 THEN o ELSE The(a[n - 1][path[n]])]

LEMMA WalkExists ==
  ASSUME NEW o, NEW path \in Seq(STRING) PROVE \E a : Walked(o, path, a)
<1> DEFINE N == Len(path)
           Is(a, m) == a = [n \in 0..m |-> IF n = 0 THEN o ELSE The(a[n - 1][path[n]])]
           T == { m \in 0..N : \E a : Is(a, m) }
<1>1. N \in Nat
  BY LenProperties
<1> HIDE DEF N
<1>2. 0 \in T
  <2>1. Is([n \in 0..0 |-> o], 0)
    OBVIOUS
  <2> HIDE DEF Is
  <2> QED BY <1>1, <2>1
<1>3. ASSUME NEW m \in 1..N, m - 1 \in T PROVE m \in T
  <2>1. PICK a : Is(a, m - 1)
    BY <1>3
  <2> DEFINE w == [n \in 0..m |-> IF n = m THEN The(a[m - 1][path[m]]) ELSE a[n]]
  <2>2. ASSUME NEW n \in 0..m PROVE w[n] = IF n = 0 THEN o ELSE The(w[n - 1][path[n]])
    <3>1. CASE n = 0
      BY <1>1, <2>1, <3>1
    <3>2. CASE n = m
      <4>1. m - 1 \in 0..m /\ m - 1 # m /\ m # 0
        BY <1>1
      <4> QED BY <3>2, <4>1
    <3>3. CASE n # 0 /\ n # m
      <4>1. n \in 0..(m - 1) /\ n - 1 \in 0..m /\ n - 1 # m
        BY <1>1, <3>3
      <4>2. a[n] = The(a[n - 1][path[n]])
        BY <2>1, <3>3, <4>1
      <4> QED BY <3>3, <4>1, <4>2
    <3> QED BY <3>1, <3>2, <3>3
  <2>3. w = [n \in 0..m |-> w[n]]
    OBVIOUS
  <2> HIDE DEF w
  <2>4. Is(w, m)
    BY <2>2, <2>3
  <2>5. m \in 0..N
    BY <1>1
  <2> HIDE DEF Is
  <2> QED BY <2>4, <2>5
<1>4. N \in T
  <2>1. N \in 0..N
    BY <1>1
  <2> HIDE DEF T
  <2> QED BY <1>1, <1>2, <1>3, <2>1, UpTo
<1> QED BY <1>4 DEF Walked, N

LEMMA WalkIs ==
  ASSUME NEW o, NEW path \in Seq(STRING)
  PROVE  \E a : /\ a[0] = o /\ At(o, path) = a[Len(path)]
                /\ \A n \in 1..Len(path) : a[n] = The(a[n - 1][path[n]])
<1> DEFINE a == CHOOSE x : Walked(o, path, x)
<1>1. At(o, path) = a[Len(path)]
  BY DEF At, Steps, Walked, The
<1>2. Walked(o, path, a)
  BY WalkExists
<1> HIDE DEF a
<1>3. Len(path) \in Nat
  BY LenProperties
<1>4. a[0] = o
  BY <1>2, <1>3 DEF Walked
<1>5. ASSUME NEW n \in 1..Len(path) PROVE a[n] = The(a[n - 1][path[n]])
  <2>1. n \in 0..Len(path) /\ n # 0
    BY <1>3
  <2> QED BY <1>2, <2>1 DEF Walked
<1> QED BY <1>1, <1>4, <1>5

LEMMA EmptyPath == <<>> \in Seq(STRING) /\ Len(<<>>) = 0
OBVIOUS

LEMMA AtEmpty ==
  ASSUME NEW o PROVE At(o, <<>>) = o
<1>1. PICK none : none = <<>> /\ none \in Seq(STRING) /\ Len(none) = 0
  BY EmptyPath
<1>2. PICK a : /\ a[0] = o /\ At(o, none) = a[Len(none)]
               /\ \A n \in 1..Len(none) : a[n] = The(a[n - 1][none[n]])
  <2>1. none \in Seq(STRING)
    BY <1>1
  <2> QED BY <2>1, WalkIs
<1> QED BY <1>1, <1>2

LEMMA AtIs ==
  ASSUME NEW o, NEW path \in Seq(STRING), NEW name \in STRING
  PROVE  At(o, Append(path, name)) = The(At(o, path)[name])
<1> DEFINE more == Append(path, name)
           N == Len(path)
<1>2. N \in Nat /\ more \in Seq(STRING) /\ Len(more) = N + 1
  BY AppendProperties, LenProperties
<1>3. more[N + 1] = name /\ \A n \in 1..N : more[n] = path[n]
  <2>1. more[N + 1] = name
    BY AppendProperties
  <2>2. \A n \in 1..N : more[n] = path[n]
    BY AppendProperties
  <2> QED BY <2>1, <2>2
<1>4. PICK a : /\ a[0] = o /\ At(o, path) = a[N]
               /\ \A n \in 1..N : a[n] = The(a[n - 1][path[n]])
  <2> HIDE DEF more
  <2>1. \E a : /\ a[0] = o /\ At(o, path) = a[Len(path)]
               /\ \A n \in 1..Len(path) : a[n] = The(a[n - 1][path[n]])
    BY WalkIs
  <2> QED BY <2>1
<1> HIDE DEF more
<1>5. PICK b : /\ b[0] = o /\ At(o, more) = b[N + 1]
               /\ \A n \in 1..(N + 1) : b[n] = The(b[n - 1][more[n]])
  <2>1. Len(more) = N + 1
    BY <1>2
  <2> HIDE DEF N
  <2>2. \E b : /\ b[0] = o /\ At(o, more) = b[Len(more)]
               /\ \A n \in 1..Len(more) : b[n] = The(b[n - 1][more[n]])
    <3>1. more \in Seq(STRING)
      BY <1>2
    <3> QED BY <3>1, WalkIs
  <2> QED BY <2>1, <2>2
<1> HIDE DEF N
<1> DEFINE T == { n \in 0..N : a[n] = b[n] }
<1>6. 0 \in T
  BY <1>2, <1>4, <1>5
<1>7. ASSUME NEW n \in 1..N, n - 1 \in T PROVE n \in T
  <2>1. n \in 1..(N + 1) /\ n \in 0..N /\ more[n] = path[n]
    BY <1>2, <1>3
  <2> QED BY <1>4, <1>5, <1>7, <2>1
<1>8. N \in T
  <2>1. N \in 0..N
    BY <1>2
  <2> HIDE DEF T
  <2> QED BY <1>2, <1>6, <1>7, <2>1, UpTo
<1>9. b[N + 1] = The(b[N][name])
  <2>1. N + 1 \in 1..(N + 1) /\ (N + 1) - 1 = N
    BY <1>2
  <2>2. b[N + 1] = The(b[(N + 1) - 1][more[N + 1]])
    BY <1>5, <2>1
  <2> QED BY <1>3, <2>1, <2>2
<1> QED BY <1>4, <1>5, <1>8, <1>9 DEF more

RefOf(g, filled, h, s) ==
  [path \in Seq(STRING) |->
    LET o == At(filled, path)
    IN [name \in Names(Fields(s)) |->
          LET f == Field(Fields(s), name)
          IN IF f.type # "struct" THEN o[name]
             ELSE IF Optional(Fields(s), f)
             THEN IF o[f.via] = Null THEN {} ELSE { g[f.ref][Target(f, o)] }
             ELSE IF HasNullRefs[f.ref] THEN { h[f.ref][Append(path, name)] }
             ELSE o[name]]]
Refs(g, filled) == CHOOSE h : h = [s \in Structs |-> RefOf(g, filled, h, s)]

LEMMA RefOfLocal ==
  ASSUME DataInv, NEW g, NEW filled, NEW s \in Structs, NEW h1, NEW h2,
         \A t \in Within(s) : h1[t] = h2[t]
  PROVE  RefOf(g, filled, h1, s) = RefOf(g, filled, h2, s)
<1>1. \A name \in Names(Fields(s)) :
        LET f == Field(Fields(s), name) IN f.type = "struct" => h1[f.ref] = h2[f.ref]
  BY NameIs DEF DataInv
<1>2. \A path \in Seq(STRING) : RefOf(g, filled, h1, s)[path] = RefOf(g, filled, h2, s)[path]
  BY <1>1 DEF RefOf
<1> QED BY <1>2 DEF RefOf

LEMMA RefsExist ==
  ASSUME DataInv, NEW g, NEW filled
  PROVE  \E h : h = [s \in Structs |-> RefOf(g, filled, h, s)]
<1>1. PICK rank, n : Ranked(rank, n)
  BY RankExists DEF DataInv
<1> DEFINE Upto(h, k) == /\ h = [s \in Structs |-> h[s]]
                         /\ \A s \in Structs : rank[s] < k => h[s] = RefOf(g, filled, h, s)
           T == { k \in 0..(n + 1) : \E h : Upto(h, k) }
<1>2. n \in Nat /\ \A s \in Structs : rank[s] \in 0..n
  BY <1>1 DEF Ranked
<1>3. 0 \in T
  <2>1. Upto([s \in Structs |-> 0], 0)
    BY <1>2
  <2>2. 0 \in 0..(n + 1)
    BY <1>2
  <2> HIDE DEF Upto
  <2> QED BY <2>1, <2>2
<1>4. ASSUME NEW k \in 1..(n + 1), k - 1 \in T PROVE k \in T
  <2>1. PICK h : Upto(h, k - 1)
    BY <1>4
  <2> DEFINE w == [s \in Structs |-> RefOf(g, filled, h, s)]
  <2>2. ASSUME NEW s \in Structs, rank[s] < k PROVE w[s] = RefOf(g, filled, w, s)
    <3>1. ASSUME NEW t \in Within(s) PROVE w[t] = h[t]
      <4>1. t \in Structs /\ rank[t] < k - 1
        BY <1>1, <1>2, <2>2 DEF Ranked
      <4> QED BY <2>1, <4>1
    <3> HIDE DEF w
    <3>2. RefOf(g, filled, w, s) = RefOf(g, filled, h, s)
      BY <3>1, RefOfLocal
    <3> QED BY <3>2 DEF w
  <2>3. w = [s \in Structs |-> w[s]]
    OBVIOUS
  <2> HIDE DEF w
  <2>4. Upto(w, k)
    BY <2>2, <2>3
  <2> HIDE DEF Upto
  <2> QED BY <2>4
<1>5. n + 1 \in T
  <2>1. n + 1 \in 0..(n + 1) /\ n + 1 \in Nat
    BY <1>2
  <2> HIDE DEF T
  <2> QED BY <1>3, <1>4, <2>1, UpTo
<1>6. PICK h : Upto(h, n + 1)
  BY <1>5
<1>7. \A s \in Structs : h[s] = RefOf(g, filled, h, s)
  BY <1>2, <1>6
<1>8. h = [s \in Structs |-> h[s]]
  BY <1>6
<1> HIDE DEF Upto
<1> QED BY <1>7, <1>8

LEMMA RefsAre ==
  ASSUME DataInv, NEW g, NEW filled
  PROVE  Refs(g, filled) = [s \in Structs |-> RefOf(g, filled, Refs(g, filled), s)]
<1>1. \E h : h = [s \in Structs |-> RefOf(g, filled, h, s)]
  BY RefsExist
<1> QED BY <1>1 DEF Refs

Follows(g, filled, s) ==
  \A i \in DOMAIN cur[s], path \in Seq(STRING) :
    At(filled, path) = Flat[s][i] => Refs(g, filled)[s][path] = R!Object[s][i]

LEMMA RefStep ==
  ASSUME DataInv, SoundInv, NEW g, NEW filled, NEW s \in Structs,
         \A t \in Within(s) : /\ Follows(g, filled, t)
                              /\ \A j \in DOMAIN cur[t] : g[t][j] = R!Object[t][j]
  PROVE  Follows(g, filled, s)
<1> SUFFICES ASSUME NEW i \in DOMAIN cur[s], NEW path \in Seq(STRING), At(filled, path) = Flat[s][i]
             PROVE  Refs(g, filled)[s][path] = R!Object[s][i]
  BY DEF Follows
<1> DEFINE fs == Fields(s)
           row == cur[s][i]
           o == At(filled, path)
           r == Refs(g, filled)
           ours(name) ==
             LET f == Field(fs, name)
             IN IF f.type # "struct" THEN o[name]
                ELSE IF Optional(fs, f)
                THEN IF o[f.via] = Null THEN {} ELSE { g[f.ref][Target(f, o)] }
                ELSE IF HasNullRefs[f.ref] THEN { r[f.ref][Append(path, name)] }
                ELSE o[name]
           flat(name) ==
             LET f == Field(fs, name)
             IN IF f.type # "struct" THEN row[name]
                ELSE IF row[f.via] = Null \/ Optional(fs, f) THEN {}
                ELSE { Flat[f.ref][Target(f, row)] }
           theirs(name) ==
             LET f == Field(fs, name)
             IN IF f.type # "struct" THEN row[name]
                ELSE IF row[f.via] = Null THEN {} ELSE { R!Object[f.ref][Target(f, row)] }
<1>1. Refs(g, filled)[s][path] = [name \in Names(fs) |-> ours(name)]
  <2>1. Refs(g, filled)[s] = RefOf(g, filled, Refs(g, filled), s)
    BY RefsAre
  <2>2. RefOf(g, filled, Refs(g, filled), s)[path] = [name \in Names(fs) |-> ours(name)]
    BY DEF RefOf
  <2> QED BY <2>1, <2>2
<1>2. o = [name \in Names(fs) |-> flat(name)]
  <2>1. Flat[s] = ObjectOf(TRUE, Flat, s)
    BY FlatIs
  <2>2. ObjectOf(TRUE, Flat, s)[i] = [name \in Names(fs) |-> flat(name)]
    BY DEF ObjectOf
  <2> QED BY <2>1, <2>2
<1>3. R!Object[s][i] = [name \in Names(fs) |-> theirs(name)]
  <2>1. R!Object[s] = ObjectOf(FALSE, R!Object, s)
    BY ObjectIs
  <2>2. ObjectOf(FALSE, R!Object, s)[i] = [name \in Names(fs) |-> theirs(name)]
    BY DEF ObjectOf
  <2> QED BY <2>1, <2>2
<1> HIDE DEF o
<1>4. ASSUME NEW name \in Names(fs) PROVE ours(name) = theirs(name)
  <2> DEFINE f == Field(fs, name)
             t == f.ref
             j == Target(f, row)
  <2>1. f \in Range(fs) /\ f.name = name /\ (f.type = "struct" => t \in Within(s))
    BY NameIs DEF DataInv
  <2>2. o[name] = flat(name)
    BY <1>2
  <2>3. CASE f.type # "struct"
    BY <2>2, <2>3
  <2>4. CASE f.type = "struct"
    <3>1. f.via \in Names(fs) /\ Field(fs, f.via).type # "struct" /\ t \in Structs
          /\ f.name \in STRING
      <4>1. LET h == Field(fs, f.via) IN h \in Range(Columns(fs)) /\ h.name = f.via /\ h.type = "int"
        BY <2>1, <2>4, NestIs DEF DataInv
      <4>2. f \in FieldSet /\ t \in Structs
        BY <2>1, <2>4, NestIs DEF DataInv
      <4>3. Named(fs)
        BY JoinedAre DEF DataInv
      <4>4. Range(Columns(fs)) \subseteq Range(fs)
        BY <4>3, ColumnsAre
      <4> HIDE DEF fs, f
      <4>5. f.via \in Names(fs)
        BY <4>1, <4>4 DEF Names
      <4>6. f.name \in STRING
        BY <4>2 DEF FieldSet
      <4> QED BY <4>1, <4>2, <4>5, <4>6
    <3>2. o[f.via] = row[f.via]
      BY <1>2, <3>1
    <3>3. Target(f, o) = j
      BY <3>2 DEF Target
    <3>4. row[f.via] # Null => j \in DOMAIN cur[t]
      BY <2>1, <2>4, KeyIs
    <3>5. ~Optional(fs, f) => row[f.via] # Null
      BY <2>1, <2>4, KeyIs
    <3>6. row[f.via] # Null => g[t][j] = R!Object[t][j]
      <4> HIDE DEF f, row, j, t
      <4> QED BY <2>1, <2>4, <3>4
    <3>7. CASE Optional(fs, f)
      <4>1. ours(name) = IF o[f.via] = Null THEN {} ELSE { g[t][Target(f, o)] }
        BY <2>4, <3>7
      <4>2. theirs(name) = IF row[f.via] = Null THEN {} ELSE { R!Object[t][j] }
        BY <2>4
      <4> HIDE DEF ours, theirs, f, j, t, row
      <4> QED BY <4>1, <4>2, <3>2, <3>3, <3>6
    <3>8. CASE ~Optional(fs, f) /\ HasNullRefs[t]
      <4>1. ours(name) = { r[t][Append(path, name)] }
        BY <2>4, <3>8
      <4>2. theirs(name) = { R!Object[t][j] }
        BY <2>4, <3>5, <3>8
      <4>3. o[name] = { Flat[t][j] }
        BY <2>2, <2>4, <3>5, <3>8
      <4>4. name \in STRING
        BY <2>1, <3>1
      <4>5. At(filled, Append(path, name)) = The(o[name])
        BY <4>4, AtIs DEF o
      <4>6. The({ Flat[t][j] }) = Flat[t][j]
        BY DEF The
      <4>7. Append(path, name) \in Seq(STRING)
        BY <4>4, AppendProperties
      <4>8. Follows(g, filled, t)
        BY <2>1, <2>4
      <4>9. j \in DOMAIN cur[t]
        BY <3>4, <3>5, <3>8
      <4> HIDE DEF ours, theirs, f, j, t, row
      <4>10. r[t][Append(path, name)] = R!Object[t][j]
        <5>1. At(filled, Append(path, name)) = Flat[t][j]
          BY <4>3, <4>5, <4>6
        <5>2. PICK more \in Seq(STRING) : more = Append(path, name)
          BY <4>7
        <5>3. Refs(g, filled)[t][more] = R!Object[t][j]
          BY <4>8, <4>9, <5>1, <5>2 DEF Follows
        <5> QED BY <5>2, <5>3
      <4> QED BY <4>1, <4>2, <4>10
    <3>9. CASE ~Optional(fs, f) /\ ~HasNullRefs[t]
      <4>1. ours(name) = o[name]
        BY <2>4, <3>9
      <4>2. theirs(name) = { R!Object[t][j] }
        BY <2>4, <3>5, <3>9
      <4>3. o[name] = { Flat[t][j] }
        BY <2>2, <2>4, <3>5, <3>9
      <4>4. t \in Structs /\ j \in DOMAIN cur[t] /\ ~HasNullRefs[t]
        BY <3>1, <3>4, <3>5, <3>9
      <4> HIDE DEF ours, theirs, f, j, t, row
      <4>5. Flat[t][j] = R!Object[t][j]
        BY <4>4, FlatWhole
      <4> QED BY <4>1, <4>2, <4>3, <4>5
    <3> QED BY <3>7, <3>8, <3>9
  <2> QED BY <2>3, <2>4
<1> HIDE DEF ours, theirs
<1> QED BY <1>1, <1>3, <1>4

(***************************************************************************)
(* What is got is the object of Records.                                   *)
(***************************************************************************)
GotOf(g, s) ==
  [i \in DOMAIN cur[s] |->
    LET filled == Filled(s, SelectSql[s][i])
    IN IF HasNullRefs[s] THEN Refs(g, filled)[s][<<>>] ELSE filled]

LEMMA GotStep ==
  ASSUME DataInv, SoundInv, NEW g, NEW rank, NEW n, Ranked(rank, n), NEW s \in Structs,
         \A t \in Structs : rank[t] < rank[s] => \A j \in DOMAIN cur[t] : g[t][j] = R!Object[t][j]
  PROVE  \A i \in DOMAIN cur[s] : GotOf(g, s)[i] = R!Object[s][i]
<1> SUFFICES ASSUME NEW i \in DOMAIN cur[s] PROVE GotOf(g, s)[i] = R!Object[s][i]
  OBVIOUS
<1>1. Filled(s, SelectSql[s][i]) = Flat[s][i]
  BY FilledIs
<1>2. GotOf(g, s)[i] = IF HasNullRefs[s] THEN Refs(g, Flat[s][i])[s][<<>>] ELSE Flat[s][i]
  BY <1>1 DEF GotOf
<1> DEFINE filled == Flat[s][i]
           T == { t \in Structs : rank[t] <= rank[s] => Follows(g, filled, t) }
<1>3. \A t \in Structs : rank[t] \in Int
  BY DEF Ranked
<1>4. ASSUME NEW t \in Structs, Within(t) \subseteq T PROVE t \in T
  <2> SUFFICES ASSUME rank[t] <= rank[s] PROVE Follows(g, filled, t)
    OBVIOUS
  <2>1. ASSUME NEW r \in Within(t)
        PROVE  Follows(g, filled, r) /\ \A j \in DOMAIN cur[r] : g[r][j] = R!Object[r][j]
    <3>1. r \in Structs /\ rank[r] < rank[t]
      BY DEF Ranked
    <3>2. rank[r] < rank[s] /\ rank[r] <= rank[s]
      BY <1>3, <3>1
    <3>3. r \in T
      BY <1>4
    <3> HIDE DEF filled
    <3> QED BY <3>1, <3>2, <3>3
  <2> HIDE DEF filled, T
  <2> QED BY <2>1, RefStep
<1>5. \A t \in Structs : t \in T
  <2> HIDE DEF T
  <2> QED BY <1>4, ByNesting DEF DataInv
<1>6. Follows(g, filled, s)
  BY <1>3, <1>5
<1> HIDE DEF filled
<1>7. PICK none \in Seq(STRING) : none = <<>>
  BY EmptyPath
<1>8. Refs(g, filled)[s][<<>>] = R!Object[s][i]
  <2>1. At(filled, <<>>) = filled
    BY AtEmpty
  <2> QED BY <1>6, <1>7, <2>1 DEF Follows, filled
<1>9. ~HasNullRefs[s] => filled = R!Object[s][i]
  BY FlatWhole DEF filled
<1> QED BY <1>2, <1>8, <1>9 DEF filled

LEMMA GotIs ==
  ASSUME DataInv, SoundInv, NEW s \in Structs, NEW i \in DOMAIN cur[s]
  PROVE  Got[s][i] = R!Object[s][i]
<1>1. PICK rank, n : Ranked(rank, n)
  BY RankExists DEF DataInv
<1>2. n \in Nat /\ \A t \in Structs : rank[t] \in 0..n
  BY <1>1 DEF Ranked
<1>3. Got = CHOOSE g : g = [t \in Structs |-> GotOf(g, t)]
  BY DEF Got, GotOf, Refs, RefOf
<1>4. R!Object = [t \in Structs |-> GotOf(R!Object, t)]
  <2>1. ASSUME NEW t \in Structs PROVE R!Object[t] = GotOf(R!Object, t)
    <3>1. \A j \in DOMAIN cur[t] : GotOf(R!Object, t)[j] = R!Object[t][j]
      BY <1>1, GotStep
    <3>2. R!Object[t] = ObjectOf(FALSE, R!Object, t)
      BY ObjectIs
    <3>3. /\ ObjectOf(FALSE, R!Object, t) = [j \in DOMAIN cur[t] |-> ObjectOf(FALSE, R!Object, t)[j]]
          /\ GotOf(R!Object, t) = [j \in DOMAIN cur[t] |-> GotOf(R!Object, t)[j]]
      BY DEF ObjectOf, GotOf
    <3> QED BY <3>1, <3>2, <3>3
  <2>2. R!Object = [t \in Structs |-> R!Object[t]]
    BY ObjectIs
  <2> QED BY <2>1, <2>2
<1>5. Got = [t \in Structs |-> GotOf(Got, t)]
  BY <1>3, <1>4
<1> DEFINE Good(t) == \A j \in DOMAIN cur[t] : Got[t][j] = R!Object[t][j]
           T == { k \in 0..(n + 1) : \A t \in Structs : rank[t] < k => Good(t) }
<1>6. 0 \in T
  BY <1>2
<1>7. ASSUME NEW k \in 1..(n + 1), k - 1 \in T PROVE k \in T
  <2>1. ASSUME NEW t \in Structs, rank[t] < k PROVE Good(t)
    <3>1. \A r \in Structs : rank[r] < rank[t] => rank[r] < k - 1
      BY <1>2, <2>1
    <3>2. \A r \in Structs : rank[r] < rank[t] => \A j \in DOMAIN cur[r] : Got[r][j] = R!Object[r][j]
      BY <1>7, <3>1
    <3>3. Got[t] = GotOf(Got, t)
      BY <1>5
    <3> QED BY SMTT(30), <1>1, <3>2, <3>3, GotStep
  <2> HIDE DEF Good
  <2> QED BY <1>2, <2>1
<1>8. n + 1 \in T
  <2>1. n + 1 \in 0..(n + 1) /\ n + 1 \in Nat
    BY <1>2
  <2> HIDE DEF T
  <2> QED BY <1>6, <1>7, <2>1, UpTo
<1>9. Good(s)
  <2>1. rank[s] < n + 1
    BY <1>2
  <2> HIDE DEF Good
  <2> QED BY <1>8, <2>1
<1> QED BY <1>9

LEMMA GetIs ==
  ASSUME DataInv, SoundInv, NEW s \in Structs, Get(s) PROVE R!Called
<1>1. PICK v : LET i == RowWith(cur[s], "id", v[1]) IN
                 /\ schema' = schema /\ call' = [fn |-> "get", strct |-> s, v |-> v]
                 /\ result' = [Answer("object") EXCEPT !.object = IF i = 0 THEN {} ELSE {Got[s][i]}]
                 /\ UNCHANGED <<db, cur, open>>
  BY DEF Get, Calls
<1> DEFINE i == RowWith(cur[s], "id", v[1])
<1>2. cur[s] \in Seq(Row(Fields(s)))
  BY DEF DataInv, Typed, Structs, Fields
<1>3. ASSUME i # 0 PROVE Got[s][i] = R!Object[s][i]
  <2>1. i \in DOMAIN cur[s]
    BY <1>2, <1>3, RowIn
  <2> HIDE DEF i
  <2> QED BY <2>1, GotIs
<1>4. R!RowWith(cur[s], "id", v[1]) = i /\ R!Answer("object") = Answer("object")
  BY SameSequences, SameValues
<1>5. /\ schema' = schema /\ call' = [fn |-> "get", strct |-> s, v |-> v]
      /\ result' = [Answer("object") EXCEPT !.object = IF i = 0 THEN {} ELSE {Got[s][i]}]
      /\ UNCHANGED <<db, cur, open>>
  BY <1>1
<1> HIDE DEF i
<1>6. R!Get(s, v)
  BY <1>3, <1>4, <1>5 DEF R!Get
<1>7. call'.fn = "get" /\ call'.strct = s /\ call'.v = v
  BY <1>5
<1> QED BY <1>5, <1>6, <1>7 DEF R!Called

LEMMA RecordsInit ==
  ASSUME Init PROVE R!Init
BY SameValues DEF Init, R!Init

LEMMA RecordsStep ==
  ASSUME DataInv, TransInv, SoundInv, [Next]_vars PROVE [R!Next]_(R!vars)
<1>1. CASE UNCHANGED vars
  BY <1>1 DEF vars, R!vars
<1>2. CASE \E s \in Structs : Insert(s) \/ Get(s)
  BY <1>2, InsertIs, GetIs DEF R!Next
<1>3. CASE \E n \in DOMAIN Schema.uq : Update(n)
  BY <1>3, UpdateIsTheirs DEF R!Next
<1>4. CASE \E n \in DOMAIN Schema.dq : Delete(n)
  BY <1>4, DeleteIsTheirs DEF R!Next
<1>5. CASE (\E m \in {"immediate", "deferred", "exclusive"} : OpenTrans(m)) \/ Commit \/ Rollback
  BY <1>5, TransactionIs DEF R!Next
<1>6. CASE Crash \/ Restart
  BY <1>6, StopIs DEF R!Next
<1>7. CASE Other
  BY <1>7, OtherIs DEF R!Next
<1> QED BY <1>1, <1>2, <1>3, <1>4, <1>5, <1>6, <1>7 DEF Next

(* Whatever the configuration, the output and the arguments, the functions *)
(* generated do what man/ort.5 promises: an argument goes to its own       *)
(* column, exactly the rows that meet the constraints are changed, an      *)
(* object has the objects it refers to within it, a call that fails        *)
(* changes nothing, and a transaction is kept as a whole or not at all.    *)
THEOREM RecordsAreImplemented == Spec => ImplementsRecords
<1> QED BY RecordsInit, RecordsStep, TablesKeepTypes, TransInvHolds, SoundInvHolds,
           PTL DEF Spec, ImplementsRecords, R!Spec
================================================================================
