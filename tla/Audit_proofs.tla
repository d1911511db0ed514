---------------------------- MODULE Audit_proofs ----------------------------
(***************************************************************************)
(* Proofs about Audit, for every configuration and role: what the report   *)
(* says is what the generated program does, and the mark of a structure    *)
(* does not depend on the order in which paths to it are found.            *)
(*                                                                         *)
(* The argument.  The entries are a set of paths that only grows.  Each of *)
(* them leads, field after field, from what a query returns to the         *)
(* structure of the entry, and is exported if nothing on it is hidden      *)
(* (Sound).  Each field of type struct of a structure that was reached has *)
(* been followed, or is among those that some call of follow() has still   *)
(* to visit (Closed), and each query of a structure passed has been, or is *)
(* among those still to be visited (Passes).  When nothing is left, a path *)
(* that is printed has therefore been followed, field by field.            *)
(***************************************************************************)
EXTENDS Audit, RoleTree_proofs, SequenceTheorems, FiniteSetTheorems,
        WellFoundedInduction

(***************************************************************************)
(* Sequences.                                                              *)
(***************************************************************************)
(* What holds of 0 and of k + 1 if it does of k.  The steps are a set, as  *)
(* what is proved for every set needs no operator parameter.               *)
LEMMA Counting ==
  ASSUME NEW n \in Nat, NEW T, 0 \in T, \A k \in 0..n : k \in T /\ k < n => k + 1 \in T
  PROVE  0..n \subseteq T
<1> DEFINE Part(k) == (0..k) \ T
           Parts == { Part(k) : k \in 0..n } \ {{}}
<1> SUFFICES ASSUME NEW m \in 0..n, m \notin T PROVE FALSE
  OBVIOUS
<1>1. Parts \subseteq SUBSET (0..n) /\ Part(m) \in Parts
  OBVIOUS
<1>2. IsWellFoundedOn(StrictSubsetOrdering(0..n), SUBSET (0..n))
  <2>1. IsFiniteSet(0..n)
    BY FS_Interval
  <2>2. FiniteSubsetsOf(0..n) = SUBSET (0..n)
    BY <2>1, FS_FiniteSubsetsOfFinite
  <2> QED BY <2>2, FS_StrictSubsetOrderingWellFounded, Zenon
<1>3. PICK X \in Parts : \A Y \in Parts : ~ (<<Y, X>> \in StrictSubsetOrdering(0..n))
  <2> HIDE DEF Parts
  <2> QED BY <1>1, <1>2, WFMin
<1>4. PICK k \in 0..n : X = Part(k)
  OBVIOUS
<1>5. PICK x \in X : TRUE
  OBVIOUS
<1>6. x \in 0..k /\ x \notin T /\ x # 0 /\ x \in 1..n
  BY <1>4, <1>5
<1>7. x - 1 \in 0..n /\ x - 1 \notin T
  BY <1>6
<1>8. Part(x - 1) \in Parts /\ Part(x - 1) \subseteq X /\ x \notin Part(x - 1)
  BY <1>4, <1>6, <1>7
<1> QED BY <1>1, <1>3, <1>5, <1>8 DEF StrictSubsetOrdering

LEMMA RangeAppended ==
  ASSUME NEW p, p \in Seq(Range(p)), NEW x
  PROVE  /\ Append(p, x) \in Seq(Range(Append(p, x)))
         /\ Range(Append(p, x)) = Range(p) \cup {x}
<1> DEFINE S == Range(p) \cup {x}
<1>1. p \in Seq(S) /\ x \in S
  BY SeqDef
<1>2. /\ Append(p, x) \in Seq(S) /\ Len(Append(p, x)) = Len(p) + 1
      /\ \A i \in 1..Len(p) : Append(p, x)[i] = p[i]
      /\ Append(p, x)[Len(p) + 1] = x
  BY <1>1, AppendProperties
<1>3. DOMAIN p = 1..Len(p) /\ Len(p) \in Nat /\ DOMAIN Append(p, x) = 1..(Len(p) + 1)
  BY <1>1, <1>2, LenProperties
<1>4. Range(Append(p, x)) = S
  BY <1>2, <1>3 DEF Range
<1> QED BY <1>2, <1>4

LEMMA RangeOfTail ==
  ASSUME NEW p, p \in Seq(Range(p)), p # <<>>
  PROVE  /\ Tail(p) \in Seq(Range(Tail(p)))
         /\ Range(p) = {Head(p)} \cup Range(Tail(p))
<1> DEFINE S == Range(p)
<1>1. /\ Tail(p) \in Seq(S) /\ Len(Tail(p)) = Len(p) - 1
      /\ \A i \in 1..Len(Tail(p)) : Tail(p)[i] = p[i + 1]
  BY HeadTailProperties
<1>2. DOMAIN p = 1..Len(p) /\ Len(p) \in Nat \ {0} /\ DOMAIN Tail(p) = 1..(Len(p) - 1)
  BY <1>1, LenProperties, EmptySeq
<1>3. Head(p) = p[1]
  OBVIOUS
<1>4. Range(p) = {Head(p)} \cup Range(Tail(p))
  <2>1. ASSUME NEW i \in 1..Len(p), i # 1
        PROVE  p[i] \in Range(Tail(p))
    <3>1. i - 1 \in 1..(Len(p) - 1) /\ p[i] = Tail(p)[i - 1]
      BY <1>1, <1>2, <2>1
    <3> QED BY <1>2, <3>1 DEF Range
  <2>2. ASSUME NEW i \in 1..(Len(p) - 1)
        PROVE  Tail(p)[i] \in Range(p)
    <3>1. i + 1 \in 1..Len(p) /\ Tail(p)[i] = p[i + 1]
      BY <1>1, <1>2
    <3> QED BY <1>2, <3>1 DEF Range
  <2>3. Head(p) \in Range(p)
    BY <1>2, <1>3 DEF Range
  <2> QED BY <1>2, <1>3, <2>1, <2>2, <2>3 DEF Range
<1>5. Tail(p) \in Seq(Range(Tail(p)))
  BY <1>1, SeqOfRange
<1> QED BY <1>4, <1>5

LEMMA RangeOfPushed ==
  ASSUME NEW p, p \in Seq(Range(p)), NEW x
  PROVE  /\ <<x>> \o p \in Seq(Range(<<x>> \o p))
         /\ Range(<<x>> \o p) = {x} \cup Range(p)
<1> DEFINE S == {x} \cup Range(p)
           one == <<x>>
<1>1. one \in Seq(S) /\ p \in Seq(S) /\ Range(one) = {x}
  BY SeqDef DEF Range
<1>2. one \o p \in Seq(S) /\ Range(one \o p) = Range(one) \cup Range(p)
  <2> HIDE DEF S, one
  <2> QED BY <1>1, ConcatProperties, RangeConcatenation
<1>3. Range(one \o p) = S
  BY <1>1, <1>2
<1> QED BY <1>2, <1>3

(***************************************************************************)
(* Entries: what a call of follow() adds to them.                          *)
(***************************************************************************)
PathOf(c) == [search |-> c.search, path |-> c.path, exported |-> c.exported]

(* The queries and paths that are known to lead to a structure.            *)
Recorded(s) == IF s \in DOMAIN reached THEN Range(reached[s].paths) ELSE {}

EntryOK(s, e) ==
  /\ e.paths \in Seq(Range(e.paths))
  /\ e.exported <=> \E r \in Range(e.paths) : r.exported
  /\ e.fields = { f \in Range(FieldsOf[s]) : FieldExported(f) }
  /\ e = [exported |-> e.exported, paths |-> e.paths, fields |-> e.fields]
Entries == \A s \in DOMAIN reached : EntryOK(s, reached[s])

(* A further path is added with its mark.                                  *)
LEMMA EntryMarked ==
  ASSUME NEW c, c.struct \in DOMAIN reached => EntryOK(c.struct, reached[c.struct])
  PROVE  /\ EntryOK(c.struct, Entry(c))
         /\ Range(Entry(c).paths) = Recorded(c.struct) \cup {PathOf(c)}
<1> DEFINE path == PathOf(c)
           old == reached[c.struct]
           shown == { f \in Range(FieldsOf[c.struct]) : FieldExported(f) }
<1>1. \A e, x, y, z : e = [exported |-> x, paths |-> y, fields |-> z]
                      => e.exported = x /\ e.paths = y /\ e.fields = z
  OBVIOUS
<1>2. path.exported = c.exported
  BY DEF PathOf
<1>3. CASE c.struct \in DOMAIN reached
  <2> DEFINE marked == old.exported \/ c.exported
             paths == Append(old.paths, path)
  <2>1. old = [exported |-> old.exported, paths |-> old.paths, fields |-> old.fields]
        /\ old.fields = shown
    BY <1>3 DEF EntryOK
  <2>2. Entry(c) = [exported |-> marked, paths |-> paths, fields |-> shown]
    BY <1>3, <2>1 DEF Entry, PathOf
  <2>3. Entry(c).exported = marked /\ Entry(c).paths = paths /\ Entry(c).fields = shown
    <3> HIDE DEF marked, paths, shown
    <3> QED BY <1>1, <2>2
  <2>4. paths \in Seq(Range(paths)) /\ Range(paths) = Range(old.paths) \cup {path}
    BY <1>3, RangeAppended DEF EntryOK
  <2>5. marked <=> \E r \in Range(paths) : r.exported
    <3>1. ASSUME NEW A, NEW x
          PROVE  (\E r \in A \cup {x} : r.exported) <=> (\E r \in A : r.exported) \/ x.exported
      BY Zenon
    <3>2. (\E r \in Range(old.paths) \cup {path} : r.exported)
          <=> (\E r \in Range(old.paths) : r.exported) \/ path.exported
      <4> HIDE DEF path, old
      <4> QED BY <3>1
    <3>3. old.exported <=> \E r \in Range(old.paths) : r.exported
      BY <1>3 DEF EntryOK
    <3> QED BY <1>2, <2>4, <3>2, <3>3, Zenon
  <2>6. EntryOK(c.struct, Entry(c))
    <3> HIDE DEF marked, paths, shown
    <3>1. EntryOK(c.struct, [exported |-> marked, paths |-> paths, fields |-> shown])
      BY <2>2, <2>3, <2>4, <2>5 DEF EntryOK, shown
    <3> QED BY <2>2, <3>1
  <2>7. Range(Entry(c).paths) = Recorded(c.struct) \cup {PathOf(c)}
    BY <1>3, <2>3, <2>4 DEF Recorded
  <2> QED BY <2>6, <2>7
<1>4. CASE c.struct \notin DOMAIN reached
  <2>1. Entry(c) = [exported |-> c.exported, paths |-> <<path>>, fields |-> shown]
    BY <1>4 DEF Entry, PathOf
  <2>2. Range(<<path>>) = {path} /\ <<path>> \in Seq({path})
    BY DEF Range
  <2>3. Entry(c).exported = c.exported /\ Entry(c).paths = <<path>> /\ Entry(c).fields = shown
    BY <1>1, <2>1
  <2>4. c.exported <=> \E r \in {path} : r.exported
    BY <1>2
  <2>5. EntryOK(c.struct, Entry(c))
    BY <2>1, <2>2, <2>3, <2>4 DEF EntryOK
  <2> QED BY <1>4, <2>2, <2>3, <2>5 DEF Recorded
<1> QED BY <1>3, <1>4

LEMMA Entered ==
  ASSUME NEW c, Entries, Enter(c), UNCHANGED config
  PROVE  /\ Entries' /\ DOMAIN reached' = DOMAIN reached \cup {c.struct}
         /\ \A s : Recorded(s)' = Recorded(s) \cup (IF s = c.struct THEN {PathOf(c)} ELSE {})
<1>1. reached' = [s \in DOMAIN reached \cup {c.struct} |->
                    IF s = c.struct THEN Entry(c) ELSE reached[s]]
  BY DEF Enter
<1>2. /\ EntryOK(c.struct, Entry(c))
      /\ Range(Entry(c).paths) = Recorded(c.struct) \cup {PathOf(c)}
  BY EntryMarked DEF Entries
<1>3. \A s, e : EntryOK(s, e)' <=> EntryOK(s, e)
  BY DEF EntryOK, FieldExported, config
<1>4. \A s \in DOMAIN reached' : EntryOK(s, reached'[s])
  BY <1>1, <1>2 DEF Entries
<1>5. Entries'
  BY <1>3, <1>4 DEF Entries, EntryOK, FieldExported
<1>6. \A s : Recorded(s)' = Recorded(s) \cup (IF s = c.struct THEN {PathOf(c)} ELSE {})
  BY <1>1, <1>2 DEF Recorded
<1> QED BY <1>1, <1>5, <1>6

LEMMA NotEntered ==
  ASSUME Entries, UNCHANGED <<reached, config>>
  PROVE  Entries' /\ \A s : Recorded(s)' = Recorded(s)
BY DEF Entries, EntryOK, FieldExported, Recorded, config

(***************************************************************************)
(* Paths: what is known of one that was followed.                          *)
(***************************************************************************)
Rank == CHOOSE rank \in [Range(Structs) -> 1..Len(Structs)] : Descends(rank)

LEMMA RankDescends == Rank \in [Range(Structs) -> 1..Len(Structs)] /\ Descends(Rank)
BY LinkedAssumption DEF Rank

(* The structure at the end of a path from the rows of a query.            *)
End(q, p) == IF p = <<>> THEN Returns[q] ELSE Embedded[p[Len(p)]]

Visible(o, p) ==
  ~RolemapHas(noexport[o], role) /\ \A i \in 1..Len(p) : FieldExported(p[i])

PathOK(s, x) ==
  /\ s \in Range(Structs) /\ s = End(x.search, x.path)
  /\ x.path \in Seq(Fields) /\ Leads(Returns[x.search], x.path)
  /\ \A i \in 1..Len(x.path) : x.path[i] \in DOMAIN Embedded
  /\ Len(x.path) + Rank[s] <= Len(Structs)
  /\ \E o \in Range(Structs) : x.search \in SearchesOf(o) /\ (x.exported <=> Visible(o, x.path))

LEMMA LenStructs == Len(Structs) \in Nat /\ Rank \in [Range(Structs) -> 1..Len(Structs)]
BY StructsAssumption, RankDescends, LenProperties

LEMMA PathRecorded ==
  ASSUME NEW s, NEW c
  PROVE  PathOK(s, PathOf(c)) <=> PathOK(s, c)
BY DEF PathOK, PathOf

LEMMA FirstOK ==
  ASSUME NEW o \in Range(Structs), NEW q \in SearchesOf(o),
         exported <=> ~RolemapHas(noexport[o], role)
  PROVE  PathOK(Returns[q], First(q))
<1> DEFINE x == First(q)
<1>1. x.search = q /\ x.path = <<>> /\ x.exported = exported
  BY DEF First
<1>2. Returns[q] \in Range(Structs)
  BY SearchesAssumption
<1>3. Rank[Returns[q]] <= Len(Structs)
  BY <1>2, LenStructs
<1>4. <<>> \in Seq(Fields) /\ Len(<<>>) = 0
  BY EmptySeq
<1>5. x.exported <=> Visible(o, <<>>)
  BY <1>1, <1>4 DEF Visible
<1>6. Leads(Returns[q], <<>>)
  BY <1>4 DEF Leads
<1>7. PathOK(Returns[q], x)
  <2>1. Len(x.path) + Rank[Returns[q]] <= Len(Structs)
    BY <1>1, <1>2, <1>3, <1>4, LenStructs
  <2> HIDE DEF x
  <2> QED BY <1>1, <1>2, <1>4, <1>5, <1>6, <2>1 DEF PathOK, End
<1> QED BY <1>7

(* One more field of the structure at the end of a path.                   *)
LEMMA LeadsOn ==
  ASSUME NEW s, NEW x, PathOK(s, x), NEW f \in Range(FieldsOf[s])
  PROVE  /\ Len(x.path) \in Nat /\ f \in Fields /\ Append(x.path, f) # <<>>
         /\ Append(x.path, f) \in Seq(Fields) /\ Len(Append(x.path, f)) = Len(x.path) + 1
         /\ \A i \in 1..Len(x.path) : Append(x.path, f)[i] = x.path[i]
         /\ Append(x.path, f)[Len(x.path) + 1] = f
         /\ Leads(Returns[x.search], Append(x.path, f))
<1> DEFINE p == x.path
           n == Len(p)
           longer == Append(p, f)
<1>1. s \in Range(Structs) /\ p \in Seq(Fields) /\ n \in Nat
  BY LenProperties DEF PathOK
<1>2. f \in Fields
  BY <1>1 DEF Fields
<1>3. /\ longer \in Seq(Fields) /\ Len(longer) = n + 1 /\ longer # <<>>
      /\ \A i \in 1..n : longer[i] = p[i]
      /\ longer[n + 1] = f
  BY <1>1, <1>2, AppendProperties
<1>4. Leads(Returns[x.search], longer)
  <2>1. SUFFICES ASSUME NEW i \in 1..(n + 1)
                 PROVE  IF i = 1 THEN longer[1] \in Range(FieldsOf[Returns[x.search]])
                        ELSE longer[i - 1] \in DOMAIN Embedded
                             /\ longer[i] \in Range(FieldsOf[Embedded[longer[i - 1]]])
    BY <1>3 DEF Leads
  <2>2. CASE i <= n
    <3>1. i \in 1..n /\ longer[i] = p[i]
      BY <1>1, <1>3, <2>2
    <3>2. i # 1 => i - 1 \in 1..n /\ longer[i - 1] = p[i - 1]
      BY <1>1, <1>3, <2>2
    <3>3. IF i = 1 THEN p[1] \in Range(FieldsOf[Returns[x.search]])
          ELSE p[i - 1] \in DOMAIN Embedded /\ p[i] \in Range(FieldsOf[Embedded[p[i - 1]]])
      BY <3>1 DEF PathOK, Leads
    <3> QED BY <3>1, <3>2, <3>3
  <2>3. CASE i = n + 1 /\ n = 0
    <3>1. p = <<>>
      BY <1>1, <2>3, EmptySeq
    <3>2. s = Returns[x.search]
      BY <3>1 DEF PathOK, End
    <3> QED BY <1>3, <2>3, <3>2
  <2>4. CASE i = n + 1 /\ n # 0
    <3>1. p # <<>> /\ n \in 1..n /\ longer[n] = p[n] /\ i # 1 /\ i - 1 = n
      BY <1>1, <1>3, <2>4, EmptySeq
    <3>2. s = Embedded[p[n]] /\ p[n] \in DOMAIN Embedded
      BY <3>1 DEF PathOK, End
    <3> QED BY <1>3, <2>4, <3>1, <3>2
  <2> QED BY <1>1, <2>2, <2>3, <2>4
<1> QED BY <1>1, <1>2, <1>3, <1>4

LEMMA CallOK ==
  ASSUME NEW c, PathOK(c.struct, c), NEW f \in Range(FieldsOf[c.struct]), f \in DOMAIN Embedded
  PROVE  PathOK(Embedded[f], Call(c, f))
<1> DEFINE x == Call(c, f)
           p == c.path
           n == Len(p)
           s == c.struct
           longer == Append(p, f)
<1>1. x.search = c.search /\ x.path = longer /\ x.exported = (c.exported /\ FieldExported(f))
  <2>1. \A a, b, d, e, g, y :
          y = [search |-> a, struct |-> b, path |-> d, exported |-> e, rest |-> g]
          => y.search = a /\ y.path = d /\ y.exported = e
    OBVIOUS
  <2> DEFINE e == c.exported /\ FieldExported(f)
  <2>2. x = [search |-> c.search, struct |-> Embedded[f], path |-> longer, exported |-> e,
             rest |-> FieldsOf[Embedded[f]]]
    BY DEF Call
  <2>3. x.search = c.search /\ x.path = longer /\ x.exported = e
    <3> HIDE DEF x, longer, e
    <3> QED BY <2>1, <2>2
  <2> QED BY <2>3
<1>2. s \in Range(Structs) /\ p \in Seq(Fields) /\ n \in Nat
  BY LenProperties DEF PathOK
<1>3. f \in Fields /\ Embedded[f] \in Range(Structs)
  BY <1>2, EmbeddedAssumption DEF Fields
<1>4. /\ longer \in Seq(Fields) /\ Len(longer) = n + 1 /\ longer # <<>>
      /\ \A i \in 1..n : longer[i] = p[i]
      /\ longer[n + 1] = f
      /\ Leads(Returns[c.search], longer)
  BY LeadsOn
<1>5. \A i \in 1..Len(longer) : longer[i] \in DOMAIN Embedded
  <2>1. ASSUME NEW i \in 1..(n + 1) PROVE longer[i] \in DOMAIN Embedded
    <3>1. CASE i \in 1..n
      BY <1>4, <3>1 DEF PathOK
    <3>2. CASE i = n + 1
      BY <1>4, <3>2
    <3> QED BY <1>2, <3>1, <3>2
  <2> QED BY <1>4, <2>1
<1>6. Len(longer) + Rank[Embedded[f]] <= Len(Structs)
  <2>1. Rank[Embedded[f]] < Rank[s]
    BY <1>2, RankDescends DEF Descends
  <2>2. n + Rank[s] <= Len(Structs)
    BY DEF PathOK
  <2>3. Rank[s] \in Int /\ Rank[Embedded[f]] \in Int /\ Len(Structs) \in Int
    BY <1>2, <1>3, LenStructs
  <2> HIDE DEF longer, n, s
  <2> QED BY <1>2, <1>4, <2>1, <2>2, <2>3
<1>7. PICK o \in Range(Structs) : c.search \in SearchesOf(o) /\ (c.exported <=> Visible(o, p))
  BY DEF PathOK
<1>8. x.exported <=> Visible(o, longer)
  <2>1. (\A i \in 1..(n + 1) : FieldExported(longer[i]))
        <=> (\A i \in 1..n : FieldExported(p[i])) /\ FieldExported(f)
    <3>1. \A i : i \in 1..(n + 1) <=> i \in 1..n \/ i = n + 1
      BY <1>2
    <3> HIDE DEF longer, n, p
    <3> QED BY <1>4, <3>1, Zenon
  <2> QED BY <1>1, <1>4, <1>7, <2>1 DEF Visible
<1>9. Embedded[f] = End(c.search, longer)
  BY <1>4 DEF End
<1>10. PathOK(Embedded[f], x)
  <2> HIDE DEF x, longer, s, n, p
  <2> QED BY <1>1, <1>3, <1>4, <1>5, <1>6, <1>7, <1>8, <1>9 DEF PathOK
<1> QED BY <1>10

(***************************************************************************)
(* The invariant.                                                          *)
(***************************************************************************)
Configured ==
  /\ rolemap \in [Operations -> SUBSET Assignable] /\ role \in Roles
  /\ noexport \in [Range(Structs) \cup Fields -> SUBSET Assignable]

Known(q, s, p) == \E r \in Recorded(s) : r.search = q /\ r.path = p

Passes ==
  /\ turn \in 1..(Len(Structs) + 1) /\ todo \in Seq(Range(todo))
  /\ todo # <<>> =>
       /\ turn > 1 /\ Range(todo) \subseteq SearchesOf(Structs[turn - 1])
       /\ exported <=> ~RolemapHas(noexport[Structs[turn - 1]], role)
  /\ operations \subseteq { op \in Operations : Granted(op) }
  /\ \A i \in 1..(turn - 1) :
       /\ { op \in Writes[Structs[i]] : Granted(op) } \subseteq operations
       /\ \A q \in SearchesOf(Structs[i]) :
            Granted(q) => \/ q \in Range(todo)
                          \/ q \in operations /\ Known(q, Returns[q], <<>>)

FrameOK(c) ==
  /\ PathOK(c.struct, c)
  /\ c.rest \in Seq(Range(c.rest)) /\ Range(c.rest) \subseteq Range(FieldsOf[c.struct])

Sound ==
  /\ DOMAIN reached \subseteq Range(Structs)
  /\ \A s \in Range(Structs) : \A r \in Recorded(s) : PathOK(s, r)
  /\ calls \in Seq(Range(calls)) /\ \A c \in Range(calls) : FrameOK(c)

Pending(q, s, p, f) ==
  \E c \in Range(calls) : c.search = q /\ c.struct = s /\ c.path = p /\ f \in Range(c.rest)

Closed ==
  \A s \in Range(Structs) : \A r \in Recorded(s) :
    \A f \in Range(FieldsOf[s]) \cap DOMAIN Embedded :
      \/ Known(r.search, Embedded[f], Append(r.path, f))
      \/ Pending(r.search, s, r.path, f)

IInv == Configured /\ Entries /\ Passes /\ Sound /\ Closed

(***************************************************************************)
(* Each action preserves it.                                               *)
(***************************************************************************)
LEMMA ConfigKept ==
  ASSUME UNCHANGED config
  PROVE  /\ Configured => Configured'
         /\ \A s, x : PathOK(s, x)' <=> PathOK(s, x)
         /\ \A q : Granted(q)' <=> Granted(q)
<1>1. rolemap' = rolemap /\ noexport' = noexport /\ flagged' = flagged /\ role' = role
  BY DEF config
<1>2. \A f : FieldExported(f)' <=> FieldExported(f)
  BY <1>1 DEF FieldExported
<1>3. \A o, p : Visible(o, p)' <=> Visible(o, p)
  BY <1>1, <1>2 DEF Visible
<1> QED BY <1>1, <1>3 DEF Configured, PathOK, Granted

(* A structure of the sequence has fields and queries in sequences.        *)
LEMMA StructsTyped ==
  /\ Len(Structs) \in Nat
  /\ \A i \in 1..Len(Structs) : Structs[i] \in Range(Structs)
  /\ \A s \in Range(Structs) : \E i \in 1..Len(Structs) : s = Structs[i]
<1>1. DOMAIN Structs = 1..Len(Structs) /\ Len(Structs) \in Nat
  BY StructsAssumption, LenProperties
<1> QED BY <1>1 DEF Range

LEMMA InitIInv == Init => IInv
<1> SUFFICES ASSUME Init PROVE IInv
  OBVIOUS
<1>1. Configured
  <2>1. noexport \in [Range(Structs) \cup Fields -> SUBSET Assignable]
    BY RolesAssumption DEF Init
  <2>2. rolemap \in [Operations -> SUBSET Assignable] /\ role \in Roles
    BY RolesAssumption DEF Init
  <2> QED BY <2>1, <2>2 DEF Configured
<1>2. Entries /\ \A s : Recorded(s) = {}
  BY DEF Init, Entries, Recorded
<1>3. Range(<<>>) = {} /\ <<>> \in Seq({})
  BY DEF Range
<1>4. Passes
  BY <1>3, StructsTyped DEF Init, Passes
<1>5. Sound /\ Closed
  BY <1>2, <1>3 DEF Init, Sound, Closed
<1> QED BY <1>1, <1>2, <1>4, <1>5 DEF IInv

LEMMA AuditStructStep ==
  ASSUME IInv, AuditStruct PROVE IInv'
<1> DEFINE s == Structs[turn]
<1>1. /\ calls = <<>> /\ todo = <<>> /\ turn <= Len(Structs) /\ turn \in 1..Len(Structs)
      /\ exported' = ~RolemapHas(noexport[s], role)
      /\ operations' = operations \cup { op \in Writes[s] : Granted(op) }
      /\ todo' = Searches[s] /\ turn' = turn + 1
      /\ UNCHANGED <<config, calls, reached>>
  BY StructsTyped DEF AuditStruct, IInv, Passes
<1>2. /\ Configured' /\ \A t, x : PathOK(t, x)' <=> PathOK(t, x)
      /\ \A q : Granted(q)' <=> Granted(q)
  BY <1>1, ConfigKept DEF IInv
<1>3. Entries' /\ \A t : Recorded(t)' = Recorded(t)
  BY <1>1, NotEntered DEF IInv
<1>4. \A q, t, p : Known(q, t, p)' <=> Known(q, t, p)
  BY <1>3 DEF Known
<1>5. Sound' /\ Closed'
  <2>1. \A q, t, p, f : Pending(q, t, p, f)' <=> Pending(q, t, p, f)
    BY <1>1 DEF Pending
  <2>2. \A c : FrameOK(c)' <=> FrameOK(c)
    BY <1>2 DEF FrameOK
  <2>3. Sound'
    BY <1>1, <1>2, <1>3, <2>2 DEF IInv, Sound
  <2>4. Closed'
    BY <1>3, <1>4, <2>1 DEF IInv, Closed
  <2> QED BY <2>3, <2>4
<1>6. Passes'
  <2>1. s \in Range(Structs) /\ Searches[s] \in Seq(SearchesOf(s))
    BY <1>1, StructsTyped, StructsAssumption
  <2>2. todo' \in Seq(Range(todo')) /\ Range(todo') = SearchesOf(s)
    BY <1>1, <2>1 DEF SearchesOf
  <2>3. turn' \in 1..(Len(Structs) + 1) /\ turn' > 1 /\ turn' - 1 = turn
    BY <1>1, StructsTyped
  <2>4. operations' \subseteq { op \in Operations : Granted(op)' }
    BY <1>1, <1>2, <2>1 DEF IInv, Passes, Operations
  <2>5. noexport' = noexport /\ role' = role
    BY <1>1 DEF config
  <2>6. ASSUME NEW i \in 1..turn
        PROVE  /\ { op \in Writes[Structs[i]] : Granted(op)' } \subseteq operations'
               /\ \A q \in SearchesOf(Structs[i]) :
                    Granted(q)' => \/ q \in Range(todo')
                                   \/ q \in operations' /\ Known(q, Returns[q], <<>>)'
    <3>1. CASE i = turn
      BY <1>1, <1>2, <2>2, <3>1
    <3>2. CASE i # turn
      <4>1. i \in 1..(turn - 1)
        BY <1>1, <3>2
      <4>2. Range(todo) = {}
        BY <1>1 DEF Range
      <4> QED BY <1>1, <1>2, <1>4, <4>1, <4>2 DEF IInv, Passes
    <3> QED BY <3>1, <3>2
  <2>7. exported' <=> ~RolemapHas(noexport'[Structs[turn' - 1]], role')
    BY <1>1, <2>3, <2>5
  <2>8. Range(todo') \subseteq SearchesOf(Structs[turn' - 1])
    BY <2>2, <2>3
  <2>9. 1..(turn' - 1) = 1..turn
    BY <2>3
  <2> QED BY <2>2, <2>3, <2>4, <2>6, <2>7, <2>8, <2>9 DEF Passes
<1> QED BY <1>2, <1>3, <1>5, <1>6 DEF IInv

LEMMA PassesKept ==
  ASSUME Passes, UNCHANGED <<config, turn, exported, todo, operations>>,
         \A q, s, p : Known(q, s, p) => Known(q, s, p)'
  PROVE  Passes'
<1>1. \A q : Granted(q)' <=> Granted(q)
  BY ConfigKept
<1>2. noexport' = noexport /\ role' = role
  BY DEF config
<1> QED BY <1>1, <1>2 DEF Passes

(* What is known only grows with a call.                                   *)
LEMMA Grows ==
  ASSUME NEW c, \A s : Recorded(s)' = Recorded(s) \cup (IF s = c.struct THEN {PathOf(c)} ELSE {})
  PROVE  /\ \A q, s, p : Known(q, s, p) => Known(q, s, p)'
         /\ Known(c.search, c.struct, c.path)'
<1>1. PathOf(c).search = c.search /\ PathOf(c).path = c.path
  BY DEF PathOf
<1> QED BY <1>1 DEF Known

LEMMA AuditSearchStep ==
  ASSUME IInv, AuditSearch PROVE IInv'
<1>0. PICK q, s, x : q = Head(todo) /\ s = Structs[turn - 1] /\ x = First(q)
  OBVIOUS
<1>1. /\ calls = <<>> /\ todo # <<>> /\ Granted(q)
      /\ operations' = operations \cup {q} /\ calls' = <<x>> /\ Enter(x)
      /\ todo' = Tail(todo) /\ UNCHANGED <<config, turn, exported>>
  BY <1>0 DEF AuditSearch
<1>2. /\ Configured' /\ \A t, y : PathOK(t, y)' <=> PathOK(t, y)
      /\ \A op : Granted(op)' <=> Granted(op)
  BY <1>1, ConfigKept DEF IInv
<1>3. /\ todo' \in Seq(Range(todo')) /\ Range(todo) = {q} \cup Range(todo')
  BY <1>0, <1>1, RangeOfTail DEF IInv, Passes
<1>4. /\ turn \in 1..(Len(Structs) + 1) /\ turn > 1 /\ s \in Range(Structs)
      /\ q \in SearchesOf(s) /\ Range(todo') \subseteq SearchesOf(s)
      /\ exported <=> ~RolemapHas(noexport[s], role)
  <2>1. turn - 1 \in 1..Len(Structs)
    BY <1>1, StructsTyped DEF IInv, Passes
  <2> QED BY <1>0, <1>1, <1>3, <2>1, StructsTyped DEF IInv, Passes
<1>5. /\ x.search = q /\ x.struct = Returns[q] /\ x.path = <<>> /\ x.rest = FieldsOf[Returns[q]]
  BY <1>0 DEF First
<1>6. PathOK(Returns[q], x) /\ Returns[q] \in Range(Structs)
  BY <1>0, <1>4, FirstOK DEF PathOK
<1>7. /\ Entries' /\ DOMAIN reached' = DOMAIN reached \cup {x.struct}
      /\ \A t : Recorded(t)' = Recorded(t) \cup (IF t = x.struct THEN {PathOf(x)} ELSE {})
  BY <1>1, Entered DEF IInv
<1>8. /\ \A p, t, y : Known(p, t, y) => Known(p, t, y)'
      /\ Known(q, Returns[q], <<>>)'
  BY <1>5, <1>7, Grows
<1>9. Range(calls') = {x} /\ calls' \in Seq({x})
  BY <1>1 DEF Range
<1>10. Sound'
  <2>1. PathOK(x.struct, PathOf(x))
    BY <1>5, <1>6, PathRecorded
  <2>2. FrameOK(x)'
    <3>1. FieldsOf[Returns[q]] \in Seq(Range(FieldsOf[Returns[q]]))
      BY <1>6, StructsAssumption
    <3> QED BY <1>2, <1>5, <1>6, <3>1 DEF FrameOK
  <2>3. \A t \in Range(Structs) : \A r \in Recorded(t)' : PathOK(t, r)'
    BY <1>2, <1>7, <2>1 DEF IInv, Sound
  <2> QED BY <1>5, <1>6, <1>7, <1>9, <2>2, <2>3 DEF IInv, Sound
<1>11. Closed'
  <2> SUFFICES ASSUME NEW t \in Range(Structs), NEW r \in Recorded(t)',
                      NEW f \in Range(FieldsOf[t]) \cap DOMAIN Embedded
               PROVE  \/ Known(r.search, Embedded[f], Append(r.path, f))'
                      \/ Pending(r.search, t, r.path, f)'
    BY DEF Closed
  <2>1. CASE r \in Recorded(t)
    <3>1. ~Pending(r.search, t, r.path, f)
      BY <1>1 DEF Pending, Range
    <3> QED BY <1>8, <2>1, <3>1 DEF IInv, Closed
  <2>2. CASE t = x.struct /\ r = PathOf(x)
    <3>1. r.search = x.search /\ r.path = x.path
      BY <2>2 DEF PathOf
    <3> QED BY <1>5, <1>9, <2>2, <3>1 DEF Pending
  <2> QED BY <1>7, <2>1, <2>2
<1>12. Passes'
  <2>1. noexport' = noexport /\ role' = role /\ q \in Operations
    BY <1>1, <1>4 DEF config, Operations
  <2>2. operations' \subseteq { op \in Operations : Granted(op)' }
    BY <1>1, <1>2, <2>1 DEF IInv, Passes
  <2>3. ASSUME NEW i \in 1..(turn - 1)
        PROVE  /\ { op \in Writes[Structs[i]] : Granted(op)' } \subseteq operations'
               /\ \A p \in SearchesOf(Structs[i]) :
                    Granted(p)' => \/ p \in Range(todo')
                                   \/ p \in operations' /\ Known(p, Returns[p], <<>>)'
    BY <1>1, <1>2, <1>3, <1>8 DEF IInv, Passes
  <2> QED BY <1>0, <1>1, <1>3, <1>4, <2>1, <2>2, <2>3 DEF Passes
<1> QED BY <1>2, <1>7, <1>10, <1>11, <1>12 DEF IInv

LEMMA SkipSearchStep ==
  ASSUME IInv, SkipSearch PROVE IInv'
<1>1. /\ todo # <<>> /\ ~Granted(Head(todo)) /\ todo' = Tail(todo)
      /\ UNCHANGED <<config, turn, exported, calls, operations, reached>>
  BY DEF SkipSearch
<1>2. /\ Configured' /\ \A t, y : PathOK(t, y)' <=> PathOK(t, y)
      /\ \A op : Granted(op)' <=> Granted(op)
  BY <1>1, ConfigKept DEF IInv
<1>3. /\ todo' \in Seq(Range(todo')) /\ Range(todo) = {Head(todo)} \cup Range(todo')
  BY <1>1, RangeOfTail DEF IInv, Passes
<1>4. Entries' /\ \A t : Recorded(t)' = Recorded(t)
  BY <1>1, NotEntered DEF IInv
<1>5. \A q, t, p : Known(q, t, p)' <=> Known(q, t, p)
  BY <1>4 DEF Known
<1>6. /\ \A q, t, p, f : Pending(q, t, p, f)' <=> Pending(q, t, p, f)
      /\ \A c : FrameOK(c)' <=> FrameOK(c)
  BY <1>1, <1>2 DEF Pending, FrameOK
<1>7. Sound'
  BY <1>1, <1>2, <1>4, <1>6 DEF IInv, Sound
<1>8. Closed'
  BY <1>4, <1>5, <1>6 DEF IInv, Closed
<1>9. Passes'
  <2>1. noexport' = noexport /\ role' = role
    BY <1>1 DEF config
  <2>2. ASSUME NEW i \in 1..(turn - 1)
        PROVE  /\ { op \in Writes[Structs[i]] : Granted(op)' } \subseteq operations'
               /\ \A p \in SearchesOf(Structs[i]) :
                    Granted(p)' => \/ p \in Range(todo')
                                   \/ p \in operations' /\ Known(p, Returns[p], <<>>)'
    BY <1>1, <1>2, <1>3, <1>5 DEF IInv, Passes
  <2> QED BY <1>1, <1>2, <1>3, <2>1, <2>2 DEF IInv, Passes
<1> QED BY <1>2, <1>4, <1>7, <1>8, <1>9 DEF IInv

(* The loop of the innermost call goes on to the next field.               *)
LEMMA LoopGoesOn ==
  ASSUME IInv, calls # <<>>, NEW c, c = Head(calls), c.rest # <<>>
  PROVE  /\ FrameOK(c) /\ FrameOK(Passed(c)) /\ Head(c.rest) \in Range(FieldsOf[c.struct])
         /\ Loop \in Seq(Range(Loop)) /\ Range(Loop) = {Passed(c)} \cup Range(Tail(calls))
         /\ \A q, s, p, f :
              Pending(q, s, p, f) =>
                \/ \E d \in Range(Loop) :
                     d.search = q /\ d.struct = s /\ d.path = p /\ f \in Range(d.rest)
                \/ q = c.search /\ s = c.struct /\ p = c.path /\ f = Head(c.rest)
<1>1. Tail(calls) \in Seq(Range(Tail(calls))) /\ Range(calls) = {c} \cup Range(Tail(calls))
  BY RangeOfTail DEF IInv, Sound
<1>2. FrameOK(c)
  BY <1>1 DEF IInv, Sound
<1>3. /\ Tail(c.rest) \in Seq(Range(Tail(c.rest)))
      /\ Range(c.rest) = {Head(c.rest)} \cup Range(Tail(c.rest))
  BY <1>2, RangeOfTail DEF FrameOK
<1>4. PICK d : d = Passed(c)
  OBVIOUS
<1>5. /\ d.search = c.search /\ d.struct = c.struct /\ d.path = c.path
      /\ d.exported = c.exported /\ d.rest = Tail(c.rest)
  BY <1>4 DEF Passed
<1>6. PathOK(d.struct, d)
  BY <1>2, <1>5 DEF FrameOK, PathOK
<1>7. FrameOK(d) /\ Head(c.rest) \in Range(FieldsOf[c.struct])
  BY <1>2, <1>3, <1>5, <1>6 DEF FrameOK
<1>8. Loop \in Seq(Range(Loop)) /\ Range(Loop) = {d} \cup Range(Tail(calls))
  BY <1>1, <1>4, RangeOfPushed DEF Loop
<1>9. ASSUME NEW q, NEW s, NEW p, NEW f, Pending(q, s, p, f),
             ~ (q = c.search /\ s = c.struct /\ p = c.path /\ f = Head(c.rest))
      PROVE  \E e \in Range(Loop) :
               e.search = q /\ e.struct = s /\ e.path = p /\ f \in Range(e.rest)
  <2>1. PICK e \in Range(calls) :
          e.search = q /\ e.struct = s /\ e.path = p /\ f \in Range(e.rest)
    BY <1>9 DEF Pending
  <2>2. CASE e = c
    BY <1>3, <1>5, <1>8, <1>9, <2>1, <2>2
  <2>3. CASE e # c
    BY <1>1, <1>8, <2>1, <2>3
  <2> QED BY <2>2, <2>3
<1> QED BY <1>2, <1>4, <1>7, <1>8, <1>9

LEMMA FollowStep ==
  ASSUME IInv, Follow PROVE IInv'
<1>0. PICK c, f, x : c = Head(calls) /\ f = Head(c.rest) /\ x = Call(c, f)
  OBVIOUS
<1>1. /\ calls # <<>> /\ c.rest # <<>> /\ f \in DOMAIN Embedded
      /\ calls' = <<x>> \o Loop /\ Enter(x)
      /\ UNCHANGED <<config, turn, exported, todo, operations>>
  BY <1>0 DEF Follow
<1>2. /\ Configured' /\ \A t, y : PathOK(t, y)' <=> PathOK(t, y)
  BY <1>1, ConfigKept DEF IInv
<1>3. /\ FrameOK(c) /\ FrameOK(Passed(c)) /\ f \in Range(FieldsOf[c.struct])
      /\ Loop \in Seq(Range(Loop)) /\ Range(Loop) = {Passed(c)} \cup Range(Tail(calls))
      /\ \A q, s, p, g :
           Pending(q, s, p, g) =>
             \/ \E d \in Range(Loop) :
                  d.search = q /\ d.struct = s /\ d.path = p /\ g \in Range(d.rest)
             \/ q = c.search /\ s = c.struct /\ p = c.path /\ g = f
  BY <1>0, <1>1, LoopGoesOn
<1>4. /\ x.search = c.search /\ x.struct = Embedded[f] /\ x.path = Append(c.path, f)
      /\ x.rest = FieldsOf[Embedded[f]]
  BY <1>0 DEF Call
<1>5. PathOK(x.struct, x) /\ x.struct \in Range(Structs)
  <2>1. PathOK(c.struct, c)
    BY <1>3 DEF FrameOK
  <2>2. PathOK(Embedded[f], Call(c, f))
    BY <1>1, <1>3, <2>1, CallOK
  <2>3. PathOK(x.struct, x)
    BY <1>0, <1>4, <2>2
  <2> QED BY <2>3 DEF PathOK
<1>6. /\ Entries' /\ DOMAIN reached' = DOMAIN reached \cup {x.struct}
      /\ \A t : Recorded(t)' = Recorded(t) \cup (IF t = x.struct THEN {PathOf(x)} ELSE {})
  BY <1>1, Entered DEF IInv
<1>7. /\ \A p, t, y : Known(p, t, y) => Known(p, t, y)'
      /\ Known(c.search, Embedded[f], Append(c.path, f))'
  BY <1>4, <1>6, Grows
<1>8. Passes'
  BY <1>1, <1>7, PassesKept DEF IInv
<1>9. calls' \in Seq(Range(calls')) /\ Range(calls') = {x} \cup Range(Loop)
  BY <1>1, <1>3, RangeOfPushed
<1>10. Sound'
  <2>1. \A d : FrameOK(d)' <=> FrameOK(d)
    BY <1>2 DEF FrameOK
  <2>2. FrameOK(x)
    BY <1>4, <1>5, StructsAssumption DEF FrameOK
  <2>3. \A d \in Range(calls') : FrameOK(d)'
    <3>1. \A d \in Range(Tail(calls)) : FrameOK(d)
      BY <1>1, RangeOfTail DEF IInv, Sound
    <3> QED BY <1>3, <1>9, <2>1, <2>2, <3>1
  <2>4. PathOK(x.struct, PathOf(x))
    BY <1>5, PathRecorded
  <2>5. \A t \in Range(Structs) : \A r \in Recorded(t)' : PathOK(t, r)'
    BY <1>2, <1>6, <2>4 DEF IInv, Sound
  <2> QED BY <1>5, <1>6, <1>9, <2>3, <2>5 DEF IInv, Sound
<1>11. Closed'
  <2> SUFFICES ASSUME NEW t \in Range(Structs), NEW r \in Recorded(t)',
                      NEW g \in Range(FieldsOf[t]) \cap DOMAIN Embedded
               PROVE  \/ Known(r.search, Embedded[g], Append(r.path, g))'
                      \/ Pending(r.search, t, r.path, g)'
    BY DEF Closed
  <2>1. CASE r \in Recorded(t)
    <3>1. CASE Known(r.search, Embedded[g], Append(r.path, g))
      BY <1>7, <3>1
    <3>2. CASE Pending(r.search, t, r.path, g)
      <4>1. CASE r.search = c.search /\ t = c.struct /\ r.path = c.path /\ g = f
        BY <1>7, <4>1
      <4>2. CASE \E d \in Range(Loop) :
                   d.search = r.search /\ d.struct = t /\ d.path = r.path /\ g \in Range(d.rest)
        BY <1>9, <4>2 DEF Pending
      <4> QED BY <1>3, <3>2, <4>1, <4>2
    <3> QED BY <2>1, <3>1, <3>2 DEF IInv, Closed
  <2>2. CASE t = x.struct /\ r = PathOf(x)
    <3>1. r.search = x.search /\ r.path = x.path
      BY <2>2 DEF PathOf
    <3> QED BY <1>4, <1>9, <2>2, <3>1 DEF Pending
  <2> QED BY <1>6, <2>1, <2>2
<1> QED BY <1>2, <1>6, <1>8, <1>10, <1>11 DEF IInv

(* A field of another type and the end of a call change no entry.          *)
LEMMA CallsOnly ==
  ASSUME IInv, UNCHANGED <<config, turn, exported, todo, operations, reached>>,
         calls' \in Seq(Range(calls')), \A c \in Range(calls') : FrameOK(c),
         \A q, s, p : \A f \in DOMAIN Embedded :
           Pending(q, s, p, f) => Pending(q, s, p, f)'
  PROVE  IInv'
<1>1. /\ Configured' /\ \A t, y : PathOK(t, y)' <=> PathOK(t, y)
  BY ConfigKept DEF IInv
<1>2. Entries' /\ \A t : Recorded(t)' = Recorded(t)
  BY NotEntered DEF IInv
<1>3. \A q, t, p : Known(q, t, p)' <=> Known(q, t, p)
  BY <1>2 DEF Known
<1>4. Passes'
  BY <1>3, PassesKept DEF IInv
<1>5. \A c : FrameOK(c)' <=> FrameOK(c)
  BY <1>1 DEF FrameOK
<1>6. Sound'
  BY <1>1, <1>2, <1>5 DEF IInv, Sound
<1>7. Closed'
  BY <1>2, <1>3 DEF IInv, Closed
<1> QED BY <1>1, <1>2, <1>4, <1>6, <1>7 DEF IInv

LEMMA SkipFieldStep ==
  ASSUME IInv, SkipField PROVE IInv'
<1>0. PICK c : c = Head(calls)
  OBVIOUS
<1>1. /\ calls # <<>> /\ c.rest # <<>> /\ Head(c.rest) \notin DOMAIN Embedded /\ calls' = Loop
      /\ UNCHANGED <<config, turn, exported, todo, operations, reached>>
  BY <1>0 DEF SkipField
<1>2. /\ FrameOK(Passed(c))
      /\ Loop \in Seq(Range(Loop)) /\ Range(Loop) = {Passed(c)} \cup Range(Tail(calls))
      /\ \A q, s, p, g :
           Pending(q, s, p, g) =>
             \/ \E d \in Range(Loop) :
                  d.search = q /\ d.struct = s /\ d.path = p /\ g \in Range(d.rest)
             \/ q = c.search /\ s = c.struct /\ p = c.path /\ g = Head(c.rest)
  BY <1>0, <1>1, LoopGoesOn
<1>3. \A d \in Range(Tail(calls)) : FrameOK(d)
  BY <1>1, RangeOfTail DEF IInv, Sound
<1>4. \A q, s, p : \A f \in DOMAIN Embedded : Pending(q, s, p, f) => Pending(q, s, p, f)'
  <2> SUFFICES ASSUME NEW q, NEW s, NEW p, NEW f \in DOMAIN Embedded, Pending(q, s, p, f)
               PROVE  Pending(q, s, p, f)'
    OBVIOUS
  <2>1. \E d \in Range(Loop) :
          d.search = q /\ d.struct = s /\ d.path = p /\ f \in Range(d.rest)
    BY <1>1, <1>2
  <2> QED BY <1>1, <2>1 DEF Pending
<1>5. calls' \in Seq(Range(calls')) /\ \A d \in Range(calls') : FrameOK(d)
  BY <1>1, <1>2, <1>3
<1> QED BY <1>1, <1>4, <1>5, CallsOnly

LEMMA ReturnStep ==
  ASSUME IInv, Return PROVE IInv'
<1>1. /\ calls # <<>> /\ Head(calls).rest = <<>> /\ calls' = Tail(calls)
      /\ UNCHANGED <<config, turn, exported, todo, operations, reached>>
  BY DEF Return
<1>2. calls' \in Seq(Range(calls')) /\ Range(calls) = {Head(calls)} \cup Range(calls')
  BY <1>1, RangeOfTail DEF IInv, Sound
<1>3. Range(Head(calls).rest) = {}
  BY <1>1 DEF Range
<1>4. \A q, s, p : \A f \in DOMAIN Embedded : Pending(q, s, p, f) => Pending(q, s, p, f)'
  BY <1>2, <1>3 DEF Pending
<1>5. \A d \in Range(calls') : FrameOK(d)
  BY <1>2 DEF IInv, Sound
<1> QED BY <1>1, <1>2, <1>4, <1>5, CallsOnly

LEMMA Invariance == Spec => []IInv
<1>1. IInv /\ [Next]_vars => IInv'
  <2> SUFFICES ASSUME IInv, [Next]_vars PROVE IInv'
    OBVIOUS
  <2>1. CASE UNCHANGED vars
    <3>1. UNCHANGED <<config, turn, exported, todo, operations, reached>> /\ calls' = calls
      BY <2>1 DEF vars
    <3>2. \A q, s, p : \A f \in DOMAIN Embedded : Pending(q, s, p, f) => Pending(q, s, p, f)'
      BY <3>1 DEF Pending
    <3>3. calls' \in Seq(Range(calls')) /\ \A c \in Range(calls') : FrameOK(c)
      BY <3>1 DEF IInv, Sound
    <3> QED BY <3>1, <3>2, <3>3, CallsOnly
  <2> QED
    BY <2>1, AuditStructStep, AuditSearchStep, SkipSearchStep, FollowStep, SkipFieldStep,
       ReturnStep DEF Next
<1> QED BY <1>1, InitIInv, PTL DEF Spec

(* A structure that is reached is marked as exported if and only if it is  *)
(* on one of the paths to it, in whatever order follow() comes by them.    *)
THEOREM MarkExact == Spec => []MarkedIfAny
<1>1. IInv => MarkedIfAny
  BY DEF IInv, Entries, EntryOK, MarkedIfAny
<1> QED BY <1>1, Invariance, PTL

(***************************************************************************)
(* What the finished report says.                                          *)
(***************************************************************************)
LEMMA GrantsAgree ==
  ASSUME Configured, role \in Enterable, NEW op \in Operations
  PROVE  Granted(op) <=> BoxMayRun(rolemap[op], role)
<1>1. rolemap[op] \in SUBSET Assignable
  BY DEF Configured
<1> QED BY <1>1, BoxIsAudited DEF Granted

LEMMA ExportsAgree ==
  ASSUME Configured, role \in Enterable, NEW f \in Fields
  PROVE  Printed(f) <=> FieldExported(f) /\ f \notin Passwords
<1>1. noexport[f] \in SUBSET Roles
  BY DEF Configured, Assignable
<1> QED BY <1>1, CasesAreAudited DEF Printed, FieldExported

(* Every path that is printed was followed to its last field.              *)
LEMMA AllFollowed ==
  ASSUME IInv, Finished, NEW q \in MayRead, NEW p \in Json(q)
  PROVE  /\ Len(p) \in Nat \ {0} /\ p \in Seq(Fields)
         /\ \E s \in Range(Structs) : \E r \in Recorded(s) :
              /\ r.search = q /\ p = Append(r.path, p[Len(p)])
              /\ Len(r.path) = Len(p) - 1 /\ \A i \in 1..(Len(p) - 1) : r.path[i] = p[i]
              /\ p[Len(p)] \in Range(FieldsOf[s])
<1>1. PICK n \in 1..Len(Structs) : p \in [1..n -> Fields]
  BY DEF Json
<1>2. Len(p) = n /\ n \in Nat \ {0} /\ Leads(Returns[q], p) /\ p \in Seq(Fields)
  <2>1. n \in Nat \ {0}
    BY StructsTyped
  <2> QED BY <1>1, <2>1, SeqDef DEF Json
<1>3. Known(q, Returns[q], <<>>)
  <2>1. q \in Operations /\ \A s \in Range(Structs) : q \notin Writes[s]
    BY DEF MayRead, MayCall, IInv, Configured
  <2>2. PICK s \in Range(Structs) : q \in SearchesOf(s)
    BY <2>1 DEF Operations
  <2>3. PICK i \in 1..Len(Structs) : s = Structs[i]
    BY StructsTyped
  <2>4. i \in 1..(turn - 1) /\ Range(todo) = {}
    BY StructsTyped DEF Finished, IInv, Passes, Range
  <2>5. Granted(q)
    BY <2>1, GrantsAgree DEF MayRead, MayCall, IInv
  <2> QED BY <2>2, <2>3, <2>4, <2>5 DEF IInv, Passes
<1> DEFINE part(k) == [i \in 1..k |-> p[i]]
           end(k) == IF k = 0 THEN Returns[q] ELSE Embedded[p[k]]
           T == { k \in 0..(n - 1) : Known(q, end(k), part(k)) }
<1>4. \A k \in 0..n : part(k) \in Seq(Fields) /\ Len(part(k)) = k
  BY <1>1, <1>2, SeqDef
<1>5. \A k \in 0..(n - 1) : p[k + 1] \in Fields /\ Append(part(k), p[k + 1]) = part(k + 1)
  <2> SUFFICES ASSUME NEW k \in 0..(n - 1)
               PROVE  p[k + 1] \in Fields /\ Append(part(k), p[k + 1]) = part(k + 1)
    OBVIOUS
  <2> DEFINE a == Append(part(k), p[k + 1])
             b == part(k + 1)
  <2>1. k \in 0..n /\ k + 1 \in 0..n /\ k + 1 \in 1..n /\ p[k + 1] \in Fields
    BY <1>1, <1>2
  <2>2. /\ a \in Seq(Fields) /\ Len(a) = k + 1 /\ a[k + 1] = p[k + 1]
        /\ \A i \in 1..k : a[i] = part(k)[i]
    <3> HIDE DEF part
    <3> QED BY <1>4, <2>1, AppendProperties
  <2>3. \A i \in 1..(k + 1) : a[i] = b[i]
    <3>1. \A i \in 1..k : a[i] = p[i]
      BY <2>2
    <3>2. \A i \in 1..(k + 1) : i \in 1..k \/ i = k + 1
      BY <2>1
    <3> HIDE DEF a
    <3> QED BY <2>2, <3>1, <3>2
  <2>4. b \in Seq(Fields) /\ Len(b) = k + 1
    BY <1>4, <2>1
  <2>5. a = b
    <3> HIDE DEF a, b
    <3> QED BY <2>2, <2>3, <2>4, SeqEqual
  <2> QED BY <2>1, <2>5
<1>6. 0 \in T
  <2>1. part(0) = <<>>
    OBVIOUS
  <2> QED BY <1>2, <1>3, <2>1
<1>7. ASSUME NEW k \in 0..(n - 1), NEW r \in Recorded(end(k)), r.search = q, r.path = part(k)
      PROVE  end(k) \in Range(Structs) /\ p[k + 1] \in Range(FieldsOf[end(k)])
  <2>1. end(k) \in Range(Structs)
    BY <1>7 DEF IInv, Sound, Recorded
  <2>2. k + 1 \in 1..Len(p) /\ (k # 0 => k + 1 # 1 /\ (k + 1) - 1 = k)
    BY <1>2
  <2>3. p[k + 1] \in Range(FieldsOf[end(k)])
    BY <1>2, <2>2 DEF Leads
  <2> QED BY <2>1, <2>3
<1>8. ASSUME NEW k \in 0..(n - 1), k \in T, k < n - 1
      PROVE  k + 1 \in T
  <2>1. PICK r \in Recorded(end(k)) : r.search = q /\ r.path = part(k)
    BY <1>8 DEF Known
  <2>2. end(k) \in Range(Structs) /\ p[k + 1] \in Range(FieldsOf[end(k)])
    BY <1>7, <2>1
  <2>3. p[k + 1] \in DOMAIN Embedded
    <3>1. k + 2 \in 1..Len(p) /\ k + 2 # 1 /\ (k + 2) - 1 = k + 1
      BY <1>2, <1>8
    <3> QED BY <1>2, <3>1 DEF Leads
  <2>4. ~Pending(r.search, end(k), r.path, p[k + 1])
    BY DEF Finished, Pending, Range
  <2>5. Known(q, Embedded[p[k + 1]], Append(part(k), p[k + 1]))
    <3> HIDE DEF part, end
    <3> QED BY <2>1, <2>2, <2>3, <2>4 DEF IInv, Closed
  <2>6. end(k + 1) = Embedded[p[k + 1]] /\ k + 1 \in 0..(n - 1)
    BY <1>2, <1>8
  <2>7. Known(q, end(k + 1), part(k + 1))
    <3>1. Append(part(k), p[k + 1]) = part(k + 1)
      BY <1>5
    <3> HIDE DEF part, end
    <3> QED BY <2>5, <2>6, <3>1
  <2> QED BY <2>6, <2>7
<1>9. n - 1 \in T
  <2>1. n - 1 \in Nat
    BY <1>2
  <2>2. 0..(n - 1) \subseteq T
    <3> HIDE DEF T
    <3> QED BY <1>6, <1>8, <2>1, Counting
  <2> QED BY <1>2, <2>2
<1>10. PICK r \in Recorded(end(n - 1)) : r.search = q /\ r.path = part(n - 1)
  BY <1>9 DEF Known
<1>11. end(n - 1) \in Range(Structs) /\ p[n] \in Range(FieldsOf[end(n - 1)])
  <2>1. n - 1 \in 0..(n - 1) /\ (n - 1) + 1 = n
    BY <1>2
  <2> QED BY <1>7, <1>10, <2>1
<1>12. p = Append(part(n - 1), p[n]) /\ Len(part(n - 1)) = n - 1
  <2>1. n - 1 \in 0..(n - 1) /\ n - 1 \in 0..n /\ (n - 1) + 1 = n /\ part(n) = p
    BY <1>1, <1>2
  <2> HIDE DEF part
  <2> QED BY <1>4, <1>5, <2>1
<1>13. \A i \in 1..(n - 1) : part(n - 1)[i] = p[i]
  OBVIOUS
<1> HIDE DEF part, end
<1> QED BY <1>2, <1>10, <1>11, <1>12, <1>13

(* A member of the report is a path that was followed and a field.         *)
LEMMA ReportedIs ==
  ASSUME IInv, NEW q, NEW x
  PROVE  /\ x \in Reported(q) <=>
              \E s \in Range(Structs) : \E r \in Recorded(s) : \E f \in Range(FieldsOf[s]) :
                r.search = q /\ FieldExported(f) /\ x = Append(r.path, f)
         /\ x \in Exported(q) <=>
              \E s \in Range(Structs) : \E r \in Recorded(s) : \E f \in Range(FieldsOf[s]) :
                r.search = q /\ r.exported /\ FieldExported(f) /\ x = Append(r.path, f)
<1>1. \A s \in DOMAIN reached :
        /\ reached[s].fields = { f \in Range(FieldsOf[s]) : FieldExported(f) }
        /\ Recorded(s) = Range(reached[s].paths) /\ s \in Range(Structs)
  BY DEF IInv, Entries, EntryOK, Recorded, Sound
<1>2. \A s : s \notin DOMAIN reached => Recorded(s) = {}
  BY DEF Recorded
<1>3. x \in Reported(q) <=>
        \E s \in DOMAIN reached : \E r \in Range(reached[s].paths) : \E f \in reached[s].fields :
          r.search = q /\ x = Append(r.path, f)
  BY DEF Reported, Through
<1>4. x \in Exported(q) <=>
        \E s \in DOMAIN reached : \E r \in Range(reached[s].paths) : \E f \in reached[s].fields :
          r.search = q /\ r.exported /\ x = Append(r.path, f)
  BY DEF Exported, Through
<1>5. \A s \in Range(Structs) \ DOMAIN reached : Recorded(s) = {}
  BY <1>2
<1>6. x \in Reported(q) <=>
        \E s \in Range(Structs) : \E r \in Recorded(s) : \E f \in Range(FieldsOf[s]) :
          r.search = q /\ FieldExported(f) /\ x = Append(r.path, f)
  BY <1>1, <1>3, <1>5
<1>7. x \in Exported(q) <=>
        \E s \in Range(Structs) : \E r \in Recorded(s) : \E f \in Range(FieldsOf[s]) :
          r.search = q /\ r.exported /\ FieldExported(f) /\ x = Append(r.path, f)
  BY <1>1, <1>4, <1>5
<1> QED BY <1>6, <1>7

(* When the audit is done, it has the operations a program may call in the *)
(* role, and the path to everything the program prints of what it reads.   *)
THEOREM ReportComplete == Spec => []AllReported
<1>1. IInv => AllReported
  <2> SUFFICES ASSUME IInv, Finished
               PROVE  /\ role \in Enterable => operations = MayCall
                      /\ \A q \in MayRead : Json(q) \subseteq Reported(q)
    BY DEF AllReported
  <2>1. ASSUME role \in Enterable PROVE operations = MayCall
    <3>1. MayCall = { op \in Operations : Granted(op) }
      BY <2>1, GrantsAgree DEF MayCall, IInv, Configured
    <3>2. ASSUME NEW op \in Operations, Granted(op) PROVE op \in operations
      <4>1. PICK s \in Range(Structs) : op \in Writes[s] \cup SearchesOf(s)
        BY DEF Operations
      <4>2. PICK i \in 1..Len(Structs) : s = Structs[i]
        BY StructsTyped
      <4>3. i \in 1..(turn - 1) /\ Range(todo) = {}
        BY StructsTyped DEF Finished, IInv, Passes, Range
      <4> QED BY <3>2, <4>1, <4>2, <4>3 DEF IInv, Passes
    <3> QED BY <3>1, <3>2 DEF IInv, Passes
  <2>2. ASSUME NEW q \in MayRead, NEW p \in Json(q)
        PROVE  p \in Reported(q)
    <3>1. PICK s \in Range(Structs) : \E r \in Recorded(s) :
            /\ r.search = q /\ p = Append(r.path, p[Len(p)])
            /\ p[Len(p)] \in Range(FieldsOf[s])
      BY <2>2, AllFollowed
    <3>2. FieldExported(p[Len(p)])
      <4>1. Printed(p[Len(p)])
        <5>1. Len(p) \in DOMAIN p
          BY <2>2, AllFollowed, LenProperties
        <5> QED BY <5>1 DEF Json, Range
      <4>2. p[Len(p)] \in Fields /\ role \in Enterable
        BY <3>1 DEF Fields, MayRead, MayCall
      <4> QED BY <4>1, <4>2, ExportsAgree DEF IInv
    <3> QED BY <3>1, <3>2, ReportedIs
  <2> QED BY <2>1, <2>2
<1> QED BY <1>1, Invariance, PTL

(* What it reports as exported along a path, passwords apart, the program  *)
(* prints; and what is printed is reported as exported, but for queries of *)
(* a structure that is hidden as a whole and printed none the less.        *)
THEOREM ReportExact == Spec => []ExportsExact
<1>1. IInv => ExportsExact
  <2> SUFFICES ASSUME IInv, Finished, NEW o \in Range(Structs),
                      NEW q \in SearchesOf(o) \cap MayRead
               PROVE  LET shown == { p \in Exported(q) : Last(p) \notin Passwords }
                      IN /\ shown \subseteq Json(q)
                         /\ HiddenThroughout(o, q) => Json(q) \subseteq shown
    BY DEF ExportsExact
  <2>1. role \in Enterable
    BY DEF MayRead, MayCall
  <2>2. \A s \in Range(Structs) : \A r \in Recorded(s) :
          r.search = q => (r.exported <=> Visible(o, r.path))
    <3>1. ASSUME NEW s \in Range(Structs), NEW r \in Recorded(s), r.search = q
          PROVE  r.exported <=> Visible(o, r.path)
      <4>1. PICK t \in Range(Structs) : q \in SearchesOf(t) /\ (r.exported <=> Visible(t, r.path))
        BY <3>1 DEF IInv, Sound, PathOK
      <4>2. t = o
        BY <4>1, SearchesAssumption
      <4> QED BY <4>1, <4>2
    <3> QED BY <3>1
  <2>3. ASSUME NEW p \in Exported(q), Last(p) \notin Passwords
        PROVE  p \in Json(q)
    <3>1. PICK s \in Range(Structs) : \E r \in Recorded(s) : \E f \in Range(FieldsOf[s]) :
            r.search = q /\ r.exported /\ FieldExported(f) /\ p = Append(r.path, f)
      BY <2>3, ReportedIs
    <3>2. PICK r \in Recorded(s) : \E f \in Range(FieldsOf[s]) :
            r.search = q /\ r.exported /\ FieldExported(f) /\ p = Append(r.path, f)
      BY <3>1
    <3>3. PICK f \in Range(FieldsOf[s]) :
            r.search = q /\ r.exported /\ FieldExported(f) /\ p = Append(r.path, f)
      BY <3>2
    <3>4. PathOK(s, r)
      BY DEF IInv, Sound
    <3>5. PICK n : n = Len(r.path)
      OBVIOUS
    <3>6. /\ n \in Nat /\ f \in Fields /\ p \in Seq(Fields) /\ Len(p) = n + 1
          /\ \A i \in 1..n : p[i] = r.path[i]
          /\ p[n + 1] = f
          /\ Leads(Returns[q], p)
      <4>1. PICK t : t = Append(r.path, f)
        OBVIOUS
      <4>2. /\ Len(r.path) \in Nat /\ f \in Fields
            /\ t \in Seq(Fields) /\ Len(t) = Len(r.path) + 1
            /\ \A i \in 1..Len(r.path) : t[i] = r.path[i]
            /\ t[Len(r.path) + 1] = f
            /\ Leads(Returns[r.search], t)
        BY <3>4, <4>1, LeadsOn
      <4> QED BY <3>3, <3>5, <4>1, <4>2
    <3>7. n + 1 \in 1..Len(Structs)
      <4>1. Rank[s] \in 1..Len(Structs) /\ n + Rank[s] <= Len(Structs) /\ Len(Structs) \in Nat
        BY <3>4, <3>5, LenStructs DEF PathOK
      <4> QED BY <3>6, <4>1
    <3>8. p \in [1..(n + 1) -> Fields] /\ DOMAIN p = 1..(n + 1)
      BY <3>6, LenProperties
    <3>9. ASSUME NEW i \in 1..(n + 1) PROVE Printed(p[i])
      <4>1. CASE i \in 1..n
        <5>1. FieldExported(p[i]) /\ p[i] \notin Passwords
          BY <2>2, <3>3, <3>4, <3>5, <3>6, <4>1, EmbeddedAssumption DEF PathOK, Visible
        <5> QED BY <2>1, <3>8, <5>1, ExportsAgree DEF IInv
      <4>2. CASE i = n + 1
        <5>1. f \notin Passwords
          BY <2>3, <3>6 DEF Last
        <5> QED BY <2>1, <3>3, <3>6, <4>2, <5>1, ExportsAgree DEF IInv
      <4> QED BY <3>6, <4>1, <4>2
    <3>10. \A g \in Range(p) : Printed(g)
      BY <3>8, <3>9 DEF Range
    <3> QED BY <3>6, <3>7, <3>8, <3>10 DEF Json
  <2>4. ASSUME HiddenThroughout(o, q), NEW p \in Json(q)
        PROVE  p \in Exported(q) /\ Last(p) \notin Passwords
    <3>1. /\ Len(p) \in Nat \ {0} /\ p \in Seq(Fields)
          /\ \E s \in Range(Structs) : \E r \in Recorded(s) :
               /\ r.search = q /\ p = Append(r.path, p[Len(p)])
               /\ Len(r.path) = Len(p) - 1 /\ \A i \in 1..(Len(p) - 1) : r.path[i] = p[i]
               /\ p[Len(p)] \in Range(FieldsOf[s])
      BY <2>4, AllFollowed
    <3>2. PICK s \in Range(Structs) : \E r \in Recorded(s) :
               /\ r.search = q /\ p = Append(r.path, p[Len(p)])
               /\ Len(r.path) = Len(p) - 1 /\ \A i \in 1..(Len(p) - 1) : r.path[i] = p[i]
               /\ p[Len(p)] \in Range(FieldsOf[s])
      BY <3>1
    <3>3. PICK r \in Recorded(s) :
               /\ r.search = q /\ p = Append(r.path, p[Len(p)])
               /\ Len(r.path) = Len(p) - 1 /\ \A i \in 1..(Len(p) - 1) : r.path[i] = p[i]
               /\ p[Len(p)] \in Range(FieldsOf[s])
      BY <3>2
    <3>4. \A i \in 1..Len(p) : FieldExported(p[i]) /\ p[i] \notin Passwords /\ p[i] \in Fields
      <4>1. \A i \in 1..Len(p) : p[i] \in Fields /\ p[i] \in Range(p)
        BY <3>1, LenProperties, ElementOfSeq DEF Range
      <4>2. \A g \in Range(p) : Printed(g)
        BY <2>4 DEF Json
      <4> QED BY <2>1, <4>1, <4>2, ExportsAgree DEF IInv
    <3>5. ~RolemapHas(noexport[o], role)
      <4> SUFFICES ASSUME RolemapHas(noexport[o], role) PROVE FALSE
        OBVIOUS
      <4>1. Returns[q] = o /\ ~HiddenInPart(o)
        BY <2>4 DEF HiddenThroughout
      <4>2. 1 \in 1..Len(p) /\ Leads(Returns[q], p)
        BY <2>4, <3>1 DEF Json
      <4>3. p[1] \in Range(FieldsOf[o])
        BY <4>1, <4>2 DEF Leads
      <4>4. ~RolemapHas(noexport[p[1]], role)
        BY <3>4, <4>2 DEF FieldExported
      <4> QED BY <4>1, <4>3, <4>4 DEF HiddenInPart
    <3>6. r.exported
      <4>1. \A i \in 1..Len(r.path) : FieldExported(r.path[i])
        BY <3>1, <3>3, <3>4
      <4> QED BY <2>2, <3>3, <3>5, <4>1 DEF Visible
    <3>7. Len(p) \in 1..Len(p)
      BY <3>1
    <3> QED BY <3>3, <3>4, <3>6, <3>7, ReportedIs DEF Last
  <2> QED BY <2>3, <2>4
<1> QED BY <1>1, Invariance, PTL
==============================================================================
