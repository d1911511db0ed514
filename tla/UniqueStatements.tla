-------------------------- MODULE UniqueStatements --------------------------
(***************************************************************************)
(* The "unique" statements of a structure, each a constraint on several    *)
(* fields: their fields are resolved one by one (resolve_struct_unique(),  *)
(* src/linker_resolve.c), and the statements are then compared with each   *)
(* other and brought into a normal form, one after the other               *)
(* (check_unique_unique(), src/linker.c).                                  *)
(***************************************************************************)
EXTENDS Naturals, SequencesExt

CONSTANT Fields   \* the fields of the structure, as numbers in the order of
                  \* their names; another name is none or a struct field

VARIABLES nq,       \* s->nq: the fields of each statement
          written,  \* the statements as they were written
          u,        \* the statement looked at
          resolved, \* how many of its names are resolved
          errs,
          progress
vars == <<nq, written, u, resolved, errs, progress>>

Start ==
  /\ written = nq
  /\ u = 1 /\ resolved = 0 /\ errs = 0
  /\ progress = "resolve"

(* The names in front, of the same statement, are resolved already.        *)
Resolvable(q, k) == q[k] \in Fields /\ \A j \in 1..(k - 1) : q[j] # q[k]

Resolve ==
  /\ progress = "resolve" /\ u <= Len(nq)
  /\ errs' = IF Resolvable(nq[u], resolved + 1) THEN errs ELSE errs + 1
  /\ IF resolved + 1 = Len(nq[u])
     THEN u' = u + 1 /\ resolved' = 0
     ELSE resolved' = resolved + 1 /\ UNCHANGED u
  /\ UNCHANGED <<nq, written, progress>>

EndResolve ==
  /\ progress = "resolve" /\ u > Len(nq)
  /\ progress' = IF errs > 0 THEN "refused" ELSE "check"
  /\ u' = 1
  /\ UNCHANGED <<nq, written, resolved, errs>>

(***************************************************************************)
(* The others of the same size, up to the first that is different.         *)
(***************************************************************************)
SameSize(k) == { j \in DOMAIN nq : j # k /\ Len(nq[j]) = Len(nq[k]) }

Contained(k, j) == Range(nq[k]) \subseteq Range(nq[j])

(* Mutation: each pair is compared once only.                              *)
ComparedBehind(k) ==
  { j \in SameSize(k) : j > k /\ \A i \in SameSize(k) : k < i /\ i <= j => Contained(k, i) }

Compared(k) ==
  { j \in SameSize(k) : \A i \in SameSize(k) : i <= j => Contained(k, i) }

(* Mutation: only neighbours are exchanged.                                *)
NormalOnce(q) == IF q[1] > q[2] THEN <<q[2], q[1]>> \o SubSeq(q, 3, Len(q)) ELSE q

(* By qsort(); no field is named twice.                                    *)
Normal(q) ==
  CHOOSE s \in [1..Len(q) -> Range(q)] :
    Range(s) = Range(q) /\ \A i, j \in 1..Len(q) : i < j => s[i] < s[j]

Check ==
  /\ progress = "check" /\ u <= Len(nq)
  /\ IF Compared(u) # {}
     THEN /\ errs' = errs + Cardinality(Compared(u)) /\ progress' = "refused"
          /\ UNCHANGED <<nq, u>>
     ELSE /\ nq' = [nq EXCEPT ![u] = Normal(@)] /\ u' = u + 1
          /\ UNCHANGED <<errs, progress>>
  /\ UNCHANGED <<written, resolved>>

(* Mutation: the pass is repeated while there is a change, which is looked *)
(* for since the first pass and not since the last.                        *)
EndCheckRepeated ==
  /\ progress = "check" /\ u > Len(nq)
  /\ IF nq = written THEN progress' = "accepted" /\ UNCHANGED u
                     ELSE u' = 1 /\ UNCHANGED progress
  /\ UNCHANGED <<nq, written, resolved, errs>>

EndCheck ==
  /\ progress = "check" /\ u > Len(nq) /\ progress' = "accepted"
  /\ UNCHANGED <<nq, written, u, resolved, errs>>

Next == Resolve \/ EndResolve \/ Check \/ EndCheck

(***************************************************************************)
(* Properties.                                                             *)
(***************************************************************************)
(* What is accepted keeps every constraint, with its fields once each and  *)
(* in the order of their names, which is what is written as SQL and what   *)
(* ort_diff() compares.                                                    *)
AcceptedNormal ==
  progress = "accepted" =>
    \A k \in DOMAIN nq : /\ Range(nq[k]) = Range(written[k])
                         /\ Len(nq[k]) = Len(written[k])
                         /\ \A i, j \in DOMAIN nq[k] : i < j => nq[k][i] < nq[k][j]

(* Of the accepted statements of a size, the first is equal to no other.   *)
(* That no two are equal, as man/ort.5 has it, is more than the comparison *)
(* ensures: it ends at the first statement that is different.              *)
FirstOfSizeDiffers ==
  progress = "accepted" =>
    \A k, j \in DOMAIN nq :
      /\ j # k /\ Len(nq[j]) = Len(nq[k])
      /\ \A i \in 1..(k - 1) : Len(nq[i]) # Len(nq[k])
      => Range(nq[j]) # Range(nq[k])
==============================================================================
