------------------------------- MODULE Aliases -------------------------------
(***************************************************************************)
(* linker_aliases_create(), src/linker_aliases.c: for every structure, one *)
(* SQL alias for each chain of struct fields that starts at it, which is   *)
(* where structures that contain themselves are refused.  The recursion is *)
(* over any structures, so it is also what has to end when they do.        *)
(***************************************************************************)
EXTENDS Naturals, SequencesExt

CONSTANT Letters   \* 26

VARIABLES refs,   \* the targets of the struct fields of each structure, in
                  \* order; structures are numbered
          order,  \* cfg->sq, the structures in the order of declaration
          orig,   \* position of the structure aliases are created for, from 1
          stack,  \* calls: structure, next field, the chain so far
          offs,   \* aliases created so far, over all structures
          aq,     \* the aliases of each structure: chain and alias
          phase
vars == <<refs, order, orig, stack, offs, aq, phase>>

Structs == DOMAIN refs
Limit == Letters * Letters * Letters

Call(p, chain) == [at |-> p, field |-> 1, chain |-> chain]

Start ==
  /\ orig = 0 /\ stack = <<>> /\ offs = 0
  /\ aq = [p \in Structs |-> <<>>]
  /\ phase = "create"

(***************************************************************************)
(* The alias, as the bytes of a C string: letters are counted from 'a', a  *)
(* char has 256 values, and the string ends at the byte zero.              *)
(***************************************************************************)
Letter(n) == (n + 97) % 256

UntilZero(bytes) ==
  SelectInSeq(bytes, LAMBDA b : b = 0)

Digits(n) ==
  IF n >= Letters * Letters
  THEN <<Letter(n \div (Letters * Letters)), Letter(n \div Letters),
         Letter(n % Letters)>>
  ELSE IF n >= Letters
  THEN <<Letter(n \div Letters), Letter(n % Letters)>>
  ELSE <<Letter(n)>>

Alias(n) ==
  LET zero == UntilZero(Digits(n))
  IN IF zero = 0 THEN Digits(n) ELSE SubSeq(Digits(n), 1, zero - 1)

(***************************************************************************)
(* One struct field of the structure in the innermost call.                *)
(***************************************************************************)
Top == Last(stack)
Target == refs[Top.at][Top.field]
Origin == order[orig]
Advanced == Append(Front(stack), [Top EXCEPT !.field = @ + 1])

(* Mutation: any circle is refused, with the structure it started from.    *)
RefuseAnyCircle ==
  /\ \E k \in DOMAIN stack : stack[k].at = Target
  /\ phase' = "recursive"
  /\ UNCHANGED <<refs, order, orig, stack, offs, aq>>

Refuse ==
  /\ Target = Origin /\ phase' = "recursive"
  /\ UNCHANGED <<refs, order, orig, stack, offs, aq>>

(* The alias is in the queue when the limit is noticed.                    *)
Exhaust ==
  /\ Target # Origin /\ offs >= Limit /\ phase' = "too many"
  /\ UNCHANGED <<refs, order, orig, stack, offs, aq>>

Entry(chain) == [chain |-> chain, alias |-> Alias(offs)]

(* Mutation: the chain of the caller is not put in front.                  *)
CreateUnchained ==
  LET chain == <<Top.field>> IN
  /\ Target # Origin /\ offs < Limit
  /\ offs' = offs + 1
  /\ aq' = [aq EXCEPT ![Origin] = Append(@, Entry(chain))]
  /\ stack' = Append(Advanced, Call(Target, chain))
  /\ UNCHANGED <<refs, order, orig, phase>>

(* Mutation: only the aliases of the outermost call are counted.           *)
CreateUncounted ==
  LET chain == Append(Top.chain, Top.field) IN
  /\ Target # Origin /\ offs < Limit
  /\ offs' = IF Len(stack) = 1 THEN offs + 1 ELSE offs
  /\ aq' = [aq EXCEPT ![Origin] = Append(@, Entry(chain))]
  /\ stack' = Append(Advanced, Call(Target, chain))
  /\ UNCHANGED <<refs, order, orig, phase>>

Create ==
  LET chain == Append(Top.chain, Top.field) IN
  /\ Target # Origin /\ offs < Limit
  /\ offs' = offs + 1
  /\ aq' = [aq EXCEPT ![Origin] = Append(@, Entry(chain))]
  /\ stack' = Append(Advanced, Call(Target, chain))
  /\ UNCHANGED <<refs, order, orig, phase>>

Field ==
  /\ phase = "create" /\ stack # <<>> /\ Top.field <= Len(refs[Top.at])
  /\ Refuse \/ Exhaust \/ Create

Return ==
  /\ phase = "create" /\ stack # <<>> /\ Top.field > Len(refs[Top.at])
  /\ stack' = Front(stack)
  /\ UNCHANGED <<refs, order, orig, offs, aq, phase>>

(* linker_aliases(): the next structure, with the same counter.            *)
NextStruct ==
  /\ phase = "create" /\ stack = <<>>
  /\ IF orig = Len(refs)
     THEN phase' = "accepted" /\ UNCHANGED <<orig, stack>>
     ELSE /\ orig' = orig + 1 /\ stack' = <<Call(order[orig + 1], <<>>)>>
          /\ UNCHANGED phase
  /\ UNCHANGED <<refs, order, offs, aq>>

Next == Field \/ Return \/ NextStruct

(***************************************************************************)
(* Properties.                                                             *)
(***************************************************************************)
Reaches(p, q) ==
  \A S \in SUBSET Structs :
    /\ Range(refs[p]) \subseteq S
    /\ \A s \in S : Range(refs[s]) \subseteq S
    => q \in S

(* man/ort.5: sub-structures may not be recursive.  So no structure of an  *)
(* accepted configuration contains itself, however indirectly, although    *)
(* the search is only for the structure it started from; and a structure   *)
(* named in the message does contain itself.                               *)
CirclesRefused ==
  /\ phase = "accepted" => \A p \in Structs : ~Reaches(p, p)
  /\ phase = "recursive" => Reaches(Origin, Origin)

(* The walks are cut off although structures may contain themselves: each  *)
(* call but the outermost has an alias, and there are never too many.      *)
WalksCounted == offs <= Limit /\ Len(stack) <= offs + 1

(* Every chain of struct fields has an alias, as the assertions in         *)
(* linker_aliases_resolve() expect: the reference is the set of chains.    *)
End(p, chain) ==
  LET at[k \in 0..Len(chain)] ==
        IF k = 0 THEN p
        ELSE IF at[k - 1] # 0 /\ chain[k] \in DOMAIN refs[at[k - 1]]
             THEN refs[at[k - 1]][chain[k]] ELSE 0
  IN at[Len(chain)]

Places == UNION { DOMAIN refs[p] : p \in Structs }
ChainsComplete ==
  phase = "accepted" =>
    \A p \in Structs :
      { aq[p][k].chain : k \in DOMAIN aq[p] } =
      { chain \in BoundedSeq(Places, Len(refs)) : chain # <<>> /\ End(p, chain) # 0 }

(* No two chains of a structure share an alias: they are joined in one     *)
(* statement.  Except for a configuration of more than Letters * 159       *)
(* aliases, where letters are the byte zero.                               *)
AliasesDistinct ==
  phase = "accepted" /\ offs <= Letters * 159 =>
    \A p \in Structs :
      Cardinality({ aq[p][k].alias : k \in DOMAIN aq[p] }) = Len(aq[p])
==============================================================================
