------------------------------- MODULE Linker -------------------------------
(***************************************************************************)
(* ort_parse_close(), src/linker.c, from a parsed configuration to one     *)
(* that output can be written for.  The names of unique statements are     *)
(* resolved, aliases are created for all chains of struct fields, which is *)
(* where a structure that contains itself is refused, unique statements    *)
(* are compared and brought into a normal form, the structures are put in  *)
(* the order of the C header, and those with a reference that may be null, *)
(* directly or further down, are marked.  Each part relies on the ones in  *)
(* front of it.                                                            *)
(***************************************************************************)
EXTENDS Naturals, SequencesExt

CONSTANTS Configs,  \* the configurations considered: the targets of the
                    \* struct fields of each structure, those fields that may
                    \* be null, the order of declaration, and the unique
                    \* statements of one of the structures
          Letters, Fields

ASSUME ConstantsAssumption == Letters \in 1..26 /\ Fields \subseteq Nat

ASSUME ConfigsAssumption ==
  \A c \in Configs :
    /\ c.refs \in Seq(Seq(DOMAIN c.refs))
    /\ c.order \in Seq(DOMAIN c.refs)
    /\ Len(c.order) = Len(c.refs) /\ Range(c.order) = DOMAIN c.refs
    /\ c.uniques \in Seq(Seq(Nat)) /\ \A k \in DOMAIN c.uniques : Len(c.uniques[k]) >= 2

VARIABLES refs, order, nullable,                      \* structures
          nq, written, u, resolved, errs, progress,   \* UniqueStatements
          orig, stack, offs, aq, phase,               \* Aliases
          colour, height, root, now, calls, sorted,   \* StructOrder
          next,    \* position of the loop that marks structures
          marked   \* those marked STRCT_HAS_NULLREFS

UniqueVars == <<nq, written, u, resolved, errs, progress>>
AliasVars == <<orig, stack, offs, aq, phase>>
OrderVars == <<colour, height, root, now, calls, sorted>>
MarkVars == <<next, marked>>
vars == <<refs, order, nullable, UniqueVars, AliasVars, OrderVars, MarkVars>>

U == INSTANCE UniqueStatements
A == INSTANCE Aliases
O == INSTANCE StructOrder

Structs == DOMAIN refs

(* A configuration without structures is refused at once.                  *)
Init ==
  /\ \E c \in Configs :
       c.refs # <<>> /\ refs = c.refs /\ order = c.order /\ nullable = c.nullable /\ nq = c.uniques
  /\ U!Start /\ A!Start /\ O!Start
  /\ next = 1 /\ marked = {}

(* linker_resolve().                                                       *)
ResolveNames ==
  /\ U!Resolve \/ U!EndResolve
  /\ UNCHANGED <<refs, order, nullable, AliasVars, OrderVars, MarkVars>>

(* linker_aliases(), if every name was resolved.                           *)
CreateAliases ==
  /\ progress = "check"
  /\ A!Next
  /\ UNCHANGED <<nullable, UniqueVars, OrderVars, MarkVars>>

CheckUniques ==
  /\ phase = "accepted"
  /\ U!Check \/ U!EndCheck
  /\ UNCHANGED <<refs, order, nullable, AliasVars, OrderVars, MarkVars>>

OrderStructs ==
  /\ progress = "accepted"
  /\ O!Next
  /\ UNCHANGED <<nullable, UniqueVars, AliasVars, MarkVars>>

(***************************************************************************)
(* check_reffind(): whether a structure, or one it contains, has a struct  *)
(* field that may be null.  Circles have been refused.                     *)
(***************************************************************************)
(* Mutation: only the structure itself is looked at.                       *)
HasNullrefsFlat(p) == \E k \in DOMAIN refs[p] : <<p, k>> \in nullable

HasNullrefs(p) ==
  LET found[q \in Structs] ==
        \/ q \in marked
        \/ \E k \in DOMAIN refs[q] : <<q, k>> \in nullable \/ found[refs[q][k]]
  IN found[p]

MarkNullrefs ==
  /\ sorted /\ next <= Len(order)
  /\ next' = next + 1
  /\ marked' = IF HasNullrefs(order[next]) THEN marked \cup {order[next]} ELSE marked
  /\ UNCHANGED <<refs, order, nullable, UniqueVars, AliasVars, OrderVars>>

Next ==
  ResolveNames \/ CreateAliases \/ CheckUniques \/ OrderStructs \/ MarkNullrefs

Linked == sorted /\ next > Len(order)
Refused == progress = "refused" \/ phase \in {"recursive", "too many"}

(* One thread runs the linker to its end.                                  *)
Spec == Init /\ [][Next]_vars /\ WF_vars(Next)

(***************************************************************************)
(* Properties.                                                             *)
(***************************************************************************)
(* The linker ends, with every configuration: the walks over structures    *)
(* that contain themselves are cut off by the limit on aliases, where the  *)
(* structure they come back to is not the one they started from.           *)
Ends == <>(Linked \/ Refused)

(* Every circle is refused, as what follows descends without looking for   *)
(* one, and a structure refused as recursive does contain itself.          *)
CirclesRefused == A!CirclesRefused

(* Every chain of struct fields has an alias, for the assertions in        *)
(* linker_aliases_resolve() and gen_sql_stmt_join() of src/lang.c.         *)
ChainsComplete == A!ChainsComplete

(* What bounds the walks, over structures that contain themselves too: the *)
(* depth of calls is bounded by the aliases created, and these by a limit. *)
WalksCounted == A!WalksCounted

(* No two chains of a structure share an alias: they are joined in one     *)
(* statement.  Except beyond Letters * 159 aliases.                        *)
AliasesDistinct == A!AliasesDistinct

(* Accepted unique statements are in normal form, none is lost, and the    *)
(* first of a size is equal to no other.                                   *)
UniqueNormal == U!AcceptedNormal /\ U!FirstOfSizeDiffers

(* What lang-c-header.c relies on: an embedded structure is written first, *)
(* as long as no structure is embedded by two others.                      *)
TreesSorted == O!TreesSorted

(* A structure is marked exactly if one of its chains of struct fields,    *)
(* which are those with an alias, ends in a field that may be null: the    *)
(* generators print db_xxx_reffind() for the marked structures, and call   *)
(* that of a structure within only if it is marked too.                    *)
EndsIn(p, chain) == <<A!End(p, Front(chain)), Last(chain)>>

MarkedExactly ==
  Linked =>
    marked = { p \in Structs : \E k \in DOMAIN aq[p] : EndsIn(p, aq[p][k].chain) \in nullable }
==============================================================================
