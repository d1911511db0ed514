------------------------------ MODULE Resolver -------------------------------
(***************************************************************************)
(* linker_resolve(), src/linker_resolve.c, and the checks of               *)
(* ort_parse_close() on queries and roles, src/linker.c: whether the names *)
(* in a parsed configuration are those of objects that fit, and what is    *)
(* changed in the course of it.  What a pass resolves is relied upon by    *)
(* the next, which is not run if the one in front of it failed.            *)
(***************************************************************************)
EXTENDS Tokens, FieldInfo, FiniteSetsExt

Has(queue, name) == name \in Names(queue)
Find(queue, name) == queue[SelectInSeq(queue, LAMBDA x : x.name = name)]

AllIn(seq, Fits(_)) == \A i \in DOMAIN seq : Fits(seq[i])

Unary == {"isnull", "notnull"}
AsText == {"streq", "strneq"}

(***************************************************************************)
(* First pass: what is not reached through other references.               *)
(***************************************************************************)
ForeignOk(cfg, f) ==
  f.ref # <<>> =>
    /\ Has(cfg.strcts, f.ref[1])
    /\ LET fields == Find(cfg.strcts, f.ref[1]).fields
           target == Find(fields, f.ref[2])
       IN /\ Has(fields, f.ref[2])
          /\ target.type = f.type
          /\ target.flags \cap {"rowid", "unique"} # {}

TypeNameOk(cfg, f) ==
  /\ f.type = "enum" => Has(cfg.enums, f.target)
  /\ f.type = "bits" => Has(cfg.bitfs, f.target)

(* A role of a rolemap, and one of a unique statement's fields.            *)
RolesOk(cfg, m) == AllIn(m.roles, LAMBDA r : Has(cfg.roles, r))
UniqueOk(s, n) ==
  /\ AllIn(n, LAMBDA f : Has(s.fields, f) /\ Find(s.fields, f).type # "struct")
  /\ IsInjective(n)

ConstraintOk(s, c) ==
  LET type == Find(s.fields, c.field).type
  IN /\ Has(s.fields, c.field)
     /\ type # "struct"
     /\ type = "password" => c.op \in AsText \cup Unary
     /\ c.op = "like" => type \in Textual

ModifierOk(s, u) ==
  LET type == Find(s.fields, u.field).type
  IN /\ Has(s.fields, u.field)
     /\ type # "struct"
     /\ u.mod = "concat" => type \in Textual \cup {"blob"}
     /\ u.mod \in {"inc", "dec"} => type \in Integral \cup {"enum", "real"}

UpdateOk(s, u) ==
  AllIn(u.crq, LAMBDA c : ConstraintOk(s, c)) /\ AllIn(u.mrq, LAMBDA c : ModifierOk(s, c))

FirstPass(cfg) ==
  AllIn(cfg.strcts, LAMBDA s :
    /\ AllIn(s.fields, LAMBDA f : ForeignOk(cfg, f) /\ TypeNameOk(cfg, f))
    /\ AllIn(s.rq, LAMBDA m : RolesOk(cfg, m))
    /\ AllIn(s.nq, LAMBDA n : UniqueOk(s, n))
    /\ AllIn(s.uq \o s.dq, LAMBDA u : UpdateOk(s, u)))

(***************************************************************************)
(* Second pass: defaults, sources of struct fields, rolemaps.              *)
(***************************************************************************)
DefaultOk(cfg, f) ==
  f.type = "enum" /\ "hasdef" \in f.flags => Has(Find(cfg.enums, f.target).items, f.def[2])

SourceOk(s, f) ==
  f.type = "struct" =>
    Has(s.fields, f.target) /\ IsReference(Find(s.fields, f.target))

RolemapOk(s, m) ==
  CASE m.type = "all" -> TRUE
    [] m.type = "insert" -> s.ins
    [] m.type = "update" -> Has(s.uq, m.name)
    [] m.type = "delete" -> Has(s.dq, m.name)
    [] m.type = "noexport" -> m.name = None \/ Has(s.fields, m.name)
    [] OTHER -> \E i \in DOMAIN s.sq : s.sq[i].type = m.type /\ s.sq[i].name = m.name

(* resolve_struct_rolemap_field(): roles are added to the rolemap that is  *)
(* there until one is met that it has.                                     *)
Merged(roles, more) ==
  LET known == { k \in DOMAIN more : more[k] \in Range(roles) \cup Range(SubSeq(more, 1, k - 1)) }
  IN roles \o SubSeq(more, 1, IF known = {} THEN Len(more) ELSE Min(known) - 1)

(* Of the rolemap for all fields and the one of a field, the latter of the *)
(* two is merged into the former.                                          *)
SharesField(m, n) ==
  m.type = "noexport" /\ n.type = "noexport" /\ (m.name = None) # (n.name = None)

NoexportMerged(rq) ==
  [j \in DOMAIN rq |-> [rq[j] EXCEPT !.roles =
     FoldLeft(LAMBDA roles, k : IF k > j /\ SharesField(rq[j], rq[k])
                                THEN Merged(roles, rq[k].roles) ELSE roles,
              @, [k \in DOMAIN rq |-> k])]]

SecondPass(cfg) ==
  AllIn(cfg.strcts, LAMBDA s :
    /\ AllIn(s.fields, LAMBDA f : DefaultOk(cfg, f) /\ SourceOk(s, f))
    /\ AllIn(s.rq, LAMBDA m : RolemapOk(s, m)))

(***************************************************************************)
(* Third pass: chains of fields, each a struct that may not be null but    *)
(* for the last.  ResolveChain has the structure and the field it ends in, *)
(* or is empty.                                                            *)
(***************************************************************************)
Source(s, f) == Find(s.fields, f.target)
Embedded(cfg, s, f) == Find(cfg.strcts, Source(s, f).ref[1])
Followed(s, f) == f.type = "struct" /\ "null" \notin Source(s, f).flags

ResolveChain(cfg, s, names) ==
  LET InField(p, i) == IF Has(p.fields, names[i]) THEN <<p, Find(p.fields, names[i])>> ELSE <<>>
      at[i \in 1..Len(names)] ==
        IF i = 1 THEN InField(s, 1)
        ELSE LET p == at[i - 1]
             IN IF p # <<>> /\ Followed(p[1], p[2])
                THEN InField(Embedded(cfg, p[1], p[2]), i) ELSE <<>>
  IN at[Len(names)]

Ends(cfg, s, names, Fits(_)) ==
  LET last == ResolveChain(cfg, s, names) IN last # <<>> /\ Fits(last[2])

NoStruct(f) == f.type # "struct"
Comparable(f) == f.type \notin {"struct", "password"} /\ "null" \notin f.flags

DistinctOk(cfg, s, names) ==
  LET last == ResolveChain(cfg, s, names) IN last # <<>> /\ Followed(last[1], last[2])

ChainsOk(cfg, s, q) ==
  /\ AllIn(q.sntq, LAMBDA t : Ends(cfg, s, t.names, NoStruct))
  /\ AllIn(q.ordq, LAMBDA o : Ends(cfg, s, o.names, NoStruct))
  /\ AllIn(q.aggr, LAMBDA a : Ends(cfg, s, a.names, Comparable))
  /\ q.group # <<>> => Ends(cfg, s, q.group, Comparable)
  /\ q.dst \notin {<<>>, <<".">>} => DistinctOk(cfg, s, q.dst)

(* The structure that a query has results of.                              *)
Result(cfg, s, q) ==
  LET last == ResolveChain(cfg, s, q.dst)
  IN IF q.dst \in {<<>>, <<".">>} THEN s.name ELSE Embedded(cfg, last[1], last[2]).name

(* Mutation: the structure of the query is flagged, not the distinct one.  *)
FlagDistinctOwn(cfg, name) ==
  LET s == Find(cfg.strcts, name)
      chained == { s.sq[k].type : k \in { k \in DOMAIN s.sq : s.sq[k].dst # <<>> } }
  IN (IF "list" \in chained THEN {"queue"} ELSE {})
     \cup (IF "iterate" \in chained THEN {"iterator"} ELSE {})

(* What lists and iterators with "distinct" ask of a structure.            *)
FlagDistinct(cfg, name) ==
  LET Asked(type) == \E i \in DOMAIN cfg.strcts : \E k \in DOMAIN cfg.strcts[i].sq :
        LET q == cfg.strcts[i].sq[k]
        IN /\ q.type = type /\ q.dst \notin {<<>>, <<".">>}
           /\ Result(cfg, cfg.strcts[i], q) = name
  IN (IF Asked("list") THEN {"queue"} ELSE {})
     \cup (IF Asked("iterate") THEN {"iterator"} ELSE {})

(* The roles of "all" are added to the rolemap of each operation.          *)
Covered(rq) ==
  LET all == FlattenSeq([k \in DOMAIN rq |-> IF rq[k].type = "all" THEN rq[k].roles ELSE <<>>])
  IN [k \in DOMAIN rq |->
        IF rq[k].type \in {"all", "noexport"} THEN rq[k]
        ELSE [rq[k] EXCEPT !.roles = @ \o SelectSeq(all, LAMBDA r : ~Contains(rq[k].roles, r))]]

ThirdPass(cfg) ==
  AllIn(cfg.strcts, LAMBDA s : AllIn(s.sq, LAMBDA q : ChainsOk(cfg, s, q)))

Resolved(cfg) ==
  [cfg EXCEPT !.strcts = [i \in DOMAIN @ |->
     [@[i] EXCEPT !.flags = @ \cup FlagDistinct(cfg, cfg.strcts[i].name),
                  !.rq = Covered(NoexportMerged(@))]]]

Resolves(cfg) == FirstPass(cfg) /\ SecondPass(cfg) /\ ThirdPass(cfg)

(***************************************************************************)
(* linker_aliases_create(): no structure contains itself.                  *)
(***************************************************************************)
EmbeddedIn(cfg, names) ==
  UNION { LET s == Find(cfg.strcts, n)
          IN { Embedded(cfg, s, s.fields[k]).name :
                 k \in { k \in DOMAIN s.fields : s.fields[k].type = "struct" } } : n \in names }

Recursive(cfg) ==
  LET within[k \in 1..Len(cfg.strcts), n \in Names(cfg.strcts)] ==
        IF k = 1 THEN EmbeddedIn(cfg, {n}) ELSE EmbeddedIn(cfg, within[k - 1, n])
  IN \E k \in 1..Len(cfg.strcts), n \in Names(cfg.strcts) : n \in within[k, n]

(***************************************************************************)
(* The checks of linker.c on unique statements, roles and queries.         *)
(***************************************************************************)
(* A statement is compared with those of its size until one differs.       *)
UniquesOk(s) ==
  \A i \in DOMAIN s.nq :
    LET same == SelectSeq(RemoveAt(s.nq, i), LAMBDA n : Len(n) = Len(s.nq[i]))
    IN same # <<>> => Range(s.nq[i]) # Range(same[1])

RolesUnique(s) == AllIn(s.rq, LAMBDA m : IsInjective(m.roles))

AggrOk(cfg, s, q) ==
  q.aggr # <<>> =>
    LET by == ResolveChain(cfg, s, q.aggr[1].names)
        group == ResolveChain(cfg, s, q.group)
    IN by[2].name # group[2].name /\ by[1].name = group[1].name

TermOk(q, op, type) ==
  /\ op \in {"and", "or"} => type \in {"bit", "bits", "int"}
  /\ op = "like" => type \in Textual
  /\ type = "password" /\ op \notin AsText \cup Unary =>
       op \in {"eq", "neq"} /\ q.type # "count" /\ q.dst = <<>>

SearchOk(cfg, s, q) ==
  AllIn(q.sntq, LAMBDA t : TermOk(q, t.op, ResolveChain(cfg, s, t.names)[2].type))

Checked(cfg) ==
  AllIn(cfg.strcts, LAMBDA s :
    /\ UniquesOk(s) /\ RolesUnique(s)
    /\ AllIn(s.sq, LAMBDA q : AggrOk(cfg, s, q) /\ SearchOk(cfg, s, q)))

(***************************************************************************)
(* ort_parse_close().  Aliases, the order of structures and marks, on      *)
(* which writing does not depend, are those of Linker.                     *)
(***************************************************************************)
ParseClose(cfg) ==
  IF cfg.strcts # <<>> /\ Resolves(cfg) /\ ~Recursive(cfg) /\ Checked(Resolved(cfg))
  THEN [ok |-> TRUE, cfg |-> Resolved(cfg)] ELSE [ok |-> FALSE, cfg |-> cfg]
==============================================================================
