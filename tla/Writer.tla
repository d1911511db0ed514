------------------------------- MODULE Writer --------------------------------
(***************************************************************************)
(* ort_write_file(), src/writer.c: a linked configuration as the tokens of *)
(* ort(5) again.                                                           *)
(***************************************************************************)
EXTENDS Tokens, FieldInfo

(* The tokens given for each member of a sequence, one after the other.    *)
Each(seq, Tokens(_)) == FlattenSeq([i \in DOMAIN seq |-> Tokens(seq[i])])

(* The same with a comma in between.                                       *)
Listed(seq, Tokens(_)) ==
  FlattenSeq([i \in DOMAIN seq |->
    IF i = 1 THEN Tokens(seq[i]) ELSE <<Tok(",")>> \o Tokens(seq[i])])

Words(names) == [i \in DOMAIN names |-> Word(names[i])]
When(condition, tokens) == IF condition THEN tokens ELSE <<>>
End == <<Tok(";")>>

Comment(doc) == When(doc # None, <<Word("comment"), Lit(doc)>>)

(* field "." field, a word of its own in the source.                       *)
Dotted(names) ==
  FlattenSeq([i \in DOMAIN names |->
    IF i = 1 THEN <<Word(names[i])>> ELSE <<Tok("."), Word(names[i])>>])

(***************************************************************************)
(* Fields.  The value of a date is written as it is kept, as one integer.  *)
(***************************************************************************)
DefaultValue(f) ==
  CASE f.type \in Integral -> <<Num(f.def[1])>>
    [] f.type = "real" -> <<Dec(f.def[1])>>
    [] f.type \in Textual -> <<Lit(f.def[2])>>
    [] f.type = "enum" -> <<Word(f.def[2])>>

(* Mutation: a flag is forgotten.                                          *)
FlagsUnlessNull(f) ==
  SelectSeq(<<"rowid", "unique", "noexport">>, LAMBDA w : w \in f.flags)

Flags(f) ==
  SelectSeq(<<"rowid", "unique", "null", "noexport">>, LAMBDA w : w \in f.flags)

(* A limit of a bitfield is not provided for: abort().                     *)
Limits(f) ==
  Each(f.fvq, LAMBDA v : <<Word("limit"), Word(v.op),
                           IF f.type = "real" THEN Dec(v.n) ELSE Num(v.n)>>)

Aborts(f) == f.type = "bits" /\ f.fvq # <<>>

WriteField(f) ==
  <<Word("field"), Word(f.name)>>
  \o When(f.ref # <<>> /\ f.type # "struct", <<Tok(":")>> \o Dotted(f.ref))
  \o <<Word(f.type)>>
  \o When(f.type \in {"struct", "enum", "bits"}, <<Word(f.target)>>)
  \o Words(Flags(f))
  \o When("hasdef" \in f.flags, <<Word("default")>> \o DefaultValue(f))
  \o Limits(f)
  \o When(f.actdel # "none", <<Word("actdel"), Word(f.actdel)>>)
  \o When(f.actup # "none", <<Word("actup"), Word(f.actup)>>)
  \o Comment(f.doc) \o End

(***************************************************************************)
(* Updates and deletes.                                                    *)
(***************************************************************************)
Modifier(u) == <<Word(u.field)>> \o When(u.mod # "set", <<Word(u.mod)>>)
Constraint(u) == <<Word(u.field)>> \o When(u.op # "eq", <<Word(u.op)>>)

WriteModify(u) ==
  <<Word(u.type)>>
  \o When(u.type = "update" /\ ~u.all, Listed(u.mrq, Modifier))
  \o When(u.crq # <<>> \/ u.name # None \/ u.doc # None,
          When(u.type = "update", <<Tok(":")>>)
          \o Listed(u.crq, Constraint)
          \o When(u.name # None \/ u.doc # None, <<Tok(":")>>)
          \o When(u.name # None, <<Word("name"), Word(u.name)>>) \o Comment(u.doc))
  \o End

WriteUnique(n) == <<Word("unique")>> \o Listed(n, LAMBDA f : <<Word(f)>>) \o End

(***************************************************************************)
(* Queries: the colon is written with the first of the parameters.         *)
(***************************************************************************)
Term(s) == Dotted(s.names) \o When(s.op # "eq", <<Word(s.op)>>)
Order(o) == Dotted(o.names) \o When(o.op # "asc", <<Word("desc")>>)

Parameters(s) ==
  When(s.name # None, <<Word("name"), Word(s.name)>>)
  \o When(s.ordq # <<>>, <<Word("order")>> \o Listed(s.ordq, Order))
  \o When(s.limit # 0 \/ s.offset # 0, <<Word("limit"), Num(s.limit)>>)
  \o When(s.offset # 0, <<Tok(","), Num(s.offset)>>)
  \o When(s.group # <<>>,
          <<Word("grouprow")>> \o Dotted(s.group)
          \o Each(s.aggr, LAMBDA a : <<Word(a.op)>> \o Dotted(a.names)))
  \o When(s.dst # <<>>,
          <<Word("distinct")>> \o IF s.dst = <<".">> THEN <<Tok(".")>> ELSE Dotted(s.dst))
  \o Comment(s.doc)

WriteQuery(s) ==
  <<Word(s.type)>> \o Listed(s.sntq, Term)
  \o When(Parameters(s) # <<>>, <<Tok(":")>>) \o Parameters(s) \o End

WriteRolemap(m) ==
  <<Word("roles")>> \o Listed(m.roles, LAMBDA r : <<Word(r)>>)
  \o <<Tok("{"), Word(m.type)>> \o When(m.name # None, <<Word(m.name)>>)
  \o End \o <<Tok("}")>> \o End

StatementComment(doc) == When(doc # None, Comment(doc) \o End)

WriteStrct(s) ==
  <<Word("struct"), Word(s.name), Tok("{")>>
  \o Each(s.fields, WriteField) \o Each(s.sq, WriteQuery)
  \o Each(s.uq, WriteModify) \o Each(s.dq, WriteModify)
  \o When(s.ins, <<Word("insert")>> \o End)
  \o Each(s.nq, WriteUnique) \o Each(s.rq, WriteRolemap)
  \o StatementComment(s.doc) \o <<Tok("}")>> \o End

(***************************************************************************)
(* Enumerations, bitfields and roles.                                      *)
(***************************************************************************)
WriteLabel(l) ==
  <<Word("jslabel")>> \o When(l.lang # "", <<Tok("."), Word(l.lang)>>) \o <<Lit(l.label)>>

Special(word, labels) ==
  When(labels # <<>>, <<Word(word)>> \o Each(labels, WriteLabel) \o End)

(* An assigned value is a remark only.                                     *)
WriteItem(i) ==
  <<Word("item"), Word(i.name)>> \o When(~i.auto, <<Num(i.value)>>)
  \o Each(i.labels, WriteLabel) \o Comment(i.doc) \o End \o When(i.auto, <<Tok("#")>>)

WriteType(t) ==
  <<Word(t.name), Tok("{")>> \o Each(t.items, WriteItem)
  \o Special("isunset", t.isunset) \o Special("isnull", t.isnull)
  \o StatementComment(t.doc) \o <<Tok("}")>> \o End

WriteEnum(e) == <<Word("enum")>> \o WriteType(e)
WriteBitf(b) == <<Word("bitfield")>> \o WriteType(b)

RECURSIVE WriteRoles(_, _)
WriteRoles(roles, parent) ==
  Each(SelectSeq(roles, LAMBDA r : r.parent = parent),
       LAMBDA r : <<Word("role"), Word(r.name)>> \o Comment(r.doc)
                  \o LET subs == WriteRoles(roles, r.name)
                     IN When(subs # <<>>, <<Tok("{")>> \o subs \o <<Tok("}")>>) \o End)

WriteFile(cfg) ==
  When(cfg.roles # <<>>,
       <<Word("roles"), Tok("{")>> \o WriteRoles(cfg.roles, "all") \o <<Tok("}")>> \o End)
  \o Each(cfg.enums, WriteEnum) \o Each(cfg.bitfs, WriteBitf) \o Each(cfg.strcts, WriteStrct)
==============================================================================
