---------------------------- MODULE StructParser -----------------------------
(***************************************************************************)
(* The statements of a structure and the structure itself: a field with    *)
(* the tokens of FieldInfo, src/parser_field.c, and the other statements,  *)
(* src/parser_struct.c.  A query, an update or a unique statement is in    *)
(* the queue of the structure from its first token, so it stays there when *)
(* the file ends within it.  What is being read is the innermost object of *)
(* the parse.                                                              *)
(***************************************************************************)
EXTENDS Tokens, FieldInfo

(***************************************************************************)
(* A field statement.                                                      *)
(***************************************************************************)
Aliased(type) ==
  CASE type = "bitfield" -> "bits" [] type = "integer" -> "int" [] type = "double" -> "real"
    [] type = "passwd" -> "password" [] type = "txt" -> "text" [] OTHER -> type

(***************************************************************************)
(* The argument of a property.  The parse is stopped if a token is missing. *)
(***************************************************************************)
Arg(p, arg) == [p |-> p, arg |-> arg]

LimitArg(p) ==
  LET op == Expect(p, "ident")
      v == ParseNext(op)
  IN Arg(Check(v, v.last.k \in {"integer", "decimal"}),
         [op |-> op.last.s, kind |-> v.last.k, n |-> v.last.n])

(* Three integers: year, -month and -day, kept as one number that orders   *)
(* and tells apart dates as the time in seconds does.                      *)
DateArg(p) ==
  LET year == Expect(p, "integer")
      month == Expect(year, "integer")
      day == Expect(month, "integer")
  IN Arg(Check(day, month.last.n < 0 /\ day.last.n < 0),
         [kind |-> "date", s |-> "",
          n |-> 372 * year.last.n - 31 * month.last.n - day.last.n])

DefaultArg(p) ==
  LET v == ParseNext(p)
  IN IF p.o.type = "date" THEN DateArg(p)
     ELSE Arg(v, [kind |-> v.last.k, s |-> v.last.s, n |-> v.last.n])

ActionArg(p) == LET v == Expect(p, "ident") IN Arg(v, v.last)

InfoArg(p, name) ==
  CASE name = "limit" -> LimitArg(p)
    [] name = "default" -> DefaultArg(p)
    [] name \in {"actdel", "actup"} -> ActionArg(p)
    [] OTHER -> Arg(p, <<>>)

(* One round of the loop in parse_field_info(), at its first token.        *)
FieldProperty(p) ==
  LET read == InfoArg(p, p.last.s)
      done == Info(p.o, p.s.rowid, [name |-> p.last.s, arg |-> read.arg])
  IN IF ~Is(p, "ident") THEN Errx(p)
     ELSE IF IsWord(p, "comment") THEN ParseComment(p)
     ELSE IF Stop(read.p) THEN Errx(read.p)
     ELSE [Check(read.p, done.ok) EXCEPT !.o = done.fd, !.s.rowid = done.rowid]

RECURSIVE ParseFieldInfo(_)
ParseFieldInfo(p) ==
  IF Stop(p) \/ Is(p, ";") THEN p ELSE ParseFieldInfo(ParseNext(FieldProperty(p)))

(* parse_field_foreign(): ":" structure "." field.                         *)
FieldForeign(p) ==
  LET strct == Expect(p, "ident")
      field == Expect(Expect(strct, "."), "ident")
  IN [field EXCEPT !.o.ref = <<strct.last.s, field.last.s>>]

(* The type, and what it refers to.                                        *)
FieldType(p) ==
  LET type == Aliased(p.last.s)
      typed == [p EXCEPT !.o.type = type]
      target == Expect(typed, "ident")
  IN IF ~Is(p, "ident") \/ type \notin Types THEN Errx(p)
     ELSE IF type \notin {"bits", "enum", "struct"} THEN typed
     ELSE IF type = "struct" /\ p.o.ref # <<>> THEN Errx(p)
     ELSE [target EXCEPT !.o.target = target.last.s]

FieldAlloc(p) ==
  IF GoodIdent(p.last.s) /\ p.last.s \notin Names(p.s.fields)
  THEN [p EXCEPT !.o = NewField(p.last.s, "int", <<>>, "")]
  ELSE Errx(p)

(* The field is put into the structure when it is allocated, so that it is *)
(* there however the statement ends.                                       *)
FieldDone(p) ==
  [p EXCEPT !.s.fields = Append(@, p.o),
            !.s.flags = IF p.o.type = "blob" THEN @ \cup {"blob"} ELSE @]

ParseField(p) ==
  LET name == Expect(p, "ident")
      alloc == FieldAlloc(name)
      after == ParseNext(alloc)
      ref == FieldForeign(after)
      more == IF Is(after, ":") THEN ParseNext(ref) ELSE after
      info == ParseFieldInfo(ParseNext(FieldType(more)))
  IN IF Stop(name) \/ Stop(alloc) THEN Errx(name)
     ELSE IF Is(more, ";") THEN FieldDone(more)
     ELSE FieldDone(Check(info, ActionsBacked(info.o)))

(***************************************************************************)
(* The other statements.                                                   *)
(***************************************************************************)
OpTypes == {"eq", "ge", "gt", "le", "lt", "neq", "like", "and", "or", "streq",
            "strneq", "isnull", "notnull"}
ModTypes == {"concat", "dec", "inc", "set", "strset"}
QueryTypes == {"count", "search", "list", "iterate"}

NewStrct(name) ==
  [name |-> name, fields |-> <<>>, rowid |-> "", flags |-> {}, sq |-> <<>>, uq |-> <<>>,
   dq |-> <<>>, ins |-> FALSE, nq |-> <<>>, rq |-> <<>>, doc |-> None]

NewSearch(type) ==
  [type |-> type, sntq |-> <<>>, name |-> None, ordq |-> <<>>, limit |-> 0, offset |-> 0,
   group |-> <<>>, aggr |-> <<>>, dst |-> <<>>, doc |-> None]

NewUpdate(type) ==
  [type |-> type, all |-> FALSE, mrq |-> <<>>, crq |-> <<>>, name |-> None, doc |-> None]

(***************************************************************************)
(* field["." field]*, with what ends it as the last token.  The names are  *)
(* those of the resolver.                                                  *)
(***************************************************************************)
RECURSIVE ChainFrom(_, _, _)
ChainFrom(p, names, ends) ==
  LET q == ParseNext(p)
      r == Expect(q, "ident")
  IN IF q.last.k \in ends THEN [p |-> q, names |-> names]
     ELSE IF ~Is(q, ".") \/ Stop(r) THEN [p |-> Errx(q), names |-> names]
     ELSE ChainFrom(r, Append(names, r.last.s), ends)

Chain(p, ends) ==
  IF Is(p, "ident") THEN ChainFrom(p, <<p.last.s>>, ends)
  ELSE [p |-> Errx(p), names |-> <<>>]

(***************************************************************************)
(* The parameters of a query.  Each begins and ends at the first token     *)
(* that is not its own.                                                    *)
(***************************************************************************)
DistinctTerm(p) ==
  LET c == Chain(p, {";", "ident"})
  IN IF p.o.dst # <<>> THEN Errx(p)
     ELSE IF Is(p, ".") THEN ParseNext([p EXCEPT !.o.dst = <<".">>])
     ELSE [c.p EXCEPT !.o.dst = c.names]

AggrTerms(p, type) ==
  LET c == Chain(p, {";", "ident"})
  IN IF p.o.aggr # <<>> THEN Errx(p)
     ELSE [c.p EXCEPT !.o.aggr = <<[op |-> type, names |-> c.names]>>]

GroupTerms(p) ==
  LET c == Chain(p, {";", "ident"})
  IN IF p.o.group # <<>> THEN Errx(p) ELSE [c.p EXCEPT !.o.group = c.names]

(* A word that is neither "asc" nor "desc" is the next parameter.          *)
OrderTerm(p) ==
  LET c == Chain(p, {",", ";", "ident"})
      op == IF IsWord(c.p, "desc") THEN "desc" ELSE "asc"
      q == IF IsWord(c.p, "asc") \/ IsWord(c.p, "desc") THEN ParseNext(c.p) ELSE c.p
  IN [q EXCEPT !.o.ordq = Append(@, [op |-> op, names |-> c.names])]

RECURSIVE OrderTerms(_)
OrderTerms(p) ==
  LET q == OrderTerm(p)
  IN IF Is(q, ",") THEN OrderTerms(ParseNext(q)) ELSE q

LimitParams(p) ==
  LET limited == [p EXCEPT !.o.limit = p.last.n]
      comma == ParseNext(limited)
      off == ParseNext(comma)
  IN IF ~Is(p, "integer") \/ p.last.n < 0 THEN Errx(p)
     ELSE IF ~Is(comma, ",") THEN comma
     ELSE IF ~Is(off, "integer") \/ off.last.n < 0 THEN Errx(off)
     ELSE ParseNext([off EXCEPT !.o.offset = off.last.n])

(* The query itself is among those whose names are compared.               *)
QueryName(p) ==
  LET q == Expect(p, "ident")
  IN IF Stop(q) \/ q.last.s \in Names(q.s.sq) \cup {q.o.name} THEN Errx(q)
     ELSE ParseNext([q EXCEPT !.o.name = q.last.s])

SearchParam(p) ==
  CASE IsWord(p, "name") -> QueryName(p)
    [] IsWord(p, "comment") -> ParseNext(ParseComment(p))
    [] IsWord(p, "limit") -> LimitParams(ParseNext(p))
    [] IsWord(p, "minrow") -> AggrTerms(ParseNext(p), "minrow")
    [] IsWord(p, "maxrow") -> AggrTerms(ParseNext(p), "maxrow")
    [] IsWord(p, "order") -> OrderTerms(ParseNext(p))
    [] IsWord(p, "grouprow") -> GroupTerms(ParseNext(p))
    [] IsWord(p, "distinct") -> DistinctTerm(ParseNext(p))
    [] OTHER -> Errx(p)

RECURSIVE SearchParamsFrom(_)
SearchParamsFrom(p) ==
  IF Stop(p) \/ Is(p, ";") THEN p ELSE SearchParamsFrom(SearchParam(p))

(* A group needs an aggregate and the other way round.                     *)
GroupBacked(p) == Check(p, (p.o.group = <<>>) = (p.o.aggr = <<>>))
SearchParams(p) == GroupBacked(SearchParamsFrom(ParseNext(p)))

(***************************************************************************)
(* field["." field]* [operator], one or more of them.                      *)
(***************************************************************************)
SearchTerm(p) ==
  LET c == Chain(p, {",", ";", ":", "ident"})
      op == c.p.last.s
      q == ParseNext(c.p)
  IN IF ~Is(c.p, "ident")
     THEN [c.p EXCEPT !.o.sntq = Append(@, [op |-> "eq", names |-> c.names])]
     ELSE [Check(q, op \in OpTypes /\ q.last.k \in {",", ";", ":"}) EXCEPT
             !.o.sntq = Append(@, [op |-> op, names |-> c.names])]

RECURSIVE SearchTerms(_)
SearchTerms(p) ==
  LET q == SearchTerm(p)
  IN IF Is(q, ",") THEN SearchTerms(ParseNext(q)) ELSE q

(* A query that returns its own structure asks for a queue or an iterator. *)
SearchDone(p, own) ==
  LET flag == CASE p.o.type = "list" -> {"queue"}
                [] p.o.type = "iterate" -> {"iterator"} [] OTHER -> {}
  IN [p EXCEPT !.s.sq = Append(@, p.o), !.s.flags = IF own THEN @ \cup flag ELSE @]

WithParams(p) == IF Is(p, ":") THEN SearchParams(p) ELSE p

SearchFlagged(p) == SearchDone(p, p.o.dst \in {<<>>, <<".">>})

SearchFrom(p) ==
  CASE Is(p, "ident") -> SearchFlagged(WithParams(SearchTerms(p)))
    [] p.last.k \in {":", ";"} \/ Stop(p) -> SearchFlagged(WithParams(p))
    [] OTHER -> SearchDone(Errx(p), FALSE)

ParseSearch(p) == SearchFrom(ParseNext([p EXCEPT !.o = NewSearch(p.last.s)]))

(***************************************************************************)
(* unique field ["," field]+ ";".                                          *)
(***************************************************************************)
RECURSIVE UniqueFields(_)
UniqueFields(p) ==
  LET f == Expect(p, "ident")
      q == ParseNext([f EXCEPT !.o = Append(@, f.last.s)])
  IN IF Stop(f) THEN f
     ELSE IF Is(q, ";") THEN q
     ELSE IF Is(q, ",") THEN UniqueFields(q) ELSE Errx(q)

ParseUnique(p) ==
  LET q == UniqueFields([p EXCEPT !.o = <<>>])
  IN [Check(q, Len(q.o) >= 2) EXCEPT !.s.nq = Append(@, q.o)]

(***************************************************************************)
(* update [field [modifier]]* [":" [field [operator]]* [":" terms]] ";",   *)
(* where delete begins with the fields of the constraint.                  *)
(***************************************************************************)
AddRef(p, queue, field, how) ==
  IF queue = "mrq" THEN [p EXCEPT !.o.mrq = Append(@, [field |-> field, mod |-> how])]
  ELSE [p EXCEPT !.o.crq = Append(@, [field |-> field, op |-> how])]

RECURSIVE UpdateRefs(_, _)
UpdateRefs(p, queue) ==
  LET field == p.last.s
      q == ParseNext(p)
      how == IF Is(q, "ident") THEN q.last.s ELSE IF queue = "mrq" THEN "set" ELSE "eq"
      r == IF Is(q, "ident") THEN ParseNext(q) ELSE q
      added == AddRef(r, queue, field, how)
  IN IF ~Is(p, "ident") \/ how \notin (IF queue = "mrq" THEN ModTypes ELSE OpTypes)
     THEN Errx(p)
     ELSE IF r.last.k \in {":", ";"} THEN added
     ELSE IF Is(r, ",") THEN UpdateRefs(Expect(added, "ident"), queue)
     ELSE Errx(added)

UpdateTerm(p) ==
  LET name == Expect(p, "ident")
  IN CASE IsWord(p, "name") ->
            IF Stop(name) THEN name ELSE ParseNext([name EXCEPT !.o.name = name.last.s])
       [] IsWord(p, "comment") -> ParseNext(ParseComment(p))
       [] OTHER -> Errx(p)

RECURSIVE UpdateTerms(_)
UpdateTerms(p) ==
  IF Stop(p) \/ Is(p, ";") THEN p ELSE UpdateTerms(UpdateTerm(p))

UpdateConstraints(p) ==
  LET q == IF Is(p, ":") \/ Is(p, ";") THEN p ELSE UpdateRefs(p, "crq")
  IN IF Is(q, ":") THEN UpdateTerms(ParseNext(q)) ELSE q

UpdateModifiers(p) ==
  LET q == IF Is(p, ":") \/ Is(p, ";") THEN p ELSE UpdateRefs(p, "mrq")
  IN IF Is(q, ":") THEN UpdateConstraints(ParseNext(q)) ELSE q

ParseUpdate(p) ==
  LET q == ParseNext([p EXCEPT !.o = NewUpdate(p.last.s)])
  IN IF IsWord(p, "update")
     THEN LET r == UpdateModifiers(q) IN [r EXCEPT !.s.uq = Append(@, r.o)]
     ELSE LET r == UpdateConstraints(q) IN [r EXCEPT !.s.dq = Append(@, r.o)]

(***************************************************************************)
(* roles role ["," role]* "{" [type [name] ";"]* "}" ";".                  *)
(***************************************************************************)
RolemapTypes == QueryTypes \cup {"all", "delete", "insert", "update", "noexport"}

RECURSIVE RoleNames(_)
RoleNames(p) ==
  LET r == Expect(p, "ident")
      q == ParseNext([r EXCEPT !.o = Append(@, r.last.s)])
  IN IF Stop(r) \/ IsWord(r, "none") THEN Errx(r)
     ELSE IF Is(q, ",") THEN RoleNames(q) ELSE Check(q, Is(q, "{"))

(* rolemap_assign(): roles are added to a map there is.                    *)
RolemapAssign(p, type, name) ==
  LET known == SelectInSeq(p.s.rq, LAMBDA m : m.type = type /\ m.name = name)
  IN IF known # 0 THEN [p EXCEPT !.s.rq[known].roles = @ \o p.o]
     ELSE [p EXCEPT !.s.rq = Append(@, [type |-> type, name |-> name, roles |-> p.o])]

RECURSIVE RoleOperations(_)
RoleOperations(p) ==
  LET q == ParseNext(p)
      type == q.last.s
      r == ParseNext(q)
      name == IF Is(r, "ident") THEN r.last.s ELSE None
      last == IF Is(r, "ident") THEN ParseNext(r) ELSE r
  IN IF Is(q, "}") THEN q
     ELSE IF ~Is(q, "ident") \/ type \notin RolemapTypes THEN Errx(q)
     ELSE IF \/ name # None /\ type \in {"insert", "all"}
             \/ name = None /\ type \notin {"insert", "all", "noexport"}
             \/ ~Is(last, ";") THEN Errx(last)
     ELSE RoleOperations(RolemapAssign(last, type, name))

ParseRoles(p) ==
  LET q == RoleNames([p EXCEPT !.o = <<>>])
  IN IF Stop(q) THEN q ELSE LET r == RoleOperations(q) IN Expect(r, ";")

(***************************************************************************)
(* One statement, at its first token.                                      *)
(***************************************************************************)
StructComment(p) ==
  LET q == ParseComment([p EXCEPT !.o = p.s])
  IN IF Stop(q) THEN q ELSE Expect([q EXCEPT !.s.doc = q.o.doc], ";")

ParseInsert(p) == IF p.s.ins THEN Errx(p) ELSE Expect([p EXCEPT !.s.ins = TRUE], ";")

StructStatement(p) ==
  CASE IsWord(p, "comment") -> StructComment(p)
    [] IsWord(p, "insert") -> ParseInsert(p)
    [] IsWord(p, "unique") -> ParseUnique(p)
    [] IsWord(p, "roles") -> ParseRoles(p)
    [] IsWord(p, "field") -> ParseField(p)
    [] \E t \in QueryTypes : IsWord(p, t) -> ParseSearch(p)
    [] IsWord(p, "update") \/ IsWord(p, "delete") -> ParseUpdate(p)
    [] OTHER -> Errx(p)

(***************************************************************************)
(* parse_struct_post(): an update without modifiers is one of all fields   *)
(* but the rowid and struct fields, those declared after it included.      *)
(***************************************************************************)
Updatable(s) == SelectSeq(s.fields, LAMBDA f : "rowid" \notin f.flags /\ f.type # "struct")

Inherit(s) ==
  LET fields == Updatable(s)
      all == [f \in DOMAIN fields |-> [field |-> fields[f].name, mod |-> "set"]]
  IN [s EXCEPT !.uq = [k \in DOMAIN @ |->
        IF @[k].mrq # <<>> THEN @[k] ELSE [@[k] EXCEPT !.all = TRUE, !.mrq = all]]]

StrctDone(p) == [p EXCEPT !.cfg.strcts = Append(@, p.s)]

(* At the closing brace.  When the file has ended the structure stays as   *)
(* it is.                                                                  *)
CloseStruct(p) ==
  LET q == Expect(p, ";")
  IN IF Stop(p) THEN StrctDone(p)
     ELSE StrctDone(Check([q EXCEPT !.s = Inherit(q.s)], q.s.fields # <<>>))

OpenStruct(p) ==
  LET name == Expect(p, "ident")
      new == [name EXCEPT !.s = NewStrct(name.last.s)]
  IN IF \/ Stop(name) \/ ~GoodIdent(name.last.s)
        \/ name.last.s \in TopLevelNames(name.cfg)
     THEN Errx(name)
     ELSE Expect(new, "{")

RECURSIVE StructStatements(_)
StructStatements(p) ==
  IF Stop(p) \/ Is(p, "}") THEN p ELSE StructStatements(ParseNext(StructStatement(p)))

ParseStruct(p) ==
  LET q == OpenStruct(p)
  IN IF Stop(q) THEN q ELSE CloseStruct(StructStatements(ParseNext(q)))
==============================================================================
