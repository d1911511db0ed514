------------------------------- MODULE Parser --------------------------------
(***************************************************************************)
(* ort_parse_file(), src/parser.c: one file, added to the configuration    *)
(* there is.  It may be called for any number of files.  Structures are in *)
(* StructParser; here are enumerations, bitfields and the roles block      *)
(* (src/parser_enum.c, src/parser_bitfield.c, src/parser_roles.c).  The    *)
(* items of the first two are read alike; EnumItems looks closer at the    *)
(* values given to the items of an enumeration that have none.             *)
(***************************************************************************)
EXTENDS StructParser

NewItem(name) == [name |-> name, auto |-> FALSE, value |-> 0, labels |-> <<>>, doc |-> None]

(***************************************************************************)
(* What follows a value: comments and labels, up to the semicolon.         *)
(***************************************************************************)
ItemAttribute(p) ==
  CASE IsWord(p, "comment") -> ParseComment(p)
    [] IsWord(p, "jslabel") -> ParseLabel(p)
    [] OTHER -> Errx(p)

(* An item cut off by the end of the file is no error here.                *)
RECURSIVE ItemAttributes(_)
ItemAttributes(p) ==
  IF Stop(p) \/ ~Is(p, "ident") THEN Check(p, Stop(p) \/ Is(p, ";"))
  ELSE ItemAttributes(ParseNext(ItemAttribute(p)))

(* isnull or isunset: labels only.                                         *)
RECURSIVE PhraseLabels(_)
PhraseLabels(p) ==
  LET q == ParseNext(p)
  IN IF Is(q, ";") THEN q
     ELSE IF ~IsWord(q, "jslabel") THEN Errx(q)
     ELSE LET l == ParseLabel(q) IN IF Stop(l) THEN l ELSE PhraseLabels(l)

Phrase(p, queue) == PhraseLabels([p EXCEPT !.o = [labels |-> queue, doc |-> None]])

(***************************************************************************)
(* A named type in p.s, with items and the labels of special values.       *)
(***************************************************************************)
NewType(name) ==
  [name |-> name, items |-> <<>>, isnull |-> <<>>, isunset |-> <<>>, doc |-> None]

OpenType(p) ==
  LET name == Expect(p, "ident")
  IN IF \/ Stop(name) \/ ~GoodIdent(name.last.s)
        \/ name.last.s \in TopLevelNames(name.cfg)
     THEN Errx(name)
     ELSE Expect([name EXCEPT !.s = NewType(name.last.s)], "{")

ItemName(p) ==
  LET name == Expect(p, "ident")
  IN IF Stop(name) \/ ~GoodIdent(name.last.s) \/ name.last.s \in Names(p.s.items)
     THEN Errx(name)
     ELSE [name EXCEPT !.o = NewItem(name.last.s)]

ItemDone(p) == [p EXCEPT !.s.items = Append(@, p.o)]

HasValue(items, v) == \E i \in DOMAIN items : ~items[i].auto /\ items[i].value = v

EnumItem(p) ==
  LET name == ItemName(p)
      value == ParseNext(name)
      given == Check([value EXCEPT !.o.value = value.last.n],
                     ~HasValue(p.s.items, value.last.n))
  IN IF Stop(name) \/ IsWord(name, "format") THEN Errx(name)
     ELSE IF Is(value, "integer") THEN ItemDone(ItemAttributes(ParseNext(given)))
     ELSE ItemDone(ItemAttributes([value EXCEPT !.o.auto = TRUE]))

BitItem(p) ==
  LET name == ItemName(p)
      value == Expect(name, "integer")
      given == Check([value EXCEPT !.o.value = value.last.n],
                     value.last.n \in 0..63 /\ ~HasValue(p.s.items, value.last.n))
  IN IF Stop(name) THEN name
     ELSE IF Stop(given) THEN given ELSE ItemDone(ItemAttributes(ParseNext(given)))

TypeComment(p) ==
  LET q == ParseComment([p EXCEPT !.o = p.s])
  IN IF Stop(q) THEN q ELSE Expect([q EXCEPT !.s.doc = q.o.doc], ";")

TypeStatement(p, kind) ==
  CASE IsWord(p, "comment") -> TypeComment(p)
    [] IsWord(p, "isnull") ->
         LET q == Phrase(p, p.s.isnull) IN [q EXCEPT !.s.isnull = q.o.labels]
    [] kind = "bits" /\ (IsWord(p, "isunset") \/ IsWord(p, "unset")) ->
         LET q == Phrase(p, p.s.isunset) IN [q EXCEPT !.s.isunset = q.o.labels]
    [] IsWord(p, "item") -> IF kind = "enum" THEN EnumItem(p) ELSE BitItem(p)
    [] OTHER -> Errx(p)

RECURSIVE TypeStatements(_, _)
TypeStatements(p, kind) ==
  IF Stop(p) \/ Is(p, "}") THEN p
  ELSE TypeStatements(ParseNext(TypeStatement(p, kind)), kind)

(* Values for the items without one: from above the greatest there is.     *)
Assign(items) ==
  LET given == { items[i].value : i \in { i \in DOMAIN items : ~items[i].auto } }
      first == IF \A v \in given : v < 0 THEN 0
               ELSE 1 + (CHOOSE v \in given : \A w \in given : w <= v)
  IN [i \in DOMAIN items |->
        IF ~items[i].auto THEN items[i]
        ELSE [items[i] EXCEPT !.value =
               first + Len(SelectSeq(SubSeq(items, 1, i - 1), LAMBDA e : e.auto))]]

CloseType(p) ==
  LET q == Expect(p, ";") IN IF Stop(p) THEN p ELSE Check(q, q.s.items # <<>>)

EnumDone(p) == [p EXCEPT !.cfg.enums = Append(@, [p.s EXCEPT !.items = Assign(@)])]
BitfieldDone(p) == [p EXCEPT !.cfg.bitfs = Append(@, p.s)]

ParseEnum(p) ==
  LET open == OpenType(p)
  IN IF Stop(open) THEN open
     ELSE EnumDone(CloseType(TypeStatements(ParseNext(open), "enum")))

ParseBitfield(p) ==
  LET open == OpenType(p)
  IN IF Stop(open) THEN open
     ELSE BitfieldDone(CloseType(TypeStatements(ParseNext(open), "bits")))

(***************************************************************************)
(* The roles block.  Roles are kept in the order of allocation, each with  *)
(* its parent.                                                             *)
(***************************************************************************)
NewRole(name, parent) == [name |-> name, parent |-> parent, doc |-> None]
ReservedRoles == <<NewRole("none", None), NewRole("default", None), NewRole("all", None)>>

AddRole(p, role) == [p EXCEPT !.cfg.roles = Append(@, role)]

(* A comment of the role allocated last.                                   *)
RoleComment(p) ==
  LET q == ParseComment([p EXCEPT !.o = Last(p.cfg.roles)])
  IN IF Stop(q) THEN q
     ELSE ParseNext([q EXCEPT !.cfg.roles[Len(q.cfg.roles)].doc = q.o.doc])

(* A role at the token "role", and those within its braces.                *)
RECURSIVE ParseRole(_, _), RolesWithin(_, _)
ParseRole(p, parent) ==
  LET name == Expect(p, "ident")
      next == ParseNext(AddRole(name, NewRole(name.last.s, parent)))
      doc == IF IsWord(next, "comment") THEN RoleComment(next)
             ELSE Check(next, ~Is(next, "ident"))
      subs == IF Is(doc, "{") THEN ParseNext(RolesWithin(ParseNext(doc), name.last.s)) ELSE doc
  IN IF \/ ~IsWord(p, "role") \/ Stop(name) \/ ~GoodIdent(name.last.s)
        \/ name.last.s \in Names(p.cfg.roles)
     THEN Errx(name)
     ELSE Check(subs, Stop(subs) \/ Is(subs, ";"))

RolesWithin(p, parent) ==
  IF Stop(p) \/ Is(p, "}") THEN p
  ELSE RolesWithin(ParseNext(ParseRole(p, parent)), parent)

ParseRoleBlock(p) ==
  LET open == Expect([p EXCEPT !.cfg.roles = ReservedRoles], "{")
      q == RolesWithin(ParseNext(open), "all")
  IN IF p.cfg.roles # <<>> THEN Errx(p)
     ELSE IF Stop(open) THEN open
     ELSE IF Stop(q) THEN q ELSE Expect(q, ";")

(***************************************************************************)
(* The file.                                                               *)
(***************************************************************************)
(* parse_root() at the first token of a definition.                        *)
TopLevel(p) ==
  CASE IsWord(p, "roles") -> ParseRoleBlock(p)
    [] IsWord(p, "struct") -> ParseStruct(p)
    [] IsWord(p, "enum") -> ParseEnum(p)
    [] IsWord(p, "bits") \/ IsWord(p, "bitfield") -> ParseBitfield(p)
    [] OTHER -> Errx(p)

RECURSIVE ParseRoot(_)
ParseRoot(p) ==
  IF Stop(p) THEN p ELSE ParseRoot(ParseNext(TopLevel(p)))

(* The end of the file is success wherever it is met.                      *)
Outcome(p) == [ok |-> Is(p, "eof"), cfg |-> p.cfg]
ParseFile(cfg, file) == Outcome(ParseRoot(ParseNext(NewParse(cfg, file))))
==============================================================================
