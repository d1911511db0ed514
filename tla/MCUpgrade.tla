------------------------------ MODULE MCUpgrade ------------------------------
(* A client with a company, and what may become of them: columns of every  *)
(* kind come, go and change, with constraints, references, enumerations,   *)
(* queries and roles.                                                      *)
EXTENDS Upgrade, TLC

Plain == [type |-> "int", of |-> "", flags |-> {}, def |-> "", ref |-> <<>>,
          actdel |-> "none", actup |-> "none", valids |-> {}, rolemap |-> {},
          comment |-> ""]
Rowid == [Plain EXCEPT !.flags = {"rowid"}]
Unique == [Plain EXCEPT !.flags = {"unique"}]
Default(d) == [Plain EXCEPT !.flags = {"hasdef"}, !.def = d]
Enum(e) == [Plain EXCEPT !.type = "enum", !.of = e]
Ref(flags, act) ==
  [Plain EXCEPT !.ref = <<"company", "id">>, !.flags = flags, !.actdel = act]
Struct == [Plain EXCEPT !.type = "struct", !.of = "cid", !.ref = <<"company", "id">>]

Item(v, labels) == [value |-> v, comment |-> "", labels |-> labels]
List(limit, doc) ==
  [params |-> <<"age">>, order |-> <<>>, aggr |-> "", group |-> "", distinct |-> "",
   comment |-> doc, limit |-> limit, offset |-> 0, rolemap |-> {}]
Update(crq, roles) ==
  [mrq |-> <<"age">>, crq |-> crq, comment |-> "", rolemap |-> roles, flags |-> {}]
All == List(0, "")
AgeAndCompany == {"age", "cid"}

C(f) == <<"field", "client", f>>

MCSmall ==
  [p \in {<<"strct", "client">>, C("id"), C("age"), <<"strct", "company">>,
          <<"field", "company", "id">>, <<"enm", "sex">>, <<"eitem", "sex", "f">>,
          <<"insert", "client">>} |->
     CASE p[1] = "strct"  -> [comment |-> "", order |-> "up"]
       [] p[1] = "field"  -> IF p[3] = "id" THEN Rowid ELSE Plain
       [] p[1] = "enm"    -> [comment |-> "", labels |-> {}]
       [] p[1] = "eitem"  -> Item(0, {})
       [] p[1] = "insert" -> [rolemap |-> {}]]

MCFields ==
  (C("id") :> {Rowid, Plain})
  @@ (C("age") :> {Plain, Unique, Default("0"), Default("1"),
                   [Plain EXCEPT !.flags = {"null"}], [Plain EXCEPT !.type = "epoch"],
                   [Plain EXCEPT !.valids = {"gt 0", "lt 9"}],
                   [Plain EXCEPT !.valids = {"gt 0", "lt 8"}],
                   [Plain EXCEPT !.flags = {"noexport"}, !.rolemap = {"user"}]})
  @@ (C("sex") :> {Enum("sex"), [Enum("sex") EXCEPT !.flags = {"hasdef"}, !.def = "f"], Struct})
  @@ (C("cid") :> {Ref({"null"}, "nullify"), Ref({"null"}, "none"), Ref({"hasdef"}, "none"),
                   Default("0")})
  @@ (C("comp") :> {Struct})
  @@ (<<"field", "company", "id">> :> {Rowid, Unique})
  @@ (<<"field", "company", "name">> :> {[Unique EXCEPT !.type = "text"]})

MCOthers ==
  (<<"strct", "client">> :> {[comment |-> "", order |-> "down"]})
  @@ (<<"strct", "company">> :> {[comment |-> "", order |-> "down"],
                                 [comment |-> "", order |-> "up"]})
  @@ (<<"unique", "client", AgeAndCompany>> :> {NoAttributes})
  @@ (<<"insert", "client">> :> {[rolemap |-> {"user"}], [rolemap |-> {}]})
  @@ (<<"update", "client", "grow">> :> {Update(<<"id">>, {}), Update(<<"age">>, {})})
  @@ (<<"search", "client", <<"list", "old">>>> :> {List(0, ""), List(5, "")})
  @@ (<<"anonsearch", "client", All>> :> {NoAttributes})
  @@ (<<"enm", "sex">> :> {[comment |-> "changed", labels |-> {}]})
  @@ (<<"eitem", "sex", "f">> :> {Item(1, {}), Item(0, {"en"})})
  @@ (<<"eitem", "sex", "m">> :> {Item(1, {})})
  @@ (<<"bitf", "perm">> :> {[comment |-> "", unset |-> {"none"}, labels |-> {}]})
  @@ (<<"bitidx", "perm", "write">> :> {Item(2, {}), Item(1, {"en"})})
  @@ (<<"roles">> :> {NoAttributes})
  @@ (<<"role", "user">> :> {[parent |-> "all", comment |-> ""]})
  @@ (<<"role", "admin">> :> {[parent |-> "all", comment |-> ""],
                              [parent |-> "user", comment |-> ""]})

(* The same with all of these but a column, an item and a role.            *)
MCFull ==
  (C("id") :> Rowid) @@ (C("age") :> Plain) @@ (C("cid") :> Ref({"null"}, "nullify"))
  @@ (C("comp") :> Struct) @@ (C("sex") :> Enum("sex"))
  @@ (<<"field", "company", "id">> :> Rowid)
  @@ (<<"strct", "client">> :> [comment |-> "", order |-> "up"])
  @@ (<<"strct", "company">> :> [comment |-> "", order |-> "up"])
  @@ (<<"unique", "client", AgeAndCompany>> :> NoAttributes)
  @@ (<<"insert", "client">> :> [rolemap |-> {}])
  @@ (<<"update", "client", "grow">> :> Update(<<"id">>, {}))
  @@ (<<"search", "client", <<"list", "old">>>> :> List(0, ""))
  @@ (<<"anonsearch", "client", All>> :> NoAttributes)
  @@ (<<"enm", "sex">> :> [comment |-> "", labels |-> {}])
  @@ (<<"eitem", "sex", "f">> :> Item(0, {})) @@ (<<"eitem", "sex", "m">> :> Item(1, {}))
  @@ (<<"roles">> :> NoAttributes)
  @@ (<<"role", "user">> :> [parent |-> "all", comment |-> ""])

MCPet ==
  <<"strct", "pet">> :> [comment |-> "", order |-> "up"]
    @@ <<"field", "pet", "owner">> :> [Plain EXCEPT !.ref = <<"client", "id">>]
    @@ <<"field", "pet", "tag">> :> Unique
MCKind ==
  <<"enm", "kind">> :> [comment |-> "", labels |-> {}]
    @@ <<"eitem", "kind", "cat">> :> Item(0, {})
MCPerm ==
  <<"bitf", "perm">> :> [comment |-> "", unset |-> {}, labels |-> {}]
    @@ <<"bitidx", "perm", "read">> :> Item(0, {})
    @@ <<"bitidx", "perm", "write">> :> Item(1, {})
    @@ C("may") :> [Plain EXCEPT !.type = "bitfield", !.of = "perm", !.flags = {"null"}]

MCBases == {MCSmall, MCSmall @@ MCPet @@ MCPerm, MCFull}

(* Parts one by one, and a structure and an enumeration as they are first  *)
(* written.                                                                *)
MCParts == MCFields @@ MCOthers
MCOptions ==
  UNION { { p :> a : a \in MCParts[p] } : p \in DOMAIN MCParts }
    \cup {MCPet, MCKind, MCPerm}
==============================================================================
