------------------------------ MODULE MCFormat ------------------------------
(* Files of one or two statements out of menus, among fixed definitions    *)
(* that they refer to.  A statement is given as its words.                 *)
EXTENDS Format

Numerals == [x \in {"-2", "-29", "0", "1", "2", "63", "64", "2020"} |->
  CASE x = "-2" -> -2 [] x = "-29" -> -29 [] x = "0" -> 0 [] x = "1" -> 1 [] x = "2" -> 2
    [] x = "63" -> 63 [] x = "64" -> 64 [] x = "2020" -> 2020]
Signs == {";", ":", ",", ".", "{", "}"}
Texts == {"Some text.", ""}

Lex(w) ==
  CASE w \in Signs -> Tok(w) [] w \in Texts -> Lit(w)
    [] w \in DOMAIN Numerals -> Num(Numerals[w]) [] w = "1.5" -> Dec(15)
    [] w = "$" -> Tok("garbage") [] OTHER -> Word(w)

Lexed(words) == [i \in DOMAIN words |-> Lex(words[i])]

(* Definitions to refer to.                                                *)
Col == <<"enum", "col", "{", "item", "red", ";", "}", ";">>
Flg == <<"bitfield", "flg", "{", "item", "on", "0", ";", "}", ";">>
Far == <<"struct", "far", "{", "field", "id", "int", "rowid", ";",
         "field", "key", "text", "unique", ";", "field", "pw", "password", ";",
         "field", "col", "enum", "col", "null", ";", "}", ";">>
Rls == <<"roles", "{", "role", "user", "{", "role", "admin", "comment", "Some text.", ";", "}",
         ";", "role", "guest", ";", "}", ";">>

(* Fields.                                                                 *)
Properties == {<<>>} \cup
  { <<"rowid">>, <<"unique">>, <<"null">>, <<"noexport">>, <<"default", "1">>,
    <<"default", "Some text.">>, <<"limit", "ge", "1">>, <<"comment", "Some text.">> }
KeyProperties == { <<"null">>, <<"actdel", "nullify">>, <<"actup", "default">>, <<"default", "1">>,
                   <<"rowid">>, <<"actdel", "never">> }

Field(type, props) == <<"field", "a">> \o type \o props \o <<";">>

FieldsMenu ==
  { Field(type, p \o q) : type \in {<<>>, <<"int">>, <<"text">>, <<"real">>}, p, q \in Properties }
  \cup { Field(<<":", "far", ".", "id", "int">>, p \o q \o r) :
           p, q, r \in KeyProperties \cup {<<>>} }
  \cup { Field(type, p) : p \in Properties \cup {<<"default", "red">>, <<"limit", "lt", "1.5">>},
           type \in { <<"bits", "flg">>, <<"enum", "col">>, <<"enum", "no">>, <<"password">>,
                      <<"blob">>, <<"bit">>, <<"epoch">>, <<"struct", "far">> } }
  \cup { Field(<<"date">>, p) : p \in { <<"default", "2020", "-2", "-29">>, <<"default", "1">> } }
  \cup { Field(<<":", "far", ".", f, t>>, <<>>) : f \in {"key", "pw", "id"}, t \in {"text", "password"} }
  \cup { <<"field", "default", "int", ";">>, <<"field", "id", "int", "rowid", ";">>,
         <<"field", "a", "email", "limit", "ge", "1", "limit", "ge", "2", "limit", "ge", "1", ";">>,
         <<"field", "a", "$", ";">>, <<"rowid", ";">> }

(* Statements about fields declared in front of them and behind.           *)
Before == <<"field", "id", "int", "rowid", ";", "field", "t", "text", "null", ";",
            "field", "p", "password", ";", "field", "b", "bits", "flg", ";">>
After == <<"field", "fid", ":", "far", ".", "id", "int", ";", "field", "f", "struct", "fid", ";">>

Chains == { <<"id">>, <<"t">>, <<"p">>, <<"f", ".", "id">>, <<"f">>, <<"f", ".", "col">> }
Parameter ==
  { <<"order">> \o c : c \in Chains } \cup { <<"distinct">> \o c : c \in Chains }
  \cup { <<"grouprow">> \o c \o <<"maxrow">> \o d : c, d \in Chains }
  \cup { <<"name", "q">>, <<"limit", "2">>, <<"limit", "1", ",", "2">>, <<"comment", "Some text.">>,
         <<"distinct", ".">>, <<"order", "id", "desc", ",", "t", "asc", "name", "q">>,
         <<"minrow", "t">>, <<"limit", "-2">> }
Queries ==
  { <<type>> \o c \o op \o <<";">> : type \in {"list", "count"}, c \in Chains,
      op \in {<<>>, <<"neq">>, <<"isnull">>, <<"like">>, <<"and">>, <<"streq">>, <<"plus">>} }
  \cup { <<"list", "id", ",", "p", ":">> \o p \o <<";">> : p \in Parameter }
  \cup { <<"iterate", ":">> \o p \o q \o <<";">> : p, q \in { <<>>, <<"name", "q">>,
           <<"distinct", "f">>, <<"order", "t">>, <<"comment", "">> } }
  \cup { <<"search", "id", ";">> }

Updates ==
  { <<"update">> \o m \o c \o n \o <<";">> :
      m \in { <<>>, <<"t">>, <<"t", "concat">>, <<"p", "inc">>, <<"b", "inc", ",", "t", "set">>, <<"f">> },
      c \in { <<>>, <<":", "id">>, <<":", "p">>, <<":", "t", "like", ",", "p", "streq">>, <<":">> },
      n \in { <<>>, <<":", "name", "u">>, <<":", "name", "u", "comment", "Some text.">> } }
  \cup { <<"delete">> \o c \o n \o <<";">> :
      c \in { <<>>, <<"id">>, <<"b", "ge">> }, n \in { <<>>, <<":", "name", "u">> } }

Uniques == { <<"unique">> \o u \o <<";">> :
  u \in { <<"t", ",", "id">>, <<"id", ",", "t">>, <<"id", ",", "fid">>, <<"t">>, <<"id", ",", "f">> } }

Others == { <<"insert", ";">>, <<"comment", "Some text.", ";">> }

(* Names of operations and the rolemaps for them.                          *)
Ops1 == <<"insert", ";", "list", "id", ":", "name", "q", ";",
          "delete", "id", ":", "name", "d", ";">>
RoleLists == { <<"user">>, <<"guest", ",", "admin">>, <<"guest", ",", "user", ",", "admin">>, <<"root">> }
Assigned1 == { <<"all">>, <<"insert">>, <<"list", "q">>, <<"delete", "d">>, <<"noexport">>,
               <<"noexport", "t">>, <<"update", "d">>, <<"insert", "q">> }
Rolemaps == { <<"roles">> \o r \o <<"{">> \o a \o <<";", "}", ";">> : r \in RoleLists, a \in Assigned1 }

(* Enumerations and bitfields, with one or two items.                      *)
ItemMenu ==
  { <<"item">> \o n \o v \o l \o <<";">> : n \in {<<"x">>, <<"y">>}, v \in {<<>>, <<"0">>, <<"63">>, <<"64">>},
      l \in { <<>>, <<"jslabel", "Some text.">>, <<"jslabel", ".", "en", "Some text.", "comment", "">> } }
  \cup { <<"isnull", "jslabel", ".", "de", "Some text.", "jslabel", "Some text.", ";">>,
         <<"isunset", "jslabel", "Some text.", ";">>, <<"comment", "Some text.", ";">>,
         <<"item", "x", "1", "jslabel", "Some text.", "jslabel", "Some text.", ";">> }

InStruct(words) == <<"struct", "s", "{">> \o words \o <<"}", ";">>

OneFile(words) == <<Lexed(words)>>

FieldFiles ==
  { OneFile(Col \o Flg \o Far \o InStruct(f)) : f \in FieldsMenu }
  \cup { OneFile(Col \o Flg \o Far \o InStruct(<<"field", "id", "int">> \o p \o <<";", "update">>
                 \o c \o <<";">> \o f)) :
           p \in {<<>>, <<"rowid">>}, c \in {<<"a">>, <<>>, <<":", "id">>},
           f \in { Field(<<"int">>, q) : q \in Properties } }

StatementFiles ==
  { OneFile(Col \o Flg \o InStruct(Before \o s \o After) \o Far) :
      s \in Queries \cup Updates \cup Uniques \cup Others }
  \cup { OneFile(Col \o Flg \o InStruct(Before \o s \o t \o After) \o Far) :
      s \in Uniques \cup Others \cup { <<"list", "id", ":", "name", "q", ";">>,
              <<"iterate", ":", "distinct", "f", ";">> },
      t \in Uniques \cup Others \cup { <<"list", "t", ":", "name", "q", ";">>,
              <<"update", ";">>, <<"list", ":", "distinct", ".", ";">> } }

RolemapFiles ==
  { OneFile(Rls \o Col \o Flg \o Far \o InStruct(Before \o Ops1 \o r \o q \o After)) :
      r \in Rolemaps, q \in Rolemaps \cup {<<>>} }

TypeFiles ==
  { OneFile(<<kind, "a", "{">> \o i \o j \o <<"}", ";">> \o Col \o Far) :
      kind \in {"enum", "bits"}, i, j \in ItemMenu }

(* Roles, names used twice, structures within each other, several files.   *)
RoleBlocks ==
  { <<"roles", "{">> \o a \o b \o <<"}", ";">> :
      a, b \in { <<>>, <<"role", "user", ";">>, <<"role", "user", "{", "role", "admin", ";", "}", ";">>,
                 <<"role", "admin", "comment", "Some text.", "{", "}", ";">>, <<"role", "all", ";">>,
                 <<"role", "guest", "{", "role", "x", "{", "role", "y", ";", "}", ";", "role", "z", ";", "}", ";">> } }

Circle == <<"struct", "far", "{", "field", "id", "int", "rowid", ";", "field", "n", ":", "far", ".",
            "id", "int", "null", ";", "field", "next", "struct", "n", ";", "}", ";">>

Pieces == {Col, Flg, Col \o Far, Far, Rls, Circle, InStruct(Before \o After), InStruct(<<>>)}
OtherFiles ==
  { OneFile(r \o Col \o Far) : r \in RoleBlocks }
  \cup { <<Lexed(a), Lexed(b)>> : a, b \in Pieces }
  \cup { <<Lexed(a), Lexed(b), Lexed(Col \o Far)>> : a, b \in Pieces }

MCSources == FieldFiles \cup StatementFiles \cup RolemapFiles \cup TypeFiles \cup OtherFiles
===============================================================================
