------------------------------- MODULE MCAudit -------------------------------
(* Three structures, the first with two fields of the second, which has one *)
(* of the third; below "all" a chain of two roles, and one beside it.      *)
EXTENDS Audit, TLC

CONSTANTS user, admin, guest

MCNamed == {user, admin, guest}
MCParent == (user :> All) @@ (admin :> user) @@ (guest :> All)

MCStructs == <<"order", "client", "city">>
MCFieldsOf == ("order"  :> <<"payer", "receiver", "total">>) @@
              ("client" :> <<"home", "secret">>) @@
              ("city"   :> <<"name">>)
MCEmbedded == ("payer" :> "client") @@ ("receiver" :> "client") @@ ("home" :> "city")

MCWrites == ("order" :> {"insert"}) @@ ("client" :> {"update"}) @@ ("city" :> {})
MCSearches == ("order"  :> <<"list", "distinct">>) @@
              ("client" :> <<"count">>) @@ ("city" :> <<"iterate">>)
MCReturns == ("list" :> "order") @@ ("distinct" :> "client") @@
             ("count" :> "client") @@ ("iterate" :> "city")

MCGrants ==
  { ("list" :> l) @@ ("distinct" :> d) @@ ("count" :> {All}) @@ ("iterate" :> {user})
    @@ ("insert" :> {guest, Default}) @@ ("update" :> {All, Default}) :
    l \in {{}, {user}, {All}}, d \in {{admin}, {user, Default}} }

(* The noexport roles as written, those of the first structure in "whole". *)
Written(whole) ==
  { ("order" :> o) @@ ("client" :> c) @@ ("city" :> {}) @@ ("payer" :> p) @@
    ("receiver" :> r) @@ ("home" :> h) @@ ("name" :> n) @@
    [ f \in {"total", "secret"} |-> {} ] :
    o \in whole, c \in {{}, {admin}}, p \in {{}, {admin}},
    r \in {{}, {user}}, h \in {{}, {guest}}, n \in {{}, {Default}, {All}} }

StructOf(f) == CHOOSE s \in Range(MCStructs) : f \in Range(MCFieldsOf[s])
Copied(n) ==
  [x \in DOMAIN n |-> IF x \in Range(MCStructs) THEN n[x] ELSE n[x] \cup n[StructOf(x)]]

(* The roles of a structure reach all of its fields, or do not reach one:  *)
(* roles user { noexport total; }; roles user, guest { noexport; };        *)
MCNoexports ==
  { Copied(n) : n \in Written({{}, {user}}) }
  \cup { [Copied(n) EXCEPT ![f] = {user}] :
           n \in Written({{user, guest}}), f \in {"total", "payer"} }
MCFlags == {{}, {"payer"}, {"receiver", "total"}}
==============================================================================
