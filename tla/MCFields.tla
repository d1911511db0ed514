------------------------------ MODULE MCFields ------------------------------
(* Two names, so that the third declaration is of one that is used.        *)
EXTENDS Fields, FiniteSets

Simple == { [name |-> n, arg |-> <<>>] : n \in {"rowid", "unique", "null", "noexport", "no"} }
Limited == { [name |-> "limit", arg |-> [op |-> op, kind |-> kind, n |-> n]] :
               op \in {"ge", "ne"}, kind \in {"integer", "decimal"}, n \in {-1} }
             \cup { [name |-> "limit", arg |-> [op |-> "ge", kind |-> "integer", n |-> 1]] }
Acting == { [name |-> n, arg |-> [s |-> a]] :
              n \in {"actup", "actdel"}, a \in {"nullify", "default", "never"} }
Defaulting == { [name |-> "default", arg |-> [kind |-> k, n |-> 1, s |-> ""]] :
                  k \in {"integer", "decimal", "literal", "ident", "date"} }

MCProperties == Simple \cup Limited \cup Acting \cup Defaulting
MCReferences == {<<"t", "id">>}

(* At most three properties, over the fields there are.                    *)
Weight(f) == Cardinality(f.flags) + Len(f.fvq)
             + Cardinality({ w \in {"actup", "actdel"} : f[w] # "none" })
Bounded ==
  IF fields = <<>> THEN Weight(fd) <= 3 ELSE Weight(fields[1]) + Weight(fd) <= 3
===============================================================================
