------------------------------ MODULE MCQueries ------------------------------
(* Queries with up to three terms, and grouped, ordered or limited ones    *)
(* with at most one, over tables of up to three rows.                      *)
EXTENDS Queries, SequencesExt

Types == {"search", "list", "iterate", "count"}
Match(f, o) == [field |-> f, op |-> o]

Plainly(type, terms) ==
  [type |-> type, terms |-> terms, group |-> "none", order |-> "none", limit |-> 0, offset |-> 0]

MCTerms == {Match("k", "eq"), Match("pw", "eq"), Match("pw", "streq"), Match("k", "notnull"), Match("g", "eq")}
MCOthers == {Match("id", "eq"), Match("k", "neq"), Match("k", "isnull"), Match("pw", "neq")}

MCSearches ==
  { Plainly(type, terms) : type \in Types, terms \in BoundedSeq(MCTerms, 3) } \cup
  { Plainly(type, <<a, b>>) : type \in Types, a \in MCOthers, b \in MCTerms \cup MCOthers } \cup
  { [type |-> type, terms |-> terms, group |-> group, order |-> order, limit |-> limit, offset |-> offset] :
      type \in Types, terms \in {<<>>, <<Match("k", "notnull")>>, <<Match("pw", "eq")>>},
      group \in {"none", "maxrow", "minrow"}, order \in {"none", "asc", "desc"},
      limit \in 0..2, offset \in 0..1 }

Record(id, k, g, v, pw) == [id |-> id, k |-> k, g |-> g, v |-> v, pw |-> pw]

(* The stored passwords 1 and 3 are hashes of 1, and 2 and 4 of 2; 0 is    *)
(* null.                                                                   *)
MCTables ==
  { a \cup b \cup c : a \in {{}, {Record(1, 1, 1, 1, 1)}, {Record(1, Null, 2, 2, 2)}},
                      b \in {{}, {Record(2, 1, 2, 2, 3)}, {Record(2, 2, 1, 2, 4)}},
                      c \in {{}, {Record(3, 2, 2, 1, 1)}, {Record(3, Null, 1, 2, 0)}} }
==============================================================================
