------------------------------- MODULE Queries -------------------------------
(***************************************************************************)
(* The query functions of a generated program, db_xxx_get(), _list(),      *)
(* _iterate() and _count(), over a table with the fields id (the row       *)
(* identifier), k (may be null), g, v and pw (a password, may be null),    *)
(* where k and g together are unique.  A function binds its arguments to   *)
(* the places of an SQL statement, steps through the rows of its result,   *)
(* and compares passwords, which are stored hashed, itself.  The           *)
(* generators of src/lang-c-source.c, src/lang-nodejs.c and                *)
(* src/lang-rust.c unroll the loop that binds; the statement is written by *)
(* gen_sql_stmts(), src/lang.c, for all of them.                           *)
(***************************************************************************)
EXTENDS Integers, FiniteSets, Sequences, Functions

CONSTANTS Backends,  \* of "c", "nodejs" and "rust"
          Searches,  \* the queries of the configuration: type, terms, group,
                     \* order, limit and offset
          Tables,    \* the contents of the table
          Values     \* arguments

Null == 0

(* The operators modelled: other comparisons are bound in the same way.    *)
Term == [field : {"id", "k", "g", "v", "pw"},
         op : {"eq", "streq", "neq", "strneq", "isnull", "notnull"}]
Row == [id : Nat \ {0}, k : Nat, g : Nat \ {0}, v : Nat, pw : Nat]

ASSUME BackendsAssumption == Backends \subseteq {"c", "nodejs", "rust"}
ASSUME SearchesAssumption ==
  Searches \subseteq [type : {"search", "list", "iterate", "count"}, terms : Seq(Term),
                     group : {"none", "maxrow", "minrow"}, order : {"none", "asc", "desc"},
                     limit : Nat, offset : Nat]
(* SQLite keeps what is unique in a table so; nulls are not compared.      *)
ASSUME TablesAssumption ==
  \A t \in Tables :
    /\ IsFiniteSet(t) /\ t \subseteq Row
    /\ \A a, b \in t : a.id = b.id \/ (a.k # Null /\ a.k = b.k /\ a.g = b.g) => a = b

VARIABLES backend, query, table,
          args,   \* the arguments of the function
          term,   \* the term to be bound next
          idx,    \* place in parms it is written to
          pos,    \* argument it is taken from
          parms,  \* the arguments bound, by place
          rest,   \* rows the open statement has left
          got,    \* rows returned, listed or given to the callback
          number, \* what db_xxx_count() returns
          phase
vars == <<backend, query, table, args, term, idx, pos, parms, rest, got, number, phase>>

IsUnary(t) == t.op \in {"isnull", "notnull"}
IsHash(t) == t.field = "pw" /\ t.op \in {"eq", "neq"}
IsPlace(t) == ~IsUnary(t) /\ ~IsHash(t)
Terms == query.terms

(* What check_searchtype() refuses is no query.                            *)
Allowed(q) ==
  \A k \in DOMAIN q.terms :
    q.terms[k].field = "pw" => ~(q.type = "count" /\ IsHash(q.terms[k]))

(* gen_func_db_search(): an argument for each term but the unary ones.     *)
Argument(k) == Cardinality({ j \in 1..k : ~IsUnary(Terms[j]) })
Arguments(q) == Cardinality({ k \in DOMAIN q.terms : ~IsUnary(q.terms[k]) })

(* The statement has a place for each term but the unary ones and hashed   *)
(* passwords; the array of parameters has as many elements.                *)
Place(k) == Cardinality({ j \in 1..k : IsPlace(Terms[j]) })
Places == 1..Place(Len(Terms))

(* A pointer, a type with null, an option; a number is none of them in C.  *)
MayBeNull(k) == IsHash(Terms[k]) \/ (backend # "c" /\ Terms[k].field \in {"k", "pw"})

Init ==
  /\ backend \in Backends
  /\ query \in { q \in Searches : Allowed(q) } /\ table \in Tables
  /\ args \in { a \in [1..Arguments(query) -> Values \cup {Null}] :
                \A k \in DOMAIN Terms :
                  ~IsUnary(Terms[k]) /\ a[Argument(k)] = Null => MayBeNull(k) }
  /\ term = 1 /\ idx = 1 /\ pos = 1 /\ parms = <<>>
  /\ rest = <<>> /\ got = <<>> /\ number = 0
  /\ phase = "bind"

(***************************************************************************)
(* Binding.  In C, gen_bind_val() writes nothing for a hashed password.    *)
(***************************************************************************)
(* Mutation: the argument of a hashed password is not passed over.         *)
AdvanceBound(c) == idx' = idx + c /\ pos' = pos + c

Advance(c) ==
  IF query.type = "iterate"
  THEN pos' = pos + c /\ idx' = idx + 1
  ELSE idx' = idx + c /\ pos' = pos + 1

Bind ==
  /\ backend = "c" /\ phase = "bind" /\ term <= Len(Terms) /\ term' = term + 1
  /\ IF IsUnary(Terms[term])
     THEN UNCHANGED <<idx, pos, parms>>
     ELSE IF IsHash(Terms[term])
     THEN Advance(0) /\ UNCHANGED parms
     ELSE Advance(1) /\ parms' = [k \in DOMAIN parms \cup {idx} |->
                                    IF k = idx THEN pos ELSE parms[k]]
  /\ UNCHANGED <<backend, query, table, args, rest, got, number, phase>>

(* nodejs and Rust: parms.push() and params![], which have no index.       *)
Push ==
  /\ backend # "c" /\ phase = "bind" /\ term <= Len(Terms) /\ term' = term + 1
  /\ pos' = IF IsUnary(Terms[term]) THEN pos ELSE pos + 1
  /\ IF IsPlace(Terms[term])
     THEN parms' = Append(parms, pos) /\ idx' = idx + 1
     ELSE UNCHANGED <<parms, idx>>
  /\ UNCHANGED <<backend, query, table, args, rest, got, number, phase>>

(***************************************************************************)
(* The statement.  Comparisons with null fail.                             *)
(***************************************************************************)
Holds(op, value, arg) ==
  \/ op = "isnull" /\ value = Null
  \/ op = "notnull" /\ value # Null
  \/ /\ value # Null /\ arg # Null
     /\ \/ op \in {"eq", "streq"} /\ value = arg
        \/ op \in {"neq", "strneq"} /\ value # arg

Bound(k) == IF IsPlace(Terms[k]) THEN args[parms[Place(k)]] ELSE Null

Where(row) ==
  \A k \in DOMAIN Terms :
    ~IsHash(Terms[k]) => Holds(Terms[k].op, row[Terms[k].field], Bound(k))

(* Mutation: of a group, the first row is taken.                           *)
GroupedFirst(row) ==
  query.group # "none" => ~\E other \in table : other.g = row.g /\ other.id < row.id

(* The outer join with a better row of the group has to find none; the     *)
(* terms are not applied to the better row.                                *)
Better(a, b) == IF query.group = "maxrow" THEN a.v > b.v ELSE a.v < b.v
Grouped(row) ==
  query.group # "none" => ~\E other \in table : other.g = row.g /\ Better(other, row)

Selected == { row \in table : Where(row) /\ Grouped(row) }

InOrder(a, b) ==
  CASE query.order = "asc"  -> a.v <= b.v
    [] query.order = "desc" -> a.v >= b.v
    [] OTHER -> TRUE

(* Without an order, or among equals, SQLite chooses.                      *)
Orderings ==
  { s \in [1..Cardinality(Selected) -> Selected] :
      IsInjective(s) /\ \A i, j \in DOMAIN s : i < j => InOrder(s[i], s[j]) }

(* A search has neither LIMIT nor OFFSET: it takes one row.                *)
Window(s) ==
  IF query.type = "search" \/ query.limit = 0 THEN s
  ELSE LET last == IF query.offset + query.limit < Len(s)
                   THEN query.offset + query.limit ELSE Len(s)
       IN [i \in 1..(last - query.offset) |-> s[query.offset + i]]

(* OFFSET without LIMIT is no SQL; a count has one row, which the offset   *)
(* passes over.                                                            *)
Fails ==
  query.offset > 0 /\ (query.type = "count" \/ (query.type # "search" /\ query.limit = 0))

Prepare ==
  /\ phase = "bind" /\ term > Len(Terms)
  /\ DOMAIN parms = Places
  /\ IF Fails THEN phase' = "exit" /\ UNCHANGED <<rest, number>>
     ELSE IF query.type = "count"
     THEN phase' = "done" /\ number' = Cardinality(Selected) /\ UNCHANGED rest
     ELSE /\ phase' = "rows" /\ UNCHANGED number
          /\ \E s \in Orderings : rest' = Window(s)
  /\ UNCHANGED <<backend, query, table, args, term, idx, pos, parms, got>>

(* Writing past parms: nothing is known of what the program does then.     *)
Overrun ==
  /\ phase = "bind" /\ term > Len(Terms)
  /\ DOMAIN parms # Places
  /\ phase' = "undefined"
  /\ UNCHANGED <<backend, query, table, args, term, idx, pos, parms, rest, got, number>>

(***************************************************************************)
(* Stepping.  crypt_checkpass() and the bcrypt modules compare with the    *)
(* stored hash; the same password has several.                             *)
(***************************************************************************)
Plain(stored) == IF stored = Null THEN Null ELSE ((stored - 1) % 2) + 1

(* Mutation: what is not equal is accepted, whatever the operator.         *)
RejectedEqual(row) ==
  { k \in DOMAIN Terms : IsHash(Terms[k]) /\ args[Argument(k)] = Plain(row.pw) }

(* gen_checkpass(): null is rejected by both operators.                    *)
Rejected(row) ==
  { k \in DOMAIN Terms :
      /\ IsHash(Terms[k])
      /\ \/ args[Argument(k)] = Null \/ row.pw = Null
         \/ (args[Argument(k)] = Plain(row.pw)) = (Terms[k].op = "neq") }

(* A rejected object is freed, and the terms behind still look at it,      *)
(* unless their argument is null.                                          *)
LooksAgain(row) ==
  \E k \in Rejected(row) : \E j \in DOMAIN Terms :
    j > k /\ IsHash(Terms[j]) /\ args[Argument(j)] # Null

(* Mutation: a rejected row ends the list.                                 *)
StepListEnding ==
  /\ backend = "c" /\ phase = "rows" /\ query.type \in {"list", "iterate"} /\ rest # <<>>
  /\ IF Rejected(Head(rest)) = {}
     THEN got' = Append(got, Head(rest)) /\ rest' = Tail(rest)
     ELSE rest' = <<>> /\ UNCHANGED got
  /\ UNCHANGED <<backend, query, table, args, term, idx, pos, parms, number, phase>>

StepList ==
  /\ backend = "c" /\ phase = "rows" /\ query.type \in {"list", "iterate"} /\ rest # <<>>
  /\ rest' = Tail(rest)
  /\ got' = IF Rejected(Head(rest)) = {} THEN Append(got, Head(rest)) ELSE got
  /\ UNCHANGED <<backend, query, table, args, term, idx, pos, parms, number, phase>>

StepSearch ==
  /\ backend = "c" /\ phase = "rows" /\ query.type = "search" /\ rest # <<>>
  /\ rest' = <<>>
  /\ IF Rejected(Head(rest)) = {}
     THEN got' = <<Head(rest)>> /\ UNCHANGED phase
     ELSE /\ UNCHANGED got
          /\ phase' = IF LooksAgain(Head(rest)) THEN "crash" ELSE phase
  /\ UNCHANGED <<backend, query, table, args, term, idx, pos, parms, number>>

(* nodejs and Rust look at the rows in turn, those of a list in nodejs     *)
(* after stmt.all() has read them; a search takes one.                     *)
Look ==
  /\ got' = IF Rejected(Head(rest)) = {} THEN Append(got, Head(rest)) ELSE got
  /\ rest' = IF query.type = "search" THEN <<>> ELSE Tail(rest)
  /\ UNCHANGED <<backend, query, table, args, term, idx, pos, parms, number, phase>>

StepNode == backend = "nodejs" /\ phase = "rows" /\ rest # <<>> /\ Look
StepRust == backend = "rust" /\ phase = "rows" /\ rest # <<>> /\ Look

Finalise ==
  /\ phase = "rows" /\ rest = <<>> /\ phase' = "done"
  /\ UNCHANGED <<backend, query, table, args, term, idx, pos, parms, rest, got, number>>

Next ==
  \/ Bind \/ Push \/ Prepare \/ Overrun
  \/ StepList \/ StepSearch \/ StepNode \/ StepRust \/ Finalise

Spec == Init /\ [][Next]_vars

(***************************************************************************)
(* SEARCH_IS_UNIQUE, as linker_aliases_resolve() of src/linker_aliases.c   *)
(* sets it: a term, or the terms for all fields of a unique statement.     *)
(***************************************************************************)
Equals(q, field) == \E k \in DOMAIN q.terms : q.terms[k] = [field |-> field, op |-> "eq"]

CheckSearchUnique(q) == \A field \in {"k", "g"} : Equals(q, field)

IsUnique(q) == Equals(q, "id") \/ CheckSearchUnique(q)

(***************************************************************************)
(* Properties.  The reference is the set of rows that satisfy every term,  *)
(* each with its own argument; the program sees all stored hashes.         *)
(***************************************************************************)
(* Each place of the statement is given the argument of its own term, and  *)
(* nothing is written that is no place.                                    *)
BoundRight ==
  \A p \in DOMAIN parms : \E k \in DOMAIN Terms :
    IsPlace(Terms[k]) /\ Place(k) = p /\ parms[p] = Argument(k)

(* It is so but for iterators in C with a term behind a hashed password.   *)
HashBehind(q) ==
  \A j, k \in DOMAIN q.terms : IsHash(q.terms[j]) /\ IsPlace(q.terms[k]) => k < j
BoundUnlessIterated == backend # "c" \/ query.type # "iterate" \/ HashBehind(query) => BoundRight

Satisfies(row, k) ==
  LET t == Terms[k] IN
  IF IsUnary(t) THEN Holds(t.op, row[t.field], Null)
  ELSE Holds(t.op, IF IsHash(t) THEN Plain(row.pw) ELSE row[t.field], args[Argument(k)])
Matching == { row \in table : \A k \in DOMAIN Terms : Satisfies(row, k) }
NoHash == \A k \in DOMAIN Terms : ~IsHash(Terms[k])

(* man/ort.5: what a query returns satisfies its terms, passwords too.     *)
ReturnedMatch == Range(got) \subseteq Matching /\ IsInjective(got)

(* A list without limit is all rows that do.  With a limit, which is       *)
(* applied before passwords are compared, it is as many of them as the     *)
(* window has; it is in order, and no row left out belongs in front of one *)
(* returned, but for those the offset passes over.                         *)
AllOrWindow ==
  IF query.limit = 0 THEN Range(got) = Matching
  ELSE IF NoHash
  THEN LET left == Cardinality(Matching) - query.offset
       IN Len(got) = IF left > query.limit THEN query.limit ELSE IF left > 0 THEN left ELSE 0
  ELSE Len(got) <= query.limit

InFront(a, b) == InOrder(a, b) /\ ~InOrder(b, a)
OrderKept ==
  /\ \A i, j \in DOMAIN got : i < j => InOrder(got[i], got[j])
  /\ NoHash => \A i \in DOMAIN got :
       Cardinality({ row \in Matching : InFront(row, got[i]) }) <= query.offset + i - 1

(* The reverse of ReturnedMatch, for queries that do not group: what       *)
(* satisfies the terms is listed; a search finds a row, if there is one,   *)
(* but if it has passwords to compare and is not unique, only the row it   *)
(* looks at first; and, man/ort-c-header.1, a count is the number of rows  *)
(* that would be listed.                                                   *)
MatchesAnswered ==
  phase = "done" /\ query.group = "none" =>
    CASE query.type = "search" -> NoHash \/ IsUnique(query) => (got = <<>>) = (Matching = {})
      [] query.type = "count"  -> query.limit = 0 => number = Cardinality(Matching)
      [] OTHER                 -> AllOrWindow /\ (query.order # "none" => OrderKept)

(* A grouped result has no row for which its group has a better one, and   *)
(* every group has a row if there is no term to leave it out.              *)
GroupsBest ==
  phase = "done" /\ query.type \in {"list", "iterate"} /\ query.group # "none"
    => /\ \A row \in Range(got) : ~\E other \in table : other.g = row.g /\ Better(other, row)
       /\ Terms = <<>> /\ query.limit = 0 =>
            { row.g : row \in Range(got) } = { row.g : row \in table }
==============================================================================
