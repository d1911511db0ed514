------------------------------- MODULE Values --------------------------------
(***************************************************************************)
(* Values, rows and tables of a generated program, and what SQLite does    *)
(* with them: comparisons and sums with NULL, and the constraints of the   *)
(* schema that gen_struct() of src/lang-sql.c writes.  A schema gives each *)
(* structure its fields, a table is the sequence of its rows, and a row    *)
(* gives each column its value.                                            *)
(***************************************************************************)
EXTENDS Integers, SequencesExt

(***************************************************************************)
(* What SelectSeq and FoldLeft do, defined by positions: the elements that *)
(* pass a test, in their order, and a value changed step by step.          *)
(***************************************************************************)
Nth(positions, n) ==
  CHOOSE i \in positions : Cardinality({ j \in positions : j <= i }) = n

Filtered(seq, Test(_)) ==
  LET passed == { i \in DOMAIN seq : Test(seq[i]) }
  IN [n \in 1..Cardinality(passed) |-> seq[Nth(passed, n)]]

Steps(n, base, step(_, _)) ==
  LET after[i \in 0..n] == IF i = 0 THEN base ELSE step(after[i - 1], i)
  IN after[n]

Value(k, v) == [k |-> k, v |-> v]
Null == Value("null", <<>>)
Number(n) == Value("int", <<n>>)
Text(letters) == Value("text", letters)   \* a text, or a password as typed
Raw(n) == Value("raw", <<n>>)             \* a password as "strset" stores it
Hash(x) == Value("hash", x.v)

(* The values of a type; a stored password is a "hash".                    *)
OfType(type, value) ==
  /\ value \in [k : {"int", "text", "raw", "hash"}, v : Seq(Int)]
  /\ CASE type = "int" -> value.k = "int" /\ Len(value.v) = 1
       [] type \in {"text", "password"} -> value.k = "text"
       [] OTHER -> value.k \in {"raw", "hash"}

Column(name, type, flags) ==
  [name |-> name, type |-> type, flags |-> flags, ref |-> "", via |-> ""]
Foreign(name, flags, ref) == [Column(name, "int", flags) EXCEPT !.ref = ref]
Nested(name, ref, via) == [Column(name, "struct", {}) EXCEPT !.ref = ref, !.via = via]

IsNull(f) == "null" \in f.flags
Columns(fields) == Filtered(fields, LAMBDA f : f.type # "struct")
Names(fields) == { f.name : f \in Range(fields) }
ColumnNames(fields) == { f.name : f \in Range(Columns(fields)) }
Inputs(fields) == Filtered(Columns(fields), LAMBDA f : "rowid" \notin f.flags)
Field(fields, name) == fields[SelectInSeq(fields, LAMBDA f : f.name = name)]

(* A value that an argument for a field may have, and one that is stored.  *)
Accepts(f, value) == (value = Null /\ IsNull(f)) \/ OfType(f.type, value)
Keeps(f, value) ==
  \/ value = Null /\ IsNull(f)
  \/ OfType(IF f.type = "password" THEN "hash" ELSE f.type, value)

IsUnary(c) == c.op \in {"isnull", "notnull"}
Binary(crq) == Filtered(crq, LAMBDA c : ~IsUnary(c))

(* A comparison with NULL is not true.                                     *)
Holds(op, a, b) ==
  \/ op = "isnull" /\ a = Null
  \/ op = "notnull" /\ a # Null
  \/ /\ a # Null /\ b # Null
     /\ \/ op \in {"eq", "streq"} /\ a = b
        \/ op \in {"neq", "strneq"} /\ a # b
        \/ op = "lt" /\ a.v[1] < b.v[1]
        \/ op = "ge" /\ a.v[1] >= b.v[1]

(* "+", "-" and "||": NULL, if one of the two is.                          *)
Combined(op, a, b) ==
  IF a = Null \/ b = Null THEN Null
  ELSE CASE op = "inc" -> Number(a.v[1] + b.v[1])
         [] op = "dec" -> Number(a.v[1] - b.v[1])
         [] OTHER -> Value(a.k, a.v \o b.v)

RowWith(table, column, value) == SelectInSeq(table, LAMBDA row : row[column] = value)

Repeated(table, column) ==
  \E i, j \in DOMAIN table :
    i < j /\ table[i][column] # Null /\ table[i][column] = table[j][column]

(* The constraint that tables violate.  References are to the column "id". *)
Problem(fields, tables) ==
  LET Some(Bad(_, _)) ==
        \E s \in DOMAIN fields : \E i \in DOMAIN fields[s] : Bad(s, fields[s][i])
      Twice(s, f) == "rowid" \in f.flags /\ Repeated(tables[s], f.name)
      Same(s, f) == "unique" \in f.flags /\ Repeated(tables[s], f.name)
      Dangling(s, f) ==
        /\ f.type # "struct" /\ f.ref # ""
        /\ \E i \in DOMAIN tables[s] :
             LET key == tables[s][i][f.name]
             IN key # Null /\ RowWith(tables[f.ref], "id", key) = 0
  IN IF Some(Twice) THEN "primarykey" ELSE IF Some(Same) THEN "unique"
     ELSE IF Some(Dangling) THEN "foreignkey" ELSE "none"

(* The row identifier SQLite gives a new row.                              *)
NextId(table) == Number(1 + Max({0} \cup { table[i]["id"].v[1] : i \in DOMAIN table }))
==============================================================================
