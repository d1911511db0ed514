-------------------------------- MODULE Modify --------------------------------
(***************************************************************************)
(* The insert, update and delete functions of a generated program, the     *)
(* reading of an object with the objects it refers to, and transactions,   *)
(* in the C, nodejs and Rust output (src/lang-c-source.c,                  *)
(* src/lang-nodejs.c, src/lang-rust.c), with the statements of src/lang.c. *)
(* Everything is by position: the columns and the question marks of a      *)
(* statement, the parameters bound to them, the arguments and the hashes   *)
(* they are taken from, and the values of a result.  Another program uses  *)
(* the same database.                                                      *)
(***************************************************************************)
EXTENDS Values

CONSTANTS Backends,  \* the outputs: "c", "nodejs", "rust"
          Schemas,   \* the configurations, by name, each with the tables it starts with
          Arguments(_), \* the values tried for a field
          MaxCalls   \* bound on the calls that are no transaction's, and on the changes
             \* made by the other program

VARIABLES backend, schema, db, cur, open, call, result,
          mode,   \* the mode the transaction was opened with
          lock,   \* the lock it holds: "none", "shared", "reserved", "exclusive"
          running, calls
vars == <<backend, schema, db, cur, open, call, result, mode, lock, running, calls>>

Schema == Schemas[schema]
Fields(s) == Schema.fields[s]
Structs == DOMAIN Schema.fields
IsPassword(f) == f.type = "password"

(***************************************************************************)
(* The parameters of a statement.  A parameter is taken from an argument   *)
(* or a hash, or is null if an argument is that is looked at first.        *)
(***************************************************************************)
Arg(n) == [from |-> "v", n |-> n, looked |-> 0]
HashVar(n) == [from |-> "hash", n |-> n, looked |-> 0]
Unless(param, nullable, n) == [param EXCEPT !.looked = IF nullable THEN n ELSE 0]

(* What there is to bind: whether it is hashed, and whether it is looked   *)
(* at for null first (an argument of a constraint is bound as it is).  All *)
(* outputs decide so.                                                      *)
Slot(hashed, nullable) == [hashed |-> hashed, nullable |-> nullable]

InsertSlots(fields) ==
  LET in == Inputs(fields)
  IN [i \in DOMAIN in |-> Slot(IsPassword(in[i]), IsNull(in[i]))]

(* Mutation: a password is hashed if it is set as it is, and not else.     *)
HashedStrset(f, m) == IsPassword(f) /\ m.mod = "strset"

Hashed(f, m) == IsPassword(f) /\ m.mod # "strset"

UpdateSlots(fields, u) ==
  LET field(i) == Field(fields, u.mrq[i].field)
  IN [i \in DOMAIN u.mrq |-> Slot(Hashed(field(i), u.mrq[i]), IsNull(field(i)))]
       \o [i \in DOMAIN Binary(u.crq) |-> Slot(FALSE, FALSE)]

(* Mutation: the next password is bound to the same hash.                  *)
NextSameHash(st, slot) ==
  LET param == IF slot.hashed THEN HashVar(st.hpos) ELSE Arg(st.pos)
  IN [idx |-> st.idx + 1, pos |-> st.pos + 1, hpos |-> st.hpos,
      parms |-> [st.parms EXCEPT ![st.idx] = Unless(param, slot.nullable, st.pos)],
      hashes |-> IF slot.hashed THEN Append(st.hashes, st.idx) ELSE st.hashes]

(* The C source: gen_bind() and gen_bind_hash() write parms[] at idx, from *)
(* the argument at pos or the hash at hpos; the hashes were made before,   *)
(* one for each password in the same order.                                *)
NextC(st, slot) ==
  LET param == IF slot.hashed THEN HashVar(st.hpos) ELSE Arg(st.pos)
  IN [idx |-> st.idx + 1, pos |-> st.pos + 1,
      hpos |-> IF slot.hashed THEN st.hpos + 1 ELSE st.hpos,
      parms |-> [st.parms EXCEPT ![st.idx] = Unless(param, slot.nullable, st.pos)],
      hashes |-> IF slot.hashed THEN Append(st.hashes, st.idx) ELSE st.hashes]

BindC(slots) ==
  Steps(Len(slots), [idx |-> 1, pos |-> 1, hpos |-> 1,
                     parms |-> [i \in DOMAIN slots |-> Arg(0)], hashes |-> <<>>],
        LAMBDA st, i : NextC(st, slots[i]))

(* nodejs: parms.push(), of an argument or of its hash.                    *)
Push(st, slot) ==
  LET param == IF slot.hashed THEN HashVar(Len(st.hashes) + 1) ELSE Arg(st.pos)
  IN [pos |-> st.pos + 1,
      parms |-> Append(st.parms, Unless(param, slot.nullable, st.pos)),
      hashes |-> IF slot.hashed THEN Append(st.hashes, st.pos) ELSE st.hashes]

BindNode(slots) ==
  Steps(Len(slots), [pos |-> 1, parms |-> <<>>, hashes |-> <<>>],
        LAMBDA st, i : Push(st, slots[i]))

(* Rust: the variables with the hashes, in the order of their arguments,   *)
(* and then params![] with them and the other arguments.                   *)
BindRust(slots) ==
  [hashes |-> Filtered([i \in DOMAIN slots |-> i], LAMBDA i : slots[i].hashed),
   parms |-> [i \in DOMAIN slots |->
     Unless(IF slots[i].hashed THEN HashVar(Cardinality({ j \in 1..i : slots[j].hashed }))
            ELSE Arg(i),
            slots[i].nullable, i)]]

Binding(slots) ==
  CASE backend = "c" -> BindC(slots) [] backend = "nodejs" -> BindNode(slots)
    [] OTHER -> BindRust(slots)

(* The values bound, for the arguments v.                                  *)
Bound(binding, v) ==
  LET value(p) == IF p.looked # 0 /\ v[p.looked] = Null THEN Null
                  ELSE IF p.from = "hash" THEN Hash(v[binding.hashes[p.n]])
                  ELSE v[p.n]
  IN [i \in DOMAIN binding.parms |-> value(binding.parms[i])]

(***************************************************************************)
(* The statements, whose question marks are numbered from the left.        *)
(***************************************************************************)
InsertSql(fields) == LET in == Inputs(fields) IN [i \in DOMAIN in |-> in[i].name]

MarkOf(fields, name) == SelectInSeq(InsertSql(fields), LAMBDA c : c = name)

Inserted(fields, p, table) ==
  [name \in ColumnNames(fields) |->
     IF MarkOf(fields, name) # 0 THEN p[MarkOf(fields, name)] ELSE NextId(table)]

Assigned(fields, m, old, value) ==
  LET coalesced == IF m.mod = "concat" /\ IsNull(Field(fields, m.field)) /\ old = Null
                   THEN Text(<<>>) ELSE old
  IN IF m.mod \in {"inc", "dec", "concat"} THEN Combined(m.mod, coalesced, value) ELSE value

(* Of two assignments to a column SQLite carries out the second.           *)
SetSql(fields, u, p, row) ==
  Steps(Len(u.mrq), row,
        LAMBDA new, i : [new EXCEPT ![u.mrq[i].field] =
                           Assigned(fields, u.mrq[i], row[u.mrq[i].field], p[i])])

WhereSql(u, p, row) ==
  Steps(Len(u.crq), [place |-> Len(u.mrq) + 1, holds |-> TRUE],
        LAMBDA st, i : LET c == u.crq[i] IN
          IF IsUnary(c) THEN [st EXCEPT !.holds = @ /\ Holds(c.op, row[c.field], Null)]
          ELSE [place |-> st.place + 1,
                holds |-> st.holds /\ Holds(c.op, row[c.field], p[st.place])]).holds

(* SELECT: the columns of the structure, and then those of the structures  *)
(* within it that are not null, joined by their references.                *)
InOrder(fields, row) ==
  LET cols == Columns(fields) IN [i \in DOMAIN cols |-> row[cols[i].name]]
Target(f, row) == RowWith(cur[f.ref], "id", row[f.via])
Optional(fields, f) == IsNull(Field(fields, f.via))
Joined(fields) == Filtered(fields, LAMBDA f : f.type = "struct" /\ ~Optional(fields, f))

SelectSql[s \in Structs] ==
  [i \in DOMAIN cur[s] |->
    LET row == cur[s][i]
        in == Joined(Fields(s))
    IN Steps(Len(in), InOrder(Fields(s), row),
             LAMBDA set, n : set \o SelectSql[in[n].ref][Target(in[n], row)])]

(***************************************************************************)
(* Reading a result into an object, from a position on.                    *)
(***************************************************************************)
(* C: a value is taken and the position moves on, field by field; then the *)
(* objects within are filled in from there.                                *)
FillC(fields, set, pos) ==
  Steps(Len(fields), [obj |-> [name \in Names(fields) |-> {}], pos |-> pos],
        LAMBDA st, n : LET f == fields[n] IN
          IF f.type = "struct" THEN st
          ELSE [obj |-> [st.obj EXCEPT ![f.name] = set[st.pos]], pos |-> st.pos + 1])

(* nodejs and Rust: fields are at an offset from where the object starts,  *)
(* and the position moves past all of them.                                *)
FillAt(fields, set, pos) ==
  LET cols == Columns(fields)
      offset(name) == SelectInSeq(cols, LAMBDA f : f.name = name) - 1
  IN [obj |-> [name \in Names(fields) |->
                 IF Field(fields, name).type = "struct" THEN {} ELSE set[pos + offset(name)]],
      pos |-> pos + Len(cols)]

(* db_xxx_fill_r(): the object with those joined to it.                    *)
Filled(s, set) ==
  LET Fill[t \in Structs] ==
        [pos \in Nat |->
          LET in == Joined(Fields(t))
          IN Steps(Len(in),
                   IF backend = "c" THEN FillC(Fields(t), set, pos) ELSE FillAt(Fields(t), set, pos),
                   LAMBDA st, n : LET nested == Fill[in[n].ref][st.pos] IN
                     [obj |-> [st.obj EXCEPT ![in[n].name] = {nested.obj}], pos |-> nested.pos])]
  IN Fill[s][1].obj

(* STRCT_HAS_NULLREFS.                                                     *)
HasNullRefs[s \in Structs] ==
  \E i \in DOMAIN Fields(s) :
    LET f == Fields(s)[i]
    IN f.type = "struct" /\ (Optional(Fields(s), f) \/ HasNullRefs[f.ref])

(* What the pointer to an object within another one points to.             *)
At(object, path) ==
  Steps(Len(path), object, LAMBDA o, n : CHOOSE within \in o[path[n]] : TRUE)

(* An object of a row, filled in and then looked through by                *)
(* db_xxx_reffind(), which follows each reference that is not null with a  *)
(* query of its own.                                                       *)
Got[s \in Structs] ==
  [i \in DOMAIN cur[s] |->
    LET filled == Filled(s, SelectSql[s][i])
        Reffind[t \in Structs] ==
          [path \in Seq(STRING) |->
            LET o == At(filled, path)
            IN [name \in Names(Fields(t)) |->
                  LET f == Field(Fields(t), name)
                  IN IF f.type # "struct" THEN o[name]
                     ELSE IF Optional(Fields(t), f)
                     THEN IF o[f.via] = Null THEN {} ELSE { Got[f.ref][Target(f, o)] }
                     ELSE IF HasNullRefs[f.ref] THEN { Reffind[f.ref][Append(path, name)] }
                     ELSE o[name]]]
    IN IF HasNullRefs[s] THEN Reffind[s][<<>>] ELSE filled]

(***************************************************************************)
(* What parser and linker accept: fields have names of their own, the      *)
(* rowid of a structure is "id", a struct field goes by a column with the  *)
(* same reference and contains no structure that contains it, passwords    *)
(* are set and compared as hashes or not at all.                           *)
(***************************************************************************)
FieldFits(fields, s, i) ==
  LET f == fields[s][i]
  IN /\ f \in [name : STRING, type : {"int", "text", "password", "struct"},
               flags : SUBSET {"rowid", "unique", "null"}, ref : STRING, via : STRING]
     /\ "rowid" \in f.flags <=> f.name = "id"
     /\ f.name = "id" => f.type = "int" /\ ~IsNull(f) /\ f.ref = ""
     /\ f.ref # "" => f.ref \in DOMAIN fields /\ f.type \in {"int", "struct"}
     /\ f.type = "struct" => \E j \in DOMAIN fields[s] :
          fields[s][j].name = f.via /\ fields[s][j].type = "int"
            /\ fields[s][j].ref = f.ref /\ f.ref # ""

StructFits(fields, s) ==
  /\ fields[s] \in Seq(Range(fields[s]))
  /\ \A i \in DOMAIN fields[s] : FieldFits(fields, s, i)
  /\ \A i, j \in DOMAIN fields[s] : fields[s][i].name = fields[s][j].name => i = j
  /\ \E i \in DOMAIN fields[s] : fields[s][i].name = "id"

(* An argument for "strset", "streq" or "strneq" is a hash already.        *)
AsHash(f, how) ==
  IF how \in {"strset", "streq", "strneq"} /\ IsPassword(f) THEN [f EXCEPT !.type = "hash"] ELSE f
Needed(f) == [f EXCEPT !.flags = @ \ {"null"}]

UpdateFits(fields, u) ==
  /\ u.strct \in DOMAIN fields
  /\ u.mrq \in Seq([field : STRING, mod : {"set", "strset", "inc", "dec", "concat"}])
  /\ u.crq \in Seq([field : STRING, op : STRING])
  /\ \A i \in DOMAIN u.mrq : \E f \in Range(fields[u.strct]) :
       /\ f.name = u.mrq[i].field /\ f.type # "struct"
       /\ u.mrq[i].mod \in {"inc", "dec"} => f.type = "int"
       /\ u.mrq[i].mod = "concat" => f.type = "text"
  /\ \A i \in DOMAIN u.crq : \E f \in Range(fields[u.strct]) :
       f.name = u.crq[i].field /\ f.type # "struct"

TablesFit(fields, tables) ==
  /\ DOMAIN tables = DOMAIN fields
  /\ \A s \in DOMAIN fields :
       /\ tables[s] \in Seq(Range(tables[s]))
       /\ \A row \in Range(tables[s]) :
            /\ row = [name \in ColumnNames(fields[s]) |-> row[name]]
            /\ \A f \in Range(Columns(fields[s])) : Keeps(f, row[f.name])

SchemaFits(sch) ==
  /\ IsFiniteSet(DOMAIN sch.fields)
  /\ \A s \in DOMAIN sch.fields : StructFits(sch.fields, s)
  /\ \E rank \in [DOMAIN sch.fields -> 0..Cardinality(DOMAIN sch.fields)] :
       \A s \in DOMAIN sch.fields : \A f \in Range(sch.fields[s]) :
         f.type = "struct" => rank[f.ref] < rank[s]
  /\ sch.uq \in Seq(Range(sch.uq)) /\ sch.dq \in Seq(Range(sch.dq))
  /\ \A u \in Range(sch.uq) \cup Range(sch.dq) : UpdateFits(sch.fields, u)
  /\ \A tables \in sch.starts : TablesFit(sch.fields, tables) /\ Problem(sch.fields, tables) = "none"

ASSUME SchemasAssumption == \A c \in DOMAIN Schemas : SchemaFits(Schemas[c])

ASSUME ArgumentsAssumption ==
  \A c \in DOMAIN Schemas : \A s \in DOMAIN Schemas[c].fields :
    \A f \in Range(Columns(Schemas[c].fields[s])), how \in {"set", "strset"} :
      LET g == AsHash(f, how)
      IN /\ \A arg \in Arguments(g) : Accepts(g, arg)
         /\ \A arg \in Arguments(Needed(g)) : Accepts(Needed(g), arg)

(***************************************************************************)
(* Calls.                                                                  *)
(***************************************************************************)
Answer(is) == [is |-> is, id |-> Null, object |-> {}]

Init ==
  /\ backend \in Backends /\ schema \in DOMAIN Schemas /\ db \in Schema.starts
  /\ cur = db /\ open = FALSE /\ mode = "none" /\ lock = "none"
  /\ call = [fn |-> "none"] /\ result = Answer("none")
  /\ running = TRUE /\ calls = 0

Calls(c) ==
  /\ running /\ calls < MaxCalls /\ calls' = calls + 1
  /\ call' = c /\ UNCHANGED <<backend, schema>>

CallsTrans(fn) ==
  /\ backend # "rust" /\ running
  /\ call' = [fn |-> fn] /\ UNCHANGED <<backend, schema, calls>>

(* Within a transaction a lock is kept.                                    *)
Locks(l) == lock' = IF ~open \/ lock = "exclusive" THEN lock ELSE l
Reads == Locks(IF lock = "none" THEN "shared" ELSE lock)
Writes == Locks("reserved")

(* exit(EXIT_FAILURE), with sqlbox ending too.                             *)
Ends ==
  /\ running' = FALSE /\ open' = FALSE /\ lock' = "none" /\ mode' = "none"
  /\ cur' = db /\ UNCHANGED db

(* An exception or an error value, which the caller may handle.            *)
Throws == Writes /\ UNCHANGED <<db, cur, open, mode, running>>

Refuses(problem) ==
  /\ problem # "none" /\ Throws /\ result' = Answer("failed")

Changes(tables, answer) ==
  /\ Problem(Schema.fields, tables) = "none"
  /\ cur' = tables /\ db' = IF open THEN db ELSE tables
  /\ result' = answer /\ Writes /\ UNCHANGED <<open, mode, running>>

OneMore(vs, f) == { Append(v, a) : v \in vs, a \in Arguments(f) }
ArgumentsOf(fields) == Steps(Len(fields), {<<>>}, LAMBDA vs, i : OneMore(vs, fields[i]))

(* sqlbox_lastid(), lastInsertRowid.                                       *)
Insert(s) ==
  LET binding == Binding(InsertSlots(Fields(s))) IN
  \E v \in ArgumentsOf(Inputs(Fields(s))) :
    LET row == Inserted(Fields(s), Bound(binding, v), cur[s])
        tables == [cur EXCEPT ![s] = Append(@, row)]
    IN /\ Calls([fn |-> "insert", strct |-> s, v |-> v])
       /\ \/ Changes(tables, [Answer("id") EXCEPT !.id = row["id"]])
          \/ Refuses(Problem(Schema.fields, tables))

(* The argument of a constraint may be null if the field may, but in C,    *)
(* where print_var() is told that it may not.                              *)
Constrained(f) == IF backend = "c" THEN Needed(f) ELSE f

ArgumentsFor(u) ==
  LET con == Binary(u.crq)
      field(r) == Field(Fields(u.strct), r.field)
  IN ArgumentsOf([i \in DOMAIN u.mrq |-> AsHash(field(u.mrq[i]), u.mrq[i].mod)]
                 \o [i \in DOMAIN con |-> Constrained(AsHash(field(con[i]), con[i].op))])

Update(n) ==
  LET u == Schema.uq[n]
      binding == Binding(UpdateSlots(Fields(u.strct), u))
  IN \E v \in ArgumentsFor(u) :
    LET p == Bound(binding, v)
        new(row) == IF WhereSql(u, p, row) THEN SetSql(Fields(u.strct), u, p, row) ELSE row
        tables == [cur EXCEPT ![u.strct] = [i \in DOMAIN @ |-> new(@[i])]]
    IN /\ Calls([fn |-> "update", n |-> n, v |-> v])
       /\ \/ Changes(tables, Answer("done"))
          \/ Refuses(Problem(Schema.fields, tables))

(* In C, a delete that violates a constraint ends the program.             *)
Delete(n) ==
  LET u == Schema.dq[n]
      binding == Binding(UpdateSlots(Fields(u.strct), u))
  IN \E v \in ArgumentsFor(u) :
    LET p == Bound(binding, v)
        tables == [cur EXCEPT ![u.strct] = Filtered(@, LAMBDA row : ~WhereSql(u, p, row))]
        problem == Problem(Schema.fields, tables)
    IN /\ Calls([fn |-> "delete", n |-> n, v |-> v])
       /\ \/ Changes(tables, Answer("done"))
          \/ backend # "c" /\ Refuses(problem)
          \/ backend = "c" /\ problem # "none" /\ Ends /\ result' = Answer("failed")

(* A search by the row identifier.                                         *)
Get(s) ==
  \E v \in ArgumentsOf(<<Field(Fields(s), "id")>>) :
    LET i == RowWith(cur[s], "id", v[1])
    IN /\ Calls([fn |-> "get", strct |-> s, v |-> v])
       /\ result' = [Answer("object") EXCEPT !.object = IF i = 0 THEN {} ELSE {Got[s][i]}]
       /\ Reads /\ UNCHANGED <<db, cur, open, mode, running>>

(***************************************************************************)
(* Transactions, which the Rust output has not.  What nodejs sends is      *)
(* "BEGIN TRANSACTION IMMEDIATE" and the like: SQLite has the mode in      *)
(* front of the word TRANSACTION and takes what is behind it for a name.   *)
(***************************************************************************)
LockOf(m) ==
  CASE backend = "nodejs" -> "none" [] m = "immediate" -> "reserved"
    [] m = "exclusive" -> "exclusive" [] OTHER -> "none"

(* Opened twice, or ended when it is not open.                             *)
Misused ==
  /\ result' = Answer("failed")
  /\ IF backend = "c" THEN Ends ELSE UNCHANGED <<db, cur, open, mode, lock, running>>

(* Mutation: every mode is the deferred one.                               *)
OpenTransDeferred(m) ==
  /\ CallsTrans("open")
  /\ IF open THEN Misused
     ELSE /\ open' = TRUE /\ mode' = m /\ lock' = "none" /\ result' = Answer("done")
          /\ UNCHANGED <<db, cur, running>>

OpenTrans(m) ==
  /\ CallsTrans("open")
  /\ IF open THEN Misused
     ELSE /\ open' = TRUE /\ mode' = m /\ lock' = LockOf(m) /\ result' = Answer("done")
          /\ UNCHANGED <<db, cur, running>>

Closes(tables) ==
  /\ open' = FALSE /\ mode' = "none" /\ lock' = "none" /\ result' = Answer("done")
  /\ db' = tables /\ cur' = tables /\ UNCHANGED running

Commit ==
  /\ CallsTrans("commit")
  /\ IF open THEN Closes(cur) ELSE Misused

Rollback ==
  /\ CallsTrans("rollback")
  /\ IF open THEN Closes(db) ELSE Misused

(***************************************************************************)
(* The program is killed, or is started again.                             *)
(***************************************************************************)
Crash ==
  /\ running /\ Ends /\ call' = [fn |-> "none"] /\ result' = Answer("none")
  /\ UNCHANGED <<backend, schema, calls>>

Restart ==
  /\ ~running /\ running' = TRUE
  /\ call' = [fn |-> "none"] /\ result' = Answer("none")
  /\ UNCHANGED <<backend, schema, db, cur, open, mode, lock, calls>>

(* Another program deletes a row.  A lock keeps it from doing so.          *)
Other ==
  /\ lock = "none" /\ calls < MaxCalls /\ calls' = calls + 1
  /\ \E s \in DOMAIN db : \E i \in DOMAIN db[s] :
       LET tables == [db EXCEPT ![s] = RemoveAt(@, i)]
       IN Problem(Schema.fields, tables) = "none" /\ db' = tables /\ cur' = tables
  /\ UNCHANGED <<backend, schema, open, call, result, mode, lock, running>>

Next ==
  \/ \E s \in Structs : Insert(s) \/ Get(s)
  \/ \E n \in DOMAIN Schema.uq : Update(n)
  \/ \E n \in DOMAIN Schema.dq : Delete(n)
  \/ \E m \in {"immediate", "deferred", "exclusive"} : OpenTrans(m)
  \/ Commit \/ Rollback \/ Crash \/ Restart \/ Other

Spec == Init /\ [][Next]_vars

(***************************************************************************)
(* Properties.                                                             *)
(***************************************************************************)
(* What is done by position is what man/ort.5 promises by name: a column   *)
(* gets its own argument, exactly the rows that meet the constraints are   *)
(* changed, an object is that of its row with the objects it refers to, a  *)
(* call that fails changes nothing, and a transaction is kept as a whole   *)
(* or not at all, however the program ends.                                *)
R == INSTANCE Records
ImplementsRecords == R!Spec

(* man/ort.5: a password is inserted or updated as a password and extracted *)
(* as a hash.  As it was typed it is never in the database, neither in the *)
(* file nor in a transaction.                                              *)
PasswordsHashed ==
  \A s \in DOMAIN db : \A f \in Range(Fields(s)) :
    IsPassword(f) =>
      \A row \in Range(db[s]) \cup Range(cur[s]) : row[f.name].k # "text"

(* man/ort-c-header.1: with a transaction of the mode immediate or         *)
(* exclusive open, no other program changes the database.  The nodejs      *)
(* output, whose transactions are all deferred, does not keep to it.       *)
ExcludedInC ==
  [][backend = "c" /\ open /\ open' /\ mode \in {"immediate", "exclusive"} => db' = db]_vars
==============================================================================
