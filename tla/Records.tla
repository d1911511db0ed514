------------------------------- MODULE Records -------------------------------
(***************************************************************************)
(* What man/ort.5 and the generated documentation promise of the functions *)
(* db_xxx_insert(), _update(), _delete() and _get(), and of transactions:  *)
(* an argument belongs to the field or constraint it is documented with,   *)
(* passwords are kept as hashes unless set by "strset", a call that fails  *)
(* changes nothing, an object has the objects it refers to within it, and  *)
(* a transaction is kept as a whole or not at all.                         *)
(***************************************************************************)
EXTENDS Values

CONSTANT Schemas

VARIABLES schema, \* of Schemas: the fields of each structure, its updates and deletes
          db,     \* the database file
          cur,    \* the database as the program sees it
          open,   \* whether the program has a transaction open
          call,   \* the call made
          result  \* and what it gave
vars == <<schema, db, cur, open, call, result>>

Schema == Schemas[schema]
Fields(s) == Schema.fields[s]

(* An argument is written for a field; it is hashed if a password.         *)
Stored(f, mod, arg) ==
  IF f.type = "password" /\ mod # "strset" /\ arg # Null THEN Hash(arg) ELSE arg

NewRow(s, v) ==
  [ c \in ColumnNames(Fields(s)) |->
      LET f == Field(Fields(s), c)
          place == SelectInSeq(Inputs(Fields(s)), LAMBDA g : g.name = c)
      IN IF place = 0 THEN NextId(cur[s]) ELSE Stored(f, "set", v[place]) ]

(* The constraints are documented behind the modifiers.                    *)
Meets(u, v, row) ==
  \A i \in DOMAIN u.crq :
    LET c == u.crq[i]
        arg == v[Len(u.mrq) + Len(Binary(SubSeq(u.crq, 1, i)))]
    IN Holds(c.op, row[c.field], IF IsUnary(c) THEN Null ELSE arg)

(* Concatenating to nothing gives what is added.                           *)
Modified(f, mod, old, arg) ==
  CASE mod \in {"set", "strset"} -> Stored(f, mod, arg)
    [] mod = "concat" /\ old = Null -> arg
    [] OTHER -> Combined(mod, old, arg)

(* Of two modifiers for a field, the last one counts.                      *)
ChangedRow(u, v, row) ==
  [ c \in DOMAIN row |->
      LET i == SelectLastInSeq(u.mrq, LAMBDA m : m.field = c)
      IN IF i = 0 THEN row[c] ELSE Modified(Field(Fields(u.strct), c), u.mrq[i].mod, row[c], v[i]) ]

(* The object of a row of a structure.                                     *)
Object[s \in DOMAIN Schema.fields] ==
  [i \in DOMAIN cur[s] |->
    [ name \in Names(Fields(s)) |->
        LET f == Field(Fields(s), name)
            key == cur[s][i][f.via]
        IN IF f.type # "struct" THEN cur[s][i][name]
           ELSE IF key = Null THEN {} ELSE { Object[f.ref][RowWith(cur[f.ref], "id", key)] } ]]

(***************************************************************************)
(* Steps.                                                                  *)
(***************************************************************************)
Answer(is) == [is |-> is, id |-> Null, object |-> {}]

Init ==
  /\ cur = db /\ ~open
  /\ call = [fn |-> "none"] /\ result = Answer("none")

(* Outside a transaction a change is kept at once.                         *)
Change(tables, answer) ==
  /\ Problem(Schema.fields, tables) = "none"
  /\ cur' = tables /\ db' = IF open THEN db ELSE tables
  /\ result' = answer /\ UNCHANGED open

(* The program may be ended by a failure, and its transaction with it.     *)
Fail ==
  /\ result' = Answer("failed") /\ UNCHANGED db
  /\ \/ UNCHANGED <<cur, open>>
     \/ cur' = db /\ open' = FALSE

Insert(s, v) ==
  LET row == NewRow(s, v)
      tables == [cur EXCEPT ![s] = Append(@, row)]
  IN \/ Change(tables, [Answer("id") EXCEPT !.id = row["id"]])
     \/ Problem(Schema.fields, tables) # "none" /\ Fail

Attempt(tables) ==
  \/ Change(tables, Answer("done"))
  \/ Problem(Schema.fields, tables) # "none" /\ Fail

Update(u, v) ==
  Attempt([cur EXCEPT ![u.strct] =
             [i \in DOMAIN @ |-> IF Meets(u, v, @[i]) THEN ChangedRow(u, v, @[i]) ELSE @[i]]])

Delete(u, v) ==
  Attempt([cur EXCEPT ![u.strct] = Filtered(@, LAMBDA row : ~Meets(u, v, row))])

Get(s, v) ==
  LET i == RowWith(cur[s], "id", v[1])
  IN /\ result' = [Answer("object") EXCEPT !.object = IF i = 0 THEN {} ELSE {Object[s][i]}]
     /\ UNCHANGED <<db, cur, open>>

Begin ==
  \/ ~open /\ open' = TRUE /\ result' = Answer("done") /\ UNCHANGED <<db, cur>>
  \/ open /\ Fail

End(tables) ==
  \/ /\ open /\ open' = FALSE /\ result' = Answer("done")
     /\ db' = tables /\ cur' = tables
  \/ ~open /\ Fail

Called ==
  /\ UNCHANGED schema
  /\ CASE call'.fn = "insert" -> Insert(call'.strct, call'.v)
       [] call'.fn = "update" -> Update(Schema.uq[call'.n], call'.v)
       [] call'.fn = "delete" -> Delete(Schema.dq[call'.n], call'.v)
       [] call'.fn = "get" -> Get(call'.strct, call'.v)
       [] call'.fn = "open" -> Begin
       [] call'.fn = "commit" -> End(cur)
       [] OTHER -> End(db)

Stop ==
  /\ cur' = db /\ open' = FALSE
  /\ call' = [fn |-> "none"] /\ result' = Answer("none") /\ UNCHANGED <<schema, db>>

(* Another program changes the database, when nothing is in its way.       *)
Others ==
  /\ cur = db /\ cur' = db'
  /\ \E s \in DOMAIN db : \E i \in DOMAIN db[s] : db' = [db EXCEPT ![s] = RemoveAt(@, i)]
  /\ UNCHANGED <<schema, open, call, result>>

Next == Called \/ Stop \/ Others

Spec == Init /\ [][Next]_vars
==============================================================================
