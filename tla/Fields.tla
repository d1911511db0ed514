-------------------------------- MODULE Fields --------------------------------
(***************************************************************************)
(* The fields of one structure, as parse_field() of src/parser_field.c     *)
(* adds them: each is declared, given properties in any order, and         *)
(* finished.  What is allowed is decided by FieldInfo, one property at a   *)
(* time, in view of what was given before.  Declarations_proofs extends    *)
(* this module and EnumItems, so their names differ.                       *)
(***************************************************************************)
EXTENDS FieldInfo

CONSTANTS FieldNames,
          References,   \* of foreign keys: <<structure, field>>
          Properties    \* records as Info() takes them

ASSUME ReferencesAssumption == <<>> \notin References
ASSUME NamesAssumption == "" \notin FieldNames
ASSUME PropertiesAssumption ==
  \A info \in Properties :
    /\ info.name = "limit" => info.arg.n \in Int
    /\ info.name = "default" => info.arg.n \in Int /\ info.arg.s \in STRING

VARIABLES fields,   \* finished ones, in order
          fd,       \* the one being declared
          rowid,    \* name of the rowid of the structure, or empty
          stage     \* "between" fields, "within" one, or "refused"

fieldVars == <<fields, fd, rowid, stage>>

FieldsInit ==
  /\ fields = <<>> /\ rowid = "" /\ stage = "between"
  /\ fd = NewField("", "int", <<>>, "")

RefuseField == stage' = "refused" /\ UNCHANGED <<fields, fd, rowid>>

NameUsed(name) == \E i \in DOMAIN fields : fields[i].name = name

(* The name, the reference if any, and the type.                           *)
Declare(name, type, ref) ==
  /\ stage = "between"
  /\ IF NameUsed(name) \/ (type = "struct" /\ ref # <<>>) THEN RefuseField
     ELSE /\ fd' = NewField(name, type, ref, "")
          /\ stage' = "within"
          /\ UNCHANGED <<fields, rowid>>

GiveProperty(info) ==
  /\ stage = "within"
  /\ LET given == Info(fd, rowid, info)
     IN IF ~given.ok THEN RefuseField
        ELSE /\ fd' = given.fd /\ rowid' = given.rowid
             /\ UNCHANGED <<fields, stage>>

Finish ==
  /\ stage = "within"
  /\ IF ~ActionsBacked(fd) THEN RefuseField
     ELSE /\ fields' = Append(fields, fd)
          /\ stage' = "between"
          /\ UNCHANGED <<fd, rowid>>

FieldsNext ==
  \/ \E name \in FieldNames, type \in Types, ref \in References \cup {<<>>} :
       Declare(name, type, ref)
  \/ \E info \in Properties : GiveProperty(info)
  \/ Finish

FieldsSpec == FieldsInit /\ [][FieldsNext]_fieldVars

(***************************************************************************)
(* Properties.                                                             *)
(***************************************************************************)
FlagSet == {"rowid", "unique", "null", "noexport", "hasdef"}

FieldRecords ==
  [name : FieldNames \cup {""}, type : Types, ref : References \cup {<<>>}, target : {""},
   flags : SUBSET FlagSet, def : {<<>>} \cup (Int \X STRING), fvq : Seq([op : Ops, n : Int]),
   actup : Actions, actdel : Actions, doc : {"-"}]

FieldsTypeOK ==
  /\ fields \in Seq(FieldRecords) /\ fd \in FieldRecords
  /\ rowid \in FieldNames \cup {""}
  /\ stage \in {"between", "within", "refused"}

(* A structure has at most one rowid, and it is what SQLite's INTEGER      *)
(* PRIMARY KEY asks for: a plain integer that is not null; that it is      *)
(* unique goes without saying, and the schema relies on it not being said. *)
RowidSound ==
  /\ \A i, j \in DOMAIN fields :
       "rowid" \in fields[i].flags /\ "rowid" \in fields[j].flags => i = j
  /\ \A i \in DOMAIN fields : "rowid" \in fields[i].flags =>
       /\ fields[i].type = "int" /\ fields[i].ref = <<>>
       /\ "null" \notin fields[i].flags /\ "unique" \notin fields[i].flags

(* What a foreign key does when its target goes can be done: there is a    *)
(* null or a default to put in its place, in a field that refers to one.   *)
ActionsSound ==
  \A i \in DOMAIN fields :
    LET f == fields[i]
    IN \A act \in {f.actup, f.actdel} :
         /\ act # "none" => f.ref # <<>> /\ f.type # "struct"
         /\ act = "nullify" => "null" \in f.flags /\ "rowid" \notin f.flags
         /\ act = "default" => "null" \in f.flags \/ "hasdef" \in f.flags
===============================================================================
