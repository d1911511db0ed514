------------------------------ MODULE FieldInfo ------------------------------
(***************************************************************************)
(* The properties of a field, parse_field_info() of src/parser_field.c.    *)
(* They come in any order and any number, and each is accepted or refused  *)
(* in view of those that came before it, in this field and in the other    *)
(* fields of the structure.                                                *)
(***************************************************************************)
EXTENDS Integers, Sequences

Integral == {"bit", "bits", "date", "epoch", "int"}
Textual == {"email", "text"}
Sized == Textual \cup {"blob", "password"}
Types == Integral \cup Sized \cup {"real", "enum", "struct"}

Ops == {"ge", "le", "gt", "lt", "eq"}
Actions == {"none", "restrict", "nullify", "cascade", "default"}

NewField(name, type, ref, target) ==
  [name |-> name, type |-> type,
   ref |-> ref,        \* <<structure, field>> of a foreign key, or <<>>
   target |-> target,  \* name of an enumeration, bitfield or source field
   flags |-> {}, def |-> <<>>, fvq |-> <<>>,
   actup |-> "none", actdel |-> "none", doc |-> "-"]

(* Mutation: what was set before is not looked at.                         *)
RowidLate(fd, rowid) == fd.type = "int" /\ fd.ref = <<>> /\ rowid = ""

RowidAllowed(fd, rowid) ==
  /\ rowid = ""               \* one of the structure, this field's included
  /\ fd.type = "int" /\ fd.ref = <<>>
  /\ "null" \notin fd.flags

Refused(fd, rowid) == [fd |-> fd, rowid |-> rowid, ok |-> FALSE]
Changed(fd, rowid) == [fd |-> fd, rowid |-> rowid, ok |-> TRUE]
Decided(allowed, fd, new, rowid) ==
  IF allowed THEN Changed(new, rowid) ELSE Refused(fd, rowid)

(* "unique" is dropped with a warning if it came first.                    *)
Rowid(fd, rowid) ==
  IF ~RowidAllowed(fd, rowid) THEN Refused(fd, rowid)
  ELSE Changed([fd EXCEPT !.flags = (@ \ {"unique"}) \cup {"rowid"}], fd.name)

(* It is ignored with a warning if it comes second.                        *)
Unique(fd, rowid) ==
  IF fd.type # "struct" /\ "rowid" \in fd.flags THEN Changed(fd, rowid)
  ELSE Decided(fd.type # "struct", fd, [fd EXCEPT !.flags = @ \cup {"unique"}], rowid)

Null(fd, rowid) ==
  Decided("rowid" \notin fd.flags /\ fd.type # "struct",
          fd, [fd EXCEPT !.flags = @ \cup {"null"}], rowid)

Noexport(fd, rowid) == Changed([fd EXCEPT !.flags = @ \cup {"noexport"}], rowid)

(* parse_validate().                                                       *)
Limit(fd, rowid, limit) ==
  Decided(/\ fd.type \notin {"struct", "enum"}
          /\ limit.op \in Ops
          /\ fd.type \in Integral => limit.kind = "integer"
          /\ fd.type = "real" => limit.kind \in {"integer", "decimal"}
          /\ fd.type \in Sized => limit.kind = "integer" /\ limit.n >= 0
          /\ \A i \in DOMAIN fd.fvq : fd.fvq[i].op # limit.op \/ fd.fvq[i].n # limit.n,
          fd, [fd EXCEPT !.fvq = Append(@, [op |-> limit.op, n |-> limit.n])], rowid)

(* parse_action(), for actdel and actup.                                   *)
IsReference(fd) == fd.ref # <<>> /\ fd.type # "struct"

Action(fd, rowid, which, act) ==
  Decided(IsReference(fd) /\ act \in Actions, fd,
          IF which = "actdel" THEN [fd EXCEPT !.actdel = act]
          ELSE [fd EXCEPT !.actup = act],
          rowid)

(* A default is given again without a message: the last one counts.  One   *)
(* of a date is a year, a month and a day, the last two read as negative   *)
(* numbers, as in 2020-02-29.                                              *)
Default(fd, rowid, def) ==
  Decided(CASE fd.type = "date" -> def.kind = "date"
            [] fd.type \in Integral \ {"date"} -> def.kind = "integer"
            [] fd.type = "real" -> def.kind \in {"integer", "decimal"}
            [] fd.type \in Textual -> def.kind = "literal"
            [] fd.type = "enum" -> def.kind = "ident"
            [] OTHER -> FALSE,
          fd, [fd EXCEPT !.flags = @ \cup {"hasdef"}, !.def = <<def.n, def.s>>], rowid)

(***************************************************************************)
(* One property, as read: its name and its argument.                       *)
(***************************************************************************)
Info(fd, rowid, info) ==
  CASE info.name = "rowid" -> Rowid(fd, rowid)
    [] info.name = "unique" -> Unique(fd, rowid)
    [] info.name = "null" -> Null(fd, rowid)
    [] info.name = "noexport" -> Noexport(fd, rowid)
    [] info.name = "limit" -> Limit(fd, rowid, info.arg)
    [] info.name \in {"actdel", "actup"} -> Action(fd, rowid, info.name, info.arg.s)
    [] info.name = "default" -> Default(fd, rowid, info.arg)
    [] OTHER -> Refused(fd, rowid)

(* Mutation: what the foreign key asks for is not required.                *)
ActionsAny(fd) == TRUE

(* The last checks of parse_field(), when all properties have been read.   *)
ActionsBacked(fd) ==
  /\ "default" \in {fd.actup, fd.actdel} =>
       "null" \in fd.flags \/ "hasdef" \in fd.flags
  /\ "nullify" \in {fd.actup, fd.actdel} => "null" \in fd.flags
==============================================================================
