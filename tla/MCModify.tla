------------------------------- MODULE MCModify -------------------------------
(* Structures with a reference that may be null and one that may not, with *)
(* the parts of the object in front of and behind its columns, passwords   *)
(* that are hashed or set, and constraints behind unary ones.              *)
EXTENDS Modify

Mod(field, mod) == [field |-> field, mod |-> mod]
Con(field, op) == [field |-> field, op |-> op]
Statement(mrq, crq) == [strct |-> "user", mrq |-> mrq, crq |-> crq]
Id == Column("id", "int", {"rowid"})

Company == << Column("t", "text", {"unique"}), Id >>
CompanyRow == [id |-> Number(1), t |-> Text(<<1>>)]
Drop == [strct |-> "comp", mrq |-> <<>>, crq |-> << Con("id", "eq") >>]

MCRequired ==
  [fields |-> [comp |-> Company,
               user |-> << Nested("in", "comp", "cid"), Column("pw", "password", {"null"}),
                           Foreign("cid", {}, "comp"), Column("n", "int", {"null"}), Id >>],
   uq |-> << Statement(<< Mod("n", "inc"), Mod("pw", "set") >>, << Con("pw", "notnull"), Con("n", "eq") >>),
             Statement(<< Mod("pw", "strset"), Mod("cid", "set") >>, << Con("id", "ge"), Con("pw", "isnull"), Con("n", "lt") >>),
             Statement(<< Mod("id", "set") >>, <<>>) >>,
   dq |-> << Drop, Statement(<<>>, << Con("n", "notnull"), Con("pw", "streq"), Con("id", "eq") >>) >>,
   starts |-> { [comp |-> << CompanyRow >>,
                 user |-> << [id |-> Number(1), cid |-> Number(1), pw |-> Hash(Text(<<1>>)), n |-> Number(1)],
                             [id |-> Number(2), cid |-> Number(1), pw |-> Null, n |-> Null] >>] }]

MCOptional ==
  [fields |-> [comp |-> Company,
               user |-> << Id, Column("t", "text", {"null"}), Column("pw", "password", {}),
                           Foreign("cid", {"null"}, "comp"), Nested("in", "comp", "cid"),
                           Column("qw", "password", {"null"}) >>,
               tool |-> << Foreign("uid", {}, "user"), Nested("of", "user", "uid"),
                           Foreign("cid", {}, "comp"), Nested("by", "comp", "cid"), Id >>],
   uq |-> << Statement(<< Mod("t", "concat"), Mod("qw", "set"), Mod("pw", "set") >>, << Con("cid", "isnull"), Con("id", "eq") >>),
             Statement(<< Mod("t", "set"), Mod("t", "concat"), Mod("cid", "set") >>, << Con("id", "neq") >>),
             Statement(<< Mod("pw", "strset") >>, << Con("qw", "strneq"), Con("t", "eq") >>) >>,
   dq |-> << Drop, Statement(<<>>, << Con("t", "isnull") >>) >>,
   starts |-> { [comp |-> << CompanyRow >>,
                 user |-> << [id |-> Number(1), t |-> Null, pw |-> Hash(Text(<<1>>)), cid |-> Number(1), qw |-> Hash(Text(<<2>>))],
                             [id |-> Number(2), t |-> Text(<<1>>), pw |-> Hash(Text(<<2>>)), cid |-> Null, qw |-> Null] >>,
                 tool |-> << [id |-> Number(1), uid |-> Number(1), cid |-> Number(1)] >>] }]

MCSchemas == [required |-> MCRequired, optional |-> MCOptional]

MCArguments(f) ==
  (IF IsNull(f) THEN {Null} ELSE {}) \cup
  (CASE f.type = "password" -> {IF f.name = "pw" THEN Text(<<1>>) ELSE Text(<<2>>)}
     [] f.type = "hash" -> {Raw(1), Hash(Text(<<1>>))}
     [] f.type = "text" -> {Text(<<1>>), Text(<<2>>)} \ (IF f.flags = {"null"} THEN {Text(<<1>>)} ELSE {})
     [] OTHER -> {Number(1), Number(2)})
==============================================================================
