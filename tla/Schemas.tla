------------------------------- MODULE Schemas -------------------------------
(***************************************************************************)
(* What ort-sqldiff promises: of a configuration that is deployed and one  *)
(* that is wanted, it says whether they are compatible, and if they are,   *)
(* the database ends with the schema of the wanted one.  Destructive       *)
(* changes have to be asked for.  Defaults of columns, which only          *)
(* alterations write, and columns that are only noted as dropped, are not  *)
(* part of the schema.                                                     *)
(***************************************************************************)
EXTENDS SqlSchema

VARIABLES config, wanted, asked, answer, schema
vars == <<config, wanted, asked, answer, schema>>

(***************************************************************************)
(* Stored data keep their meaning: columns stay as they were, values of    *)
(* enumerations and bitfields keep their names, and nothing is dropped     *)
(* unless it may be.                                                       *)
(***************************************************************************)
ValueKinds == {"enm", "eitem", "bitf", "bitidx"}

Kept(old, new) ==
  /\ \A p \in DOMAIN old : p[1] \in ValueKinds => p \in DOMAIN new
  /\ \A s \in Tables(old) : s \in Tables(new) /\ Columns(old, s) \subseteq Fields(new, s)

SameColumn(a, b) ==
  /\ a.type = b.type
  /\ a.type \in {"enum", "bitfield"} => a.of = b.of
  /\ a.type # "struct" => Column(a) = Column(b)

Compatible(old, new, destruct) ==
  /\ destruct \/ Kept(old, new)
  /\ \A p \in DOMAIN old \cap DOMAIN new :
       /\ p[1] = "field" => SameColumn(old[p], new[p])
       /\ p[1] \in {"eitem", "bitidx"} => old[p].value = new[p].value

Write ==
  /\ answer # "script"
  /\ asked' = FALSE /\ answer' = "none"
  /\ UNCHANGED <<config, schema>>

(* asked' is whether destructive changes have been asked for.              *)
Ask ==
  /\ answer # "script"
  /\ asked' \in BOOLEAN
  /\ answer' = IF Compatible(config, wanted, asked') THEN "script" ELSE "refused"
  /\ UNCHANGED <<config, wanted, schema>>

Upgrade ==
  /\ answer = "script"
  /\ config' = wanted /\ schema' = Schema(wanted)
  /\ asked' = FALSE /\ answer' = "none"
  /\ UNCHANGED wanted

Init == schema = Schema(config) /\ wanted = config /\ ~asked /\ answer = "none"

Next == Write \/ Ask \/ Upgrade

Spec == Init /\ [][Next]_vars
==============================================================================
