---------------------------- MODULE AccessControl ----------------------------
(***************************************************************************)
(* What role-based access promises, without roles: a connection starts     *)
(* with some operations allowed, may once exchange them for others, and    *)
(* from then on only loses them.  Only allowed operations are carried out; *)
(* anything else ends the program.                                         *)
(***************************************************************************)
CONSTANT Ops

VARIABLES allowed,   \* the operations that may be carried out now
          ceiling,   \* those that were allowed when the start was left
          started,   \* FALSE until the initial permissions are exchanged
          used,      \* the operations carried out since then
          alive
vars == <<allowed, ceiling, started, used, alive>>

TypeOK ==
  /\ allowed \in SUBSET Ops /\ ceiling \in SUBSET Ops /\ used \in SUBSET Ops
  /\ started \in BOOLEAN /\ alive \in BOOLEAN

Init ==
  /\ allowed \in SUBSET Ops
  /\ ceiling = Ops /\ started = FALSE /\ used = {} /\ alive = TRUE

Use(op) ==
  /\ alive /\ op \in allowed
  /\ used' = IF started THEN used \cup {op} ELSE used
  /\ UNCHANGED <<allowed, ceiling, started, alive>>

Assume ==
  /\ alive /\ ~started
  /\ started' = TRUE
  /\ allowed' \in SUBSET Ops
  /\ ceiling' = allowed'
  /\ UNCHANGED <<used, alive>>

Narrow ==
  /\ alive /\ started
  /\ allowed' \in SUBSET allowed
  /\ UNCHANGED <<ceiling, started, used, alive>>

Stop ==
  /\ alive /\ alive' = FALSE
  /\ UNCHANGED <<allowed, ceiling, started, used>>

Next == Assume \/ Narrow \/ Stop \/ \E op \in Ops : Use(op)

Spec == Init /\ [][Next]_vars

(* Nothing is ever carried out that was not allowed when the initial       *)
(* permissions were given up, however often they were narrowed since.      *)
Confined == used \subseteq ceiling /\ (started => allowed \subseteq ceiling)
==============================================================================
