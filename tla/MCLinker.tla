------------------------------ MODULE MCLinker ------------------------------
(* Three structures with up to two struct fields each, recursive or not,   *)
(* of which at most one may be null; four structures, not recursive, in    *)
(* two orders of declaration; and two structures with up to three unique   *)
(* statements.                                                             *)
EXTENDS Linker

Graph(g, o, null) ==
  [refs |-> g, order |-> o, nullable |-> null, uniques |-> <<>>]

MCThree ==
  { Graph(g, <<2, 1, 3>>, null) :
      g \in [1..3 -> BoundedSeq(1..3, 2)],
      null \in {{}, {<<1, 1>>}, {<<2, 2>>}, {<<3, 1>>}} }

(* The targets are among the structures behind a structure in topo.        *)
MCFour ==
  LET Behind(topo, p) == { t \in 1..4 : \E i, j \in 1..4 : i < j /\ topo[i] = p /\ topo[j] = t }
  IN { Graph(<<a, b, c, d>>, o, {<<4, 1>>}) :
         <<a, b, c, d, o>> \in
           UNION { BoundedSeq(Behind(topo, 1), 2) \X BoundedSeq(Behind(topo, 2), 2)
                     \X BoundedSeq(Behind(topo, 3), 2) \X BoundedSeq(Behind(topo, 4), 2)
                     \X {<<1, 2, 3, 4>>, <<3, 1, 4, 2>>}
                   : topo \in {<<1, 2, 3, 4>>, <<3, 1, 4, 2>>, <<4, 3, 2, 1>>} } }

(* Statements of two of three fields, or with a name that is none, and of  *)
(* three fields, once with a field repeated.                               *)
MCStatements ==
  [1..2 -> 1..3] \cup {<<0, 1>>, <<1, 0>>, <<2, 3, 1>>, <<3, 1, 2>>, <<3, 2, 1>>, <<1, 2, 1>>}

MCUniques ==
  { [Graph(<<<<2>>, <<>>>>, <<1, 2>>, {}) EXCEPT !.uniques = q] :
      q \in BoundedSeq(MCStatements, 3) }

MCConfigs == MCThree \cup MCFour \cup MCUniques
==============================================================================
