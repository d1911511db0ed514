----------------------------- MODULE StructOrder -----------------------------
(***************************************************************************)
(* The order of structures after ort_parse_close(), src/linker.c.  The C   *)
(* header writes structures in this order and embeds one in another by     *)
(* value (gen_field() of src/lang-c-header.c), so what is embedded has to  *)
(* come first.                                                             *)
(*                                                                         *)
(* annotate() adds to the height of what it reaches, by a depth-first walk *)
(* from each structure that no earlier walk has reached; its stack of      *)
(* calls is a variable here.  The structures are then sorted by height.    *)
(***************************************************************************)
EXTENDS Naturals, SequencesExt

VARIABLES refs,    \* the targets of the struct fields of each structure, in
                   \* order; structures are numbered by their names
          order,   \* cfg->sq
          colour,  \* p->colour
          height,  \* p->height
          root,    \* position of the loop over the structures
          now,     \* the colour of the walk
          calls,   \* calls of annotate(): structure, next field, height
          sorted
vars == <<refs, order, colour, height, root, now, calls, sorted>>

Structs == DOMAIN refs
N == Len(refs)

Start ==
  /\ colour = [p \in Structs |-> 0] /\ height = [p \in Structs |-> 0]
  /\ root = 1 /\ now = 1 /\ calls = <<>> /\ sorted = FALSE

(* A structure without struct fields keeps its colour, but uses one up.    *)
StartWalk ==
  /\ calls = <<>> /\ root <= N /\ root' = root + 1
  /\ LET p == order[root] IN
     IF colour[p] # 0 THEN UNCHANGED <<colour, calls, now>>
     ELSE IF refs[p] = <<>> THEN now' = now + 1 /\ UNCHANGED <<colour, calls>>
     ELSE /\ colour' = [colour EXCEPT ![p] = now]
          /\ calls' = <<[at |-> p, field |-> 1, high |-> 1]>>
          /\ UNCHANGED now
  /\ UNCHANGED <<refs, order, height, sorted>>

(* Mutation: the height does not grow with the depth of the walk.          *)
VisitFlat(t, high) ==
  /\ colour' = [colour EXCEPT ![t] = now]
  /\ height' = [height EXCEPT ![t] = @ + 1]

Visit(t, high) ==
  /\ colour' = [colour EXCEPT ![t] = now]
  /\ height' = [height EXCEPT ![t] = @ + high]

(* One struct field of the structure on top of the stack.                  *)
Annotate ==
  /\ calls # <<>>
  /\ LET top == Last(calls)
         rest == Append(Front(calls), [top EXCEPT !.field = @ + 1])
     IN IF top.field > Len(refs[top.at])
        THEN /\ calls' = Front(calls)
             /\ now' = IF Len(calls) = 1 THEN now + 1 ELSE now
             /\ UNCHANGED <<colour, height>>
        ELSE LET t == refs[top.at][top.field] IN
             /\ IF colour[t] = now
                THEN calls' = rest /\ UNCHANGED <<colour, height>>
                ELSE /\ Visit(t, top.high)
                     /\ calls' = Append(rest, [at |-> t, field |-> 1,
                                               high |-> top.high + 1])
             /\ UNCHANGED now
  /\ UNCHANGED <<refs, order, root, sorted>>

(* parse_cmp(), and inserting what it sorts at the head: by height and     *)
(* name, descending.                                                       *)
Before(p, q) == height[p] > height[q] \/ (height[p] = height[q] /\ p > q)

Sort ==
  /\ calls = <<>> /\ root > N /\ ~sorted
  /\ sorted' = TRUE
  /\ order' = CHOOSE s \in [1..N -> Structs] : \A i, j \in 1..N : i < j => Before(s[i], s[j])
  /\ UNCHANGED <<refs, colour, height, root, now, calls>>

Next == StartWalk \/ Annotate \/ Sort

(***************************************************************************)
(* Properties.                                                             *)
(***************************************************************************)
Position(p) == CHOOSE k \in 1..N : order[k] = p
Embeds(p, t) == t \in Range(refs[p])

(* What lang-c-header.c relies on: an embedded structure is written first. *)
EmbeddedFirst ==
  sorted => \A p, t \in Structs : Embeds(p, t) => Position(t) < Position(p)

(* It holds where no structure is embedded by two others.  With two, the   *)
(* one may be reached first by a short path, and not lifted by the longer. *)
TreesSorted ==
  (\A t \in Structs : Cardinality({ p \in Structs : Embeds(p, t) }) <= 1)
    => EmbeddedFirst
==============================================================================
