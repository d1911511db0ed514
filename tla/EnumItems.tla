------------------------------ MODULE EnumItems ------------------------------
(***************************************************************************)
(* One enumeration while it is read by parse_enum(), src/parser_enum.c.    *)
(*                                                                         *)
(* Items arrive one at a time, each with an explicit value or with none    *)
(* (EITEM_AUTO).  Values for the latter are assigned twice: once when      *)
(* parse_enum_data() has met the closing brace, and once more by           *)
(* parse_enum() after it returns.  The two passes are written differently; *)
(* the properties below relate them.                                       *)
(*                                                                         *)
(* Identifiers are compared without case by the code; the model's names    *)
(* are already folded.  Comments and labels carry no state used here.      *)
(***************************************************************************)
EXTENDS Integers, Sequences, FiniteSets

CONSTANTS Names,     \* identifiers an item may have
          Explicit,  \* integers the text may give to an item
          MaxItems,  \* bound on the number of items
          IntMax     \* INT64_MAX

ASSUME IntMaxAssumption == IntMax \in Nat /\ IntMax > 0
ASSUME ExplicitAssumption == Explicit \subseteq -IntMax..IntMax
ASSUME MaxItemsAssumption == MaxItems \in Nat

VARIABLES items,   \* e->eq: the items in order of declaration
          phase    \* where parse_enum() is
vars == <<items, phase>>

Item == [name : Names, auto : BOOLEAN, value : Int]

(* The bounds below which and above which int64_t wraps.                   *)
IntMin == -IntMax - 1
Wrap(n) == IF n > IntMax THEN n - 2 * (IntMax + 1) ELSE n

ExplicitValues == { items[k].value : k \in { k \in DOMAIN items : ~items[k].auto } }
AutosBefore(k) == { j \in 1..(k - 1) : items[j].auto }

(* The greatest explicit value, or INT64_MIN.                              *)
Greatest ==
  CHOOSE m \in ExplicitValues \cup {IntMin} :
    \A v \in ExplicitValues : v <= m

(* Mutation: the counter starts at the greatest value, not after it.     *)
FirstAutoAtGreatest == IF Greatest < 0 THEN 0 ELSE Greatest

(* Mutation: negative values are not skipped.                            *)
FirstAutoNegative == Wrap(Greatest + 1)

(* Where parse_enum_data() starts: "If negative, start from zero."         *)
FirstAuto == IF Greatest < 0 THEN 0 ELSE Wrap(Greatest + 1)

(* Mutation: the second pass starts one too low.                         *)
FirstAutoAgainAtGreatest == IF Greatest < 0 THEN 0 ELSE Greatest

(* Where parse_enum() starts when it does the work a second time.          *)
FirstAutoAgain == IF Greatest < 0 THEN 0 ELSE Wrap(Greatest + 1)

(* The counter of a loop that began at start, about to look at item k.     *)
CounterAt(start, k) == start + Cardinality(AutosBefore(k))

(* The items once such a loop has gone over all of them.                   *)
Assigned(start) ==
  [k \in DOMAIN items |->
     IF items[k].auto
     THEN [name |-> items[k].name, auto |-> TRUE,
           value |-> Wrap(CounterAt(start, k))]
     ELSE items[k]]

HasAuto == \E k \in DOMAIN items : items[k].auto
FoundExplicit == ExplicitValues # {}

Init == items = <<>> /\ phase = "items"

Fail == phase' = "error" /\ UNCHANGED items

DuplicateName(n) == \E k \in DOMAIN items : items[k].name = n

(* Anything the grammar refuses before the brace is closed: an identifier  *)
(* already used or reserved, a bad attribute, a missing semicolon, or the  *)
(* end of the file.                                                        *)
Refuse == phase = "items" /\ Fail

(* "item" ident ";": the value is left for later.                          *)
ItemAuto(n) ==
  /\ phase = "items" /\ Len(items) < MaxItems
  /\ ~DuplicateName(n)
  /\ items' = Append(items, [name |-> n, auto |-> TRUE, value |-> 0])
  /\ UNCHANGED phase

(* "item" ident value ";".  The item is linked into the enumeration and    *)
(* its value is stored before the value is examined, so that a refused     *)
(* item is still in the queue for the second assignment.                   *)
ItemExplicit(n, v) ==
  /\ phase = "items" /\ Len(items) < MaxItems
  /\ ~DuplicateName(n)
  /\ items' = Append(items, [name |-> n, auto |-> FALSE, value |-> v])
  /\ phase' = IF v \in {IntMax, IntMin} \/ v \in ExplicitValues
              THEN "error" ELSE "items"

(* The closing brace: the first assignment.  It refuses to go on as soon   *)
(* as the counter has reached INT64_MAX at any item, automatic or not.     *)
Close ==
  /\ phase = "items"
  /\ IF ~HasAuto
     THEN phase' = "closed" /\ UNCHANGED items
     ELSE IF \E k \in DOMAIN items : CounterAt(FirstAuto, k) = IntMax
          THEN phase' = "error" /\ UNCHANGED items
          ELSE phase' = "closed" /\ items' = Assigned(FirstAuto)

(* No semicolon after the brace, or no items before it.                    *)
RefuseClosed == phase = "closed" /\ Fail

(* The assignment made again by parse_enum(), which runs only when some    *)
(* item has an explicit value, and runs after an error too.                *)
Reassign ==
  /\ \/ phase = "closed" /\ items # <<>> /\ phase' = "done"
     \/ phase = "error" /\ phase' = "failed"
  /\ items' = IF FoundExplicit THEN Assigned(FirstAutoAgain) ELSE items

Next ==
  \/ \E n \in Names : ItemAuto(n)
  \/ \E n \in Names, v \in Explicit : ItemExplicit(n, v)
  \/ Close
  \/ Refuse
  \/ RefuseClosed
  \/ Reassign

Spec == Init /\ [][Next]_vars

(***************************************************************************)
(* Properties.                                                             *)
(***************************************************************************)

(* The queue holds named items with 64-bit values, at every point of the   *)
(* parse, the failed ones included.                                        *)
TypeOK ==
  /\ items \in Seq(Item)
  /\ phase \in {"items", "closed", "error", "done", "failed"}

(* Once the brace is closed without an error, no two items have the same   *)
(* value, whether it was written or assigned, and none is one of the two   *)
(* extremes parse_enum_item() refuses: the switch statements generated     *)
(* over an enumeration depend on it.                                       *)
ValuesUnique ==
  phase \in {"closed", "done"} =>
    /\ \A j, k \in DOMAIN items : items[j].value = items[k].value => j = k
    /\ \A k \in DOMAIN items : items[k].value \notin {IntMin, IntMax}

(* Automatic values are those the comment in parse_enum_data() announces:  *)
(* not negative, above every written value, increasing with declaration.   *)
AutoAscending ==
  phase \in {"closed", "done"} =>
    \A k \in DOMAIN items : items[k].auto =>
      /\ items[k].value >= 0
      /\ \A v \in ExplicitValues : v < items[k].value
      /\ \A j \in AutosBefore(k) : items[j].value < items[k].value

(* The inductive invariant behind the two: what is known of the written    *)
(* values as long as nothing was refused, and where every assigned value   *)
(* comes from once the brace is closed.                                    *)
WrittenInRange == ExplicitValues \subseteq -IntMax..IntMax

WrittenUnique ==
  phase \in {"items", "closed", "done"} =>
    /\ IntMax \notin ExplicitValues
    /\ \A j, k \in DOMAIN items :
         ~items[j].auto /\ ~items[k].auto /\ items[j].value = items[k].value
           => j = k

AutoFromCounter ==
  phase \in {"closed", "done"} =>
    \A k \in DOMAIN items : items[k].auto =>
      /\ items[k].value = CounterAt(FirstAuto, k)
      /\ items[k].value < IntMax

IInv == TypeOK /\ WrittenInRange /\ WrittenUnique /\ AutoFromCounter

(* parse_enum() repeating the assignment changes no value that             *)
(* parse_enum_data() has given.                                            *)
SecondPassAgrees ==
  [][phase = "closed" => items' = items]_vars
==============================================================================
