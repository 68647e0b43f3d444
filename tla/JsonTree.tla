------------------------------ MODULE JsonTree ------------------------------
(***************************************************************************)
(* The functions of src/server.rs on JSON values (serde_json::Value): the  *)
(* paths of strings, what stands at a path, replacing and removing it,     *)
(* pruning what is empty then, and building a value for a path.            *)
(*                                                                         *)
(* A path is a sequence of segments, the keys and positions that lead from *)
(* the root to a value.                                                    *)
(***************************************************************************)
EXTENDS Integers, SequencesExt

CONSTANT
  MaxDepth  \* of values: serde_json refuses text that is deeper than 128

ASSUME JsonTreeAssumption == MaxDepth \in Nat

(* The keys the code names are strings, which the provers have to be told. *)
ASSUME KeyAssumption ==
  {"index", "choices", "delta", "finish_reason"} \subseteq STRING

Key(k) == [key |-> k]
Index(n) == [index |-> n]
IsKey(segment) == "key" \in DOMAIN segment
Segment == [key : STRING] \cup [index : Nat]

String(s) == [kind |-> "string", text |-> s]
Number(n) == [kind |-> "number", value |-> n]
Null == [kind |-> "null"]
Array(items) == [kind |-> "array", items |-> items]
Object(fields) == [kind |-> "object", fields |-> fields]

(* None: no value at this path. *)
Absent == [kind |-> "absent"]

Scalars == {"string", "number", "null"}

(* The value one segment below v. *)
Child(v, segment) ==
  IF IsKey(segment)
    THEN IF v.kind = "object" /\ segment.key \in DOMAIN v.fields
           THEN v.fields[segment.key] ELSE Absent
    ELSE IF v.kind = "array" /\ segment.index < Len(v.items)
           THEN v.items[segment.index + 1] ELSE Absent

Segments(v) ==
  CASE v.kind = "object" -> {Key(k) : k \in DOMAIN v.fields}
    [] v.kind = "array" -> {Index(k - 1) : k \in DOMAIN v.items}
    [] OTHER -> {}

(* v is a value of serde_json, as far as its own fields or items go. *)
WellFormed(v) ==
  \/ v.kind \in Scalars
  \/ v.kind = "array" /\ v = Array(v.items) /\ v.items \in Seq(ToSet(v.items))
  \/ /\ v.kind = "object" /\ v = Object(v.fields)
     /\ DOMAIN v.fields \subseteq STRING
     /\ v.fields = [k \in DOMAIN v.fields |-> v.fields[k]]

(* The values on the way along path, v first. *)
Walk(v, path) ==
  LET at[k \in 0 .. Len(path)] == IF k = 0 THEN v ELSE Child(at[k - 1], path[k])
  IN at

(* value_mut_at_path, to read ... *)
ValueAt(v, path) == Walk(v, path)[Len(path)]

(* The paths in v that are longer by one than those of P. *)
Longer(v, P) == UNION {{Append(p, s) : s \in Segments(ValueAt(v, p))} : p \in P}

(* The paths of all values in v, by their lengths. *)
Levels(v) ==
  LET level[n \in 0 .. MaxDepth] ==
        IF n = 0 THEN {<<>>} ELSE Longer(v, level[n - 1])
  IN level

PathsIn(v) == UNION {Levels(v)[n] : n \in 0 .. MaxDepth}

(* Of those that hold no others. *)
ScalarPaths(v) == {p \in PathsIn(v) : ValueAt(v, p).kind \in Scalars}

(* collect_all_string_paths *)
StringPaths(v) == {p \in ScalarPaths(v) : ValueAt(v, p).kind = "string"}

WithChild(v, segment, w) ==
  IF IsKey(segment) THEN [v EXCEPT !.fields[segment.key] = w]
                    ELSE [v EXCEPT !.items[segment.index + 1] = w]

(* The values on the way along path once w is at its end. *)
Rebuilt(v, path, w) ==
  LET at == Walk(v, path)
      built[k \in 0 .. Len(path)] ==
        IF k = Len(path) THEN w ELSE WithChild(at[k], path[k + 1], built[k + 1])
  IN built

(* ... and to write, where there is a value. *)
Replaced(v, path, w) == Rebuilt(v, path, w)[0]

(* Mutant: takes an item out of its array at once. *)
RemovedShifting(v, path) ==
  LET parent == ValueAt(v, Front(path))
      last == Last(path)
  IN IF path = <<>> THEN v
     ELSE IF IsKey(last)
       THEN Replaced(v, Front(path),
                     Object(Restrict(parent.fields, DOMAIN parent.fields \ {last.key})))
       ELSE Replaced(v, Front(path), Array(RemoveAt(parent.items, last.index + 1)))

(* remove_value_at_path: a null keeps the place of an item of an array. *)
Removed(v, path) ==
  LET parent == ValueAt(v, Front(path))
      last == Last(path)
  IN IF path = <<>> THEN v
     ELSE IF IsKey(last)
       THEN Replaced(v, Front(path),
                     Object(Restrict(parent.fields, DOMAIN parent.fields \ {last.key})))
       ELSE Replaced(v, path, Null)

(* Mutant: an object of one field is as good as none. *)
OneFieldOrNone(v) ==
  \/ v.kind = "object" /\ \A k, l \in DOMAIN v.fields : k = l
  \/ v.kind = "array" /\ v.items = <<>>

(* is_empty_streaming_container *)
IsEmptyContainer(v) ==
  \/ v.kind = "object" /\ DOMAIN v.fields \subseteq {"index"}
  \/ v.kind = "array" /\ v.items = <<>>

(* What remains of an item in its array. *)
Kept(u) == IF u = Null \/ IsEmptyContainer(u) THEN <<>> ELSE <<u>>

(* What prune_empty_streaming_containers makes of each value in v, below it first. *)
PrunedAll(v) ==
  LET pruned[p \in PathsIn(v)] ==
        LET w == ValueAt(v, p)
            Below(s) == pruned[Append(p, s)]
        IN CASE w.kind = "array" ->
                  Array(FlattenSeq([k \in DOMAIN w.items |-> Kept(Below(Index(k - 1)))]))
             [] w.kind = "object" ->
                  LET fields == [k \in DOMAIN w.fields |-> Below(Key(k))]
                  IN Object(Restrict(fields,
                                     {k \in DOMAIN fields : ~IsEmptyContainer(fields[k])}))
             [] OTHER -> w
  IN pruned

(* prune_empty_streaming_containers *)
Pruned(v) == PrunedAll(v)[<<>>]

(* What a container holds, or else an empty one put in its place. *)
FieldsOf(u) == IF u.kind = "object" THEN u.fields ELSE <<>>
ItemsOf(u) == IF u.kind = "array" THEN u.items ELSE <<>>

(***************************************************************************)
(* set_value_at_path: makes the containers on the way to the path, and     *)
(* fills an array up to the position with empty objects.                   *)
(***************************************************************************)
WithMade(u, segment, w) ==
  IF IsKey(segment)
    THEN Object([k \in DOMAIN FieldsOf(u) \cup {segment.key} |->
                   IF k = segment.key THEN w ELSE FieldsOf(u)[k]])
    ELSE LET n == segment.index + 1
             size == IF n > Len(ItemsOf(u)) THEN n ELSE Len(ItemsOf(u))
         IN Array([i \in 1 .. size |->
                     IF i = n THEN w
                     ELSE IF i =< Len(ItemsOf(u)) THEN ItemsOf(u)[i] ELSE Object(<<>>)])

(* The values on the way along path once w is at its end. *)
SetAlong(v, path, w) ==
  LET at == Walk(v, path)
      built[k \in 0 .. Len(path)] ==
        IF k = Len(path) THEN w ELSE WithMade(at[k], path[k + 1], built[k + 1])
  IN built

Set(v, path, w) == SetAlong(v, path, w)[0]
=============================================================================
