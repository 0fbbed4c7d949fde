------------------------------ MODULE Transform -----------------------------
(***************************************************************************)
(* component-transform: ten operations on JSON documents.                  *)
(*                                                                         *)
(* A document is a tuple of its kind and its value.  The key of an object  *)
(* is the sequence of segments that the separator splits it into, so that  *)
(* joining keys is concatenation; a segment may be empty, or of digits     *)
(* alone: the indices 0 to 4, with a leading zero or without, and one that *)
(* no machine word holds.  Only the default separator is looked at.        *)
(***************************************************************************)
EXTENDS Integers, Sequences, FiniteSets, FiniteSetsExt, SequencesExt, TLC

Null          == <<"null">>
Bool(b)       == <<"bool", b>>
Num(n, form)  == <<"num", n, form>>      \* 1 and 1.0 differ in form only
Str(s)        == <<"str", s>>
Arr(items)    == <<"arr", items>>
Obj(fields)   == <<"obj", fields>>

Kind(doc)   == doc[1]
Value(doc)  == doc[2]
IsObj(doc)  == Kind(doc) = "obj"
IsArr(doc)  == Kind(doc) = "arr"
NoFields    == <<>>
Fields(doc) == DOMAIN Value(doc)
IsLeaf(doc) == ~ ((IsObj(doc) \/ IsArr(doc)) /\ Fields(doc) # {})

(* What an operation answers.                                              *)
Ok(doc)  == [ok |-> TRUE, result |-> doc]
Err(why) == [ok |-> FALSE, error |-> why]

Only(fields, keys) == [k \in keys |-> fields[k]]

----------------------------------------------------------------------------
(* flatten_json, unflatten_json.                                           *)

Digit    == <<"0", "1", "2", "3", "4">>
Padded   == <<"00", "01", "02", "03", "04">>
TooLarge == "99999999999999999999"       \* no usize
Index(n) == <<Digit[n + 1]>>             \* the segment flatten_json writes

(* Any segment of digits alone is an index, however it is written.         *)
IsIndex(segment) == segment \in ToSet(Digit) \union ToSet(Padded) \union {TooLarge}
IndexOf(segment) == (CHOOSE i \in DOMAIN Digit : segment \in {Digit[i], Padded[i]}) - 1

\* The place in the tree that a segment stands for.
Place(segment) == IF IsIndex(segment) /\ segment # TooLarge THEN Index(IndexOf(segment))[1]
                  ELSE segment
Places(key)    == [i \in DOMAIN key |-> Place(key[i])]

RECURSIVE Leaves(_, _)
Leaves(doc, path) ==
  IF IsLeaf(doc) THEN {<<path, doc>>}
  ELSE UNION {Leaves(Value(doc)[k], path \o (IF IsArr(doc) THEN Index(k - 1) ELSE k))
              : k \in Fields(doc)}

(* The key of the root is the empty text, which splits into one empty      *)
(* segment.  Of two leaves with one key, one is kept.                      *)
FlatKey(path) == IF path = <<>> THEN <<"">> ELSE path
flatten_json(doc) ==
  LET leaves == {<<FlatKey(l[1]), l[2]>> : l \in Leaves(doc, <<>>)}
  IN Obj([key \in {l[1] : l \in leaves} |-> (CHOOSE l \in leaves : l[1] = key)[2]])

\* Mutant: what is below an index becomes the field of an object.
RECURSIVE AsObjects(_)
AsObjects(leaves) ==
  IF \E l \in leaves : l[1] = <<>>
  THEN IF Cardinality(leaves) = 1 THEN Ok((CHOOSE l \in leaves : TRUE)[2])
       ELSE Err("conflicting paths")
  ELSE LET heads == {Head(l[1]) : l \in leaves}
           child == [h \in heads |-> AsObjects({<<Tail(l[1]), l[2], l[3]>> :
                                                 l \in {m \in leaves : Head(m[1]) = h}})]
       IN IF \E h \in heads : ~ child[h].ok THEN Err("conflicting paths")
          ELSE Ok(Obj([k \in {<<h>> : h \in heads} |-> child[k[1]].result]))

(* insert_value for every leaf (its way from here, its value, its flat     *)
(* key, so that two keys that lead to one place are two leaves): a node is a leaf, an object or an array    *)
(* from the first segment that reaches it, and cannot be two of these.     *)
(* Indices that are left out are null.                                     *)
RECURSIVE Nested(_)
Nested(leaves) ==
  IF \E l \in leaves : l[1] = <<>>
  THEN IF Cardinality(leaves) = 1 THEN Ok((CHOOSE l \in leaves : TRUE)[2])
       ELSE Err("conflicting paths")
  ELSE LET heads == {Head(l[1]) : l \in leaves}
           child == [h \in heads |-> Nested({<<Tail(l[1]), l[2], l[3]>> :
                                              l \in {m \in leaves : Head(m[1]) = h}})]
           last  == Max({IndexOf(h) : h \in heads})
       IN IF TooLarge \in heads THEN Err("array index too large")
          ELSE IF \E h \in heads : ~ child[h].ok THEN Err("conflicting paths")
          ELSE IF \A h \in heads : IsIndex(h)
          THEN Ok(Arr([i \in 1..last + 1 |->
                         IF Digit[i] \in heads THEN child[Digit[i]].result ELSE Null]))
          ELSE IF \E h \in heads : IsIndex(h) THEN Err("conflict")
          ELSE Ok(Obj([k \in {<<h>> : h \in heads} |-> child[k[1]].result]))

unflatten_json(doc) ==
  IF ~ IsObj(doc) THEN Err("not an object")
  ELSE IF Fields(doc) = {} THEN Err("empty flat map")
  ELSE IF Fields(doc) = {<<"">>} THEN Ok(Value(doc)[<<"">>])
  ELSE Nested({<<Places(k), Value(doc)[k], k>> : k \in Fields(doc)})

----------------------------------------------------------------------------
(* merge_json_patch (RFC 7396).                                            *)

RECURSIVE merge_json_patch(_, _)
merge_json_patch(target, patch) ==
  IF ~ IsObj(patch) THEN patch
  ELSE LET old  == IF IsObj(target) THEN Value(target) ELSE NoFields
           gone == {k \in Fields(patch) : Value(patch)[k] = Null}
           set  == Fields(patch) \ gone
       IN Obj([k \in (DOMAIN old \ gone) \union set |->
                 IF k \in set
                 THEN merge_json_patch(IF k \in DOMAIN old THEN old[k] ELSE Null,
                                       Value(patch)[k])
                 ELSE old[k]])

----------------------------------------------------------------------------
(* dedup_json, pick_json, omit_json.                                       *)

dedup_json(items) ==
  FoldLeft(LAMBDA kept, item : IF Contains(kept, item) THEN kept ELSE Append(kept, item),
           <<>>, items)

pick_json(fields, keys) == Only(fields, DOMAIN fields \intersect ToSet(keys))
omit_json(fields, keys) == Only(fields, DOMAIN fields \ ToSet(keys))

----------------------------------------------------------------------------
(* sort_json: by kind, then by value; numbers by what they are worth,      *)
(* arrays and objects by how they are written.  The sort is stable, in     *)
(* both directions.                                                        *)

Kinds == <<"null", "bool", "num", "str", "arr", "obj">>
kind_rank(doc) == CHOOSE i \in DOMAIN Kinds : Kinds[i] = Kind(doc)

CONSTANT Written(_)       \* the place of a text or a container among those written

json_less(a, b) ==
  \/ kind_rank(a) < kind_rank(b)
  \/ /\ Kind(a) = Kind(b)
     /\ CASE Kind(a) = "null" -> FALSE
          [] Kind(a) = "bool" -> ~ Value(a) /\ Value(b)
          [] Kind(a) = "num"  -> Value(a) < Value(b)
          [] OTHER            -> Written(a) < Written(b)

(* What an item is sorted by: itself, or one of its fields.                *)
SortKey(item, by) ==
  IF by = "itself" THEN item
  ELSE IF IsObj(item) /\ <<by>> \in Fields(item) THEN Value(item)[<<by>>] ELSE Null

sort_json(items, by, descending) ==
  LET before(a, b) == IF descending THEN json_less(SortKey(b, by), SortKey(a, by))
                      ELSE json_less(SortKey(a, by), SortKey(b, by))
      insert(sorted, item) ==
        LET behind == {i \in DOMAIN sorted : before(item, sorted[i])}
        IN IF behind = {} THEN Append(sorted, item) ELSE InsertAt(sorted, Min(behind), item)
  IN FoldLeft(insert, <<>>, items)

----------------------------------------------------------------------------
(* json_diff and json_patch: the json_patch crate.  A patch is a set of    *)
(* changes to the fields of one object, or to the Root; they are applied   *)
(* together.                                                               *)

Root == << >>
Change(op, key, value) == [op |-> op, key |-> key, value |-> value]

Changes(from, to) ==
  IF from = to THEN {}
  ELSE IF ~ (IsObj(from) /\ IsObj(to)) THEN {Change("replace", Root, to)}
  ELSE LET old == Value(from)
           new == Value(to)
       IN {Change("remove", k, Null) : k \in DOMAIN old \ DOMAIN new}
          \union {Change("add", k, new[k]) : k \in DOMAIN new \ DOMAIN old}
          \union {Change("replace", k, new[k]) :
                    k \in {f \in DOMAIN old \intersect DOMAIN new : old[f] # new[f]}}

diff_json(from, to) == [patch |-> Changes(from, to), changed |-> Changes(from, to) # {}]

apply_patch(doc, patch) ==
  LET keys == {c.key : c \in patch}
      At(k) == CHOOSE c \in patch : c.key = k
      gone == {k \in keys : At(k).op = "remove"}
  IN IF patch = {} THEN Ok(doc)
     ELSE IF Root \in keys THEN Ok(At(Root).value)
     ELSE IF ~ IsObj(doc) \/ \E k \in keys : At(k).op # "add" /\ k \notin Fields(doc)
     THEN Err("patch failed")
     ELSE Ok(Obj([k \in (Fields(doc) \union keys) \ gone |->
                    IF k \in keys THEN At(k).value ELSE Value(doc)[k]]))

(* validate_json: a schema that does not compile is an error, a document   *)
(* that does not fit is an answer.                                         *)
validate_json(doc, schema) ==
  IF schema = "invalid" THEN Err("invalid schema")
  ELSE Ok(Bool(schema \in {"any", Kind(doc)}))

----------------------------------------------------------------------------
(* dispatch: an operation, its document and its argument.                  *)

dispatch(op, doc, arg) ==
  CASE op = "json_flatten"     -> Ok(flatten_json(doc))
    [] op = "json_unflatten"   -> unflatten_json(doc)
    [] op = "json_merge_patch" -> Ok(merge_json_patch(doc, arg))
    [] op = "json_dedup"       -> IF IsArr(doc) THEN Ok(Arr(dedup_json(Value(doc))))
                                  ELSE Err("not an array")
    [] op = "json_pick"        -> IF IsObj(doc) THEN Ok(Obj(pick_json(Value(doc), arg)))
                                  ELSE Err("not an object")
    [] op = "json_omit"        -> IF IsObj(doc) THEN Ok(Obj(omit_json(Value(doc), arg)))
                                  ELSE Err("not an object")
    [] op = "json_sort"        -> IF IsArr(doc)
                                  THEN Ok(Arr(sort_json(Value(doc), arg.by, arg.descending)))
                                  ELSE Err("not an array")
    [] op = "json_patch"       -> apply_patch(doc, diff_json(arg.from, arg.to).patch)
    [] op = "json_diff"        -> Ok(Bool(diff_json(doc, arg).changed))
    [] op = "json_validate"    -> validate_json(doc, arg)
=============================================================================
