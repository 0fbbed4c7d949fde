----------------------------- MODULE MessageFlow ----------------------------
(***************************************************************************)
(* A flow: it leads a conversation, or it converts documents, one after    *)
(* another (component-transform).                                          *)
(***************************************************************************)
EXTENDS Conversation

CONSTANTS
  MaxSteps,     \* documents one after another
  Written(_)

T == INSTANCE Transform

VARIABLES
  document, done  \* the document, and the conversions so far

documents == <<document, done>>
vars      == <<talking, documents>>

\* A start has a document too, and its configuration the conversions.
Init ==
  /\ \E start \in Starts : Arrives(start) /\ document = start.document
  /\ done = << >>

Converts == config.conversions # {}

Convert ==
  /\ Converts /\ Len(done) < MaxSteps
  /\ \E c \in config.conversions :
       LET answer == T!dispatch(c.op, document, c.arg)
       IN /\ done' = Append(done, [op |-> c.op, arg |-> c.arg,
                                   from |-> document, answer |-> answer])
          /\ document' = IF answer.ok THEN answer.result ELSE document
  /\ UNCHANGED talking

Ended == /\ pc \in {"delivered", "denied", "failed"} \/ Len(done) = MaxSteps
         /\ UNCHANGED vars

Next ==
  \/ ~ Converts /\ Guard         /\ UNCHANGED documents
  \/ ~ Converts /\ RefuseMessage /\ UNCHANGED documents
  \/ ~ Converts /\ RouteMessage  /\ UNCHANGED documents
  \/ ~ Converts /\ Jump          /\ UNCHANGED documents
  \/ ~ Converts /\ RouteEvent    /\ UNCHANGED documents
  \/ ~ Converts /\ RefuseEvent   /\ UNCHANGED documents
  \/ ~ Converts /\ Deliver       /\ UNCHANGED documents
  \/ Convert
  \/ Ended

Spec == Init /\ [][Next]_vars

----------------------------------------------------------------------------
(* The conversions against what their documentation promises.              *)

Permuted(a, b) ==
  /\ ToSet(a) = ToSet(b) /\ Len(a) = Len(b)
  /\ \A x \in ToSet(a) : Cardinality({i \in DOMAIN a : a[i] = x})
                           = Cardinality({i \in DOMAIN b : b[i] = x})

(* Items that are sorted the same keep their order.                        *)
Stable(a, b, by) ==
  \A i, j \in DOMAIN b :
    i < j /\ b[i] # b[j]
      /\ ~ T!json_less(T!SortKey(b[i], by), T!SortKey(b[j], by))
      /\ ~ T!json_less(T!SortKey(b[j], by), T!SortKey(b[i], by)) =>
        \E k, l \in DOMAIN a : k < l /\ a[k] = b[i] /\ a[l] = b[j]

Sorted(b, by, descending) ==
  \A i, j \in DOMAIN b :
    i < j => LET x == T!SortKey(b[i], by)
                 y == T!SortKey(b[j], by)
             IN IF descending THEN ~ T!json_less(x, y) ELSE ~ T!json_less(y, x)

(* Documents whose keys hold no separator and do not look like indices; an *)
(* object with nothing but a leaf without a name is taken for the leaf.    *)
RECURSIVE Proper(_)
Proper(doc) ==
  \/ T!IsLeaf(doc)
  \/ T!IsArr(doc) /\ \A item \in ToSet(T!Value(doc)) : Proper(item)
  \/ T!IsObj(doc) /\ \A k \in T!Fields(doc) :
       Len(k) = 1 /\ ~ T!IsIndex(k[1]) /\ Proper(T!Value(doc)[k])
NamesItsLeaf(doc) ==
  T!IsObj(doc) /\ T!Fields(doc) = {<<"">>} => ~ T!IsLeaf(T!Value(doc)[<<"">>])

AllLeaves(flat) == \A k \in T!Fields(flat) : T!IsLeaf(T!Value(flat)[k])

(* What was flat is found again at its place, an index written without     *)
(* leading zeros, and no two keys share a place; what is new fills an      *)
(* array.                                                                  *)
Unfolds(flat, whole) ==
  LET again == T!Value(T!flatten_json(whole))
      old   == T!Value(flat)
      place == [k \in DOMAIN old |-> T!Places(k)]
  IN /\ IsInjective(place)
     /\ \A k \in DOMAIN old : place[k] \in DOMAIN again /\ again[place[k]] = old[k]
     /\ \A k \in DOMAIN again : k \notin Range(place) => again[k] = T!Null

Merged(from, patch, to) ==
  /\ T!merge_json_patch(to, patch) = to
  /\ IF ~ T!IsObj(patch) THEN to = patch
     ELSE LET old == IF T!IsObj(from) THEN T!Value(from) ELSE T!NoFields
              p   == T!Value(patch)
              new == T!Value(to)
          IN \A k \in DOMAIN old \union DOMAIN p \union DOMAIN new :
               IF k \notin DOMAIN p THEN k \in DOMAIN old /\ k \in DOMAIN new /\ new[k] = old[k]
               ELSE IF p[k] = T!Null THEN k \notin DOMAIN new
               ELSE k \in DOMAIN new /\ (~ T!IsObj(p[k]) => new[k] = p[k])

FirstOfEach(a, b) ==
  /\ ToSet(a) = ToSet(b) /\ IsInjective(b)
  /\ \A i, j \in DOMAIN b : i < j => SelectInSeq(a, LAMBDA x : x = b[i])
                                        < SelectInSeq(a, LAMBDA x : x = b[j])

Agrees(c) ==
  LET from == c.from
      to   == c.answer.result
  IN CASE c.op = "json_flatten" ->
            /\ AllLeaves(to)
            /\ Proper(from) /\ NamesItsLeaf(from) => T!unflatten_json(to) = T!Ok(from)
       [] c.op = "json_unflatten"   -> AllLeaves(from) => Unfolds(from, to)
       [] c.op = "json_merge_patch" -> Merged(from, c.arg, to)
       [] c.op = "json_dedup"       -> FirstOfEach(T!Value(from), T!Value(to))
       [] c.op \in {"json_pick", "json_omit"} ->
            LET picked == T!pick_json(T!Value(from), c.arg)
                rest   == T!omit_json(T!Value(from), c.arg)
            IN /\ DOMAIN picked \intersect DOMAIN rest = {}
               /\ picked @@ rest = T!Value(from)
       [] c.op = "json_sort" ->
            /\ Permuted(T!Value(from), T!Value(to))
            /\ Sorted(T!Value(to), c.arg.by, c.arg.descending)
            /\ Stable(T!Value(from), T!Value(to), c.arg.by)
       [] c.op = "json_patch" -> from = c.arg.from => to = c.arg.to
       [] c.op = "json_diff" -> (to = T!Bool(FALSE)) = (from = c.arg)
       [] OTHER -> TRUE

(* The conversions of documents keep what their documentation promises,    *)
(* also one after another: what is flattened can be unflattened again if   *)
(* no key is a number, and the other way round with the indices written    *)
(* anew; a merged document has what the patch says and otherwise what it   *)
(* had; what is picked and what is omitted make up the whole; what is      *)
(* sorted is a stable order of the same items; and a patch made of a       *)
(* difference leads to the document it was made for (insert_value,         *)
(* merge_json_patch, dedup_json, pick_json, omit_json, sort_json,          *)
(* diff_json).  Of a key of digits it is not so, whatever the test at      *)
(* flatten.rs:404 says of all keys without a dot: insert_value reads it as *)
(* an index (is_all_digits), and an object comes back as an array.         *)
TransformsAgree == \A i \in DOMAIN done : done[i].answer.ok => Agrees(done[i])
=============================================================================
