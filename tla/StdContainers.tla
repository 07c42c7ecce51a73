--------------------------- MODULE StdContainers ---------------------------
(***************************************************************************)
(* The operations of std::map that Octantis relies on, as operators over   *)
(* partial functions.  A map is a function whose DOMAIN is its set of      *)
(* keys.  The point of the module is one line: std::map::insert keeps the  *)
(* value of a key that is already present, and every table of the pass is  *)
(* filled with it.                                                         *)
(***************************************************************************)
EXTENDS Integers, Sequences

EmptyMap == [k \in {} |-> 0]

(* m.insert({k, v}): does nothing when k is already a key.                 *)
Insert(m, k, v) ==
  [x \in DOMAIN m \cup {k} |-> IF x \in DOMAIN m THEN m[x] ELSE v]

(* m[k] of a map of lists, with the empty list for a missing key.          *)
ListAt(m, k) == IF k \in DOMAIN m THEN m[k] ELSE << >>

(* m.find(k) on a map of lists, followed by push_back on the list found,   *)
(* or by the insertion of a one-element list when there is none.           *)
PushBack(m, k, v) ==
  [x \in DOMAIN m \cup {k} |->
     IF x = k THEN Append(ListAt(m, k), v) ELSE m[x]]

Maximum(a, b) == IF a > b THEN a ELSE b
=============================================================================
