------------------------------ MODULE LuaTable --------------------------------
(***************************************************************************)
(* The tables of the vendored Lua (src/lib/lua/ltable.c): an array part and *)
(* a hash part of chained nodes, rehashed when it is full, traversed by     *)
(* luaH_next while scripts assign to fields and the collector removes keys. *)
(* lua_table_is_array of the server is built on them.                       *)
(***************************************************************************)
EXTENDS Integers, Sequences, SequencesExt, FiniteSetsExt

CONSTANTS
  IntKeys,     \* the integers that are used as keys
  StrKeys,     \* strings, and
  ObjKeys,     \* other objects that are used as keys
  Hash,        \* Hash[k]: the hash value of a key
  Values,      \* the values that are stored
  Nil,         \* nil, as a key and as a value
  NewSizes     \* the sizes a table is created with, or its array part grown to

KeysAssumption ==
  /\ IntKeys \subseteq Int /\ NewSizes \subseteq Nat
  /\ Hash \in [IntKeys \cup StrKeys \cup ObjKeys -> Nat]
  /\ Nil \notin IntKeys \cup StrKeys \cup ObjKeys \cup Values

Keys == IntKeys \cup StrKeys \cup ObjKeys

VARIABLES
  t,      \* the table: array, node (empty: dummynode) and lastfree
  map,    \* what has been stored: the value of every key
  trav    \* a traversal: its state, last key, the keys it has returned, and
          \* the keys that have had a value ever since it began

vars == <<t, map, trav>>

-------------------------------------------------------------------------------
(* Places *)

(* A node: its key, which may be dead, its value and its successor (0: none). *)
Free == [key |-> Nil, dead |-> FALSE, val |-> Nil, next |-> 0]

(* Numbers and pointers are taken modulo an odd number, strings modulo the  *)
(* size; zero goes to the first node.                                       *)
mainposition(T, k) ==
  LET size == Len(T.node) IN
  1 + (CASE k \in StrKeys -> Hash[k] % size
         [] k = 0        -> 0
         [] OTHER        -> Hash[k] % (IF size = 1 THEN 1 ELSE size - 1))

InArray(T, k) == k \in IntKeys /\ 1 <= k /\ k <= Len(T.array)

(* The nodes of the chain that starts at j, in order.                       *)
RECURSIVE Chain(_, _)
Chain(T, j) == IF j = 0 THEN <<>> ELSE <<j>> \o Chain(T, T.node[j].next)

ChainOf(T, k) == IF T.node = <<>> THEN <<>> ELSE Chain(T, mainposition(T, k))

(* The first node of k's chain with that key, a dead one only if dead keys  *)
(* are looked for; 0 when there is none.                                    *)
FirstNode(T, k, dead) ==
  LET chain == ChainOf(T, k)
      i == SelectInSeq(chain, LAMBDA j : T.node[j].key = k /\ (T.node[j].dead => dead))
  IN IF i = 0 THEN 0 ELSE chain[i]

(* luaH_get: a dead key is not equal to any.                                *)
NodeOf(T, k) == FirstNode(T, k, FALSE)

luaH_get(T, k) ==
  IF InArray(T, k) THEN T.array[k]
  ELSE IF k \in Keys /\ NodeOf(T, k) # 0 THEN T.node[NodeOf(T, k)].val ELSE Nil

-------------------------------------------------------------------------------
(* Sizes *)

RECURSIVE ceillog2(_)
ceillog2(n) == IF n <= 1 THEN 0 ELSE 1 + ceillog2((n + 1) \div 2)

(* numusearray, numusehash, countint: the positive integers with a value,   *)
(* and the new key.                                                         *)
IntsInUse(T, ek) ==
  {k \in IntKeys : k > 0 /\ (luaH_get(T, k) # Nil \/ k = ek)}

InUse(T) ==
  Cardinality({i \in 1 .. Len(T.array) : T.array[i] # Nil})
    + Cardinality({j \in 1 .. Len(T.node) : T.node[j].val # Nil})

(* nums[i]: how many of them are in (2^(i-1), 2^i].                         *)
nums(S) == [i \in 0 .. 31 |-> Cardinality({k \in S : ceillog2(k) = i})]

(* computesizes: from slice i on, with a elements counted so far.           *)
RECURSIVE computesizes(_, _, _, _, _)
computesizes(n, narray, i, a, best) ==
  LET b == a + n[i]
      better == IF n[i] > 0 /\ b > 2^i \div 2 THEN [size |-> 2^i, na |-> b] ELSE best
  IN IF 2^i \div 2 >= narray THEN best
     ELSE IF b = narray THEN better
     ELSE computesizes(n, narray, i + 1, b, better)

NewArray(S) == computesizes(nums(S), Cardinality(S), 0, 0, [size |-> 0, na |-> 0])

setnodevector(size) == IF size = 0 THEN <<>> ELSE [j \in 1 .. 2^ceillog2(size) |-> Free]

EmptyTable(na, nh) ==
  LET node == setnodevector(nh)
  IN [array |-> [i \in 1 .. na |-> Nil], node |-> node, lastfree |-> Len(node) + 1]

-------------------------------------------------------------------------------
(* Insertion *)

(* getfreepos: the next node below lastfree that never had a key.           *)
getfreepos(T) ==
  LET free == {j \in 1 .. T.lastfree - 1 : T.node[j].key = Nil}
  IN IF free = {} THEN 0 ELSE Max(free)

WithKey(T, j, k, v, next) ==
  [T EXCEPT !.node[j] = [key |-> k, dead |-> FALSE, val |-> v, next |-> next]]

(* Mutant: the chain of the moved node is not redone.                       *)
M_Collide(T, k, v, mp, n) ==
  LET S == [T EXCEPT !.lastfree = n] IN
  IF mainposition(T, T.node[mp].key) # mp
  THEN WithKey([S EXCEPT !.node[n] = T.node[mp]], mp, k, v, 0)
  ELSE WithKey([S EXCEPT !.node[mp].next = n], n, k, v, T.node[mp].next)

(* A new key goes to its main position mp.  A node there that is not in its *)
(* own main position is moved to the free node n; otherwise the new key     *)
(* goes to n.                                                               *)
Collide(T, k, v, mp, n) ==
  LET S == [T EXCEPT !.lastfree = n]
      other == mainposition(T, T.node[mp].key)
  IN IF other # mp
     THEN LET prev == CHOOSE j \in Range(Chain(T, other)) : T.node[j].next = mp
              moved == [S EXCEPT !.node[prev].next = n, !.node[n] = T.node[mp]]
          IN WithKey(moved, mp, k, v, 0)
     ELSE WithKey([S EXCEPT !.node[mp].next = n], n, k, v, T.node[mp].next)

RECURSIVE Put(_, _, _)

(* resize: what leaves the array part and then the nodes, from the last to  *)
(* the first, are put into the new table.                                   *)
resize(T, na, nh) ==
  LET kept == [i \in 1 .. na |-> IF i <= Len(T.array) THEN T.array[i] ELSE Nil]
      new == [EmptyTable(na, nh) EXCEPT !.array = kept]
      slice == [i \in 1 .. Max({0, Len(T.array) - na}) |-> [key |-> na + i, val |-> T.array[na + i]]]
      old == slice \o Reverse(T.node)
  IN FoldLeft(LAMBDA S, n : IF n.val = Nil THEN S ELSE Put(S, n.key, n.val), new, old)

rehash(T, ek) ==
  LET a == NewArray(IntsInUse(T, ek))
  IN resize(T, a.size, InUse(T) + 1 - a.na)

newkey(T, k, v) ==
  LET mp == mainposition(T, k)
      n == getfreepos(T)
  IN IF T.node # <<>> /\ T.node[mp].val = Nil THEN WithKey(T, mp, k, v, T.node[mp].next)
     ELSE IF T.node # <<>> /\ n # 0 THEN Collide(T, k, v, mp, n)
     ELSE Put(rehash(T, k), k, v)

(* luaH_set and the assignment to what it returns.                          *)
Put(T, k, v) ==
  IF InArray(T, k) THEN [T EXCEPT !.array[k] = v]
  ELSE IF NodeOf(T, k) # 0 THEN [T EXCEPT !.node[NodeOf(T, k)].val = v]
  ELSE newkey(T, k, v)

-------------------------------------------------------------------------------
(* Traversal and length *)

(* findindex: a key that the collector has removed is still found; -1 when  *)
(* the key is invalid.                                                      *)
findindex(T, k) ==
  LET at == FirstNode(T, k, TRUE) IN
  IF k = Nil THEN 0
  ELSE IF InArray(T, k) THEN k
  ELSE IF at # 0 THEN Len(T.array) + at ELSE -1

(* The keys and values in the order of a traversal.                         *)
Entry(T, i) ==
  IF i <= Len(T.array) THEN [key |-> i, val |-> T.array[i]]
  ELSE [key |-> T.node[i - Len(T.array)].key, val |-> T.node[i - Len(T.array)].val]

(* luaH_next: the next key with a value, Nil at the end.                    *)
luaH_next(T, k) ==
  LET rest == {i \in findindex(T, k) + 1 .. Len(T.array) + Len(T.node) : Entry(T, i).val # Nil}
  IN IF rest = {} THEN Nil ELSE Entry(T, Min(rest)).key

(* Between i, which has a value or is 0, and j, which has none.             *)
RECURSIVE BinarySearch(_, _, _)
BinarySearch(T, i, j) ==
  LET m == (i + j) \div 2 IN
  IF j - i <= 1 THEN i
  ELSE IF luaH_get(T, m) = Nil THEN BinarySearch(T, i, m) ELSE BinarySearch(T, m, j)

RECURSIVE Doubling(_, _, _)
Doubling(T, i, j) == IF luaH_get(T, j) = Nil THEN BinarySearch(T, i, j) ELSE Doubling(T, j, 2 * j)

luaH_getn(T) ==
  LET n == Len(T.array) IN
  IF n > 0 /\ T.array[n] = Nil THEN BinarySearch(T, 0, n)
  ELSE IF T.node = <<>> THEN n ELSE Doubling(T, n, n + 1)

(* Mutant: the count is not compared.                                       *)
M_lua_table_is_array(T) ==
  \A k \in {Entry(T, i).key : i \in {x \in 1 .. Len(T.array) + Len(T.node) : Entry(T, x).val # Nil}} :
    k \in IntKeys /\ k <= luaH_getn(T)

(* lua_table_is_array (lua_util.c): the keys are numbers up to the length,  *)
(* and as many.                                                             *)
lua_table_is_array(T) ==
  LET size == luaH_getn(T)
      keys == {Entry(T, i).key : i \in {x \in 1 .. Len(T.array) + Len(T.node) : Entry(T, x).val # Nil}}
  IN /\ \A k \in keys : k \in IntKeys /\ k <= size
     /\ Cardinality(keys) = size

-------------------------------------------------------------------------------

NoTraversal == [on |-> FALSE, key |-> Nil, seen |-> {}, kept |-> {}]
HasValue(m) == {k \in Keys : m[k] # Nil}

luaH_new(na, nh) ==
  /\ t = EmptyTable(na, nh)
  /\ map = [k \in Keys |-> Nil]
  /\ trav = NoTraversal

(* luaH_set by a script; while a table is traversed only fields that have a *)
(* value may be assigned.                                                   *)
luaH_set(k, v) ==
  /\ trav.on => map[k] # Nil
  /\ t' = Put(t, k, v)
  /\ map' = [map EXCEPT ![k] = v]
  /\ trav' = [trav EXCEPT !.kept = IF v = Nil THEN @ \ {k} ELSE @]

(* OP_SETLIST makes room for its items.                                     *)
luaH_resizearray(na) ==
  /\ ~trav.on /\ na > Len(t.array)
  /\ t' = resize(t, na, Len(t.node))
  /\ UNCHANGED <<map, trav>>

(* removeentry of the collector: the keys of empty nodes die, numbers stay. *)
removeentry ==
  /\ t' = [t EXCEPT !.node = [j \in 1 .. Len(@) |->
             [@[j] EXCEPT !.dead = @ \/ (t.node[j].val = Nil /\ t.node[j].key \in StrKeys \cup ObjKeys)]]]
  /\ t' # t
  /\ UNCHANGED <<map, trav>>

StartTraversal ==
  /\ ~trav.on
  /\ trav' = [on |-> TRUE, key |-> Nil, seen |-> {}, kept |-> HasValue(map)]
  /\ UNCHANGED <<t, map>>

lua_next ==
  LET k == luaH_next(t, trav.key) IN
  /\ trav.on /\ findindex(t, trav.key) # -1
  /\ trav' = IF k = Nil THEN NoTraversal
             ELSE [trav EXCEPT !.key = k, !.seen = @ \cup {k}]
  /\ UNCHANGED <<t, map>>

Init == \E na, nh \in NewSizes : luaH_new(na, nh)

Next ==
  \/ \E k \in Keys, v \in Values \cup {Nil} : luaH_set(k, v)
  \/ \E na \in NewSizes : luaH_resizearray(na)
  \/ removeentry
  \/ StartTraversal
  \/ lua_next

Spec == Init /\ [][Next]_vars

-------------------------------------------------------------------------------

(* Whatever has been inserted, moved, rehashed and removed, every key has   *)
(* the value stored last.                                                   *)
KeepsValues == \A k \in Keys : luaH_get(t, k) = map[k]

(* A key is found from its main position in one place only, and a chain     *)
(* never leads back into itself.                                            *)
ChainsSound ==
  \A i, j \in 1 .. Len(t.node) :
    /\ t.node[i].val # Nil => i \in Range(ChainOf(t, t.node[i].key)) /\ ~InArray(t, t.node[i].key)
    /\ (t.node[i].next = t.node[j].next /\ t.node[i].next # 0) => i = j
    /\ (t.node[i].val # Nil /\ t.node[i].key = t.node[j].key /\ ~t.node[j].dead) => i = j

(* luaH_getn is a boundary: the field below it has a value, the one above   *)
(* has none.                                                                *)
LengthIsBoundary ==
  LET n == luaH_getn(t) IN
  /\ n = 0 \/ luaH_get(t, n) # Nil
  /\ luaH_get(t, n + 1) = Nil

(* computesizes finds the largest array that is more than half full.        *)
ArrayIsLargest ==
  \A S \in {IntsInUse(t, k) : k \in Keys} :
    LET full == {n \in {0, 1, 2, 4, 8, 16} : 2 * Cardinality(S \cap 1 .. n) > n \/ n = 0}
    IN NewArray(S) = [size |-> Max(full), na |-> Cardinality(S \cap 1 .. Max(full))]

(* A traversal goes on from its key even if that has been cleared and       *)
(* removed, returns no key twice, and has returned every key that kept a    *)
(* value when it ends.                                                      *)
TraversalComplete ==
  trav.on =>
    LET k == luaH_next(t, trav.key) IN
    /\ findindex(t, trav.key) # -1
    /\ k \notin trav.seen
    /\ k = Nil => trav.kept \subseteq trav.seen

(* The parts above together: the table is what a script thinks it is        *)
(* (luaH_set, newkey, rehash, luaH_getn, luaH_next).                        *)
TableSound ==
  KeepsValues /\ ChainsSound /\ LengthIsBoundary /\ ArrayIsLargest /\ TraversalComplete

(* A table of positive integer keys passes for an array exactly when its    *)
(* keys are 1 to n (lua_table_is_array of lua_util.c).                      *)
IsArrayRight ==
  LET used == HasValue(map) IN
  (\A k \in used : k \in IntKeys => k > 0)
    => (lua_table_is_array(t) <=> used = 1 .. Cardinality(used))
================================================================================
