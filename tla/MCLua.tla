-------------------------------- MODULE MCLua ---------------------------------
(***************************************************************************)
(* Parts of the Lua library that share no state, checked side by side:     *)
(* LuaPattern and LuaCall, and instances of LuaSort, LuaTable, LuaBuffer    *)
(* and EncodeHeader.  A behaviour is one of the part it begins with.       *)
(***************************************************************************)
EXTENDS MCLuaPattern, LuaCall

CONSTANTS Parts,        \* the parts to check
          HeaderBuffer, \* the buffer of http.encode_header, in characters
          c1, c2, text1, obj1, val1, None1

VARIABLES part,
          array, order, sorted, frames, i, j, st, at,        \* LuaSort
          tab, map, trav,                                    \* LuaTable
          B, added, done, fields, step                       \* EncodeHeader

patternVars == vars
sortVars == <<array, order, sorted, frames, i, j, st, at>>
tableVars == <<tab, map, trav>>
textVars == <<B, added, done, fields, step>>
partVars == <<part, patternVars, sortVars, tableVars, callVars, textVars>>

----------------------------------------------------------------------------
(* LuaSort: valid orders on arrays with and without equal elements; every    *)
(* relation on two elements and nil; functions that follow no rule.          *)
LT == {p \in (1..6) \X (1..6) : p[1] < p[2]}
GT == {p \in (1..6) \X (1..6) : p[1] > p[2]}
Coarse == {p \in LT : p[2] = 3}
Arrays(len, vals) == [1 .. len -> vals]
Perms(len) == {f \in Arrays(len, 1 .. len) : \A p, q \in 1 .. len : p # q => f[p] # f[q]}
Few3 == {1, 2, None1}
SortInputs ==
    {[arrays |-> UNION {Arrays(m, 1 .. 3) : m \in 0 .. 5}, orders |-> {LT, Coarse}],
     [arrays |-> Perms(6), orders |-> {LT, GT}],
     [arrays |-> Arrays(8, 1 .. 2) \union Arrays(9, 1 .. 2), orders |-> {LT}],
     [arrays |-> Arrays(4, 1 .. 2), orders |-> SUBSET (Few3 \X Few3)],
     [arrays |-> {<<1, 2, 3, 4>>, <<1, 1, 2, 2, 3>>}, orders |-> {{"any"}}]}
Sorting == INSTANCE LuaSort WITH Inputs <- SortInputs, Values <- 1 .. 6, t <- sorted, pc <- at, Nil <- None1

(* LuaTable: keys of three kinds whose hash values collide; integers only.   *)
HashOf(keys) == [k \in keys |-> IF k = text1 THEN 4 ELSE IF k = obj1 THEN 6 ELSE 2 * k]
MixedHash == HashOf({1, 2, 3, text1, obj1})
IntsHash == HashOf(0 .. 5)
Mixed == INSTANCE LuaTable WITH
    IntKeys <- {1, 2, 3}, StrKeys <- {text1}, ObjKeys <- {obj1}, Hash <- MixedHash,
    Values <- {val1}, NewSizes <- {0, 2}, t <- tab, Nil <- None1
Ints == INSTANCE LuaTable WITH
    IntKeys <- 0 .. 5, StrKeys <- {}, ObjKeys <- {}, Hash <- IntsHash,
    Values <- {val1}, NewSizes <- {0, 3}, t <- tab, Nil <- None1

(* LuaCall: LUAI_MAXCCALLS is 200 and LUAI_MAXCALLS 20000 in luaconf.h; what *)
(* matters is that both are reached, and passed in handlers.  Everything that *)
(* one thread can do; pcall and xpcall with one coroutine, in a call of the   *)
(* engine with and without the traceback; its handlers past the limit; two    *)
(* coroutines in the engine's call of a script, which has no handler.         *)
Active(k) == {p \in DOMAIN cst : cst[p].k = k}
Nested(kinds, depth) ==
    /\ \A t \in Thread : nCcalls[t] <= depth
    /\ Cardinality(Active("pcall")) <= 2
    /\ \A p \in Active("pcall") \ {1} : cst[p].ef \in kinds
Within ==
    CASE part = "limits" -> created = {}
      [] part = "errors" -> created \subseteq {c1} /\ Nested(HandlerKinds \union {"traceback"}, MaxCCalls)
      [] part = "handlers" -> created \subseteq {c1} /\ Nested({"traceback", "script"}, MaxCCalls + 1)
      [] part = "coroutines" ->
            /\ \A t \in Thread : nCcalls[t] <= MaxCCalls + 1
            /\ \A p \in Active("pcall") : p = 1 /\ cst[p].ef = "none"

(* EncodeHeader: tables of up to three fields with short and long values, on *)
(* the buffers of LuaBuffer: LUAL_BUFFERSIZE is BUFSIZ and LIMIT 10; here    *)
(* both are small enough to be met.                                          *)
Field == {[key |-> k, value |-> w] :
            k \in {<<"a">>, <<"b", "b">>, <<"c">>}, w \in {<<>>, <<"x">>, <<"y", "z">>}}
FieldLists == {f \in UNION {[1..m -> Field] : m \in 0..3} :
                \A p, q \in DOMAIN f : p # q => f[p].key # f[q].key}
Header == INSTANCE EncodeHeader WITH
    BUFFERSIZE <- HeaderBuffer, LIMIT <- 4, MaxText <- 0, Tables <- FieldLists,
    n <- added, table <- fields, pc <- step
Buffers == INSTANCE EncodeHeader WITH
    BUFFERSIZE <- 3, LIMIT <- 4, MaxText <- 24, Tables <- {<<>>},
    n <- added, table <- fields, pc <- step

ASSUME PartsAssumption ==
    /\ Mixed!KeysAssumption /\ Ints!KeysAssumption
    /\ Header!BufferAssumption /\ Buffers!BufferAssumption

----------------------------------------------------------------------------
(* A part that does not take part keeps 0 in its variables, the calls their  *)
(* first state: the event loop before the first script.                      *)
NoPattern == call = 0 /\ pc = 0 /\ src = 0 /\ found = 0 /\ out = 0 /\ n = 0
NoSort == array = 0 /\ order = 0 /\ sorted = 0 /\ frames = 0 /\ i = 0 /\ j = 0 /\ st = 0 /\ at = 0
NoTable == tab = 0 /\ map = 0 /\ trav = 0
NoText == B = 0 /\ added = 0 /\ done = 0 /\ fields = 0 /\ step = 0

TableParts == {"mixed", "ints"}
CallParts == {"errors", "handlers", "coroutines", "limits"}
TextParts == {"header", "buffers"}

PartsInit ==
    /\ part \in Parts
    /\ IF part = "pattern" THEN Init ELSE NoPattern
    /\ IF part = "sort" THEN Sorting!Init ELSE NoSort
    /\ CASE part = "mixed" -> Mixed!Init [] part = "ints" -> Ints!Init [] OTHER -> NoTable
    /\ CallInit
    /\ CASE part = "header" -> Header!EncodeInit
         [] part = "buffers" -> Buffers!Init /\ fields = <<>> /\ step = "next"
         [] OTHER -> NoText

PartsNext ==
    /\ UNCHANGED part
    /\ \/ /\ part = "pattern" /\ Next
          /\ UNCHANGED <<sortVars, tableVars, callVars, textVars>>
       \/ /\ part = "sort" /\ Sorting!Next
          /\ UNCHANGED <<patternVars, tableVars, callVars, textVars>>
       \/ /\ (part = "mixed" /\ Mixed!Next) \/ (part = "ints" /\ Ints!Next)
          /\ UNCHANGED <<patternVars, sortVars, callVars, textVars>>
       \/ /\ part \in CallParts /\ CallNext /\ Within'
          /\ UNCHANGED <<patternVars, sortVars, tableVars, textVars>>
       \/ /\ (part = "header" /\ Header!EncodeNext) \/ (part = "buffers" /\ Buffers!Next /\ UNCHANGED <<fields, step>>)
          /\ UNCHANGED <<patternVars, sortVars, tableVars, callVars>>

PartsSpec == PartsInit /\ [][PartsNext]_partVars

----------------------------------------------------------------------------
(* The properties of the parts; those of LuaCall are in its module.          *)

\* LuaPattern!FindsTheFirst: find and match return the first match a declarative
\* reading of the pattern allows, with its captures (str_find_aux, match).
PatternFinds == part = "pattern" => FindsTheFirst

\* LuaPattern!GoesThroughAll: gmatch and gsub visit exactly the successive
\* matches, empty ones included, and keep the text between (gmatch_aux, str_gsub).
PatternGoesThroughAll == part = "pattern" => GoesThroughAll

\* LuaPattern!StaysInside: no pattern, malformed or not, makes the matcher read
\* past the end of the pattern or of the subject (classend, match).
PatternStaysInside == part = "pattern" => StaysInside

\* LuaSort!Sorted: table.sort orders the array under every valid order, and
\* then compares elements of the array only (auxsort).
ArraySorted == part = "sort" => Sorting!Sorted

\* LuaSort!NothingLost: under any function, at any step, no element is lost or
\* doubled and the recursion is at most logarithmic (auxsort, set2).
ArrayKeepsElements == part = "sort" => Sorting!NothingLost

\* LuaTable!TableSound: a table keeps its values across collisions, rehashes and
\* removals, its chains, sizes and length are right, and a traversal misses and
\* repeats nothing (newkey, rehash, luaH_getn, luaH_next).
TablesSound == (part = "mixed" => Mixed!TableSound) /\ (part = "ints" => Ints!TableSound)

\* LuaTable!IsArrayRight: lua_table_is_array of lua_util.c tells arrays from
\* other tables of these keys, however the table came about.
ArraysRecognised == (part = "mixed" => Mixed!IsArrayRight) /\ (part = "ints" => Ints!IsArrayRight)

\* LuaBuffer!KeepsText and PiecesFit: a buffer holds the text added to it, in
\* few enough pieces for the stack (lauxlib.c). EncodeHeader!EncodesWhatFits: a
\* header that fits the buffer is encoded whole (lua_http_uri_header_encode).
TextIsKept ==
    /\ part = "buffers" => Buffers!KeepsText /\ Buffers!PiecesFit
    /\ part = "header" => Header!EncodesWhatFits

\* EncodeHeader!EncodesTable: a header of any length is encoded whole, as the
\* comments of lua_http_uri_header_encode have it.
HeaderEncoded == part = "header" => Header!EncodesTable
===============================================================================
