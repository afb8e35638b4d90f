---------------------------- MODULE EncodeHeader ----------------------------
(***************************************************************************)
(* http.encode_header of http_util.c, lua_http_uri_header_encode: the      *)
(* fields of a table as key=value pairs joined by &.  It walks the table   *)
(* with lua_next, which finds its key on top of the stack, and gathers the *)
(* text in a buffer of LuaBuffer, whose pieces are on top of the stack.    *)
(*                                                                         *)
(* table is the sequence of fields in the order of the traversal; a number *)
(* is its text.  One step is one turn of the loop.  An argument that is    *)
(* not a table gives the empty string, as the empty table does.            *)
(***************************************************************************)
EXTENDS LuaBuffer

CONSTANT Tables         \* the sequences of [key, value] to encode

VARIABLES table, pc
evars == <<B, n, done, table, pc>>

Nil == <<"nil">>

\* lua_next with the key on top of the stack: the field after it, or none.
Following(key) ==
    IF key = Nil THEN 1
    ELSE (CHOOSE i \in DOMAIN table : table[i].key = key) + 1
Known(key) == key = Nil \/ \E i \in DOMAIN table : table[i].key = key

EncodeInit ==
    /\ table \in Tables /\ pc = "next"
    /\ B = luaL_buffinit(<<Nil>>)
    /\ n = 0 /\ done = FALSE

\* One turn: lua_next replaces the key by the next key and value; the pair is
\* added, and the key stays on the stack for the next turn.
Turn ==
    /\ pc = "next" /\ Known(Last(B.stack))
    /\ Following(Last(B.stack)) <= Len(table)
    /\ LET f == table[Following(Last(B.stack))]
           next == [B EXCEPT !.stack = Front(@) \o <<f.key, f.value>>]
           sep == IF n = 0 THEN next ELSE luaL_addlstring(next, <<"&">>)
           copy == [sep EXCEPT !.stack = Append(@, @[Len(@) - 1])]
           key == luaL_addvalue(copy)
       IN  B' = luaL_addvalue(luaL_addlstring(key, <<"=">>))
    /\ n' = n + 1
    /\ UNCHANGED <<done, table, pc>>

\* lua_next has no field left: it takes the key away.
Finish ==
    /\ pc = "next" /\ Known(Last(B.stack))
    /\ Following(Last(B.stack)) > Len(table)
    /\ B' = luaL_pushresult([B EXCEPT !.stack = Front(@)])
    /\ pc' = "done" /\ done' = TRUE
    /\ UNCHANGED <<n, table>>

\* lua_next does not find the key: an error to the caller.
InvalidKey ==
    /\ pc = "next" /\ ~Known(Last(B.stack))
    /\ pc' = "error"
    /\ UNCHANGED <<B, n, done, table>>

EncodeNext == Turn \/ Finish \/ InvalidKey

EncodeSpec == EncodeInit /\ [][EncodeNext]_evars

----------------------------------------------------------------------------
Pair(f) == f.key \o <<"=">> \o f.value
Encoded == FlattenSeq([i \in DOMAIN table |->
               (IF i = 1 THEN <<>> ELSE <<"&">>) \o Pair(table[i])])

\* The comments of the loop, "copy key to top", "add key" and "add value"
\* (http_util.c:176-181): the function ends with all pairs in order and the
\* stack free of them.
EncodesTable ==
    /\ pc # "error"
    /\ pc = "done" => B.stack = <<Encoded>>

\* It does so as long as the text fits the buffer.
EncodesWhatFits == Len(Encoded) <= BUFFERSIZE => EncodesTable
============================================================================
