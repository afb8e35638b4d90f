----------------------------- MODULE LuaBuffer -----------------------------
(***************************************************************************)
(* The string buffers of lauxlib.c.  Text gathers in a C array, and in     *)
(* pieces on the Lua stack once the array is full; between two operations  *)
(* the pieces must be the topmost lvl values of the stack.                 *)
(*                                                                         *)
(* A buffer B is its array buf, its lvl and the stack it lives on.  A      *)
(* string is a sequence of characters.                                     *)
(***************************************************************************)
EXTENDS Naturals, Sequences, SequencesExt, FiniteSetsExt

CONSTANTS
    BUFFERSIZE,     \* LUAL_BUFFERSIZE
    LIMIT,          \* LUA_MINSTACK / 2
    MaxText         \* bound on the text a client adds

BufferAssumption ==
    BUFFERSIZE \in Nat \ {0} /\ LIMIT \in Nat /\ LIMIT > 1 /\ MaxText \in Nat

\* The topmost n values of a stack as one string, and the stack without them.
TopText(stack, n) == FlattenSeq(SubSeq(stack, Len(stack) - n + 1, Len(stack)))
Without(stack, n) == SubSeq(stack, 1, Len(stack) - n)
lua_concat(stack, n) == Append(Without(stack, n), TopText(stack, n))

luaL_buffinit(stack) == [buf |-> <<>>, lvl |-> 0, stack |-> stack]

\* emptybuffer: the array becomes a piece, unless it is empty.
emptybuffer(B) ==
    IF B.buf = <<>> THEN B
    ELSE [buf |-> <<>>, lvl |-> B.lvl + 1, stack |-> Append(B.stack, B.buf)]

\* adjuststack: the pieces on top are joined while there are too many of them
\* or the next one is shorter than what is joined so far.
adjuststack(B) ==
    LET Joins(i) == \/ B.lvl - i + 1 >= LIMIT
                    \/ Len(TopText(B.stack, i)) > Len(B.stack[Len(B.stack) - i])
        toget == CHOOSE n \in 1..B.lvl :
                    (\A i \in 1..(n - 1) : Joins(i)) /\ (n = B.lvl \/ ~Joins(n))
    IN  IF B.lvl <= 1 THEN B
        ELSE [B EXCEPT !.stack = lua_concat(@, toget), !.lvl = @ - toget + 1]

luaL_prepbuffer(B) == IF B.buf = <<>> THEN B ELSE adjuststack(emptybuffer(B))

luaL_addchar(B, c) ==
    LET b == IF Len(B.buf) < BUFFERSIZE THEN B ELSE luaL_prepbuffer(B)
    IN  [b EXCEPT !.buf = Append(@, c)]

luaL_addlstring(B, s) == FoldLeft(luaL_addchar, B, s)

luaL_pushresult(B) ==
    LET b == emptybuffer(B)
    IN  [b EXCEPT !.stack = lua_concat(@, b.lvl), !.lvl = 1]

\* Mutant: the array goes above the value.
M_luaL_addvalue(B) ==
    LET v == Last(B.stack)
        b == emptybuffer(B)
    IN  IF Len(v) <= BUFFERSIZE - Len(B.buf)
        THEN [B EXCEPT !.buf = @ \o v, !.stack = Front(@)]
        ELSE adjuststack([b EXCEPT !.lvl = @ + 1])

\* luaL_addvalue: the value on top of the stack goes into the array, or stays
\* where it is as the topmost piece, after the array.
luaL_addvalue(B) ==
    LET v == Last(B.stack)
        b == emptybuffer([B EXCEPT !.stack = Front(@)])
    IN  IF Len(v) <= BUFFERSIZE - Len(B.buf)
        THEN [B EXCEPT !.buf = @ \o v, !.stack = Front(@)]
        ELSE adjuststack([b EXCEPT !.lvl = @ + 1, !.stack = Append(@, v)])

----------------------------------------------------------------------------
(* A client that keeps to the discipline: it adds the numbers from 1 on as  *)
(* characters, in strings and values of any length, above a stack of its    *)
(* own, and then takes the result.                                          *)

VARIABLES B, n, done
vars == <<B, n, done>>

Own == <<<<0>>>>
Text(i, j) == [k \in 1..(j - i) |-> i + k]

Init == B = luaL_buffinit(Own) /\ n = 0 /\ done = FALSE

AddString(l) ==
    /\ ~done /\ n + l <= MaxText
    /\ B' = luaL_addlstring(B, Text(n, n + l))
    /\ n' = n + l /\ UNCHANGED done

AddValue(l) ==
    /\ ~done /\ n + l <= MaxText
    /\ B' = luaL_addvalue([B EXCEPT !.stack = Append(@, Text(n, n + l))])
    /\ n' = n + l /\ UNCHANGED done

PushResult ==
    /\ ~done
    /\ B' = luaL_pushresult(B)
    /\ done' = TRUE /\ UNCHANGED n

Next == PushResult \/ \E l \in 1..MaxText : AddString(l) \/ AddValue(l)

Spec == Init /\ [][Next]_vars

----------------------------------------------------------------------------
\* Nothing that was added is lost, doubled or out of order, however it came to
\* be split between the array and the stack, and the client's stack below the
\* pieces is as it was; the result is one string.
KeepsText ==
    /\ TopText(B.stack, B.lvl) \o B.buf = Text(0, n)
    /\ Without(B.stack, B.lvl) = Own
    /\ done => B.lvl = 1 /\ B.buf = <<>>

\* A C function has LUA_MINSTACK slots without asking: the pieces never take
\* more than LIMIT, half of them, whatever is added.
PiecesFit == B.lvl <= LIMIT
============================================================================
