---------------------------- MODULE MCLuaPattern ----------------------------
(* Calls for LuaPattern: patterns of up to three items, nested groups, and   *)
(* malformed ones.                                                           *)
EXTENDS LuaPattern

All == {"a", "b", "1", "^"}
One(set, text, rep) == [k |-> "one", set |-> set, text |-> text, rep |-> rep]
Group(m, items) == [k |-> "group", n |-> m, items |-> items]
Here(m) == [k |-> "here", n |-> m]
Same(m) == [k |-> "same", n |-> m]
Front1 == [k |-> "frontier", set |-> {"a", "b"}, text |-> <<"[", "%", "a", "]">>]
FrontEnd == [k |-> "frontier", set |-> {"NUL", "1"}, text |-> <<"[", "^", "%", "a", "^", "]">>]
Bal == [k |-> "balance", b |-> "a", e |-> "b"]
End == [k |-> "end"]
Start1 == [k |-> "start"]

RECURSIVE Render(_)
Render(items) ==
    IF items = <<>> THEN <<>>
    ELSE LET it == Head(items)
         IN  (CASE it.k = "one" -> it.text \o (IF it.rep = "" THEN <<>> ELSE <<it.rep>>)
                [] it.k = "group" -> <<"(">> \o Render(it.items) \o <<")">>
                [] it.k = "here" -> <<"(", ")">>
                [] it.k = "same" -> <<"%", IF it.n = 1 THEN "1" ELSE "5">>
                [] it.k = "balance" -> <<"%", "b", it.b, it.e>>
                [] it.k = "frontier" -> <<"%", "f">> \o it.text
                [] it.k = "end" -> <<"$">>
                [] it.k = "start" -> <<"^">>)
             \o Render(Tail(items))

Reps == {"", "?", "*", "+", "-"}
Singles == {One({"a"}, <<"a">>, r) : r \in Reps} \union {One(All, <<".">>, r) : r \in Reps}
Sets == {One({"a", "b"}, <<"%", "a">>, ""), One({"1", "^"}, <<"%", "A">>, "*"),
         One({"b", "1", "^"}, <<"[", "^", "a", "]">>, "+"), One({"1", "a"}, <<"[", "1", "-", "9", "a", "]">>, "-"),
         One({"a", "b", "^"}, <<"[", "%", "D", "]">>, "?"), One({"b"}, <<"b">>, "")}
Few == {One({"a"}, <<"a">>, ""), One({"a"}, <<"a">>, "*"), One(All, <<".">>, "-"), One(All, <<".">>, "+"), One({"b"}, <<"b">>, "?")}
Third == {One({"a"}, <<"a">>, ""), One(All, <<".">>, "-")}
Marks == {Front1, FrontEnd, Bal, End}

Plain == {<<>>} \union {<<x>> : x \in Singles \union Sets \union Marks}
         \union {<<x, y>> : x \in (Singles \union Sets \union Marks) \ {End}, y \in Singles \union Sets \union Marks}
         \union {<<x, y, z>> : x, y \in Few, z \in Third} \union {<<x, y, End>> : x, y \in Few}
Grouped ==
    {<<Group(1, <<x>>), y>> : x, y \in Few} \union {<<Group(1, <<x>>), y, Same(1)>> : x, y \in Few}
    \union {<<Group(1, <<x, Group(2, <<y>>)>>), z>> : x, y \in Few, z \in Third}
    \union {<<Group(1, <<x>>), Group(2, <<y, Same(1)>>), z>> : x, y \in Few, z \in Third}
    \union {<<x, Here(1), y, Group(2, <<z>>)>> : x, y \in Few, z \in Third}
    \union {<<Here(1), x, Same(1)>> : x \in Few}
    \union {<<x, Group(1, <<y, Here(2)>>), End>> : x, y \in Few}
Anchoreds == {<<Start1>> \o p : p \in {<<x, y>> : x, y \in Few} \union {<<Group(1, <<x>>), y>> : x, y \in Few}}

Malformed == {<<"%">>, <<"[">>, <<"[", "^">>, <<"[", "a", "%">>, <<"[", "%", "]">>, <<"a", "*", "%">>, <<"%", "b">>,
              <<"%", "b", "a">>, <<"%", "f">>, <<"%", "f", "a">>, <<"%", "f", "[">>, <<"(", "a">>, <<"a", ")">>,
              <<"(", ")", ")">>, <<"%", "1">>, <<"(", "%", "1", ")">>, <<"[", "a", "-">>, <<"[", "a", "-", "]">>,
              <<"[", "]">>, <<"[", "]", "]">>, <<"[", "^", "]", "]">>, <<"(", "(", "(", "a", ")", ")", ")">>,
              <<"$", "a">>, <<"%", "b", "a", "a">>, <<"^">>, <<"^", "*">>, <<"[", "1", "-", "%">>}

Subjects(len) == UNION {[1..m -> {"a", "b", "1"}] : m \in 0..len}
\* A character of a subject may be the one that ends a pattern.
Zeros == {<<"NUL">>, <<"a", "NUL">>, <<"NUL", "NUL">>}
Pats(sets) == {[items |-> p, text |-> Render(p)] : p \in sets}
Bad == {[items |-> <<[k |-> "malformed"]>>, text |-> t] : t \in Malformed}

Keep == <<<<"capture", 0>>>>
Named1 == <<<<"capture", 1>>, <<"char", "b">>, <<"capture", 0>>>>
Call(fn, s, p, init, repl, max) ==
    [fn |-> fn, subj |-> s, pat |-> p, init |-> init, repl |-> repl, max |-> max]
Finds == {Call({"find"}, Subjects(3), Pats(Plain \union Grouped \union Anchoreds), {1}, {FUN}, {0}),
          Call({"find", "match"}, Subjects(2) \union Zeros, Bad, {1}, {FUN}, {0}),
          Call({"match"}, Subjects(2), Pats({<<x, y>> : x, y \in Few} \union {<<Start1, x>> : x \in Few}), -3 .. 4, {FUN}, {0}),
          Call({"plain"}, Subjects(3), Pats({<<One({"a"}, <<"a">>, "")>>, <<One({"a"}, <<"a">>, "*")>>}), -2 .. 4, {FUN}, {0}),
          Call({"find"}, Subjects(3), Pats({<<>>, <<One({"b"}, <<"b">>, ""), One({"b"}, <<"b">>, "")>>}), {1, 2, -1}, {FUN}, {0})}
Loops == {Call({"gmatch", "gsub"}, Subjects(3),
               Pats({<<x, y>> : x, y \in Few} \union {<<Group(1, <<x>>), y>> : x, y \in Few}
                    \union {<<x>> : x \in Singles \union Marks} \union {<<x, Here(1)>> : x \in Few}), {1}, {Keep}, {9}),
          Call({"gmatch", "gsub"}, Subjects(2), Pats(Anchoreds), {1}, {Keep}, {9}),
          Call({"gmatch"}, Subjects(2) \union Zeros, Bad, {1}, {Keep}, {9}),
          Call({"gsub"}, Subjects(2) \union Zeros, Bad, {1}, {Keep, Named1, <<>>, FUN, TAB}, {9}),
          Call({"gsub"}, Subjects(2), Pats({<<x>> : x \in Few} \union {<<Group(1, <<x>>), y>> : x, y \in Few}), {1},
               {Keep, Named1, <<<<"char", "b">>, <<"capture", 5>>>>, <<>>, FUN, TAB}, {0, 1, 2})}
MCQueries == Finds \union Loops
=============================================================================
