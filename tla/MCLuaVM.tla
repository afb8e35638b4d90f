------------------------------ MODULE MCLuaVM ------------------------------
(* Programs for LuaVM: every small expression in every place an expression *)
(* may stand, and the statements whose code is intricate.                  *)
EXTENDS LuaVM

n(v) == <<"name", v>>
num(k) == <<"num", k>>
T == <<"bool", TRUE>>
N == <<"nil">>
call(x) == <<"call", n("f"), <<x>>>>
P(x) == IF x[1] \in Binary \union {"not", "minus", "len"} THEN <<"paren", x>> ELSE x

Atoms == {n("a"), n("b"), n("g"), T, N, call(n("a"))}
Logic == {"and", "or", "eq"}
Small == {<<"not", x>> : x \in Atoms} \union {<<op, x, y>> : op \in Logic, x \in Atoms, y \in Atoms}
Nested == {<<op, P(x), y>> : op \in {"and", "or"}, x \in Small, y \in {n("a"), n("b"), T}}
    \union {<<op, y, P(x)>> : op \in {"and", "or", "eq"}, x \in Small, y \in {n("a"), N}}
    \union {<<"not", P(x)>> : x \in Small}

Numbers == {n("a"), n("g"), num(2), call(num(3))}
Sums == {<<op, x, y>> : op \in {"add", "sub"}, x \in Numbers, y \in Numbers}
Arithmetic == {<<op, x, P(y)>> : op \in {"mul", "sub", "lt", "ge"}, x \in Numbers, y \in Sums}
    \union {<<op, P(y), x>> : op \in {"mul", "sub", "gt", "concat"}, x \in Numbers, y \in Sums}
    \union {<<"minus", P(y)>> : y \in Sums}

\* Two locals, a number and nil, and a global come before the expression.
Before == <<<<"assign", <<n("g")>>, <<num(5)>>>>, <<"local", <<"a", "b">>, <<num(4)>>>>>>
Place(k, x) ==
    CASE k = 1 -> <<<<"local", <<"c">>, <<x>>>>, <<"call", n("f"), <<n("c")>>>>>>
      [] k = 2 -> <<<<"assign", <<n("a")>>, <<x>>>>, <<"return", <<n("a"), n("b")>>>>>>
      [] k = 3 -> <<<<"if", <<<<x, <<call(num(1))>>>>>>, <<<<call(num(2))>>>>>>>>
      [] k = 4 -> <<<<"return", <<x>>>>>>
      [] k = 5 -> <<<<"repeat", <<call(n("b")), <<"assign", <<n("a"), n("b")>>, <<N, T>>>>>>,
                      <<"or", n("b"), P(x)>>>>>>
Expressions == {Before \o Place(k, x) : k \in 1 .. 5, x \in Nested \union Small}
ExpressionsNum == {Before \o Place(k, x) : k \in 1 .. 5, x \in Arithmetic}

----------------------------------------------------------------------------
(* Statements. *)

local(names, xs) == <<"local", names, xs>>
set(v, xs) == <<"assign", v, xs>>
at(t, k) == <<"index", t, k>>
fn(params, stats) == <<"function", params, FALSE, stats>>
do(g, xs) == <<"call", g, xs>>
ret(xs) == <<"return", xs>>
ifthen(x, stats) == <<"if", <<<<x, stats>>>>, <<>>>>
item(x) == <<"item", x>>
table(xs) == <<"table", [k \in DOMAIN xs |-> item(xs[k])]>>
eq(x, y) == <<"eq", x, y>>
add(x, y) == <<"add", x, y>>

\* Assignments to several variables, some of them indexed with others.
Vars == {n("a"), n("t"), n("g"), at(n("t"), n("a")), at(n("t"), n("g"))}
Values == {<<num(7)>>, <<n("b"), n("a")>>, <<do(n("f"), <<num(1), num(3)>>)>>,
           <<num(9), do(n("f"), <<num(1), num(3)>>)>>, <<n("a"), n("b"), call(num(8))>>}
Assign(vs, xs) == <<set(<<n("g")>>, <<num(2)>>), local(<<"a", "b">>, <<num(1), num(5)>>),
                    local(<<"t">>, <<table(<<num(10), num(20)>>)>>), local(<<"u">>, <<n("t")>>),
                    set(vs, xs), do(n("f"), <<n("a"), n("g"), n("t"), at(n("u"), num(1)), at(n("u"), num(2))>>)>>
Assignments == {Assign(<<v1, v2>>, xs) : v1 \in Vars, v2 \in Vars, xs \in Values}
    \union {Assign(<<v1, v2, v3>>, xs) : v1 \in Vars, v2 \in Vars, v3 \in {n("a"), n("t"), at(n("t"), n("a"))},
                                       xs \in Values}

\* Loops whose bodies make functions that keep the locals of one round.
Counter == fn(<<>>, <<set(<<n("c")>>, <<add(n("c"), num(1))>>), ret(<<n("c")>>)>>)
Keep == <<local(<<"c">>, <<n("i")>>), set(<<at(n("t"), n("i"))>>, <<Counter>>)>>
Break == ifthen(eq(n("i"), num(2)), <<<<"break">>>>)
Bodies == {Keep, <<Break>> \o Keep, Keep \o <<Break>>, <<<<"do", Keep \o <<Break>>>>>>,
           <<<<"do", Keep>>, Break>>, Keep \o <<local(<<"d">>, <<>>), call(n("d"))>>,
           Keep \o <<call(do(at(n("t"), n("i")), <<>>)), call(n("c"))>>}
Up == set(<<n("i")>>, <<add(n("i"), num(1))>>)
Iterator == <<"function", <<"s", "k">>, FALSE,
              <<ifthen(<<"lt", n("k"), n("s")>>, <<ret(<<add(n("k"), num(1)), n("s")>>)>>)>>>>
Loops(b) == {<<<<"fornum", "i", num(1), num(3), <<>>, b>>>>,
             <<<<"fornum", "i", num(3), num(1), <<<<"minus", num(1)>>>>, b>>>>,
             <<local(<<"i">>, <<num(0)>>), <<"while", <<"lt", n("i"), num(3)>>, <<Up>> \o b>>>>,
             <<local(<<"i">>, <<num(0)>>),
               <<"repeat", <<Up>> \o b \o <<local(<<"e">>, <<n("i")>>), set(<<at(n("t"), num(9))>>, <<fn(<<>>, <<ret(<<n("e")>>)>>)>>)>>,
                 <<"ge", n("e"), num(3)>>>>>>,
             <<local(<<"i">>, <<num(0)>>), <<"repeat", <<Up>> \o b, <<"ge", n("i"), num(3)>>>>>>,
             <<<<"forin", <<"i", "j">>, <<Iterator, num(3), num(0)>>, b>>>>,
             <<<<"fornum", "i", num(1), N, <<>>, b>>>>}
Again2(k) == <<"and", at(n("t"), num(k)), do(at(n("t"), num(k)), <<>>)>>
LoopPrograms ==
    {<<local(<<"t">>, <<<<"table", <<>>>>>>)>> \o l
        \o <<do(n("f"), <<Again2(1), Again2(1), Again2(2), Again2(3), Again2(9)>>)>>
        : l \in UNION {Loops(b) : b \in Bodies}}

\* Functions: upvalues of several levels, tail calls, methods, "...", constructors.
Dots == <<"dots">>
vfn(params, stats) == <<"function", params, TRUE, stats>>
Results == {<<>>, <<num(1)>>, <<n("x"), num(2)>>, <<do(n("f"), <<n("x"), num(3)>>)>>,
            <<num(4), do(n("f"), <<n("x"), num(3)>>)>>, <<<<"paren", do(n("f"), <<n("x"), num(3)>>)>>>>,
            <<Dots>>, <<n("x"), Dots>>, <<n("y"), at(n("arg"), num(1))>>, <<at(n("arg"), <<"str", <<"n">>>>)>>,
            <<do(n("y"), <<n("x")>>)>>, <<table(<<n("x"), Dots>>)>>}
Uses(g) == {<<do(n("f"), <<g>>)>>, <<local(<<"p", "q">>, <<g>>), do(n("f"), <<n("p"), n("q")>>)>>,
            <<local(<<"p", "q">>, <<g, num(6)>>), do(n("f"), <<n("p"), n("q")>>)>>,
            <<ret(<<g>>)>>, <<ret(<<num(5), g>>)>>, <<ret(<<g, num(5)>>)>>,
            <<local(<<"v">>, <<table(<<num(7), num(8), g>>)>>), ret(<<<<"len", n("v")>>, at(n("v"), num(3)), at(n("v"), num(4))>>)>>,
            <<local(<<"v">>, <<table(<<g, num(8), num(9)>>)>>), ret(<<at(n("v"), num(1)), at(n("v"), num(3))>>)>>}
Calls == UNION {{<<local(<<"z">>, <<num(0)>>), local(<<"m">>, <<vfn(<<"x", "y">>, <<ret(r)>>)>>)>> \o u : r \in Results}
                : u \in UNION {Uses(do(n("m"), xs)) : xs \in {<<>>, <<num(1)>>, <<num(1), n("f"), num(3)>>, <<num(1), n("f"), N, num(4)>>}}}

x == n("x")
Functions ==
   {<<local(<<"x">>, <<num(1)>>),
      local(<<"get", "put">>, <<fn(<<>>, <<ret(<<x>>)>>), fn(<<"v">>, <<set(<<x>>, <<n("v")>>)>>)>>),
      do(n("put"), <<num(5)>>), set(<<n("h")>>, <<n("get")>>), call(x), do(n("put"), <<num(6)>>),
      ret(<<do(n("h"), <<>>), x>>)>>,
    <<local(<<"x">>, <<num(1)>>),
      local(<<"outer">>, <<fn(<<"y">>, <<local(<<"inner">>, <<fn(<<>>, <<set(<<x, n("y")>>, <<n("y"), x>>), ret(<<x, n("y")>>)>>)>>),
                                         do(n("inner"), <<>>), ret(<<n("inner"), n("inner")>>)>>)>>),
      local(<<"k">>, <<do(n("outer"), <<num(2)>>)>>), call(x), ret(<<do(n("k"), <<>>)>>)>>,
    <<<<"localfunction", "sum", <<"k">>, FALSE,
        <<ifthen(eq(n("k"), num(0)), <<ret(<<num(0)>>)>>), ret(<<add(n("k"), do(n("sum"), <<<<"sub", n("k"), num(1)>>>>))>>)>>>>,
      ret(<<do(n("sum"), <<num(3)>>)>>)>>,
    <<<<"localfunction", "down", <<"k", "v">>, FALSE,
        <<ifthen(eq(n("k"), num(0)), <<ret(<<n("v")>>)>>),
          local(<<"w">>, <<fn(<<>>, <<ret(<<add(n("k"), n("v"))>>)>>)>>),
          ret(<<do(n("down"), <<<<"sub", n("k"), num(1)>>, do(n("w"), <<>>)>>)>>)>>>>,
      ret(<<do(n("down"), <<num(3), num(10)>>)>>)>>,
    <<local(<<"o">>, <<<<"table", <<<<"rec", <<"str", <<"v">>>>, num(4)>>, item(num(1)), item(num(2)), item(num(3)),
        <<"rec", <<"str", <<"get">>>>, fn(<<"self", "d">>, <<ret(<<add(at(n("self"), <<"str", <<"v">>>>), n("d"))>>)>>)>>,
        item(num(5))>>>>>>),
      do(n("f"), <<<<"len", n("o")>>, at(n("o"), num(3)), at(n("o"), num(4))>>),
      ret(<<<<"self", n("o"), "get", <<num(6)>>>>>>)>>,
    <<<<"self", n("g"), "get", <<>>>>>>,
    <<local(<<"a">>, <<num(1)>>), <<"do", <<local(<<"b", "c">>, <<num(2), num(3)>>), call(n("c"))>>>>,
      local(<<"d">>, <<>>), local(<<"e", "h">>, <<>>), do(n("f"), <<n("d"), n("e"), n("h")>>)>>,
    <<<<"do", <<local(<<"d", "e">>, <<num(7), num(8)>>)>>>>, ifthen(n("g"), <<local(<<"d">>, <<>>)>>),
      local(<<"c", "e">>, <<>>), ret(<<n("c"), n("e")>>)>>,
    <<<<"while", <<"not", n("g")>>, <<local(<<"b">>, <<>>), call(n("b")), set(<<n("b")>>, <<num(1)>>), set(<<n("g")>>, <<n("b")>>)>>>>,
      local(<<"c">>, <<>>), ret(<<n("c")>>)>>,
    <<local(<<"s">>, <<<<"str", <<"u">>>>>>), ret(<<<<"concat", n("s"), <<"concat", num(1), <<"concat", n("s"), <<"paren", <<"concat", n("s"), num(2)>>>>>>>>>>,
                                            <<"len", n("s")>>>>)>>,
    <<ret(<<<<"len", n("g")>>>>)>>, <<ret(<<<<"concat", n("g"), num(1)>>>>)>>, <<do(n("g"), <<>>)>>,
    <<ret(<<do(n("g"), <<>>)>>)>>, <<<<"forin", <<"i">>, <<N>>, <<>>>>>>,
    <<set(<<at(n("g"), num(1))>>, <<num(2)>>)>>, <<local(<<"t">>, <<<<"table", <<>>>>>>), set(<<at(n("t"), N)>>, <<num(2)>>)>>,
    <<<<"if", <<<<n("g"), <<call(num(1))>>>>, <<<<"not", n("g")>>, <<call(num(2))>>>>, <<T, <<call(num(3))>>>>>>, <<<<call(num(4))>>>>>>>>}

MCNames == {"f", "g", "h"}
MCPrograms ==
    Expressions \union ExpressionsNum \union Assignments \union LoopPrograms \union Calls \union Functions
============================================================================
