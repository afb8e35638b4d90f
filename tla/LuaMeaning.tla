----------------------------- MODULE LuaMeaning -----------------------------
(***************************************************************************)
(* What a Lua program means, as the language defines it: the reference the *)
(* compiled code is compared with.  A local is a cell, a scope maps names  *)
(* to cells, a function keeps the scope it was made in; nothing is known   *)
(* of registers, jumps, frames or upvalues.                                *)
(*                                                                         *)
(* w is the world: cells, tables, functions, globals, what f reported, and *)
(* whether an error ended the program.                                     *)
(***************************************************************************)
EXTENDS Integers, Sequences, SequencesExt, TLC

nil == <<"nil">>
IsFalse(v) == v \in {nil, <<"bool", FALSE>>}
First(vs) == IF vs = <<>> THEN nil ELSE vs[1]
Nth(vs, n) == IF n <= Len(vs) THEN vs[n] ELSE nil
Fail(w) == [w EXCEPT !.err = TRUE]

\* Declare: a new cell for each name; the innermost declaration of a name counts.
Declare(w, env, names, vs) ==
    [w |-> [w EXCEPT !.cells = @ \o [n \in DOMAIN names |-> Nth(vs, n)]],
     env |-> env \o [n \in DOMAIN names |-> <<names[n], Len(w.cells) + n>>]]
Find(env, name) == SelectLastInSubSeq(env, 1, Len(env), LAMBDA b : b[1] = name)

Lookup(t, key) == IF \E n \in DOMAIN t : t[n][1] = key
                  THEN t[CHOOSE n \in DOMAIN t : t[n][1] = key][2] ELSE nil
Update(t, key, v) == LET rest == SelectSeq(t, LAMBDA p : p[1] # key)
                     IN  IF v = nil THEN rest ELSE Append(rest, <<key, v>>)

Chars(v) == IF v[1] = "num" THEN <<ToString(v[2])>> ELSE v[2]

\* Apply an operator to the values of its operands.
Apply(op, a, b, w) ==
    LET num == a[1] = "num" /\ b[1] = "num"
        Val(v) == [v |-> <<v>>, w |-> w]
        Truth(t) == Val(<<"bool", t>>)
    IN  CASE op = "eq" -> Truth(a = b)
          [] op = "ne" -> Truth(a # b)
          [] op = "concat" /\ a[1] \in {"str", "num"} /\ b[1] \in {"str", "num"} ->
                Val(<<"str", Chars(a) \o Chars(b)>>)
          [] num /\ op = "add" -> Val(<<"num", a[2] + b[2]>>)
          [] num /\ op = "sub" -> Val(<<"num", a[2] - b[2]>>)
          [] num /\ op = "mul" -> Val(<<"num", a[2] * b[2]>>)
          [] num /\ op = "lt" -> Truth(a[2] < b[2])
          [] num /\ op = "gt" -> Truth(a[2] > b[2])
          [] num /\ op = "le" -> Truth(a[2] <= b[2])
          [] num /\ op = "ge" -> Truth(a[2] >= b[2])
          [] OTHER -> [v |-> <<nil>>, w |-> Fail(w)]

\* An evaluation, a block or a call under way: Do goes on with it.
RECURSIVE Do(_, _, _, _)
Eval(x, env, w) == Do("eval", x, env, w)
Exec(stats, env, w) == Do("exec", stats, env, w)
CallValue(fn, args, w) == Do("call", fn, args, w)

RECURSIVE EvalList(_, _, _), Fill(_, _, _, _, _), Targets(_, _, _), While(_, _, _, _), Repeat(_, _, _, _),
          ForNum(_, _, _, _, _, _, _), ForIn(_, _, _, _, _, _, _)

\* The values of an expression, several only for a call and for "...".
ValuesOf(x, env, w) ==
    LET One(r) == [v |-> <<First(r.v)>>, w |-> r.w]
        a == One(Eval(x[2], env, w))
        b == One(Eval(x[3], env, a.w))
        cell == env[Find(env, x[2])][2]
    IN  IF w.err THEN [v |-> <<nil>>, w |-> w] ELSE
        CASE x[1] \in {"nil", "bool", "num", "str"} -> [v |-> <<x>>, w |-> w]
          [] x[1] = "dots" -> [v |-> w.cells[env[Find(env, "...")][2]], w |-> w]
          [] x[1] = "name" -> [v |-> <<IF Find(env, x[2]) = 0 THEN w.globals[x[2]] ELSE w.cells[cell]>>,
                               w |-> w]
          [] x[1] = "paren" -> a
          [] x[1] = "function" ->
                [v |-> <<<<"fun", Len(w.funs) + 1>>>>,
                 w |-> [w EXCEPT !.funs = Append(@, [params |-> x[2], dots |-> x[3], body |-> x[4], env |-> env])]]
          [] x[1] = "table" ->
                LET f == Fill(x[2], env, [w EXCEPT !.tabs = Append(@, <<>>)], Len(w.tabs) + 1, 1)
                IN  [v |-> <<<<"tab", Len(w.tabs) + 1>>>>, w |-> f]
          [] x[1] = "index" ->
                IF a.v[1][1] = "tab" /\ ~b.w.err
                THEN [v |-> <<Lookup(b.w.tabs[a.v[1][2]], b.v[1])>>, w |-> b.w]
                ELSE [v |-> <<nil>>, w |-> Fail(b.w)]
          [] x[1] = "call" ->
                LET args == EvalList(x[3], env, a.w) IN CallValue(a.v[1], args.v, args.w)
          [] x[1] = "self" ->
                LET m == IF a.v[1][1] = "tab" THEN Lookup(a.w.tabs[a.v[1][2]], <<"str", <<x[3]>>>>) ELSE nil
                    z == IF a.v[1][1] = "tab" THEN a.w ELSE Fail(a.w)
                    args == EvalList(x[4], env, z)
                IN  CallValue(m, a.v \o args.v, args.w)
          [] x[1] = "not" -> [v |-> <<<<"bool", IsFalse(a.v[1])>>>>, w |-> a.w]
          [] x[1] = "minus" -> IF a.v[1][1] = "num" THEN [v |-> <<<<"num", -a.v[1][2]>>>>, w |-> a.w]
                               ELSE [v |-> <<nil>>, w |-> Fail(a.w)]
          [] x[1] = "len" ->
                CASE a.v[1][1] = "str" -> [v |-> <<<<"num", Len(a.v[1][2])>>>>, w |-> a.w]
                  [] a.v[1][1] = "tab" ->
                       [v |-> <<<<"num", Len(SelectSeq(a.w.tabs[a.v[1][2]], LAMBDA p : p[1][1] = "num"))>>>>,
                        w |-> a.w]
                  [] OTHER -> [v |-> <<nil>>, w |-> Fail(a.w)]
          [] x[1] = "and" -> IF IsFalse(a.v[1]) THEN a ELSE b
          [] x[1] = "or" -> IF IsFalse(a.v[1]) THEN b ELSE a
          [] OTHER -> IF b.w.err THEN b ELSE Apply(x[1], a.v[1], b.v[1], b.w)

\* EvalList: each expression gives one value, the last all of its values.
EvalList(xs, env, w) ==
    LET h == Eval(Head(xs), env, w)
        t == EvalList(Tail(xs), env, h.w)
    IN  CASE xs = <<>> -> [v |-> <<>>, w |-> w]
          [] Len(xs) = 1 -> h
          [] OTHER -> [v |-> <<First(h.v)>> \o t.v, w |-> t.w]

\* Fill: the fields of a constructor; n numbers the items.
Fill(fields, env, w, t, n) ==
    LET x == Head(fields)
        k == Eval(x[2], env, w)
        v == Eval(x[3], env, k.w)
        more == IF Len(fields) = 1 THEN Len(k.v) ELSE 1
        kv == IF k.v = <<>> /\ Len(fields) > 1 THEN <<nil>> ELSE k.v
    IN  IF fields = <<>> \/ w.err THEN w ELSE
        CASE x[1] = "rec" ->
                IF v.w.err \/ k.v[1] = nil THEN Fail(v.w)
                ELSE Fill(Tail(fields), env,
                          [v.w EXCEPT !.tabs[t] = Update(@, k.v[1], First(v.v))], t, n)
          [] OTHER -> Fill(Tail(fields), env,
                           FoldLeft(LAMBDA z, m : [z EXCEPT !.tabs[t] = Update(@, <<"num", n + m - 1>>, kv[m])],
                                    k.w, [m \in 1 .. more |-> m]), t, n + 1)

Show(v) == IF v[1] \in {"tab", "fun"} THEN <<v[1]>> ELSE v

ResultsOf(fn, args, w) ==
    LET f == w.funs[fn[2]]
        rest == SubSeq(args, Len(f.params) + 1, Len(args))
        d == Declare(w, f.env, f.params, args)
        pairs == SelectSeq([n \in DOMAIN rest |-> <<<<"num", n>>, rest[n]>>], LAMBDA p : p[2] # nil)
        dots == Declare([d.w EXCEPT !.tabs = Append(@, Append(pairs, <<<<"str", <<"n">>>>, <<"num", Len(rest)>>>>))],
                        d.env, <<"...", "arg">>, <<rest, <<"tab", Len(w.tabs) + 1>>>>)
        r == IF f.dots THEN Exec(f.body, dots.env, dots.w) ELSE Exec(f.body, d.env, d.w)
    IN  IF w.err THEN [v |-> <<nil>>, w |-> w] ELSE
        CASE fn = <<"cfun">> -> [v |-> args, w |-> [w EXCEPT !.log = Append(@, [n \in DOMAIN args |-> Show(args[n])])]]
          [] fn[1] = "fun" -> [v |-> r.v, w |-> r.w]
          [] OTHER -> [v |-> <<nil>>, w |-> Fail(w)]

\* Targets: the variables of an assignment, tables and keys evaluated.
Targets(xs, env, w) ==
    LET x == Head(xs)
        t == Eval(x[2], env, w)
        k == Eval(x[3], env, t.w)
        here == IF x[1] = "name" THEN [v |-> <<x>>, w |-> w]
                ELSE [v |-> <<<<"index", First(t.v), First(k.v)>>>>, w |-> k.w]
        rest == Targets(Tail(xs), env, here.w)
    IN  IF xs = <<>> THEN [v |-> <<>>, w |-> w] ELSE [v |-> here.v \o rest.v, w |-> rest.w]

Store(target, v, env, w) ==
    IF w.err THEN w ELSE
    CASE target[1] = "name" ->
            IF Find(env, target[2]) = 0 THEN [w EXCEPT !.globals[target[2]] = v]
            ELSE [w EXCEPT !.cells[env[Find(env, target[2])][2]] = v]
      [] target[2][1] = "tab" /\ target[3] # nil ->
            [w EXCEPT !.tabs[target[2][2]] = Update(@, target[3], v)]
      [] OTHER -> Fail(w)

\* How a block ends ("next", "break" or "return" with the values v) and
\* the scope at its end, which the condition of repeat sees.
OutcomeOf(stats, env, w) ==
    LET st == Head(stats)
        Ends(r) == [how |-> r.how, v |-> r.v, w |-> r.w, env |-> env]
        Then(e, z) == Exec(Tail(stats), e, z)
        After(r) == IF r.how = "next" THEN Then(env, r.w) ELSE Ends(r)
    IN  IF w.err THEN [how |-> "return", v |-> <<>>, w |-> w, env |-> env]
        ELSE IF stats = <<>> THEN [how |-> "next", v |-> <<>>, w |-> w, env |-> env] ELSE
        CASE st[1] = "local" -> LET e == EvalList(st[3], env, w)
                                    d == Declare(e.w, env, st[2], e.v)
                                IN  Then(d.env, d.w)
          [] st[1] = "localfunction" ->
                LET d == Declare(w, env, <<st[2]>>, <<nil>>)
                    f == Eval(<<"function", st[3], st[4], st[5]>>, d.env, d.w)
                IN  Then(d.env, Store(<<"name", st[2]>>, f.v[1], d.env, f.w))
          [] st[1] = "assign" ->
                LET t == Targets(st[2], env, w)
                    e == EvalList(st[3], env, t.w)
                    Set(n, z) == Store(t.v[n], Nth(e.v, n), env, z)
                IN  Then(env, FoldRight(Set, [n \in DOMAIN t.v |-> n], e.w))
          [] st[1] = "do" -> After(Exec(st[2], env, w))
          [] st[1] = "while" -> After(While(st[2], st[3], env, w))
          [] st[1] = "repeat" -> After(Repeat(st[2], st[3], env, w))
          [] st[1] = "if" ->
                LET c == Eval(st[2][1][1], env, w)
                    rest == Tail(st[2])
                IN  IF ~IsFalse(First(c.v)) THEN After(Exec(st[2][1][2], env, c.w))
                    ELSE IF rest # <<>> THEN After(Exec(<<<<"if", rest, st[3]>>>>, env, c.w))
                    ELSE IF st[3] # <<>> THEN After(Exec(st[3][1], env, c.w))
                    ELSE Then(env, c.w)
          [] st[1] = "fornum" ->
                LET a == Eval(st[3], env, w)
                    b == Eval(st[4], env, a.w)
                    c == IF st[5] = <<>> THEN [v |-> <<<<"num", 1>>>>, w |-> b.w] ELSE Eval(st[5][1], env, b.w)
                IN  IF First(a.v)[1] = "num" /\ First(b.v)[1] = "num" /\ First(c.v)[1] = "num"
                    THEN After(ForNum(st[2], a.v[1][2], b.v[1][2], c.v[1][2], st[6], env, c.w))
                    ELSE Then(env, Fail(c.w))
          [] st[1] = "forin" ->
                LET e == EvalList(st[3], env, w)
                IN  After(ForIn(st[2], Nth(e.v, 1), Nth(e.v, 2), Nth(e.v, 3), st[4], env, e.w))
          [] st[1] = "break" -> [how |-> "break", v |-> <<>>, w |-> w, env |-> env]
          [] st[1] = "return" -> LET e == EvalList(st[2], env, w)
                                 IN  [how |-> "return", v |-> e.v, w |-> e.w, env |-> env]
          [] OTHER -> Then(env, Eval(st, env, w).w)

\* The loops: a break ends them normally, a return goes on outwards.
Again(r) == r.how = "next" /\ ~r.w.err
Left(r) == [r EXCEPT !.how = IF @ = "break" THEN "next" ELSE @]
Finished(w) == [how |-> "next", v |-> <<>>, w |-> w]

While(x, stats, env, w) ==
    LET c == Eval(x, env, w)
        r == Exec(stats, env, c.w)
    IN  IF IsFalse(First(c.v)) \/ c.w.err THEN Finished(c.w)
        ELSE IF Again(r) THEN While(x, stats, env, r.w) ELSE Left(r)

Repeat(stats, x, env, w) ==
    LET r == Exec(stats, env, w)
        c == Eval(x, r.env, r.w)
    IN  IF ~Again(r) THEN Left(r)
        ELSE IF IsFalse(First(c.v)) /\ ~c.w.err THEN Repeat(stats, x, env, c.w) ELSE Finished(c.w)

ForNum(name, n, limit, step, stats, env, w) ==
    LET d == Declare(w, env, <<name>>, <<<<"num", n>>>>)
        r == Exec(stats, d.env, d.w)
    IN  IF ~(IF step > 0 THEN n <= limit ELSE limit <= n) THEN Finished(w)
        ELSE IF Again(r) THEN ForNum(name, n + step, limit, step, stats, env, r.w) ELSE Left(r)

ForIn(names, fn, state, control, stats, env, w) ==
    LET c == CallValue(fn, <<state, control>>, w)
        d == Declare(c.w, env, names, c.v)
        r == Exec(stats, d.env, d.w)
    IN  IF c.w.err \/ First(c.v) = nil THEN Finished(c.w)
        ELSE IF Again(r) THEN ForIn(names, fn, state, First(c.v), stats, env, r.w) ELSE Left(r)

Do(what, x, y, w) ==
    CASE what = "eval" -> ValuesOf(x, y, w)
      [] what = "exec" -> OutcomeOf(x, y, w)
      [] what = "call" -> ResultsOf(x, y, w)

\* The meaning of a program whose globals start as g.
Shown(r) ==
    [err |-> r.w.err, log |-> r.w.log,
     globals |-> [n \in DOMAIN r.w.globals |-> Show(r.w.globals[n])],
     v |-> IF r.w.err THEN <<>> ELSE [n \in DOMAIN r.v |-> Show(r.v[n])]]
Meaning(stats, g) ==
    Shown(Exec(stats, <<<<"...", 1>>>>, [cells |-> <<<<>>>>, tabs |-> <<>>, funs |-> <<>>, globals |-> g,
                                         log |-> <<>>, err |-> FALSE]))
============================================================================
