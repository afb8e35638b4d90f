------------------------------- MODULE LuaVM -------------------------------
(***************************************************************************)
(* The virtual machine of the vendored Lua (luaV_execute, with the calls   *)
(* and returns of ldo.c and the upvalues of lfunc.c) on the code LuaCode   *)
(* generates: one step for each instruction.                               *)
(*                                                                         *)
(* stack is the one stack all functions share, ci the calls in progress,   *)
(* top the end of what the running function holds when it is not the whole *)
(* frame.  Closures, upvalues and tables are numbered; an upvalue is open  *)
(* (it names its stack slot) or holds its value.  Slots nothing has        *)
(* written hold Junk.  Values are numbers, non-empty strings, none of them *)
(* a numeral that arithmetic would convert, nil,                           *)
(* booleans, tables without metatables and functions.  The one C function, *)
(* f, reports its arguments and returns them.                              *)
(***************************************************************************)
EXTENDS LuaCode, TLC

CONSTANTS Programs,         \* the programs compiled, lists of statements
          Names,            \* the names of globals
          STACKSIZE         \* slots of the stack

VARIABLES prog,     \* the program
          st,       \* "run", "done" or "error"
          stack, ci, top,
          closures, upvals, tabs, globals,
          log       \* what f was called with

vars == <<prog, st, stack, ci, top, closures, upvals, tabs, globals, log>>
heap == <<closures, upvals, tabs, globals>>

Junk == <<"junk">>
F == <<"cfun">>
MULTRET == -1
l_isfalse(v) == v \in {Nil, Bool(FALSE)}
Dump(v) == IF v[1] \in {"tab", "fun"} THEN <<v[1]>> ELSE v

----------------------------------------------------------------------------
(* The running instruction. *)

frame == Last(ci)
proto == closures[stack[frame.func][2]].p
cl == closures[stack[frame.func][2]]
i == proto.code[frame.pc + 1]
R(n) == stack[frame.base + n]
K(n) == proto.k[n + 1]
RK(n) == IF ISK(n) THEN K(n - BITRK) ELSE R(n)
ra == frame.base + i.a

Upval(u) == IF upvals[u].open THEN stack[upvals[u].at] ELSE upvals[u].v

Op(ops) == st = "run" /\ ~frame.tfor /\ i.op \in ops
Goto(target) == ci' = [ci EXCEPT ![Len(ci)].pc = target]
Advance == Goto(frame.pc + 1)
SetRA(v) == stack' = [stack EXCEPT ![ra] = v] /\ Advance
Error == st' = "error" /\ UNCHANGED <<prog, stack, ci, top, closures, upvals, tabs, globals, log>>

----------------------------------------------------------------------------
(* Moves, constants, globals, tables. *)

Load ==
    /\ Op({"MOVE", "LOADK", "GETUPVAL", "GETGLOBAL", "NOT"})
    /\ SetRA(CASE i.op = "MOVE" -> R(i.b)
               [] i.op = "LOADK" -> K(i.b)
               [] i.op = "GETUPVAL" -> Upval(cl.upvals[i.b + 1])
               [] i.op = "GETGLOBAL" -> globals[K(i.b)[2][1]]
               [] i.op = "NOT" -> Bool(l_isfalse(R(i.b))))
    /\ UNCHANGED <<prog, st, top, heap, log>>

LoadBool ==
    /\ Op({"LOADBOOL"})
    /\ stack' = [stack EXCEPT ![ra] = Bool(i.b = 1)]
    /\ Goto(frame.pc + (IF i.c = 1 THEN 2 ELSE 1))
    /\ UNCHANGED <<prog, st, top, heap, log>>

LoadNil ==
    /\ Op({"LOADNIL"})
    /\ stack' = [n \in DOMAIN stack |-> IF n \in ra .. frame.base + i.b THEN Nil ELSE stack[n]]
    /\ Advance
    /\ UNCHANGED <<prog, st, top, heap, log>>

SetGlobal ==
    /\ Op({"SETGLOBAL"})
    /\ globals' = [globals EXCEPT ![K(i.b)[2][1]] = stack[ra]]
    /\ Advance
    /\ UNCHANGED <<prog, st, stack, top, closures, upvals, tabs, log>>

SetUpval ==
    /\ Op({"SETUPVAL"})
    /\ LET u == cl.upvals[i.b + 1]
       IN  IF upvals[u].open
           THEN stack' = [stack EXCEPT ![upvals[u].at] = stack[ra]] /\ UNCHANGED upvals
           ELSE upvals' = [upvals EXCEPT ![u].v = stack[ra]] /\ UNCHANGED stack
    /\ Advance
    /\ UNCHANGED <<prog, st, top, closures, tabs, globals, log>>

NewTable ==
    /\ Op({"NEWTABLE"})
    /\ tabs' = Append(tabs, <<>>)
    /\ SetRA(<<"tab", Len(tabs) + 1>>)
    /\ UNCHANGED <<prog, st, top, closures, upvals, globals, log>>

\* A table is the sequence of its keys and values in the order they came.
Get(t, key) == IF \E n \in DOMAIN t : t[n][1] = key
               THEN t[CHOOSE n \in DOMAIN t : t[n][1] = key][2] ELSE Nil
Put(t, key, v) == LET rest == SelectSeq(t, LAMBDA p : p[1] # key)
                  IN  IF v = Nil THEN rest ELSE Append(rest, <<key, v>>)
\* The border of the tables the programs make, which have no holes.
Border(t) == Len(SelectSeq(t, LAMBDA p : p[1][1] = "num"))

GetTable ==
    /\ Op({"GETTABLE", "SELF"})
    /\ LET t == R(i.b)
       IN  IF t[1] # "tab" THEN Error
           ELSE /\ stack' = IF i.op = "SELF"
                            THEN [stack EXCEPT ![ra + 1] = t, ![ra] = Get(tabs[t[2]], RK(i.c))]
                            ELSE [stack EXCEPT ![ra] = Get(tabs[t[2]], RK(i.c))]
                /\ Advance
                /\ UNCHANGED <<prog, st, top, heap, log>>

SetTable ==
    /\ Op({"SETTABLE"})
    /\ LET t == stack[ra]
       IN  IF t[1] # "tab" \/ RK(i.b) = Nil THEN Error
           ELSE /\ tabs' = [tabs EXCEPT ![t[2]] = Put(@, RK(i.b), RK(i.c))]
                /\ Advance
                /\ UNCHANGED <<prog, st, stack, top, closures, upvals, globals, log>>

SetList ==
    /\ Op({"SETLIST"})
    /\ LET n == IF i.b = 0 THEN top - ra - 1 ELSE i.b
           first == (i.c - 1) * LFIELDS_PER_FLUSH
           Item(t, j) == Put(t, Num(first + j), stack[ra + j])
       IN  tabs' = [tabs EXCEPT ![stack[ra][2]] =
                        FoldLeft(Item, @, [j \in 1 .. n |-> j])]
    /\ top' = IF i.b = 0 THEN frame.top ELSE top
    /\ Advance
    /\ UNCHANGED <<prog, st, stack, closures, upvals, globals, log>>

----------------------------------------------------------------------------
(* Arithmetic, comparisons and jumps. *)

ArithOp ==
    /\ Op({"ADD", "SUB", "MUL", "UNM"})
    /\ LET b == IF i.op = "UNM" THEN R(i.b) ELSE RK(i.b)
           c == IF i.op = "UNM" THEN b ELSE RK(i.c)
       IN  IF b[1] # "num" \/ c[1] # "num" THEN Error
           ELSE SetRA(Num(Arith(i.op, b[2], c[2]))) /\ UNCHANGED <<prog, st, top, heap, log>>

LenOp ==
    /\ Op({"LEN"})
    /\ LET b == R(i.b)
       IN  CASE b[1] = "tab" -> SetRA(Num(Border(tabs[b[2]]))) /\ UNCHANGED <<prog, st, top, heap, log>>
             [] b[1] = "str" -> SetRA(Num(Len(b[2]))) /\ UNCHANGED <<prog, st, top, heap, log>>
             [] OTHER -> Error

\* luaV_concat: the strings become one in the first register, and numbers
\* among the others become strings where they are.
Text(v) == IF v[1] = "num" THEN <<ToString(v[2])>> ELSE v[2]
Concat ==
    /\ Op({"CONCAT"})
    /\ LET rb == frame.base + i.b
           rc == frame.base + i.c
           joined == <<"str", FlattenSeq([n \in 1 .. rc - rb + 1 |-> Text(stack[rb + n - 1])])>>
       IN  IF \E n \in rb .. rc : stack[n][1] \notin {"str", "num"} THEN Error
           ELSE /\ stack' = [n \in DOMAIN stack |->
                        CASE n \in {ra, rb} -> joined
                          [] n \in rb + 1 .. rc /\ n # ra -> <<"str", Text(stack[n])>>
                          [] OTHER -> stack[n]]
                /\ Advance
                /\ UNCHANGED <<prog, st, top, heap, log>>

Jmp == /\ Op({"JMP"})
       /\ Goto(i.c)
       /\ UNCHANGED <<prog, st, stack, top, heap, log>>

\* The jump after a test is taken or skipped.
target == proto.code[frame.pc + 2].c
Branch(taken) == Goto(IF taken THEN target ELSE frame.pc + 2)

Compare ==
    /\ Op({"EQ", "LT", "LE"})
    /\ LET b == RK(i.b)
           c == RK(i.c)
           yes == CASE i.op = "EQ" -> b = c [] i.op = "LT" -> b[2] < c[2] [] OTHER -> b[2] <= c[2]
       IN  IF i.op # "EQ" /\ (b[1] # "num" \/ c[1] # "num") THEN Error
           ELSE Branch(yes = (i.a = 1)) /\ UNCHANGED <<prog, st, stack, top, heap, log>>

Test ==
    /\ Op({"TEST"})
    /\ Branch(l_isfalse(stack[ra]) # (i.c = 1))
    /\ UNCHANGED <<prog, st, stack, top, heap, log>>

TestSet ==
    /\ Op({"TESTSET"})
    /\ LET taken == l_isfalse(R(i.b)) # (i.c = 1)
       IN  /\ stack' = IF taken THEN [stack EXCEPT ![ra] = R(i.b)] ELSE stack
           /\ Branch(taken)
    /\ UNCHANGED <<prog, st, top, heap, log>>

ForPrep ==
    /\ Op({"FORPREP"})
    /\ IF \E n \in 0 .. 2 : stack[ra + n][1] # "num" THEN Error
       ELSE /\ stack' = [stack EXCEPT ![ra] = Num(@[2] - stack[ra + 2][2])]
            /\ Goto(i.c)
            /\ UNCHANGED <<prog, st, top, heap, log>>

ForLoop ==
    /\ Op({"FORLOOP"})
    /\ LET step == stack[ra + 2][2]
           idx == stack[ra][2] + step
           limit == stack[ra + 1][2]
       IN  IF IF 0 < step THEN idx <= limit ELSE limit <= idx
           THEN stack' = [stack EXCEPT ![ra] = Num(idx), ![ra + 3] = Num(idx)] /\ Goto(i.c)
           ELSE Advance /\ UNCHANGED stack
    /\ UNCHANGED <<prog, st, top, heap, log>>

----------------------------------------------------------------------------
(* Functions. *)

\* Mutant: every closure gets an upvalue of its own.
M_luaF_findupval(us, at) == [us |-> Append(us, [open |-> TRUE, at |-> at, v |-> Nil]), u |-> Len(us) + 1]

\* luaF_findupval: closures that capture the same slot share the upvalue.
luaF_findupval(us, at) ==
    IF \E u \in DOMAIN us : us[u].open /\ us[u].at = at
    THEN [us |-> us, u |-> CHOOSE u \in DOMAIN us : us[u].open /\ us[u].at = at]
    ELSE [us |-> Append(us, [open |-> TRUE, at |-> at, v |-> Nil]), u |-> Len(us) + 1]

luaF_close(level) ==
    [u \in DOMAIN upvals |->
        IF upvals[u].open /\ upvals[u].at >= level
        THEN [open |-> FALSE, at |-> 0, v |-> stack[upvals[u].at]] ELSE upvals[u]]

Close ==
    /\ Op({"CLOSE"})
    /\ upvals' = luaF_close(ra)
    /\ Advance
    /\ UNCHANGED <<prog, st, stack, top, closures, tabs, globals, log>>

Closure ==
    /\ Op({"CLOSURE"})
    /\ LET p == proto.p[i.b + 1]
           Capture(z, ins) ==
             IF ins.op = "GETUPVAL" THEN [z EXCEPT !.ups = Append(@, cl.upvals[ins.b + 1])]
             ELSE LET f == luaF_findupval(z.us, frame.base + ins.b)
                  IN  [us |-> f.us, ups |-> Append(z.ups, f.u)]
           c == FoldLeft(Capture, [us |-> upvals, ups |-> <<>>],
                         SubSeq(proto.code, frame.pc + 2, frame.pc + 1 + p.nups))
       IN  /\ upvals' = c.us
           /\ closures' = Append(closures, [p |-> p, upvals |-> c.ups])
           /\ stack' = [stack EXCEPT ![ra] = <<"fun", Len(closures) + 1>>]
           /\ Goto(frame.pc + 1 + p.nups)
    /\ UNCHANGED <<prog, st, top, tabs, globals, log>>

\* luaD_precall of a Lua function at func whose arguments end below end: the
\* new frame, and the stack with the parameters in place and the rest nil.
Call(s, ts, func, end, nresults) ==
    LET p == closures[s[func][2]].p
        nargs == end - func - 1
        actual == Max({nargs, p.numparams})
        isv == "IS" \in p.is_vararg
        arg == "NEEDSARG" \in p.is_vararg
        base == IF isv THEN func + 1 + actual ELSE func + 1
        Par(n) == IF n <= nargs THEN s[func + n] ELSE Nil
        extra == [n \in 1 .. Max({0, nargs - p.numparams}) |-> <<Num(n), s[func + p.numparams + n]>>]
        kept == SelectSeq(extra, LAMBDA e : e[2] # Nil)
        ftop == base + p.maxstacksize
    IN  [ci |-> [func |-> func, base |-> base, top |-> ftop, pc |-> 0, nresults |-> nresults, tfor |-> FALSE],
         tabs |-> IF arg THEN Append(ts, Append(kept, <<Str("n"), Num(Len(extra))>>)) ELSE ts,
         stack |-> [n \in DOMAIN s |->
            CASE isv /\ n \in func + 1 .. func + p.numparams -> Nil
              [] n \in base .. base + p.numparams - 1 -> Par(n - base + 1)
              [] arg /\ n = base + p.numparams -> <<"tab", Len(ts) + 1>>
              [] n \in base + p.numparams .. ftop - 1 -> Nil
              [] OTHER -> s[n]]]

\* luaD_poscall: the values from first up to end go where the function was.
luaD_poscall(s, res, first, end, wanted) ==
    LET n == IF wanted = MULTRET THEN end - first ELSE wanted
    IN  [stack |-> [m \in DOMAIN s |->
            IF m \in res .. res + n - 1
            THEN (IF first + m - res < end THEN s[first + m - res] ELSE Nil) ELSE s[m]],
         top |-> res + n]

\* The C function f on the arguments between func and end.
CallF(func, end, nresults) ==
    LET r == luaD_poscall(stack, func, func + 1, end, nresults)
    IN  /\ log' = Append(log, [n \in 1 .. end - func - 1 |-> Dump(stack[func + n])])
        /\ stack' = r.stack
        /\ top' = IF nresults = MULTRET THEN r.top ELSE frame.top
        /\ UNCHANGED <<prog, st, heap>>

argEnd == IF i.b # 0 THEN ra + i.b ELSE top

CallOp ==
    /\ Op({"CALL"})
    /\ LET c == Call(stack, tabs, ra, argEnd, i.c - 1)
       IN  CASE stack[ra] = F -> CallF(ra, argEnd, i.c - 1) /\ Advance
             [] stack[ra][1] = "fun" ->
                  /\ ci' = Append([ci EXCEPT ![Len(ci)].pc = @ + 1], c.ci)
                  /\ stack' = c.stack /\ top' = c.ci.top /\ tabs' = c.tabs
                  /\ UNCHANGED <<prog, st, closures, upvals, globals, log>>
             [] OTHER -> Error

\* The frame of the callee moves down over the caller's.
TailCall ==
    /\ Op({"TAILCALL"})
    /\ LET c == Call(stack, tabs, ra, argEnd, MULTRET)
           func == frame.func
           size == c.ci.top - ra
       IN  CASE stack[ra] = F -> CallF(ra, argEnd, MULTRET) /\ Advance
             [] stack[ra][1] = "fun" ->
                  /\ upvals' = luaF_close(frame.base)
                  /\ ci' = [ci EXCEPT ![Len(ci)] =
                        [c.ci EXCEPT !.func = func, !.base = func + c.ci.base - ra,
                                     !.top = func + size, !.nresults = frame.nresults]]
                  /\ stack' = [n \in DOMAIN stack |->
                        IF n \in func .. func + size - 1 THEN c.stack[n - func + ra] ELSE c.stack[n]]
                  /\ top' = func + size /\ tabs' = c.tabs
                  /\ UNCHANGED <<prog, st, closures, globals, log>>
             [] OTHER -> Error

Return ==
    /\ Op({"RETURN"})
    /\ LET end == IF i.b # 0 THEN ra + i.b - 1 ELSE top
           r == luaD_poscall(stack, frame.func, ra, end, frame.nresults)
       IN  /\ stack' = r.stack
           /\ upvals' = luaF_close(frame.base)
           /\ IF Len(ci) = 1
              THEN st' = "done" /\ top' = r.top /\ UNCHANGED ci
              ELSE /\ ci' = Front(ci)
                   /\ top' = IF frame.nresults = MULTRET THEN r.top ELSE ci[Len(ci) - 1].top
                   /\ UNCHANGED st
    /\ UNCHANGED <<prog, closures, tabs, globals, log>>

\* TFORLOOP calls the iterator and, when it has returned, looks at its first result.
TForLoop ==
    /\ Op({"TFORLOOP"})
    /\ LET cb == ra + 3
           s == [stack EXCEPT ![cb] = stack[ra], ![cb + 1] = stack[ra + 1], ![cb + 2] = stack[ra + 2]]
           c == Call(s, tabs, cb, cb + 3, i.c)
       IN  IF s[cb][1] # "fun" THEN Error
           ELSE /\ ci' = Append([ci EXCEPT ![Len(ci)].tfor = TRUE], c.ci)
                /\ stack' = c.stack /\ top' = c.ci.top /\ tabs' = c.tabs
                /\ UNCHANGED <<prog, st, closures, upvals, globals, log>>

TForTest ==
    /\ st = "run" /\ frame.tfor
    /\ LET more == stack[ra + 3] # Nil
       IN  /\ stack' = IF more THEN [stack EXCEPT ![ra + 2] = stack[ra + 3]] ELSE stack
           /\ ci' = [ci EXCEPT ![Len(ci)].tfor = FALSE,
                               ![Len(ci)].pc = IF more THEN target ELSE frame.pc + 2]
           /\ top' = frame.top
    /\ UNCHANGED <<prog, st, heap, log>>

VarArg ==
    /\ Op({"VARARG"})
    /\ LET n == frame.base - frame.func - proto.numparams - 1
           b == IF i.b = 0 THEN n ELSE i.b - 1
       IN  /\ stack' = [m \in DOMAIN stack |->
                IF m \in ra .. ra + b - 1
                THEN (IF m - ra < n THEN stack[frame.base - n + (m - ra)] ELSE Nil) ELSE stack[m]]
           /\ top' = IF i.b = 0 THEN ra + n ELSE top
    /\ Advance
    /\ UNCHANGED <<prog, st, heap, log>>

----------------------------------------------------------------------------
MainProto(f) ==
    [code |-> f.code, k |-> f.k, p |-> f.p, nups |-> Len(f.upvalues), numparams |-> 0,
     is_vararg |-> f.is_vararg, maxstacksize |-> f.maxstacksize]

Init ==
    /\ prog \in Programs
    /\ st = "compile"
    /\ stack = [n \in 1 .. STACKSIZE |-> Junk]
    /\ ci = <<>> /\ top = 2
    /\ closures = <<>> /\ upvals = <<>> /\ tabs = <<>>
    /\ globals = [n \in Names |-> IF n = "f" THEN F ELSE Nil]
    /\ log = <<>>

\* f_parser and the call of the chunk: the closure is the function at the bottom.
f_parser(f) ==
    LET base == 2
        end == base + f.maxstacksize
    IN  /\ closures' = <<[p |-> MainProto(f), upvals |-> <<>>]>>
        /\ stack' = [n \in DOMAIN stack |->
                CASE n = 1 -> <<"fun", 1>> [] n \in base .. end - 1 -> Nil [] OTHER -> stack[n]]
        /\ ci' = <<[func |-> 1, base |-> base, top |-> end, pc |-> 0, nresults |-> MULTRET, tfor |-> FALSE]>>
        /\ top' = end
        /\ st' = IF f.ok THEN "run" ELSE "assert"

Compile ==
    /\ st = "compile"
    /\ f_parser(luaY_parser(prog))
    /\ UNCHANGED <<prog, upvals, tabs, globals, log>>

Next ==
    \/ Compile
    \/ Load \/ LoadBool \/ LoadNil \/ SetGlobal \/ SetUpval \/ NewTable \/ GetTable \/ SetTable
    \/ SetList \/ ArithOp \/ LenOp \/ Concat \/ Jmp \/ Compare \/ Test \/ TestSet \/ ForPrep
    \/ ForLoop \/ Close \/ Closure \/ CallOp \/ TailCall \/ Return \/ TForLoop \/ TForTest \/ VarArg

Spec == Init /\ [][Next]_vars

----------------------------------------------------------------------------
(* Properties. *)

Lua == INSTANCE LuaMeaning

Agrees(m) ==
    /\ m.err = (st = "error")
    /\ m.log = log
    /\ m.globals = [n \in Names |-> Dump(globals[n])]
    /\ (st = "done" => m.v = [n \in 1 .. top - 1 |-> Dump(stack[n])])

\* A compiled program does what the language says the program does: the same
\* reports in the same order, the same error or the same results, and the same
\* globals (lcode.c and lparser.c against luaV_execute).
MeansTheSame ==
    st \in {"done", "error"} =>
        Agrees(Lua!Meaning(prog, [n \in Names |-> IF n = "f" THEN F ELSE Nil]))

\* The assertions of the code generator hold, and every function it makes is
\* one the checker of precompiled code accepts: registers inside the frame,
\* jumps inside the code, open results used at once (freereg, luaK_posfix,
\* enterblock, leaveblock, retstat, chunk, close_func, luaG_checkcode). The
\* machine's own hold too: between instructions the top is the frame's, except
\* where the next one takes an open number of values (luaG_checkopenop), and an
\* open upvalue names a slot of a function that is still running, each slot at
\* most once (luaF_close, luaF_findupval).
NoAssertFails ==
    /\ st # "assert"
    /\ (st = "run" /\ ~frame.tfor => top = frame.top \/ luaG_checkopenop(i))
    /\ \A u \in DOMAIN upvals : upvals[u].open =>
          /\ (st = "run" => \E k \in DOMAIN ci : upvals[u].at \in ci[k].base .. ci[k].top - 1)
          /\ \A v \in DOMAIN upvals : upvals[v].open /\ upvals[v].at = upvals[u].at => u = v
============================================================================
