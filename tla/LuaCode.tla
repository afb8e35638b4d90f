------------------------------ MODULE LuaCode ------------------------------
(***************************************************************************)
(* The code generator of the vendored Lua: lcode.c and the parts of        *)
(* lparser.c that drive it.  The parser is taken from where it has         *)
(* recognised an expression or a statement, so a program is a tree.        *)
(*                                                                         *)
(* A FuncState s holds the code so far (the instruction at pc is           *)
(* code[pc + 1]), the constants k, the functions p, the jumps jpc to the   *)
(* next instruction, lasttarget, the registers in use freereg, the names   *)
(* of the locals actvar, the frame size maxstacksize, the open blocks bl,  *)
(* the upvalues, and the FuncState of the enclosing function, prev.  A     *)
(* list of jumps, which the code threads through the jumps themselves, is  *)
(* the set of their pcs, and a jump holds its target, not the distance.    *)
(* ok remembers whether every lua_assert on the way held.                  *)
(***************************************************************************)
EXTENDS Integers, Sequences, SequencesExt, FiniteSetsExt

CONSTANTS MAXINDEXRK,           \* the largest constant that fits an operand
          LFIELDS_PER_FLUSH     \* items of a constructor stored at once

NO_JUMP == -1
NO_REG == 255
BITRK == 256
ISK(rk) == rk >= BITRK
RKASK(i) == i + BITRK

Nil == <<"nil">>
Bool(b) == <<"bool", b>>
Num(n) == <<"num", n>>
Str(n) == <<"str", <<n>>>>

Instr(op, a, b, c) == [op |-> op, a |-> a, b |-> b, c |-> c]
testTMode(i) == i.op \in {"EQ", "LT", "LE", "TEST", "TESTSET", "TFORLOOP"}

init_exp(k, i) == [k |-> k, info |-> i, aux |-> 0, v |-> Nil, t |-> {}, f |-> {}]
hasjumps(e) == e.t # e.f
isnumeral(e) == e.k = "VKNUM" /\ ~hasjumps(e)
hasmultret(e) == e.k \in {"VCALL", "VVARARG"}
pc(s) == Len(s.code)
nactvar(s) == Len(s.actvar)
Checked(s, b) == [s EXCEPT !.ok = @ /\ b]

open_func(prev) ==
    [code |-> <<>>, k |-> <<>>, p |-> <<>>, jpc |-> {}, lasttarget |-> -1,
     freereg |-> 0, actvar |-> <<>>, maxstacksize |-> 2, bl |-> <<>>,
     upvalues |-> <<>>, numparams |-> 0, is_vararg |-> {}, prev |-> prev, ok |-> TRUE]

----------------------------------------------------------------------------
(* Instructions and jumps. *)

\* getjumpcontrol, patchtestreg and patchlistaux on a whole list: a jump after
\* a TESTSET goes to vtarget with its value in reg, any other to dtarget.
Controlled(s, j) == j >= 1 /\ testTMode(s.code[j])
TestsSet(s, j) == Controlled(s, j) /\ s.code[j].op = "TESTSET"
patchtestreg(i, reg) ==
    IF reg # NO_REG /\ reg # i.b THEN [i EXCEPT !.a = reg] ELSE Instr("TEST", i.b, 0, i.c)
patchlistaux(s, list, vtarget, reg, dtarget) ==
    IF list = {} THEN s ELSE
    [s EXCEPT !.code = [i \in DOMAIN @ |->
        IF i - 1 \in list THEN [@[i] EXCEPT !.c = IF TestsSet(s, i - 1) THEN vtarget ELSE dtarget]
        ELSE IF i \in list /\ TestsSet(s, i) THEN patchtestreg(@[i], reg) ELSE @[i]]]

need_value(s, list) == \E j \in list : ~TestsSet(s, j)
removevalues(s, list) ==
    IF list = {} THEN s ELSE
    [s EXCEPT !.code = [i \in DOMAIN @ |->
        IF i \in list /\ TestsSet(s, i) THEN patchtestreg(@[i], NO_REG) ELSE @[i]]]

dischargejpc(s) == [patchlistaux(s, s.jpc, pc(s), NO_REG, pc(s)) EXCEPT !.jpc = {}]
luaK_code(s, i) == LET d == dischargejpc(s) IN [d EXCEPT !.code = Append(@, i)]
luaK_codeABC(s, op, a, b, c) == luaK_code(s, Instr(op, a, b, c))

luaK_getlabel(s) == [s EXCEPT !.lasttarget = pc(s)]
luaK_patchtohere(s, list) == [luaK_getlabel(s) EXCEPT !.jpc = @ \union list]
luaK_patchlist(s, list, target) ==
    IF target = pc(s) THEN luaK_patchtohere(s, list)
    ELSE patchlistaux(s, list, target, NO_REG, target)

\* luaK_jump: the jumps to here are held and go where this one will go.
luaK_jump(s) == [s |-> luaK_codeABC([s EXCEPT !.jpc = {}], "JMP", 0, 0, NO_JUMP),
                 list |-> {pc(s)} \union s.jpc]
condjump(s, op, a, b, c) == luaK_jump(luaK_codeABC(s, op, a, b, c))
luaK_ret(s, first, nret) == luaK_codeABC(s, "RETURN", first, nret + 1, 0)

\* luaK_nil: one LOADNIL for neighbouring registers, unless a jump may land
\* between the two, and none for registers that are still clean.
luaK_nil(s, from, n) ==
    LET prev == s.code[pc(s)]
    IN  IF pc(s) > s.lasttarget /\ pc(s) = 0 /\ from >= nactvar(s) THEN s
        ELSE IF /\ pc(s) > s.lasttarget /\ pc(s) > 0 /\ prev.op = "LOADNIL"
                /\ prev.a <= from /\ from <= prev.b + 1
        THEN [s EXCEPT !.code[pc(s)].b = Max({@, from + n - 1})]
        ELSE luaK_codeABC(s, "LOADNIL", from, from + n - 1, 0)

----------------------------------------------------------------------------
(* Registers and constants. *)

luaK_checkstack(s, n) == [s EXCEPT !.maxstacksize = Max({@, s.freereg + n})]
luaK_reserveregs(s, n) == [luaK_checkstack(s, n) EXCEPT !.freereg = @ + n]
freereg(s, reg) ==
    IF ~ISK(reg) /\ reg >= nactvar(s)
    THEN [Checked(s, reg = s.freereg - 1) EXCEPT !.freereg = @ - 1] ELSE s
freeexp(s, e) == IF e.k = "VNONRELOC" THEN freereg(s, e.info) ELSE s

\* addk: a constant is entered once.
addk(s, v) ==
    IF \E i \in DOMAIN s.k : s.k[i] = v
    THEN [s |-> s, i |-> (CHOOSE i \in DOMAIN s.k : s.k[i] = v) - 1]
    ELSE [s |-> [s EXCEPT !.k = Append(@, v)], i |-> Len(s.k)]

----------------------------------------------------------------------------
(* Expressions: where the value is, and the jumps that leave with it.        *)

\* What is known of an expression goes with the state its code is in.
At(s, e) == [s |-> s, e |-> e]

luaK_setreturns(d, nresults) ==
    CASE d.e.k = "VCALL" -> [d.s EXCEPT !.code[d.e.info + 1].c = nresults + 1]
      [] d.e.k = "VVARARG" -> luaK_reserveregs([d.s EXCEPT !.code[d.e.info + 1].b = nresults + 1,
                                                           !.code[d.e.info + 1].a = d.s.freereg], 1)
      [] OTHER -> d.s
luaK_setmultret(d) == luaK_setreturns(d, -1)
luaK_setoneret(d) ==
    CASE d.e.k = "VCALL" -> [d EXCEPT !.e.k = "VNONRELOC", !.e.info = d.s.code[d.e.info + 1].a]
      [] d.e.k = "VVARARG" -> [d EXCEPT !.s.code[d.e.info + 1].b = 2, !.e.k = "VRELOCABLE"]
      [] OTHER -> d

luaK_dischargevars(d) ==
    LET Reloc(z) == At(z, [d.e EXCEPT !.k = "VRELOCABLE", !.info = pc(z) - 1])
    IN  CASE d.e.k = "VLOCAL" -> [d EXCEPT !.e.k = "VNONRELOC"]
          [] d.e.k = "VUPVAL" -> Reloc(luaK_codeABC(d.s, "GETUPVAL", 0, d.e.info, 0))
          [] d.e.k = "VGLOBAL" -> Reloc(luaK_codeABC(d.s, "GETGLOBAL", 0, d.e.info, 0))
          [] d.e.k = "VINDEXED" -> Reloc(luaK_codeABC(freereg(freereg(d.s, d.e.aux), d.e.info),
                                                      "GETTABLE", 0, d.e.info, d.e.aux))
          [] OTHER -> luaK_setoneret(d)

discharge2reg_load(x, reg) ==
    LET num == addk(x.s, x.e.v)
    IN  CASE x.e.k = "VNIL" -> luaK_nil(x.s, reg, 1)
          [] x.e.k \in {"VTRUE", "VFALSE"} ->
                luaK_codeABC(x.s, "LOADBOOL", reg, IF x.e.k = "VTRUE" THEN 1 ELSE 0, 0)
          [] x.e.k = "VK" -> luaK_codeABC(x.s, "LOADK", reg, x.e.info, 0)
          [] x.e.k = "VKNUM" -> luaK_codeABC(num.s, "LOADK", reg, num.i, 0)
          [] x.e.k = "VRELOCABLE" -> [x.s EXCEPT !.code[x.e.info + 1].a = reg]
          [] x.e.k = "VNONRELOC" /\ x.e.info # reg -> luaK_codeABC(x.s, "MOVE", reg, x.e.info, 0)
          [] OTHER -> x.s
discharge2reg_at(x, reg) ==
    At(discharge2reg_load(x, reg),
       IF x.e.k = "VJMP" THEN x.e ELSE [x.e EXCEPT !.k = "VNONRELOC", !.info = reg])
discharge2reg(d, reg) == discharge2reg_at(luaK_dischargevars(d), reg)

discharge2anyreg(d) ==
    IF d.e.k = "VNONRELOC" THEN d
    ELSE discharge2reg(At(luaK_reserveregs(d.s, 1), d.e), d.s.freereg)

code_label(s, a, b, jump) == luaK_codeABC(luaK_getlabel(s), "LOADBOOL", a, b, jump)

\* exp2reg: the value in reg on every path, with loads of true and false for
\* the jumps that do not carry it.
exp2reg_loads(fj, reg) ==
    luaK_patchtohere(code_label(code_label(fj.s, reg, 0, 1), reg, 1, 0), fj.list)
exp2reg_patch(z, t, f, reg, p) ==
    patchlistaux(patchlistaux(z, f, pc(z), reg, p), t, pc(z), reg, p + 1)
exp2reg_join(s, t, f, fj, reg) ==
    IF t = f THEN s
    ELSE exp2reg_patch(luaK_getlabel(IF need_value(s, t) \/ need_value(s, f) THEN exp2reg_loads(fj, reg) ELSE s),
                       t, f, reg, pc(fj.s))
exp2reg_value(x, reg) ==
    exp2reg_join(x.s, IF x.e.k = "VJMP" THEN x.e.t \union {x.e.info} ELSE x.e.t, x.e.f,
                 IF x.e.k = "VJMP" THEN [s |-> x.s, list |-> {}] ELSE luaK_jump(x.s), reg)
exp2reg(d, reg) ==
    At(exp2reg_value(discharge2reg(d, reg), reg), [init_exp("VNONRELOC", reg) EXCEPT !.v = d.e.v])

exp2freereg(x) == exp2reg(x, x.s.freereg - 1)
exp2nextreg_reserve(x) == [x EXCEPT !.s = luaK_reserveregs(freeexp(x.s, x.e), 1)]
luaK_exp2nextreg(d) == exp2freereg(exp2nextreg_reserve(luaK_dischargevars(d)))

exp2anyreg_at(x) ==
    IF x.e.k = "VNONRELOC" /\ ~hasjumps(x.e) THEN x
    ELSE IF x.e.k = "VNONRELOC" /\ x.e.info >= nactvar(x.s) THEN exp2reg(x, x.e.info)
    ELSE luaK_exp2nextreg(x)
luaK_exp2anyreg(d) == exp2anyreg_at(luaK_dischargevars(d))

luaK_exp2val(d) == IF hasjumps(d.e) THEN luaK_exp2anyreg(d) ELSE luaK_dischargevars(d)

\* luaK_exp2RK: rk is the operand, a register or a constant that fits.
ConstantOf(e) == CASE e.k = "VTRUE" -> Bool(TRUE) [] e.k = "VFALSE" -> Bool(FALSE)
                   [] e.k = "VNIL" -> Nil [] OTHER -> e.v
exp2RK_k(x, c) == [s |-> c.s, e |-> [x.e EXCEPT !.k = "VK", !.info = c.i], rk |-> RKASK(c.i)]
exp2RK_reg(x) == [s |-> x.s, e |-> x.e, rk |-> x.e.info]
exp2RK_at(x) ==
    IF x.e.k \in {"VKNUM", "VTRUE", "VFALSE", "VNIL"} /\ Len(x.s.k) <= MAXINDEXRK
    THEN exp2RK_k(x, addk(x.s, ConstantOf(x.e)))
    ELSE IF x.e.k = "VK" /\ x.e.info <= MAXINDEXRK
    THEN [s |-> x.s, e |-> x.e, rk |-> RKASK(x.e.info)]
    ELSE exp2RK_reg(luaK_exp2anyreg(x))
luaK_exp2RK(d) == exp2RK_at(luaK_exp2val(d))

luaK_storevar(d, var) ==
    LET Set(op, x) == freeexp(luaK_codeABC(x.s, op, x.e.info, var.info, 0), x.e)
        SetField(x) == freeexp(luaK_codeABC(x.s, "SETTABLE", var.info, var.aux, x.rk), x.e)
    IN  CASE var.k = "VLOCAL" -> exp2reg(At(freeexp(d.s, d.e), d.e), var.info).s
          [] var.k \in {"VUPVAL", "VGLOBAL"} ->
                Set(IF var.k = "VUPVAL" THEN "SETUPVAL" ELSE "SETGLOBAL", luaK_exp2anyreg(d))
          [] var.k = "VINDEXED" -> SetField(luaK_exp2RK(d))

----------------------------------------------------------------------------
(* Operators. *)

\* luaK_self: the method and its object in two registers.
self_method(e, func, x) ==
    At(freeexp(luaK_codeABC(x.s, "SELF", func, e.info, x.rk), x.e),
       [e EXCEPT !.k = "VNONRELOC", !.info = func])
self_object(e, z, key) == self_method(e, z.freereg, luaK_exp2RK(At(luaK_reserveregs(z, 2), key)))
self_at(x, key) == self_object(x.e, freeexp(x.s, x.e), key)
luaK_self(d, key) == self_at(luaK_exp2anyreg(d), key)

luaK_indexed(d, t) ==
    LET Index(x) == At(x.s, [t EXCEPT !.k = "VINDEXED", !.aux = x.rk]) IN Index(luaK_exp2RK(d))

luaK_setlist(s, base, nelems, tostore) ==
    [luaK_codeABC(s, "SETLIST", base, IF tostore = -1 THEN 0 ELSE tostore,
                  (nelems - 1) \div LFIELDS_PER_FLUSH + 1) EXCEPT !.freereg = base + 1]

Not(a) == IF a = 0 THEN 1 ELSE 0
invertjump(s, e) == [Checked(s, s.code[e.info].op \in {"EQ", "LT", "LE"})
                        EXCEPT !.code[e.info].a = Not(@)]

jumponcond(d, cond) ==
    LET ie == d.s.code[d.e.info + 1]
        TestSet(x) == condjump(freeexp(x.s, x.e), "TESTSET", NO_REG, x.e.info, cond)
    IN  IF d.e.k = "VRELOCABLE" /\ ie.op = "NOT"
        THEN condjump([d.s EXCEPT !.code = Front(@)], "TEST", ie.b, 0, Not(cond))
        ELSE TestSet(discharge2anyreg(d))

\* luaK_goiftrue and luaK_goiffalse: fall through on one outcome and leave
\* with the value on the other.
goiftrue_jump(x) == CASE x.e.k \in {"VK", "VKNUM", "VTRUE"} -> [s |-> x.s, list |-> {}]
                      [] x.e.k = "VJMP" -> [s |-> invertjump(x.s, x.e), list |-> {x.e.info}]
                      [] OTHER -> jumponcond(x, 0)
goiftrue_leave(e, j) == At(luaK_patchtohere(j.s, e.t), [e EXCEPT !.f = @ \union j.list, !.t = {}])
goiftrue_at(x) == goiftrue_leave(x.e, goiftrue_jump(x))
luaK_goiftrue(d) == goiftrue_at(luaK_dischargevars(d))

goiffalse_jump(x) == CASE x.e.k \in {"VNIL", "VFALSE"} -> [s |-> x.s, list |-> {}]
                       [] x.e.k = "VJMP" -> [s |-> x.s, list |-> {x.e.info}]
                       [] OTHER -> jumponcond(x, 1)
goiffalse_leave(e, j) == At(luaK_patchtohere(j.s, e.f), [e EXCEPT !.t = @ \union j.list, !.f = {}])
goiffalse_at(x) == goiffalse_leave(x.e, goiffalse_jump(x))
luaK_goiffalse(d) == goiffalse_at(luaK_dischargevars(d))

\* codenot: constants at once, jumps by swapping the lists, whose values are
\* no longer those of the operand.
RelocAt(z, e) == At(z, [e EXCEPT !.k = "VRELOCABLE", !.info = pc(z) - 1])
codenot_reg(x) == RelocAt(luaK_codeABC(freeexp(x.s, x.e), "NOT", 0, x.e.info, 0), x.e)
codenot_invert(x) == CASE x.e.k \in {"VNIL", "VFALSE"} -> [x EXCEPT !.e.k = "VTRUE"]
                       [] x.e.k \in {"VK", "VKNUM", "VTRUE"} -> [x EXCEPT !.e.k = "VFALSE"]
                       [] x.e.k = "VJMP" -> At(invertjump(x.s, x.e), x.e)
                       [] OTHER -> codenot_reg(discharge2anyreg(x))
codenot_swap(x) ==
    At(removevalues(removevalues(x.s, x.e.t), x.e.f), [x.e EXCEPT !.t = x.e.f, !.f = x.e.t])
codenot(d) == codenot_swap(codenot_invert(luaK_dischargevars(d)))

Arith(op, v, w) ==
    CASE op = "ADD" -> v + w [] op = "SUB" -> v - w [] op = "MUL" -> v * w [] op = "UNM" -> -v
constfolding(op, e1, e2) ==
    isnumeral(e1) /\ isnumeral(e2) /\ op \in {"ADD", "SUB", "MUL", "UNM"}

\* codearith: folded if both are numerals, else operands freed from the top; d
\* is the second operand.
codearith_free(o1, o2) == IF o1.rk > o2.rk THEN freeexp(freeexp(o1.s, o1.e), o2.e)
                                           ELSE freeexp(freeexp(o1.s, o2.e), o1.e)
codearith_code(op, o1, o2) ==
    RelocAt(luaK_codeABC(codearith_free(o1, o2), op, 0, o1.rk, o2.rk), o1.e)
codearith_first(op, e1, o2) == codearith_code(op, luaK_exp2RK(At(o2.s, e1)), o2)
codearith(d, op, e1) ==
    IF constfolding(op, e1, d.e)
    THEN At(d.s, [e1 EXCEPT !.v = Num(Arith(op, e1.v[2], d.e.v[2]))])
    ELSE codearith_first(op, e1, IF op \in {"UNM", "LEN"} THEN [s |-> d.s, e |-> d.e, rk |-> 0] ELSE luaK_exp2RK(d))

\* codecomp: > and >= are < and <= with the operands exchanged.
codecomp_jump(e, j) == At(j.s, [e EXCEPT !.k = "VJMP", !.info = pc(j.s) - 1])
codecomp_code(op, cond, swap, o1, o2) ==
    codecomp_jump(o1.e, condjump(freeexp(freeexp(o2.s, o2.e), o1.e), op, IF swap THEN 1 ELSE cond,
                                 IF swap THEN o2.rk ELSE o1.rk, IF swap THEN o1.rk ELSE o2.rk))
codecomp_second(op, cond, o1, e2) ==
    codecomp_code(op, cond, cond = 0 /\ op # "EQ", o1, luaK_exp2RK(At(o1.s, e2)))
codecomp(d, op, cond, e1) == codecomp_second(op, cond, luaK_exp2RK(At(d.s, e1)), d.e)

prefix_arith(x, op) == codearith(At(x.s, [init_exp("VKNUM", 0) EXCEPT !.v = Num(0)]), op, x.e)
luaK_prefix(d, op) ==
    IF op = "not" THEN codenot(d)
    ELSE prefix_arith(IF op = "minus" /\ isnumeral(d.e) THEN d ELSE luaK_exp2anyreg(d),
                      IF op = "minus" THEN "UNM" ELSE "LEN")

luaK_infix(d, op) ==
    LET Kept(x) == At(x.s, x.e)
    IN  CASE op = "and" -> luaK_goiftrue(d)
          [] op = "or" -> luaK_goiffalse(d)
          [] op = "concat" -> luaK_exp2nextreg(d)
          [] op \in {"add", "sub", "mul"} /\ isnumeral(d.e) -> d
          [] OTHER -> Kept(luaK_exp2RK(d))

ArithCodes == [add |-> "ADD", sub |-> "SUB", mul |-> "MUL"]
CompCodes == [eq |-> "EQ", ne |-> "EQ", lt |-> "LT", gt |-> "LT", le |-> "LE", ge |-> "LE"]

posfix_logic(x, op, e1) ==
    IF op = "and" THEN At(Checked(x.s, e1.t = {}), [x.e EXCEPT !.f = @ \union e1.f])
                  ELSE At(Checked(x.s, e1.f = {}), [x.e EXCEPT !.t = @ \union e1.t])
\* a .. (b .. c) is one instruction for the three.
posfix_concat(x, e1) ==
    IF x.e.k = "VRELOCABLE" /\ x.s.code[x.e.info + 1].op = "CONCAT"
    THEN At([Checked(freeexp(x.s, e1), e1.info = x.s.code[x.e.info + 1].b - 1)
                EXCEPT !.code[x.e.info + 1].b = e1.info],
            [e1 EXCEPT !.k = "VRELOCABLE", !.info = x.e.info])
    ELSE codearith(luaK_exp2nextreg(x), "CONCAT", e1)
luaK_posfix(d, op, e1) ==
    CASE op \in {"and", "or"} -> posfix_logic(luaK_dischargevars(d), op, e1)
      [] op = "concat" -> posfix_concat(luaK_exp2val(d), e1)
      [] op \in DOMAIN ArithCodes -> codearith(d, ArithCodes[op], e1)
      [] op \in DOMAIN CompCodes ->
            codecomp(d, CompCodes[op], IF op \in {"eq", "lt", "le"} THEN 1 ELSE 0, e1)

----------------------------------------------------------------------------
(* Names and scopes. *)

searchvar(s, n) == SelectLastInSubSeq(s.actvar, 1, Len(s.actvar), LAMBDA m : m = n) - 1

\* markupval: the block of the local at level closes it when it is left.
markupval(s, level) ==
    LET b == SelectLastInSubSeq(s.bl, 1, Len(s.bl), LAMBDA bl : bl.nactvar <= level)
    IN  IF b = 0 THEN s ELSE [s EXCEPT !.bl[b].upval = TRUE]

indexupvalue(s, u) ==
    IF \E i \in DOMAIN s.upvalues : s.upvalues[i] = u
    THEN [s |-> s, i |-> (CHOOSE i \in DOMAIN s.upvalues : s.upvalues[i] = u) - 1]
    ELSE [s |-> [s EXCEPT !.upvalues = Append(@, u)], i |-> Len(s.upvalues)]

RECURSIVE singlevaraux(_, _, _)
singlevaraux(s, n, base) ==
    LET v == searchvar(s, n)
        Indexed(x) == At(x.s, init_exp("VUPVAL", x.i))
        Outer(up) ==
            IF up.e.k = "VGLOBAL" THEN At(s, up.e)
            ELSE Indexed(indexupvalue([s EXCEPT !.prev = <<up.s>>], [k |-> up.e.k, info |-> up.e.info]))
    IN  IF v >= 0 THEN At(IF base THEN s ELSE markupval(s, v), init_exp("VLOCAL", v))
        ELSE IF s.prev = <<>> THEN At(s, init_exp("VGLOBAL", NO_REG))
        ELSE Outer(singlevaraux(s.prev[1], n, FALSE))

singlevar(s, n) ==
    LET Named(e, c) == At(c.s, [e EXCEPT !.info = c.i])
        Var(v) == IF v.e.k = "VGLOBAL" THEN Named(v.e, addk(v.s, Str(n))) ELSE v
    IN  Var(singlevaraux(s, n, TRUE))

adjustlocalvars(s, names) == [s EXCEPT !.actvar = @ \o names]

enterblock(s, isbreakable) ==
    Checked([s EXCEPT !.bl = Append(@, [breaklist |-> {}, nactvar |-> nactvar(s),
                                        isbreakable |-> isbreakable, upval |-> FALSE])],
            s.freereg = nactvar(s))

\* leaveblock: the locals of the block go, after a CLOSE if a function keeps one.
leaveblock(s) ==
    LET bl == Last(s.bl)
        z == [s EXCEPT !.bl = Front(@), !.actvar = SubSeq(@, 1, bl.nactvar)]
        c == IF bl.upval THEN luaK_codeABC(z, "CLOSE", bl.nactvar, 0, 0) ELSE z
    IN  luaK_patchtohere([Checked(c, ~(bl.isbreakable /\ bl.upval)) EXCEPT !.freereg = bl.nactvar],
                         bl.breaklist)

\* pushclosure: after CLOSURE, one instruction for each upvalue says where it is.
pushclosure(s, func) ==
    LET proto == [code |-> func.code, k |-> func.k, p |-> func.p, nups |-> Len(func.upvalues),
                  numparams |-> func.numparams, is_vararg |-> func.is_vararg,
                  maxstacksize |-> func.maxstacksize]
        z == luaK_codeABC([s EXCEPT !.p = Append(@, proto), !.ok = @ /\ func.ok],
                          "CLOSURE", 0, Len(s.p), 0)
        Where(r, u) == luaK_codeABC(r, IF u.k = "VLOCAL" THEN "MOVE" ELSE "GETUPVAL", 0, u.info, 0)
    IN  [s |-> FoldLeft(Where, z, func.upvalues), e |-> init_exp("VRELOCABLE", pc(z) - 1)]

----------------------------------------------------------------------------
(* The checker a function passes when it is complete.  ArgModes has the      *)
(* modes of the operands B and C: N none, U any, R register, K register or   *)
(* constant, X a constant in Bx, J a jump.                                   *)

ArgModes == [MOVE |-> "RN", LOADK |-> "XN", LOADBOOL |-> "UU", LOADNIL |-> "RN",
    GETUPVAL |-> "UN", GETGLOBAL |-> "XN", GETTABLE |-> "RK", SETGLOBAL |-> "XN",
    SETUPVAL |-> "UN", SETTABLE |-> "KK", NEWTABLE |-> "UU", SELF |-> "RK",
    ADD |-> "KK", SUB |-> "KK", MUL |-> "KK", UNM |-> "RN", NOT |-> "RN", LEN |-> "RN",
    CONCAT |-> "RR", JMP |-> "NJ", EQ |-> "KK", LT |-> "KK", LE |-> "KK", TEST |-> "RU",
    TESTSET |-> "RU", CALL |-> "UU", TAILCALL |-> "UU", RETURN |-> "UN", FORLOOP |-> "NJ",
    FORPREP |-> "NJ", TFORLOOP |-> "NU", SETLIST |-> "UU", CLOSE |-> "NN", CLOSURE |-> "UN",
    VARARG |-> "UN"]
BModes == [R |-> {"RN", "RK", "RR", "RU"}, K |-> {"KK"}, N |-> {"NU", "NN", "NJ"}, X |-> {"XN"}]
CModes == [R |-> {"RR"}, K |-> {"RK", "KK"}, N |-> {"RN", "XN", "UN", "NN"}]

luaG_checkopenop(i) == i.op \in {"CALL", "TAILCALL", "RETURN", "SETLIST"} /\ i.b = 0

precheck(f) ==
    /\ f.numparams + (IF "HASARG" \in f.is_vararg THEN 1 ELSE 0) <= f.maxstacksize
    /\ "NEEDSARG" \in f.is_vararg => "HASARG" \in f.is_vararg
    /\ f.code # <<>> /\ Last(f.code).op = "RETURN"

\* symbexec without a register to trace looks at every instruction by itself.
symbexec(f, n) ==
    LET i == f.code[n]
        next == f.code[Min({n + 1, Len(f.code)})]
        mode == ArgModes[i.op]
        Reg(r) == r < f.maxstacksize
        RegOrK(r) == IF ISK(r) THEN r - BITRK < Len(f.k) ELSE Reg(r)
    IN  /\ Reg(i.a)
        /\ (mode \in BModes.R => Reg(i.b)) /\ (mode \in CModes.R => Reg(i.c))
        /\ (mode \in BModes.K => RegOrK(i.b)) /\ (mode \in CModes.K => RegOrK(i.c))
        /\ (mode \in BModes.N => i.b = 0) /\ (mode \in CModes.N => i.c = 0)
        /\ (mode \in BModes.X => i.b < Len(f.k))
        /\ (mode = "NJ" => i.c \in 0 .. Len(f.code) - 1)
        /\ (testTMode(i) => next.op = "JMP")
        /\ CASE i.op \in {"GETUPVAL", "SETUPVAL"} -> i.b < Len(f.upvalues)
             [] i.op \in {"GETGLOBAL", "SETGLOBAL"} -> f.k[i.b + 1][1] = "str"
             [] i.op = "SELF" -> Reg(i.a + 1)
             [] i.op = "CONCAT" -> i.b < i.c
             [] i.op = "TFORLOOP" -> i.c >= 1 /\ Reg(i.a + 2 + i.c)
             [] i.op \in {"FORLOOP", "FORPREP"} -> Reg(i.a + 3)
             [] i.op \in {"CALL", "TAILCALL"} ->
                    /\ i.b # 0 => Reg(i.a + i.b - 1)
                    /\ IF i.c = 0 THEN luaG_checkopenop(next) ELSE i.c # 1 => Reg(i.a + i.c - 2)
             [] i.op = "RETURN" -> i.b > 1 => Reg(i.a + i.b - 2)
             [] i.op = "SETLIST" -> i.b > 0 => Reg(i.a + i.b)
             [] i.op = "CLOSURE" -> i.b < Len(f.p) 
                                    /\ \A j \in 1 .. f.p[i.b + 1].nups : f.code[n + j].op \in {"GETUPVAL", "MOVE"}
             [] i.op = "VARARG" -> /\ "IS" \in f.is_vararg /\ "NEEDSARG" \notin f.is_vararg
                                   /\ IF i.b = 0 THEN luaG_checkopenop(next) ELSE Reg(i.a + i.b - 2)
             [] OTHER -> TRUE

luaG_checkcode(f) ==
    precheck(f) /\ \A n \in DOMAIN f.code : symbexec(f, n)

close_func(s) ==
    LET z == luaK_ret([s EXCEPT !.actvar = <<>>], 0, 0)
    IN  Checked(z, luaG_checkcode(z) /\ s.bl = <<>>)

\* parlist: "..." comes last and brings the local arg with it.
parlist(s, params, dots) ==
    LET names == IF dots THEN Append(params, "arg") ELSE params
        z == adjustlocalvars(s, names)
    IN  luaK_reserveregs([z EXCEPT !.is_vararg = IF dots THEN {"IS", "HASARG", "NEEDSARG"} ELSE {},
                                   !.numparams = Len(params)], Len(names))

----------------------------------------------------------------------------
(* The parser on expressions. *)

Unary == {"not", "minus", "len"}
Binary == {"and", "or", "concat", "add", "sub", "mul", "eq", "ne", "lt", "gt", "le", "ge"}

RECURSIVE parse(_, _, _), explist1(_, _), constructor(_, _, _, _), chunk(_, _)

expr(s, x) == parse(s, x, FALSE)

\* explist1: all but the last expression in registers.
explist1_next(n, xs) == IF n.s.ok THEN explist1(n.s, xs) ELSE n
explist1_rest(d, xs) == IF xs = <<>> THEN d ELSE explist1_next(luaK_exp2nextreg(d), xs)
explist1(s, xs) == explist1_rest(expr(s, Head(xs)), Tail(xs))

\* funcargs: the call takes its arguments from the registers after the function.
funcargs_done(c, base) == At([c EXCEPT !.freereg = base + 1], init_exp("VCALL", pc(c) - 1))
funcargs_call(z, f, open) ==
    funcargs_done(luaK_codeABC(Checked(z, f.k = "VNONRELOC"), "CALL", f.info,
                               IF open THEN 0 ELSE z.freereg - f.info, 2), f.info)
funcargs_args(d, f) ==
    funcargs_call(IF hasmultret(d.e) THEN luaK_setmultret(d) ELSE luaK_exp2nextreg(d).s, f, hasmultret(d.e))
funcargs(f, xs) ==
    IF xs = <<>> THEN funcargs_call(f.s, f.e, FALSE) ELSE funcargs_args(explist1(f.s, xs), f.e)

\* constructor: cc is ConsControl, with the descriptor v of the last item.
Void == init_exp("VVOID", 0)

closelistfield(s, t, cc) ==
    LET Close(n) ==
            IF cc.tostore = LFIELDS_PER_FLUSH
            THEN [s |-> luaK_setlist(n, t.info, cc.na, cc.tostore),
                  cc |-> [cc EXCEPT !.v = Void, !.tostore = 0]]
            ELSE [s |-> n, cc |-> [cc EXCEPT !.v = Void]]
    IN  IF cc.v.k = "VVOID" THEN [s |-> s, cc |-> cc] ELSE Close(luaK_exp2nextreg(At(s, cc.v)).s)

lastlistfield(s, t, cc) ==
    CASE cc.tostore = 0 -> s
      [] cc.tostore # 0 /\ hasmultret(cc.v) -> luaK_setlist(luaK_setmultret(At(s, cc.v)), t.info, cc.na, -1)
      [] OTHER -> luaK_setlist(IF cc.v.k = "VVOID" THEN s ELSE luaK_exp2nextreg(At(s, cc.v)).s,
                               t.info, cc.na, cc.tostore)

recfield_store(s, t, rk, val) ==
    [luaK_codeABC(val.s, "SETTABLE", t.info, rk, val.rk) EXCEPT !.freereg = s.freereg]
recfield_value(s, t, key, vx) == recfield_store(s, t, key.rk, luaK_exp2RK(expr(key.s, vx)))
recfield(s, t, kx, vx) == recfield_value(s, t, luaK_exp2RK(luaK_exp2val(expr(s, kx))), vx)

listfield(d, t, cc, rest) ==
    constructor(d.s, t, [cc EXCEPT !.v = d.e, !.na = @ + 1, !.tostore = @ + 1], rest)
constructor_field(c, t, field, rest) ==
    IF field[1] = "rec" THEN constructor(recfield(c.s, t, field[2], field[3]), t, c.cc, rest)
    ELSE listfield(expr(c.s, field[2]), t, c.cc, rest)
constructor(s, t, cc, fields) ==
    IF fields = <<>> THEN lastlistfield(s, t, cc)
    ELSE constructor_field(closelistfield(Checked(s, cc.v.k = "VVOID" \/ cc.tostore > 0), t, cc),
                           t, Head(fields), Tail(fields))

body_push(f) == pushclosure(f.prev[1], f)
body(s, params, dots, stats) ==
    body_push(close_func(chunk(parlist(open_func(<<s>>), params, dots), stats)))

simpleexp_code(e, z) == At(z, [e EXCEPT !.info = pc(z) - 1])
simpleexp_k(c) == At(c.s, init_exp("VK", c.i))
simpleexp_table(t, fields) ==
    At(constructor(t.s, t.e, [v |-> Void, na |-> 0, tostore |-> 0], fields), t.e)
simpleexp(s, x) ==
    CASE x[1] = "nil" -> At(s, init_exp("VNIL", 0))
      [] x[1] = "bool" -> At(s, init_exp(IF x[2] THEN "VTRUE" ELSE "VFALSE", 0))
      [] x[1] = "num" -> At(s, [init_exp("VKNUM", 0) EXCEPT !.v = x])
      [] x[1] = "str" -> simpleexp_k(addk(s, x))
      [] x[1] = "dots" -> simpleexp_code(init_exp("VVARARG", 0),
            luaK_codeABC([s EXCEPT !.is_vararg = @ \ {"NEEDSARG"}], "VARARG", 0, 1, 0))
      [] x[1] = "function" -> body(s, x[2], x[3], x[4])
      [] x[1] = "table" -> simpleexp_table(
            luaK_exp2nextreg(simpleexp_code(init_exp("VRELOCABLE", 0),
                                            luaK_codeABC(s, "NEWTABLE", 0, 0, 0))), x[2])

prefixexp(s, x) ==
    IF x[1] = "paren" THEN luaK_dischargevars(expr(s, x[2])) ELSE singlevar(s, x[2])

yindex(t, x) == luaK_indexed(luaK_exp2val(expr(t.s, x)), t.e)
methodname(e, name) == luaK_self(At(name.s, e), init_exp("VK", name.i))
primaryexp_suffix(d, x) ==
    CASE x[1] = "index" -> yindex(luaK_exp2anyreg(d), x[3])
      [] x[1] \in {"call", "self"} ->
            funcargs(IF x[1] = "call" THEN luaK_exp2nextreg(d) ELSE methodname(d.e, addk(d.s, Str(x[3]))),
                     Last(x))
primaryexp(s, x) ==
    IF x[1] \in {"index", "call", "self"} THEN primaryexp_suffix(expr(s, x[2]), x) ELSE prefixexp(s, x)

subexpr_second(i, op, x) == luaK_posfix(expr(i.s, x), op, i.e)
subexpr_first(a, x) ==
    IF x[1] \in Unary THEN luaK_prefix(a, x[1]) ELSE subexpr_second(luaK_infix(a, x[1]), x[1], x[3])
subexpr(s, x) == subexpr_first(expr(s, x[2]), x)

----------------------------------------------------------------------------
(* The parser on statements. *)

adjust_assign(d, nvars, nexps) ==
    LET extra == nvars - nexps
        more == Max({extra + 1, 0})
        Pad(n) == IF extra > 0 THEN luaK_nil(luaK_reserveregs(n, extra), n.freereg, extra) ELSE n
    IN  IF hasmultret(d.e)
        THEN luaK_reserveregs(luaK_setreturns(d, more), Max({more - 1, 0}))
        ELSE Pad(IF d.e.k = "VVOID" THEN d.s ELSE luaK_exp2nextreg(d).s)

localstat(s, names, xs) ==
    adjustlocalvars(adjust_assign(IF xs = <<>> THEN At(s, Void) ELSE explist1(s, xs), Len(names), Len(xs)),
                    names)

localfunc(s, name, params, dots, stats) ==
    luaK_storevar(body(adjustlocalvars(luaK_reserveregs(s, 1), <<name>>), params, dots, stats),
                  init_exp("VLOCAL", s.freereg))

\* Mutant: no copy is made.
M_check_conflict(s, lh, v) == [s |-> s, lh |-> lh]

\* check_conflict: a local that is about to be assigned is copied if an
\* earlier variable of the same assignment is indexed with it.
check_conflict(s, lh, v) ==
    LET Safe(e) == [e EXCEPT !.info = IF @ = v.info THEN s.freereg ELSE @,
                             !.aux = IF @ = v.info THEN s.freereg ELSE @]
        safe == [i \in DOMAIN lh |-> IF lh[i].k = "VINDEXED" THEN Safe(lh[i]) ELSE lh[i]]
    IN  IF safe = lh THEN [s |-> s, lh |-> lh]
        ELSE [s |-> luaK_reserveregs(luaK_codeABC(s, "MOVE", s.freereg, v.info, 0), 1), lh |-> safe]

\* assignment: the variables, the values, then the stores from the last to the first.
assignment_listed(c, e) == [c EXCEPT !.lh = Append(@, e)]
assignment_var(z, v) ==
    assignment_listed(IF v.e.k = "VLOCAL" /\ z.lh # <<>> THEN check_conflict(v.s, z.lh, v.e)
                      ELSE [s |-> v.s, lh |-> z.lh], v.e)
assignment_target(z, x) == assignment_var(z, expr(z.s, x))
assignment_default(var, z) == luaK_storevar(At(z, init_exp("VNONRELOC", z.freereg - 1)), var)
assignment_store(lh, d, nexps) ==
    IF nexps = Len(lh)
    THEN FoldRight(assignment_default, Front(lh), luaK_storevar(luaK_setoneret(d), Last(lh)))
    ELSE FoldRight(assignment_default, lh, [adjust_assign(d, Len(lh), nexps)
                                                EXCEPT !.freereg = @ - Max({nexps - Len(lh), 0})])
assignment_values(l, xs) == assignment_store(l.lh, explist1(l.s, xs), Len(xs))
assignment(s, vars, xs) ==
    assignment_values(FoldLeft(assignment_target, [s |-> s, lh |-> <<>>], vars), xs)

\* cond: the jumps that leave when the condition is false.
cond_test(v) == luaK_goiftrue([v EXCEPT !.e.k = IF @ = "VNIL" THEN "VFALSE" ELSE @])
cond_exit(g) == [s |-> g.s, exit |-> g.e.f]
cond(s, x) == cond_exit(cond_test(expr(s, x)))

block_leave(z) == leaveblock(Checked(z, Last(z.bl).breaklist = {}))
block_inside(z, stats) == IF z.ok THEN block_leave(chunk(z, stats)) ELSE z
block(s, stats) == block_inside(enterblock(s, FALSE), stats)

\* breakstat: out of the innermost loop, closing what the blocks between hold.
breakstat(s) ==
    LET b == SelectLastInSubSeq(s.bl, 1, Len(s.bl), LAMBDA bl : bl.isbreakable)
        upval == \E i \in b + 1 .. Len(s.bl) : s.bl[i].upval
        j == luaK_jump(IF upval THEN luaK_codeABC(s, "CLOSE", s.bl[b].nactvar, 0, 0) ELSE s)
    IN  [j.s EXCEPT !.bl[b].breaklist = @ \union j.list]

patchback(j, target) == luaK_patchlist(j.s, j.list, target)
whilestat_loop(c, start, stats) ==
    luaK_patchtohere(leaveblock(patchback(luaK_jump(block(enterblock(c.s, TRUE), stats)), start)), c.exit)
whilestat(s, x, stats) == whilestat_loop(cond(luaK_getlabel(s), x), pc(s), stats)

repeatstat_until(c, start) ==
    leaveblock(patchback(
        IF ~Last(c.s.bl).upval THEN [s |-> leaveblock(c.s), list |-> c.exit]
        ELSE luaK_jump(leaveblock(luaK_patchtohere(breakstat(c.s), c.exit))), start))
repeatstat(s, stats, x) ==
    repeatstat_until(cond(chunk(enterblock(enterblock(luaK_getlabel(s), TRUE), FALSE), stats), x), pc(s))

\* forbody: the loop instruction comes after the block, its preparation before.
forbody_for(z, op, base) == [s |-> luaK_codeABC(z, op, base, 0, NO_JUMP), list |-> {pc(z)}]
forbody_scope(z, names) ==
    luaK_reserveregs(adjustlocalvars(enterblock(z, FALSE), names), Len(names))
forbody_block(prep, names, stats) ==
    luaK_patchtohere(leaveblock(block(forbody_scope(prep.s, names), stats)), prep.list)
forbody_loop(z, base, names, isnum, start) ==
    patchback(IF isnum THEN forbody_for(z, "FORLOOP", base)
              ELSE luaK_jump(luaK_codeABC(z, "TFORLOOP", base, 0, Len(names))), start)
forbody_at(ctl, base, names, stats, isnum) ==
    forbody_loop(forbody_block(IF isnum THEN forbody_for(ctl, "FORPREP", base) ELSE luaK_jump(ctl), names, stats),
                 base, names, isnum, pc(ctl) + 1)
forbody(s, base, names, stats, isnum) ==
    forbody_at(adjustlocalvars(s, <<"(for 1)", "(for 2)", "(for 3)">>), base, names, stats, isnum)

exp1(s, x) == luaK_exp2nextreg(expr(s, x)).s

\* The step of a numeric loop, 1 when the program gives none.
forstep_one(c, reg) == luaK_reserveregs(luaK_codeABC(c.s, "LOADK", reg, c.i, 0), 1)
forstep(s, step) == IF step # <<>> THEN exp1(s, step[1]) ELSE forstep_one(addk(s, Num(1)), s.freereg)

forlist(d, nexps) == luaK_checkstack(adjust_assign(d, 3, nexps), 3)
forstat_in(z, base, st) ==
    IF st[1] = "fornum"
    THEN forbody(forstep(exp1(exp1(z, st[3]), st[4]), st[5]), base, <<st[2]>>, st[6], TRUE)
    ELSE forbody(forlist(explist1(z, st[3]), Len(st[3])), base, st[2], st[4], FALSE)
forstat(s, st) == leaveblock(forstat_in(enterblock(s, TRUE), s.freereg, st))

\* ifstat: arms are the conditions with their blocks, els the else block if any.
RECURSIVE ifstat(_, _, _, _)
ifstat_next(z, arms, els, escapelist) ==
    IF arms # <<>> THEN ifstat(z, arms, els, escapelist)
    ELSE luaK_patchtohere(block(z, els[1]), escapelist)
ifstat_escape(j, exit, arms, els, escapelist) ==
    ifstat_next(luaK_patchtohere(j.s, exit), arms, els, escapelist \union j.list)
ifstat_then(z, exit, arms, els, escapelist) ==
    IF arms = <<>> /\ els = <<>> THEN luaK_patchtohere(z, escapelist \union exit)
    ELSE ifstat_escape(luaK_jump(z), exit, arms, els, escapelist)
ifstat_arm(c, arms, els, escapelist) ==
    ifstat_then(block(c.s, arms[1][2]), c.exit, Tail(arms), els, escapelist)
ifstat(s, arms, els, escapelist) == ifstat_arm(cond(s, arms[1][1]), arms, els, escapelist)

\* retstat: a call that is the only value becomes a tail call.
retstat_multi(z, e, n, single) ==
    luaK_ret(IF e.k = "VCALL" /\ single
             THEN Checked([z EXCEPT !.code[e.info + 1].op = "TAILCALL"], z.code[e.info + 1].a = n)
             ELSE z, n, -1)
retstat_one(d) == luaK_ret(d.s, d.e.info, 1)
retstat_all(z, n, nret) == luaK_ret(Checked(z, nret = z.freereg - n), n, nret)
retstat_values(d, n, nret) ==
    CASE hasmultret(d.e) -> retstat_multi(luaK_setmultret(d), d.e, n, nret = 1)
      [] ~hasmultret(d.e) /\ nret = 1 -> retstat_one(luaK_exp2anyreg(d))
      [] OTHER -> retstat_all(luaK_exp2nextreg(d).s, n, nret)
retstat(s, xs) ==
    IF xs = <<>> THEN luaK_ret(s, 0, 0) ELSE retstat_values(explist1(s, xs), nactvar(s), Len(xs))

exprstat_drop(c) == [c.s EXCEPT !.code[c.e.info + 1].c = 1]
exprstat(s, x) == exprstat_drop(expr(s, x))

statement(s, st) ==
    CASE st[1] = "local" -> localstat(s, st[2], st[3])
      [] st[1] = "localfunction" -> localfunc(s, st[2], st[3], st[4], st[5])
      [] st[1] = "assign" -> assignment(s, st[2], st[3])
      [] st[1] = "do" -> block(s, st[2])
      [] st[1] = "while" -> whilestat(s, st[2], st[3])
      [] st[1] = "repeat" -> repeatstat(s, st[2], st[3])
      [] st[1] = "if" -> ifstat(s, st[2], st[3], {})
      [] st[1] \in {"fornum", "forin"} -> forstat(s, st)
      [] st[1] = "break" -> breakstat(s)
      [] st[1] = "return" -> retstat(s, st[2])
      [] st[1] \in {"call", "self"} -> exprstat(s, st)

\* Where the parser goes down: into a statement, or into an expression.
parse(s, x, isstat) ==
    CASE isstat -> At(statement(s, x), Void)
      [] ~isstat /\ x[1] \in Unary \union Binary -> subexpr(s, x)
      [] ~isstat /\ x[1] \in {"name", "paren", "index", "call", "self"} -> primaryexp(s, x)
      [] OTHER -> simpleexp(s, x)

\* chunk: every statement leaves only the locals in registers.
chunk_rest(r, stats) ==
    IF r.maxstacksize >= r.freereg /\ r.freereg >= nactvar(r)
    THEN chunk([r EXCEPT !.freereg = nactvar(r)], stats) ELSE [r EXCEPT !.ok = FALSE]
chunk(s, stats) == IF stats = <<>> THEN s ELSE chunk_rest(parse(s, Head(stats), TRUE).s, Tail(stats))

\* luaY_parser: the main function takes any arguments.
luaY_parser(stats) == close_func(chunk([open_func(<<>>) EXCEPT !.is_vararg = {"IS"}], stats))
============================================================================
