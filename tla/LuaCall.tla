------------------------------ MODULE LuaCall ------------------------------
(***************************************************************************)
(* Calls, protected calls, errors and coroutines of the vendored Lua:      *)
(* ldo.c, the calling functions of lapi.c, luaG_errormsg of ldebug.c and   *)
(* the coroutine library of lbaselib.c.                                    *)
(*                                                                         *)
(* Two stacks exist at once.  Every thread has its list of CallInfos,      *)
(* ci[t], one "lua" or "c" per active function.  The one C stack, cst,     *)
(* holds the active interpreter loops (execute, with the number n of Lua   *)
(* frames it runs), the active luaD_call and lua_resume, the setjmp of     *)
(* each luaD_pcall with the fields it will restore, and the calls of an    *)
(* error handler.  An error or a yield leaves both at once.                *)
(*                                                                         *)
(* A C function is any sequence of calls, protected calls, resumes and     *)
(* errors that ends in a return or in a yield: pcall, xpcall, wrap, the    *)
(* functions of the engine and its traceback among them.                   *)
(***************************************************************************)
EXTENDS Naturals, Sequences, FiniteSets, SequencesExt

CONSTANTS
    Main,           \* the thread the engine calls
    Coroutine,      \* the threads that scripts create
    MaxCCalls,      \* LUAI_MAXCCALLS
    ExtraCCalls,    \* LUAI_MAXCCALLS >> 3
    BasicCI,        \* BASIC_CI_SIZE
    MaxCalls,       \* LUAI_MAXCALLS
    HandlerKinds    \* the handlers that scripts pass to xpcall, none for pcall

ASSUME LimitAssumption ==
    /\ MaxCCalls \in Nat \ {0} /\ ExtraCCalls \in Nat \ {0}
    /\ BasicCI \in Nat /\ BasicCI > 1 /\ MaxCalls \in Nat /\ MaxCalls >= BasicCI
    /\ HandlerKinds \subseteq {"none", "script", "value"}
    /\ Main \notin Coroutine

VARIABLES
    ci,             \* the CallInfos of each thread above base_ci
    size_ci,        \* the number of CallInfos allocated
    nCcalls,
    baseCcalls,
    status,         \* OK, YIELD or the error that ended the thread
    errfunc,        \* the handler: none, one of the kinds of value it can be
    holds,          \* whether values lie on the stack of a thread without frames
    created,
    cst,            \* the C stack
    mode            \* what the C function on top of cst is about to do

thread == <<ci, size_ci, nCcalls, baseCcalls, status, errfunc, holds>>
callVars == <<thread, created, cst, mode>>

Thread == {Main} \union Coroutine
Errors == {"ERRRUN", "ERRMEM", "ERRERR"}
Functions == {"lua", "c"}
R == Last(cst).th

----------------------------------------------------------------------------
(* Calls. *)

Execute(t, n) == [k |-> "execute", th |-> t, n |-> n]
Calls(t) == [k |-> "call", th |-> t]

\* inc_ci and growCI: room for one more CallInfo, or the error.
growCI(t) ==
    IF Len(ci[t]) + 1 < size_ci[t] THEN [size |-> size_ci[t], then |-> "run"]
    ELSE IF size_ci[t] > MaxCalls THEN [size |-> size_ci[t], then |-> "ERRERR"]
    ELSE [size |-> 2 * size_ci[t],
          then |-> IF 2 * size_ci[t] > MaxCalls THEN "error" ELSE "run"]

\* luaD_precall of a function of kind f: the C stack is entered once the
\* function runs, and stack if there is no room for its CallInfo.
luaD_precall(t, f, entered, stack) ==
    LET g == growCI(t)
    IN  /\ size_ci' = [size_ci EXCEPT ![t] = g.size]
        /\ ci' = IF g.then = "run" THEN [ci EXCEPT ![t] = Append(@, f)] ELSE ci
        /\ cst' = IF g.then = "run" THEN entered ELSE stack
        /\ mode' = g.then

\* luaD_call, on the C stack below.
luaD_call(t, f, below) ==
    LET stack == Append(below, Calls(t))
        n == nCcalls[t] + 1
    IN  /\ nCcalls' = [nCcalls EXCEPT ![t] = n]
        /\ \/ /\ n # MaxCCalls /\ n < MaxCCalls + ExtraCCalls
              /\ luaD_precall(t, f, IF f = "lua" THEN Append(stack, Execute(t, 1))
                                                 ELSE stack, stack)
           \/ /\ n = MaxCCalls \/ n >= MaxCCalls + ExtraCCalls
              /\ cst' = stack
              /\ mode' = IF n = MaxCCalls THEN "error" ELSE "ERRERR"
              /\ UNCHANGED <<ci, size_ci>>

\* lua_pcall: the handler is in force until the call ends.
lua_pcall(t, ef, f) ==
    /\ errfunc' = [errfunc EXCEPT ![t] = ef]
    /\ luaD_call(t, f,
                 Append(cst, [k |-> "pcall", th |-> t, ef |-> ef, nCcalls |-> nCcalls[t],
                              ci |-> Len(ci[t]), errfunc |-> errfunc[t]]))
    /\ UNCHANGED <<baseCcalls, status, holds, created>>

Running(f) == mode = "run" /\ cst # <<>> /\ Last(ci[R]) = f

\* call_lua_script from the event loop: a handler or a callback of a script,
\* called without an error handler.
call_lua_script ==
    /\ cst = <<>>
    /\ \E f \in Functions : lua_pcall(Main, "none", f)

\* load_lua_library from the event loop: require, with the engine's traceback.
load_lua_library ==
    /\ cst = <<>>
    /\ \E f \in Functions : lua_pcall(Main, "traceback", f)

\* A protected call from a C function: pcall and xpcall of the scripts; catch,
\* call_script and load_lua_library with the traceback; callbacks with none.
ProtectedCall ==
    /\ Running("c")
    /\ \E f \in Functions, ef \in HandlerKinds \union {"none", "traceback"} : lua_pcall(R, ef, f)

\* OP_CALL stays in the interpreter loop; a C function is called from it.
OP_CALL(f) ==
    /\ Running("lua")
    /\ luaD_precall(R, f, IF f = "lua" THEN [cst EXCEPT ![Len(cst)].n = @ + 1] ELSE cst, cst)
    /\ UNCHANGED <<nCcalls, baseCcalls, status, errfunc, holds, created>>

\* lua_call by a C function, or a metamethod called by the interpreter.
lua_call(f) ==
    /\ mode = "run" /\ cst # <<>>
    /\ luaD_call(R, f, cst)
    /\ UNCHANGED <<baseCcalls, status, errfunc, holds, created>>

----------------------------------------------------------------------------
(* Returns. *)

\* OP_RETURN: the loop ends with the frame it was entered for.
OP_RETURN ==
    /\ Running("lua")
    /\ ci' = [ci EXCEPT ![R] = Front(@)]
    /\ LET n == Last(cst).n
       IN  /\ cst' = IF n = 1 THEN Front(cst) ELSE [cst EXCEPT ![Len(cst)].n = n - 1]
           /\ mode' = IF n = 1 THEN "ret" ELSE "run"
    /\ UNCHANGED <<size_ci, nCcalls, baseCcalls, status, errfunc, holds, created>>

\* The end of luaD_precall for a C function, back in a loop or in luaD_call.
CReturn ==
    /\ Running("c")
    /\ ci' = [ci EXCEPT ![R] = Front(@)]
    /\ mode' = IF Last(cst).k = "execute" THEN "run" ELSE "ret"
    /\ UNCHANGED <<size_ci, nCcalls, baseCcalls, status, errfunc, holds, created, cst>>

\* The end of luaD_call.
CallEnds ==
    /\ mode = "ret" /\ Last(cst).k = "call"
    /\ nCcalls' = [nCcalls EXCEPT ![R] = @ - 1]
    /\ cst' = Front(cst)
    /\ mode' = IF cst' # <<>> /\ Last(cst').k \in {"pcall", "handler"} THEN "ret" ELSE "run"
    /\ UNCHANGED <<ci, size_ci, baseCcalls, status, errfunc, holds, created>>

\* Mutant: the handler of the call stays in place.
M_PcallEnds ==
    /\ mode = "ret" /\ Last(cst).k = "pcall"
    /\ cst' = Front(cst)
    /\ mode' = "run"
    /\ UNCHANGED <<thread, created>>

\* luaD_pcall after a call without error.
PcallEnds ==
    /\ mode = "ret" /\ Last(cst).k = "pcall"
    /\ errfunc' = [errfunc EXCEPT ![R] = Last(cst).errfunc]
    /\ cst' = Front(cst)
    /\ mode' = "run"
    /\ UNCHANGED <<ci, size_ci, nCcalls, baseCcalls, status, holds, created>>

----------------------------------------------------------------------------
(* Errors. *)

\* A script or a C function raises an error.
RaiseError ==
    /\ mode = "run" /\ cst # <<>>
    /\ mode' = "error"
    /\ UNCHANGED <<thread, created, cst>>

\* luaM_realloc_ fails: no handler is called.
OutOfMemory ==
    /\ mode = "run" /\ cst # <<>>
    /\ mode' = "ERRMEM"
    /\ UNCHANGED <<thread, created, cst>>

\* luaG_errormsg: the handler runs on top of the function that failed.
luaG_errormsg ==
    /\ mode = "error"
    /\ \/ /\ errfunc[R] \in {"none", "value"}
          /\ mode' = IF errfunc[R] = "none" THEN "ERRRUN" ELSE "ERRERR"
          /\ UNCHANGED <<thread, cst>>
       \/ /\ errfunc[R] \in {"traceback", "script"}
          /\ \E f \in IF errfunc[R] = "script" THEN Functions ELSE {"c"} :
                luaD_call(R, f, Append(cst, [k |-> "handler", th |-> R]))
          /\ UNCHANGED <<baseCcalls, status, errfunc, holds>>
    /\ UNCHANGED created

\* The handler has returned: luaG_errormsg throws its result.
HandlerEnds ==
    /\ mode = "ret" /\ Last(cst).k = "handler"
    /\ cst' = Front(cst)
    /\ mode' = "ERRRUN"
    /\ UNCHANGED <<thread, created>>

\* restore_stack_limit
restore_stack_limit(size, inuse) ==
    IF size > MaxCalls /\ inuse + 1 < MaxCalls THEN MaxCalls ELSE size

\* errorJmp: the innermost luaD_rawrunprotected of the thread.
errorJmp == {i \in DOMAIN cst : cst[i].th = R /\ cst[i].k \in {"pcall", "resume"}}

\* Mutant: the count of C calls is not restored.
M_luaD_throw ==
    /\ mode \in Errors /\ errorJmp # {}
    /\ LET i == CHOOSE j \in errorJmp : \A l \in errorJmp : l <= j
           a == cst[i]
       IN  /\ a.k = "pcall"
           /\ ci' = [ci EXCEPT ![R] = SubSeq(@, 1, a.ci)]
           /\ size_ci' = [size_ci EXCEPT ![R] = restore_stack_limit(@, a.ci)]
           /\ errfunc' = [errfunc EXCEPT ![R] = a.errfunc]
           /\ cst' = SubSeq(cst, 1, i - 1)
    /\ mode' = "run"
    /\ UNCHANGED <<nCcalls, baseCcalls, status, holds, created>>

\* luaD_throw to a luaD_pcall, which restores the fields it saved.
luaD_throw ==
    /\ mode \in Errors /\ errorJmp # {}
    /\ LET i == CHOOSE j \in errorJmp : \A l \in errorJmp : l <= j
           a == cst[i]
       IN  /\ a.k = "pcall"
           /\ nCcalls' = [nCcalls EXCEPT ![R] = a.nCcalls]
           /\ ci' = [ci EXCEPT ![R] = SubSeq(@, 1, a.ci)]
           /\ size_ci' = [size_ci EXCEPT ![R] = restore_stack_limit(@, a.ci)]
           /\ errfunc' = [errfunc EXCEPT ![R] = a.errfunc]
           /\ cst' = SubSeq(cst, 1, i - 1)
    /\ mode' = "run"
    /\ UNCHANGED <<baseCcalls, status, holds, created>>

\* The same to a lua_resume: the error ends the coroutine, and its frames stay.
ThrowToResume ==
    /\ mode \in Errors /\ errorJmp # {}
    /\ LET i == CHOOSE j \in errorJmp : \A l \in errorJmp : l <= j
       IN  /\ cst[i].k = "resume"
           /\ cst' = SubSeq(cst, 1, i - 1)
    /\ status' = [status EXCEPT ![R] = mode]
    /\ nCcalls' = [nCcalls EXCEPT ![R] = @ - 1]
    /\ mode' = "run"
    /\ UNCHANGED <<ci, size_ci, baseCcalls, errfunc, holds, created>>

----------------------------------------------------------------------------
(* Coroutines. *)

\* coroutine.create: a thread with its function on its stack.
luaB_cocreate(co) ==
    /\ Running("c") /\ co \notin created
    /\ created' = created \union {co}
    /\ holds' = [holds EXCEPT ![co] = TRUE]
    /\ UNCHANGED <<ci, size_ci, nCcalls, baseCcalls, status, errfunc, cst, mode>>

costatus(L, co) ==
    IF L = co THEN "running"
    ELSE IF status[co] = "YIELD" THEN "suspended"
    ELSE IF status[co] # "OK" THEN "dead"
    ELSE IF ci[co] # <<>> THEN "normal"
    ELSE IF holds[co] THEN "suspended" ELSE "dead"

\* lua_setlevel: the coroutine counts on from its caller.
lua_setlevel(L, co) == nCcalls[L]

\* resume: start the function, or finish the OP_CALL that yielded.
StartOrContinue(co, below) ==
    /\ IF status[co] = "YIELD" THEN ci' = [ci EXCEPT ![co] = Front(@)]
                               ELSE ci' = [ci EXCEPT ![co] = Append(@, "lua")]
    /\ cst' = Append(below, Execute(co, Len(ci'[co])))
    /\ status' = [status EXCEPT ![co] = "OK"]

\* auxresume and lua_resume.  A thread that is not suspended is refused and
\* nothing changes; a C stack that is too deep drops what is on the stack of
\* the coroutine above its frames, the function of one not yet started too.
auxresume(co) ==
    LET level == lua_setlevel(R, co)
    IN  /\ Running("c") /\ co \in created
        /\ costatus(R, co) = "suspended"
        /\ \/ /\ level >= MaxCCalls
              /\ nCcalls' = [nCcalls EXCEPT ![co] = level]
              /\ UNCHANGED <<ci, baseCcalls, status, cst>>
           \/ /\ level < MaxCCalls
              /\ nCcalls' = [nCcalls EXCEPT ![co] = level + 1]
              /\ baseCcalls' = [baseCcalls EXCEPT ![co] = level + 1]
              /\ StartOrContinue(co, Append(cst, [k |-> "resume", th |-> co]))
        /\ holds' = [holds EXCEPT ![co] = FALSE]
        /\ UNCHANGED <<size_ci, errfunc, created, mode>>

\* The coroutine has finished or yielded: its values go to the caller, unless
\* they do not fit, which is an error of the caller.
ResumeEnds ==
    /\ mode = "ret" /\ Last(cst).k = "resume"
    /\ nCcalls' = [nCcalls EXCEPT ![R] = @ - 1]
    /\ cst' = Front(cst)
    /\ \E fits \in BOOLEAN :
          /\ mode' = IF fits THEN "run" ELSE "error"
          /\ holds' = [holds EXCEPT ![R] = ~fits]
    /\ UNCHANGED <<ci, size_ci, baseCcalls, status, errfunc, created>>

\* lua_yield: refused when a C function is active between it and the resume;
\* otherwise the loop is left with the frames still in ci.
lua_yield ==
    /\ Running("c")
    /\ \/ /\ nCcalls[R] > baseCcalls[R]
          /\ mode' = "error"
          /\ UNCHANGED <<status, cst>>
       \/ /\ nCcalls[R] <= baseCcalls[R]
          /\ status' = [status EXCEPT ![R] = "YIELD"]
          /\ cst' = IF Last(cst).k = "execute" THEN Front(cst) ELSE cst
          /\ mode' = "ret"
    /\ UNCHANGED <<ci, size_ci, nCcalls, baseCcalls, errfunc, holds, created>>

----------------------------------------------------------------------------
CallInit ==
    /\ ci = [t \in Thread |-> <<>>]
    /\ size_ci = [t \in Thread |-> BasicCI]
    /\ nCcalls = [t \in Thread |-> 0]
    /\ baseCcalls = [t \in Thread |-> 0]
    /\ status = [t \in Thread |-> "OK"]
    /\ errfunc = [t \in Thread |-> "none"]
    /\ holds = [t \in Thread |-> FALSE]
    /\ created = {}
    /\ cst = <<>>
    /\ mode = "run"

CallNext ==
    \/ call_lua_script \/ load_lua_library \/ ProtectedCall
    \/ \E f \in Functions : OP_CALL(f) \/ lua_call(f)
    \/ OP_RETURN \/ CReturn \/ CallEnds \/ PcallEnds \/ HandlerEnds
    \/ RaiseError \/ OutOfMemory \/ luaG_errormsg \/ luaD_throw \/ ThrowToResume
    \/ \E co \in Coroutine : luaB_cocreate(co) \/ auxresume(co)
    \/ ResumeEnds \/ lua_yield

CallSpec == CallInit /\ [][CallNext]_callVars

----------------------------------------------------------------------------
(* Correctness. *)

Activations(t, K) == {i \in DOMAIN cst : cst[i].th = t /\ cst[i].k \in K}

\* The type of the threads, the C stack and the mode.
CallsTypeOK ==
    /\ ci \in [Thread -> Seq(Functions)]
    /\ size_ci \in [Thread -> Nat] /\ nCcalls \in [Thread -> Nat]
    /\ baseCcalls \in [Thread -> Nat]
    /\ status \in [Thread -> {"OK", "YIELD"} \union Errors]
    /\ errfunc \in [Thread -> {"none", "traceback"} \union HandlerKinds] /\ holds \in [Thread -> BOOLEAN]
    /\ created \subseteq Coroutine
    /\ \A i \in DOMAIN cst : cst[i].th \in Thread
    /\ mode \in {"run", "ret", "error"} \union Errors

\* nCcalls is what keeps a script from overflowing the stack of the process:
\* in the thread that runs it is the number of luaD_call and lua_resume that
\* are active in all threads together, whatever errors, handlers, yields and
\* resumes came before, and it never passes the limit kept for handlers.
CountsCStack ==
    cst # <<>> =>
        /\ nCcalls[R] = Cardinality({i \in DOMAIN cst : cst[i].k \in {"call", "resume"}})
        /\ nCcalls[R] <= MaxCCalls + ExtraCCalls

\* lua_resume asserts nCcalls == baseCcalls when its coroutine comes back, and
\* a suspended one has only Lua frames below the function that yielded, which
\* luaV_execute(L, ci - base_ci) goes on with, and no handler.
YieldsClean ==
    /\ (mode = "ret" /\ Last(cst).k = "resume") => nCcalls[R] = baseCcalls[R]
    /\ \A t \in Thread : (status[t] = "YIELD" /\ Activations(t, {"resume"}) = {}) =>
          /\ t # Main /\ errfunc[t] = "none"
          /\ Activations(t, {"execute", "call", "pcall", "handler"}) = {}
          /\ Len(ci[t]) > 1 /\ Last(ci[t]) = "c"
          /\ \A i \in 1..(Len(ci[t]) - 1) : ci[t][i] = "lua"

\* The Lua frames of a thread are those its interpreter loops count, so that no
\* error, yield or return leaves a frame without its loop or a loop without it.
FramesHaveLoops ==
    \A t \in Thread : status[t] = "OK" =>
        Cardinality({p \in DOMAIN ci[t] : ci[t][p] = "lua"})
            = Cardinality(UNION {{i} \X (1..cst[i].n) : i \in Activations(t, {"execute"})})

\* Every frame has its place in the array of CallInfos, and what an overflow
\* took above the limit is bounded.
FramesFit ==
    \A t \in Thread : Len(ci[t]) < size_ci[t] /\ size_ci[t] <= 2 * MaxCalls

\* The handler in force is the one of the innermost protected call of the
\* thread, and none outside of any.
HandlerOfInnermost ==
    \A t \in Thread : LET P == Activations(t, {"pcall"})
        IN  errfunc[t] = IF P = {} THEN "none"
                         ELSE cst[CHOOSE i \in P : \A j \in P : j <= i].ef

\* A thread is resumed at most once at a time, and the threads below the running
\* one are the ones that wait for it.
ResumedOnce ==
    \A t \in Coroutine :
        /\ Cardinality(Activations(t, {"resume"})) <= 1
        /\ \A i \in Activations(t, {"execute", "call", "pcall", "handler"}) :
              \E j \in Activations(t, {"resume"}) : j < i

\* Every error finds a setjmp of its own thread, so none reaches lua_atpanic's
\* function, and once the engine is back in its event loop the thread it calls
\* is as it was, ready for the next request.
EngineSurvives ==
    /\ mode \in Errors => errorJmp # {}
    /\ cst = <<>> => /\ mode = "run" /\ ci[Main] = <<>> /\ status[Main] = "OK"
                     /\ nCcalls[Main] = 0 /\ errfunc[Main] = "none"

\* The parts above together: what the interpreter knows of its C stack, its
\* frames, its handlers and its coroutines is true at every step (luaD_call,
\* luaD_rawrunprotected, lua_resume, lua_yield).
CallsCounted ==
    CallsTypeOK /\ CountsCStack /\ YieldsClean /\ FramesHaveLoops /\ FramesFit
    /\ HandlerOfInnermost /\ ResumedOnce
============================================================================
