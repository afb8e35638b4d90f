------------------------------- MODULE LuaFrame -------------------------------
(***************************************************************************)
(* A Lua state used through lua_util.c: lookups that may load a module,     *)
(* calls whose results stay on the stack, and package.loaded, which         *)
(* remembers what happened to each module (src/src/module/lua_util.c,       *)
(* src/src/module/rpc_util.c; require is Lua's own).                        *)
(***************************************************************************)
EXTENDS LuaUtil

CONSTANTS
  Modules,    \* the names of modules that are looked up
  Returns,    \* what the chunk of a module may make require return, or "error"
  Found,      \* what a name may stand for, in a module or as a global
  Outcomes,   \* how a called function may end
  MaxStack    \* bound on the height of the stack

(* A function that fails has no results; require answers true for a chunk   *)
(* that returns nothing.                                                    *)
ASSUME FrameAssumption ==
  /\ Returns \subseteq (Kinds \ {"nil"}) \cup {"error"}
  /\ Found \subseteq Kinds
  /\ Outcomes \subseteq [error : BOOLEAN, values : Seq(Values)]
  /\ \A outcome \in Outcomes : outcome.error => outcome.values = <<>>
  /\ MaxStack \in Nat

VARIABLES
  fstack,   \* the stack of the state, below any script that runs
  loaded,   \* loaded[m]: the kind of package.loaded[m]
  runs,     \* runs[m]: how often the chunk of m has been run
  last      \* what the last operation was given and what it answered

frameVars == <<fstack, loaded, runs, last>>

(* Types; the lookups leave nothing on the stack beyond the bound that the  *)
(* operations keep to.                                                      *)
FrameTypes ==
  /\ fstack \in Seq(Values) /\ Len(fstack) <= MaxStack
  /\ loaded \in [Modules -> Kinds]
  /\ runs \in [Modules -> Nat]

FrameInit ==
  /\ fstack = <<>>
  /\ loaded = [m \in Modules |-> "nil"]
  /\ runs = [m \in Modules |-> 0]
  /\ last = [op |-> "none"]

(* The environment of a lookup in module m.                                 *)
Env(m, func, required, field, global) ==
  [module |-> "named", func |-> func, entry |-> loaded[m],
   required |-> required, field |-> field, global |-> global]

(* require: what it returns becomes the entry of the module.  A chunk that  *)
(* fails leaves the marker that says it is being loaded; a module that none *)
(* of the loaders finds leaves nothing, and none of it is run.              *)
Require(e) ==
  IF e.required # "error" THEN {[entry |-> e.required, run |-> 1]}
  ELSE {[entry |-> "userdata", run |-> 1], [entry |-> "nil", run |-> 0]}

(* The chunk runs when find_lua_function calls require.                     *)
RunsChunk(e) == e.module = "named" /\ e.func = "named" /\ NeedsLoad(e)

AfterLookup(m, e) ==
  \/ /\ RunsChunk(e)
     /\ \E r \in Require(e) :
          /\ loaded' = [loaded EXCEPT ![m] = r.entry]
          /\ runs' = [runs EXCEPT ![m] = @ + r.run]
  \/ ~RunsChunk(e) /\ UNCHANGED <<loaded, runs>>

(* A lookup followed by a call without arguments: rpc_dispatch, and the     *)
(* body of http_request_cb.                                                 *)
Dispatch(m, e, outcome) ==
  /\ Len(fstack) + Len(outcome.values) < MaxStack
  /\ fstack' = rpc_dispatch(fstack, e, outcome)
  /\ AfterLookup(m, e)
  /\ last' = [op |-> "dispatch", before |-> fstack, env |-> e, outcome |-> outcome]

(* A lookup of a global and a call with one argument, as in http_handler.   *)
CallGlobal(kind, outcome) ==
  LET found == find_lua_global_function(fstack, kind)
      called == call_lua_script(Append(found.stk, CVal("table", "request")), 1, outcome)
  IN /\ Len(fstack) + Len(outcome.values) < MaxStack
     /\ fstack' = IF found.ok THEN called.stk ELSE found.stk
     /\ last' = [op |-> "global", before |-> fstack, kind |-> kind, outcome |-> outcome,
                 ret |-> IF found.ok THEN called.ret ELSE 0]
     /\ UNCHANGED <<loaded, runs>>

(* call_script(m, func, extra arguments) by a script: its own frame.        *)
CallScript(m, e, extra, outcome) ==
  LET frame == <<CVal("text", "module"), CVal("text", "func")>> \o extra IN
  /\ last' = [op |-> "call_script", env |-> e, outcome |-> outcome,
              values |-> lua_call_script(frame, e, outcome)]
  /\ AfterLookup(m, e)
  /\ UNCHANGED fstack

FrameNext ==
  \E outcome \in Outcomes :
    \/ \E kind \in Found : CallGlobal(kind, outcome)
    \/ \E m \in Modules, func \in {"empty", "named"}, required \in Returns,
          field \in Found, global \in Found :
         LET e == Env(m, func, required, field, global) IN
         \/ Dispatch(m, e, outcome)
         \/ \E extra \in {<<>>, <<CVal("nil", "extra")>>} : CallScript(m, e, extra, outcome)

FrameSpec == FrameInit /\ [][FrameNext]_frameVars

-------------------------------------------------------------------------------

(* What a call adds to the stack.                                           *)
Left(outcome) == IF outcome.error THEN <<Message>> ELSE outcome.values

(* A lookup and call leaves exactly the results of the called function      *)
(* above what was there, whatever was found, loaded or refused on the way   *)
(* (rpc_dispatch, find_lua_function).                                       *)
DispatchBalanced ==
  /\ FrameTypes
  /\ last.op = "dispatch" =>
    fstack = last.before \o (IF Resolves(last.env) THEN Left(last.outcome) ELSE <<>>)

(* call_lua_script counts the results of this call, not what earlier calls  *)
(* left below them, and leaves them on top; call_script gives its caller    *)
(* the values of the function it named, whatever was pushed to find it.     *)
ResultsCounted ==
  /\ last.op = "global" =>
       LET called == last.kind = "function" IN
       /\ last.ret = IF called THEN Len(last.outcome.values) ELSE 0
       /\ fstack = last.before \o (IF called THEN Left(last.outcome) ELSE <<>>)
  /\ last.op = "call_script" =>
       last.values = IF Resolves(last.env) THEN last.outcome.values ELSE <<>>

(* The chunk of a module is run once, whatever became of it, and its entry  *)
(* in package.loaded then stays (find_lua_function, which asks require only *)
(* for a module without an entry, and the marker that require leaves).      *)
LoadedOnce ==
  [][\A m \in Modules :
       /\ runs'[m] <= 1
       /\ (runs[m] = 1 => loaded'[m] = loaded[m] /\ loaded[m] # "nil")]_frameVars
===============================================================================
