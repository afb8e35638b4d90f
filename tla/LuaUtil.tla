------------------------------- MODULE LuaUtil --------------------------------
(***************************************************************************)
(* The functions of src/src/module/lua_util.c that work on the stack of a   *)
(* Lua state: how a C function finds a Lua function, calls it, and what it  *)
(* leaves on the stack.  A stack is a sequence, its top last.  A value is   *)
(* its kind and a tag that says where it comes from.                        *)
(***************************************************************************)
EXTENDS Integers, Sequences, SequencesExt

Kinds == {"nil", "false", "true", "text", "format", "table", "function", "userdata"}

Val(kind, from) == [kind |-> kind, from |-> from]

(* A value that C code pushed, or read from Lua's own tables.               *)
CVal(kind, name) == Val(kind, <<name, 0, 0>>)

Sources == {"traceback", "require", "module", "func", "package.loaded", "loaded", "field",
            "global", "none", "error message", "http", "request", "callback", "script",
            "extra", "garbled", "Internal Server Error"}

Values == [kind : Kinds, from : Sources \X Nat \X Nat]

(* "text" is a number or a string printf copies as it stands, "format" a    *)
(* string with conversions in it.                                           *)
IsString(v) == v.kind \in {"text", "format"}
IsFunction(v) == v.kind = "function"
ToBoolean(v) == v.kind \notin {"nil", "false"}

settop(stk, n) == SubSeq(stk, 1, n)

Pop(stk, n) == settop(stk, Len(stk) - n)

(* lua_replace: the top value moves to index i.                             *)
Replace(stk, i) == Front([stk EXCEPT ![i] = Last(stk)])

-------------------------------------------------------------------------------

(* What Lua answers to the questions find_lua_function asks of it:          *)
(*   module, func  whether the two names are empty                          *)
(*   entry         the module's value in package.loaded                     *)
(*   required      what require returns, "error" when it raises one         *)
(*   field         the function's entry in the module's table               *)
(*   global        the global of the function's name                        *)
Environments ==
  [module : {"empty", "named"}, func : {"empty", "named"},
   entry : Kinds, required : Kinds \cup {"error"}, field : Kinds, global : Kinds]

(* load_lua_library: the traceback function, require and the name are       *)
(* pushed; what require returned stays, where the traceback function was.   *)
load_lua_library(stk, e) ==
  LET base == Len(stk)
      called == stk \o <<CVal("function", "traceback"), CVal(e.required, "require")>>
  IN IF e.required = "error"
     THEN [ok |-> FALSE, stk |-> settop(called, base)]
     ELSE [ok |-> TRUE, stk |-> RemoveAt(called, base + 1)]

(* Mutant: an entry that counts as false is loaded again.                   *)
NeedsLoad_falsy(e) == e.entry \in {"nil", "false"}

(* Only a module without an entry in package.loaded is loaded.              *)
NeedsLoad(e) == e.entry = "nil"

(* The first half of find_lua_function: the module's value on top.          *)
FindModule(stk, e) ==
  LET pushed == stk \o <<CVal("text", "module"), CVal("table", "package.loaded"),
                         CVal(e.entry, "loaded")>>
  IN IF NeedsLoad(e) THEN load_lua_library(pushed, e)
                     ELSE [ok |-> TRUE, stk |-> pushed]

(* The second half: the field of a table, or the global when the module is  *)
(* true, on top of it; any other module value has no functions.             *)
FindField(stk, e) ==
  CASE Last(stk).kind = "table" -> Append(stk, CVal(e.field, "field"))
    [] Last(stk).kind = "true"  -> Append(Pop(stk, 1), CVal(e.global, "global"))
    [] OTHER                    -> Append(stk, CVal("nil", "none"))

(* Mutant: the early returns leave what was pushed.                         *)
find_lua_function_unbalanced(stk, e) ==
  LET m == FindModule(stk, e)
      f == FindField(m.stk, e)
  IN IF e.module = "empty" \/ e.func = "empty"
     THEN [ok |-> FALSE, stk |-> stk]
     ELSE IF m.ok /\ IsFunction(Last(f))
     THEN [ok |-> TRUE, stk |-> settop(Replace(f, Len(stk) + 1), Len(stk) + 1)]
     ELSE [ok |-> FALSE, stk |-> IF m.ok THEN f ELSE m.stk]

find_lua_function(stk, e) ==
  LET base == Len(stk)
      module_index == base + 1
      m == FindModule(stk, e)
      f == FindField(m.stk, e)
  IN IF e.module = "empty" \/ e.func = "empty"
     THEN [ok |-> FALSE, stk |-> stk]
     ELSE IF m.ok /\ IsFunction(Last(f))
     THEN [ok |-> TRUE, stk |-> settop(Replace(f, module_index), module_index)]
     ELSE [ok |-> FALSE, stk |-> settop(IF m.ok THEN f ELSE m.stk, base)]

(* What find_lua_function is meant to find: a function of a module that is  *)
(* a table, a global function when the module is true.                      *)
ModuleValue(e) == IF e.entry = "nil" THEN e.required ELSE e.entry

Resolves(e) ==
  /\ e.module = "named" /\ e.func = "named"
  /\ \/ ModuleValue(e) = "table" /\ e.field = "function"
     \/ ModuleValue(e) = "true" /\ e.global = "function"

(* How far above the stack's height find_lua_function pushes.               *)
FindPeak(e) ==
  CASE e.module = "empty" \/ e.func = "empty" -> 0
    [] OTHER -> CASE NeedsLoad(e)      -> 6
                  [] e.entry = "table" -> 4
                  [] OTHER             -> 3

find_lua_global_function(stk, kind) ==
  LET pushed == Append(stk, CVal(kind, "global"))
  IN IF IsFunction(Last(pushed)) THEN [ok |-> TRUE, stk |-> pushed]
                                 ELSE [ok |-> FALSE, stk |-> Pop(pushed, 1)]

-------------------------------------------------------------------------------

(* What an error leaves on the stack.                                       *)
Message == CVal("text", "error message")

(* lua_pcall with LUA_MULTRET: the function and its arguments give way to   *)
(* the results, or to the message.                                          *)
Pcall(stk, args, outcome) ==
  settop(stk, Len(stk) - 1 - args) \o (IF outcome.error THEN <<Message>> ELSE outcome.values)

(* Mutants: the function is forgotten in base; the whole stack is counted.  *)
call_lua_script_shifted(stk, nargs, outcome) ==
  LET after == Pcall(stk, nargs, outcome)
  IN IF outcome.error THEN [ret |-> 0, stk |-> after]
     ELSE [ret |-> Len(after) - (Len(stk) - nargs), stk |-> after]

call_lua_script_counting_all(stk, nargs, outcome) ==
  LET after == Pcall(stk, nargs, outcome)
  IN [ret |-> IF outcome.error THEN 0 ELSE Len(after), stk |-> after]

(* call_lua_script returns how many results it has left on the stack, and   *)
(* 0 after an error, whose message it leaves.                               *)
call_lua_script(stk, nargs, outcome) ==
  LET args == IF nargs < 0 THEN 0 ELSE nargs
      base == Len(stk) - 1 - args
      after == Pcall(stk, args, outcome)
  IN IF base < 0 THEN [ret |-> 0, stk |-> stk]
     ELSE IF outcome.error THEN [ret |-> 0, stk |-> after]
     ELSE [ret |-> Len(after) - base, stk |-> after]

(* call_script(module, func, ...) as a script calls it: frame holds its     *)
(* arguments; the values it returns to the script.                          *)
lua_call_script(frame, e, outcome) ==
  LET pushed == <<CVal("function", "traceback")>> \o frame
      args == IF Len(pushed) < 3 THEN 0 ELSE Len(pushed) - 3
      found == find_lua_function(pushed, e)
      after == Pcall(Replace(found.stk, 3), args, outcome)
      ret == Len(after) - 2
  IN IF Len(frame) < 2 \/ ~found.ok \/ outcome.error THEN <<>>
     ELSE SubSeq(after, Len(after) - ret + 1, Len(after))

(* rpc_dispatch, as far as it is written: dispatch of module rpc, called    *)
(* without arguments.                                                       *)
rpc_dispatch(stk, e, outcome) ==
  LET found == find_lua_function(stk, e)
  IN IF found.ok THEN call_lua_script(found.stk, 0, outcome).stk ELSE found.stk
===============================================================================
