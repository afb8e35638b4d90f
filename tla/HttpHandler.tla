----------------------------- MODULE HttpHandler ------------------------------
(***************************************************************************)
(* Incoming HTTP requests of the httpd program: http_handler, which runs    *)
(* the global Lua function http_request_handler and turns what it returned  *)
(* into a reply, and the one Lua stack that it shares with http_request_cb  *)
(* (src/src/program/httpd/httpd.c, src/src/module/http_util.c).  Neither    *)
(* pops what its script returned: the stack only grows.                     *)
(***************************************************************************)
EXTENDS LuaUtil

CONSTANTS
  MaxReq,       \* bound: how many requests arrive
  MaxCallback,  \* bound: how many callbacks of outgoing requests run
  Results,      \* the outcomes of a script
  Lookups,      \* what find_lua_function may meet
  MinStack      \* LUA_MINSTACK

ASSUME BoundsAssumption == MaxReq \in Nat /\ MaxCallback \in Nat /\ MinStack \in Nat

(* What a script returns: the kinds of its values, or an error.             *)
ScriptResults == [error : BOOLEAN, kinds : Seq(Kinds)]

ASSUME ResultsAssumption == Results \subseteq ScriptResults
ASSUME LookupsAssumption == Lookups \subseteq Environments

VARIABLES
  proc,      \* "up", "crashed", "closed"
  handler,   \* the kind of the global http_request_handler
  stack,     \* the stack of the static lua_State* L, outside any script
  ciTop,     \* how high the Lua API lets that stack grow: L->ci->top
  fits,      \* no push has gone past ciTop
  running,   \* what runs on L: "idle", "handler", "callback"
  arrived,   \* how many requests have been given to http_handler
  called,    \* how many callbacks have been started
  missed,    \* the requests that found no handler
  reply,     \* reply[r]: the replies sent to request r
  given      \* given[r]: what the script returned for r (history)

vars == <<proc, handler, stack, ciTop, fits, running, arrived, called, missed, reply, given>>

Requests == 1..MaxReq

NoResult == [error |-> TRUE, kinds |-> <<>>]

(* The values of a result, as request or callback n finds them.             *)
Outcome(res, who, n) ==
  [error |-> res.error,
   values |-> IF res.error THEN <<>>
              ELSE [i \in 1..Len(res.kinds) |-> Val(res.kinds[i], <<who, n, i>>)]]

(* _init_httpd has registered two libraries and left their tables.          *)
_init_httpd == <<CVal("table", "http"), CVal("table", "http")>>

Init ==
  /\ proc = "up"
  /\ handler \in {"function", "nil"}
  /\ stack = _init_httpd
  /\ ciTop = MinStack
  /\ fits = TRUE
  /\ running = "idle"
  /\ arrived = 0
  /\ called = 0
  /\ missed = {}
  /\ reply = [r \in Requests |-> <<>>]
  /\ given = [r \in Requests |-> NoResult]

-------------------------------------------------------------------------------

(* Pushing n more values is within the promise of the API (api_incr_top).   *)
PushesFit(stk, n) == Len(stk) + n <= ciTop

(* lua_pcall raises the limit when multiple results reach it.               *)
adjustresults(stk) == IF Len(stk) >= ciTop THEN Len(stk) ELSE ciTop

(* The request as a table, on top of the stack.  libevent parses the uri of *)
(* a request before it calls http_handler and answers the ones it cannot    *)
(* parse itself, so the early return for a NULL uri is never taken here.    *)
http_request_to_lua_table(stk) == Append(stk, CVal("table", "request"))

(* The table, a key and a value are on the stack at once.                   *)
TablePeak == 3

OK(value) == [code |-> 200, body |-> value]
InternalError == [code |-> 500, body |-> CVal("text", "Internal Server Error")]

(* evbuffer_add_printf with the string as its format: what is sent when the *)
(* string has conversions in it is not what the script returned.            *)
evbuffer_add_printf(v) == IF v.kind = "format" THEN CVal("text", "garbled") ELSE v

(* What http_handler sends, given what call_lua_script returned and the     *)
(* stack it left.                                                           *)
Reply(ret, stk) ==
  IF ret = 2 /\ ToBoolean(stk[Len(stk) - 1])
  THEN OK(evbuffer_add_printf(stk[Len(stk)]))
  ELSE InternalError

(* Mutants: the return after the first evhttp_send_error is missing; the    *)
(* else branch with the second one is.                                      *)
Replies_twice(ret, stk) ==
  (IF ret # 2 THEN <<InternalError>> ELSE <<>>) \o <<Reply(ret, stk)>>

Replies_silent(ret, stk) ==
  IF ret = 2 /\ ~ToBoolean(stk[Len(stk) - 1]) THEN <<>> ELSE <<Reply(ret, stk)>>

Replies(ret, stk) == <<Reply(ret, stk)>>

(* lua_tostring is NULL, the format of evbuffer_add_printf.                 *)
NullFormat(ret, stk) ==
  ret = 2 /\ ToBoolean(stk[Len(stk) - 1]) /\ ~IsString(stk[Len(stk)])

(* A string with conversions reads arguments that were never passed.        *)
WildFormat(ret, stk) ==
  ret = 2 /\ ToBoolean(stk[Len(stk) - 1]) /\ stk[Len(stk)].kind = "format"

-------------------------------------------------------------------------------

(* http_handler, no handler: it returns, the request is not answered.       *)
HandlerMissing ==
  /\ proc = "up" /\ running = "idle" /\ arrived < MaxReq
  /\ ~find_lua_global_function(stack, handler).ok
  /\ arrived' = arrived + 1
  /\ missed' = missed \cup {arrived + 1}
  /\ stack' = find_lua_global_function(stack, handler).stk
  /\ fits' = (fits /\ PushesFit(stack, 1))
  /\ UNCHANGED <<proc, handler, ciTop, running, called, reply, given>>

(* http_handler up to the call of the script.                               *)
http_handler ==
  LET found == find_lua_global_function(stack, handler) IN
  /\ proc = "up" /\ running = "idle" /\ arrived < MaxReq
  /\ found.ok
  /\ arrived' = arrived + 1
  /\ stack' = http_request_to_lua_table(found.stk)
  /\ fits' = (fits /\ PushesFit(stack, 1) /\ PushesFit(found.stk, TablePeak))
  /\ running' = "handler"
  /\ UNCHANGED <<proc, handler, ciTop, called, missed, reply, given>>

(* While a script runs it may define the handler, or undefine it.           *)
ScriptDefines(kind) ==
  /\ proc = "up" /\ running # "idle"
  /\ handler' = kind
  /\ UNCHANGED <<proc, stack, ciTop, fits, running, arrived, called, missed, reply, given>>

(* http_handler from the return of the script: call_lua_script, the reply.  *)
HandlerReturns(res) ==
  LET c == call_lua_script(stack, 1, Outcome(res, "request", arrived)) IN
  /\ proc = "up" /\ running = "handler"
  /\ ~NullFormat(c.ret, c.stk)
  /\ stack' = c.stk
  /\ ciTop' = adjustresults(c.stk)
  /\ reply' = [reply EXCEPT ![arrived] = @ \o Replies(c.ret, c.stk)]
  /\ given' = [given EXCEPT ![arrived] = res]
  /\ running' = "idle"
  /\ UNCHANGED <<proc, handler, fits, arrived, called, missed>>

HandlerCrashes(res) ==
  LET c == call_lua_script(stack, 1, Outcome(res, "request", arrived)) IN
  /\ proc = "up" /\ running = "handler"
  /\ NullFormat(c.ret, c.stk) \/ WildFormat(c.ret, c.stk)
  /\ proc' = "crashed"
  /\ UNCHANGED <<handler, stack, ciTop, fits, running, arrived, called, missed, reply, given>>

(* http_request_cb, from the event loop.  Nothing but the callback touches  *)
(* the stack of L until the callback returns, so its effect is in one step. *)
CallbackStarts ==
  /\ proc = "up" /\ running = "idle" /\ called < MaxCallback
  /\ called' = called + 1
  /\ running' = "callback"
  /\ UNCHANGED <<proc, handler, stack, ciTop, fits, arrived, missed, reply, given>>

(* The lookup, the call when it succeeds; the results stay on the stack.    *)
CallbackReturns(e, res) ==
  LET found == find_lua_function(stack, e)
      c == call_lua_script(found.stk, 0, Outcome(res, "callback", called))
  IN /\ proc = "up" /\ running = "callback"
     /\ fits' = (fits /\ PushesFit(stack, FindPeak(e)))
     /\ stack' = IF found.ok THEN c.stk ELSE found.stk
     /\ ciTop' = IF found.ok THEN adjustresults(c.stk) ELSE ciTop
     /\ running' = "idle"
     /\ UNCHANGED <<proc, handler, arrived, called, missed, reply, given>>

(* The event loop has ended, and with it the program.                       *)
Shutdown ==
  /\ proc = "up" /\ running = "idle"
  /\ proc' = "closed"
  /\ UNCHANGED <<handler, stack, ciTop, fits, running, arrived, called, missed, reply, given>>

(* The process dies in some other part of the program.                      *)
CrashElsewhere ==
  /\ proc = "up"
  /\ proc' = "crashed"
  /\ UNCHANGED <<handler, stack, ciTop, fits, running, arrived, called, missed, reply, given>>

(* The process has ended.                                                   *)
Ended ==
  /\ proc # "up"
  /\ UNCHANGED vars

Next ==
  \/ HandlerMissing
  \/ http_handler
  \/ \E kind \in {"nil", "function"} : ScriptDefines(kind)
  \/ \E res \in Results : \/ HandlerReturns(res)
                          \/ HandlerCrashes(res)
                          \/ \E e \in Lookups : CallbackReturns(e, res)
  \/ CallbackStarts
  \/ Shutdown
  \/ CrashElsewhere
  \/ Ended

Spec == Init /\ [][Next]_vars

-------------------------------------------------------------------------------

(* Types of the state of http_handler and of its Lua stack.                 *)
TypeOK ==
  /\ proc \in {"up", "crashed", "closed"}
  /\ handler \in {"function", "nil"}
  /\ stack \in Seq(Values)
  /\ ciTop \in Nat
  /\ fits \in BOOLEAN
  /\ running \in {"idle", "handler", "callback"}
  /\ arrived \in 0..MaxReq
  /\ called \in 0..MaxCallback
  /\ missed \in SUBSET Requests
  /\ given \in [Requests -> ScriptResults]
  /\ reply \in [Requests -> Seq([code : {200, 500}, body : Values])]

(* The script for r returned true (or a value that counts as true) and a    *)
(* second value.                                                            *)
Succeeded(r) ==
  /\ ~given[r].error
  /\ Len(given[r].kinds) = 2
  /\ given[r].kinds[1] \notin {"nil", "false"}

(* A reply is decided by what the script returned for its own request,      *)
(* never by what earlier requests and callbacks left on the stack: 200 with *)
(* the string of this very run, or 500.                                     *)
RepliesWithItsResult ==
  \A r \in Requests : \A i \in 1..Len(reply[r]) :
    /\ reply[r][i].code = 200 <=> Succeeded(r)
    /\ Succeeded(r) /\ given[r].kinds[2] = "text"
         => reply[r][i].body = Val("text", <<"request", r, 2>>)

(* Every request is answered once, apart from the ones that found no        *)
(* handler and the one being handled.                                       *)
AnsweredOnce ==
  \A r \in Requests :
    Len(reply[r]) = IF \/ r > arrived
                       \/ r \in missed
                       \/ r = arrived /\ running = "handler"
                    THEN 0 ELSE 1

(* http_request_handler and its argument are on the stack while it runs,    *)
(* for a request that has found it.                                         *)
HandlerOnStack ==
  running = "handler" => Len(stack) >= 2 /\ arrived >= 1 /\ arrived \notin missed

(* The inductive invariant behind the two properties above.                 *)
IInv ==
  /\ TypeOK
  /\ HandlerOnStack
  /\ missed \subseteq 1..arrived
  /\ AnsweredOnce
  /\ RepliesWithItsResult

(* No call of the Lua API pushes past the limit of its stack frame          *)
(* (finding: nothing pops the results of http_request_handler).             *)
PushesWithinLimit == fits
===============================================================================
