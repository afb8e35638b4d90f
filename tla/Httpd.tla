-------------------------------- MODULE Httpd ---------------------------------
(***************************************************************************)
(* The httpd program (as-game-server -h): main, init_engine, init_httpd,    *)
(* the event loop in which incoming requests (HttpHandler) and callbacks of *)
(* outgoing ones (HttpRequest) take turns on one Lua state, and the way out *)
(* through _close_httpd (src/src/main.c, src/src/module/init_engine.c,      *)
(* src/src/program/httpd/httpd.c).                                          *)
(***************************************************************************)
EXTENDS Integers, Sequences

CONSTANTS Out, ArgLists, Faults,                                  \* HttpRequest
          MaxReq, MaxCallback, Results, Lookups, MinStack \* HttpHandler

VARIABLES
  phase,   \* where main stands
  todo,    \* what the _close_httpd in progress has still to look at
  ptr,     \* ptr[h]: the static pointer h of httpd.c
  obj,     \* obj[h]: the object it was last given
  proc, call, pool, req, evcon, cbs,                                  \* HttpRequest
  handler, stack, ciTop, fits, running, arrived, called, missed, reply, given
                                                                      \* HttpHandler

mainVars == <<phase, todo, ptr, obj>>
outVars == <<call, pool, req, evcon, cbs>>
inVars == <<handler, stack, ciTop, fits, running, arrived, called, missed, reply, given>>
vars == <<mainVars, proc, outVars, inVars>>

Requests == INSTANCE HttpRequest
Handling == INSTANCE HttpHandler

Handles == {"L", "base", "http"}

(* init_engine, then the steps of init_httpd, its event loop, and the rest  *)
(* of main.                                                                 *)
Phases == {"engine", "init_lua", "event_base_new", "init_http", "bind",
           "loop", "close_httpd", "close_engine", "ended"}

Init ==
  /\ phase = "engine"
  /\ todo = <<>>
  /\ ptr = [h \in Handles |-> "NULL"]
  /\ obj = [h \in Handles |-> "none"]
  /\ Requests!Init
  /\ Handling!Init

-------------------------------------------------------------------------------

(* init_engine: init_log ends the program when it has no log directory.     *)
init_engine ==
  /\ phase = "engine" /\ proc = "up"
  /\ \/ phase' = "init_lua" /\ UNCHANGED proc
     \/ phase' = "ended" /\ proc' = "closed"
  /\ UNCHANGED <<todo, ptr, obj, outVars, inVars>>

(* _close_httpd looks at the three pointers in this order.                  *)
_close_httpd == <<"L", "http", "base">>

(* One step of init_httpd makes one object, or fails.  Where it fails, the  *)
(* objects made before are either closed at once or left to close_httpd.    *)
Open(h, from, to) ==
  /\ phase = from /\ todo = <<>> /\ proc = "up"
  /\ phase' = to
  /\ ptr' = [ptr EXCEPT ![h] = "set"]
  /\ obj' = [obj EXCEPT ![h] = "live"]
  /\ UNCHANGED <<todo, proc, outVars, inVars>>

(* Mutant: a failed step is tried again.                                    *)
OpenFails_retrying(from, cleanup) ==
  /\ phase = from /\ todo = <<>> /\ proc = "up"
  /\ todo' = cleanup
  /\ UNCHANGED <<phase, ptr, obj, proc, outVars, inVars>>

OpenFails(from, cleanup) ==
  /\ phase = from /\ todo = <<>> /\ proc = "up"
  /\ phase' = "close_httpd"
  /\ todo' = cleanup
  /\ UNCHANGED <<ptr, obj, proc, outVars, inVars>>

init_httpd ==
  \/ Open("L", "init_lua", "event_base_new")
  \/ Open("base", "event_base_new", "init_http")
  \/ Open("http", "init_http", "bind")
  \/ OpenFails("init_lua", <<>>)
  \/ OpenFails("event_base_new", <<>>)
  \/ OpenFails("init_http", _close_httpd)
  \/ OpenFails("bind", _close_httpd)

(* The socket is bound, the libraries are registered; _start.               *)
_start ==
  /\ phase = "bind" /\ proc = "up"
  /\ phase' = IF \A h \in Handles : ptr[h] = "set" THEN "loop" ELSE "close_httpd"
  /\ UNCHANGED <<todo, ptr, obj, proc, outVars, inVars>>

(* Mutant: a script can leave the loop, and main runs on under it.          *)
LoopEnds_inside ==
  /\ phase = "loop" /\ proc = "up"
  /\ phase' = "close_httpd"
  /\ UNCHANGED <<todo, ptr, obj, proc, outVars, inVars>>

(* event_base_dispatch returns.                                             *)
LoopEnds ==
  /\ phase = "loop" /\ proc = "up" /\ running = "idle"
  /\ phase' = "close_httpd"
  /\ UNCHANGED <<todo, ptr, obj, proc, outVars, inVars>>

(* main calls close_httpd once init_httpd has returned.                     *)
close_httpd ==
  /\ phase = "close_httpd" /\ todo = <<>> /\ proc = "up"
  /\ phase' = "close_engine"
  /\ todo' = _close_httpd
  /\ UNCHANGED <<ptr, obj, proc, outVars, inVars>>

(* Mutant: the pointers are not reset.                                      *)
CloseHandle_dangling ==
  /\ todo # <<>> /\ proc = "up"
  /\ LET h == Head(todo) IN
       obj' = [obj EXCEPT ![h] = IF ptr[h] = "set" THEN Requests!Free(@) ELSE @]
  /\ todo' = Tail(todo)
  /\ UNCHANGED <<phase, ptr, proc, outVars, inVars>>

(* One of the three ifs of _close_httpd: close what is set and reset it.    *)
CloseHandle ==
  /\ todo # <<>> /\ proc = "up"
  /\ LET h == Head(todo) IN
       /\ ptr' = [ptr EXCEPT ![h] = "NULL"]
       /\ obj' = [obj EXCEPT ![h] = IF ptr[h] = "set" THEN Requests!Free(@) ELSE @]
  /\ todo' = Tail(todo)
  /\ UNCHANGED <<phase, proc, outVars, inVars>>

(* Mutant: main ends without close_engine.                                  *)
close_engine_missing ==
  /\ phase = "close_engine" /\ todo = <<>> /\ proc = "up"
  /\ phase' = "ended"
  /\ proc' = "closed"
  /\ UNCHANGED <<todo, ptr, obj, outVars, inVars>>

(* close_engine: apr_terminate takes the pools of the calls still open.     *)
close_engine ==
  /\ phase = "close_engine" /\ todo = <<>>
  /\ phase' = "ended"
  /\ Requests!Shutdown
  /\ UNCHANGED <<todo, ptr, obj, inVars>>

MainStep == init_engine \/ init_httpd \/ _start \/ close_httpd \/ CloseHandle \/ close_engine

-------------------------------------------------------------------------------

(* The event loop runs one callback at a time: nothing else may start while *)
(* a script runs, and only a running script makes calls.                    *)
Idle == running = "idle" /\ cbs = <<>>

InLoop == phase = "loop" /\ UNCHANGED mainVars

Incoming ==
  /\ InLoop /\ Idle
  /\ \/ Handling!HandlerMissing
     \/ Handling!http_handler
  /\ UNCHANGED outVars

(* The script of http_handler returns, after the calls it made.             *)
HandlerReturns ==
  /\ InLoop /\ cbs = <<>>
  /\ \E res \in Results : Handling!HandlerReturns(res) \/ Handling!HandlerCrashes(res)
  /\ UNCHANGED outVars

ScriptDefines ==
  /\ InLoop
  /\ \E kind \in {"nil", "function"} : Handling!ScriptDefines(kind)
  /\ UNCHANGED outVars

(* http.get or http.post by the running script, or by a callback inside it. *)
ScriptCalls(o) ==
  /\ InLoop /\ running # "idle"
  /\ Requests!lua_http_request_get(o) \/ Requests!lua_http_request_post(o)
  /\ UNCHANGED inVars

(* An outgoing request completes.                                           *)
Completes(o) ==
  /\ InLoop /\ Idle
  /\ \/ Requests!http_request_cb(o) /\ Handling!CallbackStarts
     \/ Requests!http_request_cb_null(o) /\ UNCHANGED inVars

(* A callback returns: the one the loop started leaves its results on the   *)
(* stack of L, one inside a script leaves them in the frame of that call.   *)
CallbackReturns(o) ==
  /\ InLoop
  /\ Requests!CallbackReturns(o)
  /\ IF running = "callback" /\ Len(cbs) = 1
     THEN \E e \in Lookups, res \in Results : Handling!CallbackReturns(e, res)
     ELSE UNCHANGED inVars

LoopStep ==
  \/ Incoming
  \/ HandlerReturns
  \/ ScriptDefines
  \/ \E o \in Out : ScriptCalls(o) \/ Completes(o) \/ CallbackReturns(o)

Ended ==
  /\ proc # "up"
  /\ UNCHANGED vars

Next == MainStep \/ LoopEnds \/ LoopStep \/ Ended

Spec == Init /\ [][Next]_vars

(* main runs on, scripts return, libevent completes what it has accepted.   *)
Fairness ==
  /\ WF_vars(MainStep)
  /\ WF_vars(HandlerReturns)
  /\ \A o \in Out : /\ WF_vars(Completes(o))
                    /\ WF_vars(CallbackReturns(o))

FairSpec == Spec /\ Fairness

-------------------------------------------------------------------------------

(* What the parts of the program are shown to do on their own, they do in   *)
(* the program: its steps are steps of each of them (http_handler,          *)
(* http_request_cb and the scripts' calls sharing one state and one loop).  *)
PartsSpec == Requests!Spec /\ Handling!Spec

(* Each of the Lua state, the HTTP server and the event base is closed once *)
(* on every way through init_httpd and close_httpd, _close_httpd being      *)
(* called twice on some, and none is left when the program ends by itself.  *)
(* The server is never left without the event base it was made on.          *)
ClosedOnce ==
  /\ \A h \in Handles : obj[h] # "corrupt"
  /\ proc = "closed" => \A h \in Handles : obj[h] # "live"
  /\ obj["http"] = "live" => obj["base"] = "live"

(* Scripts run, and callbacks are active, only while the Lua state, the     *)
(* event base and the HTTP server are there.                                *)
ScriptsHaveTheirState ==
  running # "idle" \/ cbs # <<>> => \A h \in Handles : obj[h] = "live" /\ ptr[h] = "set"

(* A request whose handler runs is answered, however many calls and         *)
(* callbacks its script goes through, unless the process dies on the way.   *)
HandledIsAnswered ==
  \A r \in 1..MaxReq :
    (arrived = r /\ running = "handler") ~> (reply[r] # <<>> \/ proc # "up")

(* An outgoing request that fails does not take the program with it         *)
(* (finding: http_request_cb uses the NULL request it is given).            *)
ErrorsAreSurvived == proc # "crashed"

(* A start that does not reach the event loop ends the program.             *)
StartsOrEnds == phase = "engine" ~> (phase = "loop" \/ proc = "closed")
===============================================================================
