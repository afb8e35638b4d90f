------------------------------ MODULE HttpdProofs -----------------------------
(***************************************************************************)
(* Proofs about the httpd program as a whole, for any set of outgoing       *)
(* calls, any number of requests and any scripts.  MainInv relates where    *)
(* main stands, the pointers of httpd.c, the objects behind them, and what  *)
(* runs on the Lua state.                                                   *)
(***************************************************************************)
EXTENDS Httpd, SequenceTheorems, TLAPS

Rests == {<<>>, <<"L", "http", "base">>, <<"http", "base">>, <<"base">>}

\* The pointers and the objects agree, so that _close_httpd, called a second
\* time, finds NULL where it has closed something.
HandlesInv ==
  /\ phase \in Phases /\ todo \in Rests
  /\ ptr \in [Handles -> {"NULL", "set"}]
  /\ obj \in [Handles -> {"none", "live", "freed"}]
  /\ \A h \in Handles : ptr[h] = "set" <=> obj[h] = "live"

\* What is there at each step of init_httpd and of the way out.
PhasesInv ==
  /\ todo # <<>> => phase \in {"close_httpd", "close_engine"}
  /\ phase \in {"engine", "init_lua", "ended"} => \A h \in Handles : ptr[h] = "NULL"
  /\ phase = "event_base_new" => ptr["L"] = "set" /\ ptr["base"] = "NULL" /\ ptr["http"] = "NULL"
  /\ phase = "init_http" => ptr["L"] = "set" /\ ptr["base"] = "set" /\ ptr["http"] = "NULL"
  /\ phase \in {"bind", "loop"} => \A h \in Handles : ptr[h] = "set"
  /\ phase = "close_engine" =>
       /\ ptr["L"] = "set" => todo = <<"L", "http", "base">>
       /\ ptr["http"] = "set" => todo \in {<<"L", "http", "base">>, <<"http", "base">>}
       /\ ptr["base"] = "set" => todo # <<>>
  /\ ptr["http"] = "set" => ptr["base"] = "set" /\ todo # <<"base">>
  /\ proc = "closed" => phase = "ended"

\* Scripts run in the loop, and callbacks inside scripts.
ScriptsInv ==
  /\ cbs \in Seq(Out)
  /\ running # "idle" => phase = "loop"
  /\ cbs # <<>> => running # "idle"

\* Nothing has been asked of libevent before the program is up.
StartInv ==
  phase = "engine" => /\ running = "idle" /\ cbs = <<>>
                      /\ call = [o \in Out |-> "unused"]
                      /\ pool = [o \in Out |-> "none"]

MainInv == HandlesInv /\ PhasesInv /\ ScriptsInv /\ StartInv

-------------------------------------------------------------------------------

\* Where a _close_httpd stands can be told from what it has still to look at.
LEMMA RestsDiffer ==
  /\ <<>> # <<"base">>
  /\ _close_httpd # <<"base">>
  /\ _close_httpd # <<>>
<1>1. Len(<<>>) = 0 /\ Len(<<"base">>) = 1 /\ Len(_close_httpd) = 3
  BY DEF _close_httpd
<1> QED BY <1>1

LEMMA InitMainInv == Init => MainInv
<1> SUFFICES ASSUME Init PROVE MainInv
  OBVIOUS
<1>1. HandlesInv
  BY DEF Init, HandlesInv, Phases, Handles, Rests
<1>2. PhasesInv
  <2>1. /\ phase = "engine" /\ todo = <<>> /\ proc = "up"
        /\ \A h \in Handles : ptr[h] = "NULL"
    BY DEF Init, Requests!Init
  <2>2. ptr["http"] = "NULL"
    BY <2>1 DEF Handles
  <2> QED BY <2>1, <2>2 DEF PhasesInv
<1>3. ScriptsInv
  BY DEF Init, ScriptsInv, Requests!Init, Handling!Init
<1>4. StartInv
  BY DEF Init, StartInv, Requests!Init, Handling!Init
<1> QED BY <1>1, <1>2, <1>3, <1>4 DEF MainInv

\* A step that leaves main, the process and what runs alone keeps MainInv.
LEMMA QuietMain ==
  ASSUME MainInv, UNCHANGED <<mainVars, proc, outVars, inVars>>
  PROVE  MainInv'
BY DEF MainInv, HandlesInv, PhasesInv, ScriptsInv, StartInv, mainVars, outVars, inVars

LEMMA EngineStep == ASSUME MainInv, init_engine PROVE MainInv'
<1>1. HandlesInv'
  BY DEF MainInv, HandlesInv, init_engine, Phases
<1>2. PhasesInv'
  BY DEF MainInv, PhasesInv, HandlesInv, init_engine
<1>3. ScriptsInv' /\ StartInv'
  BY DEF MainInv, ScriptsInv, StartInv, init_engine, outVars, inVars
<1> QED BY <1>1, <1>2, <1>3 DEF MainInv

\* One object more: the base before the server, all three before the loop.
LEMMA OpenStep ==
  ASSUME MainInv,
         \/ Open("L", "init_lua", "event_base_new")
         \/ Open("base", "event_base_new", "init_http")
         \/ Open("http", "init_http", "bind")
  PROVE  MainInv'
<1>1. CASE Open("L", "init_lua", "event_base_new")
  <2>1. HandlesInv'
    BY <1>1 DEF MainInv, HandlesInv, Open, Phases, Handles
  <2>2. PhasesInv'
    BY <1>1 DEF MainInv, PhasesInv, HandlesInv, Open, Handles
  <2>3. ScriptsInv' /\ StartInv'
    BY <1>1 DEF MainInv, ScriptsInv, StartInv, Open, outVars, inVars
  <2> QED BY <2>1, <2>2, <2>3 DEF MainInv
<1>2. CASE Open("base", "event_base_new", "init_http")
  <2>1. HandlesInv'
    BY <1>2 DEF MainInv, HandlesInv, Open, Phases, Handles
  <2>2. PhasesInv'
    BY <1>2 DEF MainInv, PhasesInv, HandlesInv, Open, Handles
  <2>3. ScriptsInv' /\ StartInv'
    BY <1>2 DEF MainInv, ScriptsInv, StartInv, Open, outVars, inVars
  <2> QED BY <2>1, <2>2, <2>3 DEF MainInv
<1>3. CASE Open("http", "init_http", "bind")
  <2>1. HandlesInv'
    BY <1>3 DEF MainInv, HandlesInv, Open, Phases, Handles
  <2>2. PhasesInv'
    <3>1. /\ phase' = "bind" /\ todo' = <<>> /\ proc' = "up"
          /\ ptr["L"] = "set" /\ ptr["base"] = "set"
          /\ ptr' = [ptr EXCEPT !["http"] = "set"]
      BY <1>3 DEF MainInv, PhasesInv, HandlesInv, Open, Handles
    <3>2. \A h \in Handles : ptr'[h] = "set"
      BY <3>1 DEF MainInv, HandlesInv, Handles
    <3>3. ptr'["base"] = "set"
      BY <3>2 DEF Handles
    <3> QED BY <3>1, <3>2, <3>3, RestsDiffer DEF PhasesInv
  <2>3. ScriptsInv' /\ StartInv'
    BY <1>3 DEF MainInv, ScriptsInv, StartInv, Open, outVars, inVars
  <2> QED BY <2>1, <2>2, <2>3 DEF MainInv
<1> QED BY <1>1, <1>2, <1>3

\* init_httpd fails after any of its steps, and closes what it has made or not.
LEMMA OpenFailsStep ==
  ASSUME MainInv,
         NEW from \in {"init_lua", "event_base_new", "init_http", "bind"},
         NEW cleanup \in {<<>>, _close_httpd},
         OpenFails(from, cleanup)
  PROVE  MainInv'
<1>1. HandlesInv'
  BY DEF MainInv, HandlesInv, OpenFails, Phases, Rests, _close_httpd
<1>2. PhasesInv'
  <2>1. cleanup # <<"base">>
    BY RestsDiffer
  <2>2. /\ phase' = "close_httpd" /\ todo' = cleanup /\ ptr' = ptr /\ proc' = "up"
        /\ ptr["http"] = "set" => ptr["base"] = "set"
    BY DEF OpenFails, MainInv, PhasesInv
  <2> QED BY <2>1, <2>2 DEF PhasesInv
<1>3. ScriptsInv' /\ StartInv'
  BY DEF MainInv, ScriptsInv, StartInv, OpenFails, outVars, inVars
<1> QED BY <1>1, <1>2, <1>3 DEF MainInv

LEMMA StartStep == ASSUME MainInv, _start PROVE MainInv'
<1>1. phase = "bind" /\ phase' = "loop" /\ UNCHANGED <<todo, ptr, obj, proc, outVars, inVars>>
  BY DEF _start, MainInv, PhasesInv
<1>2. HandlesInv'
  BY <1>1 DEF MainInv, HandlesInv, Phases
<1>3. PhasesInv'
  BY <1>1 DEF MainInv, PhasesInv, HandlesInv
<1>4. ScriptsInv' /\ StartInv'
  BY <1>1 DEF MainInv, ScriptsInv, StartInv, outVars, inVars
<1> QED BY <1>2, <1>3, <1>4 DEF MainInv

\* The loop is left, or main calls close_httpd.
LEMMA LeaveStep == ASSUME MainInv, LoopEnds \/ close_httpd PROVE MainInv'
<1>1. HandlesInv'
  BY DEF MainInv, HandlesInv, LoopEnds, close_httpd, Phases, Rests, _close_httpd
<1>2. PhasesInv'
  BY DEF MainInv, PhasesInv, HandlesInv, LoopEnds, close_httpd, Handles, _close_httpd
<1>3. ScriptsInv' /\ StartInv'
  BY DEF MainInv, ScriptsInv, StartInv, LoopEnds, close_httpd, outVars, inVars
<1> QED BY <1>1, <1>2, <1>3 DEF MainInv

\* What _close_httpd has still to look at, one step later.
LEMMA RestsShrink ==
  /\ Head(<<"L", "http", "base">>) = "L" /\ Tail(<<"L", "http", "base">>) = <<"http", "base">>
  /\ Head(<<"http", "base">>) = "http" /\ Tail(<<"http", "base">>) = <<"base">>
  /\ Head(<<"base">>) = "base" /\ Tail(<<"base">>) = <<>>
OBVIOUS

LEMMA CloseStep == ASSUME MainInv, CloseHandle PROVE MainInv'
<1>1. PICK h \in Handles : Head(todo) = h
  BY RestsShrink DEF CloseHandle, MainInv, HandlesInv, Rests, Handles
<1>2. /\ ptr' = [ptr EXCEPT ![h] = "NULL"]
      /\ obj' = [obj EXCEPT ![h] = IF ptr[h] = "set" THEN "freed" ELSE @]
  BY <1>1 DEF CloseHandle, MainInv, HandlesInv, Requests!Free
<1>3. UNCHANGED <<phase, proc, outVars, inVars>>
  BY DEF CloseHandle
<1>4. \/ todo = <<"L", "http", "base">> /\ h = "L" /\ todo' = <<"http", "base">>
      \/ todo = <<"http", "base">> /\ h = "http" /\ todo' = <<"base">>
      \/ todo = <<"base">> /\ h = "base" /\ todo' = <<>>
  BY <1>1, RestsShrink DEF CloseHandle, MainInv, HandlesInv, Rests
<1>5. HandlesInv'
  BY <1>2, <1>3, <1>4 DEF MainInv, HandlesInv, Rests
<1>6. PhasesInv'
  BY <1>2, <1>3, <1>4, SMTT(60) DEF MainInv, PhasesInv, HandlesInv, Handles
<1>7. ScriptsInv' /\ StartInv'
  BY <1>3 DEF MainInv, ScriptsInv, StartInv, outVars, inVars
<1> QED BY <1>5, <1>6, <1>7 DEF MainInv

LEMMA EndStep == ASSUME MainInv, close_engine PROVE MainInv'
<1>1. HandlesInv'
  BY DEF MainInv, HandlesInv, close_engine, Phases
<1>2. PhasesInv'
  BY DEF MainInv, PhasesInv, HandlesInv, close_engine, Handles
<1>3. ScriptsInv' /\ StartInv'
  BY DEF MainInv, ScriptsInv, StartInv, close_engine, Requests!Shutdown, inVars
<1> QED BY <1>1, <1>2, <1>3 DEF MainInv

\* In the loop only what runs, the calls and the process change; the process
\* does not end by itself there.
LEMMA LoopKeeps ==
  ASSUME MainInv, InLoop, cbs' \in Seq(Out), cbs' # <<>> => running' # "idle",
         proc' = proc \/ proc' = "crashed"
  PROVE  MainInv'
<1>1. HandlesInv'
  BY DEF MainInv, HandlesInv, InLoop, mainVars
<1>2. PhasesInv'
  BY DEF MainInv, PhasesInv, InLoop, mainVars
<1>3. ScriptsInv' /\ StartInv'
  BY DEF MainInv, ScriptsInv, StartInv, InLoop, mainVars
<1> QED BY <1>1, <1>2, <1>3 DEF MainInv

\* The list of active callbacks after one of them has returned.
LEMMA FrontOfCallbacks ==
  ASSUME cbs \in Seq(Out), cbs # <<>>
  PROVE  /\ Requests!Front(cbs) \in Seq(Out)
         /\ Len(cbs) = 1 => Requests!Front(cbs) = <<>>
<1>1. Len(cbs) \in Nat /\ Len(cbs) > 0
  BY EmptySeq
<1> DEFINE n == Len(cbs) - 1
<1>2. n \in Nat /\ n <= Len(cbs)
  BY <1>1
<1>3. SubSeq(cbs, 1, n) \in Seq(Out) /\ Len(SubSeq(cbs, 1, n)) = n
  <2> HIDE DEF n
  <2> QED BY <1>2
<1>4. n = 0 => SubSeq(cbs, 1, n) = <<>>
  <2> HIDE DEF n
  <2> QED BY <1>3, EmptySeq
<1> QED BY <1>1, <1>3, <1>4 DEF Requests!Front

LEMMA LoopStepKeeps == ASSUME MainInv, LoopStep PROVE MainInv'
<1>0. cbs \in Seq(Out) /\ (cbs # <<>> => running # "idle")
  BY DEF MainInv, ScriptsInv
<1>1. CASE Incoming
  BY <1>0, <1>1, LoopKeeps
  DEF Incoming, Handling!HandlerMissing, Handling!http_handler, Idle, outVars
<1>2. CASE HandlerReturns
  BY <1>0, <1>2, LoopKeeps
  DEF HandlerReturns, Handling!HandlerReturns, Handling!HandlerCrashes, outVars
<1>3. CASE ScriptDefines
  BY <1>0, <1>3, LoopKeeps DEF ScriptDefines, Handling!ScriptDefines, outVars
<1>4. ASSUME NEW o \in Out, ScriptCalls(o) PROVE MainInv'
  <2>1. InLoop /\ running' # "idle"
    BY <1>4 DEF ScriptCalls, inVars
  <2>2. Requests!lua_http_request_get(o)
    BY <1>4 DEF ScriptCalls, Requests!lua_http_request_post
  <2>3. cbs' = cbs \/ cbs' = Append(cbs, o)
    BY <2>2
    DEF Requests!lua_http_request_get, Requests!RefuseArguments, Requests!DereferenceAddress,
        Requests!RefuseRecord, Requests!RefuseRequest, Requests!AcceptRequest,
        Requests!AcceptInside
  <2>4. proc' = proc \/ proc' = "crashed"
    BY <2>2
    DEF Requests!lua_http_request_get, Requests!RefuseArguments, Requests!DereferenceAddress,
        Requests!RefuseRecord, Requests!RefuseRequest, Requests!AcceptRequest,
        Requests!AcceptInside
  <2>5. cbs' \in Seq(Out)
    BY <1>0, <2>3
  <2> QED BY <2>1, <2>4, <2>5, LoopKeeps
<1>5. ASSUME NEW o \in Out, Completes(o) PROVE MainInv'
  <2>1. CASE Requests!http_request_cb(o) /\ Handling!CallbackStarts
    <3>1. InLoop /\ running' # "idle" /\ cbs' = <<o>> /\ proc' = proc
      BY <1>5, <2>1 DEF Completes, Requests!http_request_cb, Handling!CallbackStarts
    <3> QED BY <3>1, LoopKeeps
  <2>2. CASE Requests!http_request_cb_null(o) /\ UNCHANGED inVars
    <3>1. InLoop /\ cbs' = cbs /\ running' = running /\ proc' = "crashed"
      BY <1>5, <2>2 DEF Completes, Requests!http_request_cb_null, inVars
    <3> QED BY <1>0, <3>1, LoopKeeps
  <2> QED BY <1>5, <2>1, <2>2 DEF Completes
<1>6. ASSUME NEW o \in Out, CallbackReturns(o) PROVE MainInv'
  <2>1. InLoop /\ proc' = proc /\ cbs # <<>> /\ cbs' = Requests!Front(cbs)
    BY <1>6 DEF CallbackReturns, Requests!CallbackReturns
  <2>2. cbs' \in Seq(Out) /\ (Len(cbs) = 1 => cbs' = <<>>)
    BY <1>0, <2>1, FrontOfCallbacks
  <2>3. cbs' # <<>> => running' = running
    BY <1>6, <2>2 DEF CallbackReturns, inVars
  <2> QED BY <1>0, <2>1, <2>2, <2>3, LoopKeeps
<1> QED BY <1>1, <1>2, <1>3, <1>4, <1>5, <1>6 DEF LoopStep

LEMMA StepMainInv == ASSUME MainInv, [Next]_vars PROVE MainInv'
<1>1. CASE init_httpd
  <2>1. _close_httpd \in {<<>>, _close_httpd} /\ <<>> \in {<<>>, _close_httpd}
    OBVIOUS
  <2> QED BY <1>1, <2>1, OpenStep, OpenFailsStep DEF init_httpd
<1>2. CASE UNCHANGED vars
  BY <1>2, QuietMain DEF vars
<1> QED
  BY <1>1, <1>2, EngineStep, StartStep, LeaveStep, CloseStep, EndStep, LoopStepKeeps
  DEF Next, MainStep, Ended

THEOREM MainInvariant == Spec => []MainInv
BY InitMainInv, StepMainInv, PTL DEF Spec

\* The Lua state, the event base and the HTTP server are each closed exactly
\* once by _close_httpd, which runs once or twice on every way out of init_httpd
\* and main, the server before the base it was made on.
THEOREM HandlesClosedOnce == Spec => []ClosedOnce
<1>1. MainInv => ClosedOnce
  BY DEF MainInv, HandlesInv, PhasesInv, ClosedOnce, Handles
<1> QED BY <1>1, MainInvariant, PTL

\* No handler and no callback runs on a Lua state that _close_httpd has closed.
THEOREM ScriptsRunOnLiveState == Spec => []ScriptsHaveTheirState
<1>1. MainInv => ScriptsHaveTheirState
  BY DEF MainInv, HandlesInv, PhasesInv, ScriptsInv, ScriptsHaveTheirState
<1> QED BY <1>1, MainInvariant, PTL

-------------------------------------------------------------------------------
(* The steps of the program are steps of its two parts. *)

\* The end of a program that never started, seen by the outgoing requests.
LEMMA NothingToEnd ==
  ASSUME MainInv, init_engine, proc' # proc
  PROVE  Requests!Shutdown
<1>1. /\ phase = "engine" /\ proc = "up" /\ proc' = "closed"
      /\ UNCHANGED <<call, pool, req, evcon, cbs>>
  BY DEF init_engine, outVars
<1>2. cbs = <<>> /\ call = [o \in Out |-> "unused"] /\ pool = [o \in Out |-> "none"]
  BY <1>1 DEF MainInv, StartInv
<1>3. call = [o \in Out |-> IF call[o] = "pending" THEN "abandoned" ELSE call[o]]
  BY <1>2
<1>4. pool = [o \in Out |-> IF pool[o] = "live" THEN "freed" ELSE pool[o]]
  BY <1>2
<1> QED BY <1>1, <1>2, <1>3, <1>4 DEF Requests!Shutdown

LEMMA StepsOfRequests ==
  ASSUME MainInv, [Next]_vars
  PROVE  [Requests!Next]_(Requests!vars)
<1>1. CASE init_engine
  <2>1. CASE proc' = proc
    BY <1>1, <2>1 DEF init_engine, outVars, Requests!vars
  <2>2. CASE proc' # proc
    BY <1>1, <2>2, NothingToEnd DEF Requests!Next
  <2> QED BY <2>1, <2>2
<1>2. CASE init_httpd \/ _start \/ close_httpd \/ CloseHandle \/ LoopEnds
  BY <1>2
  DEF init_httpd, Open, OpenFails, _start, close_httpd, CloseHandle, LoopEnds, outVars,
      Requests!vars
<1>3. CASE close_engine
  BY <1>3 DEF close_engine, Requests!Next
<1>4. CASE Incoming \/ ScriptDefines
  BY <1>4
  DEF Incoming, ScriptDefines, Handling!HandlerMissing, Handling!http_handler,
      Handling!ScriptDefines, outVars, Requests!vars
<1>5. CASE HandlerReturns
  BY <1>5
  DEF HandlerReturns, Handling!HandlerReturns, Handling!HandlerCrashes, outVars,
      Requests!vars, Requests!Next, Requests!CrashElsewhere
<1>6. ASSUME NEW o \in Out, ScriptCalls(o) \/ Completes(o) \/ CallbackReturns(o)
      PROVE  Requests!Next
  BY <1>6 DEF ScriptCalls, Completes, CallbackReturns, Requests!Next
<1>7. CASE UNCHANGED vars
  BY <1>7 DEF vars, outVars, Requests!vars
<1> QED BY <1>1, <1>2, <1>3, <1>4, <1>5, <1>6, <1>7 DEF Next, MainStep, LoopStep, Ended

LEMMA StepsOfHandling ==
  ASSUME MainInv, [Next]_vars
  PROVE  [Handling!Next]_(Handling!vars)
<1>1. CASE init_engine
  <2>1. CASE proc' = proc
    BY <1>1, <2>1 DEF init_engine, inVars, Handling!vars
  <2>2. CASE proc' # proc
    BY <1>1, <2>2
    DEF init_engine, inVars, MainInv, StartInv, Handling!Shutdown, Handling!Next
  <2> QED BY <2>1, <2>2
<1>2. CASE init_httpd \/ _start \/ close_httpd \/ CloseHandle \/ LoopEnds
  BY <1>2
  DEF init_httpd, Open, OpenFails, _start, close_httpd, CloseHandle, LoopEnds, inVars,
      Handling!vars
<1>3. CASE close_engine
  BY <1>3
  DEF close_engine, Requests!Shutdown, inVars, MainInv, ScriptsInv, Handling!Shutdown,
      Handling!Next
<1>4. CASE Incoming \/ ScriptDefines \/ HandlerReturns
  BY <1>4 DEF Incoming, ScriptDefines, HandlerReturns, Handling!Next
<1>5. ASSUME NEW o \in Out, ScriptCalls(o)
      PROVE  [Handling!Next]_(Handling!vars)
  <2>1. Requests!lua_http_request_get(o) /\ UNCHANGED inVars
    BY <1>5 DEF ScriptCalls, Requests!lua_http_request_post
  <2>2. proc' = proc \/ (proc = "up" /\ proc' = "crashed")
    BY <2>1
    DEF Requests!lua_http_request_get, Requests!RefuseArguments, Requests!DereferenceAddress,
        Requests!RefuseRecord, Requests!RefuseRequest, Requests!AcceptRequest,
        Requests!AcceptInside
  <2> QED BY <2>1, <2>2 DEF inVars, Handling!vars, Handling!CrashElsewhere, Handling!Next
<1>6. ASSUME NEW o \in Out, Completes(o)
      PROVE  [Handling!Next]_(Handling!vars)
  BY <1>6
  DEF Completes, Requests!http_request_cb_null, inVars, Handling!CrashElsewhere, Handling!Next
<1>7. ASSUME NEW o \in Out, CallbackReturns(o)
      PROVE  [Handling!Next]_(Handling!vars)
  <2>1. CASE running = "callback" /\ Len(cbs) = 1
    BY <1>7, <2>1 DEF CallbackReturns, Handling!Next
  <2>2. CASE ~(running = "callback" /\ Len(cbs) = 1)
    BY <1>7, <2>2 DEF CallbackReturns, Requests!CallbackReturns, inVars, Handling!vars
  <2> QED BY <2>1, <2>2
<1>8. CASE UNCHANGED vars
  BY <1>8 DEF vars, inVars, Handling!vars
<1> QED
  BY <1>1, <1>2, <1>3, <1>4, <1>5, <1>6, <1>7, <1>8 DEF Next, MainStep, LoopStep, Ended

\* Everything shown of the outgoing requests (HttpRequest) and of the handler
\* and its stack (HttpHandler) on their own is so in the program, where both run
\* in one event loop on one Lua state and main starts and ends them.
THEOREM ProgramIsItsParts == Spec => PartsSpec
<1>1. Init => Requests!Init /\ Handling!Init
  BY DEF Init
<1>2. MainInv /\ [Next]_vars =>
        [Requests!Next]_(Requests!vars) /\ [Handling!Next]_(Handling!vars)
  BY StepsOfRequests, StepsOfHandling
<1> QED
  BY <1>1, <1>2, MainInvariant, PTL DEF Spec, PartsSpec, Requests!Spec, Handling!Spec
===============================================================================
