----------------------------- MODULE HttpRequest ------------------------------
(***************************************************************************)
(* Outgoing HTTP requests of the httpd program: http.get and http.post as   *)
(* a Lua script calls them, http_request_new, and http_request_cb, which    *)
(* libevent runs when the request completes                                 *)
(* (src/src/program/httpd/httpd.c, src/src/module/http_util.c).             *)
(*                                                                          *)
(* Every call owns up to three heap objects: the APR pool with its callback *)
(* record, the libevent request and the libevent connection.  The model     *)
(* follows who frees what, when; an object that is freed while not live is  *)
(* "corrupt" for ever.                                                      *)
(***************************************************************************)
EXTENDS Integers, Sequences, SequencesExt

CONSTANTS
  Out,        \* the calls of http.get / http.post the scripts make
  ArgLists,   \* argument lists a script passes, see ArgKinds
  Faults      \* the ways a call can turn out, see Outcomes

(* What lua_tostring makes of an argument: a string of digits and dots, any *)
(* other string, or NULL (absent, or neither a string nor a number).        *)
ArgKinds == {"addr", "str", "null"}

(* Where a call fails, or how evhttp_make_request succeeds.                 *)
Outcomes == {"pool_new", "args", "copy",            \* pool_new, pool_palloc
             "evcon", "request",                    \* libevent constructors
             "strdup", "connect",                   \* evhttp_make_request, -1
             "sync", "async"}                       \* evhttp_make_request, 0

ASSUME ArgListsAssumption == ArgLists \subseteq Seq(ArgKinds)
ASSUME FaultsAssumption == Faults \subseteq Outcomes

VARIABLES
  proc,    \* "up", "crashed" (the process died), "closed" (main returned)
  call,    \* call[o]: how far call o has come
  pool,    \* pool[o]: the APR pool that holds the callback record
  req,     \* req[o]: the struct evhttp_request
  evcon,   \* evcon[o]: the struct evhttp_connection
  cbs      \* the http_request_cb activations on the C stack, innermost last

vars == <<proc, call, pool, req, evcon, cbs>>

Objects == {"none", "live", "freed", "corrupt"}

CallStates == {"unused", "refused", "pending", "callback", "done", "abandoned"}

(* Types of the calls of http.get and http.post and of what they own.       *)
TypeOK ==
  /\ proc \in {"up", "crashed", "closed"}
  /\ call \in [Out -> CallStates]
  /\ pool \in [Out -> Objects]
  /\ req \in [Out -> Objects]
  /\ evcon \in [Out -> Objects]
  /\ cbs \in Seq(Out)

Init ==
  /\ proc = "up"
  /\ call = [o \in Out |-> "unused"]
  /\ pool = [o \in Out |-> "none"]
  /\ req = [o \in Out |-> "none"]
  /\ evcon = [o \in Out |-> "none"]
  /\ cbs = <<>>

-------------------------------------------------------------------------------

Free(object) == IF object = "live" THEN "freed" ELSE "corrupt"

pool_free(object) == Free(object)

Arg(a, i) == IF i <= Len(a) THEN a[i] ELSE "null"

(* The early returns on the arguments: fewer than three, not an address, no *)
(* table name, no function name.                                            *)
ArgumentsRefused(a) ==
  \/ Len(a) < 3
  \/ Arg(a, 1) = "str"
  \/ Arg(a, 1) = "addr" /\ (Arg(a, 4) = "null" \/ Arg(a, 5) = "null")

(* _is_ip takes strlen of what lua_tostring returned, NULL included.        *)
AddressDereferencesNull(a) == Len(a) >= 3 /\ Arg(a, 1) = "null"

(* What can happen to a call whose arguments are accepted.  The uri is not  *)
(* checked: evhttp_make_request cannot duplicate a NULL uri.                *)
OutcomesOf(a) ==
  IF Arg(a, 3) = "null" THEN (Faults \cap {"pool_new", "args", "copy", "evcon", "request"})
                             \cup {"strdup"}
                        ELSE Faults

(* evhttp_make_request: when it cannot copy the uri it frees the request    *)
(* and fails; when it cannot make a socket it fails and leaves the request  *)
(* to its caller; otherwise it owns the request.                            *)
evhttp_make_request(f) ==
  [rc |-> IF f \in {"strdup", "connect"} THEN -1 ELSE 0,
   req |-> IF f = "strdup" THEN Free("live") ELSE "live"]

(* Mutant: the connection is freed once the request has been made.          *)
http_request_new_closing(f) ==
  LET made == evhttp_make_request(f) IN
  [null |-> made.rc # 0, req |-> made.req, evcon |-> Free("live")]

(* http_request_new: the objects it leaves behind, and whether it returns   *)
(* NULL.                                                                    *)
http_request_new(f) ==
  LET made == evhttp_make_request(f) IN
  CASE f = "evcon"   -> [null |-> TRUE, req |-> "none", evcon |-> "none"]
    [] f = "request" -> [null |-> TRUE, req |-> "none", evcon |-> Free("live")]
    [] OTHER ->
       IF made.rc # 0
       THEN [null |-> TRUE, req |-> Free(made.req), evcon |-> Free("live")]
       ELSE [null |-> FALSE, req |-> made.req, evcon |-> "live"]

(* Mutants: the error paths keep the pool; they free it and go on to free   *)
(* it again.                                                                *)
CallbackRecord_kept(f) == IF f = "pool_new" THEN "none" ELSE "live"

CallbackRecord_twice(f) ==
  IF f \in {"pool_new", "args", "copy"} THEN pool_free(pool_free("live")) ELSE "live"

(* The callback record: pool_new, then the record and the two names.        *)
CallbackRecord(f) ==
  CASE f = "pool_new"         -> "none"
    [] f \in {"args", "copy"} -> pool_free("live")
    [] OTHER                  -> "live"

(* Mutants: the pool is never freed here; it always is.                     *)
AfterRequest_leaking(null, p) == p
AfterRequest_freeing(null, p) == pool_free(p)

(* The end of a call: the pool goes when there is no request.               *)
AfterRequest(null, p) == IF null THEN pool_free(p) ELSE p

HoldsRecord(f) == f \notin {"pool_new", "args", "copy"}

-------------------------------------------------------------------------------

(* A call refused for its arguments: the script gets false.                 *)
RefuseArguments(o, a) ==
  /\ ArgumentsRefused(a)
  /\ call' = [call EXCEPT ![o] = "refused"]
  /\ UNCHANGED <<proc, pool, req, evcon, cbs>>

DereferenceAddress(a) ==
  /\ AddressDereferencesNull(a)
  /\ proc' = "crashed"
  /\ UNCHANGED <<call, pool, req, evcon, cbs>>

(* The arguments will do, and f is how the call turns out.                  *)
Attempted(a, f) ==
  /\ ~ArgumentsRefused(a) /\ ~AddressDereferencesNull(a)
  /\ f \in OutcomesOf(a)

(* No callback record: http_request_new is not reached.                     *)
RefuseRecord(o, a, f) ==
  /\ Attempted(a, f) /\ ~HoldsRecord(f)
  /\ call' = [call EXCEPT ![o] = "refused"]
  /\ pool' = [pool EXCEPT ![o] = CallbackRecord(f)]
  /\ UNCHANGED <<proc, req, evcon, cbs>>

(* What a call that reaches http_request_new is left with.                  *)
Keeps(o, f) ==
  LET new == http_request_new(f) IN
  /\ pool' = [pool EXCEPT ![o] = AfterRequest(new.null, CallbackRecord(f))]
  /\ req' = [req EXCEPT ![o] = new.req]
  /\ evcon' = [evcon EXCEPT ![o] = new.evcon]

(* http_request_new returned NULL: the script gets false.                   *)
RefuseRequest(o, a, f) ==
  /\ Attempted(a, f) /\ HoldsRecord(f) /\ http_request_new(f).null
  /\ Keeps(o, f)
  /\ call' = [call EXCEPT ![o] = "refused"]
  /\ UNCHANGED <<proc, cbs>>

(* The request is queued; the script gets true.                             *)
AcceptRequest(o, a, f) ==
  /\ Attempted(a, f) /\ f = "async" /\ ~http_request_new(f).null
  /\ Keeps(o, f)
  /\ call' = [call EXCEPT ![o] = "pending"]
  /\ UNCHANGED <<proc, cbs>>

(* The connection is refused at once: evhttp_make_request runs the callback *)
(* before it returns, inside the script's own call.                         *)
AcceptInside(o, a, f) ==
  /\ Attempted(a, f) /\ f = "sync" /\ ~http_request_new(f).null
  /\ Keeps(o, f)
  /\ call' = [call EXCEPT ![o] = "callback"]
  /\ cbs' = Append(cbs, o)
  /\ UNCHANGED proc

lua_http_request_get(o) ==
  /\ proc = "up"
  /\ call[o] = "unused"
  /\ \E a \in ArgLists :
       \/ RefuseArguments(o, a)
       \/ DereferenceAddress(a)
       \/ \E f \in Outcomes : \/ RefuseRecord(o, a, f) \/ RefuseRequest(o, a, f)
                              \/ AcceptRequest(o, a, f) \/ AcceptInside(o, a, f)

(* http.post is http.get with another request type.                         *)
lua_http_request_post(o) == lua_http_request_get(o)

(* An answer, or a refused connection: libevent runs the callback with the  *)
(* request, from the event loop.  What follows until CallbackReturns (the   *)
(* lookup of the function, which may load its module, and the script) can   *)
(* make further calls.                                                      *)
http_request_cb(o) ==
  /\ proc = "up"
  /\ call[o] = "pending"
  /\ evcon[o] = "live"
  /\ cbs = <<>>
  /\ call' = [call EXCEPT ![o] = "callback"]
  /\ cbs' = <<o>>
  /\ UNCHANGED <<proc, pool, req, evcon>>

(* A time-out, an early end of file or a bad answer: libevent frees the     *)
(* request and passes NULL, of which the callback takes the response code.  *)
http_request_cb_null(o) ==
  /\ proc = "up"
  /\ call[o] = "pending"
  /\ evcon[o] = "live"
  /\ cbs = <<>>
  /\ proc' = "crashed"
  /\ req' = [req EXCEPT ![o] = Free(req[o])]
  /\ UNCHANGED <<call, pool, evcon, cbs>>

(* The innermost callback ends: pool_free, then libevent frees the request. *)
CallbackReturns(o) ==
  /\ proc = "up"
  /\ cbs # <<>>
  /\ o = Last(cbs)
  /\ call' = [call EXCEPT ![o] = "done"]
  /\ pool' = [pool EXCEPT ![o] = pool_free(pool[o])]
  /\ req' = [req EXCEPT ![o] = Free(req[o])]
  /\ cbs' = Front(cbs)
  /\ UNCHANGED <<proc, evcon>>

(* The event loop fails and main runs to its end: nothing will complete the *)
(* requests still queued, and apr_terminate destroys every pool.            *)
Shutdown ==
  /\ proc = "up"
  /\ cbs = <<>>
  /\ proc' = "closed"
  /\ call' = [o \in Out |-> IF call[o] = "pending" THEN "abandoned" ELSE call[o]]
  /\ pool' = [o \in Out |-> IF pool[o] = "live" THEN "freed" ELSE pool[o]]
  /\ UNCHANGED <<req, evcon, cbs>>

(* The process dies in some other part of the program.                      *)
CrashElsewhere ==
  /\ proc = "up"
  /\ proc' = "crashed"
  /\ UNCHANGED <<call, pool, req, evcon, cbs>>

(* The process has ended.                                                   *)
Ended ==
  /\ proc # "up"
  /\ UNCHANGED vars

Next ==
  \/ \E o \in Out : \/ lua_http_request_get(o)
                    \/ lua_http_request_post(o)
                    \/ http_request_cb(o)
                    \/ http_request_cb_null(o)
                    \/ CallbackReturns(o)
  \/ Shutdown
  \/ CrashElsewhere
  \/ Ended

Spec == Init /\ [][Next]_vars

(* libevent completes every request it has accepted: an answer arrives, or  *)
(* its connection, read or write time-out expires.  A script returns.       *)
Fairness ==
  /\ \A o \in Out : WF_vars(http_request_cb(o) \/ http_request_cb_null(o))
  /\ WF_vars(\E o \in Out : CallbackReturns(o))

FairSpec == Spec /\ Fairness

-------------------------------------------------------------------------------

(* The uri of every call can be duplicated by evhttp_make_request.          *)
UriCopied ==
  /\ "strdup" \notin Faults
  /\ \A a \in ArgLists : Arg(a, 3) # "null"

(* What each call holds at each stage of its life, error paths included.    *)
Holdings(o) ==
  /\ call[o] = "unused" => {pool[o], req[o], evcon[o]} = {"none"}
  /\ call[o] = "refused" => /\ {pool[o], evcon[o]} \subseteq {"none", "freed"}
                            /\ req[o] \in {"none", "freed", "corrupt"}
                            /\ UriCopied => req[o] # "corrupt"
  /\ call[o] = "pending" => /\ proc # "closed"
                            /\ pool[o] = "live" /\ evcon[o] = "live"
                            /\ req[o] \in {"live", "freed"}
                            /\ proc = "up" => req[o] = "live"
  /\ call[o] = "callback" => {pool[o], req[o], evcon[o]} = {"live"}
  /\ call[o] = "done" => pool[o] = "freed" /\ req[o] = "freed" /\ evcon[o] = "live"
  /\ call[o] = "abandoned" => pool[o] = "freed" /\ req[o] = "live" /\ evcon[o] = "live"

(* The callbacks on the C stack are those of the calls in "callback", each  *)
(* once: a nested callback never restarts one that is already running.      *)
NestedOnce ==
  /\ \A i, j \in 1..Len(cbs) : cbs[i] = cbs[j] => i = j
  /\ \A o \in Out : call[o] = "callback" <=> \E i \in 1..Len(cbs) : cbs[i] = o

(* The inductive invariant: what every call holds, and which callbacks are  *)
(* active, whatever calls a callback makes before it returns.               *)
IInv == TypeOK /\ NestedOnce /\ \A o \in Out : Holdings(o)

(* No object is freed twice, whichever step of a call fails and however the *)
(* callbacks nest: the pools and connections always, the requests as long   *)
(* as every uri can be copied.                                              *)
MemorySafe ==
  \A o \in Out : /\ pool[o] # "corrupt"
                 /\ evcon[o] # "corrupt"
                 /\ UriCopied => req[o] # "corrupt"

(* The callback record is there for as long as libevent may still run the   *)
(* callback, and while it runs, calls nested inside it included.            *)
RecordOutlivesCallback ==
  \A o \in Out : call[o] \in {"pending", "callback"} =>
                   pool[o] = "live" /\ (proc = "up" => req[o] = "live")

(* A call the script was told has failed holds nothing, on any of its error *)
(* paths, and neither does a finished one, apart from its connection.       *)
NothingLeft ==
  \A o \in Out : /\ call[o] = "refused" =>
                      {pool[o], req[o], evcon[o]} \cap {"live"} = {}
                 /\ call[o] = "done" => {pool[o], req[o]} \cap {"live"} = {}

(* Every request the script was told is on its way has its callback run to  *)
(* the end, unless the process ends first.                                  *)
AcceptedIsCalledBack ==
  \A o \in Out : call[o] \in {"pending", "callback"} ~>
                   (call[o] = "done" \/ proc # "up")

(* Where a call stands for the script that made it.                         *)
Stage(c) ==
  CASE c \in {"pending", "abandoned"} -> "accepted"
    [] c = "callback"                 -> "running"
    [] c = "done"                     -> "finished"
    [] OTHER                          -> c

(* The calls keep the promise stated by CallbackContract.                   *)
Contract == INSTANCE CallbackContract WITH
  st <- [o \in Out |-> Stage(call[o])],
  held <- [o \in Out |-> pool[o] = "live"],
  nest <- cbs,
  stopped <- proc # "up"

ContractSpec == Contract!Spec

(* A request object is freed once (finding: http_request_new frees the one  *)
(* that evhttp_make_request has already freed).                             *)
RequestFreedOnce == \A o \in Out : req[o] # "corrupt"
===============================================================================
