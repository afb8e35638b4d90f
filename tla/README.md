# A TLA+ development of as-game-server

as-game-server is one executable with three programs, chosen by its first
argument: `-h` an HTTP server whose requests are answered by Lua scripts, `-s` a
test server that greets its clients and sends back whatever they send, and
`-e ip:port` an echo client. Each is a single-threaded libevent loop. The program
is 1643 lines of C under `src/src/`; `src/lib/` holds the source of Lua 5.1, the
headers of libevent and APR, `src/script/init.lua` the example script. Everything
the HTTP server does happens inside Lua, on one state that is never reset, so the
parts of Lua that such a server leans on are modelled too.

## 1. Inventory

| Component | State | Operations | Modelled in |
|---|---|---|---|
| `main.c`, `init_engine.c` | which program runs | init_engine, start, end, close_engine | `Main` (-e, -s), `Httpd` (-h) |
| `httpd.c`, incoming | static `L`, `base`, `http`; the Lua stack | init_httpd, http_handler, _start, _close_httpd, close_httpd | `HttpHandler`, `Httpd` |
| `httpd.c`, outgoing | per call: APR pool with callback record, evhttp_request, evhttp_connection | http.get, http.post, http_request_cb | `HttpRequest`, `CallbackContract` |
| `http_util.c` | none | http_request_new, http_request_to_lua_table, encode_header | `HttpRequest`, `HttpHandler`, `EncodeHeader` |
| `lua_util.c` | the Lua stack, `package.loaded` | find_lua_function, load_lua_library, call_lua_script, call_script, is_array | `LuaUtil`, `LuaFrame`, `LuaTable`, `LuaCall` |
| `rpc_util.c` | none | rpc_dispatch (a stub) | `LuaUtil` |
| `test_server.c` | `total_size`, one bufferevent per client | accept, read, event, timeout, accept error | `EchoRing`, `ByteRing`, `Main` |
| `echo.c`, `event_util.c`, `net_manager.c` | one bufferevent, a hash nothing is added to | connect, read, event, close | `EchoRing`, `Main` |
| `memory.c` | APR pools | pool_new, pool_palloc, pool_free | inside `HttpRequest` |
| `log.c`, `buffer_util.c` | the cached time stamp, log files | log_print, log_debug, evbuffer_write_to_file | `LogUtil` |
| `lgc.c`, the barriers of `lapi.c`, `lvm.c`, `lfunc.c`, `lstring.c` | colours, gray lists, the phase of the collection | singlestep, luaC_fullgc, every store of a script | `LuaGC` |
| `ltable.c` | array part, chained nodes | set, get, next, length, resize | `LuaTable` |
| `ldo.c`, `lbaselib.c` (pcall, coroutines), `luaG_errormsg` | CallInfos, nCcalls, errfunc, status | call, pcall, error, resume, yield | `LuaCall` |
| `lparser.c`, `lcode.c`, `luaG_checkcode` | a FuncState | compile | `LuaCode` |
| `lvm.c`, `lfunc.c` | stack, frames, upvalues | one action per instruction | `LuaVM` |
| `lstrlib.c` | captures, positions | find, match, gmatch, gsub | `LuaPattern` |
| `ltablib.c` | the array being sorted | sort | `LuaSort` |
| `lauxlib.c` | a luaL_Buffer | addchar, addlstring, addvalue, pushresult | `LuaBuffer` |

How they interact. The event loop of the HTTP server calls `http_handler` for an
incoming request; that runs a script on the static Lua state; the script may
call `http.get`, which hands a request and a callback record to libevent;
libevent calls `http_request_cb` from the loop, or, when a connection is refused
at once, inside `http.get`; the callback runs another script on the same state,
which may call `http.get` again. Nothing pops the results of either script. The
test server and an echo client meet only through a TCP connection. The collector
runs inside any allocation of a script.

What is hard here: callbacks that run inside the call that asks for them;
ownership of three objects through seven error returns; one stack shared by all
requests; ends of connections that come and go while bytes are under way; a
counter shared by all connections and cleared by a timer; a collector that works
between the steps of the scripts; errors and yields that leave two stacks at
once. `PROJECT.json` lists each hazard with its line.

## 2. The modules

**The program.** `CallbackContract` is the abstract promise of `http.get` /
`http.post`: refused and nothing kept, or accepted, recorded, and called back at
most once, innermost callback first.

`HttpRequest` is `httpd.c` 129-298 and `http_request_new`. `pool`, `req` and
`evcon` say of each of the three objects of a call whether it is `none`, `live`,
`freed` or `corrupt` (freed when not live, and corrupt from then on). An
argument is what `lua_tostring` makes of it: an address, another string, or
NULL. An outcome names the step of the call that fails, or how it succeeds:
`async` (queued) or `sync` (the callback runs before `evhttp_make_request`
returns). `cbs` is the stack of active callbacks. Between `http_request_cb` and
`CallbackReturns` the callback's script may make further calls. `http.post` is
the code of `http.get` with another request type, so it is the same action.
`evhttp_make_request` is external, modelled from libevent 2.0: on a uri it
cannot copy it frees the request and fails; without a socket it fails and leaves
the request; otherwise the connection owns it. `CrashElsewhere` and `Shutdown`
let the module be part of a program.

`LuaUtil` has the stack functions as operators: a stack is a sequence, a value
its kind and a tag that says who pushed it. `find_lua_function` is translated in
two halves (the module's value, the field) with the same early returns; `Resolves`
is the reference for it, which names no stack.
`LuaFrame` is a Lua state used through them, with `package.loaded` as `require`
of `loadlib.c` leaves it: a chunk that fails leaves the marker, a module that is
not found leaves nothing.

`HttpHandler` is `http_handler` and the stack of `L`. A handler runs between
`http_handler` and `HandlerReturns`, so that scripts may redefine the handler
and make calls in between. `given` remembers what a script returned, for the
properties only. The reply is read from the top of the stack exactly as the code
does. A string with conversions in it is the format of `evbuffer_add_printf`:
what it sends is garbled or the process dies, and both are steps. A second value
that is not a string is a NULL format: the process dies. `ciTop` is `L->ci->top`:
LUA_MINSTACK, raised by `lua_pcall` when multiple results reach it.

`Httpd` composes the two with `main`: `Requests` and `Handling` are instances,
and the loop lets one callback run at a time. Its `phase` is where `main` stands,
`ptr` and `obj` the three static pointers and what they point to; `_close_httpd`
closes them one by one.

`Main` is the same life for `-e` and `-s`, from every command line: engine, net
manager, event base, listener or connection, loop, end function, `close_engine`,
with every failure. It extends `LogUtil`, whose records those steps write, while
the clock moves in any direction.

`EchoRing` is the test server and its clients. Every read and write moves any
number of the bytes available. `offset` and `since` are history: how far into
the repeated greeting a client's bytes have been read, how many bytes were read
since the last report. `ByteRing` is what they do together: on each connection a
rotating sequence of bytes, which starts as the greeting and breaks at most once.

**Lua.** `LuaGC` has the heap as links between objects and the collector as
colours, lists and a phase. A step of the collector takes one object of its list;
a script stores, creates, captures, resumes or forgets something between any two.
Both whites, the lists of weak tables, the userdata that wait for their finalizers
and the strings and upvalues that come back to life are there. `ReachPastWaiting` is
what a program reaches without going through such a userdata.

`LuaTable` has nodes, chains and `lastfree` as the code does, on keys whose hash
values collide. `map` is what the scripts assigned, `trav` a traversal under way.

`LuaCall` has both stacks at once: CallInfos for each thread, and the C stack with
its interpreter loops, setjmps and what each will restore. An error goes to the
innermost setjmp of its thread; a yield leaves the loops behind. The event loop
calls in two ways: `call_lua_script` without an error handler, as for every
`http_request_handler` and callback, and `load_lua_library` with the engine's
traceback.

`LuaCode` translates the code generator function by function: an expression
descriptor, a FuncState, pending jump lists. It starts where the parser has
recognised a construct, so programs are trees; jump lists are sets, and `ok`
collects the code's own assertions, with `luaG_checkcode` on each finished
function. `LuaVM` executes the instructions. `LuaMeaning` is the reference: an
interpreter of the trees that knows cells and scopes only.

`LuaPattern` translates the backtracking matcher with positions for pointers;
reading past a terminator is an outcome of its own. A capture still open at the end
of a match is an error in `find`, `match` and `gmatch`, which push them all; gsub
goes on unless `add_value` looks at it, because the text names it, a function is
given it, or it is the first and indexes a table. `LuaMatches` is the reference:
the matches of a pattern's items in order of preference. `LuaSort` is auxsort, one
step for each call of the order function, which may be any relation, or follow no
rule at all. `LuaBuffer` has the pieces of a string on the stack and in the array;
`EncodeHeader` is the one function of the program that uses them.

**MC modules.** `MCHttpRequest`, `MCHttpd`, `MCEchoRing`, `MCLuaVM` hold constants.
`MCProgram` and `MCLua` put modules that share no state side by side:
a behaviour chooses its part at the start (`part`, `which`) and the variables of
the others stay where they are, so one run covers the union of the parts' states
and each property speaks of its own part. `MCLua` extends `LuaPattern` and
`LuaCall` and takes the others as instances; a part of the calls that does not
take part stays at `CallInit`, the event loop before the first script, where the
properties of `LuaCall` hold too. `MCLuaGC` has one set of objects for
four heaps: `which` chooses the heap, and `Within` keeps its scripts to the
objects, weak modes and calls that this heap has. In the fourth one a userdata waits
for its finalizer, which takes a long way to reach: `Arranged` and `Meanwhile` say
what the scripts do on it. Operators marked "Mutant" are plausible
slips in the definition they stand before; no specification uses them.

## 3. The runs

| Run | Checks | Shows |
|---|---|---|
| `http_request` | IInv, MemorySafe, RecordOutlivesCallback, NothingLeft, ContractSpec, AcceptedIsCalledBack | three calls, all failures, all nestings; CallbackContract is implemented |
| `http_request_free` | RequestFreedOnce, violated | finding 1 |
| `program` | IInv, RepliesWithItsResult, AnsweredOnce (`HttpHandler`); DispatchBalanced, ResultsCounted, LoadedOnce (`LuaFrame`); UsedWhileLive (`Main`), StampsAreTrue (`LogUtil`); ClientsApart (`EchoRing`) | requests and callbacks on one stack; lookups and calls in any order; -e and -s to their end; two clients |
| `http_handler_limit` | PushesWithinLimit, violated | finding 3 |
| `httpd` | ClosedOnce, ScriptsHaveTheirState, PartsSpec, HandledIsAnswered, StartsOrEnds | the whole HTTP server; its steps are steps of HttpRequest and of HttpHandler |
| `httpd_error` | ErrorsAreSurvived, violated | finding 2 |
| `echo_ring` | InOrder, CountedOnce, RingsSpec, KeepsTurning, PeersEnd | one client, all splits, crashes; ByteRing is implemented |
| `lua_compiler` | MeansTheSame, NoAssertFails | about 14000 programs compiled, run and compared with `LuaMeaning` |
| `lua_gc` | NothingDangles, FinalizesOnlyGarbage | four heaps, every interleaving of scripts and collector |
| `lua_gc_freed` | GarbageIsFreed | what is unreachable is freed or finalized in the end |
| `lua_library` | PatternFinds, PatternGoesThroughAll, PatternStaysInside; ArraySorted, ArrayKeepsElements; TablesSound, ArraysRecognised; CallsCounted, EngineSurvives (`LuaCall`); TextIsKept | patterns, sort, tables, calls and coroutines, buffers |
| `encode_header_long` | HeaderEncoded, violated | finding 4 |

Some properties are conjunctions of parts that have names in their modules.
NothingDangles of `LuaGC` includes the tri-colour invariant and that lists and
marks agree: without them it would hold only until the next sweep. TableSound of `LuaTable` says
that values are kept, chains are sound, the length is a border, the array part is
the largest that is more than half full, and a traversal is complete. CallsCounted
of `LuaCall` says that the counts are those of the C stack, that a yield leaves no
C function behind, that frames have loops and fit the array of CallInfos, that the
handler is the innermost one, and that no coroutine is resumed twice. CountedOnce of `EchoRing` includes that the
figures of the report are those of the bytes read. ArraysRecognised speaks of
tables whose integer keys are positive, besides strings and objects: a key below
one, a fraction, or a string that looks like a number does pass for an array key in
`lua_table_is_array`, which looks at the upper bound and at the number of keys.

Bounds. `Out`: three calls allow a callback in a callback beside a queued
request; two in `Httpd`, where a script and a nested callback each make one.
`MaxReq` and `MaxCallback`: a request after a callback after a request is enough
for leftovers of both kinds below a reply; the limit run needs nine. `Results`
has no, one, two and three values, every truth value first, every kind of second
value, and an error. `MaxStack` 5 leaves room for leftovers below a call with
two results. `Word` and `MaxSince` make the counter wrap between two reports,
`K` 2 (1024 in the code) takes a report across the change of unit; three
different bytes show any change of order. `MaxSince` only caps the bytes between
two reports, and the timer lets the counting go on. With two clients this cap can
starve one of them, so two clients are checked for safety only.

`MAXINDEXRK` 1 and `LFIELDS_PER_FLUSH` 2 make constants overflow into registers
and constructors flush in programs of a few lines. `LUAI_MAXCCALLS` 3,
`LUAI_MAXCALLS` 3 and two C calls beyond the limit (`ExtraCCalls`, 25 in the code)
are reached, and passed in handlers, by a few calls. `LuaCall` is explored in four
parts (`Within`). `limits` has all that one thread does. `errors` has one coroutine
and up to two protected calls at a time, with every kind of handler and with none,
the engine's own included. `handlers` goes one call deeper, past the limit, where
the protected calls of scripts have a handler. `coroutines` has two coroutines in
the engine's call of a script, which has no handler, and errors of every thread.
What lies beyond them, the proof covers.
`BUFFERSIZE` 3 spills after one string. Tables with five or six keys go through
three rehashes; arrays up to nine elements have partitions of every kind and two
levels of recursion. Heaps have two or three objects besides the main thread and
the registry: enough for a black object, a white one, and a path that moves
between them. The heap of a waiting userdata is cut to what matters to it: the
second userdata, a full collection and a way back to the first one come while the
first waits, the first one is the only key of the weak-keyed table, which is its
environment, and the globals hold that table only.

Deadlock is checked in the runs of the program, where a state after the end of a
process has an explicit stuttering step. The runs of Lua functions end where the
function does, so they say CHECK_DEADLOCK FALSE.

Fairness. Requests: libevent completes what it has accepted, because its
connections have connect, read and write time-outs, and a script returns (the
one assumption about scripts). `Httpd` adds that `main` runs on. EchoRing: an
event loop serves an event that stays ready, timers included, and TCP delivers
to an end that exists. Nobody has to start, kill or connect anything. LuaGC: the
collector goes on, because every allocation of a script checks whether a step is
due (`luaC_checkGC`); the scripts are under no fairness at all.

Findings.

1. `http_util.c:44` frees the request after every failure of
   `evhttp_make_request`; libevent's header says that on failure the request has
   been freed. With a uri that is NULL (which `http.get` does not check) or
   cannot be copied, it is freed twice. Without a socket libevent leaves it to
   the caller, so the free cannot simply be dropped.
2. `httpd.c:148` takes the response code of the request that `http_request_cb`
   is given, which is NULL when an outgoing request times out or its answer ends
   early.
3. `httpd.c:57`: the results of `http_request_handler` stay on the stack. With
   two results each, the ninth request pushes past `L->ci->top`, which the
   vendored Lua asserts against when built with API checks. With Lua's spare
   slots the stack lasts a little longer and is then overrun.
4. `http_util.c:179`: `encode_header` calls `luaL_addvalue` while `lua_next` keeps
   its key on the stack. Once the text is longer than the buffer a piece of it lies
   above the key, and the next `lua_next` is given the piece: it raises "invalid key
   to 'next'".

## 4. The proofs

Eight modules hold theorems; each extends the module it is about, so that a
theorem speaks of the specification the runs check. What a run shows for the
constants of its `.cfg`, a theorem shows for all values that satisfy the
assumptions of the module.

| Module | Theorems | Assumptions |
|---|---|---|
| `HttpRequestProofs` | Invariant, TypeCorrect, NoDoubleFree, RecordLives, NoLeak, KeepsContract | ArgListsAssumption, FaultsAssumption: arguments and outcomes are of the kinds of `HttpRequest` |
| `HttpHandlerProofs` | Invariant, RepliesBelong, NoSecondAnswer | ResultsAssumption, LookupsAssumption, BoundsAssumption |
| `LuaFrameProofs` | FindLuaFunction (about `LuaUtil`, no assumption), DispatchIsBalanced, ResultsAreCounted, ModulesLoadOnce | FrameAssumption: what `require` and a call may answer |
| `MainProofs` | ObjectsUsedWhileLive, RecordsAreStamped | none |
| `HttpdProofs` | MainInvariant, HandlesClosedOnce, ScriptsRunOnLiveState, ProgramIsItsParts | none of its own |
| `EchoRingProofs` | RingsStayInOrder, BytesCountedOnce, ProgramsAreRings | GreetingAssumption: the greeting is a sequence of bytes and not empty; NumbersAssumption: `Word`, `K` and `MaxSince` are positive |
| `LuaCallProofs` | CallsInvariant, CallsAreCounted, EveryErrorIsCaught | LimitAssumption: the limits are positive, `BasicCI` is at least 2 and no more than `MaxCalls`, handlers are of the three kinds, the main thread is no coroutine |
| `LuaGCProofs` | HeapIsConsistent, NothingAliveDangles, FinalizersForGarbageOnly | HeapAssumption: every object has a kind, the main thread and the registry are objects of theirs, no object is nil or the mark of an empty entry, no key is an upvalue (an upvalue is no Lua value), and a thread has slots |

The assumptions are ASSUMEs of the modules that declare the constants, and TLC
evaluates each of them on the constants of a run.

**Outgoing requests.** `IInv` of `HttpRequest` is inductive, and from it follow
`MemorySafe`, `RecordOutlivesCallback`, `NothingLeft` and type correctness. Those
three are not inductive alone: that a callback returns to a live record needs
`NestedOnce` (the active callbacks are exactly the calls in `callback`, each once,
so that a nested callback cannot finish an outer one) and `Holdings` (what a call
owns at each stage). `RequestNew` states what `http_request_new` leaves;
`RequestStep` what a call can do; `PushNested` and `PopNested` what the two moves do
to the list of callbacks. `KeepsContract` is the refinement of `CallbackContract`
under the mapping `Stage`, which forgets everything but whether a call is new,
refused, pending, in its callback or done.

**Lookups and calls.** `FindLuaFunction`: `find_lua_function` succeeds exactly when
the reference notion `Resolves` says so, and then adds one function to a stack of
any height; otherwise the stack is what it was, over all of its returns. It rests
on `FoundModule`, `FoundField` and `ReplaceTop`. `CalledScript`: `call_lua_script`
replaces function and arguments by the results and counts them. The theorems of
`LuaFrameProofs` carry both over any sequence of lookups and calls: `FrameInv` adds
the types of the stack and that a module that has run has left something in
`package.loaded`, the marker of a failed chunk included; without that second part a
later `require` could run the chunk again.

**Incoming requests.** A reply belongs to its request (`RepliesWithItsResult`) and
each request is answered once (`AnsweredOnce`), for every number of requests and
callbacks. The two top values are this script's when it returned two
(`ReplyOfCall`, from `CalledScript`). The invariant adds `HandlerOnStack`: while the
handler runs its function and argument are on the stack and its request is not
among those that found none.

**main.** `LifeInv` says which of apr, pool, event base and connection exist at each
place of `main` and of the functions it calls; `UsedWhileLive` follows although no
place but `main` looks at more than one of them. `LogInv` says that the text in the
static buffer of log.c is that of `last_time`; that is all that makes a stamp true,
so the clock may go back.

**The HTTP server.** `MainInv` has four parts: pointers and objects agree, so that a
second `_close_httpd` finds NULL where something has been closed (`HandlesInv`);
what exists at each step of `init_httpd` and on each way out (`PhasesInv`); scripts
run in the loop only, callbacks inside scripts only (`ScriptsInv`); and nothing has
been asked of libevent before the program is up (`StartInv`).
`HandlesClosedOnce` and `ScriptsRunOnLiveState` follow. `ProgramIsItsParts`: each
step of `Httpd` is a step of `HttpRequest` or leaves its variables alone, and the
same for `HttpHandler`. So the invariants proved of the two hold in the program,
whatever the other part and `main` do.

**The echo ring.** `RingsInv` says of each connection: no byte anywhere until the
server has accepted it, so that the greeting meets empty buffers; while both ends
are there the four buffers, joined in ring order, are one greeting and go on from
the byte that the server reads next; and what the client has sent is right, also
after the client's end, when the ring is gone. InOrder alone is not inductive: it
does not say that a connection in the backlog has no bytes. The proof uses bytes
through a few facts only (`CatAssoc`, `CutBytes`, `CutCat`): moving bytes to the
next buffer leaves the joined sequence as it is (`MoveIntoFirst` to
`MoveIntoThird`), and a read of the server turns it (`TurnFour`). That a turned
ring is right again (`RightTurned`) is the arithmetic of the remainder, proved from
division (`ModUnique`, `ModOfSum`, `ModOfDouble`). `BytesCountedOnce` uses the same
facts for a counter of any width, and `ReportRight` for the division by 1024, once
or twice. `ProgramsAreRings` is the refinement: `accept_conn_cb` starts a ring,
`echo_read_cb` of the server turns it, a death breaks one ring or, when it is the
server's, all that it has accepted or has in its backlog, and everything else is a
stutter. The reader may note that `accept_conn_cb` of a client that has died
meanwhile is a stutter too: its ring broke earlier.

**Calls, errors and coroutines.** `CallsAreCounted` and `EveryErrorIsCaught` hold of
`LuaCall` for any number of coroutines, any nesting and any limits: `nCcalls` is
what the C stack holds and never passes the limit and its reserve, Lua frames are
those of the interpreter loops, an error finds a setjmp of its own thread, and the
engine has its thread back afterwards as it left it. The engine's call may have the
traceback or no handler (`EngineCalls`). Neither property is inductive.
An error restores `nCcalls`, `ci` and `errfunc` from a `luaD_pcall` that was entered
many activations ago, so every record of the C stack has to be right, not only the
top: `Placed` says what an activation may stand on, that each thread is one
contiguous piece of the stack, and that what a `luaD_pcall` has saved is the depth
(`Depth`) and the handler (`HandlerAt`) from below it. A return is right only if the
frames of each activation begin where the one below has them: that is the ghost `h`
of `CallsInv`, the number of CallInfos of its thread when each activation was
entered (`Based`, `Between`, `LoopsOK`). `Core` puts this together for a prefix of
the C stack (`Live`): a `lua_resume` whose coroutine has just come back no longer
stands for a thread with frames of its own. `CorePush`, `CorePop` and `CoreShrink` say when an
activation more, one less, or a loop with a frame less keeps it, `CoreResume` what a
coroutine adds, and `CoreLeave` what holds below an activation that a return or a
throw leaves. There is one lemma for each action, from `CallMade` down to `Kept`.

**The collector.** `NothingAliveDangles` holds of `LuaGC` for any number of objects
of any kinds, any weak modes, and scripts that act between any two of its steps.
NothingDangles is not inductive, and neither is the tri-colour invariant in it: what
keeps a step right is why an object is gray. `GCInv` says so.

- While the collector marks, nothing is dead (`MarkingOK`). A black object holds
  nothing white (`Settled`), the keys of entries that were set to nil included,
  until `removeentry` empties them: a store would bring such a key back without a
  barrier for it. A weak table is no exception, because it stays gray. A gray object
  is in one of the three lists, where it will be traversed, or a string, which holds
  nothing, or an open upvalue, which `remarkupvals` looks at (`WaitsOK`). Userdata
  that wait for their finalizers are excepted, since `atomic` marks them.
- Outside marking, only what is still to be swept bears a mark, an open upvalue
  being swept with its thread (`SweepingOK`). This is what makes `markroot` find a
  white heap, whether the collection before it ended or `luaC_fullgc` threw it away.
- Always, what is alive refers only to what is alive (`Sound`), weakly or not,
  because a script may read a weak entry at any time; and what has been freed is
  empty when its address is used again (`FreshOK`).

`ClosureFacts` says what marking to the end yields: a set that contains its start,
is closed, and is reached. On it rest `Propagated` and `AtomicDone`, which shows that
after the last marking what is not marked is held by nothing that is marked, but for
the entries that `cleartable` empties (`ClearedFacts`). `Swept` frees only what is
dead. Then there is one lemma for each way in which a script can change the heap;
each barrier is needed in one of them: `TableStored` (luaC_barriert), `ObjectStored`
(luaC_objbarrier), `UpvalueSet`, and `SlotsClosed` and `Captured` for the upvalues
that luaF_close and OP_CLOSURE give another place. Stores into a stack need none: a
thread is never black (`StackStored`). What a script may store is alive because it
read it from something alive (`ReadableFacts`, `HeldFacts`).

`FinalizersForGarbageOnly` follows from GCInv. `OnlyAtomicSchedules` says that no
other step puts a userdata on the list of those that wait. When `atomic` does, what
it has marked to the end contains the roots and the running thread and is closed
under the links of everything marked (`ReachableMarked`, from `AtomicClosed`), but
for the userdata that were waiting before. So the set contains `ReachPastWaiting`,
and what it schedules is not in the set.

That exception is the code's. A full collection begun in the middle of another
throws the marking away (`lgc.c:636-645`), but a waiting userdata keeps its mark:
`marktmu` makes it white again (`lgc.c:120`), after `luaC_separateudata` has chosen
the next ones (`lgc.c:543`). Take a userdata that waits, black. A script gets it out
of a weak-keyed table, puts a second userdata in the table that is its environment,
forgets its other references to it, and calls `collectgarbage`. The second one gets
its finalizer while the script still reaches it through the first. Nothing dangles,
since `marktmu` marks both. The heap `waiting` of `lua_gc` contains this behaviour;
a property that said "nothing reaches it" without the exception fails there.

**Only model-checked.** All liveness, which needs fairness and ENABLED, GarbageIsFreed
among it.
The other Lua modules: `LuaCode`, `LuaMeaning`, `LuaTable` and `LuaPattern` are RECURSIVE over their inputs; `LuaBuffer` folds over
its text and `LuaSort` counts elements over a recursion, so their properties need
induction over data.
ClientsApart of `MCProgram` is the conjunction of InOrder and CountedOnce for two
clients, both proved for any number.

## 5. Not modelled

Of the program: formatting, file names and file output; libevent's HTTP parsing (a
request whose uri cannot be parsed is answered by libevent itself, so
`http_request_to_lua_table` always finds a uri); a `call_script` whose module or
function is no string, for which `strlen` is given NULL (`lua_util.c:250`, `92`); the
second of the two time stamps that `log_debug` takes for one record (they are one
here); the port of a call; the timer
events `timeout_cb` leaves behind; memory exhaustion outside the paths the code
checks. `add_http_request_header`, `rpc_pack`, `net_add_connect`, and echo.c's own
`accept_conn_cb` and `accept_error_cb` have no caller.

`httpd.c:154` calls a callback on the engine's main thread, also when a request
fails inside a coroutine that called `http.get`. `LuaCall` calls on the thread that
runs, so in it this callback would be the coroutine's.

Of Lua: the lexer, `io`, `os`, `math`, `debug`, precompiled chunks, and the
functions of the string and table libraries that only compute a value from their
arguments. `LuaCode` and `LuaVM` leave out metamethods, floats, line information,
the `vararg` table's compatibility corner cases beyond `arg`, the evaluation
orders that the language leaves open, and a few size checks of `symbexec`.
`LuaGC` leaves out prototypes, the sizes
that decide when a step is due, and `debug.setupvalue`, whose barrier
(`lapi.c:1082`) names the closure although the value goes into an upvalue that
others share; no script of the server uses it. `LuaPattern` leaves out the classes
other than letters and digits and treats `^` in gmatch as the code does, as a plain
character.

Of `src/lib/apr` and `src/lib/libevent` the repository has headers only:
declarations, no behaviour. They are more than half of the lines that the
repository counts as implementation.

## 6. Plan

Done: `CallbackContract`, `HttpRequest`, `LuaUtil`, `LuaFrame`, `HttpHandler`,
`Httpd`, `Main`, `LogUtil`, `ByteRing`, `EchoRing`, `EncodeHeader`; `LuaGC`,
`LuaTable`, `LuaCall`, `LuaCode`, `LuaVM`, `LuaPattern`, `LuaSort`, `LuaBuffer`;
eight proof modules, which cover every safety property of the program's own parts,
of Lua's calls, and that of Lua's collector on which memory safety rests.

Next, in this order:

1. The loading of chunks: `llex.c`, `loadlib.c` beyond `require`, `lundump.c`.
2. Metamethods in `LuaVM`, with the calls they make through `LuaCall`.
