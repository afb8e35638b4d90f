-------------------------------- MODULE LuaGC ---------------------------------
(***************************************************************************)
(* The incremental collector of the vendored Lua (src/lib/lua/lgc.c) under  *)
(* the scripts of the server: a script changes the heap between any two     *)
(* steps of the collector, and the write barriers, the marking of upvalues  *)
(* (lfunc.c) and the reuse of strings (lstring.c) have to keep what it can  *)
(* still reach.  The order of a list, the amount of work in one step and    *)
(* sizes are left out: a step takes any one object of the list it works on. *)
(***************************************************************************)
EXTENDS Naturals, FiniteSets

CONSTANTS
  Obj,         \* the addresses objects are allocated at
  kind,        \* kind[o]: what is allocated at o (addresses are reused by size)
  Main,        \* the main thread
  Registry,    \* the registry, which also stands for the table of globals
  Nil,         \* no object
  Slots,       \* the slots of a thread's stack, numbered
  Modes,       \* the weak modes scripts give to tables
  KeyKinds,    \* the kinds of objects scripts use as keys
  MaxEntries,  \* bound: the entries of a table
  Collects,    \* whether scripts call collectgarbage("collect")
  Basics       \* whether they set the metatable of a basic type

(* Array is the place of a table that has a number for its key.  An entry   *)
(* whose value is nil keeps its key until a traversal takes it (NoKey).     *)
Array == "array"
NoKey == "no key"

ASSUME HeapAssumption ==
  /\ kind \in [Obj -> {"table", "udata", "func", "upval", "thread", "string"}]
  /\ Main \in Obj /\ kind[Main] = "thread"
  /\ Registry \in Obj /\ kind[Registry] = "table"
  /\ Nil \notin Obj /\ Array \notin Obj /\ NoKey \notin Obj \cup {Nil}
  /\ "upval" \notin KeyKinds
  /\ Slots # {} /\ Slots \subseteq Nat
  /\ Modes \subseteq SUBSET {"k", "v"} /\ MaxEntries \in Nat /\ {Collects, Basics} \subseteq BOOLEAN

Keys == {k \in Obj : kind[k] \in KeyKinds} \cup {Array}

(* Scripts keep locals, which functions capture, in all slots but the last. *)
Temp == CHOOSE s \in Slots : \A r \in Slots : r <= s
NotOpen == <<>>

VARIABLES
  alloc,     \* the addresses that are in use
  color,     \* color[o]: white, dead, gray or black
  tab,       \* tab[t][k]: the entries of table t
  mode,      \* mode[t]: what the __mode of t's metatable makes weak
  link,      \* link[o]: metatable, environment, upvalues of an object
  open,      \* open[u]: the thread and slot an open upvalue is in
  val,       \* val[u]: the value of a closed upvalue
  stk,       \* stk[t]: the stack of thread t
  mt,        \* the metatable of a basic type
  running,   \* the thread that runs
  gcstate,   \* the state of the collector
  gray, grayagain, weak,     \* its lists
  sweepstr, sweepgc,         \* the strings, and the others, still to be swept
  tmudata,   \* the userdata whose finalizers are still to be called
  hasgc,     \* the userdata with a finalizer
  fin,       \* the userdata with FINALIZEDBIT
  full       \* whether luaC_fullgc runs, and which of its loops

heap == <<alloc, tab, mode, link, open, val, stk, mt, running, hasgc>>
lists == <<gray, grayagain, weak>>
vars == <<alloc, color, tab, mode, link, open, val, stk, mt, running, gcstate,
          gray, grayagain, weak, sweepstr, sweepgc, tmudata, hasgc, fin, full>>

-------------------------------------------------------------------------------
(* Colors *)

(* "white" is the current white and "dead" the other one, which objects have *)
(* from the end of the marking until they are swept.                        *)
iswhite(o) == color[o] \in {"white", "dead"}
isdead(o) == color[o] = "dead"

OfKind(k) == {o \in alloc : kind[o] = k}
OpenUpvals(t) == {u \in OfKind("upval") : open[u] # NotOpen /\ open[u][1] = t}

(* Where uv->v points: the slot of a thread, or the upvalue itself.         *)
UpvalValue(u) == IF open[u] = NotOpen THEN val[u] ELSE stk[open[u][1]][open[u][2]]

-------------------------------------------------------------------------------
(* Marking *)

traversetable(t) ==
  link[t]
    \cup {k \in Keys \cap Obj : tab[t][k] \in Obj /\ "k" \notin mode[t]}
    \cup {tab[t][k] : k \in {x \in Keys : tab[t][x] \in Obj /\ "v" \notin mode[t]}}

(* removeentry: the traversal also drops the keys of empty entries, unless  *)
(* it leaves a table that is weak in both ways alone.                       *)
removeentry(t) ==
  [k \in Keys |-> IF k \in Obj /\ tab[t][k] = Nil /\ mode[t] # {"k", "v"} THEN NoKey ELSE tab[t][k]]

traversestack(t) == {stk[t][s] : s \in Slots} \cup {Registry}

(* What the traversal of o marks.                                           *)
Edges(o) ==
  (CASE kind[o] = "table"  -> traversetable(o)
     [] kind[o] = "thread" -> traversestack(o)
     [] kind[o] = "upval"  -> {UpvalValue(o)}
     [] OTHER              -> link[o]) \ {Nil}

(* The smallest set around S that holds E[o] for each of its members.       *)
(* Three steps of growth mostly reach it (the sets of one element make TLC  *)
(* evaluate each step once).                                                *)
Closed(X, E) == \A p \in X : E[p] \subseteq X
Grow(X, E) == X \cup UNION {E[p] : p \in X}
Closure(S, E) ==
  UNION {IF Closed(X, E) THEN X
         ELSE {o \in Obj : \A Y \in SUBSET Obj : S \subseteq Y /\ Closed(Y, E) => o \in Y} :
         X \in {Grow(Y, E) : Y \in {Grow(Z, E) : Z \in {Grow(S, E)}}}}

(* reallymarkobject on the white ones of S: userdata and upvalues pass the  *)
(* mark on at once, the rest waits in the gray list.                        *)
PassedOn == [o \in Obj |-> IF kind[o] \in {"udata", "upval"} THEN {r \in Edges(o) : iswhite(r)} ELSE {}]
Marked(S) == Closure({o \in S : iswhite(o)}, PassedOn)

(* Strings, open upvalues and all that waits are gray.                      *)
MarkColor(o) ==
  IF kind[o] = "udata" \/ (kind[o] = "upval" /\ open[o] = NotOpen) THEN "black" ELSE "gray"

Recolor(X) == [o \in Obj |-> IF o \in X THEN MarkColor(o) ELSE color[o]]
Listed(X) == {o \in X : kind[o] \in {"table", "func", "thread"}}

(* The color of o once it is traversed: threads and weak tables stay gray.  *)
TraversedColor(o) ==
  IF kind[o] = "thread" \/ (kind[o] = "table" /\ mode[o] # {}) THEN "gray" ELSE "black"

(* markroot: the main thread, the registry and the basic metatables.        *)
Roots == {Main, Registry, mt} \ {Nil}

StartMarking ==
  LET X == Marked(Roots) IN
  /\ color' = Recolor(X)
  /\ gray' = Listed(X)
  /\ grayagain' = {} /\ weak' = {}
  /\ gcstate' = "propagate"

markroot ==
  /\ gcstate = "pause" /\ full = "no"
  /\ StartMarking
  /\ UNCHANGED <<heap, sweepstr, sweepgc, tmudata, fin, full>>

(* Traverse one gray object.                                                *)
propagatemark(o) ==
  LET X == Marked(Edges(o)) IN
  /\ gcstate = "propagate" /\ o \in gray
  /\ color' = [Recolor(X) EXCEPT ![o] = TraversedColor(o)]
  /\ gray' = (gray \ {o}) \cup Listed(X)
  /\ grayagain' = IF kind[o] = "thread" THEN grayagain \cup {o} ELSE grayagain
  /\ weak' = IF kind[o] = "table" /\ mode[o] # {} THEN weak \cup {o} ELSE weak
  /\ tab' = IF kind[o] = "table" THEN [tab EXCEPT ![o] = removeentry(o)] ELSE tab
  /\ UNCHANGED <<alloc, mode, link, open, val, stk, mt, running, hasgc,
                 gcstate, sweepstr, sweepgc, tmudata, fin, full>>

(* The values of open upvalues that are marked: their thread may be dead.   *)
remarkupvals ==
  {UpvalValue(u) : u \in {x \in OfKind("upval") : open[x] # NotOpen /\ color[x] = "gray"}} \ {Nil}

(* Mutant: what the barriers put aside is not traversed again.              *)
M_AtomicMarks ==
  LET edges == [o \in Obj |-> {r \in Edges(o) : iswhite(r)}]
      remark == {o \in remarkupvals \cup {running} \cup ({mt} \ {Nil}) : iswhite(o)}
  IN Closure(weak \cup remark, edges)

(* Everything that atomic marks before it separates the userdata: from all  *)
(* lists, the remarked values, the running thread and the basic metatables. *)
AtomicMarks ==
  LET edges == [o \in Obj |-> {r \in Edges(o) : iswhite(r)}]
      remark == {o \in remarkupvals \cup {running} \cup ({mt} \ {Nil}) : iswhite(o)}
  IN Closure(gray \cup weak \cup grayagain \cup remark, edges)

(* luaC_separateudata: the dead userdata with a finalizer that has not been *)
(* called; M is what is marked.                                             *)
DeadUdata(M) == {u \in OfKind("udata") \ (fin \cup tmudata) : iswhite(u) /\ u \notin M}
luaC_separateudata(M) == DeadUdata(M) \cap hasgc

(* marktmu: userdata that wait for their finalizers, and what they hold.    *)
marktmu(M, T) ==
  Closure(T, [o \in Obj |-> {r \in Edges(o) : iswhite(r) /\ r \notin M}])

(* iscleared: strings are values, and never removed; a finalized userdata   *)
(* stays as a key and goes as a value.                                      *)
iscleared(o, iskey, M, F) ==
  /\ o \in Obj /\ kind[o] # "string"
  /\ o \notin M \/ (kind[o] = "udata" /\ ~iskey /\ o \in F)

(* cleartable: what is removed from weak table t; the array part is looked  *)
(* at only when values are weak.                                            *)
ClearedKeys(t, M, F) ==
  {k \in Keys :
     /\ tab[t][k] \in Obj
     /\ IF k = Array THEN "v" \in mode[t] /\ iscleared(tab[t][k], FALSE, M, F)
                     ELSE iscleared(k, TRUE, M, F) \/ iscleared(tab[t][k], FALSE, M, F)}

(* The strings that cleartable meets, and marks: keys, values behind keys   *)
(* that stay, and weak values of the array part.                            *)
MetStrings(t, M, F) ==
  {o \in OfKind("string") :
     \E k \in Keys :
       /\ tab[t][k] \in Obj
       /\ \/ k = o
          \/ tab[t][k] = o /\ IF k = Array THEN "v" \in mode[t] ELSE ~iscleared(k, TRUE, M, F)}

(* What is in the table of strings, and on the list of all other objects;   *)
(* open upvalues are on the lists of their threads.                         *)
AllStrings == OfKind("string")
AllOthers == {o \in alloc \ (AllStrings \cup tmudata) : open[o] = NotOpen}

(* Mutant: the current white stays.                                         *)
M_OtherWhite(c) == c

(* The flip of the current white.                                           *)
OtherWhite(c) == CASE c = "white" -> "dead" [] c = "dead" -> "white" [] OTHER -> c

(* The rest of the marking in one step: nothing runs in between.  The lists *)
(* left over are not read again before markroot makes new ones.             *)
atomic ==
  LET X == AtomicMarks
      M == X \cup {o \in Obj : ~iswhite(o)}
      T == tmudata \cup luaC_separateudata(M)
      Y == marktmu(M, T)
      F == fin \cup DeadUdata(M)
      W == {t \in X \cup Y : kind[t] = "table" /\ mode[t] # {}}
      S == UNION {MetStrings(t, M \cup Y, F) : t \in W}
  IN /\ gcstate = "propagate" /\ gray = {}
     /\ color' = [o \in Obj |->
          IF o \in X \cup Y THEN (IF o \in Listed(X \cup Y) THEN TraversedColor(o) ELSE MarkColor(o))
          ELSE IF o \in S THEN "gray"
          ELSE IF o \in alloc THEN OtherWhite(color[o]) ELSE "white"]
     /\ tab' = [t \in Obj |-> [k \in Keys |->
          IF t \in W /\ k \in ClearedKeys(t, M \cup Y, F) THEN (IF k = Array THEN Nil ELSE NoKey)
          ELSE IF t \in OfKind("table") \cap (X \cup Y) THEN removeentry(t)[k] ELSE tab[t][k]]]
     /\ tmudata' = T /\ fin' = F
     /\ gcstate' = "sweepstring"
     /\ sweepstr' = AllStrings
     /\ sweepgc' = AllOthers \ T
     /\ gray' = {} /\ grayagain' = {} /\ weak' = {}
     /\ UNCHANGED <<alloc, mode, link, open, val, stk, mt, running, hasgc, full>>

-------------------------------------------------------------------------------
(* Sweeping and finalizers *)

EmptyTable == [k \in Keys |-> IF k = Array THEN Nil ELSE NoKey]
EmptyStack == [s \in Slots |-> Nil]

(* Free the objects of D and close the upvalues of C, whose values are kept *)
(* where the stack had them.                                                *)
FreeAndClose(D, C) ==
  /\ alloc' = alloc \ D
  /\ tab'  = [o \in Obj |-> IF o \in D THEN EmptyTable ELSE tab[o]]
  /\ mode' = [o \in Obj |-> IF o \in D THEN {} ELSE mode[o]]
  /\ link' = [o \in Obj |-> IF o \in D THEN {} ELSE link[o]]
  /\ stk'  = [o \in Obj |-> IF o \in D THEN EmptyStack ELSE stk[o]]
  /\ open' = [o \in Obj |-> IF o \in D \cup C THEN NotOpen ELSE open[o]]
  /\ val'  = [o \in Obj |-> IF o \in D THEN Nil ELSE IF o \in C THEN UpvalValue(o) ELSE val[o]]
  /\ hasgc' = hasgc \ D
  /\ fin' = fin \ D

(* sweeplist on one object: the open upvalues of a thread go with it.       *)
sweeplist(o) ==
  LET swept == {o} \cup OpenUpvals(o)
      D == {x \in swept : isdead(x)}
  IN /\ FreeAndClose(D, IF o \in D THEN swept \ (D \cup {o}) ELSE {})
     /\ color' = [x \in Obj |-> IF x \in swept THEN "white" ELSE color[x]]

sweepstring(o) ==
  /\ gcstate = "sweepstring" /\ o \in sweepstr
  /\ sweeplist(o)
  /\ sweepstr' = sweepstr \ {o}
  /\ UNCHANGED <<mt, running, gcstate, lists, sweepgc, tmudata, full>>

sweep(o) ==
  /\ gcstate = "sweep" /\ o \in sweepgc
  /\ sweeplist(o)
  /\ sweepgc' = sweepgc \ {o}
  /\ UNCHANGED <<mt, running, gcstate, lists, sweepstr, tmudata, full>>

(* A phase ends when nothing is left of its list.                           *)
NextPhase ==
  /\ \/ gcstate = "sweepstring" /\ sweepstr = {} /\ gcstate' = "sweep" /\ UNCHANGED full
     \/ gcstate = "sweep" /\ sweepgc = {} /\ gcstate' = "finalize" /\ UNCHANGED full
     \/ gcstate = "finalize" /\ tmudata = {} /\ full # "sweeping" /\ gcstate' = "pause" /\ full' = "no"
  /\ UNCHANGED <<heap, color, lists, sweepstr, sweepgc, tmudata, fin>>

(* GCTM: the userdata goes back to the list of objects, and is the argument *)
(* of its finalizer.                                                        *)
GCTM(u) ==
  /\ gcstate = "finalize" /\ full # "sweeping" /\ u \in tmudata
  /\ tmudata' = tmudata \ {u}
  /\ color' = [color EXCEPT ![u] = "white"]
  /\ stk' = [stk EXCEPT ![running][Temp] = u]
  /\ UNCHANGED <<alloc, tab, mode, link, open, val, mt, running, hasgc,
                 gcstate, lists, sweepstr, sweepgc, fin, full>>

(* Scripts run between the steps of the collector, and as finalizers inside *)
(* a full collection.                                                       *)
ScriptRuns == full = "no" \/ (full = "marking" /\ gcstate = "finalize")

(* luaC_fullgc, called by a script: marks are thrown away, or the sweep     *)
(* that is under way is finished, and a whole collection follows.           *)
luaC_fullgc ==
  /\ ScriptRuns
  /\ full' = "sweeping"
  /\ IF gcstate \in {"pause", "propagate"}
     THEN /\ sweepstr' = AllStrings /\ sweepgc' = AllOthers
          /\ gray' = {} /\ grayagain' = {} /\ weak' = {}
          /\ gcstate' = "sweepstring"
     ELSE UNCHANGED <<gcstate, lists, sweepstr, sweepgc>>
  /\ UNCHANGED <<heap, color, tmudata, fin>>

(* Its second half.                                                         *)
FullMark ==
  /\ full = "sweeping" /\ gcstate = "finalize"
  /\ full' = "marking"
  /\ StartMarking
  /\ UNCHANGED <<heap, sweepstr, sweepgc, tmudata, fin>>

singlestep ==
  \/ markroot
  \/ \E o \in Obj : propagatemark(o) \/ sweepstring(o) \/ sweep(o) \/ GCTM(o)
  \/ atomic
  \/ NextPhase
  \/ FullMark

-------------------------------------------------------------------------------
(* Scripts                                                                  *)

(* What a script can read from an object.                                   *)
Readable(o) ==
  (CASE kind[o] = "table"  -> link[o] \cup {k \in Keys \cap Obj : tab[o][k] \in Obj}
                                      \cup ({tab[o][k] : k \in Keys} \cap Obj)
     [] kind[o] = "thread" -> {stk[o][s] : s \in Slots}
     [] kind[o] = "func"   -> {UpvalValue(u) : u \in {x \in link[o] : kind[x] = "upval"}}
     [] OTHER              -> link[o]) \ {Nil}

(* The values a script has at hand: those in its stack, and those it reads  *)
(* from them and from the globals.  No step of the collector comes between  *)
(* such a read and the use of what was read.                                *)
InStack == {stk[running][s] : s \in Slots} \ {Nil}
Held == InStack \cup UNION {Readable(o) : o \in InStack \cup {Registry}}
OfKindIn(H, k) == {o \in H : kind[o] = k}

collector == <<gcstate, sweepstr, sweepgc, tmudata, fin, full>>

(* luaC_barrierf: p is black and v white.                                   *)
luaC_barrierf(p, v) ==
  IF gcstate = "propagate"
  THEN /\ color' = Recolor(Marked({v}))
       /\ gray' = gray \cup Listed(Marked({v}))
  ELSE /\ color' = [color EXCEPT ![p] = "white"]
       /\ UNCHANGED gray

luaC_barrier(p, v) ==
  /\ IF v \in Obj /\ iswhite(v) /\ color[p] = "black" THEN luaC_barrierf(p, v) ELSE UNCHANGED <<color, gray>>
  /\ UNCHANGED <<grayagain, weak>>

(* Mutant: no barrier.                                                      *)
M_luaC_barriert(t, S) == UNCHANGED <<color, gray, grayagain, weak>>

(* luaC_barrierback: t is black and will be traversed again.                *)
luaC_barriert(t, S) ==
  /\ IF color[t] = "black" /\ \E v \in S \cap Obj : iswhite(v)
     THEN /\ color' = [color EXCEPT ![t] = "gray"]
          /\ grayagain' = IF gcstate = "propagate" THEN grayagain \cup {t} ELSE grayagain
     ELSE UNCHANGED <<color, grayagain>>
  /\ UNCHANGED <<gray, weak>>

(* luaC_link, luaE_newthread, luaS_newudata, luaS_newlstr: a new object is  *)
(* white.  A finalizer is part of the metatable a userdata is given.        *)
luaC_link(o, s, gc) ==
  /\ ScriptRuns /\ o \notin alloc /\ (gc => kind[o] = "udata")
  /\ alloc' = alloc \cup {o}
  /\ color' = [color EXCEPT ![o] = "white"]
  /\ stk' = [stk EXCEPT ![running][s] = o]
  /\ hasgc' = IF gc THEN hasgc \cup {o} ELSE hasgc
  /\ UNCHANGED <<tab, mode, link, open, val, mt, running, collector, lists>>

(* luaS_newlstr on a string that the table of strings has, dead or not.     *)
luaS_newlstr(o, s) ==
  /\ ScriptRuns /\ o \in AllStrings
  /\ color' = IF isdead(o) THEN [color EXCEPT ![o] = "white"] ELSE color
  /\ stk' = [stk EXCEPT ![running][s] = o]
  /\ UNCHANGED <<alloc, tab, mode, link, open, val, mt, running, hasgc, collector, lists>>

(* OP_CLOSURE with luaF_findupval: function f captures local c through the  *)
(* open upvalue it has, dead or not, or through a new one.                  *)
OP_CLOSURE(f, u, c) ==
  LET found == {x \in OpenUpvals(running) : open[x][2] = c} IN
  /\ ScriptRuns /\ f \notin alloc /\ kind[f] = "func" /\ kind[u] = "upval"
  /\ IF found # {} THEN u \in found ELSE u \notin alloc
  /\ alloc' = alloc \cup {f, u}
  /\ color' = [color EXCEPT ![f] = "white",
                            ![u] = IF found = {} \/ isdead(u) THEN "white" ELSE @]
  /\ open' = [open EXCEPT ![u] = <<running, c>>]
  /\ link' = [link EXCEPT ![f] = {u}]
  /\ stk' = [stk EXCEPT ![running][Temp] = f]
  /\ UNCHANGED <<tab, mode, val, mt, running, hasgc, collector, lists>>

(* luaC_linkupval on the gray upvalues G that are closed: they are black    *)
(* from here, with a barrier, or white in a sweep.                          *)
luaC_linkupval(G) ==
  LET X == Marked({UpvalValue(u) : u \in G} \ {Nil}) IN
  IF gcstate = "propagate"
  THEN /\ color' = [o \in Obj |-> IF o \in G THEN "black" ELSE Recolor(X)[o]]
       /\ gray' = gray \cup Listed(X)
  ELSE /\ color' = [o \in Obj |-> IF o \in G \/ o \notin alloc' THEN "white" ELSE color[o]]
       /\ UNCHANGED gray

(* luaF_close from level c up: a dead upvalue is freed, the others closed.  *)
luaF_close(c) ==
  LET C == {u \in OpenUpvals(running) : open[u][2] >= c}
      D == {u \in C : isdead(u)}
  IN /\ ScriptRuns /\ C # {}
     /\ FreeAndClose(D, C \ D)
     /\ luaC_linkupval({u \in C : color[u] = "gray"})
     /\ UNCHANGED <<mt, running, gcstate, grayagain, weak, sweepstr, sweepgc, tmudata, full>>

(* A script puts a value it can read into a slot, or drops what is there.   *)
Load(s, H) ==
  /\ ScriptRuns
  /\ \E v \in H \cup {Nil} : stk' = [stk EXCEPT ![running][s] = v]
  /\ UNCHANGED <<alloc, tab, mode, link, open, val, mt, running, hasgc, color, lists, collector>>

(* lua_rawset and OP_SETTABLE, with the barrier of newkey.                  *)
lua_rawset(t, k, v) ==
  LET new == tab[t][k] = NoKey IN
  /\ ScriptRuns
  /\ new => v # Nil
  /\ Cardinality({x \in Keys \ {k} : tab[t][x] # EmptyTable[x]}) < MaxEntries
  /\ tab' = [tab EXCEPT ![t][k] = v]
  /\ luaC_barriert(t, {v} \cup (IF new THEN {k} ELSE {}))
  /\ UNCHANGED <<alloc, mode, link, open, val, stk, mt, running, hasgc, collector>>

(* lua_setmetatable on a table.                                             *)
lua_setmetatable(t, m) ==
  /\ ScriptRuns
  /\ link' = [link EXCEPT ![t] = {m} \ {Nil}]
  /\ luaC_barriert(t, {m})
  /\ UNCHANGED <<alloc, tab, mode, open, val, stk, mt, running, hasgc, collector>>

(* lua_setmetatable on a userdata, lua_setfenv: the metatable and the       *)
(* environment are kept as one field, the new table replaces the old one;   *)
(* upvalues stay.                                                           *)
lua_setfenv(o, m) ==
  /\ ScriptRuns
  /\ link' = [link EXCEPT ![o] = {x \in @ : kind[x] = "upval"} \cup {m}]
  /\ luaC_barrier(o, m)
  /\ UNCHANGED <<alloc, tab, mode, open, val, stk, mt, running, hasgc, collector>>

(* lua_setmetatable on a value of a basic type: no barrier.                 *)
SetBasicMetatable(m) ==
  /\ ScriptRuns
  /\ mt' = m
  /\ UNCHANGED <<alloc, tab, mode, link, open, val, stk, running, hasgc, color, lists, collector>>

(* A script changes the __mode of a table's metatable.                      *)
SetMode(t, m) ==
  /\ ScriptRuns
  /\ mode' = [mode EXCEPT ![t] = m]
  /\ UNCHANGED <<alloc, tab, link, open, val, stk, mt, running, hasgc, color, lists, collector>>

StoreUpval(u, v) ==
  IF open[u] = NotOpen
  THEN val' = [val EXCEPT ![u] = v] /\ UNCHANGED stk
  ELSE stk' = [stk EXCEPT ![open[u][1]][open[u][2]] = v] /\ UNCHANGED val

(* OP_SETUPVAL: the barrier is the upvalue's.                               *)
OP_SETUPVAL(f, u, v) ==
  /\ ScriptRuns /\ u \in link[f] /\ kind[u] = "upval"
  /\ StoreUpval(u, v)
  /\ luaC_barrier(u, v)
  /\ UNCHANGED <<alloc, tab, mode, link, open, mt, running, hasgc, collector>>

(* lua_xmove: a value goes to the stack of a coroutine, without a barrier.  *)
lua_xmove(t, s, v) ==
  /\ ScriptRuns /\ t # running
  /\ stk' = [stk EXCEPT ![t][s] = v]
  /\ UNCHANGED <<alloc, tab, mode, link, open, val, mt, running, hasgc, color, lists, collector>>

(* A coroutine is resumed by the main thread, and yields to it.             *)
Switch(t, H) ==
  /\ ScriptRuns
  /\ \/ running = Main /\ t \in OfKindIn(H, "thread") \ {Main}
     \/ running # Main /\ t = Main
  /\ running' = t
  /\ UNCHANGED <<alloc, tab, mode, link, open, val, stk, mt, hasgc, color, lists, collector>>

(* What a script does with the values H it has at hand.                     *)
ScriptWith(H) ==
  \/ \E o \in Obj, s \in Slots, gc \in BOOLEAN : kind[o] \notin {"func", "upval"} /\ luaC_link(o, s, gc)
  \/ \E o \in AllStrings, s \in Slots : luaS_newlstr(o, s)
  \/ \E f, u \in Obj, c \in Slots \ {Temp} : OP_CLOSURE(f, u, c)
  \/ \E c \in Slots : luaF_close(c)
  \/ \E s \in Slots : Load(s, H)
  \/ \E t \in OfKindIn(H, "table") \cup {Registry}, k \in (H \cap Keys) \cup {Array}, v \in H \cup {Nil} :
       lua_rawset(t, k, v)
  \/ \E t \in OfKindIn(H, "table") \cup {Registry}, m \in OfKindIn(H, "table") \cup {Nil} :
       t # m /\ lua_setmetatable(t, m)
  \/ \E o \in OfKindIn(H, "udata") \cup OfKindIn(H, "func"), m \in OfKindIn(H, "table") : lua_setfenv(o, m)
  \/ Basics /\ \E m \in OfKindIn(H, "table") \cup {Nil} : SetBasicMetatable(m)
  \/ \E t \in OfKindIn(H, "table"), m \in Modes : SetMode(t, m)
  \/ \E f \in OfKindIn(H, "func"), v \in H \cup {Nil} : \E u \in link[f] : OP_SETUPVAL(f, u, v)
  \/ \E t \in OfKindIn(H, "thread"), v \in H : lua_xmove(t, Temp, v)
  \/ \E t \in Obj : Switch(t, H)
  \/ Collects /\ luaC_fullgc

Script == ScriptRuns /\ \E H \in {Held} : ScriptWith(H)

Init ==
  /\ alloc = {Main, Registry}
  /\ color = [o \in Obj |-> "white"]
  /\ tab = [o \in Obj |-> EmptyTable]
  /\ mode = [o \in Obj |-> {}] /\ link = [o \in Obj |-> {}]
  /\ open = [o \in Obj |-> NotOpen] /\ val = [o \in Obj |-> Nil]
  /\ stk = [o \in Obj |-> EmptyStack]
  /\ mt = Nil /\ running = Main
  /\ gcstate = "pause"
  /\ gray = {} /\ grayagain = {} /\ weak = {}
  /\ sweepstr = {} /\ sweepgc = {}
  /\ tmudata = {} /\ hasgc = {} /\ fin = {}
  /\ full = "no"

Next == singlestep \/ Script

Spec == Init /\ [][Next]_vars

(* Scripts allocate as long as the server works, and so the collector goes  *)
(* on (luaC_checkGC).                                                       *)
FairSpec == Spec /\ WF_vars(singlestep)

-------------------------------------------------------------------------------

Live(o) == o \in alloc /\ ~isdead(o)

(* All that o refers to, weakly or not.                                     *)
Refs(o) == Edges(o) \cup Readable(o) \cup link[o]

(* While marking goes on, nothing black refers to anything white.           *)
TriColor ==
  gcstate = "propagate" =>
    \A o \in Obj \ tmudata : color[o] = "black" => \A r \in Edges(o) : ~iswhite(r)

(* No object is on two of the lists that share its link field, and between  *)
(* two collections no object but those that wait for their finalizers keeps *)
(* a mark, which would hide it from the next one.                           *)
ListsAndMarks ==
  /\ gray \cap grayagain = {} /\ gray \cap weak = {} /\ grayagain \cap weak = {}
  /\ \A o \in gray \cup grayagain \cup weak : color[o] = "gray"
  /\ gcstate \in {"pause", "finalize"} => \A o \in Obj \ tmudata : color[o] = "white"

(* Nothing that is alive, and the roots are, refers to an object that has   *)
(* been freed or is about to be: neither strongly nor through a weak table; *)
(* and the colours and lists are such that the next steps keep it so        *)
(* (propagatemark, atomic, the sweep and every barrier).                    *)
NothingDangles ==
  /\ \A o \in Roots \cup {running} : Live(o)
  /\ \A o \in Obj : Live(o) => \A r \in Refs(o) : Live(r)
  /\ TriColor /\ ListsAndMarks

(* What the program can still reach without going through a weak reference. *)
Reach == Closure(Roots \cup {running}, [o \in Obj |-> Edges(o)])

(* Without going through a userdata that waits for its finalizer either: it  *)
(* keeps its mark on the list of such userdata, and what a script puts into  *)
(* it there is not marked through it.                                       *)
ReachPastWaiting ==
  Closure(Roots \cup {running}, [o \in Obj |-> IF o \in tmudata THEN {} ELSE Edges(o)])

(* A finalizer is scheduled only for a userdata that nothing reaches, unless *)
(* through userdata that wait for theirs; as long as none waits, that is     *)
(* everything that is reachable (atomic, luaC_separateudata, marktmu).       *)
FinalizesOnlyGarbage == [][\A u \in tmudata' \ tmudata : u \notin ReachPastWaiting]_vars

(* What nothing reaches is freed or handed to its finalizer, unless a       *)
(* script gets hold of it again (a string, a weak reference).               *)
GarbageIsFreed ==
  \A o \in Obj \ {Main, Registry} : (o \in alloc \ Reach) ~> (o \notin alloc \/ o \in Reach \/ o \in tmudata)
================================================================================
