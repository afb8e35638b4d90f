---------------------------- MODULE LuaCallProofs ----------------------------
(***************************************************************************)
(* Proofs about LuaCall, for any number of coroutines and any limits: the  *)
(* counts, frames, handlers and coroutines of the interpreter agree with   *)
(* its C stack at every step, and every error is caught.                   *)
(*                                                                         *)
(* The invariant speaks of a prefix 1..m of a C stack s: all of cst, or    *)
(* all but a lua_resume whose coroutine has come back to it.  h[i] is the  *)
(* number of CallInfos of the thread of s[i] when s[i] was entered.        *)
(***************************************************************************)
EXTENDS LuaCall, FiniteSetTheorems, SequenceTheorems, TLAPS

\* What errfunc can be.
HandlerValues == {"none", "traceback"} \union HandlerKinds

\* The records on the C stack.
Activation ==
    [k : {"call", "handler", "resume"}, th : Thread]
      \union [k : {"execute"}, th : Thread, n : Nat \ {0}]
      \union [k : {"pcall"}, th : Thread, ef : HandlerValues, nCcalls : Nat,
              ci : Nat, errfunc : HandlerValues]

\* The luaD_pcall of the engine, with the handler ef: none for call_lua_script,
\* the traceback for load_lua_library.
EngineCall(ef) == [k |-> "pcall", th |-> Main, ef |-> ef, nCcalls |-> 0,
                   ci |-> 0, errfunc |-> "none"]
EngineCalls == {EngineCall(ef) : ef \in {"none", "traceback"}}

\* The activations with a setjmp.
Catches(a) == a.k \in {"pcall", "resume"}

\* What b may be entered from.
Follows(a, b) ==
  \/ b.k = "resume" /\ a.k \in {"call", "execute"} /\ b.th \in Coroutine
  \/ b.k \in {"pcall", "handler"} /\ a.k \in {"call", "execute"} /\ b.th = a.th
  \/ b.k = "call" /\ a.k \in {"call", "execute", "pcall", "handler"} /\ b.th = a.th
  \/ b.k = "execute" /\ a.k \in {"call", "resume"} /\ b.th = a.th

\* What nCcalls has to be with s[i] on top.
Counting(s, i) == {j \in 1..i : s[j].k \in {"call", "resume"}}
Depth(s, i) == Cardinality(Counting(s, i))

\* a is a luaD_pcall of t.
Protects(a, t) == a.k = "pcall" /\ a.th = t

\* e is the handler of the innermost protected call of t below m.
HandlerAt(s, t, m, e) ==
  \/ e = "none" /\ \A j \in 1..m : ~Protects(s[j], t)
  \/ \E i \in 1..m : /\ Protects(s[i], t) /\ s[i].ef = e
                     /\ \A j \in i+1..m : ~Protects(s[j], t)

\* A thread is one contiguous part of the stack, entered by its lua_resume and
\* with a setjmp of its own as the innermost one.
Placed(s, i) ==
  /\ i = 1 => s[i] \in EngineCalls
  /\ i > 1 => Follows(s[i-1], s[i])
  /\ \A j \in 1..i-1 : s[j].th = s[i].th => s[i].k # "resume" /\ \A m \in j..i : s[m].th = s[i].th
  /\ \E j \in 1..i : s[j].th = s[i].th /\ Catches(s[j]) /\ \A m \in j+1..i : ~Catches(s[m])
  /\ s[i].th \in Coroutine => \E j \in 1..i : s[j].k = "resume" /\ s[j].th = s[i].th
  /\ s[i].k = "pcall" => s[i].nCcalls = Depth(s, i) /\ HandlerAt(s, s[i].th, i-1, s[i].errfunc)

\* The order of the activations.
StackOK(s, m) == \A i \in 1..m : Placed(s, i)

\* The frames that an activation runs.
Width(a) == IF a.k = "execute" THEN a.n ELSE 0

\* The frames c of the thread of a, entered at b, when k is what comes above a.
Between(a, k, b, c) ==
  /\ a.k \in {"pcall", "handler", "resume"} => c = b
  /\ a.k = "execute" => c = b + a.n \/ c = b + a.n + 1
  /\ a.k = "call" => \/ k = "execute" /\ c = b
                     \/ k = "handler" /\ (c = b \/ c = b + 1)
                     \/ k \notin {"execute", "handler"} /\ c = b + 1

\* Heights rise with the frames of the thread, and a luaD_pcall saved its own.
Based(s, h, i) ==
  /\ \A j \in 1..i-1 : s[j].th = s[i].th => h[j] + Width(s[j]) <= h[i]
  /\ s[i].k = "pcall" => s[i].ci = h[i]
  /\ s[i].k = "resume" => h[i] = 0
  /\ (i > 1 /\ s[i].k # "resume") => Between(s[i-1], s[i].k, h[i-1], h[i])

HeightsOK(s, m, h) == \A i \in 1..m : Based(s, h, i)

\* A thread that waits for one it has resumed keeps its frames.
WaitOK(s, m, h, fr) ==
  \A i \in 2..m : s[i].k = "resume" =>
      Between(s[i-1], "resume", h[i-1], Len(fr[s[i-1].th]))

\* Frame p of t belongs to one of its loops.
InLoop(s, m, h, t, p) ==
  \E i \in 1..m : s[i].k = "execute" /\ s[i].th = t /\ h[i] < p /\ p <= h[i] + s[i].n

LoopFrames(s, m, h, t, f) ==
  \A p \in 1..Len(f) : f[p] = "lua" <=> InLoop(s, m, h, t, p)

\* The Lua frames of the threads are those of the loops.
LoopsOK(s, m, h, fr, st) ==
  /\ \A i \in 1..m : h[i] + Width(s[i]) <= Len(fr[s[i].th])
  /\ \A t \in Thread : st[t] = "OK" => LoopFrames(s, m, h, t, fr[t])

\* What the threads of the stack have counted, those that wait included.
CountedOK(s, m, nc, bc) ==
  /\ bc[Main] = 0
  /\ \A i \in 1..m : s[i].k = "resume" => bc[s[i].th] = Depth(s, i)
  /\ \A i \in 2..m : s[i].k = "resume" => nc[s[i-1].th] = Depth(s, i-1)
  /\ m > 0 => nc[s[m].th] = Depth(s, m)
  /\ m = 0 => nc[Main] = 0

\* Each thread has the handler of its innermost luaD_pcall.
HandledOK(s, m, ef) == \A t \in Thread : HandlerAt(s, t, m, ef[t])

\* The frames of a coroutine that has yielded.
Suspended(f) == Len(f) > 1 /\ f[Len(f)] = "c" /\ \A p \in 1..Len(f) - 1 : f[p] = "lua"

\* The state of a thread, its frames and its activations agree.
StatusOK(s, m, fr, st, ho) ==
  /\ st[Main] = "OK"
  /\ \A i \in 1..m : st[s[i].th] = "OK" /\ (s[i].th \in Coroutine => ~ho[s[i].th])
  /\ \A t \in Thread : st[t] = "YIELD" => Suspended(fr[t])
  /\ \A t \in Thread : (st[t] = "OK" /\ \A i \in 1..m : s[i].th # t) => fr[t] = <<>>

\* Two stacks that differ at most in what the topmost loop counts.
Alike(s, z, m) ==
  /\ \A i \in 1..m : z[i].k = s[i].k /\ z[i].th = s[i].th /\ (s[i].k = "pcall" => z[i] = s[i])
  /\ \A i \in 1..m-1 : z[i] = s[i]

-------------------------------------------------------------------------------
(* Activations and depths. *)

\* The fields an activation has.
LEMMA ActivationFields ==
  ASSUME NEW a \in Activation
  PROVE  /\ a.k \in {"call", "handler", "resume", "execute", "pcall"}
         /\ a.th \in Thread
         /\ a.k = "execute" => a.n \in Nat \ {0}
         /\ a.k = "pcall" => /\ a.ef \in HandlerValues /\ a.errfunc \in HandlerValues
                             /\ a.nCcalls \in Nat /\ a.ci \in Nat
  BY DEF Activation

\* The records that the actions push are activations.
LEMMA NewActivations ==
  ASSUME NEW t \in Thread
  PROVE  /\ \A k \in {"call", "handler", "resume"} : [k |-> k, th |-> t] \in Activation
         /\ \A n \in Nat \ {0} : [k |-> "execute", th |-> t, n |-> n] \in Activation
         /\ \A e, f \in HandlerValues, n, c \in Nat :
               [k |-> "pcall", th |-> t, ef |-> e, nCcalls |-> n, ci |-> c, errfunc |-> f]
                  \in Activation
  BY DEF Activation

\* Depth counts a finite set.
LEMMA DepthType ==
  ASSUME NEW s, NEW i \in Nat
  PROVE  /\ IsFiniteSet(Counting(s, i)) /\ Depth(s, i) \in Nat
  <1>1. IsFiniteSet(1..i)
    BY FS_Interval
  <1>2. Counting(s, i) \in SUBSET (1..i)
    BY DEF Counting
  <1>3. IsFiniteSet(Counting(s, i))
    BY <1>1, <1>2, FS_Subset
  <1> QED
    BY <1>3, FS_CardinalityType DEF Depth

\* Nothing is counted on an empty stack.
LEMMA DepthZero ==
  ASSUME NEW s
  PROVE  Depth(s, 0) = 0
  <1>1. Counting(s, 0) = {}
    BY DEF Counting
  <1> QED
    BY <1>1, FS_EmptySet DEF Depth

\* One more activation adds one when it is a luaD_call or a lua_resume.
LEMMA DepthStep ==
  ASSUME NEW s, NEW i \in Nat
  PROVE  Depth(s, i+1) = IF s[i+1].k \in {"call", "resume"} THEN Depth(s, i) + 1 ELSE Depth(s, i)
  <1>1. IsFiniteSet(Counting(s, i)) /\ i+1 \notin Counting(s, i)
    <2>1. IsFiniteSet(Counting(s, i))
      BY DepthType
    <2>2. i+1 \notin Counting(s, i)
      BY DEF Counting
    <2> QED
      BY <2>1, <2>2
  <1>2. CASE s[i+1].k \in {"call", "resume"}
    <2>1. Counting(s, i+1) = Counting(s, i) \union {i+1}
      BY <1>2 DEF Counting
    <2> QED
      BY <1>1, <1>2, <2>1, FS_AddElement DEF Depth
  <1>3. CASE s[i+1].k \notin {"call", "resume"}
    <2>1. Counting(s, i+1) = Counting(s, i)
      BY <1>3 DEF Counting
    <2> QED
      BY <1>3, <2>1 DEF Depth
  <1> QED
    BY <1>2, <1>3

\* Depth never falls from below, and grows over what it counts.
LEMMA DepthGrows ==
  ASSUME NEW s, NEW i \in Nat, NEW j \in Nat, i <= j
  PROVE  /\ Depth(s, i) <= Depth(s, j)
         /\ (\E l \in i+1..j : s[l].k \in {"call", "resume"}) => Depth(s, i) < Depth(s, j)
  <1>1. Counting(s, i) \in SUBSET Counting(s, j)
    BY DEF Counting
  <1>2. IsFiniteSet(Counting(s, j)) /\ Depth(s, i) \in Nat /\ Depth(s, j) \in Nat
    BY DepthType
  <1>3. /\ Cardinality(Counting(s, i)) <= Cardinality(Counting(s, j))
        /\ Cardinality(Counting(s, j)) = Cardinality(Counting(s, i))
              => Counting(s, j) = Counting(s, i)
    BY <1>1, <1>2, FS_Subset
  <1>4. ASSUME NEW l \in i+1..j, s[l].k \in {"call", "resume"}
        PROVE  Counting(s, i) # Counting(s, j)
    BY <1>4 DEF Counting
  <1> QED
    BY <1>2, <1>3, <1>4 DEF Depth

\* The topmost loop does not matter to the count of calls ...
LEMMA DepthAlike ==
  ASSUME NEW s, NEW z, NEW m \in Nat, Alike(s, z, m)
  PROVE  \A i \in 0..m : Depth(z, i) = Depth(s, i)
  BY DEF Alike, Depth, Counting
-------------------------------------------------------------------------------
(* The parts of the invariant see no more of the stack than Alike. *)

\* ... nor to the handler in force ...
LEMMA HandlerAlike ==
  ASSUME NEW s, NEW z, NEW m \in Nat, Alike(s, z, m)
  PROVE  \A t, e : \A i \in 0..m : HandlerAt(s, t, i, e) <=> HandlerAt(z, t, i, e)
<1> TAKE t, e
<1> TAKE i \in 0..m
<1>1. \A j \in 1..m : Protects(s[j], t) <=> Protects(z[j], t)
  BY DEF Alike, Protects
<1>2. \A j \in 1..m : Protects(s[j], t) => z[j] = s[j]
  BY DEF Alike, Protects
<1> QED
  BY <1>1, <1>2 DEF HandlerAt

\* ... nor to the order of the activations ...
LEMMA AlikeStack ==
  ASSUME NEW s, NEW z, NEW m \in Nat, Alike(s, z, m), StackOK(s, m)
  PROVE  StackOK(z, m)
<1> SUFFICES ASSUME NEW i \in 1..m PROVE Placed(z, i)
  BY DEF StackOK
<1>0. Placed(s, i)
  BY DEF StackOK
<1>1. /\ \A j \in 1..i : z[j].k = s[j].k /\ z[j].th = s[j].th
      /\ s[i].k = "pcall" => z[i] = s[i]
  BY DEF Alike
<1>2. i = 1 => z[i] \in EngineCalls
  BY <1>0, <1>1 DEF Placed, EngineCall, EngineCalls
<1>3. i > 1 => Follows(z[i-1], z[i])
  BY <1>0, <1>1 DEF Placed, Follows
<1>4. \A j \in 1..i-1 : z[j].th = z[i].th
          => z[i].k # "resume" /\ \A l \in j..i : z[l].th = z[i].th
  BY <1>0, <1>1 DEF Placed
<1>5. /\ \E j \in 1..i : z[j].th = z[i].th /\ Catches(z[j]) /\ \A l \in j+1..i : ~Catches(z[l])
      /\ z[i].th \in Coroutine => \E j \in 1..i : z[j].k = "resume" /\ z[j].th = z[i].th
  BY <1>0, <1>1 DEF Placed, Catches
<1>6. z[i].k = "pcall" => /\ z[i].nCcalls = Depth(z, i)
                          /\ HandlerAt(z, z[i].th, i-1, z[i].errfunc)
  BY <1>0, <1>1, HandlerAlike, DepthAlike DEF Placed
<1> QED
  BY <1>2, <1>3, <1>4, <1>5, <1>6 DEF Placed

\* ... nor to the heights below it ...
LEMMA AlikeHeights ==
  ASSUME NEW s, NEW z, NEW m \in Nat, NEW h, NEW g, Alike(s, z, m),
         \A i \in 1..m : g[i] = h[i], HeightsOK(s, m, h)
  PROVE  HeightsOK(z, m, g)
<1> SUFFICES ASSUME NEW i \in 1..m PROVE Based(z, g, i)
  BY DEF HeightsOK
<1>0. Based(s, h, i)
  BY DEF HeightsOK
<1>1. /\ \A j \in 1..i-1 : z[j] = s[j] /\ g[j] = h[j]
      /\ g[i] = h[i] /\ z[i].k = s[i].k /\ z[i].th = s[i].th
      /\ s[i].k = "pcall" => z[i] = s[i]
  BY DEF Alike
<1>2. i > 1 => z[i-1] = s[i-1] /\ g[i-1] = h[i-1]
  BY <1>1
<1> QED
  BY <1>0, <1>1, <1>2 DEF Based

\* ... nor to the threads that wait ...
LEMMA AlikeWait ==
  ASSUME NEW s, NEW z, NEW m \in Nat, NEW h, NEW g, NEW fr, Alike(s, z, m),
         \A i \in 1..m : g[i] = h[i], WaitOK(s, m, h, fr)
  PROVE  WaitOK(z, m, g, fr)
<1> SUFFICES ASSUME NEW i \in 2..m, z[i].k = "resume"
             PROVE  Between(z[i-1], "resume", g[i-1], Len(fr[z[i-1].th]))
  BY DEF WaitOK
<1>1. z[i-1] = s[i-1] /\ g[i-1] = h[i-1] /\ s[i].k = "resume"
  BY DEF Alike
<1> QED
  BY <1>1 DEF WaitOK

\* ... nor to what the threads have counted ...
LEMMA AlikeCounted ==
  ASSUME NEW s, NEW z, NEW m \in Nat, NEW nc, NEW bc, Alike(s, z, m), CountedOK(s, m, nc, bc)
  PROVE  CountedOK(z, m, nc, bc)
<1>1. \A i \in 0..m : Depth(z, i) = Depth(s, i)
  BY DepthAlike
<1>2. \A i \in 1..m : z[i].k = s[i].k /\ z[i].th = s[i].th
  BY DEF Alike
<1>3. \A i \in 1..m : z[i].k = "resume" => bc[z[i].th] = Depth(z, i)
  BY <1>1, <1>2 DEF CountedOK
<1>4. \A i \in 2..m : z[i].k = "resume" => nc[z[i-1].th] = Depth(z, i-1)
  <2> SUFFICES ASSUME NEW i \in 2..m, z[i].k = "resume"
               PROVE  nc[z[i-1].th] = Depth(z, i-1)
    OBVIOUS
  <2>1. i \in 1..m /\ i-1 \in 1..m /\ i-1 \in 0..m
    OBVIOUS
  <2>2. s[i].k = "resume" /\ z[i-1].th = s[i-1].th /\ Depth(z, i-1) = Depth(s, i-1)
    BY <1>1, <1>2, <2>1
  <2> QED
    BY <2>2 DEF CountedOK
<1>5. m > 0 => nc[z[m].th] = Depth(z, m)
  BY <1>1, <1>2 DEF CountedOK
<1> QED
  BY <1>3, <1>4, <1>5 DEF CountedOK

\* ... nor to their handlers ...
LEMMA AlikeHandled ==
  ASSUME NEW s, NEW z, NEW m \in Nat, NEW ef, Alike(s, z, m), HandledOK(s, m, ef)
  PROVE  HandledOK(z, m, ef)
  BY HandlerAlike DEF HandledOK

\* ... nor to their states.
LEMMA AlikeStatus ==
  ASSUME NEW s, NEW z, NEW m \in Nat, NEW fr, NEW st, NEW ho, Alike(s, z, m),
         StatusOK(s, m, fr, st, ho)
  PROVE  StatusOK(z, m, fr, st, ho)
<1>1. \A i \in 1..m : z[i].th = s[i].th
  BY DEF Alike
<1> QED
  BY <1>1 DEF StatusOK
-------------------------------------------------------------------------------
(* What an operation does to the invariant: it puts an activation on the   *)
(* stack, takes some off, or changes the frames of the running thread.     *)

\* Sequences that the provers need not look into.
Stacks == Seq(Activation)
Frames == [Thread -> Seq(Functions)]
Heights == [Nat -> Nat]

\* The first m activations, their heights and the frames have their types.
Typed(s, m, h, fr) ==
  /\ \A i \in 1..m : s[i] \in Activation
  /\ h \in Heights /\ fr \in Frames

\* What holds of the activations, whatever is about to happen on top.
Core(s, m, h, fr, nc, bc, ef, st, ho) ==
  /\ StackOK(s, m) /\ HeightsOK(s, m, h) /\ WaitOK(s, m, h, fr) /\ LoopsOK(s, m, h, fr, st)
  /\ CountedOK(s, m, nc, bc) /\ HandledOK(s, m, ef) /\ StatusOK(s, m, fr, st, ho)

\* What has its type on a stack has it on each part of it.
LEMMA TypedBelow ==
  ASSUME NEW s, NEW n \in Nat, NEW m \in Nat, m <= n, NEW h, NEW fr, Typed(s, n, h, fr)
  PROVE  Typed(s, m, h, fr)
<1>1. 1..m \subseteq 1..n
  OBVIOUS
<1> QED
  BY <1>1 DEF Typed

\* The types of what lies on a typed stack.
LEMMA Fields ==
  ASSUME NEW s, NEW m \in Nat, NEW h, NEW fr, Typed(s, m, h, fr)
  PROVE  /\ \A i \in 1..m : /\ s[i].k \in {"call", "handler", "resume", "execute", "pcall"}
                            /\ s[i].th \in Thread
                            /\ s[i].k = "execute" => s[i].n \in Nat \ {0}
                            /\ Width(s[i]) \in Nat /\ h[i] \in Nat
         /\ \A t \in Thread : fr[t] \in Seq(Functions) /\ Len(fr[t]) \in Nat
<1>1. \A i \in 1..m : s[i] \in Activation
  BY DEF Typed
<1>2. \A i \in 1..m : /\ s[i].k \in {"call", "handler", "resume", "execute", "pcall"}
                      /\ s[i].th \in Thread
                      /\ s[i].k = "execute" => s[i].n \in Nat \ {0}
  BY <1>1, ActivationFields
<1>3. \A i \in 1..m : Width(s[i]) \in Nat
  BY <1>2 DEF Width
<1>4. \A i \in 1..m : h[i] \in Nat
  BY DEF Typed, Heights
<1>5. \A t \in Thread : fr[t] \in Seq(Functions)
  BY DEF Typed, Frames
<1>6. \A t \in Thread : Len(fr[t]) \in Nat
  BY <1>5
<1> QED
  BY <1>2, <1>3, <1>4, <1>5, <1>6

\* A thread is contiguous.
LEMMA OneThread ==
  ASSUME NEW s, NEW m \in Nat, StackOK(s, m), NEW j \in 1..m, s[j].th = s[m].th
  PROVE  \A i \in j..m : s[i].th = s[m].th /\ (i > j => s[i].k # "resume")
<1>1. \A i \in j..m : s[i].th = s[m].th
  <2>1. CASE j = m
    BY <2>1
  <2>2. CASE j < m
    <3>1. Placed(s, m)
      BY DEF StackOK
    <3> QED
      BY <2>2, <3>1 DEF Placed
  <2> QED
    BY <2>1, <2>2
<1>2. ASSUME NEW i \in j..m, i > j
      PROVE  s[i].k # "resume"
  <2>1. Placed(s, i) /\ j \in 1..i-1 /\ s[j].th = s[i].th
    BY <1>1, <1>2 DEF StackOK
  <2> QED
    BY <2>1 DEF Placed
<1> QED
  BY <1>1, <1>2

\* The thread on top waits for nobody.
LEMMA WaitersElsewhere ==
  ASSUME NEW s, NEW m \in Nat, StackOK(s, m), NEW i \in 2..m, s[i].k = "resume"
  PROVE  s[i-1].th # s[m].th
<1>1. SUFFICES ASSUME s[i-1].th = s[m].th PROVE FALSE
  OBVIOUS
<1>2. i-1 \in 1..m
  OBVIOUS
<1> QED
  BY <1>1, <1>2, OneThread

\* The invariant of a stack speaks of its first m activations only.
LEMMA CoreSame ==
  ASSUME NEW s, NEW z, NEW m \in Nat, NEW h, NEW g, NEW fr, NEW nc, NEW bc, NEW ef, NEW st, NEW ho,
         \A i \in 1..m : z[i] = s[i] /\ g[i] = h[i],
         Core(s, m, h, fr, nc, bc, ef, st, ho)
  PROVE  Core(z, m, g, fr, nc, bc, ef, st, ho)
<1>1. Alike(s, z, m)
  BY DEF Alike
<1>2. StackOK(z, m) /\ HandledOK(z, m, ef)
  BY <1>1, AlikeStack, AlikeHandled DEF Core
<1>3. HeightsOK(z, m, g) /\ WaitOK(z, m, g, fr)
  BY <1>1, AlikeHeights, AlikeWait DEF Core
<1>4. CountedOK(z, m, nc, bc) /\ StatusOK(z, m, fr, st, ho)
  BY <1>1, AlikeCounted, AlikeStatus DEF Core
<1>5. LoopsOK(z, m, g, fr, st)
  <2>1. LoopsOK(s, m, h, fr, st)
    BY DEF Core
  <2>2. \A i \in 1..m : g[i] + Width(z[i]) <= Len(fr[z[i].th])
    BY <2>1 DEF LoopsOK
  <2>3. ASSUME NEW t \in Thread, st[t] = "OK"
        PROVE  LoopFrames(z, m, g, t, fr[t])
    <3>1. LoopFrames(s, m, h, t, fr[t])
      BY <2>1, <2>3 DEF LoopsOK
    <3>2. \A p : InLoop(s, m, h, t, p) <=> InLoop(z, m, g, t, p)
      BY DEF InLoop
    <3> QED
      BY <3>1, <3>2 DEF LoopFrames
  <2> QED
    BY <2>2, <2>3 DEF LoopsOK
<1> QED
  BY <1>2, <1>3, <1>4, <1>5 DEF Core

\* The frames of the running thread change, and what its loop counts.
LEMMA CoreFrames ==
  ASSUME NEW s, NEW z, NEW m \in Nat, NEW h, NEW fr, NEW gr,
         NEW nc, NEW bc, NEW ef, NEW st, NEW ho,
         m > 0, Alike(s, z, m), Typed(s, m, h, fr), Typed(z, m, h, gr),
         \A u \in Thread : u # s[m].th => gr[u] = fr[u],
         h[m] + Width(z[m]) <= Len(gr[s[m].th]),
         LoopFrames(z, m, h, s[m].th, gr[s[m].th]),
         Core(s, m, h, fr, nc, bc, ef, st, ho)
  PROVE  Core(z, m, h, gr, nc, bc, ef, st, ho)
<1> DEFINE t == s[m].th
<1> HIDE DEF t
<1>a. /\ \A i \in 1..m : s[i].th \in Thread /\ Width(z[i]) \in Nat /\ h[i] \in Nat
      /\ \A u \in Thread : Len(gr[u]) \in Nat
  BY Fields
<1>b. \A i \in 1..m : z[i].th = s[i].th /\ z[i].k = s[i].k
  BY DEF Alike
<1>c. m \in 1..m
  OBVIOUS
<1>0. /\ t \in Thread /\ z[m].th = t /\ \A i \in 1..m : s[i].th \in Thread
      /\ \A i \in 1..m : Width(z[i]) \in Nat /\ h[i] \in Nat
      /\ \A i \in 1..m : z[i].th = s[i].th /\ z[i].k = s[i].k
      /\ \A u \in Thread : Len(gr[u]) \in Nat
      /\ \A u \in Thread : u # t => gr[u] = fr[u]
      /\ h[m] + Width(z[m]) <= Len(gr[t])
      /\ LoopFrames(z, m, h, t, gr[t])
  BY <1>a, <1>b, <1>c DEF t
<1>1. /\ StackOK(z, m) /\ HandledOK(z, m, ef) /\ HeightsOK(z, m, h)
      /\ CountedOK(z, m, nc, bc)
  BY AlikeStack, AlikeHandled, AlikeHeights, AlikeCounted DEF Core
<1>2. WaitOK(z, m, h, gr)
  <2>1. WaitOK(z, m, h, fr)
    BY AlikeWait DEF Core
  <2>2. ASSUME NEW i \in 2..m, z[i].k = "resume"
        PROVE  gr[z[i-1].th] = fr[z[i-1].th]
    <3>1. z[i-1].th # z[m].th
      BY <1>1, <2>2, WaitersElsewhere
    <3>2. i-1 \in 1..m
      OBVIOUS
    <3> QED
      BY <1>0, <3>1, <3>2
  <2> QED
    BY <2>1, <2>2 DEF WaitOK
<1>3. st[t] = "OK" /\ StatusOK(z, m, gr, st, ho)
  <2>1. StatusOK(z, m, fr, st, ho)
    BY AlikeStatus DEF Core
  <2>2. st[t] = "OK"
    BY <1>0, <2>1 DEF StatusOK
  <2> QED
    BY <1>0, <2>1, <2>2 DEF StatusOK
<1>4. LoopsOK(z, m, h, gr, st)
  <2>0. LoopsOK(s, m, h, fr, st)
    BY DEF Core
  <2>1. ASSUME NEW i \in 1..m
        PROVE  h[i] + Width(z[i]) <= Len(gr[z[i].th])
    <3>1. CASE i = m
      BY <1>0, <3>1
    <3>2. CASE i < m /\ z[i].th = t
      <4>1. Based(z, h, m) /\ i \in 1..m-1
        BY <1>1, <3>2 DEF HeightsOK
      <4>2. h[i] + Width(z[i]) <= h[m]
        BY <1>0, <3>2, <4>1 DEF Based
      <4>3. m \in 1..m /\ z[i].th = s[i].th
        BY <1>0
      <4>4. h[m] \in Nat /\ Width(z[m]) \in Nat /\ h[i] \in Nat /\ Width(z[i]) \in Nat
             /\ Len(gr[t]) \in Nat
        BY <1>0, <4>3, <3>2
      <4> QED
        BY <1>0, <3>2, <4>2, <4>4
    <3>3. CASE i < m /\ z[i].th # t
      <4>1. z[i] = s[i] /\ gr[z[i].th] = fr[z[i].th]
        BY <1>0, <3>3 DEF Alike
      <4> QED
        BY <2>0, <4>1 DEF LoopsOK, LoopFrames
    <3> QED
      BY <3>1, <3>2, <3>3
  <2>2. ASSUME NEW u \in Thread, u # t
        PROVE  \A p : InLoop(z, m, h, u, p) <=> InLoop(s, m, h, u, p)
    <3>1. \A i \in 1..m : z[i].th = u => z[i] = s[i]
      BY <1>0, <2>2 DEF Alike
    <3>2. \A i \in 1..m : s[i].th = u => z[i] = s[i]
      BY <1>0, <2>2 DEF Alike
    <3> QED
      BY <3>1, <3>2 DEF InLoop
  <2>3. ASSUME NEW u \in Thread, st[u] = "OK"
        PROVE  LoopFrames(z, m, h, u, gr[u])
    <3>1. CASE u = t
      BY <1>0, <3>1
    <3>2. CASE u # t
      <4>1. LoopFrames(s, m, h, u, fr[u]) /\ gr[u] = fr[u]
        BY <1>0, <2>0, <2>3, <3>2 DEF LoopsOK
      <4> QED
        BY <2>2, <3>2, <4>1 DEF LoopFrames
    <3> QED
      BY <3>1, <3>2
  <2> QED
    BY <2>1, <2>3 DEF LoopsOK, LoopFrames
<1> QED
  BY <1>1, <1>2, <1>3, <1>4 DEF Core

\* The thread of s[m] enters s[m+1].
Enters(s, m, h, fr, gr, nc, dc, ef, gf) ==
  /\ s[m+1].th = s[m].th /\ Follows(s[m], s[m+1]) /\ s[m+1].k # "resume"
  /\ s[m+1].k = "pcall" => /\ s[m+1].nCcalls = Depth(s, m) /\ s[m+1].ci = h[m+1]
                            /\ s[m+1].errfunc = ef[s[m].th] /\ gf[s[m].th] = s[m+1].ef
  /\ s[m+1].k # "pcall" => gf[s[m].th] = ef[s[m].th]
  /\ \A u \in Thread : u # s[m].th => gr[u] = fr[u] /\ dc[u] = nc[u] /\ gf[u] = ef[u]
  /\ dc[s[m].th] = Depth(s, m+1)
  /\ Between(s[m], s[m+1].k, h[m], h[m+1])
  /\ s[m+1].k # "execute" => gr[s[m].th] = fr[s[m].th]
  /\ h[m+1] + Width(s[m+1]) <= Len(gr[s[m].th])
  /\ s[m+1].k = "execute" => LoopFrames(s, m+1, h, s[m].th, gr[s[m].th])

\* The running thread enters one more activation.
LEMMA CorePush ==
  ASSUME NEW s, NEW m \in Nat, NEW h, NEW fr, NEW gr, NEW nc, NEW dc, NEW bc,
         NEW ef, NEW gf, NEW st, NEW ho,
         m > 0, Typed(s, m+1, h, fr), Typed(s, m+1, h, gr),
         Enters(s, m, h, fr, gr, nc, dc, ef, gf),
         Core(s, m, h, fr, nc, bc, ef, st, ho)
  PROVE  Core(s, m+1, h, gr, dc, bc, gf, st, ho)
<1> USE DEF Enters
<1> DEFINE t == s[m].th
<1> HIDE DEF t
<1>0. m+1 \in Nat
  OBVIOUS
<1>a. /\ \A i \in 1..m+1 : s[i].th \in Thread /\ Width(s[i]) \in Nat /\ h[i] \in Nat
      /\ \A i \in 1..m+1 : s[i].k \in {"call", "handler", "resume", "execute", "pcall"}
      /\ \A i \in 1..m+1 : s[i].k = "execute" => s[i].n \in Nat \ {0}
      /\ \A u \in Thread : Len(gr[u]) \in Nat
  BY <1>0, Fields
<1>b. m \in 1..m /\ m \in 1..m+1 /\ m+1 \in 1..m+1 /\ 1..m \subseteq 1..m+1
  OBVIOUS
<1>c. t \in Thread /\ s[m].th = t /\ s[m+1].th = t
  BY <1>a, <1>b DEF t
<1>d. \A u \in Thread : u # t => gr[u] = fr[u] /\ dc[u] = nc[u] /\ gf[u] = ef[u]
  BY DEF t
<1>1. StackOK(s, m+1)
  <2>1. StackOK(s, m) /\ Placed(s, m)
    BY <1>b DEF Core, StackOK
  <2>2. \A j \in 1..m : s[j].th = s[m+1].th => \A l \in j..m+1 : s[l].th = s[m+1].th
    BY <2>1, OneThread
  <2>3. \E j \in 1..m+1 : s[j].th = s[m+1].th /\ Catches(s[j]) /\ \A l \in j+1..m+1 : ~Catches(s[l])
    <3>1. CASE Catches(s[m+1])
      BY <1>b, <3>1
    <3>2. CASE ~Catches(s[m+1])
      BY <2>1, <3>2 DEF Placed
    <3> QED
      BY <3>1, <3>2
  <2>4. s[m+1].th \in Coroutine => \E j \in 1..m+1 : s[j].k = "resume" /\ s[j].th = s[m+1].th
    BY <2>1 DEF Placed
  <2>5. s[m+1].k = "pcall" => s[m+1].nCcalls = Depth(s, m+1) /\ HandlerAt(s, s[m+1].th, m, s[m+1].errfunc)
    <3>1. SUFFICES ASSUME s[m+1].k = "pcall" PROVE s[m+1].nCcalls = Depth(s, m+1) /\ HandlerAt(s, s[m+1].th, m, s[m+1].errfunc)
      OBVIOUS
    <3>2. Depth(s, m+1) = Depth(s, m)
      BY <3>1, DepthStep
    <3>3. HandlerAt(s, t, m, ef[t])
      BY <1>c DEF Core, HandledOK
    <3> QED
      BY <1>c, <3>1, <3>2, <3>3
  <2>6. Placed(s, m+1)
    BY <2>2, <2>3, <2>4, <2>5 DEF Placed
  <2> QED
    BY <2>1, <2>6 DEF StackOK
<1>2. HeightsOK(s, m+1, h)
  <2>1. HeightsOK(s, m, h) /\ Based(s, h, m)
    BY <1>b DEF Core, HeightsOK
  <2>2. h[m] + Width(s[m]) <= h[m+1]
    BY <1>a, <1>b DEF Between, Width
  <2>3. \A j \in 1..m : s[j].th = s[m+1].th => h[j] + Width(s[j]) <= h[m+1]
    <3> SUFFICES ASSUME NEW j \in 1..m, s[j].th = s[m+1].th
                 PROVE  h[j] + Width(s[j]) <= h[m+1]
      OBVIOUS
    <3>1. CASE j = m
      BY <2>2, <3>1
    <3>2. CASE j # m
      <4>1. j \in 1..m-1 /\ s[j].th = s[m].th
        BY <3>2
      <4>2. h[j] + Width(s[j]) <= h[m]
        BY <2>1, <4>1 DEF Based
      <4>3. j \in 1..m+1 /\ h[j] \in Nat /\ Width(s[j]) \in Nat
        BY <1>a, <4>1
      <4>4. h[m] \in Nat /\ Width(s[m]) \in Nat /\ h[m+1] \in Nat
        BY <1>a, <1>b
      <4> QED
        BY <2>2, <4>2, <4>3, <4>4
    <3> QED
      BY <3>1, <3>2
  <2>4. Based(s, h, m+1)
    BY <2>3 DEF Based
  <2> QED
    BY <2>1, <2>4 DEF HeightsOK
<1>3. WaitOK(s, m+1, h, gr)
  <2>1. ASSUME NEW i \in 2..m+1, s[i].k = "resume"
        PROVE  Between(s[i-1], "resume", h[i-1], Len(gr[s[i-1].th]))
    <3>1. i \in 2..m /\ i-1 \in 1..m+1
      BY <2>1
    <3>2. s[i-1].th # t
      BY <2>1, <3>1, WaitersElsewhere DEF Core, t
    <3>3. gr[s[i-1].th] = fr[s[i-1].th]
      BY <1>a, <1>d, <3>1, <3>2
    <3> QED
      BY <2>1, <3>1, <3>3 DEF Core, WaitOK
  <2> QED
    BY <2>1 DEF WaitOK
<1>4. LoopsOK(s, m+1, h, gr, st)
  <2>0. LoopsOK(s, m, h, fr, st)
    BY DEF Core
  <2>1. ASSUME NEW i \in 1..m+1
        PROVE  h[i] + Width(s[i]) <= Len(gr[s[i].th])
    <3>1. CASE i = m+1
      BY <1>c, <3>1
    <3>2. CASE i < m+1 /\ s[i].th = t
      <4>1. Based(s, h, m+1)
        BY <1>2, <1>b DEF HeightsOK
      <4>2. h[i] + Width(s[i]) <= h[m+1]
        BY <1>c, <3>2, <4>1 DEF Based
      <4>3. h[m+1] \in Nat /\ Width(s[m+1]) \in Nat /\ h[i] \in Nat /\ Width(s[i]) \in Nat
             /\ Len(gr[t]) \in Nat /\ h[m+1] + Width(s[m+1]) <= Len(gr[t])
        BY <1>a, <1>b, <1>c
      <4> QED
        BY <3>2, <4>2, <4>3
    <3>3. CASE i < m+1 /\ s[i].th # t
      <4>1. i \in 1..m /\ gr[s[i].th] = fr[s[i].th]
        BY <1>a, <1>d, <3>3
      <4> QED
        BY <2>0, <4>1 DEF LoopsOK, LoopFrames
    <3> QED
      BY <3>1, <3>2, <3>3
  <2>2. ASSUME NEW u \in Thread, u # t \/ s[m+1].k # "execute"
        PROVE  gr[u] = fr[u] /\ \A p : InLoop(s, m+1, h, u, p) <=> InLoop(s, m, h, u, p)
    <3>1. gr[u] = fr[u]
      BY <1>c, <1>d, <2>2
    <3>2. ~(s[m+1].k = "execute" /\ s[m+1].th = u)
      BY <1>c, <2>2
    <3> QED
      BY <1>b, <3>1, <3>2 DEF InLoop
  <2>3. ASSUME NEW u \in Thread, st[u] = "OK"
        PROVE  LoopFrames(s, m+1, h, u, gr[u])
    <3>1. CASE u = t /\ s[m+1].k = "execute"
      BY <1>c, <3>1
    <3>2. CASE u # t \/ s[m+1].k # "execute"
      BY <2>0, <2>2, <2>3, <3>2 DEF LoopsOK, LoopFrames
    <3> QED
      BY <3>1, <3>2
  <2> QED
    BY <2>1, <2>3 DEF LoopsOK, LoopFrames
<1>5. CountedOK(s, m+1, dc, bc)
  <2>0. CountedOK(s, m, nc, bc)
    BY DEF Core
  <2>1. ASSUME NEW i \in 2..m+1, s[i].k = "resume"
        PROVE  dc[s[i-1].th] = Depth(s, i-1)
    <3>1. i \in 2..m /\ i-1 \in 1..m+1
      BY <2>1
    <3>2. s[i-1].th # t
      BY <2>1, <3>1, WaitersElsewhere DEF Core, t
    <3>3. dc[s[i-1].th] = nc[s[i-1].th]
      BY <1>a, <1>d, <3>1, <3>2
    <3> QED
      BY <2>0, <2>1, <3>1, <3>3 DEF CountedOK
  <2>2. \A i \in 1..m+1 : s[i].k = "resume" => bc[s[i].th] = Depth(s, i)
    BY <2>0 DEF CountedOK
  <2>3. dc[s[m+1].th] = Depth(s, m+1)
    OBVIOUS
  <2> QED
    BY <2>0, <2>1, <2>2, <2>3 DEF CountedOK
<1>6. HandledOK(s, m+1, gf)
  <2>0. \A u \in Thread : HandlerAt(s, u, m, ef[u])
    BY DEF Core, HandledOK
  <2>1. ASSUME NEW u \in Thread, ~Protects(s[m+1], u)
        PROVE  HandlerAt(s, u, m+1, gf[u])
    <3>1. gf[u] = ef[u]
      BY <1>c, <1>d, <2>1 DEF Protects
    <3> QED
      BY <1>b, <2>0, <2>1, <3>1 DEF HandlerAt
  <2>2. ASSUME NEW u \in Thread, Protects(s[m+1], u)
        PROVE  HandlerAt(s, u, m+1, gf[u])
    <3>1. s[m+1].k = "pcall" /\ u = t
      BY <1>c, <2>2 DEF Protects
    <3>2. s[m+1].ef = gf[u]
      BY <1>c, <3>1
    <3> QED
      BY <1>b, <2>2, <3>2 DEF HandlerAt
  <2> QED
    BY <2>1, <2>2 DEF HandledOK
<1>7. StatusOK(s, m+1, gr, st, ho)
  <2>0. StatusOK(s, m, fr, st, ho)
    BY DEF Core
  <2>1. \A i \in 1..m+1 : st[s[i].th] = "OK" /\ (s[i].th \in Coroutine => ~ho[s[i].th])
    BY <1>b, <1>c, <2>0 DEF StatusOK
  <2>2. \A u \in Thread : st[u] = "YIELD" => Suspended(gr[u])
    BY <1>b, <1>c, <1>d, <2>0, <2>1 DEF StatusOK
  <2>3. \A u \in Thread : (st[u] = "OK" /\ \A i \in 1..m+1 : s[i].th # u) => gr[u] = <<>>
    BY <1>b, <1>c, <1>d, <2>0 DEF StatusOK
  <2> QED
    BY <2>0, <2>1, <2>2, <2>3 DEF StatusOK
<1> QED
  BY <1>1, <1>2, <1>3, <1>4, <1>5, <1>6, <1>7 DEF Core

\* The engine enters the protected call of a script.
LEMMA CoreEngine ==
  ASSUME NEW s, NEW h, NEW fr, NEW nc, NEW bc, NEW ef, NEW gf, NEW st, NEW ho,
         NEW e \in {"none", "traceback"},
         Typed(s, 0, h, fr), s[1] = EngineCall(e), h[1] = 0, gf = [ef EXCEPT ![Main] = e],
         ef \in [Thread -> HandlerValues], Main \notin Coroutine,
         Core(s, 0, h, fr, nc, bc, ef, st, ho)
  PROVE  Core(s, 1, h, fr, nc, bc, gf, st, ho)
<1>1. s[1].k = "pcall" /\ s[1].th = Main /\ s[1].ef = e /\ s[1].nCcalls = 0
      /\ s[1].ci = 0 /\ s[1].errfunc = "none" /\ Main \in Thread /\ Width(s[1]) = 0
      /\ s[1] \in EngineCalls
  BY DEF EngineCall, EngineCalls, Thread, Width
<1>2. Depth(s, 0) = 0 /\ Depth(s, 1) = 0
  <2>1. Depth(s, 0) = 0
    BY DepthZero
  <2>2. Depth(s, 0+1) = Depth(s, 0)
    BY <1>1, DepthStep
  <2> QED
    BY <2>1, <2>2
<1>3. StackOK(s, 1)
  <2>1. HandlerAt(s, Main, 0, "none")
    BY DEF HandlerAt
  <2>2. Placed(s, 1)
    BY <1>1, <1>2, <2>1 DEF Placed, Catches
  <2> QED
    BY <2>2 DEF StackOK
<1>4. HeightsOK(s, 1, h)
  BY <1>1 DEF HeightsOK, Based
<1>5. WaitOK(s, 1, h, fr)
  BY DEF WaitOK
<1>6. st[Main] = "OK" /\ fr[Main] = <<>>
  BY <1>1 DEF Core, StatusOK
<1>7. LoopsOK(s, 1, h, fr, st)
  <2>1. Len(fr[Main]) = 0
    BY <1>6
  <2>2. \A i \in 1..1 : h[i] + Width(s[i]) <= Len(fr[s[i].th])
    BY <1>1, <2>1
  <2>3. \A u \in Thread : \A p : InLoop(s, 1, h, u, p) <=> InLoop(s, 0, h, u, p)
    BY <1>1 DEF InLoop
  <2> QED
    BY <2>2, <2>3 DEF Core, LoopsOK, LoopFrames
<1>8. CountedOK(s, 1, nc, bc)
  BY <1>1, <1>2 DEF Core, CountedOK
<1>9. HandledOK(s, 1, gf)
  <2> SUFFICES ASSUME NEW u \in Thread PROVE HandlerAt(s, u, 1, gf[u])
    BY DEF HandledOK
  <2>1. HandlerAt(s, u, 0, ef[u])
    BY DEF Core, HandledOK
  <2>2. CASE u = Main
    BY <1>1, <2>2 DEF HandlerAt, Protects
  <2>3. CASE u # Main
    <3>1. gf[u] = ef[u] /\ ~Protects(s[1], u)
      BY <1>1, <2>3 DEF Protects
    <3>2. ef[u] = "none"
      BY <2>1 DEF HandlerAt
    <3> QED
      BY <3>1, <3>2 DEF HandlerAt
  <2> QED
    BY <2>2, <2>3
<1>10. StatusOK(s, 1, fr, st, ho)
  <2>1. \A i \in 1..1 : st[s[i].th] = "OK" /\ (s[i].th \in Coroutine => ~ho[s[i].th])
    BY <1>1, <1>6
  <2> QED
    BY <2>1 DEF Core, StatusOK
<1> QED
  BY <1>3, <1>4, <1>5, <1>7, <1>8, <1>9, <1>10 DEF Core

\* What lua_resume needs of the stack it is called on.
Resumes(s, m, h, fr, gr, nc, dc, bc, cc, st, tt, ho, io, co) ==
  /\ m > 0 /\ s[m+1] = [k |-> "resume", th |-> co] /\ h[m+1] = 0
  /\ s[m].k \in {"call", "execute"} /\ \A i \in 1..m : s[i].th # co
  /\ \A u \in Thread : u # co =>
        gr[u] = fr[u] /\ dc[u] = nc[u] /\ cc[u] = bc[u] /\ tt[u] = st[u] /\ io[u] = ho[u]
  /\ gr[co] = <<>> /\ dc[co] = Depth(s, m+1) /\ cc[co] = Depth(s, m+1) /\ tt[co] = "OK" /\ ~io[co]
  /\ Between(s[m], "resume", h[m], Len(fr[s[m].th]))

\* lua_resume of a thread without an activation, before it has its frames.
LEMMA CoreResume ==
  ASSUME NEW s, NEW m \in Nat, NEW h, NEW fr, NEW gr, NEW nc, NEW dc, NEW bc, NEW cc,
         NEW ef, NEW st, NEW tt, NEW ho, NEW io, NEW co \in Coroutine,
         Typed(s, m+1, h, fr), Typed(s, m+1, h, gr),
         Resumes(s, m, h, fr, gr, nc, dc, bc, cc, st, tt, ho, io, co),
         Core(s, m, h, fr, nc, bc, ef, st, ho)
  PROVE  Core(s, m+1, h, gr, dc, cc, ef, tt, io)
<1> USE DEF Resumes
<1>0. m+1 \in Nat /\ co \in Thread /\ Main \in Thread /\ co # Main
  BY LimitAssumption DEF Thread
<1>a. /\ \A i \in 1..m+1 : s[i].th \in Thread /\ h[i] \in Nat
      /\ \A u \in Thread : Len(gr[u]) \in Nat
  BY <1>0, Fields
<1>b. m \in 1..m /\ m \in 1..m+1 /\ m+1 \in 1..m+1 /\ 1..m \subseteq 1..m+1
  OBVIOUS
<1>c. s[m+1].k = "resume" /\ s[m+1].th = co /\ Width(s[m+1]) = 0
  BY DEF Width
<1>1. StackOK(s, m+1)
  <2>1. Placed(s, m+1)
    BY <1>b, <1>c DEF Placed, Follows, Catches
  <2> QED
    BY <2>1 DEF Core, StackOK
<1>2. HeightsOK(s, m+1, h)
  <2>1. Based(s, h, m+1)
    BY <1>c DEF Based
  <2> QED
    BY <2>1 DEF Core, HeightsOK
<1>3. WaitOK(s, m+1, h, gr)
  <2>1. ASSUME NEW i \in 2..m+1, s[i].k = "resume"
        PROVE  Between(s[i-1], "resume", h[i-1], Len(gr[s[i-1].th]))
    <3>1. i-1 \in 1..m /\ i-1 \in 1..m+1
      OBVIOUS
    <3>2. gr[s[i-1].th] = fr[s[i-1].th]
      BY <1>a, <3>1
    <3>3. CASE i = m+1
      BY <3>2, <3>3
    <3>4. CASE i \in 2..m
      BY <2>1, <3>2, <3>4 DEF Core, WaitOK
    <3> QED
      BY <3>3, <3>4
  <2> QED
    BY <2>1 DEF WaitOK
<1>4. LoopsOK(s, m+1, h, gr, tt)
  <2>0. LoopsOK(s, m, h, fr, st)
    BY DEF Core
  <2>1. ASSUME NEW i \in 1..m+1
        PROVE  h[i] + Width(s[i]) <= Len(gr[s[i].th])
    <3>1. CASE i = m+1
      <4>1. Len(gr[co]) = 0
        OBVIOUS
      <4> QED
        BY <1>c, <3>1, <4>1
    <3>2. CASE i \in 1..m
      <4>1. gr[s[i].th] = fr[s[i].th]
        BY <1>a, <3>2
      <4> QED
        BY <2>0, <3>2, <4>1 DEF LoopsOK, LoopFrames
    <3> QED
      BY <3>1, <3>2
  <2>2. \A u \in Thread : \A p : InLoop(s, m+1, h, u, p) <=> InLoop(s, m, h, u, p)
    BY <1>b, <1>c DEF InLoop
  <2>3. ASSUME NEW u \in Thread, tt[u] = "OK"
        PROVE  LoopFrames(s, m+1, h, u, gr[u])
    <3>1. CASE u = co
      <4>1. Len(gr[u]) = 0
        BY <3>1
      <4> QED
        BY <4>1 DEF LoopFrames
    <3>2. CASE u # co
      BY <2>0, <2>2, <2>3, <3>2 DEF LoopsOK, LoopFrames
    <3> QED
      BY <3>1, <3>2
  <2> QED
    BY <2>1, <2>3 DEF LoopsOK, LoopFrames
<1>5. CountedOK(s, m+1, dc, cc)
  <2>0. CountedOK(s, m, nc, bc)
    BY DEF Core
  <2>1. ASSUME NEW i \in 2..m+1, s[i].k = "resume"
        PROVE  dc[s[i-1].th] = Depth(s, i-1)
    <3>1. i-1 \in 1..m /\ i-1 \in 1..m+1
      OBVIOUS
    <3>2. dc[s[i-1].th] = nc[s[i-1].th]
      BY <1>a, <3>1
    <3>3. CASE i = m+1
      BY <2>0, <3>2, <3>3 DEF CountedOK
    <3>4. CASE i \in 2..m
      BY <2>0, <2>1, <3>2, <3>4 DEF CountedOK
    <3> QED
      BY <3>3, <3>4
  <2>2. ASSUME NEW i \in 1..m+1, s[i].k = "resume"
        PROVE  cc[s[i].th] = Depth(s, i)
    <3>1. CASE i = m+1
      BY <1>c, <3>1
    <3>2. CASE i \in 1..m
      <4>1. cc[s[i].th] = bc[s[i].th]
        BY <1>a, <3>2
      <4> QED
        BY <2>0, <2>2, <3>2, <4>1 DEF CountedOK
    <3> QED
      BY <3>1, <3>2
  <2>3. cc[Main] = 0
    BY <1>0, <2>0 DEF CountedOK
  <2>4. dc[s[m+1].th] = Depth(s, m+1)
    BY <1>c
  <2> QED
    BY <2>1, <2>2, <2>3, <2>4 DEF CountedOK
<1>6. HandledOK(s, m+1, ef)
  <2>0. \A u \in Thread : HandlerAt(s, u, m, ef[u])
    BY DEF Core, HandledOK
  <2>1. \A u \in Thread : ~Protects(s[m+1], u)
    BY <1>c DEF Protects
  <2> QED
    BY <1>b, <2>0, <2>1 DEF HandledOK, HandlerAt
<1>7. StatusOK(s, m+1, gr, tt, io)
  <2>0. StatusOK(s, m, fr, st, ho)
    BY DEF Core
  <2>1. ASSUME NEW i \in 1..m+1
        PROVE  tt[s[i].th] = "OK" /\ (s[i].th \in Coroutine => ~io[s[i].th])
    <3>1. CASE i = m+1
      BY <1>c, <3>1
    <3>2. CASE i \in 1..m
      <4>1. tt[s[i].th] = st[s[i].th] /\ io[s[i].th] = ho[s[i].th]
        BY <1>a, <3>2
      <4> QED
        BY <2>0, <3>2, <4>1 DEF StatusOK
    <3> QED
      BY <3>1, <3>2
  <2>2. \A u \in Thread : tt[u] = "YIELD" => Suspended(gr[u])
    BY <2>0 DEF StatusOK
  <2>3. \A u \in Thread : (tt[u] = "OK" /\ \A i \in 1..m+1 : s[i].th # u) => gr[u] = <<>>
    BY <1>b, <1>c, <2>0 DEF StatusOK
  <2>4. tt[Main] = "OK"
    BY <1>0, <2>0 DEF StatusOK
  <2> QED
    BY <2>1, <2>2, <2>3, <2>4 DEF StatusOK
<1> QED
  BY <1>1, <1>2, <1>3, <1>4, <1>5, <1>6, <1>7 DEF Core

\* The running thread leaves all its activations above the m-th.
LEMMA CorePop ==
  ASSUME NEW s, NEW n \in Nat, NEW m \in Nat, NEW h, NEW fr, NEW gr, NEW nc, NEW dc, NEW bc,
         NEW ef, NEW gf, NEW st, NEW tt, NEW ho, m < n,
         Typed(s, n, h, fr), Typed(s, n, h, gr), Main \notin Coroutine,
         \A i \in m+1..n : s[i].th = s[n].th,
         \A u \in Thread : u # s[n].th =>
              gr[u] = fr[u] /\ dc[u] = nc[u] /\ gf[u] = ef[u] /\ tt[u] = st[u],
         Len(gr[s[n].th]) <= Len(fr[s[n].th]),
         \A p \in 1..Len(gr[s[n].th]) : gr[s[n].th][p] = fr[s[n].th][p],
         h[m+1] <= Len(gr[s[n].th]),
         tt[s[n].th] = "OK" => \A j \in m+1..n : s[j].k = "execute" => Len(gr[s[n].th]) <= h[j],
         s[m+1].k # "resume" => dc[s[n].th] = Depth(s, m) /\ tt[s[n].th] = "OK",
         HandlerAt(s, s[n].th, m, gf[s[n].th]),
         tt[s[n].th] = "YIELD" => Suspended(gr[s[n].th]),
         (tt[s[n].th] = "OK" /\ (m = 0 \/ s[m+1].k = "resume")) => gr[s[n].th] = <<>>,
         Core(s, n, h, fr, nc, bc, ef, st, ho)
  PROVE  Core(s, m, h, gr, dc, bc, gf, tt, ho)
<1> DEFINE t == s[n].th
<1> HIDE DEF t
<1>a. /\ \A i \in 1..n : s[i].th \in Thread /\ Width(s[i]) \in Nat /\ h[i] \in Nat
      /\ \A u \in Thread : Len(gr[u]) \in Nat /\ Len(fr[u]) \in Nat
  BY Fields
<1>b. n \in 1..n /\ m+1 \in 1..n /\ 1..m \subseteq 1..n
  OBVIOUS
<1>c. t \in Thread /\ s[n].th = t /\ s[m+1].th = t /\ \A i \in m+1..n : s[i].th = t
  BY <1>a, <1>b DEF t
<1>d. \A u \in Thread : u # t => gr[u] = fr[u] /\ dc[u] = nc[u] /\ gf[u] = ef[u] /\ tt[u] = st[u]
  BY DEF t
<1>e. st[t] = "OK"
  BY <1>b, <1>c DEF Core, StatusOK
\* An earlier activation of the thread means that it has not been left.
<1>f. ASSUME NEW i \in 1..m, s[i].th = t
      PROVE  s[m+1].k # "resume" /\ tt[t] = "OK" /\ s[m].th = t
  <2>1. \A j \in i..n : s[j].th = s[n].th /\ (j > i => s[j].k # "resume")
    BY <1>b, <1>c, <1>f, OneThread DEF Core
  <2>2. s[m+1].k # "resume" /\ s[m].th = t
    BY <1>c, <2>1
  <2> QED
    BY <1>c, <2>2
\* A resumed thread is not the one that resumed it.
<1>g. (m > 0 /\ s[m+1].k = "resume") =>
         s[m].th # t /\ nc[s[m].th] = Depth(s, m) /\ s[m].th \in Thread
  <2> SUFFICES ASSUME m > 0, s[m+1].k = "resume"
               PROVE  s[m].th # t /\ nc[s[m].th] = Depth(s, m) /\ s[m].th \in Thread
    OBVIOUS
  <2>1. m+1 \in 2..n /\ (m+1)-1 = m /\ m \in 1..m /\ m \in 1..n
    OBVIOUS
  <2>2. nc[s[m].th] = Depth(s, m)
    BY <2>1 DEF Core, CountedOK
  <2>3. s[m].th # t
    BY <1>f, <2>1
  <2> QED
    BY <1>a, <2>1, <2>2, <2>3
<1>1. StackOK(s, m) /\ HeightsOK(s, m, h)
  BY <1>b DEF Core, StackOK, HeightsOK
<1>2. WaitOK(s, m, h, gr)
  <2>1. ASSUME NEW i \in 2..m, s[i].k = "resume"
        PROVE  Between(s[i-1], "resume", h[i-1], Len(gr[s[i-1].th]))
    <3>1. i \in 2..n /\ i-1 \in 1..n
      OBVIOUS
    <3>2. s[i-1].th # t
      BY <1>c, <2>1, <3>1, WaitersElsewhere DEF Core
    <3>3. gr[s[i-1].th] = fr[s[i-1].th]
      BY <1>a, <1>d, <3>1, <3>2
    <3> QED
      BY <2>1, <3>1, <3>3 DEF Core, WaitOK
  <2> QED
    BY <2>1 DEF WaitOK
<1>3. LoopsOK(s, m, h, gr, tt)
  <2>0. LoopsOK(s, n, h, fr, st)
    BY DEF Core
  <2>1. ASSUME NEW i \in 1..m
        PROVE  h[i] + Width(s[i]) <= Len(gr[s[i].th])
    <3>1. CASE s[i].th = t
      <4>1. Based(s, h, m+1) /\ i \in 1..m /\ i \in 1..(m+1)-1
        BY <1>b DEF Core, HeightsOK
      <4>2. h[i] + Width(s[i]) <= h[m+1]
        BY <1>c, <3>1, <4>1 DEF Based
      <4>3. h[m+1] \in Nat /\ h[i] \in Nat /\ Width(s[i]) \in Nat
             /\ Len(gr[t]) \in Nat /\ h[m+1] <= Len(gr[t])
        BY <1>a, <1>b, <1>c
      <4> QED
        BY <3>1, <4>2, <4>3
    <3>2. CASE s[i].th # t
      <4>1. gr[s[i].th] = fr[s[i].th]
        BY <1>a, <1>b, <1>d, <3>2
      <4> QED
        BY <1>b, <2>0, <4>1 DEF LoopsOK, LoopFrames
    <3> QED
      BY <3>1, <3>2
  <2>2. ASSUME NEW u \in Thread, u # t
        PROVE  \A p : InLoop(s, n, h, u, p) <=> InLoop(s, m, h, u, p)
    <3>1. \A i \in 1..n : s[i].th = u => i \in 1..m
      BY <1>c, <2>2
    <3> QED
      BY <1>b, <3>1 DEF InLoop
  <2>3. ASSUME NEW p \in 1..Len(gr[t]), tt[t] = "OK"
        PROVE  InLoop(s, n, h, t, p) <=> InLoop(s, m, h, t, p)
    <3>1. SUFFICES ASSUME NEW i \in 1..n, s[i].k = "execute", s[i].th = t, h[i] < p
                   PROVE  i \in 1..m
      BY <1>b DEF InLoop
    <3>2. SUFFICES ASSUME i \in m+1..n PROVE FALSE
      OBVIOUS
    <3>3. Len(gr[t]) <= h[i]
      BY <1>c, <2>3, <3>1, <3>2
    <3> QED
      BY <1>a, <1>c, <3>1, <3>3
  <2>4. ASSUME NEW u \in Thread, tt[u] = "OK", NEW p \in 1..Len(gr[u])
        PROVE  gr[u][p] = "lua" <=> InLoop(s, m, h, u, p)
    <3>1. CASE u = t
      <4>1. gr[t][p] = fr[t][p] /\ p \in 1..Len(fr[t])
        BY <1>a, <1>c, <2>4, <3>1
      <4>2. fr[t][p] = "lua" <=> InLoop(s, n, h, t, p)
        BY <1>c, <1>e, <2>0, <4>1 DEF LoopsOK, LoopFrames
      <4> QED
        BY <2>3, <2>4, <3>1, <4>1, <4>2
    <3>2. CASE u # t
      BY <1>d, <2>0, <2>2, <2>4, <3>2 DEF LoopsOK, LoopFrames
    <3> QED
      BY <3>1, <3>2
  <2> QED
    BY <2>1, <2>4 DEF LoopsOK, LoopFrames
<1>4. CountedOK(s, m, dc, bc)
  <2>0. CountedOK(s, n, nc, bc)
    BY DEF Core
  <2>1. ASSUME NEW i \in 2..m, s[i].k = "resume"
        PROVE  dc[s[i-1].th] = Depth(s, i-1)
    <3>1. i \in 2..n /\ i-1 \in 1..n
      OBVIOUS
    <3>2. s[i-1].th # t
      BY <1>c, <2>1, <3>1, WaitersElsewhere DEF Core
    <3>3. dc[s[i-1].th] = nc[s[i-1].th]
      BY <1>a, <1>d, <3>1, <3>2
    <3> QED
      BY <2>0, <2>1, <3>1, <3>3 DEF CountedOK
  <2>2. ASSUME m > 0 PROVE dc[s[m].th] = Depth(s, m)
    <3>1. CASE s[m+1].k = "resume"
      BY <1>d, <1>g, <2>2, <3>1
    <3>2. CASE s[m+1].k # "resume"
      <4>1. Placed(s, m+1) /\ (m+1)-1 = m
        BY <1>b DEF Core, StackOK
      <4>2. s[m].th = t
        BY <1>c, <2>2, <3>2, <4>1 DEF Placed, Follows
      <4> QED
        BY <1>c, <3>2, <4>2
    <3> QED
      BY <3>1, <3>2
  <2>3. ASSUME m = 0 PROVE dc[Main] = 0
    <3>1. s[1] \in EngineCalls /\ s[m+1] = s[1]
      BY <1>b, <2>3 DEF Core, StackOK, Placed
    <3>2. t = Main /\ s[m+1].k # "resume"
      BY <1>c, <3>1 DEF EngineCall, EngineCalls
    <3> QED
      BY <1>c, <2>3, <3>2, DepthZero
  <2> QED
    BY <1>b, <2>0, <2>1, <2>2, <2>3 DEF CountedOK
<1>5. HandledOK(s, m, gf)
  <2> SUFFICES ASSUME NEW u \in Thread PROVE HandlerAt(s, u, m, gf[u])
    BY DEF HandledOK
  <2>1. CASE u = t
    BY <1>c, <2>1
  <2>2. CASE u # t
    <3>1. HandlerAt(s, u, n, ef[u]) /\ gf[u] = ef[u]
      BY <1>d, <2>2 DEF Core, HandledOK
    <3>2. \A i \in 1..n : Protects(s[i], u) => i \in 1..m
      BY <1>c, <2>2 DEF Protects
    <3>3. CASE ef[u] = "none" /\ \A j \in 1..n : ~Protects(s[j], u)
      BY <1>b, <3>1, <3>3 DEF HandlerAt
    <3>4. ASSUME NEW i \in 1..n, Protects(s[i], u), s[i].ef = ef[u],
                 \A j \in i+1..n : ~Protects(s[j], u)
          PROVE  HandlerAt(s, u, m, gf[u])
      <4>1. i \in 1..m /\ \A j \in i+1..m : ~Protects(s[j], u)
        BY <3>2, <3>4
      <4> QED
        BY <3>1, <3>4, <4>1 DEF HandlerAt
    <3> QED
      BY <3>1, <3>3, <3>4 DEF HandlerAt
  <2> QED
    BY <2>1, <2>2
<1>6. StatusOK(s, m, gr, tt, ho)
  <2>0. StatusOK(s, n, fr, st, ho)
    BY DEF Core
  <2>1. tt[Main] = "OK"
    <3>1. CASE t # Main
      <4>1. Main \in Thread
        BY DEF Thread
      <4> QED
        BY <1>d, <2>0, <3>1, <4>1 DEF StatusOK
    <3>2. CASE t = Main
      <4>1. Placed(s, m+1)
        BY <1>b DEF Core, StackOK
      <4>2. s[m+1].k # "resume"
        BY <1>c, <3>2, <4>1 DEF Placed, Follows, EngineCall, EngineCalls
      <4> QED
        BY <1>c, <3>2, <4>2
    <3> QED
      BY <3>1, <3>2
  <2>2. ASSUME NEW i \in 1..m
        PROVE  tt[s[i].th] = "OK" /\ (s[i].th \in Coroutine => ~ho[s[i].th])
    <3>1. st[s[i].th] = "OK" /\ (s[i].th \in Coroutine => ~ho[s[i].th])
      BY <1>b, <2>0 DEF StatusOK
    <3>2. CASE s[i].th = t
      BY <1>f, <3>1, <3>2
    <3>3. CASE s[i].th # t
      BY <1>a, <1>b, <1>d, <3>1, <3>3
    <3> QED
      BY <3>2, <3>3
  <2>3. ASSUME NEW u \in Thread, tt[u] = "YIELD"
        PROVE  Suspended(gr[u])
    <3>1. CASE u = t
      BY <1>c, <2>3, <3>1
    <3>2. CASE u # t
      BY <1>d, <2>0, <2>3, <3>2 DEF StatusOK
    <3> QED
      BY <3>1, <3>2
  <2>4. ASSUME NEW u \in Thread, tt[u] = "OK", \A i \in 1..m : s[i].th # u
        PROVE  gr[u] = <<>>
    <3>1. CASE u = t
      <4>1. m = 0 \/ s[m+1].k = "resume"
        <5>1. SUFFICES ASSUME m > 0, s[m+1].k # "resume" PROVE FALSE
          OBVIOUS
        <5>2. Placed(s, m+1) /\ (m+1)-1 = m /\ m \in 1..m
          BY <1>b, <5>1 DEF Core, StackOK
        <5>3. s[m].th = t
          BY <1>c, <5>1, <5>2 DEF Placed, Follows
        <5> QED
          BY <2>4, <3>1, <5>2, <5>3
      <4> QED
        BY <1>c, <2>4, <3>1, <4>1
    <3>2. CASE u # t
      <4>1. \A i \in 1..n : s[i].th # u
        BY <1>c, <2>4, <3>2
      <4> QED
        BY <1>d, <2>0, <2>4, <3>2, <4>1 DEF StatusOK
    <3> QED
      BY <3>1, <3>2
  <2> QED
    BY <2>1, <2>2, <2>3, <2>4 DEF StatusOK
<1> QED
  BY <1>1, <1>2, <1>3, <1>4, <1>5, <1>6 DEF Core

-------------------------------------------------------------------------------
(* The invariant. *)

\* The coroutine of the lua_resume on top has come back to it.
Returned(s, md) == s # <<>> /\ md = "ret" /\ s[Len(s)].k = "resume"
Live(s, md) == IF Returned(s, md) THEN Len(s) - 1 ELSE Len(s)

\* What the thread on top is about to do.
Ahead(s, md) ==
  IF Returned(s, md) THEN "resume"
  ELSE IF md = "run" THEN "call" ELSE IF md = "ret" THEN "execute" ELSE "handler"

\* What may be on top.
ModeOK(s, md) ==
  /\ md \in {"run", "ret", "error"} \union Errors
  /\ s = <<>> => md = "run"
  /\ s # <<>> /\ md = "ret" => s[Len(s)].k \in {"call", "pcall", "handler", "resume"}
  /\ s # <<>> /\ md # "ret" => s[Len(s)].k \in {"call", "execute"}

\* The count of the running thread leaves room for one more call, unless an
\* error is being thrown.
TopOK(s, md, nc, bc) ==
  s # <<>> => /\ nc[s[Len(s)].th] = Depth(s, Len(s))
              /\ nc[s[Len(s)].th] <= MaxCCalls + ExtraCCalls
              /\ md \notin Errors => nc[s[Len(s)].th] < MaxCCalls + ExtraCCalls
              /\ Returned(s, md) => nc[s[Len(s)].th] = bc[s[Len(s)].th]

\* Every frame has its place, in an array of bounded size.
Sized(fr, sz) ==
  \A t \in Thread : Len(fr[t]) < sz[t] /\ sz[t] <= 2 * MaxCalls /\ BasicCI <= sz[t]

\* Only the engine's thread and created coroutines run.
Created(s, cr) == cr \subseteq Coroutine /\ \A i \in 1..Len(s) : s[i].th \in cr \union {Main}

\* The core for the live part of the stack, and the top.
Framed(s, md, h, fr, nc, bc, ef, st, ho) ==
  /\ Core(s, Live(s, md), h, fr, nc, bc, ef, st, ho)
  /\ Live(s, md) > 0 => Between(s[Live(s, md)], Ahead(s, md), h[Live(s, md)],
                                Len(fr[s[Live(s, md)].th]))

\* The variables have their types.
VariablesOK ==
  /\ cst \in Stacks /\ ci \in Frames
  /\ size_ci \in [Thread -> Nat] /\ nCcalls \in [Thread -> Nat]
  /\ baseCcalls \in [Thread -> Nat]
  /\ status \in [Thread -> {"OK", "YIELD"} \union Errors]
  /\ errfunc \in [Thread -> HandlerValues] /\ holds \in [Thread -> BOOLEAN]

\* The inductive invariant.  CallsCounted is not: an error restores fields that a
\* luaD_pcall saved many activations ago, which are right only if every record of
\* the C stack is; and a return is right only if the frames of each activation
\* began where the one below it had them, which is what the heights h say.
CallsInv ==
  /\ VariablesOK /\ Sized(ci, size_ci) /\ Created(cst, created)
  /\ StackOK(cst, Len(cst)) /\ ModeOK(cst, mode) /\ TopOK(cst, mode, nCcalls, baseCcalls)
  /\ \E h \in Heights :
        Framed(cst, mode, h, ci, nCcalls, baseCcalls, errfunc, status, holds)

-------------------------------------------------------------------------------
(* Frames that come and go, and handlers that are looked up further down. *)

\* C stacks are sequences of activations ...
LEMMA StackFacts ==
  ASSUME NEW s \in Stacks
  PROVE  /\ Len(s) \in Nat /\ (s = <<>> <=> Len(s) = 0)
         /\ \A i \in 1..Len(s) : s[i] \in Activation
         /\ s # <<>> => Last(s) = s[Len(s)]
  BY DEF Stacks, Last

\* A name for each operation on sequences keeps the provers from expanding it.
Pushed(s, a) == Append(s, a)

\* ... one more ...
LEMMA StackPush ==
  ASSUME NEW s \in Stacks, NEW a \in Activation
  PROVE  /\ Pushed(s, a) \in Stacks /\ Len(Pushed(s, a)) = Len(s) + 1 /\ Pushed(s, a) # <<>>
         /\ \A i \in 1..Len(s) : Pushed(s, a)[i] = s[i]
         /\ Pushed(s, a)[Len(s)+1] = a
  BY DEF Stacks, Pushed

\* ... and the part that an error leaves of them.
LEMMA StackPrefix ==
  ASSUME NEW s \in Stacks, NEW m \in 0..Len(s)
  PROVE  /\ SubSeq(s, 1, m) \in Stacks /\ Len(SubSeq(s, 1, m)) = m
         /\ \A i \in 1..m : SubSeq(s, 1, m)[i] = s[i]
         /\ SubSeq(s, 1, m) = <<>> <=> m = 0
  BY DEF Stacks

\* One list of CallInfos replaced.
LEMMA FramesFacts ==
  ASSUME NEW fr \in Frames, NEW t \in Thread
  PROVE  /\ fr[t] \in Seq(Functions) /\ Len(fr[t]) \in Nat
         /\ \A f \in Seq(Functions) :
               /\ [fr EXCEPT ![t] = f] \in Frames /\ [fr EXCEPT ![t] = f][t] = f
               /\ \A u \in Thread : u # t => [fr EXCEPT ![t] = f][u] = fr[u]
  BY DEF Frames

\* The heights of activations that are entered where the frames are c.
Raised(h, m, c) == [i \in Nat |-> IF i <= m THEN h[i] ELSE c]

\* Heights for two more activations.
LEMMA RaisedFacts ==
  ASSUME NEW h \in Heights, NEW m \in Nat, NEW c \in Nat
  PROVE  /\ Raised(h, m, c) \in Heights /\ \A i \in 1..m : Raised(h, m, c)[i] = h[i]
         /\ Raised(h, m, c)[m+1] = c /\ Raised(h, m, c)[m+2] = c
  BY DEF Raised, Heights

Grown(f, x) == Append(f, x)

\* One more CallInfo.
LEMMA GrownFacts ==
  ASSUME NEW f \in Seq(Functions), NEW x \in Functions
  PROVE  /\ Len(f) \in Nat /\ Len(Grown(f, x)) = Len(f) + 1 /\ Grown(f, x) \in Seq(Functions)
         /\ \A p \in 1..Len(f) : Grown(f, x)[p] = f[p]
         /\ Grown(f, x)[Len(f)+1] = x
  BY DEF Grown

\* A C function on top of the frames of t is in no loop.
LEMMA FrameC ==
  ASSUME NEW s, NEW m \in Nat, NEW h, NEW fr, NEW st, NEW t \in Thread,
         Typed(s, m, h, fr), LoopsOK(s, m, h, fr, st), st[t] = "OK"
  PROVE  /\ LoopFrames(s, m, h, t, Grown(fr[t], "c"))
         /\ Len(Grown(fr[t], "c")) = Len(fr[t]) + 1
<1>1. fr[t] \in Seq(Functions) /\ Len(fr[t]) \in Nat
  BY Fields
<1>2. /\ Len(Grown(fr[t], "c")) = Len(fr[t]) + 1
      /\ \A p \in 1..Len(fr[t]) : Grown(fr[t], "c")[p] = fr[t][p]
      /\ Grown(fr[t], "c")[Len(fr[t])+1] = "c"
  BY <1>1, GrownFacts DEF Functions
<1>3. ~InLoop(s, m, h, t, Len(fr[t])+1)
  <2>1. SUFFICES ASSUME NEW i \in 1..m, s[i].k = "execute", s[i].th = t,
                        Len(fr[t])+1 <= h[i] + s[i].n
                 PROVE  FALSE
    BY DEF InLoop
  <2>2. h[i] + s[i].n <= Len(fr[t])
    BY <2>1 DEF LoopsOK, LoopFrames, Width
  <2>3. h[i] \in Nat /\ s[i].n \in Nat
    BY <2>1, Fields
  <2> QED
    BY <1>1, <2>1, <2>2, <2>3
<1>4. LoopFrames(s, m, h, t, fr[t])
  BY DEF LoopsOK, LoopFrames
<1> QED
  BY <1>1, <1>2, <1>3, <1>4 DEF LoopFrames

\* A Lua function entered by a new loop.
LEMMA FrameLua ==
  ASSUME NEW s, NEW m \in Nat, NEW h, NEW fr, NEW st, NEW t \in Thread,
         Typed(s, m, h, fr), LoopsOK(s, m, h, fr, st), st[t] = "OK",
         s[m+1] = Execute(t, 1), h[m+1] = Len(fr[t])
  PROVE  /\ LoopFrames(s, m+1, h, t, Grown(fr[t], "lua"))
         /\ Len(Grown(fr[t], "lua")) = Len(fr[t]) + 1
<1>1. fr[t] \in Seq(Functions) /\ Len(fr[t]) \in Nat
  BY Fields
<1>2. /\ Len(Grown(fr[t], "lua")) = Len(fr[t]) + 1
      /\ \A p \in 1..Len(fr[t]) : Grown(fr[t], "lua")[p] = fr[t][p]
      /\ Grown(fr[t], "lua")[Len(fr[t])+1] = "lua"
  BY <1>1, GrownFacts DEF Functions
<1>3. s[m+1].k = "execute" /\ s[m+1].th = t /\ s[m+1].n = 1
  BY DEF Execute
<1>4. InLoop(s, m+1, h, t, Len(fr[t])+1)
  BY <1>1, <1>3 DEF InLoop
<1>5. ASSUME NEW p \in 1..Len(fr[t])
      PROVE  InLoop(s, m, h, t, p) <=> InLoop(s, m+1, h, t, p)
  <2>1. ~(h[m+1] < p)
    BY <1>1
  <2> QED
    BY <2>1 DEF InLoop
<1>6. LoopFrames(s, m, h, t, fr[t])
  BY DEF LoopsOK, LoopFrames
<1> QED
  BY <1>1, <1>2, <1>4, <1>5, <1>6, SMTT(60) DEF LoopFrames

\* A Lua function called by the one that runs in the loop on top.
LEMMA CoreInLoop ==
  ASSUME NEW s, NEW z, NEW m \in Nat, NEW h, NEW fr, NEW gr, NEW nc, NEW bc, NEW ef, NEW st,
         NEW ho, NEW t \in Thread, NEW n \in Nat, m > 0, Typed(s, m, h, fr), Typed(z, m, h, gr),
         s[m] = Execute(t, n), h[m] + n = Len(fr[t]), Alike(s, z, m), z[m] = Execute(t, n + 1),
         gr[t] = Grown(fr[t], "lua"), \A u \in Thread : u # t => gr[u] = fr[u],
         Core(s, m, h, fr, nc, bc, ef, st, ho)
  PROVE  Core(z, m, h, gr, nc, bc, ef, st, ho)
<1>0. m \in 1..m /\ \A i \in 1..m-1 : z[i] = s[i]
  BY DEF Alike
<1>1. fr[t] \in Seq(Functions) /\ Len(fr[t]) \in Nat /\ h[m] \in Nat
  BY <1>0, Fields
<1>2. /\ Len(Grown(fr[t], "lua")) = Len(fr[t]) + 1
      /\ \A p \in 1..Len(fr[t]) : Grown(fr[t], "lua")[p] = fr[t][p]
      /\ Grown(fr[t], "lua")[Len(fr[t])+1] = "lua"
  BY <1>1, GrownFacts DEF Functions
<1>3. /\ z[m].k = "execute" /\ z[m].th = t /\ z[m].n = n+1
      /\ s[m].k = "execute" /\ s[m].th = t /\ s[m].n = n
  BY DEF Execute
<1>4. InLoop(z, m, h, t, Len(fr[t])+1)
  <2>1. h[m] < Len(fr[t])+1 /\ Len(fr[t])+1 <= h[m] + (n+1)
    BY <1>1
  <2> QED
    BY <1>0, <1>3, <2>1 DEF InLoop
<1>5. ASSUME NEW p \in 1..Len(fr[t])
      PROVE  InLoop(s, m, h, t, p) <=> InLoop(z, m, h, t, p)
  <2>1. p <= h[m] + n /\ p <= h[m] + (n+1)
    BY <1>1
  <2>2. ASSUME NEW i \in 1..m
        PROVE  (s[i].k = "execute" /\ s[i].th = t /\ h[i] < p /\ p <= h[i] + s[i].n)
                 <=> (z[i].k = "execute" /\ z[i].th = t /\ h[i] < p /\ p <= h[i] + z[i].n)
    <3>1. CASE i = m
      BY <1>3, <2>1, <3>1
    <3>2. CASE i # m
      BY <1>0, <3>2
    <3> QED
      BY <3>1, <3>2
  <2> QED
    BY <2>2 DEF InLoop
<1>6. LoopFrames(s, m, h, t, fr[t])
  <2>1. s[m].th = t /\ st[s[m].th] = "OK"
    BY <1>0, <1>3 DEF Core, StatusOK
  <2> QED
    BY <2>1 DEF Core, LoopsOK
<1>7. LoopFrames(z, m, h, t, gr[t])
  BY <1>1, <1>2, <1>4, <1>5, <1>6, SMTT(60) DEF LoopFrames
<1>8. h[m] + Width(z[m]) <= Len(gr[t])
  BY <1>1, <1>2, <1>3 DEF Width
<1>9. /\ h[m] + Width(z[m]) <= Len(gr[s[m].th]) /\ LoopFrames(z, m, h, s[m].th, gr[s[m].th])
      /\ \A u \in Thread : u # s[m].th => gr[u] = fr[u]
  BY <1>3, <1>7, <1>8
<1> QED
  BY <1>9, CoreFrames

\* A luaD_call on top.
LEMMA CoreCall ==
  ASSUME NEW s, NEW m \in Nat, NEW h, NEW fr, NEW nc, NEW dc, NEW bc, NEW ef, NEW st, NEW ho,
         NEW t, m > 0, Typed(s, m+1, h, fr), s[m].th = t, s[m+1] = Calls(t),
         s[m].k \in {"call", "execute", "pcall", "handler"}, nc[t] \in Nat,
         Between(s[m], "call", h[m], h[m+1]), h[m+1] <= Len(fr[t]),
         dc[t] = nc[t] + 1, \A u \in Thread : u # t => dc[u] = nc[u],
         Core(s, m, h, fr, nc, bc, ef, st, ho)
  PROVE  Core(s, m+1, h, fr, dc, bc, ef, st, ho)
<1>1. s[m+1].k = "call" /\ s[m+1].th = t /\ Width(s[m+1]) = 0
  BY DEF Calls, Width
<1>2. Follows(s[m], s[m+1])
  BY <1>1 DEF Follows
<1>3. dc[t] = Depth(s, m+1)
  <2>1. nc[t] = Depth(s, m)
    BY DEF Core, CountedOK
  <2> QED
    BY <1>1, <2>1, DepthStep
<1>4. h[m+1] + Width(s[m+1]) <= Len(fr[t])
  <2>1. h[m+1] \in Nat
    <3>1. m+1 \in Nat /\ m+1 \in 1..m+1
      OBVIOUS
    <3> QED
      BY <3>1, Fields
  <2> QED
    BY <1>1, <2>1
<1>5. /\ s[m+1].th = s[m].th /\ s[m+1].k # "resume" /\ s[m+1].k # "pcall"
      /\ s[m+1].k # "execute"
  BY <1>1
<1>6. dc[s[m].th] = Depth(s, m+1) /\ \A u \in Thread : u # s[m].th => dc[u] = nc[u]
  BY <1>3
<1>7. Between(s[m], s[m+1].k, h[m], h[m+1]) /\ h[m+1] + Width(s[m+1]) <= Len(fr[s[m].th])
  BY <1>1, <1>4
<1> QED
  <2>1. Enters(s, m, h, fr, fr, nc, dc, ef, ef)
    BY <1>2, <1>5, <1>6, <1>7 DEF Enters
  <2> QED
    BY <2>1, CorePush

\* A luaD_pcall or a handler on top.
LEMMA CoreOver ==
  ASSUME NEW s, NEW m \in Nat, NEW h, NEW fr, NEW nc, NEW bc, NEW ef, NEW gf, NEW st, NEW ho,
         NEW t \in Thread, m > 0, Typed(s, m+1, h, fr),
         s[m].th = t, s[m].k \in {"call", "execute"},
         s[m+1].th = t, s[m+1].k \in {"pcall", "handler"},
         s[m+1].k = "pcall" => /\ s[m+1].nCcalls = nc[t] /\ s[m+1].ci = h[m+1]
                               /\ s[m+1].errfunc = ef[t] /\ gf[t] = s[m+1].ef,
         s[m+1].k = "handler" => gf[t] = ef[t],
         \A u \in Thread : u # t => gf[u] = ef[u],
         Between(s[m], s[m+1].k, h[m], h[m+1]), h[m+1] = Len(fr[t]),
         Core(s, m, h, fr, nc, bc, ef, st, ho)
  PROVE  Core(s, m+1, h, fr, nc, bc, gf, st, ho)
<1>0. Len(fr[t]) \in Nat
  <2>1. m+1 \in Nat
    OBVIOUS
  <2> QED
    BY <2>1, Fields
<1>1. nc[t] = Depth(s, m) /\ nc[t] = Depth(s, m+1)
  <2>1. nc[t] = Depth(s, m)
    BY DEF Core, CountedOK
  <2> QED
    BY <2>1, DepthStep
<1>2. s[m+1].th = s[m].th /\ Follows(s[m], s[m+1]) /\ s[m+1].k # "resume"
  BY DEF Follows
<1>3. /\ s[m+1].k = "pcall" => /\ s[m+1].nCcalls = Depth(s, m) /\ s[m+1].ci = h[m+1]
                                /\ s[m+1].errfunc = ef[s[m].th] /\ gf[s[m].th] = s[m+1].ef
      /\ s[m+1].k # "pcall" => gf[s[m].th] = ef[s[m].th]
      /\ \A u \in Thread : u # s[m].th => fr[u] = fr[u] /\ nc[u] = nc[u] /\ gf[u] = ef[u]
      /\ nc[s[m].th] = Depth(s, m+1)
  BY <1>1
<1>4. /\ s[m+1].k # "execute" => fr[s[m].th] = fr[s[m].th]
      /\ h[m+1] + Width(s[m+1]) <= Len(fr[s[m].th])
      /\ s[m+1].k = "execute" => LoopFrames(s, m+1, h, s[m].th, fr[s[m].th])
  BY <1>0 DEF Width
<1> QED
  <2>1. Enters(s, m, h, fr, fr, nc, nc, ef, gf)
    BY <1>2, <1>3, <1>4 DEF Enters
  <2> QED
    BY <2>1, CorePush

\* The CallInfo of a C function on top, with no activation of its own.
LEMMA CoreEnterC ==
  ASSUME NEW s, NEW m \in Nat, NEW h, NEW fr, NEW gr, NEW nc, NEW bc, NEW ef, NEW st, NEW ho,
         NEW t, m > 0, Typed(s, m, h, fr), Typed(s, m, h, gr), s[m].th = t,
         gr[t] = Grown(fr[t], "c"), \A u \in Thread : u # t => gr[u] = fr[u],
         Core(s, m, h, fr, nc, bc, ef, st, ho)
  PROVE  Core(s, m, h, gr, nc, bc, ef, st, ho) /\ Len(gr[t]) = Len(fr[t]) + 1
<1>0. m \in 1..m
  OBVIOUS
<1>1. t \in Thread /\ Len(fr[t]) \in Nat /\ h[m] \in Nat /\ Width(s[m]) \in Nat
  BY <1>0, Fields
<1>2. st[t] = "OK" /\ LoopsOK(s, m, h, fr, st)
  BY <1>0, <1>1 DEF Core, StatusOK
<1>3. LoopFrames(s, m, h, t, gr[t]) /\ Len(gr[t]) = Len(fr[t]) + 1
  <2>1. LoopFrames(s, m, h, t, Grown(fr[t], "c"))
    BY <1>1, <1>2, FrameC
  <2>2. Len(Grown(fr[t], "c")) = Len(fr[t]) + 1
    <3>1. fr[t] \in Seq(Functions) /\ "c" \in Functions
      BY <1>1, Fields DEF Functions
    <3> QED
      BY <3>1, GrownFacts
  <2>3. gr[t] = Grown(fr[t], "c")
    OBVIOUS
  <2> QED
    BY <2>1, <2>2, <2>3
<1>4. h[m] + Width(s[m]) <= Len(gr[t])
  <2>1. h[m] + Width(s[m]) <= Len(fr[t])
    BY <1>0, <1>1, <1>2 DEF LoopsOK, LoopFrames
  <2> QED
    BY <1>1, <1>3, <2>1
<1>5. Alike(s, s, m)
  BY DEF Alike
<1> QED
  BY <1>3, <1>4, <1>5, CoreFrames

\* The CallInfo of a Lua function, in the loop that luaV_execute begins.
LEMMA CoreEnterLua ==
  ASSUME NEW s, NEW m \in Nat, NEW h, NEW fr, NEW gr, NEW nc, NEW bc, NEW ef, NEW st, NEW ho,
         NEW t, m > 0, Typed(s, m+1, h, fr), Typed(s, m+1, h, gr), s[m].th = t, s[m].k = "call",
         s[m+1] = Execute(t, 1), h[m] = Len(fr[t]), h[m+1] = Len(fr[t]),
         gr[t] = Grown(fr[t], "lua"), \A u \in Thread : u # t => gr[u] = fr[u],
         Core(s, m, h, fr, nc, bc, ef, st, ho)
  PROVE  Core(s, m+1, h, gr, nc, bc, ef, st, ho) /\ Len(gr[t]) = Len(fr[t]) + 1
<1>1. m+1 \in Nat /\ Typed(s, m, h, fr)
  <2>1. m+1 \in Nat /\ m <= m+1
    OBVIOUS
  <2> QED
    BY <2>1, TypedBelow
<1>0. m \in 1..m
  OBVIOUS
<1>2. t \in Thread /\ Len(fr[t]) \in Nat
  BY <1>0, <1>1, Fields
<1>3. st[t] = "OK" /\ LoopsOK(s, m, h, fr, st)
  BY <1>0, <1>2 DEF Core, StatusOK
<1>4. /\ LoopFrames(s, m+1, h, t, gr[t])
      /\ Len(gr[t]) = Len(fr[t]) + 1
  <2>1. /\ LoopFrames(s, m+1, h, t, Grown(fr[t], "lua"))
        /\ Len(Grown(fr[t], "lua")) = Len(fr[t]) + 1
    BY <1>1, <1>2, <1>3, FrameLua
  <2> QED
    BY <2>1
<1>5. s[m+1].k = "execute" /\ s[m+1].th = t /\ s[m+1].n = 1 /\ Width(s[m+1]) = 1
  BY DEF Execute, Width
<1>6. Follows(s[m], s[m+1]) /\ Between(s[m], s[m+1].k, h[m], h[m+1])
  BY <1>5 DEF Follows, Between
<1>7. h[m+1] + Width(s[m+1]) <= Len(gr[t])
  BY <1>2, <1>4, <1>5
<1>8. nc[t] = Depth(s, m+1)
  <2>1. nc[t] = Depth(s, m)
    BY DEF Core, CountedOK
  <2> QED
    BY <1>5, <2>1, DepthStep
<1>9. /\ s[m+1].th = s[m].th /\ s[m+1].k # "resume" /\ s[m+1].k # "pcall"
      /\ s[m+1].k # "execute" => gr[s[m].th] = fr[s[m].th]
      /\ nc[s[m].th] = Depth(s, m+1) /\ h[m+1] + Width(s[m+1]) <= Len(gr[s[m].th])
      /\ LoopFrames(s, m+1, h, s[m].th, gr[s[m].th])
      /\ \A u \in Thread : u # s[m].th => gr[u] = fr[u]
  BY <1>4, <1>5, <1>7, <1>8
<1>10. Core(s, m+1, h, gr, nc, bc, ef, st, ho)
  <2>1. Enters(s, m, h, fr, gr, nc, nc, ef, ef)
    BY <1>6, <1>9 DEF Enters
  <2> QED
    BY <2>1, CorePush
<1> QED
  BY <1>4, <1>10

\* The handler in force stays the same over activations that are no luaD_pcall.
LEMMA HandlerBelow ==
  ASSUME NEW s, NEW t, NEW e, NEW n \in Nat, NEW m \in Nat, m <= n,
         HandlerAt(s, t, n, e), \A j \in m+1..n : ~Protects(s[j], t)
  PROVE  HandlerAt(s, t, m, e)
<1>1. CASE e = "none" /\ \A j \in 1..n : ~Protects(s[j], t)
  BY <1>1 DEF HandlerAt
<1>2. ASSUME NEW i \in 1..n, Protects(s[i], t), s[i].ef = e,
             \A j \in i+1..n : ~Protects(s[j], t)
      PROVE  HandlerAt(s, t, m, e)
  <2>1. i \in 1..m /\ \A j \in i+1..m : ~Protects(s[j], t)
    BY <1>2
  <2> QED
    BY <1>2, <2>1 DEF HandlerAt
<1> QED
  BY <1>1, <1>2 DEF HandlerAt

\* The count and the values of a coroutine without an activation are free.
Idle(s, m, nc, dc, ho, io, co) ==
  /\ co # Main /\ \A i \in 1..m : s[i].th # co
  /\ \A u \in Thread : u # co => dc[u] = nc[u] /\ io[u] = ho[u]

\* Count and values of a thread without an activation may change.
LEMMA CoreIdle ==
  ASSUME NEW s, NEW m \in Nat, NEW h, NEW fr, NEW nc, NEW dc, NEW bc, NEW ef, NEW st,
         NEW ho, NEW io, NEW co, Typed(s, m, h, fr), Idle(s, m, nc, dc, ho, io, co),
         Core(s, m, h, fr, nc, bc, ef, st, ho)
  PROVE  Core(s, m, h, fr, dc, bc, ef, st, io)
<1> USE DEF Idle
<1>0. Main \in Thread /\ \A i \in 1..m : s[i].th \in Thread
  BY Fields DEF Thread
<1>1. \A i \in 1..m : dc[s[i].th] = nc[s[i].th] /\ io[s[i].th] = ho[s[i].th]
  BY <1>0
<1>2. CountedOK(s, m, dc, bc)
  <2>1. ASSUME NEW i \in 2..m, s[i].k = "resume"
        PROVE  dc[s[i-1].th] = Depth(s, i-1)
    <3>1. i-1 \in 1..m
      OBVIOUS
    <3> QED
      BY <1>1, <2>1, <3>1 DEF Core, CountedOK
  <2> QED
    BY <1>0, <1>1, <2>1 DEF Core, CountedOK
<1>3. StatusOK(s, m, fr, st, io)
  BY <1>1 DEF Core, StatusOK
<1> QED
  BY <1>2, <1>3 DEF Core

\* The variables give each part of the C stack its type.
LEMMA ThreadsTyped ==
  ASSUME VariablesOK, NEW h \in Heights, NEW m \in 0..Len(cst)
  PROVE  Typed(cst, m, h, ci)
<1>1. Len(cst) \in Nat /\ \A i \in 1..Len(cst) : cst[i] \in Activation
  BY StackFacts DEF VariablesOK
<1>2. ci \in Frames
  BY DEF VariablesOK
<1> QED
  BY <1>1, <1>2 DEF Typed

\* With something on the C stack, R is its thread and its count.
LEMMA TopFacts ==
  ASSUME CallsInv, cst # <<>>
  PROVE  /\ Len(cst) \in Nat /\ Len(cst) > 0 /\ Last(cst) = cst[Len(cst)]
         /\ R \in Thread /\ R = cst[Len(cst)].th /\ cst[Len(cst)] \in Activation
         /\ \A i \in 1..Len(cst) : cst[i] \in Activation
         /\ nCcalls[R] = Depth(cst, Len(cst)) /\ Depth(cst, Len(cst)) \in Nat
         /\ mode # "ret" => Live(cst, mode) = Len(cst) /\ cst[Len(cst)].k \in {"call", "execute"}
         /\ cst[1] \in EngineCalls
         /\ ci[R] \in Seq(Functions) /\ Len(ci[R]) \in Nat
<1>1. Len(cst) \in Nat /\ Len(cst) > 0 /\ \A i \in 1..Len(cst) : cst[i] \in Activation
  BY StackFacts DEF CallsInv, VariablesOK
<1>2. Last(cst) = cst[Len(cst)] /\ R = cst[Len(cst)].th /\ cst[Len(cst)] \in Activation
  BY <1>1 DEF Last, R
<1>3. R \in Thread
  BY <1>2, ActivationFields
<1>4. nCcalls[R] = Depth(cst, Len(cst)) /\ Depth(cst, Len(cst)) \in Nat
  BY <1>1, <1>2, DepthType DEF CallsInv, TopOK
<1>5. mode # "ret" => Live(cst, mode) = Len(cst) /\ cst[Len(cst)].k \in {"call", "execute"}
  BY DEF CallsInv, ModeOK, Live, Returned
<1>6. cst[1] \in EngineCalls
  BY <1>1 DEF CallsInv, StackOK, Placed
<1>7. ci[R] \in Seq(Functions) /\ Len(ci[R]) \in Nat
  BY <1>3, FramesFacts DEF CallsInv, VariablesOK
<1> QED
  BY <1>1, <1>2, <1>3, <1>4, <1>5, <1>6, <1>7

\* growCI returns an array that is never smaller, is bounded, and has room for
\* the CallInfo if it does not fail.
LEMMA GrowCI ==
  ASSUME VariablesOK, Sized(ci, size_ci), NEW t \in Thread
  PROVE  /\ growCI(t).then \in {"run", "error", "ERRERR"}
         /\ growCI(t).size \in Nat /\ BasicCI <= growCI(t).size /\ growCI(t).size <= 2 * MaxCalls
         /\ size_ci[t] <= growCI(t).size
         /\ growCI(t).then = "run" => Len(ci[t]) + 1 < growCI(t).size
<1>1. /\ size_ci[t] \in Nat /\ Len(ci[t]) \in Nat
      /\ Len(ci[t]) < size_ci[t] /\ size_ci[t] <= 2 * MaxCalls /\ BasicCI <= size_ci[t]
      /\ MaxCalls \in Nat /\ BasicCI \in Nat /\ BasicCI > 1
  BY LimitAssumption, FramesFacts DEF VariablesOK, Sized
<1>2. CASE Len(ci[t]) + 1 < size_ci[t]
  BY <1>1, <1>2 DEF growCI
<1>3. CASE ~(Len(ci[t]) + 1 < size_ci[t]) /\ size_ci[t] > MaxCalls
  BY <1>1, <1>3 DEF growCI
<1>4. CASE ~(Len(ci[t]) + 1 < size_ci[t]) /\ ~(size_ci[t] > MaxCalls)
  <2>1. growCI(t).size = 2 * size_ci[t] /\ growCI(t).then \in {"error", "run"}
    BY <1>4 DEF growCI
  <2> QED
    BY <1>1, <1>4, <2>1
<1> QED
  BY <1>2, <1>3, <1>4

\* luaD_precall: the frame, if there is room for it.
LEMMA PrecallFacts ==
  ASSUME VariablesOK, Sized(ci, size_ci), NEW t \in Thread, NEW f \in Functions,
         NEW entered, NEW stack, luaD_precall(t, f, entered, stack)
  PROVE  /\ size_ci' \in [Thread -> Nat] /\ Sized(ci', size_ci') /\ ci' \in Frames
         /\ \/ /\ ci'[t] = Grown(ci[t], f) /\ \A u \in Thread : u # t => ci'[u] = ci[u]
               /\ cst' = entered /\ mode' = "run"
            \/ ci' = ci /\ cst' = stack /\ mode' \in {"error", "ERRERR"}
<1> DEFINE g == growCI(t)
<1> HIDE DEF g
<1>0. /\ g.then \in {"run", "error", "ERRERR"}
      /\ g.size \in Nat /\ BasicCI <= g.size /\ g.size <= 2 * MaxCalls
      /\ size_ci[t] <= g.size
      /\ g.then = "run" => Len(ci[t]) + 1 < g.size
  BY GrowCI DEF g
<1>1. /\ size_ci' = [size_ci EXCEPT ![t] = g.size]
      /\ ci' = IF g.then = "run" THEN [ci EXCEPT ![t] = Grown(ci[t], f)] ELSE ci
      /\ cst' = IF g.then = "run" THEN entered ELSE stack
      /\ mode' = g.then
  BY DEF luaD_precall, g, Grown
<1>2. size_ci \in [Thread -> Nat] /\ ci \in Frames /\ ci[t] \in Seq(Functions)
  BY FramesFacts DEF VariablesOK
<1>3. size_ci' \in [Thread -> Nat] /\ size_ci'[t] = g.size
      /\ \A u \in Thread : u # t => size_ci'[u] = size_ci[u]
  BY <1>0, <1>1, <1>2
<1>4. Grown(ci[t], f) \in Seq(Functions) /\ Len(Grown(ci[t], f)) = Len(ci[t]) + 1
      /\ Len(ci[t]) \in Nat
  BY <1>2, GrownFacts
<1>5. CASE g.then = "run"
  <2>1. ci' \in Frames /\ ci'[t] = Grown(ci[t], f) /\ \A u \in Thread : u # t => ci'[u] = ci[u]
    <3>1. ci' = [ci EXCEPT ![t] = Grown(ci[t], f)]
      BY <1>1, <1>5
    <3> DEFINE v == Grown(ci[t], f)
    <3>2. v \in Seq(Functions)
      BY <1>4
    <3> HIDE DEF v
    <3>3. /\ [ci EXCEPT ![t] = v] \in Frames /\ [ci EXCEPT ![t] = v][t] = v
          /\ \A u \in Thread : u # t => [ci EXCEPT ![t] = v][u] = ci[u]
      BY <1>2, <3>2, FramesFacts
    <3>4. ci' = [ci EXCEPT ![t] = v]
      BY <3>1 DEF v
    <3>5. ci' \in Frames /\ ci'[t] = v /\ \A u \in Thread : u # t => ci'[u] = ci[u]
      BY <3>3, <3>4, Zenon
    <3> QED
      BY <3>5 DEF v
  <2>2. Sized(ci', size_ci')
    <3> SUFFICES ASSUME NEW u \in Thread
                 PROVE  Len(ci'[u]) < size_ci'[u] /\ size_ci'[u] <= 2 * MaxCalls /\ BasicCI <= size_ci'[u]
      BY DEF Sized
    <3>1. CASE u # t
      BY <1>3, <2>1, <3>1 DEF Sized
    <3>2. CASE u = t
      BY <1>0, <1>3, <1>4, <1>5, <2>1, <3>2
    <3> QED
      BY <3>1, <3>2
  <2> QED
    BY <1>1, <1>3, <1>5, <2>1, <2>2
<1>6. CASE g.then # "run"
  <2>1. ci' = ci /\ cst' = stack /\ mode' \in {"error", "ERRERR"}
    BY <1>0, <1>1, <1>6
  <2>2. Sized(ci', size_ci')
    <3> SUFFICES ASSUME NEW u \in Thread
                 PROVE  Len(ci[u]) < size_ci'[u] /\ size_ci'[u] <= 2 * MaxCalls /\ BasicCI <= size_ci'[u]
      BY <2>1 DEF Sized
    <3>0. Len(ci[u]) < size_ci[u] /\ size_ci[u] <= 2 * MaxCalls /\ BasicCI <= size_ci[u]
      BY DEF Sized
    <3>1. CASE u # t
      BY <1>3, <3>0, <3>1
    <3>2. CASE u = t
      <4>1. size_ci[t] \in Nat
        BY <1>2
      <4> QED
        BY <1>0, <1>3, <1>4, <3>0, <3>2, <4>1
    <3> QED
      BY <3>1, <3>2
  <2> QED
    BY <1>2, <1>3, <2>1, <2>2
<1> QED
  BY <1>5, <1>6

\* What is left to show when no coroutine has just come back.
LEMMA Assemble ==
  ASSUME VariablesOK', Sized(ci', size_ci'), Created(cst', created'),
         ModeOK(cst', mode'), cst' # <<>>, mode' # "ret" \/ Last(cst').k # "resume",
         NEW h \in Heights, NEW N \in Nat, N = Len(cst'),
         nCcalls'[cst'[N].th] <= MaxCCalls + ExtraCCalls,
         mode' \notin Errors => nCcalls'[cst'[N].th] < MaxCCalls + ExtraCCalls,
         Core(cst', N, h, ci', nCcalls', baseCcalls', errfunc', status', holds'),
         Between(cst'[N], IF mode' = "run" THEN "call" ELSE IF mode' = "ret" THEN "execute" ELSE "handler",
                 h[N], Len(ci'[cst'[N].th]))
  PROVE  CallsInv'
<1>1. ~Returned(cst', mode') /\ Live(cst', mode') = N
      /\ Ahead(cst', mode') = IF mode' = "run" THEN "call" ELSE IF mode' = "ret" THEN "execute" ELSE "handler"
  BY DEF Returned, Live, Ahead, Last
<1>2. N > 0
  BY StackFacts DEF VariablesOK
<1>3. StackOK(cst', Len(cst'))
  BY DEF Core
<1>4. TopOK(cst', mode', nCcalls', baseCcalls')
  BY <1>1, <1>2 DEF Core, CountedOK, TopOK
<1>5. Framed(cst', mode', h, ci', nCcalls', baseCcalls', errfunc', status', holds')
  BY <1>1 DEF Framed
<1> QED
  BY <1>3, <1>4, <1>5 DEF CallsInv

\* A luaD_call of t may be made on the C stack below.
MayCall(t, f, below, m, h, fr, nc, cr) ==
  /\ t \in Thread /\ f \in Functions /\ below \in Stacks /\ h \in Heights
  /\ m = Len(below) /\ m > 0 /\ below[m].th = t
  /\ below[m].k \in {"call", "execute", "pcall", "handler"}
  /\ Between(below[m], "call", h[m], Len(fr[t]))
  /\ nc[t] < MaxCCalls + ExtraCCalls /\ Created(below, cr)

\* luaD_call keeps the invariant, wherever it may be made: it runs, or fails at
\* one of the two limits.
LEMMA CallPushed ==
  ASSUME NEW t, NEW f, NEW below, NEW h, NEW m, VariablesOK, Sized(ci, size_ci),
         MayCall(t, f, below, m, h, ci, nCcalls, created),
         Core(below, m, h, ci, nCcalls, baseCcalls, errfunc', status, holds),
         luaD_call(t, f, below), errfunc' \in [Thread -> HandlerValues],
         UNCHANGED <<baseCcalls, status, holds, created>>
  PROVE  CallsInv'
<1> DEFINE c == Len(ci[t])
           z == Pushed(below, Calls(t))
           w == Pushed(z, Execute(t, 1))
           g == Raised(h, m, c)
           n == nCcalls[t] + 1
<1> HIDE DEF c, z, w, g, n
<1>0. t \in Thread /\ f \in Functions /\ below \in Stacks /\ h \in Heights
  BY DEF MayCall
<1>a. m = Len(below) /\ m \in Nat /\ m > 0
  BY <1>0, StackFacts DEF MayCall
<1>1. /\ nCcalls \in [Thread -> Nat] /\ ci \in Frames /\ size_ci \in [Thread -> Nat]
      /\ ci[t] \in Seq(Functions) /\ c \in Nat
  <2>1. nCcalls \in [Thread -> Nat] /\ ci \in Frames /\ size_ci \in [Thread -> Nat]
    BY DEF VariablesOK
  <2> QED
    BY <1>0, <2>1, FramesFacts DEF c
<1>b. nCcalls[t] \in Nat /\ n \in Nat /\ n <= MaxCCalls + ExtraCCalls
      /\ MaxCCalls \in Nat /\ ExtraCCalls \in Nat \ {0}
  <2>1. nCcalls[t] < MaxCCalls + ExtraCCalls
    BY DEF MayCall
  <2>2. nCcalls[t] \in Nat
    BY <1>0, <1>1
  <2>3. MaxCCalls \in Nat /\ ExtraCCalls \in Nat \ {0}
    BY LimitAssumption
  <2>4. \A a, b \in Nat : a < b => a+1 \in Nat /\ a+1 <= b
    OBVIOUS
  <2>5. MaxCCalls + ExtraCCalls \in Nat
    BY <2>3
  <2>6. n = nCcalls[t] + 1
    BY DEF n
  <2>7. n \in Nat /\ n <= MaxCCalls + ExtraCCalls
    BY <2>1, <2>2, <2>4, <2>5, <2>6
  <2> QED
    BY <2>2, <2>3, <2>7
<1>2. Calls(t) \in Activation /\ Execute(t, 1) \in Activation
      /\ Calls(t).k = "call" /\ Calls(t).th = t
      /\ Execute(t, 1).k = "execute" /\ Execute(t, 1).th = t /\ Execute(t, 1).n = 1
  <2>1. 1 \in Nat \ {0}
    OBVIOUS
  <2> QED
    BY <1>0, <2>1, NewActivations DEF Calls, Execute
<1>3. /\ z \in Stacks /\ Len(z) = m+1 /\ z[m+1] = Calls(t) /\ z # <<>>
      /\ \A i \in 1..m : z[i] = below[i]
  BY <1>0, <1>a, <1>2, StackPush DEF z
<1>4. /\ w \in Stacks /\ Len(w) = m+2 /\ w[m+2] = Execute(t, 1) /\ w[m+1] = Calls(t) /\ w # <<>>
      /\ \A i \in 1..m : w[i] = below[i]
  <2>1. w = Pushed(z, Execute(t, 1))
    BY DEF w
  <2>2. /\ w \in Stacks /\ Len(w) = Len(z) + 1 /\ w # <<>> /\ w[Len(z)+1] = Execute(t, 1)
        /\ \A i \in 1..Len(z) : w[i] = z[i]
    BY <1>2, <1>3, <2>1, StackPush
  <2>3. (m+1)+1 = m+2 /\ m+1 \in 1..m+1 /\ 1..m \subseteq 1..m+1
    BY <1>a
  <2> QED
    BY <1>3, <2>2, <2>3
<1>5. /\ g \in Heights /\ g[m+1] = c /\ g[m+2] = c /\ \A i \in 1..m : g[i] = h[i]
  <2>1. g = Raised(h, m, c)
    BY DEF g
  <2>2. /\ Raised(h, m, c) \in Heights /\ Raised(h, m, c)[m+1] = c
        /\ Raised(h, m, c)[m+2] = c /\ \A i \in 1..m : Raised(h, m, c)[i] = h[i]
    BY <1>0, <1>a, <1>1, RaisedFacts, ZenonT(60)
  <2> QED
    BY <2>1, <2>2
<1>6. /\ nCcalls' = [nCcalls EXCEPT ![t] = n]
      /\ \/ /\ n # MaxCCalls /\ n < MaxCCalls + ExtraCCalls
            /\ luaD_precall(t, f, IF f = "lua" THEN w ELSE z, z)
         \/ /\ n = MaxCCalls \/ n >= MaxCCalls + ExtraCCalls
            /\ cst' = z
            /\ mode' = IF n = MaxCCalls THEN "error" ELSE "ERRERR"
            /\ ci' = ci /\ size_ci' = size_ci
  BY DEF luaD_call, n, w, z, Pushed
<1>c. \A i \in 1..m+1 : w[i] = z[i]
  <2> SUFFICES ASSUME NEW i \in 1..m+1 PROVE w[i] = z[i]
    OBVIOUS
  <2>1. CASE i \in 1..m
    BY <1>3, <1>4, <2>1
  <2>2. CASE i = m+1
    BY <1>3, <1>4, <2>2
  <2> QED
    BY <1>a, <2>1, <2>2
<1>7. /\ nCcalls' \in [Thread -> Nat] /\ nCcalls'[t] = n
      /\ \A u \in Thread : u # t => nCcalls'[u] = nCcalls[u]
  BY <1>0, <1>1, <1>b, <1>6
<1>8. Typed(z, m+1, g, ci) /\ Typed(w, m+2, g, ci) /\ Typed(w, m+1, g, ci)
      /\ (ci' \in Frames => Typed(z, m+1, g, ci') /\ Typed(w, m+2, g, ci'))
  <2>1. (\A i \in 1..m+1 : z[i] \in Activation) /\ (\A i \in 1..m+2 : w[i] \in Activation)
    BY <1>3, <1>4, StackFacts
  <2>2. 1..m+1 \subseteq 1..m+2
    BY <1>a
  <2> QED
    BY <1>1, <1>5, <2>1, <2>2 DEF Typed
\* The activation of luaD_call.
<1>9. Core(z, m+1, g, ci, nCcalls', baseCcalls, errfunc', status, holds)
  <2>0. \A i \in 1..m : z[i] = below[i] /\ g[i] = h[i]
    BY <1>3, <1>5
  <2>1. Core(z, m, g, ci, nCcalls, baseCcalls, errfunc', status, holds)
    BY <1>a, <2>0, CoreSame
  <2>2. z[m] = below[m] /\ g[m] = h[m]
    <3>1. m \in 1..m
      BY <1>a
    <3> QED
      BY <2>0, <3>1
  <2>3. Between(z[m], "call", g[m], g[m+1]) /\ z[m].th = t
        /\ z[m].k \in {"call", "execute", "pcall", "handler"}
    BY <1>5, <2>2 DEF MayCall, c
  <2>4. g[m+1] <= Len(ci[t]) /\ nCcalls'[t] = nCcalls[t] + 1
    BY <1>1, <1>5, <1>7 DEF c, n
  <2>5. /\ m \in Nat /\ m > 0 /\ Typed(z, m+1, g, ci) /\ z[m+1] = Calls(t) /\ nCcalls[t] \in Nat
        /\ \A u \in Thread : u # t => nCcalls'[u] = nCcalls[u]
    BY <1>a, <1>b, <1>3, <1>7, <1>8
  <2> QED
    BY <2>1, <2>3, <2>4, <2>5, CoreCall
<1>d. Created(z, created) /\ Created(w, created)
  <2>1. \A i \in 1..m : below[i].th \in created \union {Main}
    BY <1>a DEF MayCall, Created
  <2>0. m \in 1..m /\ below[m].th = t
    BY <1>a DEF MayCall
  <2>2. t \in created \union {Main} /\ created \subseteq Coroutine
    <3>1. t \in created \union {Main}
      BY <2>0, <2>1
    <3> QED
      BY <3>1 DEF MayCall, Created
  <2>3. ASSUME NEW i \in 1..m+2
        PROVE  /\ w[i].th \in created \union {Main}
               /\ i \in 1..m+1 => z[i].th \in created \union {Main}
    <3>1. CASE i \in 1..m
      BY <1>3, <1>4, <2>1, <3>1
    <3>2. CASE i = m+1
      BY <1>2, <1>3, <1>4, <2>2, <3>2
    <3>3. CASE i = m+2
      BY <1>a, <1>2, <1>4, <2>2, <3>3
    <3> QED
      BY <1>a, <3>1, <3>2, <3>3
  <2>4. 1..m+1 \subseteq 1..m+2
    BY <1>a
  <2> QED
    BY <1>3, <1>4, <2>2, <2>3, <2>4 DEF Created
\* There is no room, or the limit is passed.
<1>11. CASE ci' = ci /\ cst' = z /\ mode' \in {"error", "ERRERR"} /\ size_ci' \in [Thread -> Nat]
            /\ Sized(ci', size_ci') /\ (mode' = "error" => n < MaxCCalls + ExtraCCalls)
  <2>1. VariablesOK'
    BY <1>1, <1>3, <1>7, <1>11 DEF VariablesOK
  <2>2. Created(cst', created')
    BY <1>d, <1>11
  <2>3. cst' # <<>> /\ m+1 = Len(cst') /\ m+1 \in Nat /\ cst'[m+1].th = t /\ cst'[m+1].k = "call"
    BY <1>a, <1>2, <1>3, <1>11
  <2>4. ModeOK(cst', mode') /\ mode' # "ret" /\ mode' # "run"
    BY <1>11, <2>3 DEF ModeOK, Errors
  <2>5. Between(cst'[m+1], "handler", g[m+1], Len(ci'[cst'[m+1].th]))
    BY <1>5, <1>11, <2>3 DEF Between, c
  <2>6. /\ nCcalls'[cst'[m+1].th] <= MaxCCalls + ExtraCCalls
        /\ mode' \notin Errors => nCcalls'[cst'[m+1].th] < MaxCCalls + ExtraCCalls
    BY <1>7, <1>b, <1>11, <2>3 DEF Errors
  <2>7. Core(cst', m+1, g, ci', nCcalls', baseCcalls', errfunc', status', holds')
    BY <1>9, <1>11
  <2> QED
    BY <1>5, <1>11, <2>1, <2>2, <2>3, <2>4, <2>5, <2>6, <2>7, Assemble
\* A C function is entered.
<1>12. CASE f = "c" /\ ci'[t] = Grown(ci[t], f) /\ (\A u \in Thread : u # t => ci'[u] = ci[u]) /\ cst' = z /\ mode' = "run"
            /\ n < MaxCCalls + ExtraCCalls /\ size_ci' \in [Thread -> Nat]
            /\ ci' \in Frames /\ Sized(ci', size_ci')
  <2>1. VariablesOK'
    BY <1>1, <1>3, <1>7, <1>12 DEF VariablesOK
  <2>2. Created(cst', created')
    BY <1>d, <1>12
  <2>3. cst' # <<>> /\ m+1 = Len(cst') /\ m+1 \in Nat /\ m+1 > 0
        /\ cst'[m+1].th = t /\ cst'[m+1].k = "call"
    BY <1>a, <1>2, <1>3, <1>12
  <2>4. ModeOK(cst', mode') /\ mode' # "ret"
    BY <1>12, <2>3 DEF ModeOK
  <2>5. ci'[t] = Grown(ci[t], "c") /\ \A u \in Thread : u # t => ci'[u] = ci[u]
    BY <1>12
  <2>6. Core(z, m+1, g, ci', nCcalls', baseCcalls, errfunc', status, holds)
        /\ Len(ci'[t]) = Len(ci[t]) + 1
    <3> DEFINE k == m+1
    <3>1. /\ k \in Nat /\ k > 0 /\ Typed(z, k, g, ci) /\ Typed(z, k, g, ci') /\ z[k].th = t
          /\ Core(z, k, g, ci, nCcalls', baseCcalls, errfunc', status, holds)
      BY <1>8, <1>9, <1>12, <2>3
    <3> HIDE DEF k
    <3>2. Core(z, k, g, ci', nCcalls', baseCcalls, errfunc', status, holds)
      BY <2>5, <3>1, CoreEnterC
    <3>3. Len(ci'[t]) = Len(ci[t]) + 1
      BY <1>1, <2>5, GrownFacts DEF Functions
    <3> QED
      BY <3>2, <3>3 DEF k
  <2>7. Between(cst'[m+1], "call", g[m+1], Len(ci'[cst'[m+1].th]))
    BY <1>5, <2>3, <2>6 DEF Between, c
  <2>8. Core(cst', m+1, g, ci', nCcalls', baseCcalls', errfunc', status', holds')
    BY <1>12, <2>6
  <2>9. /\ nCcalls'[cst'[m+1].th] <= MaxCCalls + ExtraCCalls
        /\ nCcalls'[cst'[m+1].th] < MaxCCalls + ExtraCCalls
    BY <1>b, <1>7, <1>12, <2>3
  <2> QED
    BY <1>5, <1>12, <2>1, <2>2, <2>3, <2>4, <2>7, <2>8, <2>9, Assemble
\* A Lua function is entered with a loop of its own.
<1>13. CASE f = "lua" /\ ci'[t] = Grown(ci[t], f) /\ (\A u \in Thread : u # t => ci'[u] = ci[u]) /\ cst' = w /\ mode' = "run"
            /\ n < MaxCCalls + ExtraCCalls /\ size_ci' \in [Thread -> Nat]
            /\ ci' \in Frames /\ Sized(ci', size_ci')
  <2>1. VariablesOK'
    BY <1>1, <1>4, <1>7, <1>13 DEF VariablesOK
  <2>2. Created(cst', created')
    BY <1>d, <1>13
  <2>3. cst' # <<>> /\ m+2 = Len(cst') /\ m+2 \in Nat /\ cst'[m+2].th = t
        /\ cst'[m+2].k = "execute" /\ cst'[m+2].n = 1
    BY <1>a, <1>2, <1>4, <1>13
  <2>4. ModeOK(cst', mode') /\ mode' # "ret" /\ Last(cst').k # "resume"
    BY <1>13, <2>3 DEF ModeOK, Last
  <2>5. ci'[t] = Grown(ci[t], "lua") /\ \A u \in Thread : u # t => ci'[u] = ci[u]
    BY <1>13
  <2>6. Core(w, m+2, g, ci', nCcalls', baseCcalls, errfunc', status, holds)
        /\ Len(ci'[t]) = Len(ci[t]) + 1
    <3> DEFINE k == m+1
    <3>1. k+1 = m+2 /\ k \in Nat /\ k > 0 /\ k = m+1
      BY <1>a
    <3> HIDE DEF k
    <3>2. Core(w, k, g, ci, nCcalls', baseCcalls, errfunc', status, holds)
      <4>1. /\ \A i \in 1..k : w[i] = z[i] /\ g[i] = g[i]
            /\ Core(z, k, g, ci, nCcalls', baseCcalls, errfunc', status, holds)
        BY <1>c, <1>9, <3>1
      <4> QED
        BY <3>1, <4>1, CoreSame
    <3>3. /\ w[k].th = t /\ w[k].k = "call" /\ w[k+1] = Execute(t, 1)
          /\ g[k] = Len(ci[t]) /\ g[k+1] = Len(ci[t])
      BY <1>2, <1>4, <1>5, <3>1 DEF c
    <3>4. Typed(w, k+1, g, ci) /\ Typed(w, k+1, g, ci')
      BY <1>8, <1>13, <3>1
    <3>5. Core(w, k+1, g, ci', nCcalls', baseCcalls, errfunc', status, holds)
          /\ Len(ci'[t]) = Len(ci[t]) + 1
      BY <2>5, <3>1, <3>2, <3>3, <3>4, CoreEnterLua, SMTT(60)
    <3> QED
      BY <3>1, <3>5
  <2>7. Between(cst'[m+2], "call", g[m+2], Len(ci'[cst'[m+2].th]))
    BY <1>5, <2>3, <2>6 DEF Between, c
  <2>8. Core(cst', m+2, g, ci', nCcalls', baseCcalls', errfunc', status', holds')
    BY <1>13, <2>6
  <2>9. /\ nCcalls'[cst'[m+2].th] <= MaxCCalls + ExtraCCalls
        /\ nCcalls'[cst'[m+2].th] < MaxCCalls + ExtraCCalls
    BY <1>b, <1>7, <1>13, <2>3
  <2> QED
    BY <1>5, <1>13, <2>1, <2>2, <2>3, <2>4, <2>7, <2>8, <2>9, Assemble
<1>14. CASE n # MaxCCalls /\ n < MaxCCalls + ExtraCCalls
            /\ luaD_precall(t, f, IF f = "lua" THEN w ELSE z, z)
  <2>1. /\ size_ci' \in [Thread -> Nat] /\ Sized(ci', size_ci')
        /\ ci' \in Frames
        /\ \/ /\ ci'[t] = Grown(ci[t], f) /\ \A u \in Thread : u # t => ci'[u] = ci[u]
              /\ cst' = (IF f = "lua" THEN w ELSE z) /\ mode' = "run"
           \/ ci' = ci /\ cst' = z /\ mode' \in {"error", "ERRERR"}
    BY <1>0, <1>14, PrecallFacts
  <2>2. f = "lua" \/ f = "c"
    BY <1>0 DEF Functions
  <2> QED
    BY <1>11, <1>12, <1>13, <1>14, <2>1, <2>2
<1>15. CASE /\ n = MaxCCalls \/ n >= MaxCCalls + ExtraCCalls
            /\ cst' = z
            /\ mode' = IF n = MaxCCalls THEN "error" ELSE "ERRERR"
            /\ ci' = ci /\ size_ci' = size_ci
  <2>1. Sized(ci', size_ci') /\ size_ci' \in [Thread -> Nat]
    BY <1>1, <1>15
  <2>2. mode' = "error" => n < MaxCCalls + ExtraCCalls
    BY <1>b, <1>15
  <2> QED
    BY <1>11, <1>15, <2>1, <2>2
<1> QED
  BY <1>6, <1>14, <1>15

-------------------------------------------------------------------------------
(* What is known while the C stack is not empty and no coroutine has just   *)
(* come back.                                                               *)

\* What the thread on top enters next, in terms of the mode.
Next1(md) == IF md = "run" THEN "call" ELSE IF md = "ret" THEN "execute" ELSE "handler"

\* The invariant with a thread that runs, spelt out.
Now(N, h) ==
  /\ h \in Heights /\ N = Len(cst) /\ N \in Nat /\ N > 0 /\ R = cst[N].th
  /\ Typed(cst, N, h, ci)
  /\ Core(cst, N, h, ci, nCcalls, baseCcalls, errfunc, status, holds)
  /\ Between(cst[N], Next1(mode), h[N], Len(ci[R]))

\* With a thread that runs, the invariant is that of the whole C stack.
LEMMA NowHolds ==
  ASSUME CallsInv, cst # <<>>, mode # "ret" \/ Last(cst).k # "resume"
  PROVE  \E h : Now(Len(cst), h)
<1>1. ~Returned(cst, mode) /\ Live(cst, mode) = Len(cst) /\ Ahead(cst, mode) = Next1(mode)
  <2>1. Last(cst) = cst[Len(cst)]
    BY TopFacts
  <2> QED
    BY <2>1 DEF Returned, Live, Ahead, Next1
<1>2. PICK h \in Heights :
         Framed(cst, mode, h, ci, nCcalls, baseCcalls, errfunc, status, holds)
  BY DEF CallsInv
<1>3. Len(cst) \in Nat /\ Len(cst) > 0 /\ R = cst[Len(cst)].th
  BY TopFacts
<1>4. /\ Core(cst, Len(cst), h, ci, nCcalls, baseCcalls, errfunc, status, holds)
      /\ Between(cst[Len(cst)], Next1(mode), h[Len(cst)], Len(ci[R]))
  BY <1>1, <1>2, <1>3 DEF Framed
<1>5. Typed(cst, Len(cst), h, ci)
  <2>1. VariablesOK /\ Len(cst) \in 0..Len(cst)
    BY <1>3 DEF CallsInv
  <2> QED
    BY <2>1, ThreadsTyped
<1> QED
  BY <1>3, <1>4, <1>5 DEF Now

\* The parts of Now that are used one by one.
LEMMA NowFacts ==
  ASSUME NEW N, NEW h, Now(N, h)
  PROVE  /\ h \in Heights /\ N = Len(cst) /\ N \in Nat /\ N > 0 /\ N \in 1..N /\ R = cst[N].th
         /\ Typed(cst, N, h, ci) /\ R \in Thread
         /\ Core(cst, N, h, ci, nCcalls, baseCcalls, errfunc, status, holds)
         /\ Between(cst[N], Next1(mode), h[N], Len(ci[R]))
         /\ h[N] \in Nat /\ Len(ci[R]) \in Nat /\ Width(cst[N]) \in Nat
         /\ h[N] + Width(cst[N]) <= Len(ci[R])
         /\ nCcalls[R] = Depth(cst, N) /\ status[R] = "OK"
<1>0. N \in Nat /\ N > 0 /\ N \in 1..N
  BY DEF Now
<1>1. Typed(cst, N, h, ci) /\ R = cst[N].th
  BY DEF Now
<1>2. R \in Thread /\ h[N] \in Nat /\ Width(cst[N]) \in Nat
  BY <1>0, <1>1, Fields
<1>3. Len(ci[R]) \in Nat
  BY <1>0, <1>1, <1>2, Fields
<1>4. Core(cst, N, h, ci, nCcalls, baseCcalls, errfunc, status, holds)
  BY DEF Now
<1>5. h[N] + Width(cst[N]) <= Len(ci[R])
  BY <1>0, <1>1, <1>4 DEF Core, LoopsOK, LoopFrames
<1>6. nCcalls[R] = Depth(cst, N) /\ status[R] = "OK"
  BY <1>0, <1>1, <1>4 DEF Core, CountedOK, StatusOK
<1> QED
  BY <1>0, <1>1, <1>2, <1>3, <1>4, <1>5, <1>6 DEF Now

\* The count leaves room for a call.
LEMMA Room ==
  ASSUME CallsInv, cst # <<>>, mode \notin Errors
  PROVE  nCcalls[R] < MaxCCalls + ExtraCCalls
  BY TopFacts DEF CallsInv, TopOK

\* lua_call by a C function or the interpreter keeps the invariant.
LEMMA CallMade ==
  ASSUME CallsInv, NEW f \in Functions, lua_call(f)
  PROVE  CallsInv'
<1>1. mode = "run" /\ cst # <<>> /\ UNCHANGED <<baseCcalls, status, errfunc, holds, created>>
  BY DEF lua_call
<1> DEFINE N == Len(cst)
<1>2. PICK h : Now(N, h)
  BY <1>1, NowHolds
<1> HIDE DEF N
<1> PICK t : t = R
  OBVIOUS
<1> PICK s : s = cst
  OBVIOUS
<1>3. luaD_call(t, f, s)
  BY DEF lua_call, luaD_call, luaD_precall, growCI
<1>4. /\ VariablesOK /\ Sized(ci, size_ci) /\ errfunc' = errfunc
      /\ errfunc' \in [Thread -> HandlerValues]
  BY <1>1 DEF CallsInv, VariablesOK
<1>5. MayCall(t, f, s, N, h, ci, nCcalls, created)
  <2>1. nCcalls[R] < MaxCCalls + ExtraCCalls
    BY <1>1, Room DEF Errors
  <2>2. cst[N].k \in {"call", "execute", "pcall", "handler"}
    BY <1>1, TopFacts DEF N
  <2>3. Between(cst[N], "call", h[N], Len(ci[R]))
    BY <1>1, <1>2, NowFacts DEF Next1
  <2>4. cst \in Stacks /\ Created(cst, created)
    BY DEF CallsInv, VariablesOK
  <2>5. h \in Heights /\ N = Len(cst) /\ N > 0 /\ R \in Thread /\ cst[N].th = R
    BY <1>2, NowFacts
  <2> QED
    BY <2>1, <2>2, <2>3, <2>4, <2>5 DEF MayCall
<1>6. Core(s, N, h, ci, nCcalls, baseCcalls, errfunc', status, holds)
  BY <1>2, <1>4, NowFacts
<1> QED
  BY <1>1, <1>3, <1>4, <1>5, <1>6, CallPushed

\* A luaD_pcall or the call of a handler is entered, and its function called.
LEMMA CallOver ==
  ASSUME CallsInv, NEW N, NEW h, Now(N, h), NEW t, t = R, NEW a \in Activation,
         NEW f \in Functions, NEW b, b = Pushed(cst, a), a.th = t, a.k \in {"pcall", "handler"},
         a.k = "pcall" => /\ a.nCcalls = nCcalls[t] /\ a.ci = Len(ci[t])
                          /\ a.errfunc = errfunc[t] /\ errfunc'[t] = a.ef,
         a.k = "handler" => errfunc'[t] = errfunc[t],
         \A u \in Thread : u # t => errfunc'[u] = errfunc[u],
         errfunc' \in [Thread -> HandlerValues],
         mode # "ret", Between(cst[N], a.k, h[N], Len(ci[t])),
         nCcalls[t] < MaxCCalls + ExtraCCalls, luaD_call(t, f, b),
         UNCHANGED <<baseCcalls, status, holds, created>>
  PROVE  CallsInv'
<1> DEFINE c == Len(ci[t])
           g == Raised(h, N, c)
<1> HIDE DEF c, g
<1>1. /\ N = Len(cst) /\ N \in Nat /\ N > 0 /\ N \in 1..N /\ h \in Heights /\ t \in Thread
      /\ cst[N].th = t /\ c \in Nat /\ Typed(cst, N, h, ci)
      /\ Core(cst, N, h, ci, nCcalls, baseCcalls, errfunc, status, holds)
      /\ cst \in Stacks /\ Created(cst, created) /\ VariablesOK /\ Sized(ci, size_ci)
  <2>1. cst \in Stacks /\ Created(cst, created) /\ VariablesOK /\ Sized(ci, size_ci)
    BY DEF CallsInv, VariablesOK
  <2> QED
    BY <2>1, NowFacts DEF c
<1>2. cst[N].k \in {"call", "execute"}
  <2>1. cst # <<>>
    BY <1>1, StackFacts
  <2> QED
    BY <1>1, <2>1, TopFacts
<1>3. /\ b \in Stacks /\ Len(b) = N + 1 /\ b # <<>> /\ b[N+1] = a /\ \A i \in 1..N : b[i] = cst[i]
  BY <1>1, StackPush
<1>4. /\ g \in Heights /\ g[N+1] = c /\ \A i \in 1..N : g[i] = h[i]
  BY <1>1, RaisedFacts DEF g
<1>5. b[N] = cst[N] /\ g[N] = h[N]
  BY <1>1, <1>3, <1>4
<1>6. Core(b, N, g, ci, nCcalls, baseCcalls, errfunc, status, holds)
  <2>1. \A i \in 1..N : b[i] = cst[i] /\ g[i] = h[i]
    BY <1>3, <1>4
  <2> QED
    BY <1>1, <2>1, CoreSame
<1>7. Typed(b, N+1, g, ci)
  <2>1. \A i \in 1..N+1 : b[i] \in Activation
    BY <1>3, StackFacts
  <2> QED
    BY <1>1, <1>4, <2>1 DEF Typed
<1>9. Core(b, N+1, g, ci, nCcalls, baseCcalls, errfunc', status, holds)
  <2>1. /\ N \in Nat /\ N > 0 /\ t \in Thread /\ Typed(b, N+1, g, ci)
        /\ b[N].th = t /\ b[N].k \in {"call", "execute"}
        /\ b[N+1].th = t /\ b[N+1].k \in {"pcall", "handler"}
    BY <1>1, <1>2, <1>3, <1>5, <1>7
  <2>2. b[N+1].k = "pcall" => /\ b[N+1].nCcalls = nCcalls[t] /\ b[N+1].ci = g[N+1]
                              /\ b[N+1].errfunc = errfunc[t] /\ errfunc'[t] = b[N+1].ef
    BY <1>3, <1>4 DEF c
  <2>3. b[N+1].k = "handler" => errfunc'[t] = errfunc[t]
    BY <1>3
  <2>4. Between(b[N], b[N+1].k, g[N], g[N+1]) /\ g[N+1] = Len(ci[t])
    BY <1>3, <1>4, <1>5 DEF c
  <2> QED
    BY <1>6, <2>1, <2>2, <2>3, <2>4, CoreOver
<1>10. MayCall(t, f, b, N+1, g, ci, nCcalls, created)
  <2>1. b[N+1].k \in {"call", "execute", "pcall", "handler"} /\ b[N+1].th = t
    BY <1>3
  <2>2. Between(b[N+1], "call", g[N+1], Len(ci[t]))
    BY <1>3, <1>4 DEF Between, c
  <2>3. Created(b, created)
    <3>1. created \subseteq Coroutine /\ \A i \in 1..N : b[i].th \in created \union {Main}
      BY <1>1, <1>3 DEF Created
    <3>2. b[N+1].th \in created \union {Main}
      BY <1>1, <1>5, <2>1, <3>1
    <3>3. \A i \in 1..N+1 : b[i].th \in created \union {Main}
      BY <1>1, <3>1, <3>2
    <3> QED
      BY <1>3, <3>1, <3>3 DEF Created
  <2>4. N+1 = Len(b) /\ N+1 > 0
    BY <1>1, <1>3
  <2> QED
    BY <1>1, <1>3, <1>4, <2>1, <2>2, <2>3, <2>4 DEF MayCall
<1> QED
  BY <1>1, <1>9, <1>10, CallPushed

\* lua_pcall from a C function keeps it: pcall, xpcall and those of the engine.
LEMMA ProtectedCallMade ==
  ASSUME CallsInv, ProtectedCall
  PROVE  CallsInv'
<1>1. mode = "run" /\ cst # <<>>
  BY DEF ProtectedCall, Running
<1> DEFINE N == Len(cst)
<1>2. PICK h : Now(N, h)
  BY <1>1, NowHolds
<1> HIDE DEF N
<1>3. PICK f \in Functions, ef \in HandlerKinds \union {"none", "traceback"} : lua_pcall(R, ef, f)
  BY DEF ProtectedCall
<1> PICK t : t = R
  OBVIOUS
<1> PICK a : a = [k |-> "pcall", th |-> R, ef |-> ef, nCcalls |-> nCcalls[R],
                  ci |-> Len(ci[R]), errfunc |-> errfunc[R]]
  OBVIOUS
<1> PICK b : b = Pushed(cst, a)
  OBVIOUS
<1>4. luaD_call(t, f, b)
  BY <1>3 DEF lua_pcall, luaD_call, luaD_precall, growCI, Pushed
<1>5. errfunc' = [errfunc EXCEPT ![t] = ef] /\ UNCHANGED <<baseCcalls, status, holds, created>>
  BY <1>3 DEF lua_pcall
<1>6. /\ t \in Thread /\ Len(ci[t]) \in Nat /\ nCcalls \in [Thread -> Nat]
      /\ errfunc \in [Thread -> HandlerValues]
  BY <1>2, NowFacts DEF CallsInv, VariablesOK
<1>7. nCcalls[t] \in Nat /\ errfunc[t] \in HandlerValues /\ ef \in HandlerValues
  BY <1>6 DEF HandlerValues
<1>8. a \in Activation
  BY <1>6, <1>7, NewActivations
<1>9. /\ errfunc' \in [Thread -> HandlerValues] /\ errfunc'[t] = ef
      /\ \A u \in Thread : u # t => errfunc'[u] = errfunc[u]
  BY <1>5, <1>6, <1>7
<1>10. Between(cst[N], "pcall", h[N], Len(ci[t]))
  <2>1. Between(cst[N], "call", h[N], Len(ci[t]))
    BY <1>1, <1>2, NowFacts DEF Next1
  <2> QED
    BY <2>1 DEF Between
<1>11. nCcalls[t] < MaxCCalls + ExtraCCalls
  BY <1>1, Room DEF Errors
<1>12. /\ a.k = "pcall" /\ a.th = t /\ a.nCcalls = nCcalls[t] /\ a.ci = Len(ci[t])
       /\ a.errfunc = errfunc[t] /\ a.ef = ef
  OBVIOUS
<1> QED
  BY <1>1, <1>2, <1>4, <1>5, <1>8, <1>9, <1>10, <1>11, <1>12, CallOver

\* An error that begins, or turns into another, changes nothing yet.
LEMMA ErrorMessage ==
  ASSUME CallsInv, cst # <<>>, mode \in {"run", "error"}, mode' \in {"error"} \union Errors,
         UNCHANGED <<thread, created, cst>>
  PROVE  CallsInv'
<1> DEFINE N == Len(cst)
<1>0. mode # "ret" /\ mode' # "run" /\ mode' # "ret"
  BY DEF Errors
<1>1. PICK h : Now(N, h)
  BY <1>0, NowHolds
<1> HIDE DEF N
<1>2. /\ N = Len(cst) /\ N \in Nat /\ h \in Heights /\ R = cst[N].th
      /\ Core(cst, N, h, ci, nCcalls, baseCcalls, errfunc, status, holds)
      /\ Between(cst[N], Next1(mode), h[N], Len(ci[R]))
  BY <1>1, NowFacts
<1>3. /\ ci' = ci /\ size_ci' = size_ci /\ nCcalls' = nCcalls /\ baseCcalls' = baseCcalls
      /\ status' = status /\ errfunc' = errfunc /\ holds' = holds
      /\ created' = created /\ cst' = cst
  BY DEF thread
<1>4. VariablesOK' /\ Sized(ci', size_ci') /\ Created(cst', created')
  BY <1>3 DEF CallsInv, VariablesOK
<1>5. cst[N].k \in {"call", "execute"}
  BY <1>0, <1>2, TopFacts
<1>6. ModeOK(cst', mode') /\ cst' # <<>>
  BY <1>0, <1>2, <1>3, <1>5 DEF ModeOK
<1>7. Between(cst'[N], "handler", h[N], Len(ci'[cst'[N].th]))
  BY <1>0, <1>2, <1>3, <1>5 DEF Between, Next1
<1>8. /\ nCcalls'[cst'[N].th] <= MaxCCalls + ExtraCCalls
      /\ mode' \notin Errors => nCcalls'[cst'[N].th] < MaxCCalls + ExtraCCalls
  <2>1. nCcalls[cst[N].th] < MaxCCalls + ExtraCCalls
    BY <1>2, Room DEF Errors
  <2>2. nCcalls[cst[N].th] <= MaxCCalls + ExtraCCalls
    BY <1>2 DEF CallsInv, TopOK
  <2> QED
    BY <1>3, <2>1, <2>2
<1>9. Core(cst', N, h, ci', nCcalls', baseCcalls', errfunc', status', holds') /\ N = Len(cst')
  BY <1>2, <1>3
<1> QED
  BY <1>0, <1>2, <1>4, <1>6, <1>7, <1>8, <1>9, Assemble

\* luaG_errormsg keeps the invariant, with or without a handler to call.
LEMMA MessageHandled ==
  ASSUME CallsInv, luaG_errormsg
  PROVE  CallsInv'
<1>1. mode = "error" /\ created' = created
  BY DEF luaG_errormsg
<1>2. cst # <<>>
  BY <1>1 DEF CallsInv, ModeOK
<1>3. CASE /\ errfunc[R] \in {"none", "value"}
           /\ mode' = IF errfunc[R] = "none" THEN "ERRRUN" ELSE "ERRERR"
           /\ UNCHANGED <<thread, cst>>
  <2>1. mode' \in Errors /\ UNCHANGED <<thread, created, cst>>
    BY <1>1, <1>3 DEF Errors
  <2> QED
    BY <1>1, <1>2, <2>1, ErrorMessage
<1>4. ASSUME NEW f \in Functions, luaD_call(R, f, Append(cst, [k |-> "handler", th |-> R])),
             UNCHANGED <<baseCcalls, status, errfunc, holds>>
      PROVE  CallsInv'
  <2> DEFINE N == Len(cst)
  <2>1. PICK h : Now(N, h)
    BY <1>1, <1>2, NowHolds
  <2> HIDE DEF N
  <2> PICK t : t = R
    OBVIOUS
  <2> PICK a : a = [k |-> "handler", th |-> R]
    OBVIOUS
  <2> PICK b : b = Pushed(cst, a)
    OBVIOUS
  <2>2. luaD_call(t, f, b)
    BY <1>4 DEF luaD_call, luaD_precall, growCI, Pushed
  <2>3. t \in Thread /\ errfunc \in [Thread -> HandlerValues]
    BY <2>1, NowFacts DEF CallsInv, VariablesOK
  <2>4. a \in Activation /\ a.k = "handler" /\ a.th = t
    BY <2>3, NewActivations
  <2>5. /\ errfunc' = errfunc /\ errfunc' \in [Thread -> HandlerValues]
        /\ UNCHANGED <<baseCcalls, status, holds, created>>
    BY <1>1, <1>4, <2>3
  <2>6. Between(cst[N], "handler", h[N], Len(ci[t]))
    BY <1>1, <2>1, NowFacts DEF Next1
  <2>7. nCcalls[t] < MaxCCalls + ExtraCCalls
    BY <1>1, <1>2, Room DEF Errors
  <2> QED
    BY <1>1, <2>1, <2>2, <2>4, <2>5, <2>6, <2>7, CallOver
<1>5. (IF errfunc[R] = "script" THEN Functions ELSE {"c"}) \subseteq Functions
  BY DEF Functions
<1>6. \/ /\ errfunc[R] \in {"none", "value"}
         /\ mode' = IF errfunc[R] = "none" THEN "ERRRUN" ELSE "ERRERR"
         /\ UNCHANGED <<thread, cst>>
      \/ /\ \E f \in IF errfunc[R] = "script" THEN Functions ELSE {"c"} :
               luaD_call(R, f, Append(cst, [k |-> "handler", th |-> R]))
         /\ UNCHANGED <<baseCcalls, status, errfunc, holds>>
  BY DEF luaG_errormsg
<1> QED
  BY <1>3, <1>4, <1>5, <1>6

\* What is known while no script runs.
LEMMA EmptyFacts ==
  ASSUME CallsInv, cst = <<>>
  PROVE  /\ mode = "run" /\ ci[Main] = <<>> /\ Len(ci[Main]) = 0 /\ status[Main] = "OK"
         /\ nCcalls[Main] = 0 /\ errfunc[Main] = "none" /\ Main \in Thread
         /\ \E h \in Heights :
               Core(cst, 0, h, ci, nCcalls, baseCcalls, errfunc, status, holds)
<1>1. mode = "run" /\ Main \in Thread
  BY DEF CallsInv, ModeOK, Thread
<1>2. Len(cst) = 0 /\ Live(cst, mode) = 0
  <2>1. Len(cst) = 0
    BY StackFacts DEF CallsInv, VariablesOK
  <2> QED
    BY <2>1 DEF Live, Returned
<1>3. PICK h \in Heights :
         Framed(cst, mode, h, ci, nCcalls, baseCcalls, errfunc, status, holds)
  BY DEF CallsInv
<1>4. Core(cst, 0, h, ci, nCcalls, baseCcalls, errfunc, status, holds)
  BY <1>2, <1>3 DEF Framed
<1>5. \A i : i \notin 1..0
  OBVIOUS
<1>6. status[Main] = "OK" /\ ci[Main] = <<>>
  BY <1>1, <1>4, <1>5 DEF Core, StatusOK
<1>7. Len(ci[Main]) = 0
  BY <1>6
<1>8. nCcalls[Main] = 0
  BY <1>4 DEF Core, CountedOK
<1>9. errfunc[Main] = "none"
  BY <1>1, <1>4, <1>5 DEF Core, HandledOK, HandlerAt
<1> QED
  BY <1>1, <1>4, <1>6, <1>7, <1>8, <1>9

\* call_lua_script and load_lua_library from the event loop establish it for a C
\* stack of their own.
LEMMA ScriptCalled ==
  ASSUME CallsInv, call_lua_script \/ load_lua_library
  PROVE  CallsInv'
<1>0. cst = <<>>
  BY DEF call_lua_script, load_lua_library
<1>1. PICK f \in Functions, e \in {"none", "traceback"} : lua_pcall(Main, e, f)
  BY DEF call_lua_script, load_lua_library
<1>2. /\ Len(ci[Main]) = 0 /\ nCcalls[Main] = 0 /\ errfunc[Main] = "none" /\ Main \in Thread
  BY <1>0, EmptyFacts
<1>3. PICK h \in Heights : Core(cst, 0, h, ci, nCcalls, baseCcalls, errfunc, status, holds)
  BY <1>0, EmptyFacts
<1> DEFINE g == Raised(h, 0, 0)
<1> HIDE DEF g
<1> PICK b : b = Pushed(cst, EngineCall(e))
  OBVIOUS
<1>4. luaD_call(Main, f, b)
  BY <1>1, <1>2 DEF lua_pcall, EngineCall, Pushed
<1>5. errfunc' = [errfunc EXCEPT ![Main] = e]
      /\ UNCHANGED <<baseCcalls, status, holds, created>>
  BY <1>1 DEF lua_pcall
<1>6. /\ cst \in Stacks /\ VariablesOK /\ Sized(ci, size_ci) /\ ci \in Frames
      /\ errfunc \in [Thread -> HandlerValues] /\ created \subseteq Coroutine
  BY DEF CallsInv, VariablesOK, Created
<1>7. EngineCall(e) \in Activation /\ EngineCall(e).k = "pcall" /\ EngineCall(e).th = Main
  <2>1. "none" \in HandlerValues /\ e \in HandlerValues /\ 0 \in Nat
    BY DEF HandlerValues
  <2> QED
    BY <1>2, <2>1, NewActivations DEF EngineCall
<1>8. b \in Stacks /\ Len(b) = 1 /\ b[1] = EngineCall(e)
  <2>1. Len(cst) = 0
    BY <1>0
  <2>2. /\ Pushed(cst, EngineCall(e)) \in Stacks /\ Len(Pushed(cst, EngineCall(e))) = Len(cst) + 1
        /\ Pushed(cst, EngineCall(e))[Len(cst) + 1] = EngineCall(e)
    BY <1>6, <1>7, StackPush
  <2> QED
    BY <2>1, <2>2
<1>9. g \in Heights /\ g[1] = 0
  <2>1. g \in Heights /\ g[0+1] = 0
    BY <1>3, RaisedFacts DEF g
  <2> QED
    BY <2>1
<1>10. Core(b, 0, g, ci, nCcalls, baseCcalls, errfunc, status, holds)
  <2>1. \A i \in 1..0 : b[i] = cst[i] /\ g[i] = h[i]
    OBVIOUS
  <2> QED
    BY <1>3, <2>1, CoreSame
<1>11. Core(b, 1, g, ci, nCcalls, baseCcalls, errfunc', status, holds)
  <2>1. Typed(b, 0, g, ci)
    BY <1>6, <1>9 DEF Typed
  <2>2. Main \notin Coroutine
    BY LimitAssumption
  <2> QED
    BY <1>5, <1>6, <1>8, <1>9, <1>10, <2>1, <2>2, CoreEngine
<1>12. MayCall(Main, f, b, 1, g, ci, nCcalls, created)
  <2>1. b[1].k \in {"call", "execute", "pcall", "handler"} /\ b[1].th = Main
    BY <1>7, <1>8
  <2>2. Between(b[1], "call", g[1], Len(ci[Main]))
    BY <1>2, <1>7, <1>8, <1>9 DEF Between
  <2>3. nCcalls[Main] < MaxCCalls + ExtraCCalls
    BY <1>2, LimitAssumption
  <2>4. Created(b, created)
    BY <1>6, <1>8, <2>1 DEF Created
  <2> QED
    BY <1>2, <1>8, <1>9, <2>1, <2>2, <2>3, <2>4 DEF MayCall
<1>13. errfunc' \in [Thread -> HandlerValues]
  BY <1>5, <1>6 DEF HandlerValues
<1> QED
  BY <1>4, <1>5, <1>6, <1>11, <1>12, <1>13, CallPushed

-------------------------------------------------------------------------------
(* The frame on top: in the loop on top of the C stack, or a C function     *)
(* above it.                                                                *)

\* The innermost CallInfo tells what the thread runs: a Lua function in the loop
\* on top, or a C function called from there or by luaD_call.
LEMMA TopLoop ==
  ASSUME CallsInv, NEW N, NEW h, Now(N, h), mode = "run"
  PROVE  /\ Len(ci[R]) > 0 /\ Last(ci[R]) = ci[R][Len(ci[R])]
         /\ Last(ci[R]) = "lua" => cst[N].k = "execute" /\ Len(ci[R]) = h[N] + cst[N].n
         /\ Last(ci[R]) = "c" => \/ cst[N].k = "execute" /\ Len(ci[R]) = h[N] + cst[N].n + 1
                                 \/ cst[N].k = "call" /\ Len(ci[R]) = h[N] + 1
<1> DEFINE p == Len(ci[R])
<1> HIDE DEF p
<1>1. /\ N = Len(cst) /\ N \in Nat /\ N > 0 /\ N \in 1..N /\ R = cst[N].th /\ R \in Thread
      /\ p \in Nat /\ h[N] \in Nat
      /\ Typed(cst, N, h, ci) /\ status[R] = "OK"
      /\ Core(cst, N, h, ci, nCcalls, baseCcalls, errfunc, status, holds)
      /\ Between(cst[N], "call", h[N], p)
  <2>1. Next1(mode) = "call"
    BY DEF Next1
  <2> QED
    BY <2>1, NowFacts DEF p
<1>2. cst[N].k \in {"call", "execute"}
  <2>1. cst # <<>>
    BY <1>1, StackFacts DEF CallsInv, VariablesOK
  <2> QED
    BY <1>1, <2>1, TopFacts
<1>3. \A i \in 1..N : /\ h[i] \in Nat /\ (cst[i].k = "execute" => cst[i].n \in Nat \ {0})
                      /\ Width(cst[i]) \in Nat
  BY <1>1, Fields
<1>4. \/ cst[N].k = "call" /\ p = h[N] + 1
      \/ cst[N].k = "execute" /\ cst[N].n \in Nat \ {0} /\ (p = h[N] + cst[N].n \/ p = h[N] + cst[N].n + 1)
  BY <1>1, <1>2, <1>3 DEF Between
<1>5. p > h[N] /\ p > 0
  BY <1>1, <1>4
<1>6. ci[R][p] \in Functions /\ Last(ci[R]) = ci[R][p]
  <2>1. ci[R] \in Seq(Functions)
    BY <1>1, Fields
  <2>2. Last(ci[R]) = ci[R][p]
    BY DEF Last, p
  <2> QED
    BY <1>5, <2>1, <2>2 DEF p
<1>7. ci[R][p] = "lua" <=> InLoop(cst, N, h, R, p)
  <2>1. LoopFrames(cst, N, h, R, ci[R])
    BY <1>1 DEF Core, LoopsOK
  <2>2. p \in 1..p
    BY <1>1, <1>5
  <2> QED
    BY <2>1, <2>2 DEF LoopFrames, p
<1>8. ASSUME NEW i \in 1..N, i # N, cst[i].th = R
      PROVE  ~(p <= h[i] + Width(cst[i]))
  <2>1. Based(cst, h, N) /\ i \in 1..N-1
    BY <1>1, <1>8 DEF Core, HeightsOK
  <2>2. h[i] + Width(cst[i]) <= h[N]
    BY <1>1, <1>8, <2>1 DEF Based
  <2>3. h[i] + Width(cst[i]) \in Nat
    BY <1>3
  <2> QED
    BY <1>1, <1>5, <2>2, <2>3
<1>9. InLoop(cst, N, h, R, p) <=> cst[N].k = "execute" /\ p = h[N] + cst[N].n
  <2>1. ASSUME NEW i \in 1..N, cst[i].k = "execute", cst[i].th = R, h[i] < p, p <= h[i] + cst[i].n
        PROVE  cst[N].k = "execute" /\ p = h[N] + cst[N].n
    <3>1. Width(cst[i]) = cst[i].n
      BY <2>1 DEF Width
    <3>2. i = N
      BY <1>8, <2>1, <3>1
    <3>3. cst[N].k = "execute" /\ p <= h[N] + cst[N].n
      BY <2>1, <3>2
    <3> QED
      BY <1>1, <1>4, <3>3
  <2>2. ASSUME cst[N].k = "execute", p = h[N] + cst[N].n
        PROVE  InLoop(cst, N, h, R, p)
    <3>1. h[N] < p /\ p <= h[N] + cst[N].n
      BY <1>1, <1>5, <2>2
    <3> QED
      BY <1>1, <2>2, <3>1 DEF InLoop
  <2> QED
    BY <2>1, <2>2 DEF InLoop
<1>10. ci[R][p] = "c" => ci[R][p] # "lua"
  OBVIOUS
<1>11. ci[R][p] = "lua" => cst[N].k = "execute" /\ p = h[N] + cst[N].n
  BY <1>7, <1>9
<1>12. ci[R][p] = "c" => \/ cst[N].k = "execute" /\ p = h[N] + cst[N].n + 1
                         \/ cst[N].k = "call" /\ p = h[N] + 1
  BY <1>4, <1>7, <1>9, <1>10
<1> QED
  BY <1>5, <1>6, <1>11, <1>12 DEF p

-------------------------------------------------------------------------------
(* The interpreter loop on top. *)

\* An activation of luaV_execute is its thread and its count.
LEMMA ExecuteRecord ==
  ASSUME NEW a \in Activation, a.k = "execute"
  PROVE  a = Execute(a.th, a.n) /\ a.n \in Nat \ {0} /\ a.th \in Thread
  BY DEF Activation, Execute

\* The topmost loop counts x frames.
Counted(s, x) == [s EXCEPT ![Len(s)].n = x]

\* The topmost loop with another count.
LEMMA StackCounted ==
  ASSUME NEW s \in Stacks, NEW N \in Nat, N = Len(s), N > 0, s[N].k = "execute",
         NEW x \in Nat \ {0}
  PROVE  /\ Counted(s, x) \in Stacks /\ Len(Counted(s, x)) = N /\ Counted(s, x) # <<>>
         /\ Counted(s, x)[N] = Execute(s[N].th, x) /\ \A i \in 1..N-1 : Counted(s, x)[i] = s[i]
         /\ Alike(s, Counted(s, x), N)
<1> DEFINE z == Counted(s, x)
<1>1. s[N] = Execute(s[N].th, s[N].n) /\ s[N].th \in Thread /\ N \in 1..N
  <2>1. s[N] \in Activation
    BY StackFacts
  <2> QED
    BY <2>1, ExecuteRecord
<1>2. [s[N] EXCEPT !.n = x] = Execute(s[N].th, x)
  BY <1>1 DEF Execute
<1>3. Execute(s[N].th, x) \in Activation
  BY <1>1, NewActivations DEF Execute
<1>4. z = [s EXCEPT ![N] = Execute(s[N].th, x)]
  BY <1>2 DEF Counted
<1>5. s \in Seq(Activation)
  BY DEF Stacks
<1>6. z \in Seq(Activation) /\ Len(z) = N /\ z[N] = Execute(s[N].th, x)
      /\ \A i \in 1..N-1 : z[i] = s[i]
  BY <1>1, <1>3, <1>4, <1>5
<1>7. Alike(s, z, N)
  <2>1. z[N].k = "execute" /\ z[N].th = s[N].th
    BY <1>6 DEF Execute
  <2>2. ASSUME NEW i \in 1..N
        PROVE  z[i].k = s[i].k /\ z[i].th = s[i].th /\ (s[i].k = "pcall" => z[i] = s[i])
    <3>1. CASE i = N
      BY <2>1, <3>1
    <3>2. CASE i # N
      BY <1>6, <3>2
    <3> QED
      BY <3>1, <3>2
  <2> QED
    BY <1>6, <2>2 DEF Alike
<1>8. z # <<>>
  BY <1>6
<1> QED
  BY <1>6, <1>7, <1>8 DEF Stacks

\* A step that leaves the running thread with the same activations, their loop
\* and its frames apart.
LEMMA SameThread ==
  ASSUME CallsInv, NEW N, NEW h, Now(N, h), VariablesOK', Sized(ci', size_ci'),
         Alike(cst, cst', N), Len(cst') = N, cst' # <<>>, ModeOK(cst', mode'),
         Core(cst', N, h, ci', nCcalls, baseCcalls, errfunc, status, holds),
         mode \notin Errors, mode' # "ret" \/ cst'[N].k # "resume",
         Between(cst'[N], Next1(mode'), h[N], Len(ci'[R])),
         UNCHANGED <<nCcalls, baseCcalls, status, errfunc, holds, created>>
  PROVE  CallsInv'
<1>1. /\ N = Len(cst) /\ N \in Nat /\ N > 0 /\ N \in 1..N /\ h \in Heights /\ R = cst[N].th
  BY NowFacts
<1>3. \A i \in 1..N : cst'[i].th = cst[i].th /\ cst'[i].k = cst[i].k
  BY DEF Alike
<1>4. Created(cst', created')
  <2>1. Created(cst, created)
    BY DEF CallsInv
  <2> QED
    BY <1>1, <1>3, <2>1 DEF Created
<1>5. nCcalls[R] < MaxCCalls + ExtraCCalls /\ nCcalls[R] <= MaxCCalls + ExtraCCalls
  <2>1. cst # <<>>
    BY <1>1, StackFacts DEF CallsInv, VariablesOK
  <2> QED
    BY <2>1, TopFacts DEF CallsInv, TopOK
<1>6. cst'[N].th = R
  BY <1>1, <1>3
<1>7. Between(cst'[N], Next1(mode'), h[N], Len(ci'[cst'[N].th]))
  BY <1>6
<1>8. /\ nCcalls'[cst'[N].th] <= MaxCCalls + ExtraCCalls
      /\ mode' \notin Errors => nCcalls'[cst'[N].th] < MaxCCalls + ExtraCCalls
  BY <1>5, <1>6
<1>9. mode' # "ret" \/ Last(cst').k # "resume"
  BY <1>1 DEF Last
<1>10. /\ ModeOK(cst', mode') /\ cst' # <<>> /\ N = Len(cst') /\ Sized(ci', size_ci')
       /\ Core(cst', N, h, ci', nCcalls', baseCcalls', errfunc', status', holds')
  OBVIOUS
<1> QED
  BY <1>1, <1>4, <1>7, <1>8, <1>9, <1>10, Assemble DEF Next1

\* OP_CALL keeps the invariant: one more frame of the same loop, or a C function.
LEMMA FunctionCalled ==
  ASSUME CallsInv, NEW f \in Functions, OP_CALL(f)
  PROVE  CallsInv'
<1>1. mode = "run" /\ cst # <<>> /\ Last(ci[R]) = "lua"
  BY DEF OP_CALL, Running
<1> DEFINE N == Len(cst)
<1>2. PICK h : Now(N, h)
  BY <1>1, NowHolds
<1> HIDE DEF N
<1> PICK t : t = R
  OBVIOUS
<1> PICK s : s = cst
  OBVIOUS
<1> DEFINE n == cst[N].n
           z == Counted(cst, n+1)
<1> HIDE DEF n, z
<1> PICK e : e = IF f = "lua" THEN z ELSE cst
  OBVIOUS
<1>3. /\ N = Len(cst) /\ N \in Nat /\ N > 0 /\ N \in 1..N /\ h \in Heights /\ t \in Thread
      /\ cst[N].th = t /\ Typed(cst, N, h, ci) /\ h[N] \in Nat /\ Len(ci[t]) \in Nat
      /\ Core(cst, N, h, ci, nCcalls, baseCcalls, errfunc, status, holds) /\ status[t] = "OK"
  BY <1>2, NowFacts
<1>4. cst[N].k = "execute" /\ Len(ci[t]) = h[N] + n
  BY <1>1, <1>2, TopLoop DEF n
<1>5. /\ cst \in Stacks /\ VariablesOK /\ Sized(ci, size_ci)
  BY DEF CallsInv, VariablesOK
<1>6. cst[N] = Execute(t, n) /\ n \in Nat \ {0} /\ n \in Nat /\ n+1 \in Nat \ {0}
  <2>1. cst[N] \in Activation
    BY <1>3, <1>5, StackFacts
  <2>2. cst[N] = Execute(t, n) /\ n \in Nat \ {0}
    BY <1>3, <1>4, <2>1, ExecuteRecord DEF n
  <2> QED
    BY <2>2
<1>7. luaD_precall(t, f, e, s)
  BY DEF OP_CALL, luaD_precall, growCI, z, n, N, Counted
<1>8. UNCHANGED <<nCcalls, baseCcalls, status, errfunc, holds, created>>
  BY DEF OP_CALL
<1>9. /\ size_ci' \in [Thread -> Nat] /\ Sized(ci', size_ci') /\ ci' \in Frames
      /\ \/ /\ ci'[t] = Grown(ci[t], f) /\ \A u \in Thread : u # t => ci'[u] = ci[u]
            /\ cst' = e /\ mode' = "run"
         \/ ci' = ci /\ cst' = s /\ mode' \in {"error", "ERRERR"}
  BY <1>3, <1>5, <1>7, PrecallFacts
<1>10. /\ z \in Stacks /\ Len(z) = N /\ z # <<>> /\ z[N] = Execute(t, n+1) /\ z[N].k = "execute"
       /\ \A i \in 1..N-1 : z[i] = cst[i]
       /\ Alike(cst, z, N)
  <2>1. z[N] = Execute(t, n+1)
    BY <1>3, <1>4, <1>5, <1>6, StackCounted DEF z
  <2>2. z[N].k = "execute"
    BY <2>1 DEF Execute
  <2> QED
    BY <1>3, <1>4, <1>5, <1>6, <2>1, <2>2, StackCounted DEF z
<1>11. Alike(cst, cst, N)
  BY DEF Alike
<1>12. CASE ci' = ci /\ cst' = s /\ mode' \in {"error", "ERRERR"}
  <2>1. ModeOK(cst, mode') /\ mode' # "ret" /\ ci \in Frames
    BY <1>1, <1>3, <1>4, <1>12 DEF ModeOK, Errors, CallsInv, VariablesOK
  <2>2. Between(cst[N], Next1(mode'), h[N], Len(ci[R]))
    BY <1>3, <1>4, <1>6 DEF Between, n
  <2>3. mode \notin Errors
    BY <1>1 DEF Errors
  <2> QED
    <3>1. VariablesOK'
      BY <1>5, <1>8, <1>9, <1>12 DEF VariablesOK
    <3>2. /\ Alike(cst, cst', N) /\ Len(cst') = N /\ cst' # <<>> /\ ModeOK(cst', mode')
          /\ Core(cst', N, h, ci', nCcalls, baseCcalls, errfunc, status, holds)
          /\ Between(cst'[N], Next1(mode'), h[N], Len(ci'[R]))
          /\ mode' # "ret" /\ Sized(ci', size_ci')
      BY <1>1, <1>3, <1>9, <1>11, <1>12, <2>1, <2>2
    <3> QED
      BY <1>2, <1>8, <2>3, <3>1, <3>2, SameThread
<1>13. CASE /\ f = "c" /\ ci'[t] = Grown(ci[t], f) /\ \A u \in Thread : u # t => ci'[u] = ci[u]
            /\ cst' = e /\ mode' = "run"
  <2>1. ci'[t] = Grown(ci[t], "c") /\ (\A u \in Thread : u # t => ci'[u] = ci[u]) /\ cst' = cst
    BY <1>13
  <2>2. Typed(cst, N, h, ci')
    BY <1>3, <1>9 DEF Typed
  <2>3. Core(cst, N, h, ci', nCcalls, baseCcalls, errfunc, status, holds)
    BY <1>3, <2>1, <2>2, CoreEnterC
  <2>4. Len(ci'[t]) = Len(ci[t]) + 1
    <3>1. ci[t] \in Seq(Functions)
      BY <1>3, Fields
    <3> QED
      BY <2>1, <3>1, GrownFacts DEF Functions
  <2>5. ModeOK(cst, "run")
    BY <1>1, <1>3, <1>4 DEF ModeOK
  <2>6. Between(cst[N], Next1("run"), h[N], Len(ci'[R]))
    BY <1>3, <1>4, <1>6, <2>4 DEF Between, n
  <2>7. mode \notin Errors
    BY <1>1 DEF Errors
  <2> QED
    <3>1. VariablesOK'
      BY <1>5, <1>8, <1>9, <2>1 DEF VariablesOK
    <3>2. /\ Alike(cst, cst', N) /\ Len(cst') = N /\ cst' # <<>> /\ ModeOK(cst', mode')
          /\ Core(cst', N, h, ci', nCcalls, baseCcalls, errfunc, status, holds)
          /\ Between(cst'[N], Next1(mode'), h[N], Len(ci'[R]))
          /\ mode' # "ret" /\ Sized(ci', size_ci')
      BY <1>1, <1>3, <1>9, <1>11, <1>13, <2>1, <2>3, <2>5, <2>6
    <3> QED
      BY <1>2, <1>8, <2>7, <3>1, <3>2, SameThread
<1>14. CASE /\ f = "lua" /\ ci'[t] = Grown(ci[t], f) /\ \A u \in Thread : u # t => ci'[u] = ci[u]
            /\ cst' = e /\ mode' = "run"
  <2>1. ci'[t] = Grown(ci[t], "lua") /\ (\A u \in Thread : u # t => ci'[u] = ci[u]) /\ cst' = z
    BY <1>14
  <2>2. Typed(z, N, h, ci')
    <3>1. \A i \in 1..N : z[i] \in Activation
      BY <1>10, StackFacts
    <3> QED
      BY <1>3, <1>9, <3>1 DEF Typed
  <2>3. Core(z, N, h, ci', nCcalls, baseCcalls, errfunc, status, holds)
    <3>1. h[N] + n = Len(ci[t])
      BY <1>4
    <3> QED
      BY <1>3, <1>6, <1>10, <2>1, <2>2, <3>1, CoreInLoop
  <2>4. Len(ci'[t]) = Len(ci[t]) + 1
    <3>1. ci[t] \in Seq(Functions)
      BY <1>3, Fields
    <3> QED
      BY <2>1, <3>1, GrownFacts DEF Functions
  <2>8. ModeOK(z, "run")
    BY <1>10 DEF ModeOK
  <2>9. Between(z[N], Next1("run"), h[N], Len(ci'[R]))
    <3>1. z[N].k = "execute" /\ z[N].n = n+1
      BY <1>10 DEF Execute
    <3>2. /\ R = t /\ h[N] \in Nat /\ n \in Nat /\ Len(ci[t]) \in Nat
          /\ Len(ci[t]) = h[N] + n /\ Len(ci'[t]) = Len(ci[t]) + 1
      BY <1>3, <1>4, <1>6, <2>4
    <3>3. Len(ci'[t]) = h[N] + (n+1)
      BY <3>2
    <3> QED
      BY <3>1, <3>2, <3>3 DEF Between
  <2>10. mode \notin Errors
    BY <1>1 DEF Errors
  <2> QED
    <3>1. VariablesOK'
      BY <1>5, <1>8, <1>9, <1>10, <2>1 DEF VariablesOK
    <3>2. /\ Alike(cst, cst', N) /\ Len(cst') = N /\ cst' # <<>> /\ ModeOK(cst', mode')
          /\ Core(cst', N, h, ci', nCcalls, baseCcalls, errfunc, status, holds)
          /\ Between(cst'[N], Next1(mode'), h[N], Len(ci'[R]))
          /\ mode' # "ret" /\ Sized(ci', size_ci')
      BY <1>9, <1>10, <1>14, <2>1, <2>3, <2>8, <2>9
    <3> QED
      BY <1>2, <1>8, <2>10, <3>1, <3>2, SameThread
<1>15. f = "lua" \/ f = "c"
  BY DEF Functions
<1> QED
  BY <1>9, <1>12, <1>13, <1>14, <1>15

-------------------------------------------------------------------------------
(* Activations that are left. *)

\* What is left to show when the stack keeps its m lowest activations.
LEMMA Left ==
  ASSUME CallsInv, NEW N, N = Len(cst), NEW h \in Heights, NEW m \in Nat, m > 0, m < N,
         cst' \in Stacks, Len(cst') = m, \A i \in 1..m : cst'[i] = cst[i],
         ModeOK(cst', mode'), mode' # "ret" \/ cst[m].k # "resume", created' = created,
         VariablesOK', Sized(ci', size_ci'),
         mode \notin Errors \/ mode' \in Errors \/ Depth(cst, m) < Depth(cst, N),
         Core(cst, m, h, ci', nCcalls', baseCcalls', errfunc', status', holds'),
         Between(cst[m], Next1(mode'), h[m], Len(ci'[cst[m].th]))
  PROVE  CallsInv'
<1>1. N \in Nat /\ m \in 1..m /\ m \in 1..N /\ 1..m \subseteq 1..N
  BY StackFacts DEF CallsInv, VariablesOK
<1>2. cst # <<>> /\ cst' # <<>>
  <2>1. cst \in Stacks
    BY DEF CallsInv, VariablesOK
  <2>2. Len(cst) # 0 /\ Len(cst') # 0
    BY <1>1
  <2> QED
    BY <2>1, <2>2, StackFacts
<1>3. cst'[m] = cst[m] /\ Last(cst') = cst'[m]
  BY <1>1, <1>2 DEF Last
<1>4. Core(cst', m, h, ci', nCcalls', baseCcalls', errfunc', status', holds')
  <2>1. \A i \in 1..m : cst'[i] = cst[i] /\ h[i] = h[i]
    OBVIOUS
  <2> QED
    BY <2>1, CoreSame
<1>5. nCcalls'[cst'[m].th] = Depth(cst, m)
  BY <1>3 DEF Core, CountedOK
<1>6. Depth(cst, m) <= Depth(cst, N) /\ Depth(cst, m) \in Nat /\ Depth(cst, N) \in Nat
  BY <1>1, DepthGrows, DepthType
<1>7. /\ Depth(cst, N) <= MaxCCalls + ExtraCCalls
      /\ mode \notin Errors => Depth(cst, N) < MaxCCalls + ExtraCCalls
  <2>1. nCcalls[cst[N].th] = Depth(cst, N)
    BY <1>2 DEF CallsInv, TopOK
  <2> QED
    BY <1>2, <2>1 DEF CallsInv, TopOK
<1>8. MaxCCalls + ExtraCCalls \in Nat
  BY LimitAssumption
<1>9. /\ nCcalls'[cst'[m].th] <= MaxCCalls + ExtraCCalls
      /\ mode' \notin Errors => nCcalls'[cst'[m].th] < MaxCCalls + ExtraCCalls
  BY <1>5, <1>6, <1>7, <1>8
<1>10. Created(cst', created')
  <2>1. Created(cst, created)
    BY DEF CallsInv
  <2> QED
    BY <1>1, <2>1 DEF Created
<1>11. Between(cst'[m], Next1(mode'), h[m], Len(ci'[cst'[m].th]))
       /\ (mode' # "ret" \/ Last(cst').k # "resume")
  BY <1>3
<1> QED
  BY <1>2, <1>4, <1>9, <1>10, <1>11, Assemble DEF Next1

\* Back in the event loop.
LEMMA LeftEmpty ==
  ASSUME CallsInv, NEW h \in Heights, cst' = <<>>, mode' = "run", created' = created,
         VariablesOK', Sized(ci', size_ci'),
         Core(cst, 0, h, ci', nCcalls', baseCcalls', errfunc', status', holds')
  PROVE  CallsInv'
<1>1. Len(cst') = 0 /\ Live(cst', mode') = 0
  <2>1. Len(cst') = 0
    BY StackFacts DEF VariablesOK
  <2> QED
    BY <2>1 DEF Live, Returned
<1>2. Core(cst', 0, h, ci', nCcalls', baseCcalls', errfunc', status', holds')
  <2>1. \A i \in 1..0 : cst'[i] = cst[i] /\ h[i] = h[i]
    OBVIOUS
  <2> QED
    BY <2>1, CoreSame
<1>3. Framed(cst', mode', h, ci', nCcalls', baseCcalls', errfunc', status', holds')
  BY <1>1, <1>2 DEF Framed
<1>4. StackOK(cst', Len(cst'))
  BY <1>1, <1>2 DEF Core
<1>5. ModeOK(cst', mode') /\ TopOK(cst', mode', nCcalls', baseCcalls')
  BY DEF ModeOK, TopOK
<1>6. Created(cst', created')
  <2>1. created \subseteq Coroutine
    BY DEF CallsInv, Created
  <2>2. \A i \in 1..Len(cst') : FALSE
    BY <1>1
  <2> QED
    BY <2>1, <2>2 DEF Created
<1> QED
  BY <1>3, <1>4, <1>5, <1>6 DEF CallsInv

\* The C stack without its topmost activation.
LEMMA StackFront ==
  ASSUME NEW s \in Stacks, NEW N \in Nat, N = Len(s), N > 0
  PROVE  /\ Front(s) \in Stacks /\ Len(Front(s)) = N - 1 /\ N - 1 \in Nat
         /\ \A i \in 1..N-1 : Front(s)[i] = s[i]
         /\ N = 1 => Front(s) = <<>>
<1>1. Front(s) = SubSeq(s, 1, N-1) /\ N-1 \in 0..Len(s)
  BY DEF Front
<1> QED
  BY <1>1, StackPrefix

\* One CallInfo less ...
Shrunk(f) == Front(f)

\* A list of CallInfos without the innermost ...
LEMMA ShrunkFacts ==
  ASSUME NEW f \in Seq(Functions), Len(f) > 0
  PROVE  /\ Shrunk(f) \in Seq(Functions) /\ Len(Shrunk(f)) = Len(f) - 1
         /\ \A p \in 1..Len(f)-1 : Shrunk(f)[p] = f[p]
<1>1. Len(f) \in Nat
  OBVIOUS
<1>2. Shrunk(f) = SubSeq(f, 1, Len(f)-1) /\ Len(f)-1 \in 0..Len(f) /\ Len(f)-1 \in Nat
  BY <1>1 DEF Shrunk, Front
<1>3. \A m \in 0..Len(f) : /\ SubSeq(f, 1, m) \in Seq(Functions) /\ Len(SubSeq(f, 1, m)) = m
                           /\ \A p \in 1..m : SubSeq(f, 1, m)[p] = f[p]
  BY <1>1
<1> QED
  BY <1>2, <1>3

\* ... of thread t.
Without(fr, t) == [fr EXCEPT ![t] = Shrunk(fr[t])]

\* ... for one of the threads ...
LEMMA FramesShrunk ==
  ASSUME NEW fr \in Frames, NEW gr, NEW t \in Thread, gr = Without(fr, t), Len(fr[t]) > 0
  PROVE  /\ gr \in Frames /\ Len(gr[t]) = Len(fr[t]) - 1 /\ gr[t] \in Seq(Functions)
         /\ \A p \in 1..Len(gr[t]) : gr[t][p] = fr[t][p]
         /\ \A u \in Thread : u # t => gr[u] = fr[u]
<1> DEFINE f == Shrunk(fr[t])
<1>1. fr[t] \in Seq(Functions) /\ Len(fr[t]) \in Nat
  BY FramesFacts
<1>2. /\ f \in Seq(Functions) /\ Len(f) = Len(fr[t]) - 1
      /\ \A p \in 1..Len(fr[t])-1 : f[p] = fr[t][p]
  BY <1>1, ShrunkFacts
<1> HIDE DEF f
<1>3. gr = [fr EXCEPT ![t] = f]
  BY DEF f, Without
<1>4. gr \in Frames /\ gr[t] = f /\ \A u \in Thread : u # t => gr[u] = fr[u]
  <2>1. f \in Seq(Functions)
    BY <1>2
  <2> QED
    BY <2>1, <1>3 DEF Frames
<1> QED
  BY <1>2, <1>4

\* ... still has its place.
LEMMA SizedShrunk ==
  ASSUME NEW fr \in Frames, NEW gr \in Frames, NEW sz, Sized(fr, sz), sz \in [Thread -> Nat],
         \A u \in Thread : Len(gr[u]) <= Len(fr[u])
  PROVE  Sized(gr, sz)
<1> SUFFICES ASSUME NEW u \in Thread
             PROVE  Len(gr[u]) < sz[u] /\ sz[u] <= 2 * MaxCalls /\ BasicCI <= sz[u]
  BY DEF Sized
<1>1. Len(gr[u]) \in Nat /\ Len(fr[u]) \in Nat /\ sz[u] \in Nat
  BY FramesFacts
<1> QED
  BY <1>1 DEF Sized

\* A frame above the loop on top, or the newest of its frames, is left.
LEMMA CoreShrink ==
  ASSUME NEW s, NEW z, NEW m \in Nat, NEW h, NEW fr, NEW gr, NEW nc, NEW bc, NEW ef, NEW st,
         NEW ho, NEW t \in Thread, m > 0, Typed(s, m, h, fr), Typed(z, m, h, gr), Alike(s, z, m),
         s[m].th = t, h[m] + Width(z[m]) = Len(gr[t]), Width(z[m]) <= Width(s[m]),
         \A p \in 1..Len(gr[t]) : gr[t][p] = fr[t][p], Len(gr[t]) <= Len(fr[t]),
         \A u \in Thread : u # t => gr[u] = fr[u],
         Core(s, m, h, fr, nc, bc, ef, st, ho)
  PROVE  Core(z, m, h, gr, nc, bc, ef, st, ho)
<1>0. m \in 1..m /\ (\A i \in 1..m-1 : z[i] = s[i])
      /\ \A i \in 1..m : z[i].k = s[i].k /\ z[i].th = s[i].th
  BY DEF Alike
<1>1. /\ Len(fr[t]) \in Nat /\ Len(gr[t]) \in Nat /\ h[m] \in Nat
      /\ Width(z[m]) \in Nat /\ Width(s[m]) \in Nat
  BY <1>0, Fields
<1>2. LoopFrames(s, m, h, t, fr[t])
  <2>1. st[s[m].th] = "OK"
    BY <1>0 DEF Core, StatusOK
  <2> QED
    BY <2>1 DEF Core, LoopsOK
<1>3. ASSUME NEW p \in 1..Len(gr[t])
      PROVE  InLoop(s, m, h, t, p) <=> InLoop(z, m, h, t, p)
  <2>1. ASSUME NEW i \in 1..m
        PROVE  (s[i].k = "execute" /\ s[i].th = t /\ h[i] < p /\ p <= h[i] + s[i].n)
                 <=> (z[i].k = "execute" /\ z[i].th = t /\ h[i] < p /\ p <= h[i] + z[i].n)
    <3>1. CASE i = m /\ s[m].k = "execute"
      <4>1. Width(s[m]) = s[m].n /\ Width(z[m]) = z[m].n
        BY <1>0, <3>1 DEF Width
      <4>2. p <= h[m] + z[m].n /\ p <= h[m] + s[m].n
        BY <1>1, <4>1
      <4> QED
        BY <1>0, <3>1, <4>2
    <3>2. CASE i # m
      BY <1>0, <3>2
    <3>3. CASE i = m /\ s[m].k # "execute"
      BY <1>0, <3>3
    <3> QED
      BY <3>1, <3>2, <3>3
  <2> QED
    BY <2>1 DEF InLoop
<1>4. LoopFrames(z, m, h, t, gr[t])
  BY <1>1, <1>2, <1>3 DEF LoopFrames
<1>5. /\ h[m] + Width(z[m]) <= Len(gr[s[m].th]) /\ LoopFrames(z, m, h, s[m].th, gr[s[m].th])
      /\ \A u \in Thread : u # s[m].th => gr[u] = fr[u]
  BY <1>1, <1>4
<1> QED
  BY <1>5, CoreFrames

\* A coroutine leaves its loop and its lua_resume.
LEMMA CoreBack ==
  ASSUME NEW s, NEW n \in Nat, NEW m \in Nat, NEW h, NEW fr, NEW gr, NEW nc, NEW bc,
         NEW ef, NEW st, NEW tt, NEW ho, NEW t, m + 2 = n,
         Typed(s, n, h, fr), Typed(s, n, h, gr),
         s[n].th = t, s[m+1].th = t, s[n].k = "execute", s[m+1].k = "resume",
         \A u \in Thread : u # t => gr[u] = fr[u] /\ tt[u] = st[u],
         Len(gr[t]) <= Len(fr[t]), \A p \in 1..Len(gr[t]) : gr[t][p] = fr[t][p],
         tt[t] = "OK" => gr[t] = <<>>, tt[t] = "YIELD" => Suspended(gr[t]),
         Core(s, n, h, fr, nc, bc, ef, st, ho)
  PROVE  Core(s, m, h, gr, nc, bc, ef, tt, ho)
<1>1. /\ m < n /\ n \in 1..n /\ m+1 \in 1..n /\ m <= n /\ Main \notin Coroutine
      /\ \A i \in m+1..n : i = m+1 \/ i = n
  BY LimitAssumption
<1>2. h[m+1] = 0 /\ h[n] \in Nat /\ t \in Thread
  BY <1>1, Fields DEF Core, HeightsOK, Based
<1>3. Len(gr[t]) \in Nat /\ (gr[t] = <<>> => Len(gr[t]) = 0)
  BY <1>2, Fields
<1>4. \A i \in m+1..n : s[i].th = s[n].th
  BY <1>1
<1>5. /\ \A u \in Thread : u # s[n].th =>
              gr[u] = fr[u] /\ nc[u] = nc[u] /\ ef[u] = ef[u] /\ tt[u] = st[u]
      /\ Len(gr[s[n].th]) <= Len(fr[s[n].th])
      /\ \A p \in 1..Len(gr[s[n].th]) : gr[s[n].th][p] = fr[s[n].th][p]
      /\ h[m+1] <= Len(gr[s[n].th])
  BY <1>2, <1>3
<1>6. ASSUME tt[t] = "OK", NEW j \in m+1..n, s[j].k = "execute"
      PROVE  Len(gr[t]) <= h[j]
  <2>1. j = n /\ Len(gr[t]) = 0
    BY <1>1, <1>3, <1>6
  <2> QED
    BY <1>2, <2>1
<1>7. /\ tt[s[n].th] = "OK" => \A j \in m+1..n : s[j].k = "execute" => Len(gr[s[n].th]) <= h[j]
      /\ s[m+1].k # "resume" => nc[s[n].th] = Depth(s, m) /\ tt[s[n].th] = "OK"
      /\ tt[s[n].th] = "YIELD" => Suspended(gr[s[n].th])
      /\ (tt[s[n].th] = "OK" /\ (m = 0 \/ s[m+1].k = "resume")) => gr[s[n].th] = <<>>
  BY <1>6
<1>8. HandlerAt(s, s[n].th, m, ef[s[n].th])
  <2>1. HandlerAt(s, t, n, ef[t])
    BY <1>2 DEF Core, HandledOK
  <2>2. \A j \in m+1..n : ~Protects(s[j], t)
    BY <1>1 DEF Protects
  <2> QED
    BY <1>1, <2>1, <2>2, HandlerBelow
<1> QED
  BY <1>1, <1>4, <1>5, <1>7, <1>8, CorePop, SMTT(60)

\* The coroutine on top gives control back to its lua_resume.
LEMMA CoroutineBack ==
  ASSUME CallsInv, NEW N, NEW h, Now(N, h), cst[N].k = "execute", N > 1, cst[N-1].k = "resume",
         NEW t, t = R, mode \notin Errors, mode' = "ret", cst' = Front(cst),
         ci' \in Frames, Sized(ci', size_ci), status' \in [Thread -> {"OK", "YIELD"} \union Errors],
         UNCHANGED <<size_ci, nCcalls, baseCcalls, errfunc, holds, created>>,
         \A u \in Thread : u # t => ci'[u] = ci[u] /\ status'[u] = status[u],
         Len(ci'[t]) <= Len(ci[t]), \A p \in 1..Len(ci'[t]) : ci'[t][p] = ci[t][p],
         status'[t] \in {"OK", "YIELD"}, status'[t] = "OK" => ci'[t] = <<>>,
         status'[t] = "YIELD" => Suspended(ci'[t])
  PROVE  CallsInv'
<1>1. /\ N = Len(cst) /\ N \in Nat /\ N > 0 /\ h \in Heights /\ t \in Thread
      /\ cst[N].th = t /\ Typed(cst, N, h, ci) /\ nCcalls[t] = Depth(cst, N)
      /\ Core(cst, N, h, ci, nCcalls, baseCcalls, errfunc, status, holds)
  BY NowFacts
<1>2. cst \in Stacks /\ VariablesOK /\ StackOK(cst, N)
  BY <1>1 DEF CallsInv, VariablesOK
<1> DEFINE m == N-2
<1>3. m \in Nat /\ m > 0 /\ m+1 = N-1 /\ m < N /\ m+2 = N /\ N-1 \in 1..N /\ N-1 \in 2..N /\ m \in 1..N
      /\ N \in 1..N /\ m \in 1..m /\ m+1 \in 1..N /\ m+1 \in Nat
  <2>1. N # 2
    <3>1. cst[1] \in EngineCalls
      BY <1>1, <1>2 DEF StackOK, Placed
    <3> QED
      BY <3>1 DEF EngineCall, EngineCalls
  <2> QED
    BY <1>1, <2>1
<1> HIDE DEF m
<1>4. cst[m+1].k = "resume" /\ cst[N].k = "execute" /\ cst[m+1].th = t /\ cst[N].th = t
  <2>1. Follows(cst[N-1], cst[N])
    BY <1>1, <1>2, <1>3 DEF StackOK, Placed
  <2> QED
    BY <1>1, <1>3, <2>1 DEF Follows
<1>8. Core(cst, m, h, ci', nCcalls, baseCcalls, errfunc, status', holds)
  <2>1. Typed(cst, N, h, ci')
    BY <1>1 DEF Typed
  <2> QED
    BY <1>1, <1>3, <1>4, <2>1, CoreBack, SMTT(60)
<1>9. /\ cst' \in Stacks /\ Len(cst') = m+1 /\ cst' # <<>> /\ \A i \in 1..m+1 : cst'[i] = cst[i]
  <2>1. /\ Front(cst) \in Stacks /\ Len(Front(cst)) = N - 1
        /\ \A i \in 1..N-1 : Front(cst)[i] = cst[i]
    BY <1>1, <1>2, StackFront
  <2>2. Len(cst') = m+1 /\ m+1 # 0 /\ cst' \in Stacks
    BY <1>3, <2>1
  <2>3. cst' # <<>>
    BY <2>2, StackFacts
  <2> QED
    BY <1>3, <2>1, <2>2, <2>3
<1>10. /\ cst'[m+1] = cst[m+1] /\ 1..m \subseteq 1..m+1 /\ m+1 \in 1..m+1 /\ m \in 1..m+1
       /\ cst'[m] = cst[m] /\ 1..m+1 \subseteq 1..N
  <2>1. m+1 \in 1..m+1 /\ m \in 1..m+1 /\ 1..m \subseteq 1..m+1 /\ 1..m+1 \subseteq 1..N
    BY <1>1, <1>3
  <2> QED
    BY <1>9, <2>1
<1>11. Core(cst', m, h, ci', nCcalls, baseCcalls, errfunc, status', holds)
  <2>1. \A i \in 1..m : cst'[i] = cst[i] /\ h[i] = h[i]
    BY <1>9, <1>10
  <2> QED
    BY <1>3, <1>8, <2>1, CoreSame
<1>12. Alike(cst, cst', m+1)
  <2>1. 1..(m+1)-1 \subseteq 1..m+1
    BY <1>3
  <2> QED
    BY <1>9, <2>1 DEF Alike
<1>13. StackOK(cst', m+1) /\ Depth(cst', m+1) = Depth(cst, m+1)
  <2>1. StackOK(cst, m+1)
    BY <1>2, <1>10 DEF StackOK
  <2>2. m+1 \in 0..m+1
    BY <1>3
  <2> QED
    BY <1>3, <1>12, <2>1, <2>2, AlikeStack, DepthAlike
<1>14. Returned(cst', mode') /\ Live(cst', mode') = m /\ Ahead(cst', mode') = "resume"
  <2>1. Returned(cst', mode')
    BY <1>4, <1>9, <1>10 DEF Returned
  <2> QED
    BY <1>3, <1>9, <2>1 DEF Live, Ahead
<1>15. Between(cst'[m], "resume", h[m], Len(ci'[cst'[m].th]))
  <2>1. N-1 \in 2..N /\ (N-1)-1 = m /\ cst[N-1].k = "resume"
    BY <1>1, <1>3
  <2>2. Between(cst[m], "resume", h[m], Len(ci[cst[m].th]))
    BY <1>1, <2>1 DEF Core, WaitOK
  <2>3. cst[m].th # t
    BY <1>1, <1>2, <2>1, WaitersElsewhere, SMTT(60)
  <2>4. cst[m].th \in Thread
    BY <1>1, <1>3, Fields
  <2> QED
    BY <1>10, <2>2, <2>3, <2>4
<1>16. Framed(cst', mode', h, ci', nCcalls', baseCcalls', errfunc', status', holds')
  BY <1>11, <1>14, <1>15 DEF Framed
<1>17. nCcalls[t] = Depth(cst', m+1) /\ baseCcalls[t] = Depth(cst', m+1)
  <2>1. Depth(cst, (m+1)+1) = Depth(cst, m+1)
    <3>1. (m+1)+1 = N
      BY <1>3
    <3> QED
      BY <1>3, <1>4, <3>1, DepthStep
  <2>2. (m+1)+1 = N
    BY <1>3
  <2>3. baseCcalls[t] = Depth(cst, m+1)
    BY <1>1, <1>3, <1>4 DEF Core, CountedOK
  <2> QED
    BY <1>1, <1>13, <2>1, <2>2, <2>3
<1>18. TopOK(cst', mode', nCcalls', baseCcalls')
  <2>1. nCcalls[t] <= MaxCCalls + ExtraCCalls /\ nCcalls[t] < MaxCCalls + ExtraCCalls
    <3>1. cst # <<>>
      BY <1>1, <1>2, StackFacts
    <3> QED
      BY <1>1, <3>1 DEF CallsInv, TopOK
  <2> QED
    BY <1>4, <1>9, <1>10, <1>17, <2>1 DEF TopOK
<1>19. ModeOK(cst', mode')
  BY <1>4, <1>9, <1>10 DEF ModeOK
<1>20. Created(cst', created')
  <2>1. Created(cst, created)
    BY DEF CallsInv
  <2> QED
    BY <1>1, <1>9, <1>10, <2>1 DEF Created
<1>21. VariablesOK'
  BY <1>2, <1>9 DEF VariablesOK
<1> QED
  BY <1>1, <1>9, <1>13, <1>16, <1>18, <1>19, <1>20, <1>21 DEF CallsInv

\* The running thread leaves its activations above the m-th, and has the frames
\* again that it had when it entered the lowest of them.
Leaves(s, n, m, h, fr, gr, nc, dc, ef, gf, t) ==
  /\ m < n /\ \A i \in m+1..n : s[i].th = t
  /\ s[m+1].k # "resume"
  /\ \A u \in Thread : u # t => gr[u] = fr[u] /\ dc[u] = nc[u] /\ gf[u] = ef[u]
  /\ Len(gr[t]) <= Len(fr[t]) /\ \A p \in 1..Len(gr[t]) : gr[t][p] = fr[t][p]
  /\ Len(gr[t]) = h[m+1] /\ dc[t] = Depth(s, m)
  /\ s[m+1].k = "pcall" => gf[t] = s[m+1].errfunc
  /\ s[m+1].k # "pcall" => m+1 = n /\ gf[t] = ef[t]

\* Leaving activations of the thread on top, by a return or an error, keeps the
\* invariant of what remains.
LEMMA CoreLeave ==
  ASSUME NEW s, NEW n \in Nat, NEW m \in Nat, NEW h, NEW fr, NEW gr, NEW nc, NEW dc, NEW bc,
         NEW ef, NEW gf, NEW st, NEW ho, NEW t, Leaves(s, n, m, h, fr, gr, nc, dc, ef, gf, t),
         Typed(s, n, h, fr), Typed(s, n, h, gr),
         Core(s, n, h, fr, nc, bc, ef, st, ho)
  PROVE  Core(s, m, h, gr, dc, bc, gf, st, ho)
<1> USE DEF Leaves
<1>1. /\ n \in 1..n /\ m+1 \in 1..n /\ m <= n /\ (m+1)-1 = m /\ Main \notin Coroutine
      /\ s[n].th = t /\ s[m+1].th = t
  BY LimitAssumption
<1>2. t \in Thread /\ h[m+1] \in Nat /\ Len(gr[t]) \in Nat /\ \A j \in 1..n : h[j] \in Nat /\ Width(s[j]) \in Nat
  <2>1. t \in Thread /\ h[m+1] \in Nat /\ \A j \in 1..n : h[j] \in Nat /\ Width(s[j]) \in Nat
    BY <1>1, Fields
  <2>2. Len(gr[t]) \in Nat
    BY <2>1, Fields
  <2> QED
    BY <2>1, <2>2
<1>3. st[t] = "OK"
  BY <1>1 DEF Core, StatusOK
<1>4. ASSUME NEW j \in m+1..n
      PROVE  Len(gr[t]) <= h[j]
  <2>1. CASE j = m+1
    BY <1>2, <2>1
  <2>2. CASE j # m+1
    <3>1. j \in 1..n /\ m+1 \in 1..j-1 /\ Based(s, h, j) /\ s[j].th = s[m+1].th
      BY <1>1, <2>2 DEF Core, HeightsOK
    <3>2. h[m+1] + Width(s[m+1]) <= h[j]
      BY <3>1 DEF Based
    <3> QED
      BY <1>1, <1>2, <3>1, <3>2
  <2> QED
    BY <2>1, <2>2
<1>5. m = 0 => gr[t] = <<>>
  <2>1. CASE m = 0
    <3>1. Placed(s, 1) /\ Based(s, h, 1)
      BY <1>1, <2>1 DEF Core, StackOK, HeightsOK
    <3>2. s[1].k = "pcall" /\ s[1].ci = 0
      BY <3>1 DEF Placed, EngineCall, EngineCalls
    <3>3. h[1] = 0
      BY <3>1, <3>2 DEF Based
    <3>4. Len(gr[t]) = 0 /\ gr[t] \in Seq(Functions)
      BY <1>2, <2>1, <3>3, Fields
    <3> QED
      BY <3>4
  <2> QED
    BY <2>1
<1>6. /\ \A i \in m+1..n : s[i].th = s[n].th
      /\ \A u \in Thread : u # s[n].th =>
              gr[u] = fr[u] /\ dc[u] = nc[u] /\ gf[u] = ef[u] /\ st[u] = st[u]
      /\ Len(gr[s[n].th]) <= Len(fr[s[n].th])
      /\ \A p \in 1..Len(gr[s[n].th]) : gr[s[n].th][p] = fr[s[n].th][p]
      /\ h[m+1] <= Len(gr[s[n].th])
  BY <1>1, <1>2
<1>7. /\ st[s[n].th] = "OK" => \A j \in m+1..n : s[j].k = "execute" => Len(gr[s[n].th]) <= h[j]
      /\ s[m+1].k # "resume" => dc[s[n].th] = Depth(s, m) /\ st[s[n].th] = "OK"
      /\ st[s[n].th] = "YIELD" => Suspended(gr[s[n].th])
      /\ (st[s[n].th] = "OK" /\ (m = 0 \/ s[m+1].k = "resume")) => gr[s[n].th] = <<>>
  BY <1>1, <1>3, <1>4, <1>5
<1>8. HandlerAt(s, s[n].th, m, gf[s[n].th])
  <2>1. CASE s[m+1].k = "pcall"
    <3>1. Placed(s, m+1)
      BY <1>1 DEF Core, StackOK
    <3> QED
      BY <1>1, <2>1, <3>1 DEF Placed
  <2>2. CASE s[m+1].k # "pcall"
    <3>1. HandlerAt(s, t, n, ef[t])
      BY <1>2 DEF Core, HandledOK
    <3>2. \A j \in m+1..n : ~Protects(s[j], t)
      BY <1>1, <2>2 DEF Protects
    <3>3. HandlerAt(s, t, m, ef[t])
      BY <1>1, <3>1, <3>2, HandlerBelow
    <3> QED
      BY <1>1, <2>2, <3>3
  <2> QED
    BY <2>1, <2>2
<1> QED
  BY <1>1, <1>6, <1>7, <1>8, CorePop, SMTT(60)

\* The return of a C function keeps the invariant.
LEMMA CFunctionReturned ==
  ASSUME CallsInv, CReturn
  PROVE  CallsInv'
<1>1. mode = "run" /\ cst # <<>> /\ Last(ci[R]) = "c"
  BY DEF CReturn, Running
<1> DEFINE N == Len(cst)
<1>2. PICK h : Now(N, h)
  BY <1>1, NowHolds
<1> HIDE DEF N
<1> PICK t : t = R
  OBVIOUS
<1>3. /\ N = Len(cst) /\ N \in Nat /\ N > 0 /\ N \in 1..N /\ h \in Heights /\ t \in Thread
      /\ cst[N].th = t /\ Typed(cst, N, h, ci) /\ h[N] \in Nat /\ Len(ci[t]) \in Nat
      /\ Core(cst, N, h, ci, nCcalls, baseCcalls, errfunc, status, holds)
      /\ Width(cst[N]) \in Nat
  BY <1>2, NowFacts
<1>4. /\ Len(ci[t]) > 0
      /\ \/ cst[N].k = "execute" /\ Len(ci[t]) = h[N] + cst[N].n + 1
         \/ cst[N].k = "call" /\ Len(ci[t]) = h[N] + 1
  BY <1>1, <1>2, TopLoop
<1>5. cst \in Stacks /\ VariablesOK /\ Sized(ci, size_ci) /\ ci \in Frames /\ size_ci \in [Thread -> Nat]
  BY DEF CallsInv, VariablesOK
<1>6. /\ ci' = Without(ci, t)
      /\ mode' = IF cst[N].k = "execute" THEN "run" ELSE "ret"
      /\ size_ci' = size_ci /\ cst' = cst
      /\ UNCHANGED <<nCcalls, baseCcalls, status, errfunc, holds, created>>
  <2>1. Last(cst) = cst[N]
    BY <1>1, <1>3 DEF Last
  <2> QED
    BY <2>1 DEF CReturn, Shrunk, Without
<1>7. /\ ci' \in Frames /\ Len(ci'[t]) = Len(ci[t]) - 1
      /\ \A p \in 1..Len(ci'[t]) : ci'[t][p] = ci[t][p]
      /\ \A u \in Thread : u # t => ci'[u] = ci[u]
  BY <1>3, <1>4, <1>5, <1>6, FramesShrunk
<1>8. /\ h[N] + Width(cst[N]) = Len(ci'[t]) /\ Len(ci'[t]) <= Len(ci[t])
      /\ Width(cst[N]) <= Width(cst[N])
  <2>1. Width(cst[N]) = IF cst[N].k = "execute" THEN cst[N].n ELSE 0
    BY DEF Width
  <2>2. Len(ci[t]) = h[N] + Width(cst[N]) + 1
    BY <1>3, <1>4, <2>1
  <2>3. \A a, b, w \in Nat : a = b + w + 1 => b + w = a - 1 /\ a - 1 <= a /\ w <= w
    OBVIOUS
  <2> QED
    BY <1>3, <1>7, <2>2, <2>3
<1>9. Core(cst, N, h, ci', nCcalls, baseCcalls, errfunc, status, holds)
  <2>1. Typed(cst, N, h, ci') /\ Alike(cst, cst, N)
    BY <1>3, <1>7 DEF Typed, Alike
  <2> QED
    <3>1. /\ N \in Nat /\ N > 0 /\ Typed(cst, N, h, ci) /\ cst[N].th = t /\ t \in Thread
          /\ h[N] + Width(cst[N]) = Len(ci'[t]) /\ Width(cst[N]) <= Width(cst[N])
          /\ Len(ci'[t]) <= Len(ci[t])
          /\ \A p \in 1..Len(ci'[t]) : ci'[t][p] = ci[t][p]
          /\ \A u \in Thread : u # t => ci'[u] = ci[u]
          /\ Core(cst, N, h, ci, nCcalls, baseCcalls, errfunc, status, holds)
      BY <1>3, <1>7, <1>8
    <3> QED
      BY <2>1, <3>1, CoreShrink
<1>10. Sized(ci', size_ci)
  <2>1. \A u \in Thread : Len(ci'[u]) <= Len(ci[u])
    <3>1. \A u \in Thread : Len(ci[u]) \in Nat
      BY <1>5, FramesFacts
    <3> QED
      BY <1>7, <1>8, <3>1
  <2> QED
    BY <1>5, <1>7, <2>1, SizedShrunk
<1>11. ModeOK(cst, mode') /\ (mode' # "ret" \/ cst[N].k # "resume") /\ mode \notin Errors
  BY <1>1, <1>3, <1>4, <1>6 DEF ModeOK, Errors
<1>12. Between(cst[N], Next1(mode'), h[N], Len(ci'[R]))
  BY <1>3, <1>4, <1>6, <1>8 DEF Between, Width, Next1
<1>13. Alike(cst, cst, N)
  BY DEF Alike
<1>14. VariablesOK'
  BY <1>5, <1>6, <1>7 DEF VariablesOK
<1>15. /\ Alike(cst, cst', N) /\ Len(cst') = N /\ cst' # <<>> /\ ModeOK(cst', mode')
       /\ Core(cst', N, h, ci', nCcalls, baseCcalls, errfunc, status, holds)
       /\ Between(cst'[N], Next1(mode'), h[N], Len(ci'[R]))
       /\ (mode' # "ret" \/ cst'[N].k # "resume") /\ Sized(ci', size_ci')
  BY <1>1, <1>3, <1>6, <1>9, <1>10, <1>11, <1>12, <1>13
<1> QED
  BY <1>2, <1>6, <1>11, <1>14, <1>15, SameThread

\* OP_RETURN keeps it, when the loop goes on and when it ends with its last frame.
LEMMA LuaFunctionReturned ==
  ASSUME CallsInv, OP_RETURN
  PROVE  CallsInv'
<1>1. mode = "run" /\ cst # <<>> /\ Last(ci[R]) = "lua"
  BY DEF OP_RETURN, Running
<1> DEFINE N == Len(cst)
<1>2. PICK h : Now(N, h)
  BY <1>1, NowHolds
<1> HIDE DEF N
<1> PICK t : t = R
  OBVIOUS
<1> DEFINE n == cst[N].n
           z == Counted(cst, n-1)
<1> HIDE DEF n, z
<1>3. /\ N = Len(cst) /\ N \in Nat /\ N > 0 /\ N \in 1..N /\ h \in Heights /\ t \in Thread
      /\ cst[N].th = t /\ Typed(cst, N, h, ci) /\ h[N] \in Nat /\ Len(ci[t]) \in Nat
      /\ Core(cst, N, h, ci, nCcalls, baseCcalls, errfunc, status, holds)
      /\ Width(cst[N]) \in Nat /\ nCcalls[t] = Depth(cst, N) /\ status[t] = "OK"
  BY <1>2, NowFacts
<1>4. Len(ci[t]) > 0 /\ cst[N].k = "execute" /\ Len(ci[t]) = h[N] + n
  BY <1>1, <1>2, TopLoop DEF n
<1>5. cst \in Stacks /\ VariablesOK /\ Sized(ci, size_ci) /\ ci \in Frames /\ size_ci \in [Thread -> Nat]
      /\ status \in [Thread -> {"OK", "YIELD"} \union Errors]
  BY DEF CallsInv, VariablesOK
<1>a. n \in Nat \ {0} /\ Width(cst[N]) = n
  <2>1. cst[N] \in Activation
    BY <1>3, <1>5, StackFacts
  <2> QED
    BY <1>4, <2>1, ExecuteRecord DEF n, Width
<1>6. /\ ci' = Without(ci, t)
      /\ cst' = IF n = 1 THEN Front(cst) ELSE z
      /\ mode' = IF n = 1 THEN "ret" ELSE "run"
      /\ size_ci' = size_ci
      /\ UNCHANGED <<nCcalls, baseCcalls, status, errfunc, holds, created>>
  <2>1. Last(cst) = cst[N]
    BY <1>1, <1>3 DEF Last
  <2> QED
    BY <1>3, <2>1 DEF OP_RETURN, Without, Shrunk, Counted, n, z
<1>7. /\ ci' \in Frames /\ Len(ci'[t]) = Len(ci[t]) - 1
      /\ \A p \in 1..Len(ci'[t]) : ci'[t][p] = ci[t][p]
      /\ \A u \in Thread : u # t => ci'[u] = ci[u]
  BY <1>3, <1>4, <1>5, <1>6, FramesShrunk, SMTT(60)
<1>8. Len(ci'[t]) <= Len(ci[t]) /\ Len(ci'[t]) = h[N] + (n-1) /\ Len(ci'[t]) \in Nat
  BY <1>3, <1>4, <1>7, <1>a
<1>9. mode \notin Errors
  BY <1>1 DEF Errors
<1>10. Sized(ci', size_ci)
  <2>1. \A u \in Thread : Len(ci'[u]) <= Len(ci[u])
    <3>1. \A u \in Thread : Len(ci[u]) \in Nat
      BY <1>5, FramesFacts
    <3> QED
      BY <1>7, <1>8, <3>1
  <2> QED
    BY <1>5, <1>7, <2>1, SizedShrunk
\* The loop goes on with the frame below.
<1>11. CASE n # 1
  <2>1. n-1 \in Nat \ {0}
    BY <1>a, <1>11
  <2>2. /\ z \in Stacks /\ Len(z) = N /\ z # <<>> /\ z[N] = Execute(t, n-1)
        /\ Alike(cst, z, N)
    <3>1. N = Len(cst) /\ N \in Nat /\ N > 0 /\ cst[N].k = "execute" /\ cst[N].th = t
          /\ cst \in Stacks
      BY <1>3, <1>4, <1>5
    <3> PICK x : x = n-1
      OBVIOUS
    <3>2. z = Counted(cst, x) /\ x \in Nat \ {0}
      BY <2>1 DEF z
    <3>3. /\ z \in Stacks /\ Len(z) = N /\ z # <<>> /\ z[N] = Execute(cst[N].th, x)
          /\ Alike(cst, z, N)
      BY <3>1, <3>2, StackCounted
    <3> QED
      BY <3>1, <3>3
  <2>3. z[N].k = "execute" /\ z[N].n = n-1 /\ Width(z[N]) = n-1
    BY <2>2 DEF Execute, Width
  <2>4. Typed(z, N, h, ci')
    <3>1. \A i \in 1..N : z[i] \in Activation
      BY <2>2, StackFacts
    <3> QED
      BY <1>3, <1>7, <3>1 DEF Typed
  <2>5. h[N] + Width(z[N]) = Len(ci'[t]) /\ Width(z[N]) <= Width(cst[N])
    BY <1>8, <1>a, <2>3
  <2>6. Core(z, N, h, ci', nCcalls, baseCcalls, errfunc, status, holds)
    <3>1. /\ N \in Nat /\ N > 0 /\ Typed(cst, N, h, ci) /\ Typed(z, N, h, ci')
          /\ Alike(cst, z, N) /\ t \in Thread /\ cst[N].th = t
          /\ h[N] + Width(z[N]) = Len(ci'[t]) /\ Width(z[N]) <= Width(cst[N])
          /\ \A p \in 1..Len(ci'[t]) : ci'[t][p] = ci[t][p]
          /\ Len(ci'[t]) <= Len(ci[t])
          /\ \A u \in Thread : u # t => ci'[u] = ci[u]
          /\ Core(cst, N, h, ci, nCcalls, baseCcalls, errfunc, status, holds)
      BY <1>3, <1>7, <1>8, <2>2, <2>4, <2>5
    <3> QED
      BY <3>1, CoreShrink
  <2>7. ModeOK(z, "run") /\ cst' = z /\ mode' = "run"
    BY <1>6, <1>11, <2>2, <2>3 DEF ModeOK
  <2>8. Between(z[N], Next1("run"), h[N], Len(ci'[R]))
    BY <1>8, <2>3 DEF Between
  <2> QED
    <3>1. VariablesOK'
      BY <1>5, <1>6, <1>7, <2>2, <2>7 DEF VariablesOK
    <3>2. /\ Alike(cst, cst', N) /\ Len(cst') = N /\ cst' # <<>> /\ ModeOK(cst', mode')
          /\ Core(cst', N, h, ci', nCcalls, baseCcalls, errfunc, status, holds)
          /\ Between(cst'[N], Next1(mode'), h[N], Len(ci'[R]))
          /\ mode' # "ret" /\ Sized(ci', size_ci')
      BY <1>6, <1>10, <2>2, <2>6, <2>7, <2>8
    <3> QED
      BY <1>2, <1>6, <1>9, <3>1, <3>2, SameThread
\* The loop ends: its luaD_call is next, or its lua_resume.
<1>12. CASE n = 1
  <2>1. N > 1 /\ N-1 \in Nat /\ N-1 > 0 /\ N-1 \in 1..N /\ N-1 < N
    <3>1. N # 1
      <4>1. cst[1] \in EngineCalls
        BY <1>1, TopFacts
      <4> QED
        BY <1>4, <4>1 DEF EngineCall, EngineCalls
    <3> QED
      BY <1>3, <3>1
  <2>2. cst[N-1].k \in {"call", "resume"} /\ cst[N-1].th = t
    <3>1. Follows(cst[N-1], cst[N])
      BY <1>3, <2>1 DEF Core, StackOK, Placed
    <3> QED
      BY <1>3, <1>4, <3>1 DEF Follows
  <2>3. mode' = "ret" /\ cst' = Front(cst) /\ Len(ci'[t]) = h[N]
    BY <1>3, <1>6, <1>8, <1>12
  <2>4. CASE cst[N-1].k = "resume"
    <3>1. ci'[t] = <<>>
      <4>1. Between(cst[N-1], "execute", h[N-1], h[N]) /\ h[N-1] = 0
        <5>1. Based(cst, h, N) /\ Based(cst, h, N-1)
          BY <1>3, <2>1 DEF Core, HeightsOK
        <5> QED
          BY <1>4, <2>1, <2>4, <5>1 DEF Based
      <4>2. Len(ci'[t]) = 0
        BY <2>3, <2>4, <4>1 DEF Between
      <4>3. ci'[t] \in Seq(Functions)
        BY <1>3, <1>7, FramesFacts
      <4> QED
        BY <4>2, <4>3
    <3>2. /\ \A u \in Thread : u # t => ci'[u] = ci[u] /\ status'[u] = status[u]
          /\ status' \in [Thread -> {"OK", "YIELD"} \union Errors]
          /\ status'[t] = "OK"
      BY <1>3, <1>5, <1>6, <1>7
    <3> QED
      <4>1. /\ cst[N].k = "execute" /\ N > 1 /\ cst[N-1].k = "resume" /\ t = R
            /\ mode' = "ret" /\ cst' = Front(cst) /\ ci' \in Frames /\ Sized(ci', size_ci)
            /\ Len(ci'[t]) <= Len(ci[t]) /\ \A p \in 1..Len(ci'[t]) : ci'[t][p] = ci[t][p]
            /\ UNCHANGED <<size_ci, nCcalls, baseCcalls, errfunc, holds, created>>
        BY <1>4, <1>6, <1>7, <1>8, <1>10, <2>1, <2>3, <2>4
      <4>2. status'[t] \in {"OK", "YIELD"} /\ status'[t] # "YIELD"
        BY <3>2
      <4> QED
        BY <1>2, <1>9, <3>1, <3>2, <4>1, <4>2, CoroutineBack, SMTT(60)
  <2>5. CASE cst[N-1].k = "call"
    <3> DEFINE m == N-1
    <3>1. /\ m \in Nat /\ m > 0 /\ m < N /\ m+1 = N /\ m \in 1..N /\ cst[m].k = "call"
          /\ cst[m].th = t
      BY <1>3, <2>1, <2>2, <2>5
    <3>2. /\ cst' \in Stacks /\ Len(cst') = m /\ \A i \in 1..m : cst'[i] = cst[i]
      BY <1>3, <1>5, <2>3, StackFront
    <3> HIDE DEF m
    <3>3. nCcalls[t] = Depth(cst, m)
      BY <1>3, <1>4, <3>1, DepthStep
    <3>4. Typed(cst, N, h, ci') /\ Len(ci'[t]) = h[N]
      BY <1>3, <1>7, <2>3 DEF Typed
    <3>5. Core(cst, m, h, ci', nCcalls, baseCcalls, errfunc, status, holds)
      <4>1. /\ \A u \in Thread : u # t =>
                   ci'[u] = ci[u] /\ nCcalls[u] = nCcalls[u] /\ errfunc[u] = errfunc[u]
            /\ cst[m+1].k # "resume" /\ cst[m+1].k # "pcall" /\ Len(ci'[t]) = h[m+1]
            /\ \A i \in m+1..N : cst[i].th = t
        BY <1>3, <1>4, <1>7, <3>1, <3>4
      <4> QED
        <5>1. Leaves(cst, N, m, h, ci, ci', nCcalls, nCcalls, errfunc, errfunc, t)
          BY <1>7, <1>8, <3>1, <3>3, <4>1 DEF Leaves
        <5> QED
          BY <1>3, <3>1, <3>4, <5>1, CoreLeave
    <3>6. Between(cst[m], "execute", h[m], Len(ci'[cst[m].th]))
      <4>1. Based(cst, h, N) /\ N-1 = m
        BY <1>3, <3>1 DEF Core, HeightsOK
      <4>2. Between(cst[m], "execute", h[m], h[N])
        BY <1>4, <2>1, <4>1 DEF Based
      <4> QED
        BY <2>3, <3>1, <4>2
    <3>7. cst'[m] = cst[m] /\ cst' # <<>> /\ ModeOK(cst', mode')
      <4>1. m \in 1..m
        BY <3>1
      <4>2. cst'[m] = cst[m]
        BY <3>2, <4>1
      <4>3. Len(cst') # 0
        BY <3>1, <3>2
      <4>4. cst' # <<>>
        BY <3>2, <4>3, StackFacts
      <4> QED
        BY <2>3, <3>1, <3>2, <4>2, <4>4 DEF ModeOK
    <3>8. VariablesOK'
      BY <1>5, <1>6, <1>7, <3>2 DEF VariablesOK
    <3>9. Between(cst[m], Next1(mode'), h[m], Len(ci'[cst[m].th]))
      BY <2>3, <3>6 DEF Next1
    <3>10. Core(cst, m, h, ci', nCcalls', baseCcalls', errfunc', status', holds')
      BY <1>6, <3>5
    <3>11. Sized(ci', size_ci') /\ created' = created
      BY <1>6, <1>10
    <3>12. mode' # "ret" \/ cst[m].k # "resume"
      BY <3>1
    <3> QED
      BY <1>3, <1>9, <3>1, <3>2, <3>7, <3>8, <3>9, <3>10, <3>11, <3>12, Left, SMTT(60)
  <2> QED
    BY <2>2, <2>4, <2>5
<1> QED
  BY <1>11, <1>12

\* luaD_call, luaD_pcall or luaG_errormsg ends without an error.
LEMMA ActivationEnds ==
  ASSUME CallsInv, NEW N, NEW h, Now(N, h), NEW m \in Nat, m + 1 = N, m > 0, NEW t, t = R,
         mode = "ret", cst[N].k \in {"call", "pcall", "handler"}, cst' = Front(cst),
         nCcalls' \in [Thread -> Nat], nCcalls'[t] = Depth(cst, m),
         errfunc' \in [Thread -> HandlerValues],
         \A u \in Thread : u # t => nCcalls'[u] = nCcalls[u] /\ errfunc'[u] = errfunc[u],
         cst[N].k = "pcall" => errfunc'[t] = cst[N].errfunc,
         cst[N].k # "pcall" => errfunc'[t] = errfunc[t],
         mode' = IF cst[N].k = "handler" THEN "ERRRUN"
                 ELSE IF cst[m].k \in {"pcall", "handler"} THEN "ret" ELSE "run",
         UNCHANGED <<ci, size_ci, baseCcalls, status, holds, created>>
  PROVE  CallsInv'
<1>1. /\ N = Len(cst) /\ N \in Nat /\ N > 0 /\ N \in 1..N /\ h \in Heights /\ t \in Thread
      /\ cst[N].th = t /\ Typed(cst, N, h, ci) /\ h[N] \in Nat /\ Len(ci[t]) \in Nat
      /\ Core(cst, N, h, ci, nCcalls, baseCcalls, errfunc, status, holds)
      /\ Between(cst[N], "execute", h[N], Len(ci[t]))
  BY NowFacts DEF Next1
<1>2. cst \in Stacks /\ VariablesOK /\ Sized(ci, size_ci)
  BY DEF CallsInv, VariablesOK
<1>3. m \in 1..N /\ m < N /\ N-1 = m /\ m \in 1..m
  BY <1>1
<1>4. Len(ci[t]) = h[N]
  BY <1>1 DEF Between
<1>5. /\ cst' \in Stacks /\ Len(cst') = m /\ \A i \in 1..m : cst'[i] = cst[i]
  BY <1>1, <1>2, <1>3, StackFront
<1>6. Follows(cst[m], cst[N])
  BY <1>1, <1>3 DEF Core, StackOK, Placed
<1>7. cst[m].k \in {"call", "execute", "pcall", "handler"} /\ cst[m].th = t
      /\ (cst[N].k \in {"pcall", "handler"} => cst[m].k \in {"call", "execute"})
  BY <1>1, <1>6 DEF Follows
<1>8. Core(cst, m, h, ci, nCcalls', baseCcalls, errfunc', status, holds)
  <2>1. /\ \A u \in Thread : u # t =>
               ci[u] = ci[u] /\ nCcalls'[u] = nCcalls[u] /\ errfunc'[u] = errfunc[u]
        /\ cst[m+1].k # "resume" /\ \A i \in m+1..N : cst[i].th = t
    BY <1>1
  <2>2. /\ Len(ci[t]) <= Len(ci[t]) /\ \A p \in 1..Len(ci[t]) : ci[t][p] = ci[t][p]
        /\ Len(ci[t]) = h[m+1]
    BY <1>1, <1>4
  <2>3. /\ cst[m+1].k = "pcall" => errfunc'[t] = cst[m+1].errfunc
        /\ cst[m+1].k # "pcall" => m+1 = N /\ errfunc'[t] = errfunc[t]
    OBVIOUS
  <2> QED
    <3>1. Leaves(cst, N, m, h, ci, ci, nCcalls, nCcalls', errfunc, errfunc', t)
      BY <1>3, <2>1, <2>2, <2>3 DEF Leaves
    <3> QED
      BY <1>1, <3>1, CoreLeave
<1>9. Between(cst[m], Next1(mode'), h[m], Len(ci'[cst[m].th]))
  <2>1. Based(cst, h, N)
    BY <1>1 DEF Core, HeightsOK
  <2>2. Between(cst[m], cst[N].k, h[m], h[N])
    BY <1>1, <1>3, <2>1 DEF Based
  <2>3. Between(cst[m], Next1(mode'), h[m], h[N])
    BY <1>7, <2>2 DEF Between, Next1
  <2> QED
    BY <1>4, <1>7, <2>3
<1>10. cst'[m] = cst[m] /\ cst' # <<>> /\ ModeOK(cst', mode') /\ (mode' # "ret" \/ cst[m].k # "resume")
  <2>1. cst'[m] = cst[m] /\ Len(cst') # 0
    BY <1>3, <1>5
  <2>2. cst' # <<>>
    BY <1>5, <2>1, StackFacts
  <2> QED
    BY <1>5, <1>7, <2>1, <2>2 DEF ModeOK, Errors
<1>11. VariablesOK'
  BY <1>2, <1>5 DEF VariablesOK
<1>12. Core(cst, m, h, ci', nCcalls', baseCcalls', errfunc', status', holds')
  BY <1>8
<1>13. Sized(ci', size_ci') /\ mode \notin Errors /\ created' = created
  BY <1>2 DEF Errors
<1> QED
  BY <1>1, <1>3, <1>5, <1>9, <1>10, <1>11, <1>12, <1>13, Left, SMTT(60)

\* Below any activation but the luaD_pcall of the engine there is another.
LEMMA SomeBelow ==
  ASSUME CallsInv, NEW N, N = Len(cst), cst # <<>>, cst[N] \notin EngineCalls
  PROVE  N \in Nat /\ N-1 \in Nat /\ N-1 > 0 /\ (N-1)+1 = N
<1>1. N \in Nat /\ N > 0 /\ cst[1] \in EngineCalls
  BY TopFacts
<1> QED
  BY <1>1

\* The end of luaD_call keeps it, back in any function or luaD_pcall.
LEMMA CallEnded ==
  ASSUME CallsInv, CallEnds
  PROVE  CallsInv'
<1>0. mode = "ret" /\ Last(cst).k = "call"
  BY DEF CallEnds
<1>1. cst # <<>>
  BY <1>0 DEF CallsInv, ModeOK
<1> DEFINE N == Len(cst)
<1>2. PICK h : Now(N, h)
  BY <1>0, <1>1, NowHolds
<1>3. Last(cst) = cst[N] /\ cst[N].k = "call"
  BY <1>0, <1>1, TopFacts
<1> HIDE DEF N
<1> PICK m : m = N-1
  OBVIOUS
<1>4. m \in Nat /\ m > 0 /\ m+1 = N
  <2>1. cst[N] \notin EngineCalls
    BY <1>3 DEF EngineCall, EngineCalls
  <2> QED
    BY <1>1, <2>1, SomeBelow DEF N
<1> PICK t : t = R
  OBVIOUS
<1>5. /\ N = Len(cst) /\ N \in Nat /\ N > 0 /\ t \in Thread /\ nCcalls[t] = Depth(cst, N)
  BY <1>2, NowFacts
<1>6. /\ nCcalls' = [nCcalls EXCEPT ![t] = @ - 1] /\ cst' = Front(cst)
      /\ mode' = IF cst' # <<>> /\ Last(cst').k \in {"pcall", "handler"} THEN "ret" ELSE "run"
      /\ UNCHANGED <<ci, size_ci, baseCcalls, status, errfunc, holds, created>>
  BY DEF CallEnds
<1>7. cst \in Stacks /\ nCcalls \in [Thread -> Nat] /\ errfunc \in [Thread -> HandlerValues]
  BY DEF CallsInv, VariablesOK
<1>8. Depth(cst, N) = Depth(cst, m) + 1 /\ Depth(cst, m) \in Nat
  BY <1>3, <1>4, DepthStep, DepthType
<1>9. /\ nCcalls' \in [Thread -> Nat] /\ nCcalls'[t] = Depth(cst, m)
      /\ \A u \in Thread : u # t => nCcalls'[u] = nCcalls[u]
  <2>1. nCcalls[t] - 1 = Depth(cst, m) /\ nCcalls[t] - 1 \in Nat
    BY <1>5, <1>8
  <2> QED
    BY <1>5, <1>6, <1>7, <2>1
<1>10. cst' # <<>> /\ Last(cst') = cst[m]
  <2>1. cst' \in Stacks /\ Len(cst') = N-1 /\ \A i \in 1..N-1 : cst'[i] = cst[i]
    BY <1>5, <1>6, <1>7, StackFront
  <2>2. Len(cst') = m /\ m # 0 /\ m \in 1..N-1
    BY <1>4, <1>5, <2>1
  <2>3. cst' # <<>>
    BY <2>1, <2>2, StackFacts
  <2> QED
    BY <2>1, <2>2, <2>3, StackFacts
<1>11. mode' = IF cst[N].k = "handler" THEN "ERRRUN"
               ELSE IF cst[m].k \in {"pcall", "handler"} THEN "ret" ELSE "run"
  BY <1>3, <1>6, <1>10
<1>12. /\ errfunc' \in [Thread -> HandlerValues] /\ errfunc'[t] = errfunc[t]
       /\ \A u \in Thread : u # t => nCcalls'[u] = nCcalls[u] /\ errfunc'[u] = errfunc[u]
  BY <1>6, <1>7, <1>9
<1> QED
  BY <1>0, <1>2, <1>3, <1>4, <1>6, <1>9, <1>11, <1>12, ActivationEnds, SMTT(60)

\* The return of a handler keeps it.
LEMMA HandlerEnded ==
  ASSUME CallsInv, HandlerEnds
  PROVE  CallsInv'
<1>0. mode = "ret" /\ Last(cst).k = "handler"
  BY DEF HandlerEnds
<1>1. cst # <<>>
  BY <1>0 DEF CallsInv, ModeOK
<1> DEFINE N == Len(cst)
<1>2. PICK h : Now(N, h)
  BY <1>0, <1>1, NowHolds
<1>3. Last(cst) = cst[N] /\ cst[N].k = "handler"
  BY <1>0, <1>1, TopFacts
<1> HIDE DEF N
<1> PICK m : m = N-1
  OBVIOUS
<1>4. m \in Nat /\ m > 0 /\ m+1 = N
  <2>1. cst[N] \notin EngineCalls
    BY <1>3 DEF EngineCall, EngineCalls
  <2> QED
    BY <1>1, <2>1, SomeBelow DEF N
<1> PICK t : t = R
  OBVIOUS
<1>5. /\ t \in Thread /\ nCcalls[t] = Depth(cst, N)
  BY <1>2, NowFacts
<1>6. /\ cst' = Front(cst) /\ mode' = "ERRRUN"
      /\ UNCHANGED <<ci, size_ci, baseCcalls, status, holds, created>>
      /\ nCcalls' = nCcalls /\ errfunc' = errfunc
  BY DEF HandlerEnds, thread
<1>7. nCcalls \in [Thread -> Nat] /\ errfunc \in [Thread -> HandlerValues]
  BY DEF CallsInv, VariablesOK
<1>8. nCcalls[t] = Depth(cst, m)
  BY <1>3, <1>4, <1>5, DepthStep
<1>9. mode' = IF cst[N].k = "handler" THEN "ERRRUN"
              ELSE IF cst[m].k \in {"pcall", "handler"} THEN "ret" ELSE "run"
  BY <1>3, <1>6
<1>10. /\ nCcalls' \in [Thread -> Nat] /\ nCcalls'[t] = Depth(cst, m)
       /\ errfunc' \in [Thread -> HandlerValues] /\ errfunc'[t] = errfunc[t]
       /\ \A u \in Thread : u # t => nCcalls'[u] = nCcalls[u] /\ errfunc'[u] = errfunc[u]
  BY <1>6, <1>7, <1>8
<1> QED
  BY <1>0, <1>2, <1>3, <1>4, <1>6, <1>9, <1>10, ActivationEnds, SMTT(60)

\* The end of a luaD_pcall without error keeps it, back in the event loop too.
LEMMA ProtectedCallEnded ==
  ASSUME CallsInv, PcallEnds
  PROVE  CallsInv'
<1>0. mode = "ret" /\ Last(cst).k = "pcall"
  BY DEF PcallEnds
<1>1. cst # <<>>
  BY <1>0 DEF CallsInv, ModeOK
<1> DEFINE N == Len(cst)
<1>2. PICK h : Now(N, h)
  BY <1>0, <1>1, NowHolds
<1>3. Last(cst) = cst[N] /\ cst[N].k = "pcall"
  BY <1>0, <1>1, TopFacts
<1> HIDE DEF N
<1> PICK m : m = N-1
  OBVIOUS
<1> PICK t : t = R
  OBVIOUS
<1>5. /\ t \in Thread /\ nCcalls[t] = Depth(cst, N) /\ N = Len(cst) /\ N \in Nat /\ N > 0
      /\ Typed(cst, N, h, ci) /\ N \in 1..N /\ cst[N].th = t /\ h \in Heights
      /\ Core(cst, N, h, ci, nCcalls, baseCcalls, errfunc, status, holds)
  BY <1>2, NowFacts
<1>4. m \in Nat /\ m+1 = N /\ m < N
  BY <1>5
<1>6. /\ cst' = Front(cst) /\ mode' = "run"
      /\ UNCHANGED <<ci, size_ci, baseCcalls, status, holds, created>>
      /\ nCcalls' = nCcalls /\ errfunc' = [errfunc EXCEPT ![t] = cst[N].errfunc]
  BY <1>3 DEF PcallEnds
<1>7. nCcalls \in [Thread -> Nat] /\ errfunc \in [Thread -> HandlerValues] /\ cst \in Stacks
      /\ VariablesOK /\ Sized(ci, size_ci)
  BY DEF CallsInv, VariablesOK
<1>8. nCcalls[t] = Depth(cst, m)
  BY <1>3, <1>4, <1>5, DepthStep
<1>9. cst[N].errfunc \in HandlerValues
  <2>1. cst[N] \in Activation
    BY <1>5, <1>7, StackFacts
  <2> QED
    BY <1>3, <2>1, ActivationFields
<1>10. /\ nCcalls' \in [Thread -> Nat] /\ nCcalls'[t] = Depth(cst, m)
       /\ errfunc' \in [Thread -> HandlerValues] /\ errfunc'[t] = cst[N].errfunc
       /\ \A u \in Thread : u # t => nCcalls'[u] = nCcalls[u] /\ errfunc'[u] = errfunc[u]
  BY <1>5, <1>6, <1>7, <1>8, <1>9
<1>11. CASE m > 0
  <2>1. cst[m].k \in {"call", "execute"}
    <3>1. Follows(cst[m], cst[N])
      <4>1. Placed(cst, N) /\ N > 1 /\ N-1 = m
        BY <1>4, <1>5, <1>11 DEF Core, StackOK
      <4> QED
        BY <4>1 DEF Placed
    <3> QED
      BY <1>3, <3>1 DEF Follows
  <2>2. mode' = IF cst[N].k = "handler" THEN "ERRRUN"
                ELSE IF cst[m].k \in {"pcall", "handler"} THEN "ret" ELSE "run"
    BY <1>3, <1>6, <2>1
  <2> QED
    BY <1>0, <1>2, <1>3, <1>4, <1>6, <1>10, <1>11, <2>2, ActivationEnds, SMTT(60)
<1>12. CASE m = 0
  <2>1. cst' = <<>>
    <3>1. N = 1
      BY <1>4, <1>12
    <3> QED
      BY <1>5, <1>6, <1>7, <3>1, StackFront
  <2>2. Core(cst, m, h, ci, nCcalls', baseCcalls, errfunc', status, holds)
    <3>1. /\ \A u \in Thread : u # t =>
                 ci[u] = ci[u] /\ nCcalls'[u] = nCcalls[u] /\ errfunc'[u] = errfunc[u]
          /\ cst[m+1].k # "resume" /\ \A i \in m+1..N : cst[i].th = t
      BY <1>3, <1>4, <1>5, <1>10
    <3>2. /\ Len(ci[t]) <= Len(ci[t]) /\ \A p \in 1..Len(ci[t]) : ci[t][p] = ci[t][p]
          /\ Len(ci[t]) = h[m+1]
      <4>1. Between(cst[N], "execute", h[N], Len(ci[t])) /\ Len(ci[t]) \in Nat
        BY <1>0, <1>2, NowFacts DEF Next1
      <4> QED
        BY <1>3, <1>4, <4>1 DEF Between
    <3>3. /\ cst[m+1].k = "pcall" => errfunc'[t] = cst[m+1].errfunc
          /\ cst[m+1].k # "pcall" => m+1 = N /\ errfunc'[t] = errfunc[t]
      BY <1>3, <1>4, <1>10
    <3> QED
      <4>1. Leaves(cst, N, m, h, ci, ci, nCcalls, nCcalls', errfunc, errfunc', t)
        BY <1>4, <1>10, <3>1, <3>2, <3>3 DEF Leaves
      <4> QED
        BY <1>4, <1>5, <4>1, CoreLeave
  <2>3. Core(cst, 0, h, ci', nCcalls', baseCcalls', errfunc', status', holds')
    BY <1>6, <1>12, <2>2
  <2>4. VariablesOK'
    <3>1. cst' \in Stacks
      BY <2>1 DEF Stacks
    <3> QED
      BY <1>6, <1>7, <1>10, <3>1 DEF VariablesOK
  <2> QED
    BY <1>5, <1>6, <1>7, <2>1, <2>3, <2>4, LeftEmpty
<1> QED
  BY <1>4, <1>11, <1>12

-------------------------------------------------------------------------------
(* Errors that are caught. *)

\* The setjmp that luaD_throw goes to: the innermost one of the whole C stack,
\* and of the running thread.
LEMMA ThrowTarget ==
  ASSUME CallsInv, mode \in Errors, NEW N, N = Len(cst)
  PROVE  \E i \in 1..N : /\ i \in errorJmp /\ i < N
                         /\ i = CHOOSE j \in errorJmp : \A l \in errorJmp : l <= j
                         /\ cst[i].k \in {"pcall", "resume"}
                         /\ \A l \in i..N : cst[l].th = R
                         /\ \A l \in i+1..N : ~Catches(cst[l])
<1>1. mode # "run" /\ mode # "ret"
  BY DEF Errors
<1>2. cst # <<>>
  BY <1>1 DEF CallsInv, ModeOK
<1>3. /\ N \in Nat /\ N > 0 /\ N \in 1..N /\ R = cst[N].th /\ cst[N].k \in {"call", "execute"}
      /\ StackOK(cst, N) /\ DOMAIN cst = 1..N
  <2>1. DOMAIN cst = 1..N
    BY DEF CallsInv, VariablesOK, Stacks
  <2> QED
    BY <1>1, <1>2, <2>1, TopFacts DEF CallsInv
<1>4. Placed(cst, N)
  BY <1>3 DEF StackOK
<1>5. PICK i \in 1..N : cst[i].th = R /\ Catches(cst[i]) /\ \A l \in i+1..N : ~Catches(cst[l])
  BY <1>3, <1>4 DEF Placed
<1>6. i \in errorJmp /\ \A l \in errorJmp : l <= i
  <2>1. i \in errorJmp
    BY <1>3, <1>5 DEF errorJmp, Catches
  <2>2. ASSUME NEW l \in errorJmp
        PROVE  l <= i
    <3>1. l \in 1..N /\ Catches(cst[l])
      BY <1>3 DEF errorJmp, Catches
    <3> QED
      BY <1>5, <3>1
  <2> QED
    BY <2>1, <2>2
<1>7. i = CHOOSE j \in errorJmp : \A l \in errorJmp : l <= j
  <2>1. \A j \in errorJmp : j \in Nat
    BY <1>3 DEF errorJmp
  <2> DEFINE c == CHOOSE j \in errorJmp : \A l \in errorJmp : l <= j
  <2>2. c \in errorJmp /\ \A l \in errorJmp : l <= c
    BY <1>6
  <2> HIDE DEF c
  <2>3. c <= i /\ i <= c /\ c \in Nat /\ i \in Nat
    BY <1>6, <2>1, <2>2
  <2>4. c = i
    BY <2>3
  <2> QED
    BY <2>4 DEF c
<1>8. \A l \in i..N : cst[l].th = R
  BY <1>3, <1>5, OneThread
<1>9. cst[i].k \in {"pcall", "resume"} /\ i < N
  BY <1>3, <1>5 DEF Catches
<1> QED
  BY <1>5, <1>6, <1>7, <1>8, <1>9

\* Frames cut back to the c lowest.
Cut(fr, t, c) == [fr EXCEPT ![t] = SubSeq(@, 1, c)]

\* The frames that luaD_pcall leaves after an error.
LEMMA FramesCut ==
  ASSUME NEW fr \in Frames, NEW gr, NEW t \in Thread, NEW c \in Nat, gr = Cut(fr, t, c),
         c <= Len(fr[t])
  PROVE  /\ gr \in Frames /\ Len(gr[t]) = c
         /\ \A p \in 1..Len(gr[t]) : gr[t][p] = fr[t][p]
         /\ \A u \in Thread : u # t => gr[u] = fr[u]
<1> DEFINE f == SubSeq(fr[t], 1, c)
<1>1. fr[t] \in Seq(Functions) /\ Len(fr[t]) \in Nat
  BY FramesFacts
<1>2. /\ f \in Seq(Functions) /\ Len(f) = c /\ \A p \in 1..c : f[p] = fr[t][p]
  BY <1>1
<1>3. gr = [fr EXCEPT ![t] = f]
  BY DEF Cut
<1> HIDE DEF f
<1>4. gr \in Frames /\ gr[t] = f /\ \A u \in Thread : u # t => gr[u] = fr[u]
  BY <1>2, <1>3 DEF Frames
<1> QED
  BY <1>2, <1>4

\* luaD_throw to a luaD_pcall keeps the invariant: what it restores is what
\* belongs to the C stack it returns to, however much was left.
LEMMA ErrorCaught ==
  ASSUME CallsInv, luaD_throw
  PROVE  CallsInv'
<1> DEFINE N == Len(cst)
<1>1. mode \in Errors /\ mode # "ret" /\ mode # "run" /\ mode' = "run"
  BY DEF luaD_throw, Errors
<1>2. cst # <<>>
  BY <1>1 DEF CallsInv, ModeOK
<1>3. PICK h : Now(N, h)
  BY <1>1, <1>2, NowHolds
<1> HIDE DEF N
<1> PICK t : t = R
  OBVIOUS
<1>4. PICK i \in 1..N : /\ i < N /\ i = CHOOSE j \in errorJmp : \A l \in errorJmp : l <= j
                        /\ \A l \in i..N : cst[l].th = t
                        /\ \A l \in i+1..N : ~Catches(cst[l])
  BY <1>1, ThrowTarget DEF N
<1> PICK a : a = cst[i]
  OBVIOUS
<1>5. /\ a.k = "pcall"
      /\ nCcalls' = [nCcalls EXCEPT ![t] = a.nCcalls]
      /\ ci' = Cut(ci, t, a.ci)
      /\ size_ci' = [size_ci EXCEPT ![t] = restore_stack_limit(size_ci[t], a.ci)]
      /\ errfunc' = [errfunc EXCEPT ![t] = a.errfunc]
      /\ cst' = SubSeq(cst, 1, i-1)
      /\ UNCHANGED <<baseCcalls, status, holds, created>>
  BY <1>4 DEF luaD_throw, Cut
<1>6. /\ N = Len(cst) /\ N \in Nat /\ N > 0 /\ N \in 1..N /\ h \in Heights /\ t \in Thread
      /\ cst[N].th = t /\ Typed(cst, N, h, ci) /\ Len(ci[t]) \in Nat
      /\ Core(cst, N, h, ci, nCcalls, baseCcalls, errfunc, status, holds)
  BY <1>3, NowFacts
<1>7. /\ cst \in Stacks /\ VariablesOK /\ Sized(ci, size_ci) /\ ci \in Frames
      /\ size_ci \in [Thread -> Nat] /\ nCcalls \in [Thread -> Nat]
      /\ errfunc \in [Thread -> HandlerValues]
  BY DEF CallsInv, VariablesOK
<1> PICK m : m = i-1
  OBVIOUS
<1>8. /\ m \in Nat /\ m+1 = i /\ i-1 = m /\ m < N /\ m \in 0..N /\ cst[i].th = t
      /\ i+1 \in 1..N /\ i+1 > 1 /\ (i+1)-1 = i /\ i \in i..N
      /\ \A l \in m+1..N : cst[l].th = t
  <2>1. i \in 1..N /\ i < N
    BY <1>4
  <2>2. /\ m \in Nat /\ m+1 = i /\ i-1 = m /\ m < N /\ m \in 0..N
        /\ i+1 \in 1..N /\ i+1 > 1 /\ (i+1)-1 = i /\ i \in i..N
    BY <1>6, <2>1
  <2>3. \A l \in i..N : cst[l].th = t
    BY <1>4
  <2> QED
    BY <2>2, <2>3
<1>9. /\ a.ci \in Nat /\ a.nCcalls \in Nat /\ a.errfunc \in HandlerValues
  <2>1. a \in Activation
    BY <1>6, <1>7, StackFacts
  <2> QED
    BY <1>5, <2>1, ActivationFields
<1>10. a.ci = h[i] /\ a.ci <= Len(ci[t]) /\ h[i] \in Nat
  <2>1. Based(cst, h, i)
    BY <1>6 DEF Core, HeightsOK
  <2>2. a.ci = h[i]
    BY <1>5, <2>1 DEF Based
  <2>3. h[i] + Width(cst[i]) <= Len(ci[cst[i].th])
    BY <1>6 DEF Core, LoopsOK, LoopFrames
  <2>4. h[i] \in Nat /\ Width(cst[i]) = 0
    BY <1>5, <1>9, <2>2 DEF Width
  <2> QED
    BY <1>8, <2>2, <2>3, <2>4
<1>11. /\ ci' \in Frames /\ Len(ci'[t]) = a.ci
       /\ \A p \in 1..Len(ci'[t]) : ci'[t][p] = ci[t][p]
       /\ \A u \in Thread : u # t => ci'[u] = ci[u]
  <2> PICK c : c = a.ci
    OBVIOUS
  <2>1. c \in Nat /\ ci' = Cut(ci, t, c) /\ c <= Len(ci[t]) /\ ci \in Frames
    BY <1>5, <1>7, <1>9, <1>10
  <2>2. PICK gr : gr = ci'
    OBVIOUS
  <2>3. /\ gr \in Frames /\ Len(gr[t]) = c
        /\ \A p \in 1..Len(gr[t]) : gr[t][p] = ci[t][p]
        /\ \A u \in Thread : u # t => gr[u] = ci[u]
    <3>1. gr = Cut(ci, t, c) /\ c \in Nat /\ c <= Len(ci[t]) /\ ci \in Frames /\ t \in Thread
      BY <1>6, <2>1, <2>2
    <3> QED
      BY <3>1, FramesCut
  <2> QED
    BY <2>2, <2>3
<1>12. /\ nCcalls' \in [Thread -> Nat] /\ nCcalls'[t] = Depth(cst, m)
       /\ \A u \in Thread : u # t => nCcalls'[u] = nCcalls[u]
  <2>1. Placed(cst, i)
    BY <1>6 DEF Core, StackOK
  <2>2. a.nCcalls = Depth(cst, m+1)
    BY <1>5, <1>8, <2>1 DEF Placed
  <2>3. Depth(cst, m+1) = Depth(cst, m)
    BY <1>5, <1>8, DepthStep
  <2> QED
    BY <1>5, <1>6, <1>7, <1>9, <2>2, <2>3
<1>13. /\ errfunc' \in [Thread -> HandlerValues] /\ errfunc'[t] = a.errfunc
       /\ \A u \in Thread : u # t => errfunc'[u] = errfunc[u]
  BY <1>5, <1>6, <1>7, <1>9
<1>14. size_ci' \in [Thread -> Nat] /\ Sized(ci', size_ci')
  <2> DEFINE r == restore_stack_limit(size_ci[t], a.ci)
  <2>1. /\ size_ci[t] \in Nat /\ Len(ci[t]) < size_ci[t] /\ size_ci[t] <= 2 * MaxCalls
        /\ BasicCI <= size_ci[t] /\ MaxCalls \in Nat /\ BasicCI \in Nat /\ BasicCI <= MaxCalls
    BY <1>6, <1>7, LimitAssumption DEF Sized
  <2>2. r \in Nat /\ a.ci < r /\ r <= 2 * MaxCalls /\ BasicCI <= r
    <3>1. CASE size_ci[t] > MaxCalls /\ a.ci + 1 < MaxCalls
      <4>1. r = MaxCalls
        BY <3>1 DEF restore_stack_limit
      <4> QED
        BY <1>9, <2>1, <3>1, <4>1
    <3>2. CASE ~(size_ci[t] > MaxCalls /\ a.ci + 1 < MaxCalls)
      <4>1. r = size_ci[t]
        BY <3>2 DEF restore_stack_limit
      <4> QED
        BY <1>6, <1>9, <1>10, <2>1, <4>1
    <3> QED
      BY <3>1, <3>2
  <2>3. size_ci' = [size_ci EXCEPT ![t] = r]
    BY <1>5
  <2> HIDE DEF r
  <2>4. size_ci' \in [Thread -> Nat] /\ size_ci'[t] = r /\ \A u \in Thread : u # t => size_ci'[u] = size_ci[u]
    BY <1>6, <1>7, <2>2, <2>3
  <2>5. ASSUME NEW u \in Thread
        PROVE  Len(ci'[u]) < size_ci'[u] /\ size_ci'[u] <= 2 * MaxCalls /\ BasicCI <= size_ci'[u]
    <3>1. CASE u = t
      BY <1>11, <2>2, <2>4, <3>1
    <3>2. CASE u # t
      BY <1>7, <1>11, <2>4, <3>2 DEF Sized
    <3> QED
      BY <3>1, <3>2
  <2> QED
    BY <2>4, <2>5 DEF Sized
<1>15. Core(cst, m, h, ci', nCcalls', baseCcalls, errfunc', status, holds)
  <2>1. Leaves(cst, N, m, h, ci, ci', nCcalls, nCcalls', errfunc, errfunc', t)
    <3>1. /\ cst[m+1].k = "pcall" /\ errfunc'[t] = cst[m+1].errfunc /\ Len(ci'[t]) = h[m+1]
          /\ Len(ci'[t]) <= Len(ci[t])
      BY <1>5, <1>8, <1>10, <1>11, <1>13
    <3> QED
      BY <1>8, <1>11, <1>12, <1>13, <3>1 DEF Leaves
  <2>2. Typed(cst, N, h, ci')
    BY <1>6, <1>11 DEF Typed
  <2> QED
    BY <1>6, <1>8, <2>1, <2>2, CoreLeave
<1>16. /\ cst' \in Stacks /\ Len(cst') = m /\ \A l \in 1..m : cst'[l] = cst[l]
       /\ cst' = <<>> <=> m = 0
  <2>1. cst' = SubSeq(cst, 1, m) /\ m \in 0..Len(cst)
    BY <1>5, <1>6, <1>8
  <2> QED
    BY <1>7, <2>1, StackPrefix
<1>17. VariablesOK'
  BY <1>5, <1>7, <1>11, <1>12, <1>13, <1>14, <1>16 DEF VariablesOK
<1>18. Core(cst, m, h, ci', nCcalls', baseCcalls', errfunc', status', holds')
  BY <1>5, <1>15
<1>19. CASE m = 0
  <2>1. cst' = <<>> /\ Core(cst, 0, h, ci', nCcalls', baseCcalls', errfunc', status', holds')
    BY <1>16, <1>18, <1>19
  <2> QED
    BY <1>1, <1>5, <1>6, <1>14, <1>17, <2>1, LeftEmpty
<1>20. CASE m > 0
  <2>1. cst[m].k \in {"call", "execute"} /\ cst[m].th = t
    <3>1. Placed(cst, i) /\ i > 1
      BY <1>6, <1>8, <1>20 DEF Core, StackOK
    <3>2. Follows(cst[m], cst[i])
      BY <1>8, <3>1 DEF Placed
    <3> QED
      BY <1>5, <1>8, <3>2 DEF Follows
  <2>2. Between(cst[m], Next1(mode'), h[m], Len(ci'[cst[m].th]))
    <3>1. Based(cst, h, i)
      BY <1>6 DEF Core, HeightsOK
    <3>2. Between(cst[m], "pcall", h[m], h[i])
      BY <1>5, <1>8, <1>20, <3>1 DEF Based
    <3>3. Between(cst[m], "call", h[m], h[i])
      BY <2>1, <3>2 DEF Between
    <3> QED
      BY <1>1, <1>10, <1>11, <2>1, <3>3 DEF Next1
  <2>3. Depth(cst, m) < Depth(cst, N)
    <3>1. cst[i+1].k = "call"
      <4>1. i+1 \in 1..N /\ i+1 > 1 /\ (i+1)-1 = i
        BY <1>8
      <4>2. Placed(cst, i+1)
        BY <1>6, <4>1 DEF Core, StackOK
      <4>3. Follows(cst[i], cst[i+1])
        BY <4>1, <4>2 DEF Placed
      <4> QED
        BY <1>5, <4>3 DEF Follows
    <3>2. i+1 \in m+1..N /\ m <= N
      BY <1>4, <1>6, <1>8
    <3> QED
      BY <1>6, <1>8, <3>1, <3>2, DepthGrows
  <2>4. ModeOK(cst', mode') /\ (mode' # "ret" \/ cst[m].k # "resume")
    <3>1. m \in 1..m
      BY <1>8, <1>20
    <3>2. cst'[Len(cst')] = cst[m] /\ cst' # <<>>
      BY <1>16, <1>20, <3>1
    <3> QED
      BY <1>1, <2>1, <3>2 DEF ModeOK
  <2>5. created' = created /\ N = Len(cst)
    BY <1>5, <1>6
  <2> QED
    BY <1>6, <1>8, <1>14, <1>16, <1>17, <1>18, <1>20, <2>2, <2>3, <2>4, <2>5, Left, SMTT(60)
<1> QED
  BY <1>8, <1>19, <1>20

\* luaD_throw to a lua_resume keeps it, with the dead coroutine's frames.
LEMMA CoroutineFailed ==
  ASSUME CallsInv, ThrowToResume
  PROVE  CallsInv'
<1> DEFINE N == Len(cst)
<1>1. mode \in Errors /\ mode # "ret" /\ mode # "run" /\ mode' = "run" /\ mode # "OK" /\ mode # "YIELD"
  BY DEF ThrowToResume, Errors
<1>2. cst # <<>>
  BY <1>1 DEF CallsInv, ModeOK
<1>3. PICK h : Now(N, h)
  BY <1>1, <1>2, NowHolds
<1> HIDE DEF N
<1> PICK t : t = R
  OBVIOUS
<1>4. PICK i \in 1..N : /\ i < N /\ i = CHOOSE j \in errorJmp : \A l \in errorJmp : l <= j
                        /\ \A l \in i..N : cst[l].th = t
                        /\ \A l \in i+1..N : ~Catches(cst[l])
  BY <1>1, ThrowTarget DEF N
<1>5. /\ cst[i].k = "resume" /\ cst' = SubSeq(cst, 1, i-1)
      /\ status' = [status EXCEPT ![t] = mode]
      /\ nCcalls' = [nCcalls EXCEPT ![t] = @ - 1]
      /\ UNCHANGED <<ci, size_ci, baseCcalls, errfunc, holds, created>>
  BY <1>4 DEF ThrowToResume
<1>6. /\ N = Len(cst) /\ N \in Nat /\ N > 0 /\ N \in 1..N /\ h \in Heights /\ t \in Thread
      /\ cst[N].th = t /\ Typed(cst, N, h, ci) /\ Len(ci[t]) \in Nat
      /\ Core(cst, N, h, ci, nCcalls, baseCcalls, errfunc, status, holds)
      /\ nCcalls[t] = Depth(cst, N)
  BY <1>3, NowFacts
<1>7. /\ cst \in Stacks /\ VariablesOK /\ Sized(ci, size_ci) /\ nCcalls \in [Thread -> Nat]
      /\ status \in [Thread -> {"OK", "YIELD"} \union Errors]
  BY DEF CallsInv, VariablesOK
<1> PICK m : m = i-1
  OBVIOUS
<1>8. /\ m \in Nat /\ m > 0 /\ m+1 = i /\ i-1 = m /\ m < N /\ m \in 0..N /\ cst[i].th = t
      /\ \A l \in m+1..N : cst[l].th = t
  <2>1. i # 1
    <3>1. cst[1] \in EngineCalls
      BY <1>2, TopFacts
    <3> QED
      BY <1>5, <3>1 DEF EngineCall, EngineCalls
  <2>2. i \in 1..N /\ i < N
    BY <1>4
  <2>3. /\ m \in Nat /\ m > 0 /\ m+1 = i /\ i-1 = m /\ m < N /\ m \in 0..N /\ i \in i..N
    BY <1>6, <2>1, <2>2
  <2>4. \A l \in i..N : cst[l].th = t
    BY <1>4
  <2> QED
    BY <2>3, <2>4
<1>9. Depth(cst, m) < Depth(cst, N) /\ Depth(cst, m) \in Nat /\ Depth(cst, N) \in Nat
  <2>1. i \in m+1..N /\ m <= N
    BY <1>4, <1>6, <1>8
  <2> QED
    BY <1>5, <1>6, <1>8, <2>1, DepthGrows, DepthType
<1>10. /\ nCcalls' \in [Thread -> Nat] /\ \A u \in Thread : u # t => nCcalls'[u] = nCcalls[u]
  <2>1. nCcalls[t] - 1 \in Nat
    BY <1>6, <1>9
  <2> QED
    BY <1>5, <1>6, <1>7, <2>1
<1>11. /\ status' \in [Thread -> {"OK", "YIELD"} \union Errors] /\ status'[t] = mode
       /\ \A u \in Thread : u # t => status'[u] = status[u]
  BY <1>1, <1>5, <1>6, <1>7
<1>12. Core(cst, m, h, ci, nCcalls', baseCcalls, errfunc, status', holds)
  <2>1. HandlerAt(cst, t, m, errfunc[t])
    <3>1. HandlerAt(cst, t, N, errfunc[t])
      BY <1>6 DEF Core, HandledOK
    <3>2. \A j \in m+1..N : ~Protects(cst[j], t)
      <4>1. ~Protects(cst[i], t)
        BY <1>5 DEF Protects
      <4>2. \A j \in i+1..N : ~Protects(cst[j], t)
        BY <1>4 DEF Protects, Catches
      <4>3. \A j \in m+1..N : j = i \/ j \in i+1..N
        BY <1>6, <1>8
      <4> QED
        BY <4>1, <4>2, <4>3
    <3> QED
      BY <1>6, <1>8, <3>1, <3>2, HandlerBelow
  <2>2. h[m+1] = 0
    <3>1. Based(cst, h, i)
      BY <1>6 DEF Core, HeightsOK
    <3> QED
      BY <1>5, <1>8, <3>1 DEF Based
  <2>3. /\ \A l \in m+1..N : cst[l].th = cst[N].th
        /\ \A u \in Thread : u # cst[N].th =>
              ci[u] = ci[u] /\ nCcalls'[u] = nCcalls[u] /\ errfunc[u] = errfunc[u]
              /\ status'[u] = status[u]
        /\ Len(ci[cst[N].th]) <= Len(ci[cst[N].th])
        /\ \A p \in 1..Len(ci[cst[N].th]) : ci[cst[N].th][p] = ci[cst[N].th][p]
        /\ h[m+1] <= Len(ci[cst[N].th])
    BY <1>6, <1>8, <1>10, <1>11, <2>2, SMTT(60)
  <2>4. /\ status'[cst[N].th] # "OK" /\ status'[cst[N].th] # "YIELD" /\ cst[m+1].k = "resume"
        /\ HandlerAt(cst, cst[N].th, m, errfunc[cst[N].th])
    BY <1>1, <1>5, <1>6, <1>8, <1>11, <2>1
  <2>5. Main \notin Coroutine /\ m < N
    BY <1>8, LimitAssumption
  <2> QED
    BY <1>6, <1>8, <2>3, <2>4, <2>5, CorePop, SMTT(60)
<1>13. /\ cst' \in Stacks /\ Len(cst') = m /\ (\A l \in 1..m : cst'[l] = cst[l]) /\ cst' # <<>>
       /\ cst'[m] = cst[m]
  <2>1. cst' = SubSeq(cst, 1, m) /\ m \in 0..Len(cst)
    BY <1>5, <1>6, <1>8
  <2>2. m \in 1..m /\ m # 0
    BY <1>8
  <2> QED
    BY <1>7, <2>1, <2>2, StackPrefix
<1>14. cst[m].k \in {"call", "execute"}
  <2>1. Placed(cst, i) /\ i > 1
    BY <1>6, <1>8 DEF Core, StackOK
  <2>2. Follows(cst[m], cst[i])
    BY <1>8, <2>1 DEF Placed
  <2> QED
    BY <1>5, <2>2 DEF Follows
<1>15. Between(cst[m], Next1(mode'), h[m], Len(ci'[cst[m].th]))
  <2>1. i \in 2..N
    BY <1>6, <1>8
  <2>2. Between(cst[m], "resume", h[m], Len(ci[cst[m].th]))
    BY <1>5, <1>6, <1>8, <2>1 DEF Core, WaitOK
  <2>3. Between(cst[m], "call", h[m], Len(ci[cst[m].th]))
    BY <1>14, <2>2 DEF Between
  <2> QED
    BY <1>1, <1>5, <2>3 DEF Next1
<1>16. ModeOK(cst', mode') /\ (mode' # "ret" \/ cst[m].k # "resume")
  BY <1>1, <1>13, <1>14 DEF ModeOK
<1>17. VariablesOK'
  BY <1>5, <1>7, <1>10, <1>11, <1>13 DEF VariablesOK
<1>18. Core(cst, m, h, ci', nCcalls', baseCcalls', errfunc', status', holds')
       /\ Sized(ci', size_ci') /\ created' = created
  BY <1>5, <1>7, <1>12
<1> QED
  BY <1>6, <1>8, <1>9, <1>13, <1>15, <1>16, <1>17, <1>18, Left, SMTT(60)

-------------------------------------------------------------------------------
(* Coroutines. *)

\* What changes belongs to a coroutine without an activation.
LEMMA IdleChanged ==
  ASSUME CallsInv, NEW co \in Coroutine, cst # <<>>, mode = "run", mode' = mode,
         \A i \in 1..Len(cst) : cst[i].th # co,
         UNCHANGED <<ci, size_ci, baseCcalls, status, errfunc, cst>>,
         created \subseteq created', created' \subseteq Coroutine,
         nCcalls' \in [Thread -> Nat], holds' \in [Thread -> BOOLEAN],
         \A u \in Thread : u # co => nCcalls'[u] = nCcalls[u] /\ holds'[u] = holds[u]
  PROVE  CallsInv'
<1> DEFINE N == Len(cst)
<1>1. mode # "ret" /\ mode \notin Errors
  BY DEF Errors
<1>2. PICK h : Now(N, h)
  BY <1>1, NowHolds
<1> HIDE DEF N
<1>3. /\ N = Len(cst) /\ N \in Nat /\ N > 0 /\ N \in 1..N /\ h \in Heights /\ R \in Thread
      /\ R = cst[N].th /\ Typed(cst, N, h, ci)
      /\ Core(cst, N, h, ci, nCcalls, baseCcalls, errfunc, status, holds)
      /\ Between(cst[N], "call", h[N], Len(ci[R])) /\ Next1(mode) = "call"
  BY <1>2, NowFacts DEF Next1
<1>4. co # Main
  BY LimitAssumption
<1>5. Core(cst, N, h, ci, nCcalls', baseCcalls, errfunc, status, holds')
  <2>1. \A i \in 1..N : cst[i].th # co
    BY <1>3
  <2>2. Idle(cst, N, nCcalls, nCcalls', holds, holds', co)
    BY <1>4, <2>1 DEF Idle
  <2> QED
    BY <1>3, <2>2, CoreIdle
<1>6. cst' = cst /\ ci' = ci /\ size_ci' = size_ci
  OBVIOUS
<1>7. VariablesOK' /\ Sized(ci', size_ci')
  BY <1>6 DEF CallsInv, VariablesOK
<1>8. Created(cst', created')
  BY <1>6 DEF CallsInv, Created
<1>9. ModeOK(cst', mode') /\ cst' # <<>> /\ mode' # "ret" /\ mode' = "run"
  BY <1>1, <1>6 DEF CallsInv
<1>10. nCcalls'[cst'[N].th] < MaxCCalls + ExtraCCalls /\ nCcalls'[cst'[N].th] <= MaxCCalls + ExtraCCalls
  <2>1. nCcalls[R] < MaxCCalls + ExtraCCalls /\ nCcalls[R] <= MaxCCalls + ExtraCCalls
    BY <1>1, <1>3, Room DEF CallsInv, TopOK
  <2>2. cst'[N].th = R /\ R # co
    BY <1>3, <1>6
  <2> QED
    BY <1>3, <2>1, <2>2
<1>11. /\ N = Len(cst')
       /\ Core(cst', N, h, ci', nCcalls', baseCcalls', errfunc', status', holds')
       /\ Between(cst'[N], "call", h[N], Len(ci'[cst'[N].th]))
  BY <1>3, <1>5, <1>6
<1> QED
  BY <1>3, <1>7, <1>8, <1>9, <1>10, <1>11, Assemble

\* coroutine.create keeps it.
LEMMA CoroutineCreated ==
  ASSUME CallsInv, NEW co \in Coroutine, luaB_cocreate(co)
  PROVE  CallsInv'
<1>1. /\ mode = "run" /\ cst # <<>> /\ co \notin created /\ created' = created \union {co}
      /\ holds' = [holds EXCEPT ![co] = TRUE]
      /\ UNCHANGED <<ci, size_ci, nCcalls, baseCcalls, status, errfunc, cst, mode>>
  BY DEF luaB_cocreate, Running
<1>2. \A i \in 1..Len(cst) : cst[i].th # co
  BY <1>1, LimitAssumption DEF CallsInv, Created
<1>3. created \subseteq created' /\ created' \subseteq Coroutine
  BY <1>1 DEF CallsInv, Created
<1>4. nCcalls' \in [Thread -> Nat] /\ holds' \in [Thread -> BOOLEAN]
      /\ \A u \in Thread : u # co => nCcalls'[u] = nCcalls[u] /\ holds'[u] = holds[u]
  BY <1>1 DEF CallsInv, VariablesOK
<1> QED
  BY <1>1, <1>2, <1>3, <1>4, IdleChanged

\* A suspended coroutine has no activation.
LEMMA Asleep ==
  ASSUME CallsInv, mode = "run", cst # <<>>, NEW co \in Coroutine, costatus(R, co) = "suspended"
  PROVE  /\ \A i \in 1..Len(cst) : cst[i].th # co
         /\ status[co] = "YIELD" => Suspended(ci[co])
         /\ status[co] # "YIELD" => ci[co] = <<>>
<1>1. mode # "ret" /\ co \in Thread
  BY DEF Thread
<1> DEFINE N == Len(cst)
<1>2. PICK h : Now(N, h)
  BY <1>1, NowHolds
<1>3. StatusOK(cst, N, ci, status, holds)
  BY <1>2, NowFacts DEF Core
<1>4. \/ status[co] = "YIELD"
      \/ status[co] = "OK" /\ ci[co] = <<>> /\ holds[co]
  BY DEF costatus
<1>5. \A i \in 1..N : status[cst[i].th] = "OK" /\ (cst[i].th \in Coroutine => ~holds[cst[i].th])
  BY <1>3 DEF StatusOK
<1>6. \A i \in 1..N : cst[i].th # co
  BY <1>4, <1>5
<1> QED
  BY <1>1, <1>3, <1>4, <1>6 DEF StatusOK

\* A lua_resume on a C stack that is too deep keeps it.
LEMMA ResumeRefused ==
  ASSUME CallsInv, NEW co \in Coroutine, mode = "run", cst # <<>>, costatus(R, co) = "suspended",
         nCcalls' = [nCcalls EXCEPT ![co] = nCcalls[R]],
         holds' = [holds EXCEPT ![co] = FALSE],
         UNCHANGED <<ci, size_ci, baseCcalls, status, errfunc, created, cst, mode>>
  PROVE  CallsInv'
<1>1. \A i \in 1..Len(cst) : cst[i].th # co
  BY Asleep
<1>2. created \subseteq created' /\ created' \subseteq Coroutine
  BY DEF CallsInv, Created
<1>3. R \in Thread
  BY TopFacts
<1>4. nCcalls' \in [Thread -> Nat] /\ holds' \in [Thread -> BOOLEAN]
      /\ \A u \in Thread : u # co => nCcalls'[u] = nCcalls[u] /\ holds'[u] = holds[u]
  BY <1>3 DEF CallsInv, VariablesOK
<1> QED
  BY <1>1, <1>2, <1>4, IdleChanged

\* The values of a coroutine are given to the caller.
LEMMA ResumeReturned ==
  ASSUME CallsInv, ResumeEnds
  PROVE  CallsInv'
<1>1. mode = "ret" /\ Last(cst).k = "resume"
  BY DEF ResumeEnds
<1>2. cst # <<>>
  BY <1>1 DEF CallsInv, ModeOK
<1> PICK N : N = Len(cst)
  OBVIOUS
<1> PICK t : t = R
  OBVIOUS
<1>3. /\ N \in Nat /\ N > 0 /\ N \in 1..N /\ cst[N].k = "resume" /\ t = cst[N].th /\ t \in Thread
      /\ cst[1] \in EngineCalls /\ nCcalls[t] = Depth(cst, N)
  BY <1>1, <1>2, TopFacts
<1> PICK m : m = N-1
  OBVIOUS
<1>4. N # 1
  BY <1>3 DEF EngineCall, EngineCalls
<1>5. m \in Nat /\ m > 0 /\ m < N /\ m+1 = N /\ N-1 = m /\ m \in 0..N /\ m \in 1..m /\ m <= N
  BY <1>3, <1>4
<1>6. /\ cst' = Front(cst) /\ nCcalls' = [nCcalls EXCEPT ![t] = @ - 1] /\ mode' \in {"run", "error"}
      /\ \E v \in BOOLEAN : holds' = [holds EXCEPT ![t] = v]
      /\ UNCHANGED <<ci, size_ci, baseCcalls, status, errfunc, created>>
  BY DEF ResumeEnds
<1>7. /\ cst \in Stacks /\ VariablesOK /\ Sized(ci, size_ci) /\ StackOK(cst, N)
      /\ nCcalls \in [Thread -> Nat] /\ holds \in [Thread -> BOOLEAN]
  BY DEF CallsInv, VariablesOK
<1>8. Live(cst, mode) = m /\ Ahead(cst, mode) = "resume"
  BY <1>1, <1>2, <1>3, <1>5 DEF Live, Ahead, Returned
<1>9. PICK h \in Heights :
         Framed(cst, mode, h, ci, nCcalls, baseCcalls, errfunc, status, holds)
  BY DEF CallsInv
<1>10. /\ Core(cst, m, h, ci, nCcalls, baseCcalls, errfunc, status, holds)
       /\ Between(cst[m], "resume", h[m], Len(ci[cst[m].th]))
  BY <1>5, <1>8, <1>9 DEF Framed
<1>11. /\ t \in Coroutine /\ t # Main /\ cst[m].k \in {"call", "execute"}
       /\ \A i \in 1..m : cst[i].th # t
  <2>1. Placed(cst, N) /\ N > 1
    BY <1>3, <1>4, <1>7 DEF StackOK
  <2>2. Follows(cst[m], cst[N])
    BY <1>5, <2>1 DEF Placed
  <2>3. \A i \in 1..m : cst[i].th # t
    BY <1>3, <1>5, <2>1 DEF Placed
  <2> QED
    BY <1>3, <2>2, <2>3, LimitAssumption DEF Follows
<1>12. Depth(cst, N) = Depth(cst, m) + 1 /\ Depth(cst, m) \in Nat /\ Depth(cst, m) < Depth(cst, N)
  <2>1. Depth(cst, m+1) = Depth(cst, m) + 1 /\ Depth(cst, m) \in Nat
    BY <1>3, <1>5, DepthStep, DepthType
  <2> QED
    BY <1>5, <2>1
<1>13. /\ nCcalls' \in [Thread -> Nat] /\ holds' \in [Thread -> BOOLEAN]
       /\ \A u \in Thread : u # t => nCcalls'[u] = nCcalls[u] /\ holds'[u] = holds[u]
  <2>1. nCcalls[t] - 1 \in Nat
    BY <1>3, <1>12
  <2> QED
    BY <1>3, <1>6, <1>7, <2>1
<1>14. Core(cst, m, h, ci, nCcalls', baseCcalls, errfunc, status, holds')
  <2>1. Typed(cst, m, h, ci)
    <3>1. m \in 0..Len(cst)
      BY <1>5
    <3> QED
      BY <1>7, <3>1, ThreadsTyped
  <2> QED
    <3>1. Idle(cst, m, nCcalls, nCcalls', holds, holds', t)
      BY <1>11, <1>13 DEF Idle
    <3> QED
      BY <1>5, <1>10, <2>1, <3>1, CoreIdle
<1>15. /\ cst' \in Stacks /\ Len(cst') = m /\ (\A l \in 1..m : cst'[l] = cst[l]) /\ cst' # <<>>
       /\ cst'[m] = cst[m]
  <2>1. /\ cst' \in Stacks /\ Len(cst') = N-1 /\ \A l \in 1..N-1 : cst'[l] = cst[l]
    BY <1>3, <1>6, <1>7, StackFront
  <2>2. Len(cst') # 0
    BY <1>5, <2>1
  <2> QED
    BY <1>5, <2>1, <2>2, StackFacts
<1>16. Between(cst[m], Next1(mode'), h[m], Len(ci'[cst[m].th]))
  <2>1. Next1(mode') \in {"call", "handler"}
    BY <1>6 DEF Next1
  <2>2. \A c : Between(cst[m], "resume", h[m], c) => Between(cst[m], Next1(mode'), h[m], c)
    BY <1>11, <2>1 DEF Between
  <2> QED
    BY <1>6, <1>10, <2>2
<1>17. ModeOK(cst', mode') /\ (mode' # "ret" \/ cst[m].k # "resume")
  BY <1>6, <1>11, <1>15 DEF ModeOK
<1>18. VariablesOK'
  BY <1>6, <1>7, <1>13, <1>15 DEF VariablesOK
<1>19. Core(cst, m, h, ci', nCcalls', baseCcalls', errfunc', status', holds')
       /\ Sized(ci', size_ci') /\ created' = created /\ mode \notin Errors
  BY <1>1, <1>6, <1>7, <1>14 DEF Errors
<1> QED
  BY <1>5, <1>9, <1>12, <1>15, <1>16, <1>17, <1>18, <1>19, Left, SMTT(60)

\* The loop of a coroutine that runs the frames of Lua functions it has.
LEMMA CoreRunning ==
  ASSUME NEW s, NEW m \in Nat, NEW h, NEW fr, NEW gr, NEW nc, NEW bc, NEW ef, NEW st, NEW ho,
         NEW co, m > 0, Typed(s, m+1, h, fr), Typed(s, m+1, h, gr),
         s[m].k = "resume", s[m].th = co, s[m+1] = Execute(co, Len(gr[co])),
         h[m] = 0, h[m+1] = 0, \A u \in Thread : u # co => gr[u] = fr[u],
         \A p \in 1..Len(gr[co]) : gr[co][p] = "lua",
         Core(s, m, h, fr, nc, bc, ef, st, ho)
  PROVE  Core(s, m+1, h, gr, nc, bc, ef, st, ho)
<1>1. /\ s[m+1].k = "execute" /\ s[m+1].th = co /\ s[m+1].n = Len(gr[co])
      /\ Width(s[m+1]) = Len(gr[co])
  BY DEF Execute, Width
<1>0. m+1 \in Nat /\ m+1 \in 1..m+1
  OBVIOUS
<1>2. co \in Thread /\ Len(gr[co]) \in Nat
  <2>1. co \in Thread
    BY <1>0, <1>1, Fields
  <2> QED
    BY <1>0, <2>1, Fields
<1>3. Follows(s[m], s[m+1]) /\ Between(s[m], s[m+1].k, h[m], h[m+1])
  BY <1>1 DEF Follows, Between
<1>4. nc[co] = Depth(s, m+1)
  <2>1. nc[co] = Depth(s, m)
    BY DEF Core, CountedOK
  <2> QED
    BY <1>1, <2>1, DepthStep
<1>5. LoopFrames(s, m+1, h, co, gr[co])
  <2>1. ASSUME NEW p \in 1..Len(gr[co])
        PROVE  InLoop(s, m+1, h, co, p)
    <3>1. h[m+1] < p /\ p <= h[m+1] + s[m+1].n
      BY <1>1, <1>2
    <3> QED
      BY <1>0, <1>1, <3>1 DEF InLoop
  <2> QED
    BY <2>1 DEF LoopFrames
<1>6. /\ s[m+1].th = s[m].th /\ s[m+1].k # "resume" /\ s[m+1].k # "pcall"
      /\ s[m+1].k = "execute"
      /\ nc[s[m].th] = Depth(s, m+1) /\ h[m+1] + Width(s[m+1]) <= Len(gr[s[m].th])
      /\ LoopFrames(s, m+1, h, s[m].th, gr[s[m].th])
      /\ \A u \in Thread : u # s[m].th => gr[u] = fr[u]
  BY <1>1, <1>2, <1>4, <1>5
<1> QED
  <2>1. Enters(s, m, h, fr, gr, nc, nc, ef, ef)
    BY <1>3, <1>6 DEF Enters
  <2> QED
    BY <2>1, CorePush

\* The frames a resumed coroutine goes on with.
Continues(fr, co, yielded) ==
  IF yielded THEN [fr EXCEPT ![co] = Shrunk(fr[co])] ELSE [fr EXCEPT ![co] = Grown(fr[co], "lua")]

\* The indices of a sequence of length one.
LEMMA OneIndex == 1..1 = {1}
OBVIOUS

\* A resumed coroutine has Lua frames only.
LEMMA ContinuesFacts ==
  ASSUME NEW fr \in Frames, NEW co \in Thread, NEW y, NEW gr, gr = Continues(fr, co, y),
         y => Suspended(fr[co]), ~y => fr[co] = <<>>
  PROVE  /\ gr \in Frames /\ Len(gr[co]) \in Nat \ {0}
         /\ \A p \in 1..Len(gr[co]) : gr[co][p] = "lua"
         /\ \A u \in Thread : u # co => gr[u] = fr[u]
         /\ Len(gr[co]) <= Len(fr[co]) \/ Len(gr[co]) = 1
<1>0. fr[co] \in Seq(Functions) /\ Len(fr[co]) \in Nat
  BY FramesFacts
<1>1. CASE y
  <2> DEFINE f == Shrunk(fr[co])
  <2>1. Len(fr[co]) > 1 /\ \A p \in 1..Len(fr[co]) - 1 : fr[co][p] = "lua"
    BY <1>1 DEF Suspended
  <2>2. f \in Seq(Functions) /\ Len(f) = Len(fr[co]) - 1 /\ \A p \in 1..Len(fr[co])-1 : f[p] = fr[co][p]
    BY <1>0, <2>1, ShrunkFacts
  <2>3. gr = [fr EXCEPT ![co] = f]
    BY <1>1 DEF Continues
  <2> HIDE DEF f
  <2>4. gr \in Frames /\ gr[co] = f /\ \A u \in Thread : u # co => gr[u] = fr[u]
    BY <2>2, <2>3 DEF Frames
  <2> QED
    BY <1>0, <2>1, <2>2, <2>4
<1>2. CASE ~y
  <2> DEFINE f == Grown(fr[co], "lua")
  <2>1. Len(fr[co]) = 0
    BY <1>2
  <2>2. f \in Seq(Functions) /\ Len(f) = Len(fr[co]) + 1 /\ f[Len(fr[co])+1] = "lua"
    <3>1. "lua" \in Functions
      BY DEF Functions
    <3> QED
      BY <1>0, <3>1, GrownFacts
  <2>3. gr = [fr EXCEPT ![co] = f]
    BY <1>2 DEF Continues
  <2> HIDE DEF f
  <2>4. gr \in Frames /\ gr[co] = f /\ \A u \in Thread : u # co => gr[u] = fr[u]
    BY <2>2, <2>3 DEF Frames
  <2>5. Len(f) = 1 /\ f[1] = "lua" /\ 1..1 = {1}
    <3>1. Len(fr[co]) + 1 = 1
      BY <2>1
    <3>2. Len(f) = 1 /\ f[1] = "lua"
      BY <2>2, <3>1, Zenon
    <3>3. 1..1 = {1}
      BY OneIndex, Zenon
    <3> QED
      BY <3>2, <3>3
  <2> QED
    BY <2>4, <2>5
<1> QED
  BY <1>1, <1>2

\* lua_resume of a suspended coroutine goes on with it; b is the C stack with the
\* lua_resume on top.
Accepted(co, level, b) ==
  /\ co \in created /\ mode = "run" /\ cst # <<>>
  /\ costatus(R, co) = "suspended" /\ level = nCcalls[R] /\ level < MaxCCalls
  /\ nCcalls' = [nCcalls EXCEPT ![co] = level + 1]
  /\ baseCcalls' = [baseCcalls EXCEPT ![co] = level + 1]
  /\ ci' = Continues(ci, co, status[co] = "YIELD")
  /\ b = Pushed(cst, [k |-> "resume", th |-> co])
  /\ cst' = Pushed(b, Execute(co, Len(ci'[co])))
  /\ status' = [status EXCEPT ![co] = "OK"]
  /\ holds' = [holds EXCEPT ![co] = FALSE]
  /\ UNCHANGED <<size_ci, errfunc, created, mode>>

\* A lua_resume that is accepted keeps the invariant.
LEMMA Resumed ==
  ASSUME CallsInv, NEW co \in Coroutine, NEW level, NEW b, Accepted(co, level, b)
  PROVE  CallsInv'
<1> USE DEF Accepted
<1> DEFINE N == Len(cst)
<1>1. mode # "ret" /\ mode \notin Errors
  BY DEF Errors
<1>2. PICK h : Now(N, h)
  BY <1>1, NowHolds
<1> HIDE DEF N
<1> PICK t : t = R
  OBVIOUS
<1> DEFINE g == Raised(h, N, 0)
           w == cst'
           gr == [ci EXCEPT ![co] = <<>>]
           n == Len(ci'[co])
<1> HIDE DEF g, w, gr, n
<1>3. /\ N = Len(cst) /\ N \in Nat /\ N > 0 /\ N \in 1..N /\ h \in Heights /\ t \in Thread
      /\ t = cst[N].th /\ Typed(cst, N, h, ci) /\ nCcalls[t] = Depth(cst, N)
      /\ Core(cst, N, h, ci, nCcalls, baseCcalls, errfunc, status, holds)
      /\ Between(cst[N], "call", h[N], Len(ci[t]))
  BY <1>2, NowFacts DEF Next1
<1>4. /\ cst \in Stacks /\ VariablesOK /\ Sized(ci, size_ci) /\ ci \in Frames
      /\ nCcalls \in [Thread -> Nat] /\ baseCcalls \in [Thread -> Nat]
      /\ size_ci \in [Thread -> Nat]
      /\ status \in [Thread -> {"OK", "YIELD"} \union Errors] /\ holds \in [Thread -> BOOLEAN]
      /\ co \in Thread /\ co # Main
  BY LimitAssumption DEF CallsInv, VariablesOK, Thread
<1>5. cst[N].k \in {"call", "execute"}
  BY <1>1, <1>3, TopFacts
<1>6. /\ \A i \in 1..N : cst[i].th # co
      /\ status[co] = "YIELD" => Suspended(ci[co])
      /\ status[co] # "YIELD" => ci[co] = <<>>
  BY <1>3, Asleep
<1>7. /\ ci' \in Frames /\ n \in Nat \ {0} /\ \A p \in 1..n : ci'[co][p] = "lua"
      /\ \A u \in Thread : u # co => ci'[u] = ci[u]
      /\ n <= Len(ci[co]) \/ n = 1
  <2> PICK fr : fr = ci'
    OBVIOUS
  <2> PICK y : y = (status[co] = "YIELD")
    OBVIOUS
  <2>1. fr = Continues(ci, co, y) /\ (y => Suspended(ci[co])) /\ (~y => ci[co] = <<>>)
        /\ ci \in Frames /\ co \in Thread
    BY <1>4, <1>6
  <2>2. /\ fr \in Frames /\ Len(fr[co]) \in Nat \ {0}
        /\ \A p \in 1..Len(fr[co]) : fr[co][p] = "lua"
        /\ \A u \in Thread : u # co => fr[u] = ci[u]
        /\ Len(fr[co]) <= Len(ci[co]) \/ Len(fr[co]) = 1
    BY <2>1, ContinuesFacts
  <2> QED
    BY <2>2 DEF n
<1>8. gr \in Frames /\ gr[co] = <<>> /\ \A u \in Thread : u # co => gr[u] = ci[u]
  <2>1. <<>> \in Seq(Functions)
    OBVIOUS
  <2> QED
    BY <1>4, <2>1 DEF gr, Frames
<1>9. /\ level \in Nat /\ level + 1 \in Nat /\ level + 1 <= MaxCCalls
      /\ level + 1 < MaxCCalls + ExtraCCalls
  BY <1>3, <1>4, LimitAssumption
<1>10. /\ nCcalls' \in [Thread -> Nat] /\ nCcalls'[co] = level + 1
       /\ baseCcalls' \in [Thread -> Nat] /\ baseCcalls'[co] = level + 1
       /\ status' \in [Thread -> {"OK", "YIELD"} \union Errors] /\ status'[co] = "OK"
       /\ holds' \in [Thread -> BOOLEAN] /\ ~holds'[co]
       /\ \A u \in Thread : u # co =>
             nCcalls'[u] = nCcalls[u] /\ baseCcalls'[u] = baseCcalls[u]
             /\ status'[u] = status[u] /\ holds'[u] = holds[u]
  BY <1>4, <1>9
<1>11. /\ [k |-> "resume", th |-> co] \in Activation /\ Execute(co, n) \in Activation
       /\ Execute(co, n).k = "execute" /\ Execute(co, n).th = co /\ Execute(co, n).n = n
  BY <1>4, <1>7, NewActivations DEF Execute
<1>12. /\ b \in Stacks /\ Len(b) = N+1 /\ b[N+1] = [k |-> "resume", th |-> co]
       /\ \A i \in 1..N : b[i] = cst[i]
  BY <1>3, <1>4, <1>11, StackPush
<1>13. /\ w \in Stacks /\ Len(w) = N+2 /\ w[N+2] = Execute(co, n) /\ w # <<>>
       /\ w[N+1] = [k |-> "resume", th |-> co] /\ \A i \in 1..N : w[i] = cst[i]
  <2>1. w = Pushed(b, Execute(co, n))
    BY DEF w, n
  <2>2. /\ w \in Stacks /\ Len(w) = Len(b) + 1 /\ w # <<>> /\ w[Len(b)+1] = Execute(co, n)
        /\ \A i \in 1..Len(b) : w[i] = b[i]
    BY <1>11, <1>12, <2>1, StackPush
  <2>3. (N+1)+1 = N+2 /\ N+1 \in 1..N+1 /\ 1..N \subseteq 1..N+1
    BY <1>3
  <2> QED
    BY <1>12, <2>2, <2>3
<1>14. /\ g \in Heights /\ g[N+1] = 0 /\ g[N+2] = 0 /\ \A i \in 1..N : g[i] = h[i]
  <2>1. 0 \in Nat
    OBVIOUS
  <2> QED
    BY <1>3, <2>1, RaisedFacts, ZenonT(60) DEF g
<1> DEFINE k == N+1
<1>15. k \in Nat /\ k > 0 /\ k+1 = N+2 /\ k = N+1 /\ N+1 \in Nat /\ N+2 \in Nat
  BY <1>3
<1> HIDE DEF k
<1>16. /\ Typed(w, k, g, ci) /\ Typed(w, k, g, gr) /\ Typed(w, k+1, g, gr) /\ Typed(w, k+1, g, ci')
  <2>1. \A i \in 1..N+2 : w[i] \in Activation
    BY <1>13, StackFacts
  <2>2. 1..k \subseteq 1..N+2 /\ k+1 = N+2
    BY <1>3, <1>15
  <2> QED
    BY <1>4, <1>7, <1>8, <1>14, <2>1, <2>2 DEF Typed
<1>17. Core(w, k, g, gr, nCcalls', baseCcalls', errfunc, status', holds')
  <2>1. Core(w, N, g, ci, nCcalls, baseCcalls, errfunc, status, holds)
    <3>1. \A i \in 1..N : w[i] = cst[i] /\ g[i] = h[i]
      BY <1>13, <1>14
    <3> QED
      BY <1>3, <3>1, CoreSame
  <2>2. Depth(w, N+1) = level + 1
    <3>1. Depth(w, N) = Depth(cst, N)
      <4>1. Alike(cst, w, N)
        <5>1. 1..N-1 \subseteq 1..N
          BY <1>3
        <5> QED
          BY <1>13, <5>1 DEF Alike
      <4>2. N \in 0..N
        BY <1>3
      <4> QED
        BY <1>3, <4>1, <4>2, DepthAlike
    <3>2. w[N+1].k = "resume"
      BY <1>13
    <3>3. Depth(w, N+1) = Depth(w, N) + 1
      BY <1>3, <3>2, DepthStep
    <3> QED
      BY <1>3, <3>1, <3>3
  <2>3. w[N] = cst[N] /\ g[N] = h[N]
    BY <1>3, <1>13, <1>14
  <2>4. Between(w[N], "resume", g[N], Len(ci[w[N].th]))
    <3>1. Between(cst[N], "resume", h[N], Len(ci[t]))
      BY <1>3, <1>5 DEF Between
    <3> QED
      BY <1>3, <2>3, <3>1
  <2>5. Resumes(w, N, g, ci, gr, nCcalls, nCcalls', baseCcalls, baseCcalls', status, status', holds, holds', co)
    <3>1. \A u \in Thread : u # co =>
            gr[u] = ci[u] /\ nCcalls'[u] = nCcalls[u] /\ baseCcalls'[u] = baseCcalls[u]
            /\ status'[u] = status[u] /\ holds'[u] = holds[u]
      BY <1>8, <1>10
    <3>2. /\ N > 0 /\ w[N+1] = [k |-> "resume", th |-> co] /\ g[N+1] = 0
          /\ w[N].k \in {"call", "execute"} /\ \A i \in 1..N : w[i].th # co
      BY <1>3, <1>5, <1>6, <1>13, <1>14, <2>3
    <3>3. /\ gr[co] = <<>> /\ nCcalls'[co] = Depth(w, N+1) /\ baseCcalls'[co] = Depth(w, N+1)
          /\ status'[co] = "OK" /\ ~holds'[co]
      BY <1>8, <1>10, <2>2
    <3> QED
      BY <2>4, <3>1, <3>2, <3>3 DEF Resumes
  <2>6. Typed(w, N+1, g, ci) /\ Typed(w, N+1, g, gr)
    BY <1>15, <1>16
  <2>7. Core(w, N+1, g, gr, nCcalls', baseCcalls', errfunc, status', holds')
    BY <1>3, <2>1, <2>5, <2>6, CoreResume
  <2> QED
    BY <1>15, <2>7
<1>18. Core(w, k+1, g, ci', nCcalls', baseCcalls', errfunc, status', holds')
  <2>1. /\ w[k].k = "resume" /\ w[k].th = co /\ w[k+1] = Execute(co, Len(ci'[co]))
        /\ g[k] = 0 /\ g[k+1] = 0 /\ \A p \in 1..Len(ci'[co]) : ci'[co][p] = "lua"
    BY <1>7, <1>13, <1>14, <1>15 DEF n
  <2>2. \A u \in Thread : u # co => ci'[u] = gr[u]
    BY <1>7, <1>8
  <2> QED
    BY <1>15, <1>16, <1>17, <2>1, <2>2, CoreRunning, SMTT(60)
<1>19. VariablesOK'
  BY <1>4, <1>7, <1>10, <1>13 DEF VariablesOK, w
<1>20. Sized(ci', size_ci')
  <2> SUFFICES ASSUME NEW u \in Thread
               PROVE  Len(ci'[u]) < size_ci[u] /\ size_ci[u] <= 2 * MaxCalls /\ BasicCI <= size_ci[u]
    BY DEF Sized
  <2>1. /\ Len(ci[u]) < size_ci[u] /\ size_ci[u] <= 2 * MaxCalls /\ BasicCI <= size_ci[u]
        /\ size_ci[u] \in Nat /\ Len(ci[u]) \in Nat /\ BasicCI \in Nat /\ BasicCI > 1
    BY <1>4, FramesFacts, LimitAssumption DEF Sized
  <2>2. CASE u = co
    BY <1>7, <2>1, <2>2 DEF n
  <2>3. CASE u # co
    BY <1>7, <2>1, <2>3
  <2> QED
    BY <2>2, <2>3
<1>21. Created(cst', created')
  <2>1. created \subseteq Coroutine /\ \A i \in 1..N : cst[i].th \in created \union {Main}
    BY <1>3 DEF CallsInv, Created
  <2>2. \A i \in 1..N+2 : w[i].th \in created \union {Main}
    <3> SUFFICES ASSUME NEW i \in 1..N+2 PROVE w[i].th \in created \union {Main}
      OBVIOUS
    <3>1. CASE i \in 1..N
      BY <1>13, <2>1, <3>1
    <3>2. CASE i = N+1
      BY <1>13, <3>2
    <3>3. CASE i = N+2
      BY <1>11, <1>13, <3>3
    <3> QED
      BY <1>3, <3>1, <3>2, <3>3
  <2> QED
    BY <1>13, <2>1, <2>2 DEF Created, w
<1>22. /\ w[k+1].k = "execute" /\ w[k+1].th = co /\ w[k+1].n = n /\ k+1 \in Nat /\ k+1 = Len(cst')
       /\ Last(cst') = w[k+1] /\ cst' # <<>>
  BY <1>11, <1>13, <1>15 DEF w, Last
<1>23. ModeOK(cst', mode') /\ mode' # "ret" /\ mode' = "run"
  BY <1>1, <1>22 DEF ModeOK, w
<1>24. Between(cst'[k+1], "call", g[k+1], Len(ci'[cst'[k+1].th]))
  <2>1. g[k+1] = 0
    BY <1>14, <1>15
  <2> QED
    <3>1. cst'[k+1].k = "execute" /\ cst'[k+1].th = co /\ cst'[k+1].n = Len(ci'[co])
      BY <1>22 DEF n, w
    <3>2. Len(ci'[co]) \in Nat /\ Len(ci'[co]) # 0
      BY <1>7 DEF n
    <3> QED
      BY <2>1, <3>1, <3>2 DEF Between
<1>25. /\ nCcalls'[cst'[k+1].th] <= MaxCCalls + ExtraCCalls
       /\ nCcalls'[cst'[k+1].th] < MaxCCalls + ExtraCCalls
  BY <1>9, <1>10, <1>22, LimitAssumption DEF w
<1>26. Core(cst', k+1, g, ci', nCcalls', baseCcalls', errfunc', status', holds')
  BY <1>18 DEF w
<1> QED
  BY <1>14, <1>19, <1>20, <1>21, <1>22, <1>23, <1>24, <1>25, <1>26, Assemble, ZenonT(60)

\* coroutine.resume and wrap keep it.
LEMMA CoroutineResumed ==
  ASSUME CallsInv, NEW co \in Coroutine, auxresume(co)
  PROVE  CallsInv'
<1> PICK level : level = nCcalls[R]
  OBVIOUS
<1> PICK b : b = Pushed(cst, [k |-> "resume", th |-> co])
  OBVIOUS
<1>1. /\ mode = "run" /\ cst # <<>> /\ co \in created /\ costatus(R, co) = "suspended"
      /\ holds' = [holds EXCEPT ![co] = FALSE]
      /\ UNCHANGED <<size_ci, errfunc, created, mode>>
      /\ \/ /\ level >= MaxCCalls
            /\ nCcalls' = [nCcalls EXCEPT ![co] = level]
            /\ UNCHANGED <<ci, baseCcalls, status, cst>>
         \/ /\ level < MaxCCalls
            /\ nCcalls' = [nCcalls EXCEPT ![co] = level + 1]
            /\ baseCcalls' = [baseCcalls EXCEPT ![co] = level + 1]
            /\ StartOrContinue(co, b)
  BY DEF auxresume, lua_setlevel, Running, Pushed, StartOrContinue, Execute
<1>2. CASE /\ level < MaxCCalls
           /\ nCcalls' = [nCcalls EXCEPT ![co] = level + 1]
           /\ baseCcalls' = [baseCcalls EXCEPT ![co] = level + 1]
           /\ StartOrContinue(co, b)
  <2>1. ci' = Continues(ci, co, status[co] = "YIELD")
    BY <1>2 DEF StartOrContinue, Continues, Shrunk, Grown
  <2>2. cst' = Pushed(b, Execute(co, Len(ci'[co]))) /\ status' = [status EXCEPT ![co] = "OK"]
    BY <1>2 DEF StartOrContinue, Pushed
  <2> QED
    <3>1. Accepted(co, level, b)
      BY <1>1, <1>2, <2>1, <2>2 DEF Accepted
    <3> QED
      BY <3>1, Resumed
<1> QED
  BY <1>1, <1>2, ResumeRefused

\* Only Lua frames lie below the C function that yields.
LEMMA Yielded ==
  ASSUME CallsInv, lua_yield
  PROVE  CallsInv'
<1>1. mode = "run" /\ cst # <<>> /\ Last(ci[R]) = "c" /\ mode # "ret" /\ mode \notin Errors
  BY DEF lua_yield, Running, Errors
<1> DEFINE N == Len(cst)
<1>2. PICK h : Now(N, h)
  BY <1>1, NowHolds
<1> HIDE DEF N
<1> PICK t : t = R
  OBVIOUS
<1>3. /\ N = Len(cst) /\ N \in Nat /\ N > 0 /\ N \in 1..N /\ h \in Heights /\ t \in Thread
      /\ t = cst[N].th /\ Typed(cst, N, h, ci) /\ nCcalls[t] = Depth(cst, N) /\ status[t] = "OK"
      /\ Core(cst, N, h, ci, nCcalls, baseCcalls, errfunc, status, holds)
      /\ Len(ci[t]) \in Nat
  BY <1>2, NowFacts
<1>4. CASE nCcalls[R] > baseCcalls[R] /\ mode' = "error" /\ UNCHANGED <<status, cst>>
  <2>1. UNCHANGED <<thread, created, cst>>
    BY <1>4 DEF lua_yield, thread
  <2> QED
    BY <1>1, <1>4, <2>1, ErrorMessage
<1>5. CASE /\ nCcalls[R] <= baseCcalls[R]
           /\ status' = [status EXCEPT ![R] = "YIELD"]
           /\ cst' = IF Last(cst).k = "execute" THEN Front(cst) ELSE cst
           /\ mode' = "ret"
  <2>1. /\ cst[1] \in EngineCalls /\ cst[N].k \in {"call", "execute"} /\ Last(cst) = cst[N]
    BY <1>1, <1>3, TopFacts
  <2>2. N > 1 /\ cst[2].k = "call"
    <3>1. N > 1
      BY <1>3, <2>1 DEF EngineCall, EngineCalls
    <3>2. Placed(cst, 2)
      BY <1>3, <3>1 DEF Core, StackOK
    <3>3. Follows(cst[1], cst[2])
      BY <3>2 DEF Placed
    <3> QED
      BY <2>1, <3>1, <3>3 DEF Follows, EngineCall, EngineCalls
  <2>3. Depth(cst, N) <= baseCcalls[t] /\ Depth(cst, N) \in Nat
    BY <1>3, <1>5, DepthType
  <2>4. t \in Coroutine
    <3>1. t # Main
      <4>1. 2 \in 0+1..N /\ 0 <= N
        BY <1>3, <2>2
      <4>2. Depth(cst, 0) < Depth(cst, N) /\ Depth(cst, 0) \in Nat
        BY <1>3, <2>2, <4>1, DepthGrows, DepthType
      <4>3. baseCcalls[Main] = 0
        BY <1>3 DEF Core, CountedOK
      <4> QED
        BY <2>3, <4>2, <4>3
    <3> QED
      BY <1>3, <3>1 DEF Thread
  <2>5. PICK j \in 1..N : cst[j].k = "resume" /\ cst[j].th = t
    <3>1. Placed(cst, N)
      BY <1>3 DEF Core, StackOK
    <3> QED
      BY <1>3, <2>4, <3>1 DEF Placed
  <2>6. ASSUME NEW l \in j+1..N
        PROVE  cst[l].k \notin {"call", "resume"}
    <3>1. baseCcalls[t] = Depth(cst, j)
      BY <1>3, <2>5 DEF Core, CountedOK
    <3>2. ~(Depth(cst, j) < Depth(cst, N))
      <4>1. Depth(cst, j) \in Nat /\ j \in Nat
        BY DepthType
      <4> QED
        BY <2>3, <3>1, <4>1
    <3>3. j \in Nat /\ j <= N
      BY <1>3
    <3> QED
      BY <1>3, <3>2, <3>3, DepthGrows
  <2>7. cst[N].k = "execute" /\ j < N
    <3>1. j # N
      BY <2>1, <2>5
    <3>2. j < N /\ N \in j+1..N
      BY <1>3, <3>1
    <3> QED
      BY <2>1, <2>6, <3>2
  <2>8. cst[N-1].k = "resume" /\ cst[N-1].th = t /\ N-1 \in 1..N
    <3>1. Placed(cst, N)
      BY <1>3 DEF Core, StackOK
    <3>2. Follows(cst[N-1], cst[N])
      BY <2>2, <3>1 DEF Placed
    <3>3. cst[N-1].k \in {"call", "resume"} /\ cst[N-1].th = t
      BY <1>3, <2>7, <3>2 DEF Follows
    <3>4. ~(N-1 \in j+1..N)
      BY <2>6, <3>3
    <3>5. j = N-1
      BY <1>3, <2>7, <3>4
    <3> QED
      BY <2>5, <3>5
  <2>9. Suspended(ci[t])
    <3>1. h[N-1] = 0 /\ h[N] = 0
      <4>1. Based(cst, h, N-1) /\ Based(cst, h, N)
        BY <1>3, <2>8 DEF Core, HeightsOK
      <4>2. h[N-1] = 0
        BY <2>8, <4>1 DEF Based
      <4>3. Between(cst[N-1], "execute", h[N-1], h[N])
        BY <2>2, <2>7, <4>1 DEF Based
      <4> QED
        BY <2>8, <4>2, <4>3 DEF Between
    <3>2. cst[N].n \in Nat \ {0}
      BY <1>3, <2>7, Fields
    <3>3. Len(ci[t]) = cst[N].n + 1 /\ Last(ci[t]) = ci[t][Len(ci[t])]
      BY <1>1, <1>2, <2>7, <3>1, <3>2, TopLoop
    <3>4. LoopFrames(cst, N, h, t, ci[t])
      BY <1>3 DEF Core, LoopsOK
    <3>5. ASSUME NEW p \in 1..Len(ci[t]) - 1
          PROVE  ci[t][p] = "lua"
      <4>1. p \in 1..Len(ci[t]) /\ h[N] < p /\ p <= h[N] + cst[N].n
        BY <1>3, <3>1, <3>2, <3>3
      <4>2. InLoop(cst, N, h, t, p)
        BY <1>3, <2>7, <4>1 DEF InLoop
      <4> QED
        BY <3>4, <4>1, <4>2 DEF LoopFrames
    <3> QED
      BY <1>1, <3>2, <3>3, <3>5 DEF Suspended
  <2>10. /\ cst' = Front(cst) /\ mode' = "ret" /\ ci' = ci
         /\ UNCHANGED <<size_ci, nCcalls, baseCcalls, errfunc, holds, created>>
    BY <1>5, <2>1, <2>7 DEF lua_yield
  <2>11. /\ ci' \in Frames /\ Sized(ci', size_ci)
         /\ status' \in [Thread -> {"OK", "YIELD"} \union Errors] /\ status'[t] = "YIELD"
         /\ \A u \in Thread : u # t => ci'[u] = ci[u] /\ status'[u] = status[u]
    BY <1>3, <1>5, <2>10 DEF CallsInv, VariablesOK
  <2>12. /\ Len(ci'[t]) <= Len(ci[t]) /\ \A p \in 1..Len(ci'[t]) : ci'[t][p] = ci[t][p]
         /\ status'[t] \in {"OK", "YIELD"} /\ status'[t] # "OK" /\ Suspended(ci'[t])
    BY <1>3, <2>9, <2>10, <2>11
  <2> QED
    BY <1>1, <1>2, <2>2, <2>7, <2>8, <2>10, <2>11, <2>12, CoroutineBack, SMTT(60)
<1> QED
  BY <1>4, <1>5 DEF lua_yield

-------------------------------------------------------------------------------
(* The invariant is kept. *)

\* The invariant holds before the first script.
LEMMA InitHolds ==
  ASSUME CallInit
  PROVE  CallsInv
<1> DEFINE h == [i \in Nat |-> 0]
<1>0. /\ cst = <<>> /\ mode = "run" /\ created = {} /\ Main \in Thread
      /\ ci = [t \in Thread |-> <<>>] /\ size_ci = [t \in Thread |-> BasicCI]
      /\ nCcalls = [t \in Thread |-> 0] /\ baseCcalls = [t \in Thread |-> 0]
      /\ status = [t \in Thread |-> "OK"] /\ errfunc = [t \in Thread |-> "none"]
      /\ holds = [t \in Thread |-> FALSE]
  BY DEF CallInit, Thread
<1>1. h \in Heights
  BY DEF Heights
<1> HIDE DEF h
<1>2. \A t \in Thread : ci[t] = <<>> /\ Len(ci[t]) = 0
  BY <1>0
<1>3. VariablesOK
  <2>1. cst \in Stacks /\ ci \in Frames
    BY <1>0 DEF Stacks, Frames
  <2>2. BasicCI \in Nat /\ "none" \in HandlerValues
    BY LimitAssumption DEF HandlerValues
  <2> QED
    BY <1>0, <2>1, <2>2 DEF VariablesOK
<1>4. Sized(ci, size_ci)
  BY <1>0, <1>2, LimitAssumption DEF Sized
<1>5. Len(cst) = 0 /\ Live(cst, mode) = 0 /\ \A i : i \notin 1..0 /\ i \notin 2..0
  BY <1>0 DEF Live, Returned
<1>6. Created(cst, created) /\ ModeOK(cst, mode) /\ TopOK(cst, mode, nCcalls, baseCcalls)
  BY <1>0, <1>5 DEF Created, ModeOK, TopOK
<1>7. StackOK(cst, 0) /\ HeightsOK(cst, 0, h) /\ WaitOK(cst, 0, h, ci)
  BY <1>5 DEF StackOK, HeightsOK, WaitOK
<1>8. LoopsOK(cst, 0, h, ci, status)
  <2>1. \A t \in Thread : LoopFrames(cst, 0, h, t, ci[t])
    BY <1>2, <1>5 DEF LoopFrames
  <2> QED
    BY <1>5, <2>1 DEF LoopsOK
<1>9. CountedOK(cst, 0, nCcalls, baseCcalls) /\ HandledOK(cst, 0, errfunc)
  BY <1>0, <1>5 DEF CountedOK, HandledOK, HandlerAt
<1>10. StatusOK(cst, 0, ci, status, holds)
  BY <1>0, <1>2, <1>5 DEF StatusOK
<1>11. Framed(cst, mode, h, ci, nCcalls, baseCcalls, errfunc, status, holds)
  BY <1>5, <1>7, <1>8, <1>9, <1>10 DEF Framed, Core
<1> QED
  BY <1>1, <1>3, <1>4, <1>5, <1>6, <1>7, <1>11 DEF CallsInv

\* Every action keeps it.
LEMMA Kept ==
  ASSUME CallsInv, [CallNext]_callVars
  PROVE  CallsInv'
<1>1. CASE UNCHANGED callVars
  <2>1. /\ ci' = ci /\ size_ci' = size_ci /\ nCcalls' = nCcalls /\ baseCcalls' = baseCcalls
        /\ status' = status /\ errfunc' = errfunc /\ holds' = holds
        /\ created' = created /\ cst' = cst /\ mode' = mode
    BY <1>1 DEF callVars, thread
  <2> QED
    BY <2>1 DEF CallsInv, VariablesOK
<1>2. CASE call_lua_script \/ load_lua_library
  BY <1>2, ScriptCalled
<1>3. CASE ProtectedCall
  BY <1>3, ProtectedCallMade
<1>4. CASE \E f \in Functions : OP_CALL(f) \/ lua_call(f)
  BY <1>4, FunctionCalled, CallMade
<1>5. CASE OP_RETURN
  BY <1>5, LuaFunctionReturned
<1>6. CASE CReturn
  BY <1>6, CFunctionReturned
<1>7. CASE CallEnds
  BY <1>7, CallEnded
<1>8. CASE PcallEnds
  BY <1>8, ProtectedCallEnded
<1>9. CASE HandlerEnds
  BY <1>9, HandlerEnded
<1>10. CASE RaiseError \/ OutOfMemory
  <2>1. /\ cst # <<>> /\ mode \in {"run", "error"} /\ mode' \in {"error"} \union Errors
        /\ UNCHANGED <<thread, created, cst>>
    BY <1>10 DEF RaiseError, OutOfMemory, Errors
  <2> QED
    BY <2>1, ErrorMessage
<1>11. CASE luaG_errormsg
  BY <1>11, MessageHandled
<1>12. CASE luaD_throw
  BY <1>12, ErrorCaught
<1>13. CASE ThrowToResume
  BY <1>13, CoroutineFailed
<1>14. CASE \E co \in Coroutine : luaB_cocreate(co) \/ auxresume(co)
  BY <1>14, CoroutineCreated, CoroutineResumed
<1>15. CASE ResumeEnds
  BY <1>15, ResumeReturned
<1>16. CASE lua_yield
  BY <1>16, Yielded
<1> QED
  BY <1>1, <1>2, <1>3, <1>4, <1>5, <1>6, <1>7, <1>8, <1>9, <1>10, <1>11, <1>12, <1>13,
     <1>14, <1>15, <1>16 DEF CallNext

-------------------------------------------------------------------------------
(* What the invariant says of the interpreter. *)

\* The whole C stack and its part without a lua_resume that was come back to.
LEMMA Parts ==
  ASSUME CallsInv
  PROVE  \E N, m \in Nat : \E h \in Heights :
           /\ N = Len(cst) /\ DOMAIN cst = 1..N /\ m <= N /\ StackOK(cst, N)
           /\ \A i \in 1..N : cst[i] \in Activation
           /\ Typed(cst, m, h, ci)
           /\ Core(cst, m, h, ci, nCcalls, baseCcalls, errfunc, status, holds)
           /\ \A i \in 1..N : i \in 1..m \/ cst[i].k = "resume"
           /\ 1..m \subseteq 1..N
<1> PICK N : N = Len(cst)
  OBVIOUS
<1>1. N \in Nat /\ DOMAIN cst = 1..N /\ StackOK(cst, N) /\ VariablesOK
      /\ \A i \in 1..N : cst[i] \in Activation
  <2>1. cst \in Seq(Activation)
    BY DEF CallsInv, VariablesOK, Stacks
  <2> QED
    BY <2>1 DEF CallsInv
<1>2. PICK h \in Heights :
         Framed(cst, mode, h, ci, nCcalls, baseCcalls, errfunc, status, holds)
  BY DEF CallsInv
<1> PICK m : m = Live(cst, mode)
  OBVIOUS
<1>3. /\ m \in Nat /\ m <= N /\ m \in 0..Len(cst) /\ 1..m \subseteq 1..N
      /\ \A i \in 1..N : i \in 1..m \/ cst[i].k = "resume"
  <2>1. CASE Returned(cst, mode)
    <3>1. m = N - 1 /\ N # 0 /\ cst[N].k = "resume"
      <4>1. N # 0
        BY <1>1, <2>1, StackFacts DEF Returned, VariablesOK
      <4> QED
        BY <2>1, <4>1 DEF Live, Returned
    <3> QED
      BY <1>1, <3>1
  <2>2. CASE ~Returned(cst, mode)
    BY <1>1, <2>2 DEF Live
  <2> QED
    BY <2>1, <2>2
<1>4. Typed(cst, m, h, ci)
  BY <1>1, <1>3, ThreadsTyped
<1>5. Core(cst, m, h, ci, nCcalls, baseCcalls, errfunc, status, holds)
  BY <1>2 DEF Framed
<1> QED
  BY <1>1, <1>3, <1>4, <1>5

\* The invariant implies the types ...
LEMMA TypesHold ==
  ASSUME CallsInv
  PROVE  CallsTypeOK
<1>1. /\ ci \in [Thread -> Seq(Functions)]
      /\ size_ci \in [Thread -> Nat] /\ nCcalls \in [Thread -> Nat]
      /\ baseCcalls \in [Thread -> Nat]
      /\ status \in [Thread -> {"OK", "YIELD"} \union Errors]
      /\ errfunc \in [Thread -> {"none", "traceback"} \union HandlerKinds]
      /\ holds \in [Thread -> BOOLEAN]
  BY DEF CallsInv, VariablesOK, Frames, HandlerValues
<1>2. created \subseteq Coroutine /\ mode \in {"run", "ret", "error"} \union Errors
  BY DEF CallsInv, Created, ModeOK
<1>3. \A i \in DOMAIN cst : cst[i].th \in Thread
  BY Parts, ActivationFields
<1> QED
  BY <1>1, <1>2, <1>3 DEF CallsTypeOK

\* ... the count of C calls of the running thread ...
LEMMA CountHolds ==
  ASSUME CallsInv
  PROVE  CountsCStack
<1> SUFFICES ASSUME cst # <<>>
             PROVE  /\ nCcalls[R] = Cardinality({i \in DOMAIN cst : cst[i].k \in {"call", "resume"}})
                    /\ nCcalls[R] <= MaxCCalls + ExtraCCalls
  BY DEF CountsCStack
<1>1. DOMAIN cst = 1..Len(cst) /\ nCcalls[R] = Depth(cst, Len(cst)) /\ R = cst[Len(cst)].th
  BY Parts, TopFacts
<1>2. nCcalls[R] <= MaxCCalls + ExtraCCalls
  BY <1>1 DEF CallsInv, TopOK
<1> QED
  BY <1>1, <1>2 DEF Depth, Counting

\* ... what a coroutine is when it has yielded ...
LEMMA YieldsHold ==
  ASSUME CallsInv
  PROVE  YieldsClean
<1>1. ASSUME mode = "ret", Last(cst).k = "resume"
      PROVE  nCcalls[R] = baseCcalls[R]
  <2>1. cst # <<>>
    BY <1>1 DEF CallsInv, ModeOK
  <2>2. Last(cst) = cst[Len(cst)] /\ R = cst[Len(cst)].th
    BY <2>1, TopFacts
  <2>3. Returned(cst, mode)
    BY <1>1, <2>1, <2>2 DEF Returned
  <2> QED
    BY <2>1, <2>2, <2>3 DEF CallsInv, TopOK
<1>2. ASSUME NEW t \in Thread, status[t] = "YIELD"
      PROVE  /\ t # Main /\ errfunc[t] = "none"
             /\ Activations(t, {"execute", "call", "pcall", "handler"}) = {}
             /\ Len(ci[t]) > 1 /\ Last(ci[t]) = "c"
             /\ \A i \in 1..(Len(ci[t]) - 1) : ci[t][i] = "lua"
  <2>1. PICK N, m \in Nat, h \in Heights :
           /\ N = Len(cst) /\ DOMAIN cst = 1..N /\ m <= N
           /\ Core(cst, m, h, ci, nCcalls, baseCcalls, errfunc, status, holds)
           /\ \A i \in 1..N : i \in 1..m \/ cst[i].k = "resume"
    BY Parts
  <2>2. status[Main] = "OK" /\ \A i \in 1..m : status[cst[i].th] = "OK"
    BY <2>1 DEF Core, StatusOK
  <2>3. \A i \in 1..m : cst[i].th # t
    BY <1>2, <2>2
  <2>4. errfunc[t] = "none"
    BY <2>1, <2>3 DEF Core, HandledOK, HandlerAt, Protects
  <2>5. Activations(t, {"execute", "call", "pcall", "handler"}) = {}
    BY <2>1, <2>3 DEF Activations
  <2>6. Suspended(ci[t])
    BY <1>2, <2>1 DEF Core, StatusOK
  <2> QED
    BY <1>2, <2>2, <2>4, <2>5, <2>6 DEF Suspended, Last
<1> QED
  BY <1>1, <1>2 DEF YieldsClean

\* The frames that the loops of t run, as pairs of a loop and one of its frames.
LoopPairs(s, m, t) ==
  UNION {{i} \X (1..s[i].n) : i \in {j \in 1..m : s[j].th = t /\ s[j].k = "execute"}}

\* ... that the loops of a thread count its Lua frames: a loop and one of its
\* frames are in bijection with the places of the Lua frames ...
LEMMA LoopsCountFrames ==
  ASSUME NEW s, NEW m \in Nat, NEW h, NEW fr, NEW st, NEW t \in Thread, Typed(s, m, h, fr),
         HeightsOK(s, m, h), LoopsOK(s, m, h, fr, st), st[t] = "OK"
  PROVE  Cardinality({p \in 1..Len(fr[t]) : fr[t][p] = "lua"}) = Cardinality(LoopPairs(s, m, t))
<1> DEFINE P == LoopPairs(s, m, t)
           L == {p \in 1..Len(fr[t]) : fr[t][p] = "lua"}
           f == [x \in P |-> h[x[1]] + x[2]]
<1>1. /\ Len(fr[t]) \in Nat
      /\ \A i \in 1..m : h[i] \in Nat /\ (s[i].k = "execute" => s[i].n \in Nat \ {0})
  BY Fields
<1>2. \A x \in P : /\ x = <<x[1], x[2]>> /\ x[1] \in 1..m /\ s[x[1]].th = t
                   /\ s[x[1]].k = "execute" /\ x[2] \in 1..s[x[1]].n
  BY DEF LoopPairs
<1>3. \A i \in 1..m : \A k : (s[i].th = t /\ s[i].k = "execute" /\ k \in 1..s[i].n) => <<i, k>> \in P
  BY DEF LoopPairs
<1> HIDE DEF P
<1>4. LoopFrames(s, m, h, t, fr[t]) /\ \A i \in 1..m : h[i] + Width(s[i]) <= Len(fr[s[i].th])
  BY DEF LoopsOK, LoopFrames
<1>5. ASSUME NEW x \in P
      PROVE  f[x] \in L
  <2>1. /\ x[1] \in 1..m /\ s[x[1]].th = t /\ s[x[1]].k = "execute" /\ x[2] \in 1..s[x[1]].n
        /\ f[x] = h[x[1]] + x[2]
    BY <1>2
  <2>2. /\ h[x[1]] \in Nat /\ s[x[1]].n \in Nat /\ x[2] \in Nat /\ x[2] >= 1 /\ x[2] <= s[x[1]].n
    BY <1>1, <2>1
  <2>3. h[x[1]] + s[x[1]].n <= Len(fr[t])
    BY <1>4, <2>1 DEF Width
  <2>4. f[x] \in 1..Len(fr[t]) /\ h[x[1]] < f[x] /\ f[x] <= h[x[1]] + s[x[1]].n
    BY <1>1, <2>1, <2>2, <2>3, SMTT(60)
  <2>5. InLoop(s, m, h, t, f[x])
    BY <2>1, <2>4 DEF InLoop
  <2> QED
    BY <1>4, <2>4, <2>5 DEF LoopFrames
<1>6. ASSUME NEW i \in 1..m, NEW j \in 1..m, i < j, s[i].th = t, s[j].th = t, s[i].k = "execute"
      PROVE  h[i] + s[i].n <= h[j]
  <2>1. Based(s, h, j) /\ i \in 1..j-1
    BY <1>6 DEF HeightsOK
  <2> QED
    BY <1>6, <2>1 DEF Based, Width
<1>7. ASSUME NEW x \in P, NEW y \in P, f[x] = f[y]
      PROVE  x = y
  <2>1. /\ x[1] \in 1..m /\ s[x[1]].th = t /\ s[x[1]].k = "execute" /\ x[2] \in 1..s[x[1]].n
        /\ f[x] = h[x[1]] + x[2] /\ x = <<x[1], x[2]>>
    BY <1>2
  <2>2. /\ y[1] \in 1..m /\ s[y[1]].th = t /\ s[y[1]].k = "execute" /\ y[2] \in 1..s[y[1]].n
        /\ f[y] = h[y[1]] + y[2] /\ y = <<y[1], y[2]>>
    BY <1>2
  <2>3. /\ h[x[1]] \in Nat /\ s[x[1]].n \in Nat /\ x[2] \in Nat /\ x[2] >= 1 /\ x[2] <= s[x[1]].n
        /\ h[y[1]] \in Nat /\ s[y[1]].n \in Nat /\ y[2] \in Nat /\ y[2] >= 1 /\ y[2] <= s[y[1]].n
        /\ x[1] \in Nat /\ y[1] \in Nat /\ h[x[1]] + x[2] = h[y[1]] + y[2]
    BY <1>1, <1>7, <2>1, <2>2, SMTT(60)
  <2>4. ~(x[1] < y[1])
    <3>1. SUFFICES ASSUME x[1] < y[1] PROVE FALSE
      OBVIOUS
    <3>2. h[x[1]] + s[x[1]].n <= h[y[1]]
      BY <1>6, <2>1, <2>2, <3>1
    <3> QED
      BY <2>3, <3>2
  <2>5. ~(y[1] < x[1])
    <3>1. SUFFICES ASSUME y[1] < x[1] PROVE FALSE
      OBVIOUS
    <3>2. h[y[1]] + s[y[1]].n <= h[x[1]]
      BY <1>6, <2>1, <2>2, <3>1
    <3> QED
      BY <2>3, <3>2
  <2>6. x[1] = y[1]
    BY <2>3, <2>4, <2>5
  <2>7. x[2] = y[2]
    BY <2>3, <2>6
  <2> QED
    BY <2>1, <2>2, <2>6, <2>7
<1>8. ASSUME NEW p \in L
      PROVE  \E x \in P : f[x] = p
  <2>1. InLoop(s, m, h, t, p) /\ p \in Nat
    BY <1>4 DEF LoopFrames
  <2>2. PICK i \in 1..m : s[i].k = "execute" /\ s[i].th = t /\ h[i] < p /\ p <= h[i] + s[i].n
    BY <2>1 DEF InLoop
  <2>3. h[i] \in Nat /\ s[i].n \in Nat
    BY <1>1, <2>2
  <2>4. p - h[i] \in 1..s[i].n /\ h[i] + (p - h[i]) = p
    BY <2>1, <2>2, <2>3, SMTT(60)
  <2>5. <<i, p - h[i]>> \in P
    BY <1>3, <2>2, <2>4
  <2> QED
    BY <2>4, <2>5
<1>9. f \in Injection(P, L)
  <2>1. f \in [P -> L] /\ DOMAIN f = P
    BY <1>5
  <2> QED
    BY <1>7, <2>1 DEF Injection, IsInjective
<1>10. f \in Surjection(P, L)
  <2>1. f \in [P -> L]
    BY <1>5
  <2> QED
    BY <1>8, <2>1 DEF Surjection
<1>11. IsFiniteSet(L)
  <2>1. IsFiniteSet(1..Len(fr[t]))
    BY <1>1, FS_Interval
  <2> QED
    BY <2>1, FS_Subset
<1>12. Cardinality(P) = Cardinality(L)
  <2> HIDE DEF f, L
  <2> QED
    BY <1>9, <1>10, <1>11, FS_Injection
<1> QED
  BY <1>12 DEF P

\* ... for each thread, and the places of its frames ...
LEMMA FramesHold ==
  ASSUME CallsInv
  PROVE  FramesHaveLoops /\ FramesFit
<1>1. FramesFit
  BY DEF CallsInv, Sized, FramesFit
<1>2. ASSUME NEW t \in Thread, status[t] = "OK"
      PROVE  Cardinality({p \in DOMAIN ci[t] : ci[t][p] = "lua"})
               = Cardinality(UNION {{i} \X (1..cst[i].n) : i \in Activations(t, {"execute"})})
  <2>1. PICK N, m \in Nat, h \in Heights :
           /\ N = Len(cst) /\ DOMAIN cst = 1..N /\ m <= N /\ Typed(cst, m, h, ci)
           /\ Core(cst, m, h, ci, nCcalls, baseCcalls, errfunc, status, holds)
           /\ \A i \in 1..N : i \in 1..m \/ cst[i].k = "resume"
           /\ 1..m \subseteq 1..N
    BY Parts
  <2>2. Activations(t, {"execute"}) = {j \in 1..m : cst[j].th = t /\ cst[j].k = "execute"}
    BY <2>1 DEF Activations
  <2>3. DOMAIN ci[t] = 1..Len(ci[t])
    <3>1. ci[t] \in Seq(Functions)
      BY FramesFacts DEF CallsInv, VariablesOK
    <3> QED
      BY <3>1
  <2>4. Cardinality({p \in 1..Len(ci[t]) : ci[t][p] = "lua"}) = Cardinality(LoopPairs(cst, m, t))
    BY <1>2, <2>1, LoopsCountFrames DEF Core
  <2> QED
    BY <2>2, <2>3, <2>4 DEF LoopPairs
<1> QED
  BY <1>1, <1>2 DEF FramesHaveLoops

\* ... the handler in force ...
LEMMA HandlersHold ==
  ASSUME CallsInv
  PROVE  HandlerOfInnermost
<1> SUFFICES ASSUME NEW t \in Thread, NEW P, P = Activations(t, {"pcall"})
             PROVE  errfunc[t] = IF P = {} THEN "none"
                                 ELSE cst[CHOOSE i \in P : \A j \in P : j <= i].ef
  BY DEF HandlerOfInnermost
<1>1. PICK N, m \in Nat, h \in Heights :
         /\ N = Len(cst) /\ DOMAIN cst = 1..N
         /\ Core(cst, m, h, ci, nCcalls, baseCcalls, errfunc, status, holds)
         /\ \A i \in 1..N : i \in 1..m \/ cst[i].k = "resume"
         /\ 1..m \subseteq 1..N
  BY Parts
<1>2. P = {i \in 1..m : Protects(cst[i], t)}
  BY <1>1 DEF Activations, Protects
<1>3. HandlerAt(cst, t, m, errfunc[t])
  BY <1>1 DEF Core, HandledOK
<1>4. CASE errfunc[t] = "none" /\ \A j \in 1..m : ~Protects(cst[j], t)
  <2>1. P = {}
    BY <1>2, <1>4
  <2> QED
    BY <1>4, <2>1
<1>5. ASSUME NEW i \in 1..m, Protects(cst[i], t), cst[i].ef = errfunc[t],
             \A j \in i+1..m : ~Protects(cst[j], t)
      PROVE  errfunc[t] = IF P = {} THEN "none"
                          ELSE cst[CHOOSE l \in P : \A j \in P : j <= l].ef
  <2>1. i \in P /\ \A j \in P : j <= i /\ j \in Nat
    BY <1>2, <1>5
  <2> DEFINE c == CHOOSE l \in P : \A j \in P : j <= l
  <2>2. c \in P /\ \A j \in P : j <= c
    BY <2>1
  <2> HIDE DEF c
  <2>3. c = i
    <3>1. c <= i /\ i <= c /\ c \in Nat /\ i \in Nat
      BY <2>1, <2>2
    <3> QED
      BY <3>1
  <2>4. P # {} /\ cst[c].ef = errfunc[t]
    BY <1>5, <2>1, <2>3
  <2> QED
    BY <2>4 DEF c
<1> QED
  BY <1>3, <1>4, <1>5 DEF HandlerAt

\* ... the order of the threads ...
LEMMA ResumedOnceHolds ==
  ASSUME CallsInv
  PROVE  ResumedOnce
<1> SUFFICES ASSUME NEW t \in Coroutine
             PROVE  /\ Cardinality(Activations(t, {"resume"})) <= 1
                    /\ \A i \in Activations(t, {"execute", "call", "pcall", "handler"}) :
                          \E j \in Activations(t, {"resume"}) : j < i
  BY DEF ResumedOnce
<1>1. PICK N \in Nat : DOMAIN cst = 1..N /\ StackOK(cst, N)
  BY Parts
<1>2. \A i \in 1..N : Placed(cst, i)
  BY <1>1 DEF StackOK
<1>3. ASSUME NEW i \in Activations(t, {"resume"}), NEW j \in Activations(t, {"resume"})
      PROVE  ~(i < j)
  <2>1. /\ i \in 1..N /\ j \in 1..N /\ cst[i].th = t /\ cst[j].th = t
        /\ cst[i].k = "resume" /\ cst[j].k = "resume"
    BY <1>1, <1>3 DEF Activations
  <2>2. SUFFICES ASSUME i < j PROVE FALSE
    OBVIOUS
  <2>3. i \in 1..j-1 /\ Placed(cst, j)
    BY <1>2, <2>1, <2>2
  <2> QED
    BY <2>1, <2>3 DEF Placed
<1>4. Cardinality(Activations(t, {"resume"})) <= 1
  <2>1. CASE Activations(t, {"resume"}) = {}
    BY <2>1, FS_EmptySet
  <2>2. CASE Activations(t, {"resume"}) # {}
    <3>1. PICK i : i \in Activations(t, {"resume"})
      BY <2>2
    <3>2. ASSUME NEW j \in Activations(t, {"resume"})
          PROVE  j = i
      <4>1. i \in Nat /\ j \in Nat
        BY <1>1, <3>1 DEF Activations
      <4>2. ~(i < j) /\ ~(j < i)
        BY <1>3, <3>1
      <4> QED
        BY <4>1, <4>2
    <3>3. Activations(t, {"resume"}) = {i}
      BY <3>1, <3>2
    <3>4. Cardinality({i}) = 1
      BY FS_Singleton
    <3> QED
      BY <3>3, <3>4
  <2> QED
    BY <2>1, <2>2
<1>5. ASSUME NEW i \in Activations(t, {"execute", "call", "pcall", "handler"})
      PROVE  \E j \in Activations(t, {"resume"}) : j < i
  <2>1. i \in 1..N /\ cst[i].th = t /\ cst[i].k # "resume"
    BY <1>1, <1>5 DEF Activations
  <2>2. PICK j \in 1..i : cst[j].k = "resume" /\ cst[j].th = t
    BY <1>2, <2>1 DEF Placed
  <2>3. j \in 1..N /\ j < i
    BY <1>1, <2>1, <2>2
  <2>4. j \in Activations(t, {"resume"})
    BY <1>1, <2>2, <2>3 DEF Activations
  <2> QED
    BY <2>3, <2>4
<1> QED
  BY <1>4, <1>5

\* ... all of them together ...
LEMMA CallsCountedHolds ==
  ASSUME CallsInv
  PROVE  CallsCounted
BY TypesHold, CountHolds, YieldsHold, FramesHold, HandlersHold, ResumedOnceHolds DEF CallsCounted

\* ... and that every error finds its setjmp.
LEMMA EngineSurvivesHolds ==
  ASSUME CallsInv
  PROVE  EngineSurvives
<1>1. ASSUME mode \in Errors
      PROVE  errorJmp # {}
  BY <1>1, ThrowTarget
<1>2. ASSUME cst = <<>>
      PROVE  /\ mode = "run" /\ ci[Main] = <<>> /\ status[Main] = "OK"
             /\ nCcalls[Main] = 0 /\ errfunc[Main] = "none"
  BY <1>2, EmptyFacts
<1> QED
  BY <1>1, <1>2 DEF EngineSurvives

-------------------------------------------------------------------------------
(* The theorems. *)

\* The invariant is inductive: luaD_call, luaD_pcall, luaD_throw, lua_resume and
\* lua_yield keep the C stack, the CallInfos and what each thread counts and
\* restores in step.
THEOREM CallsInvariant == CallSpec => []CallsInv
<1>1. CallInit => CallsInv
  BY InitHolds
<1>2. CallsInv /\ [CallNext]_callVars => CallsInv'
  BY Kept
<1> QED
  BY <1>1, <1>2, PTL DEF CallSpec

\* Whatever scripts call, resume, yield and throw, nCcalls is the depth of the
\* C stack and stays within the limit, the Lua frames are those of the active
\* loops, the handler is the one of the innermost luaD_pcall, and a thread is
\* resumed once at a time.
THEOREM CallsAreCounted == CallSpec => []CallsCounted
<1>1. CallsInv => CallsCounted
  BY CallsCountedHolds
<1> QED
  BY <1>1, CallsInvariant, PTL

\* An error always finds the setjmp of a luaD_pcall or a lua_resume of its own
\* thread, and the engine gets its main thread back as it left it.
THEOREM EveryErrorIsCaught == CallSpec => []EngineSurvives
<1>1. CallsInv => EngineSurvives
  BY EngineSurvivesHolds
<1> QED
  BY <1>1, CallsInvariant, PTL
===============================================================================
