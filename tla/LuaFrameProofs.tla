---------------------------- MODULE LuaFrameProofs ----------------------------
(***************************************************************************)
(* Proofs about LuaFrame: for any modules, any scripts and a stack of any   *)
(* height, lookups and calls leave on the stack exactly the results of the  *)
(* function called, and the chunk of a module is run once.                  *)
(***************************************************************************)
EXTENDS LuaFrame, SequenceTheorems, TLAPS

-------------------------------------------------------------------------------
(* The stack functions of lua_util.c: what a lookup and a call leave, and     *)
(* when a lookup succeeds, for any stack and any values.                      *)

(* Cutting a stack that has grown back to its old height restores it.       *)
LEMMA SettopConcat ==
  ASSUME NEW S, NEW s \in Seq(S), NEW t \in Seq(S)
  PROVE  settop(s \o t, Len(s)) = s
  BY SubSeqOfConcat1 DEF settop

(* lua_settop down to a height within the stack gives a stack of that height. *)
LEMMA SettopPrefix ==
  ASSUME NEW S, NEW s \in Seq(S), NEW n \in Nat, n <= Len(s)
  PROVE  settop(s, n) \in Seq(S) /\ Len(settop(s, n)) = n
  BY DEF settop

(* The message an error leaves is a value like any other.                   *)
LEMMA MessageValue == Message \in Values
  BY DEF Message, CVal, Val, Values, Kinds, Sources

(* call_lua_script: the function and its arguments give way to the results, *)
(* which are counted, or to a message; what is below stays.                 *)
LEMMA CalledScript ==
  ASSUME NEW stk \in Seq(Values), NEW args \in Nat, Len(stk) >= args + 1,
         NEW error \in BOOLEAN, NEW values \in Seq(Values)
  PROVE  call_lua_script(stk, args, [error |-> error, values |-> values]) =
           [ret |-> IF error THEN 0 ELSE Len(values),
            stk |-> settop(stk, Len(stk) - 1 - args) \o
                      (IF error THEN <<Message>> ELSE values)]
<1> DEFINE base == Len(stk) - 1 - args
           below == settop(stk, base)
           outcome == [error |-> error, values |-> values]
           after == Pcall(stk, args, outcome)
<1>1. base \in Nat /\ base <= Len(stk)
  OBVIOUS
<1>2. below \in Seq(Values) /\ Len(below) = base
  <2> HIDE DEF base
  <2> QED BY <1>1, SettopPrefix
<1>3. after = below \o (IF error THEN <<Message>> ELSE values)
  BY DEF Pcall
<1>4. call_lua_script(stk, args, outcome) =
        IF outcome.error THEN [ret |-> 0, stk |-> after]
        ELSE [ret |-> Len(after) - base, stk |-> after]
  <2>1. (IF args < 0 THEN 0 ELSE args) = args
    OBVIOUS
  <2>2. ~(base < 0)
    BY <1>1
  <2> QED BY <2>1, <2>2, Zenon DEF call_lua_script
<1>5. outcome.error = error
  OBVIOUS
<1>6. call_lua_script(stk, args, outcome) =
        [ret |-> IF error THEN 0 ELSE Len(values),
         stk |-> below \o (IF error THEN <<Message>> ELSE values)]
  <2> HIDE DEF after, outcome, base, below
  <2>1. CASE error
    BY <1>3, <1>4, <1>5, <2>1
  <2>2. CASE ~error
    <3>1. Len(below \o values) = base + Len(values)
      BY <1>1, <1>2
    <3>2. Len(after) - base = Len(values)
      BY <1>1, <1>3, <2>2, <3>1
    <3> QED BY <1>3, <1>4, <1>5, <2>2, <3>2
  <2> QED BY <2>1, <2>2
<1> QED BY <1>6

(* lua_replace and lua_settop at the end of find_lua_function: of what was  *)
(* pushed only the top value stays.                                         *)
LEMMA ReplaceTop ==
  ASSUME NEW S, NEW s \in Seq(S), NEW t \in Seq(S), Len(t) >= 2
  PROVE  /\ Last(s \o t) = t[Len(t)]
         /\ settop(Replace(s \o t, Len(s) + 1), Len(s) + 1) = Append(s, t[Len(t)])
<1> DEFINE u == s \o t
           n == Len(s)
           m == Len(t)
           v == t[m]
           w == [u EXCEPT ![n + 1] = v]
<1>1. u \in Seq(S) /\ Len(u) = n + m /\ n \in Nat /\ m \in Nat /\ u[n + m] = v /\ v \in S
  OBVIOUS
<1>2. \A i \in 1..n : u[i] = s[i]
  OBVIOUS
<1>3. Last(u) = v
  BY <1>1 DEF Last
<1>4. w \in Seq(S) /\ Len(w) = n + m
  BY <1>1
<1>5. \A i \in 1..n : w[i] = s[i]
  <2>1. \A i \in 1..n : i \in 1..Len(u) /\ i # n + 1
    BY <1>1
  <2>2. \A i \in 1..n : w[i] = u[i]
    <3> HIDE DEF u, v, n
    <3> QED BY <1>1, <2>1
  <2> QED BY <1>2, <2>2
<1>6. w[n + 1] = v
  BY <1>1
<1>7. Replace(u, n + 1) = SubSeq(w, 1, n + m - 1)
  BY <1>3, <1>4 DEF Replace, Front
<1>8. SubSeq(SubSeq(w, 1, n + m - 1), 1, n + 1) = Append(s, v)
  <2> HIDE DEF w, u
  <2>1. n + m - 1 \in Nat /\ n + m - 1 <= Len(w) /\ n + 1 <= n + m - 1
    BY <1>1, <1>4
  <2> DEFINE x == SubSeq(w, 1, n + m - 1)
             y == SubSeq(x, 1, n + 1)
  <2>2. x \in Seq(S) /\ Len(x) = n + m - 1 /\ \A i \in 1..(n + m - 1) : x[i] = w[i]
    BY <1>4, <2>1
  <2>3. y \in Seq(S) /\ Len(y) = n + 1 /\ \A i \in 1..(n + 1) : y[i] = w[i]
    <3> HIDE DEF x
    <3> QED BY <1>1, <2>1, <2>2
  <2>4. Append(s, v) \in Seq(S) /\ Len(Append(s, v)) = n + 1
    BY <1>1
  <2>5. \A i \in 1..(n + 1) : Append(s, v)[i] = w[i]
    BY <1>1, <1>5, <1>6
  <2> HIDE DEF y, x, v
  <2> QED BY <2>3, <2>4, <2>5, SeqEqual
<1> QED BY <1>3, <1>7, <1>8 DEF settop

(* The top of two stacks on top of each other is that of the upper one.     *)
LEMMA TopOfConcat ==
  ASSUME NEW S, NEW s \in Seq(S), NEW t \in Seq(S), Len(t) >= 1
  PROVE  (s \o t)[Len(s) + Len(t)] = t[Len(t)]
  OBVIOUS

(* lua_remove as the library module defines it.                             *)
LEMMA RemoveAtParts ==
  ASSUME NEW s, NEW i
  PROVE  RemoveAt(s, i) = SubSeq(s, 1, i - 1) \o SubSeq(s, i + 1, Len(s))
  BY DEF RemoveAt

(* lua_remove in load_lua_library: the traceback function goes.             *)
LEMMA RemoveSecond ==
  ASSUME NEW S, NEW s \in Seq(S), NEW a \in S, NEW b \in S
  PROVE  RemoveAt(s \o <<a, b>>, Len(s) + 1) = s \o <<b>>
<1> DEFINE u == s \o <<a, b>>
           n == Len(s)
<1>1. u \in Seq(S) /\ Len(u) = n + 2 /\ n \in Nat /\ u[n + 2] = b
  OBVIOUS
<1>2. SubSeq(u, 1, n) = s
  BY SubSeqOfConcat1
<1>3. SubSeq(u, n + 2, n + 2) = <<b>>
  <2> HIDE DEF u, n
  <2> DEFINE v == SubSeq(u, n + 2, n + 2)
  <2>1. v \in Seq(S) /\ Len(v) = 1 /\ v[1] = u[n + 2]
    BY <1>1, SubSeqProperties
  <2> HIDE DEF v
  <2>2. v = <<b>>
    BY <1>1, <2>1
  <2> QED BY <2>2 DEF v
<1> DEFINE k == n + 1
<1>4. k - 1 = n /\ k + 1 = n + 2
  BY <1>1
<1> HIDE DEF u, n, k
<1>5. RemoveAt(u, k) = SubSeq(u, 1, k - 1) \o SubSeq(u, k + 1, Len(u))
  BY RemoveAtParts
<1>6. RemoveAt(u, k) = s \o <<b>>
  BY <1>1, <1>2, <1>3, <1>4, <1>5
<1> QED BY <1>6 DEF u, n, k

(* The first half of find_lua_function has pushed at least three values, or *)
(* has failed and left nothing above the stack it found but those.          *)
LEMMA FoundModule ==
  ASSUME NEW stk \in Seq(Values), NEW e \in Environments
  PROVE  /\ FindModule(stk, e).ok \in BOOLEAN
         /\ FindModule(stk, e).ok <=> ModuleValue(e) # "error"
         /\ FindModule(stk, e).ok =>
              \E t \in Seq(Values) : /\ Len(t) >= 3 /\ FindModule(stk, e).stk = stk \o t
                                     /\ t[Len(t)].kind = ModuleValue(e)
         /\ ~FindModule(stk, e).ok => settop(FindModule(stk, e).stk, Len(stk)) = stk
<1> DEFINE p == <<CVal("text", "module"), CVal("table", "package.loaded"),
                  CVal(e.entry, "loaded")>>
           q == stk \o p
<1>1. p \in Seq(Values) /\ Len(p) = 3
  <2>1. CVal("text", "module") \in Values /\ CVal("table", "package.loaded") \in Values
    BY DEF CVal, Val, Values, Kinds, Sources
  <2>2. e.entry \in Kinds
    BY DEF Environments
  <2>3. CVal(e.entry, "loaded") \in Values
    BY <2>2 DEF CVal, Val, Values, Sources
  <2> QED BY <2>1, <2>3
<1>2. q \in Seq(Values)
  BY <1>1
<1>3. settop(q, Len(stk)) = stk
  <2> HIDE DEF p
  <2> QED BY <1>1, SettopConcat
<1>4. CASE ~NeedsLoad(e)
  <2>1. FindModule(stk, e) = [ok |-> TRUE, stk |-> stk \o p]
    BY <1>4 DEF FindModule
  <2>2. FindModule(stk, e).ok = TRUE /\ FindModule(stk, e).stk = stk \o p
    <3> HIDE DEF p
    <3> QED BY <2>1
  <2>3. Len(p) >= 3 /\ p[Len(p)].kind = e.entry
    BY <1>1 DEF CVal, Val
  <2>4. e.entry # "nil" /\ e.entry # "error" /\ ModuleValue(e) = e.entry
    BY <1>4 DEF NeedsLoad, ModuleValue, Environments, Kinds
  <2> HIDE DEF p
  <2> QED BY <1>1, <2>2, <2>3, <2>4
<1>5. CASE NeedsLoad(e)
  <2> DEFINE r == <<CVal("function", "traceback"), CVal(e.required, "require")>>
             W == Values \cup {CVal(e.required, "require")}
  <2>0. ModuleValue(e) = e.required
    BY <1>5 DEF NeedsLoad, ModuleValue
  <2>1. FindModule(stk, e) = load_lua_library(q, e)
    BY <1>5 DEF FindModule
  <2>2. CVal("function", "traceback") \in Values
    BY DEF CVal, Val, Values, Kinds, Sources
  <2>3. q \in Seq(W) /\ r \in Seq(W) /\ Len(r) = 2
    <3>1. r \in Seq(W) /\ Len(r) = 2
      BY <2>2
    <3>2. q \in Seq(W)
      BY <1>2, SeqMonotonic
    <3> QED BY <3>1, <3>2
  <2>4. CASE e.required = "error"
    <3>1. load_lua_library(q, e) = [ok |-> FALSE, stk |-> settop(q \o r, Len(q))]
      BY <2>4 DEF load_lua_library
    <3>2. settop(q \o r, Len(q)) = q
      <4> HIDE DEF q, r, W
      <4> QED BY <2>3, SettopConcat
    <3> HIDE DEF q, r
    <3>3. FindModule(stk, e).ok = FALSE /\ FindModule(stk, e).stk = q
      BY <2>1, <3>1, <3>2
    <3> QED BY <1>3, <2>0, <2>4, <3>3
  <2>5. CASE e.required # "error"
    <3>1. load_lua_library(q, e) = [ok |-> TRUE, stk |-> RemoveAt(q \o r, Len(q) + 1)]
      BY <2>5 DEF load_lua_library
    <3>2. CVal(e.required, "require") \in Values
      BY <2>5 DEF Environments, CVal, Val, Values, Sources
    <3> DEFINE z == CVal(e.required, "require")
    <3>3. RemoveAt(q \o r, Len(q) + 1) = q \o <<z>>
      <4> HIDE DEF q
      <4> QED BY <1>2, <2>2, <3>2, RemoveSecond
    <3>4. q \o <<z>> = stk \o (p \o <<z>>)
      <4> HIDE DEF p, z
      <4> QED BY <1>1, <3>2
    <3>5. /\ p \o <<z>> \in Seq(Values) /\ Len(p \o <<z>>) >= 3
          /\ (p \o <<z>>)[Len(p \o <<z>>)] = z
      <4> DEFINE y == <<z>>
      <4>1. y \in Seq(Values) /\ Len(y) = 1 /\ y[1] = z
        BY <3>2
      <4> HIDE DEF p, y, z
      <4>2. p \o y \in Seq(Values) /\ Len(p \o y) = Len(p) + Len(y)
        BY <1>1, <4>1, ConcatProperties
      <4>3. Len(p \o y) >= 3
        BY <1>1, <4>1, <4>2
      <4>4. (p \o y)[Len(p) + Len(y)] = z
        <5>0. p \in Seq(Values) /\ y \in Seq(Values) /\ Len(y) >= 1
          BY <1>1, <4>1
        <5>1. (p \o y)[Len(p) + Len(y)] = y[Len(y)]
          BY <5>0, TopOfConcat, Zenon
        <5> QED BY <4>1, <5>1
      <4> QED BY <1>1, <4>1, <4>2, <4>3, <4>4 DEF y
    <3>6. FindModule(stk, e) = [ok |-> TRUE, stk |-> stk \o (p \o <<z>>)]
      <4> HIDE DEF p, z, q, r
      <4> QED BY <2>1, <3>1, <3>3, <3>4
    <3>7. FindModule(stk, e).ok = TRUE /\ FindModule(stk, e).stk = stk \o (p \o <<z>>)
      <4> HIDE DEF p, z
      <4> QED BY <3>6
    <3>8. \E t \in Seq(Values) : /\ Len(t) >= 3 /\ FindModule(stk, e).stk = stk \o t
                                 /\ t[Len(t)].kind = ModuleValue(e)
      <4> DEFINE t == p \o <<z>>
      <4>1. t \in Seq(Values) /\ Len(t) >= 3 /\ t[Len(t)] = z
        BY <3>5
      <4>2. z.kind = ModuleValue(e)
        BY <2>0 DEF CVal, Val
      <4> HIDE DEF t, p, z
      <4> QED BY <3>7, <4>1, <4>2 DEF t
    <3> QED BY <2>0, <2>5, <3>7, <3>8
  <2> QED BY <2>4, <2>5
<1> QED BY <1>4, <1>5

(* The second half of find_lua_function leaves at least three of them, the  *)
(* top one the candidate, which the module's value decides on.              *)
FieldKind(kind, e) ==
  CASE kind = "table" -> e.field [] kind = "true" -> e.global [] OTHER -> "nil"

LEMMA FoundField ==
  ASSUME NEW stk \in Seq(Values), NEW e \in Environments,
         NEW t \in Seq(Values), Len(t) >= 3
  PROVE  \E u \in Seq(Values) : /\ Len(u) >= 3 /\ FindField(stk \o t, e) = stk \o u
                                /\ u[Len(u)].kind = FieldKind(t[Len(t)].kind, e)
<1>1. /\ CVal(e.field, "field") \in Values
      /\ CVal(e.global, "global") \in Values
      /\ CVal("nil", "none") \in Values
  BY DEF Environments, CVal, Val, Values, Kinds, Sources
<1>0. Last(stk \o t) = t[Len(t)]
  BY ReplaceTop
<1>2. ASSUME NEW v \in Values
      PROVE  \E u \in Seq(Values) : /\ Len(u) >= 3 /\ Append(stk \o t, v) = stk \o u
                                    /\ u[Len(u)] = v
  <2>1. /\ Append(t, v) \in Seq(Values) /\ Len(Append(t, v)) = Len(t) + 1
        /\ Append(stk \o t, v) = stk \o Append(t, v)
        /\ Append(t, v)[Len(t) + 1] = v
    OBVIOUS
  <2>2. Len(Append(t, v)) >= 3
    BY <2>1
  <2> QED BY <2>1, <2>2
<1>3. ASSUME NEW v \in Values
      PROVE  \E u \in Seq(Values) :
               Len(u) >= 3 /\ Append(Pop(stk \o t, 1), v) = stk \o u /\ u[Len(u)] = v
  <2> DEFINE d == SubSeq(t, 1, Len(t) - 1)
  <2>1. d \in Seq(Values) /\ Len(d) = Len(t) - 1
    OBVIOUS
  <2>2. Pop(stk \o t, 1) = stk \o d
    <3> DEFINE w == stk \o t
               n == Len(stk) + Len(t) - 1
    <3>1. w \in Seq(Values) /\ Len(w) = Len(stk) + Len(t) /\ n \in Nat /\ n <= Len(w)
      OBVIOUS
    <3>2. Pop(w, 1) = SubSeq(w, 1, n)
      BY <3>1 DEF Pop, settop
    <3>3. /\ SubSeq(w, 1, n) \in Seq(Values)
          /\ Len(SubSeq(w, 1, n)) = n
          /\ \A i \in 1..n : SubSeq(w, 1, n)[i] = w[i]
      <4> HIDE DEF w, n
      <4> QED BY <3>1
    <3>4. stk \o d \in Seq(Values) /\ Len(stk \o d) = n
      <4> HIDE DEF d
      <4> QED BY <2>1
    <3>5. \A i \in 1..n : (stk \o d)[i] = w[i]
      OBVIOUS
    <3> HIDE DEF w, n, d
    <3>6. SubSeq(w, 1, n) = stk \o d
      BY <3>3, <3>4, <3>5, SeqEqual
    <3> QED BY <3>2, <3>6 DEF w
  <2> HIDE DEF d
  <2>3. /\ Append(d, v) \in Seq(Values) /\ Len(Append(d, v)) = Len(d) + 1
        /\ Append(stk \o d, v) = stk \o Append(d, v)
        /\ Append(d, v)[Len(d) + 1] = v
    BY <2>1, SMTT(60)
  <2>4. Len(Append(d, v)) >= 3
    BY <2>1, <2>3
  <2> QED BY <2>2, <2>3, <2>4
<1>4. CASE t[Len(t)].kind = "table"
  <2>1. FindField(stk \o t, e) = Append(stk \o t, CVal(e.field, "field"))
    BY <1>0, <1>4 DEF FindField
  <2>2. CVal(e.field, "field").kind = FieldKind(t[Len(t)].kind, e)
    BY <1>4 DEF CVal, Val, FieldKind
  <2> QED BY <1>1, <1>2, <2>1, <2>2
<1>5. CASE t[Len(t)].kind = "true"
  <2>1. FindField(stk \o t, e) = Append(Pop(stk \o t, 1), CVal(e.global, "global"))
    BY <1>0, <1>5 DEF FindField
  <2>2. CVal(e.global, "global").kind = FieldKind(t[Len(t)].kind, e)
    BY <1>5 DEF CVal, Val, FieldKind
  <2> QED BY <1>1, <1>3, <2>1, <2>2
<1>6. CASE t[Len(t)].kind # "table" /\ t[Len(t)].kind # "true"
  <2>1. FindField(stk \o t, e) = Append(stk \o t, CVal("nil", "none"))
    BY <1>0, <1>6 DEF FindField
  <2>2. CVal("nil", "none").kind = FieldKind(t[Len(t)].kind, e)
    BY <1>6 DEF CVal, Val, FieldKind
  <2> QED BY <1>1, <1>2, <2>1, <2>2
<1> QED BY <1>4, <1>5, <1>6

(* find_lua_function succeeds exactly when the module, loaded or just       *)
(* required, is a table with such a function, or is true and there is such  *)
(* a global function; then it adds the function to the stack, and otherwise *)
(* it leaves the stack as it was, whichever of its returns it takes.        *)
THEOREM FindLuaFunction ==
  ASSUME NEW stk \in Seq(Values), NEW e \in Environments
  PROVE  \/ /\ Resolves(e) /\ find_lua_function(stk, e).ok = TRUE
            /\ \E f \in Values : /\ IsFunction(f)
                                 /\ find_lua_function(stk, e).stk = Append(stk, f)
         \/ /\ ~Resolves(e) /\ find_lua_function(stk, e).ok = FALSE
            /\ find_lua_function(stk, e).stk = stk
<1> DEFINE m == FindModule(stk, e)
           f == FindField(m.stk, e)
           n == Len(stk)
           unnamed == e.module = "empty" \/ e.func = "empty"
<1>1. find_lua_function(stk, e) =
        IF unnamed THEN [ok |-> FALSE, stk |-> stk]
        ELSE IF m.ok /\ IsFunction(Last(f))
        THEN [ok |-> TRUE, stk |-> settop(Replace(f, n + 1), n + 1)]
        ELSE [ok |-> FALSE, stk |-> settop(IF m.ok THEN f ELSE m.stk, n)]
  BY DEF find_lua_function
<1>2. m.ok \in BOOLEAN /\ (m.ok <=> ModuleValue(e) # "error") /\ (~m.ok => settop(m.stk, n) = stk)
  BY FoundModule
<1>3. m.ok => \E u \in Seq(Values) : /\ Len(u) >= 3 /\ f = stk \o u
                                     /\ u[Len(u)].kind = FieldKind(ModuleValue(e), e)
  <2> SUFFICES ASSUME m.ok
               PROVE  \E u \in Seq(Values) : /\ Len(u) >= 3 /\ f = stk \o u
                                            /\ u[Len(u)].kind = FieldKind(ModuleValue(e), e)
    OBVIOUS
  <2>1. PICK t \in Seq(Values) : /\ Len(t) >= 3 /\ m.stk = stk \o t
                                 /\ t[Len(t)].kind = ModuleValue(e)
    BY FoundModule
  <2>2. \E u \in Seq(Values) : /\ Len(u) >= 3 /\ FindField(stk \o t, e) = stk \o u
                               /\ u[Len(u)].kind = FieldKind(t[Len(t)].kind, e)
    BY <2>1, FoundField
  <2>3. f = FindField(stk \o t, e)
    BY <2>1
  <2> HIDE DEF m, f
  <2> QED BY <2>1, <2>2, <2>3
<1> HIDE DEF m, f, n
<1>4. CASE unnamed
  <2>1. find_lua_function(stk, e) = [ok |-> FALSE, stk |-> stk]
    BY <1>1, <1>4
  <2>2. ~Resolves(e)
    BY <1>4 DEF Resolves
  <2> QED BY <2>1, <2>2
<1>5. CASE ~unnamed /\ ~m.ok
  <2>1. find_lua_function(stk, e) = [ok |-> FALSE, stk |-> settop(m.stk, n)]
    BY <1>1, <1>5
  <2>2. ~Resolves(e)
    BY <1>2, <1>5 DEF Resolves
  <2> QED BY <1>2, <1>5, <2>1, <2>2
<1>6. CASE ~unnamed /\ m.ok
  <2>1. PICK u \in Seq(Values) : /\ Len(u) >= 3 /\ f = stk \o u
                                 /\ u[Len(u)].kind = FieldKind(ModuleValue(e), e)
    BY <1>3, <1>6
  <2>2. Len(u) >= 2 /\ u[Len(u)] \in Values
    BY <2>1
  <2>3. Last(f) = u[Len(u)] /\ settop(Replace(f, n + 1), n + 1) = Append(stk, u[Len(u)])
    BY <2>1, <2>2, ReplaceTop DEF n
  <2>4. settop(f, n) = stk
    BY <2>1, SettopConcat DEF n
  <2>5. IsFunction(Last(f)) <=> Resolves(e)
    <3>1. e.module = "named" /\ e.func = "named"
      BY <1>6 DEF Environments
    <3> QED BY <2>1, <2>3, <3>1 DEF IsFunction, Resolves, FieldKind
  <2>6. CASE IsFunction(Last(f))
    <3>1. find_lua_function(stk, e) = [ok |-> TRUE, stk |-> settop(Replace(f, n + 1), n + 1)]
      BY <1>1, <1>6, <2>6
    <3>2. /\ find_lua_function(stk, e).ok = TRUE
          /\ find_lua_function(stk, e).stk = Append(stk, u[Len(u)])
      BY <2>3, <3>1
    <3>3. IsFunction(u[Len(u)])
      BY <2>3, <2>6
    <3> QED BY <2>2, <2>5, <2>6, <3>2, <3>3
  <2>7. CASE ~IsFunction(Last(f))
    <3>1. find_lua_function(stk, e) = [ok |-> FALSE, stk |-> settop(f, n)]
      BY <1>1, <1>6, <2>7
    <3> QED BY <2>4, <2>5, <2>7, <3>1
  <2> QED BY <2>6, <2>7
<1> QED BY <1>2, <1>4, <1>5, <1>6

(* find_lua_global_function does the same for a global.                     *)
LEMMA FindLuaGlobalFunction ==
  ASSUME NEW stk \in Seq(Values), NEW kind \in Kinds
  PROVE  \/ /\ kind = "function" /\ find_lua_global_function(stk, kind).ok = TRUE
            /\ \E f \in Values : find_lua_global_function(stk, kind).stk = Append(stk, f)
         \/ /\ kind # "function" /\ find_lua_global_function(stk, kind).ok = FALSE
            /\ find_lua_global_function(stk, kind).stk = stk
<1> DEFINE v == CVal(kind, "global")
           pushed == Append(stk, v)
<1>1. v \in Values
  BY DEF CVal, Val, Values, Sources
<1>2. find_lua_global_function(stk, kind) =
        IF IsFunction(Last(pushed)) THEN [ok |-> TRUE, stk |-> pushed]
        ELSE [ok |-> FALSE, stk |-> Pop(pushed, 1)]
  BY DEF find_lua_global_function
<1>3. Pop(pushed, 1) = stk
  <2> HIDE DEF v
  <2>1. pushed \in Seq(Values) /\ Len(pushed) = Len(stk) + 1 /\ Len(stk) \in Nat
    BY <1>1
  <2>2. \A i \in 1..Len(stk) : pushed[i] = stk[i]
    BY <1>1
  <2> HIDE DEF pushed
  <2>3. Len(pushed) - 1 = Len(stk)
    BY <2>1
  <2>4. Pop(pushed, 1) = SubSeq(pushed, 1, Len(stk))
    BY <2>3 DEF Pop, settop
  <2>5. /\ SubSeq(pushed, 1, Len(stk)) \in Seq(Values)
        /\ Len(SubSeq(pushed, 1, Len(stk))) = Len(stk)
        /\ \A i \in 1..Len(stk) : SubSeq(pushed, 1, Len(stk))[i] = pushed[i]
    BY <2>1
  <2>6. SubSeq(pushed, 1, Len(stk)) = stk
    BY <2>2, <2>5, SeqEqual
  <2> QED BY <2>4, <2>6
<1>0. IsFunction(Last(pushed)) <=> kind = "function"
  <2>1. Last(pushed) = v
    <3> HIDE DEF v
    <3> QED BY <1>1 DEF Last
  <2>2. v.kind = kind
    BY DEF CVal, Val
  <2> HIDE DEF v, pushed
  <2> QED BY <2>1, <2>2 DEF IsFunction
<1> HIDE DEF v
<1>4. CASE IsFunction(Last(pushed))
  <2>1. find_lua_global_function(stk, kind) = [ok |-> TRUE, stk |-> pushed]
    BY <1>2, <1>4
  <2> QED BY <1>0, <1>1, <1>4, <2>1
<1>5. CASE ~IsFunction(Last(pushed))
  <2>1. find_lua_global_function(stk, kind) = [ok |-> FALSE, stk |-> Pop(pushed, 1)]
    BY <1>2, <1>5
  <2> QED BY <1>0, <1>3, <1>5, <2>1
<1> QED BY <1>4, <1>5

-------------------------------------------------------------------------------
(* The stack of the frame                                                     *)

\* package.loaded has an entry for every module whose chunk has been run.
OnceInv == \A m \in Modules : runs[m] \in {0, 1} /\ (runs[m] = 1 => loaded[m] # "nil")

FrameInv == DispatchBalanced /\ ResultsCounted /\ OnceInv

ScriptOutcomes ==
  {o \in [error : BOOLEAN, values : Seq(Values)] : o.error => o.values = <<>>}

-------------------------------------------------------------------------------

\* A call leaves values on the stack, whether it fails or not.
LEMMA LeftValues ==
  ASSUME NEW outcome \in ScriptOutcomes
  PROVE  Left(outcome) \in Seq(Values)
<1>1. <<Message>> \in Seq(Values)
  BY MessageValue
<1> QED BY <1>1 DEF Left, ScriptOutcomes

\* call_lua_script with a function and its arguments on top: they give way to
\* the results, which are counted, and what is below them stays.
LEMMA CallOnTop ==
  ASSUME NEW stk \in Seq(Values), NEW top \in Seq(Values), NEW args \in Nat,
         Len(top) = args + 1, NEW outcome \in ScriptOutcomes
  PROVE  /\ call_lua_script(stk \o top, args, outcome).ret = Len(outcome.values)
         /\ call_lua_script(stk \o top, args, outcome).stk = stk \o Left(outcome)
<1> DEFINE all == stk \o top
           err == outcome.error
           values == outcome.values
           under == settop(all, Len(all) - 1 - args)
<1>1. err \in BOOLEAN /\ values \in Seq(Values) /\ (err => values = <<>>)
      /\ outcome = [error |-> err, values |-> values]
  BY DEF ScriptOutcomes
<1>2. all \in Seq(Values) /\ Len(all) = Len(stk) + Len(top) /\ Len(stk) \in Nat
  BY ConcatProperties
<1>3. Len(all) >= args + 1 /\ Len(all) - 1 - args = Len(stk)
  <2> HIDE DEF all
  <2> QED BY <1>2
<1>4. under = stk
  <2>1. settop(all, Len(stk)) = stk
    BY SettopConcat
  <2> HIDE DEF all
  <2> QED BY <1>3, <2>1
<1>5. call_lua_script(all, args, [error |-> err, values |-> values]) =
        [ret |-> IF err THEN 0 ELSE Len(values),
         stk |-> under \o (IF err THEN <<Message>> ELSE values)]
  <2> HIDE DEF all, err, values
  <2> QED BY <1>1, <1>2, <1>3, CalledScript, ZenonT(60)
<1> DEFINE c == call_lua_script(all, args, outcome)
           left == IF err THEN <<Message>> ELSE values
<1>6. c = [ret |-> IF err THEN 0 ELSE Len(values), stk |-> under \o left]
  <2>1. c = call_lua_script(all, args, [error |-> err, values |-> values])
    <3> HIDE DEF all, err, values
    <3> QED BY <1>1
  <2> HIDE DEF c
  <2> QED BY <1>5, <2>1
<1>7. c.ret = (IF err THEN 0 ELSE Len(values)) /\ c.stk = under \o left
  <2> HIDE DEF c, under, left, err, values
  <2> QED BY <1>6
<1>8. (IF err THEN 0 ELSE Len(values)) = Len(values)
  <2> HIDE DEF err, values
  <2> QED BY <1>1
<1>9. left = Left(outcome)
  BY DEF Left
<1> HIDE DEF c, under, left
<1>10. c.ret = Len(values) /\ c.stk = stk \o Left(outcome)
  BY <1>4, <1>7, <1>8, <1>9
<1> QED BY <1>10 DEF c

\* rpc_dispatch, the lookup and the call together.
LEMMA DispatchLeaves ==
  ASSUME NEW stk \in Seq(Values), NEW e \in Environments, NEW outcome \in ScriptOutcomes
  PROVE  rpc_dispatch(stk, e, outcome) =
           stk \o (IF Resolves(e) THEN Left(outcome) ELSE <<>>)
<1> DEFINE found == find_lua_function(stk, e)
<1>1. rpc_dispatch(stk, e, outcome) =
        IF found.ok THEN call_lua_script(found.stk, 0, outcome).stk ELSE found.stk
  BY DEF rpc_dispatch
<1>2. CASE Resolves(e)
  <2>1. found.ok = TRUE
    BY <1>2, FindLuaFunction
  <2>2. PICK f \in Values : found.stk = Append(stk, f)
    BY <1>2, FindLuaFunction
  <2> HIDE DEF found
  <2> DEFINE top == <<f>>
  <2>3. top \in Seq(Values) /\ Len(top) = 0 + 1 /\ 0 \in Nat
    OBVIOUS
  <2>4. found.stk = stk \o top
    BY <2>2, AppendIsConcat
  <2> HIDE DEF top
  <2>5. call_lua_script(stk \o top, 0, outcome).stk = stk \o Left(outcome)
    BY <2>3, CallOnTop
  <2> QED BY <1>1, <1>2, <2>1, <2>4, <2>5
<1>3. CASE ~Resolves(e)
  <2>1. found.ok = FALSE /\ found.stk = stk
    BY <1>3, FindLuaFunction
  <2>2. stk \o <<>> = stk
    BY ConcatEmptySeq
  <2> HIDE DEF found
  <2> QED BY <1>1, <1>3, <2>1, <2>2
<1> QED BY <1>2, <1>3

\* A lookup of a global and a call with one argument.
LEMMA GlobalLeaves ==
  ASSUME NEW stk \in Seq(Values), NEW kind \in Kinds, NEW arg \in Values,
         NEW outcome \in ScriptOutcomes
  PROVE  LET found == find_lua_global_function(stk, kind)
             called == call_lua_script(Append(found.stk, arg), 1, outcome)
         IN /\ kind = "function" => /\ found.ok = TRUE
                                    /\ called.ret = Len(outcome.values)
                                    /\ called.stk = stk \o Left(outcome)
            /\ kind # "function" => found.ok = FALSE /\ found.stk = stk
<1> DEFINE found == find_lua_global_function(stk, kind)
           called == call_lua_script(Append(found.stk, arg), 1, outcome)
<1>1. kind # "function" => found.ok = FALSE /\ found.stk = stk
  BY FindLuaGlobalFunction
<1>2. ASSUME kind = "function"
      PROVE  found.ok = TRUE /\ called.ret = Len(outcome.values) /\ called.stk = stk \o Left(outcome)
  <2>1. found.ok = TRUE
    BY <1>2, FindLuaGlobalFunction
  <2>2. PICK f \in Values : found.stk = Append(stk, f)
    BY <1>2, FindLuaGlobalFunction
  <2> DEFINE top == <<f, arg>>
  <2>3. top \in Seq(Values) /\ Len(top) = 1 + 1 /\ 1 \in Nat
    OBVIOUS
  <2>4. Append(Append(stk, f), arg) = stk \o top
    OBVIOUS
  <2> HIDE DEF top
  <2>5. /\ call_lua_script(stk \o top, 1, outcome).ret = Len(outcome.values)
        /\ call_lua_script(stk \o top, 1, outcome).stk = stk \o Left(outcome)
    BY <2>3, CallOnTop
  <2>6. called = call_lua_script(stk \o top, 1, outcome)
    <3> HIDE DEF found
    <3> QED BY <2>2, <2>4
  <2> HIDE DEF found, called
  <2> QED BY <2>1, <2>5, <2>6
<1> HIDE DEF found, called
<1>3. /\ kind = "function" => /\ found.ok = TRUE
                              /\ called.ret = Len(outcome.values)
                              /\ called.stk = stk \o Left(outcome)
      /\ kind # "function" => found.ok = FALSE /\ found.stk = stk
  BY <1>1, <1>2
<1> QED BY <1>3 DEF found, called

\* Two stacks on top of each other.
LEMMA Stacked ==
  ASSUME NEW S, NEW s \in Seq(S), NEW t \in Seq(S)
  PROVE  /\ s \o t \in Seq(S) /\ Len(s \o t) = Len(s) + Len(t)
         /\ Len(s) \in Nat /\ Len(t) \in Nat
         /\ \A i \in 1..Len(t) : (s \o t)[Len(s) + i] = t[i]
  OBVIOUS

\* The values above a stack are the ones that were put there.
LEMMA UpperPart ==
  ASSUME NEW S, NEW s \in Seq(S), NEW t \in Seq(S)
  PROVE  SubSeq(s \o t, Len(s) + 1, Len(s \o t)) = t
<1> DEFINE after == s \o t
           m == Len(s)
           n == Len(t)
           part == SubSeq(after, m + 1, m + n)
<1>1. after \in Seq(S) /\ Len(after) = m + n /\ m \in Nat /\ n \in Nat
  OBVIOUS
<1>2. \A i \in 1..n : after[m + i] = t[i]
  OBVIOUS
<1>3. part \in Seq(S) /\ Len(part) = n /\ \A i \in 1..n : part[i] = after[m + i]
  <2> HIDE DEF after, m, n
  <2>1. CASE n = 0
    <3>1. part = <<>>
      BY <1>1, <2>1, SubSeqEmpty
    <3>2. <<>> \in Seq(S) /\ Len(<<>>) = 0
      OBVIOUS
    <3> HIDE DEF part
    <3> QED BY <2>1, <3>1, <3>2
  <2>2. CASE n > 0
    <3>1. part \in Seq(S) /\ Len(part) = n
      BY <1>1, <2>2
    <3>2. \A i \in 1..n : part[i] = after[m + 1 + i - 1]
      BY <1>1, <2>2
    <3>3. \A i \in 1..n : m + 1 + i - 1 = m + i
      BY <1>1
    <3> HIDE DEF part
    <3> QED BY <3>1, <3>2, <3>3
  <2>3. n = 0 \/ n > 0
    BY <1>1
  <2> HIDE DEF part
  <2> QED BY <2>1, <2>2, <2>3
<1>4. part = t
  <2>1. \A i \in 1..n : part[i] = t[i]
    BY <1>2, <1>3
  <2> HIDE DEF part, after
  <2> QED BY <1>3, <2>1, SeqEqual
<1> HIDE DEF after, part
<1>5. SubSeq(after, m + 1, Len(after)) = t
  BY <1>1, <1>4 DEF part
<1> QED BY <1>5 DEF after

\* lua_call_script: with the names, the traceback function and the arguments on
\* the stack of its frame, it returns the results of the function it looked up.
LEMMA CallScriptReturns ==
  ASSUME NEW frame \in Seq(Values), Len(frame) >= 2, NEW e \in Environments,
         NEW outcome \in ScriptOutcomes
  PROVE  lua_call_script(frame, e, outcome) =
           IF Resolves(e) THEN outcome.values ELSE <<>>
<1> DEFINE pushed == <<CVal("function", "traceback")>> \o frame
           args == IF Len(pushed) < 3 THEN 0 ELSE Len(pushed) - 3
           found == find_lua_function(pushed, e)
           ready == Replace(found.stk, 3)
           after == Pcall(ready, args, outcome)
           ret == Len(after) - 2
<1>1. lua_call_script(frame, e, outcome) =
        IF Len(frame) < 2 \/ ~found.ok \/ outcome.error THEN <<>>
        ELSE SubSeq(after, Len(after) - ret + 1, Len(after))
  BY DEF lua_call_script
<1>2. pushed \in Seq(Values) /\ Len(pushed) = Len(frame) + 1 /\ Len(frame) \in Nat
  <2> DEFINE trace == <<CVal("function", "traceback")>>
  <2>1. trace \in Seq(Values) /\ Len(trace) = 1
    <3>1. CVal("function", "traceback") \in Values
      BY DEF CVal, Val, Values, Kinds, Sources
    <3> QED BY <3>1
  <2> HIDE DEF trace
  <2>2. trace \o frame \in Seq(Values) /\ Len(trace \o frame) = Len(frame) + 1
    <3>1. trace \o frame \in Seq(Values) /\ Len(trace \o frame) = Len(trace) + Len(frame)
      BY <2>1, Stacked
    <3> QED BY <2>1, <3>1
  <2> QED BY <2>2 DEF trace
<1>3. outcome.values \in Seq(Values) /\ (outcome.error => outcome.values = <<>>)
      /\ outcome.error \in BOOLEAN
  BY DEF ScriptOutcomes
<1> HIDE DEF pushed
<1>4. args = Len(pushed) - 3
  BY <1>2
<1>5. CASE ~Resolves(e)
  <2>1. found.ok = FALSE
    BY <1>2, <1>5, FindLuaFunction
  <2> HIDE DEF found, after, ret
  <2> QED BY <1>1, <1>5, <2>1
<1>6. CASE outcome.error
  <2> HIDE DEF found, after, ret
  <2> QED BY <1>1, <1>3, <1>6
<1>7. CASE Resolves(e) /\ ~outcome.error
  <2>1. found.ok = TRUE
    BY <1>2, <1>7, FindLuaFunction
  <2>2. PICK f \in Values : found.stk = Append(pushed, f)
    BY <1>2, <1>7, FindLuaFunction
  <2> HIDE DEF found
  <2>3. ready \in Seq(Values) /\ Len(ready) = Len(pushed)
    <3> DEFINE whole == Append(pushed, f)
               put == [whole EXCEPT ![3] = Last(whole)]
    <3>1. /\ whole \in Seq(Values) /\ Len(whole) = Len(pushed) + 1
          /\ Len(pushed) \in Nat /\ Last(whole) = f
      BY <1>2 DEF Last
    <3>2. put \in Seq(Values) /\ Len(put) = Len(pushed) + 1
      <4>1. 3 \in 1..Len(whole)
        BY <1>2, <3>1
      <4> HIDE DEF whole
      <4>2. put \in Seq(Values) /\ Len(put) = Len(whole)
        BY <3>1, <4>1, ExceptSeq
      <4> QED BY <3>1, <4>2
    <3>3. ready = SubSeq(put, 1, Len(put) - 1)
      BY <2>2 DEF Replace, Front
    <3> HIDE DEF put, ready
    <3>4. Len(put) - 1 = Len(pushed)
      BY <3>1, <3>2
    <3>5. ready = SubSeq(put, 1, Len(pushed))
      BY <3>3, <3>4
    <3> QED BY <3>1, <3>2, <3>5
  <2> HIDE DEF ready
  <2> DEFINE under == settop(ready, Len(ready) - 1 - args)
  <2>4. Len(ready) - 1 - args = 2 /\ 2 <= Len(ready)
    BY <1>2, <1>4, <2>3
  <2>5. under \in Seq(Values) /\ Len(under) = 2
    <3>1. settop(ready, 2) \in Seq(Values) /\ Len(settop(ready, 2)) = 2
      BY <2>3, <2>4, SettopPrefix
    <3> HIDE DEF args
    <3> QED BY <2>4, <3>1
  <2>6. after = under \o outcome.values
    BY <1>7 DEF Pcall
  <2> DEFINE values == outcome.values
  <2>7. SubSeq(after, Len(after) - ret + 1, Len(after)) = values
    <3>1. values \in Seq(Values)
      BY <1>3
    <3> HIDE DEF under, values, after
    <3>2. after = under \o values
      BY <2>6 DEF values
    <3>3. SubSeq(after, Len(under) + 1, Len(after)) = values
      BY <2>5, <3>1, <3>2, UpperPart
    <3>4. Len(after) \in Nat
      BY <2>5, <3>1, <3>2
    <3>5. Len(after) - ret + 1 = Len(under) + 1
      BY <2>5, <3>4
    <3> HIDE DEF ret
    <3> QED BY <3>3, <3>5
  <2> HIDE DEF after, ret
  <2>8. ~(Len(frame) < 2)
    BY <1>2
  <2> QED BY <1>1, <1>7, <2>1, <2>7, <2>8
<1> QED BY <1>5, <1>6, <1>7

-------------------------------------------------------------------------------
(* The invariant. *)

\* The questions of a lookup have the answers find_lua_function may get.
LEMMA EnvTyped ==
  ASSUME FrameTypes, NEW m \in Modules, NEW func \in {"empty", "named"},
         NEW required \in Returns, NEW field \in Found, NEW global \in Found
  PROVE  /\ Env(m, func, required, field, global) \in Environments
         /\ Env(m, func, required, field, global).entry = loaded[m]
         /\ Env(m, func, required, field, global).required \in (Kinds \ {"nil"}) \cup {"error"}
BY FrameAssumption DEF FrameTypes, Env, Environments

\* require runs the chunk of a module without an entry and leaves one, unless
\* there is no such chunk.
LEMMA LookupKeeps ==
  ASSUME FrameTypes, OnceInv, NEW m \in Modules, NEW e \in Environments, e.entry = loaded[m],
         e.required \in (Kinds \ {"nil"}) \cup {"error"}, AfterLookup(m, e)
  PROVE  /\ loaded' \in [Modules -> Kinds] /\ runs' \in [Modules -> Nat] /\ OnceInv'
         /\ \A k \in Modules :
              runs'[k] <= 1 /\ (runs[k] = 1 => loaded'[k] = loaded[k] /\ loaded[k] # "nil")
<1>0. \A k \in Modules : runs[k] \in {0, 1} /\ (runs[k] = 1 => loaded[k] # "nil")
  BY DEF OnceInv
<1>1. CASE RunsChunk(e)
  <2>1. loaded[m] = "nil" /\ runs[m] = 0
    BY <1>0, <1>1 DEF RunsChunk, NeedsLoad
  <2>2. PICK r \in Require(e) : /\ loaded' = [loaded EXCEPT ![m] = r.entry]
                                /\ runs' = [runs EXCEPT ![m] = @ + r.run]
    BY <1>1 DEF AfterLookup
  <2>3. r.entry \in Kinds /\ (r.run = 0 \/ (r.run = 1 /\ r.entry # "nil"))
    <3>1. CASE e.required = "error"
      BY <3>1 DEF Require, Kinds
    <3>2. CASE e.required # "error"
      BY <3>2 DEF Require
    <3> QED BY <3>1, <3>2
  <2>4. PICK k \in {0, 1}, v \in Kinds :
          /\ loaded' = [loaded EXCEPT ![m] = v] /\ runs' = [runs EXCEPT ![m] = k]
          /\ k = 1 => v # "nil"
    <3>1. PICK k \in {0, 1} : k = r.run /\ runs[m] + r.run = k
      BY <2>1, <2>3
    <3>2. PICK v \in Kinds : v = r.entry
      BY <2>3
    <3>3. runs' = [runs EXCEPT ![m] = k] /\ loaded' = [loaded EXCEPT ![m] = v]
      BY <2>2, <3>1, <3>2
    <3>4. k = 1 => v # "nil"
      BY <2>3, <3>1, <3>2
    <3> QED BY <3>3, <3>4
  <2>5. loaded' \in [Modules -> Kinds] /\ runs' \in [Modules -> Nat]
    BY <2>4 DEF FrameTypes
  <2>6. OnceInv'
    BY <1>0, <2>4 DEF OnceInv, FrameTypes
  <2>7. \A j \in Modules :
          runs'[j] <= 1 /\ (runs[j] = 1 => loaded'[j] = loaded[j] /\ loaded[j] # "nil")
    BY <1>0, <2>1, <2>4 DEF FrameTypes
  <2> QED BY <2>5, <2>6, <2>7
<1>2. CASE ~RunsChunk(e)
  <2>1. loaded' = loaded /\ runs' = runs
    BY <1>2 DEF AfterLookup
  <2> QED BY <1>0, <2>1 DEF OnceInv, FrameTypes
<1> QED BY <1>1, <1>2

\* What a step may do to the entries of package.loaded.
LoadedStep ==
  \A m \in Modules :
    runs'[m] <= 1 /\ (runs[m] = 1 => loaded'[m] = loaded[m] /\ loaded[m] # "nil")

\* A result, or the message instead of the results, fits under the bound.
LEMMA WithinBound ==
  ASSUME NEW a \in Nat, NEW b \in Nat, NEW c \in Nat, NEW bound \in Nat,
         a + b < bound, c <= b \/ c = 1
  PROVE  a + c <= bound
OBVIOUS

LEMMA DispatchStep ==
  ASSUME FrameInv, NEW m \in Modules, NEW e \in Environments,
         e.entry = loaded[m], e.required \in (Kinds \ {"nil"}) \cup {"error"},
         NEW outcome \in ScriptOutcomes, Dispatch(m, e, outcome)
  PROVE  FrameInv' /\ LoadedStep
<1>1. FrameTypes /\ OnceInv
  BY DEF FrameInv, DispatchBalanced
<1>2. fstack \in Seq(Values) /\ Len(fstack) + Len(outcome.values) < MaxStack /\ MaxStack \in Nat
      /\ outcome.values \in Seq(Values)
  BY <1>1, FrameAssumption DEF FrameTypes, Dispatch, ScriptOutcomes
<1>3. AfterLookup(m, e)
      /\ last' = [op |-> "dispatch", before |-> fstack, env |-> e, outcome |-> outcome]
      /\ fstack' = rpc_dispatch(fstack, e, outcome)
  BY DEF Dispatch
<1>4. /\ loaded' \in [Modules -> Kinds] /\ runs' \in [Modules -> Nat] /\ OnceInv'
      /\ LoadedStep
  BY <1>1, <1>3, LookupKeeps DEF LoadedStep
<1> DEFINE left == IF Resolves(e) THEN Left(outcome) ELSE <<>>
<1>5. fstack' = fstack \o left
  BY <1>2, <1>3, DispatchLeaves
<1>6. left \in Seq(Values) /\ (Len(left) <= Len(outcome.values) \/ Len(left) = 1)
  <2>1. Left(outcome) \in Seq(Values)
    BY LeftValues
  <2>2. Left(outcome) = outcome.values \/ Left(outcome) = <<Message>>
    BY DEF Left
  <2>3. <<>> \in Seq(Values) /\ Len(<<>>) = 0 /\ Len(<<Message>>) = 1
    OBVIOUS
  <2>4. Len(outcome.values) \in Nat
    BY <1>2
  <2> QED BY <2>1, <2>2, <2>3, <2>4
<1> HIDE DEF left
<1>7. fstack' \in Seq(Values) /\ Len(fstack') <= MaxStack
  <2>1. fstack' \in Seq(Values) /\ Len(fstack') = Len(fstack) + Len(left)
    BY <1>2, <1>5, <1>6, Stacked
  <2>2. Len(fstack) \in Nat /\ Len(left) \in Nat /\ Len(outcome.values) \in Nat
    BY <1>2, <1>6
  <2>3. Len(fstack) + Len(left) <= MaxStack
    BY <1>2, <1>6, <2>2, WithinBound
  <2> QED BY <2>1, <2>3
<1>8. DispatchBalanced'
  <2>1. last'.op = "dispatch" /\ last'.before = fstack /\ last'.env = e /\ last'.outcome = outcome
    BY <1>3
  <2>2. FrameTypes'
    BY <1>4, <1>7 DEF FrameTypes
  <2>3. fstack' = last'.before \o
                   (IF Resolves(last'.env) THEN Left(last'.outcome) ELSE <<>>)
    BY <1>5, <2>1 DEF left
  <2> QED BY <2>2, <2>3 DEF DispatchBalanced
<1>9. ResultsCounted'
  <2>1. last'.op = "dispatch"
    BY <1>3
  <2> QED BY <2>1 DEF ResultsCounted
<1> QED BY <1>4, <1>8, <1>9 DEF FrameInv

LEMMA CallGlobalStep ==
  ASSUME FrameInv, NEW kind \in Kinds, NEW outcome \in ScriptOutcomes,
         CallGlobal(kind, outcome)
  PROVE  FrameInv' /\ LoadedStep
<1>1. FrameTypes /\ OnceInv
  BY DEF FrameInv, DispatchBalanced
<1>2. fstack \in Seq(Values) /\ Len(fstack) + Len(outcome.values) < MaxStack /\ MaxStack \in Nat
      /\ outcome.values \in Seq(Values)
  BY <1>1, FrameAssumption DEF FrameTypes, CallGlobal, ScriptOutcomes
<1> DEFINE arg == CVal("table", "request")
           found == find_lua_global_function(fstack, kind)
           called == call_lua_script(Append(found.stk, arg), 1, outcome)
           left == IF kind = "function" THEN Left(outcome) ELSE <<>>
           count == IF kind = "function" THEN Len(outcome.values) ELSE 0
<1>3. arg \in Values
  BY DEF CVal, Val, Values, Kinds, Sources
<1>4. /\ kind = "function" => /\ found.ok = TRUE
                              /\ called.ret = Len(outcome.values)
                              /\ called.stk = fstack \o Left(outcome)
      /\ kind # "function" => found.ok = FALSE /\ found.stk = fstack
  <2> HIDE DEF arg
  <2> QED BY <1>2, <1>3, GlobalLeaves
<1>5. /\ fstack' = IF found.ok THEN called.stk ELSE found.stk
      /\ last' = [op |-> "global", before |-> fstack, kind |-> kind, outcome |-> outcome,
                  ret |-> IF found.ok THEN called.ret ELSE 0]
      /\ loaded' = loaded /\ runs' = runs
  BY DEF CallGlobal
<1> HIDE DEF arg, found, called
<1>6. fstack \o <<>> = fstack
  BY <1>2, ConcatEmptySeq
<1>7. fstack' = fstack \o left
  BY <1>4, <1>5, <1>6
<1>8. last' = [op |-> "global", before |-> fstack, kind |-> kind, outcome |-> outcome,
               ret |-> count]
  BY <1>4, <1>5
<1>9. left \in Seq(Values) /\ (Len(left) <= Len(outcome.values) \/ Len(left) = 1)
  <2>1. Left(outcome) \in Seq(Values)
    BY LeftValues
  <2>2. Left(outcome) = outcome.values \/ Left(outcome) = <<Message>>
    BY DEF Left
  <2>3. <<>> \in Seq(Values) /\ Len(<<>>) = 0 /\ Len(<<Message>>) = 1
    OBVIOUS
  <2>4. Len(outcome.values) \in Nat
    BY <1>2
  <2> QED BY <2>1, <2>2, <2>3, <2>4
<1> HIDE DEF left, count
<1>10. fstack' \in Seq(Values) /\ Len(fstack') <= MaxStack
  <2>1. fstack' \in Seq(Values) /\ Len(fstack') = Len(fstack) + Len(left)
    BY <1>2, <1>7, <1>9, Stacked
  <2>2. Len(fstack) \in Nat /\ Len(left) \in Nat /\ Len(outcome.values) \in Nat
    BY <1>2, <1>9
  <2>3. Len(fstack) + Len(left) <= MaxStack
    BY <1>2, <1>9, <2>2, WithinBound
  <2> QED BY <2>1, <2>3
<1>11. last'.op = "global" /\ last'.before = fstack /\ last'.kind = kind
       /\ last'.outcome = outcome /\ last'.ret = count
  BY <1>8
<1>12. DispatchBalanced'
  BY <1>1, <1>5, <1>10, <1>11 DEF DispatchBalanced, FrameTypes
<1>13. ResultsCounted'
  BY <1>7, <1>11 DEF ResultsCounted, left, count
<1>14. OnceInv' /\ LoadedStep
  BY <1>1, <1>5 DEF OnceInv, LoadedStep
<1> QED BY <1>12, <1>13, <1>14 DEF FrameInv

LEMMA CallScriptStep ==
  ASSUME FrameInv, NEW m \in Modules, NEW e \in Environments,
         e.entry = loaded[m], e.required \in (Kinds \ {"nil"}) \cup {"error"},
         NEW outcome \in ScriptOutcomes, NEW extra \in {<<>>, <<CVal("nil", "extra")>>},
         CallScript(m, e, extra, outcome)
  PROVE  FrameInv' /\ LoadedStep
<1>1. FrameTypes /\ OnceInv
  BY DEF FrameInv, DispatchBalanced
<1> DEFINE names == <<CVal("text", "module"), CVal("text", "func")>>
           frame == names \o extra
<1>2. frame \in Seq(Values) /\ Len(frame) >= 2
  <2>1. names \in Seq(Values) /\ Len(names) = 2
    <3>1. CVal("text", "module") \in Values /\ CVal("text", "func") \in Values
      BY DEF CVal, Val, Values, Kinds, Sources
    <3> QED BY <3>1
  <2>2. extra \in Seq(Values)
    <3>1. CVal("nil", "extra") \in Values
      BY DEF CVal, Val, Values, Kinds, Sources
    <3> DEFINE v == CVal("nil", "extra")
    <3> HIDE DEF v
    <3>2. v \in Values /\ (extra = <<>> \/ extra = <<v>>)
      BY <3>1 DEF v
    <3>3. <<v>> \in Seq(Values) /\ <<>> \in Seq(Values)
      BY <3>2
    <3> QED BY <3>2, <3>3
  <2> HIDE DEF names
  <2>3. frame \in Seq(Values) /\ Len(frame) = Len(names) + Len(extra) /\ Len(extra) \in Nat
    BY <2>1, <2>2, Stacked
  <2> HIDE DEF frame
  <2> QED BY <2>1, <2>3
<1>3. /\ last' = [op |-> "call_script", env |-> e, outcome |-> outcome,
                  values |-> lua_call_script(frame, e, outcome)]
      /\ AfterLookup(m, e) /\ fstack' = fstack
  BY DEF CallScript
<1> HIDE DEF frame
<1>4. lua_call_script(frame, e, outcome) = IF Resolves(e) THEN outcome.values ELSE <<>>
  BY <1>2, CallScriptReturns
<1>5. /\ loaded' \in [Modules -> Kinds] /\ runs' \in [Modules -> Nat] /\ OnceInv'
      /\ LoadedStep
  BY <1>1, <1>3, LookupKeeps DEF LoadedStep
<1>6. last'.op = "call_script" /\ last'.env = e /\ last'.outcome = outcome
      /\ last'.values = IF Resolves(e) THEN outcome.values ELSE <<>>
  BY <1>3, <1>4
<1>7. DispatchBalanced'
  BY <1>1, <1>3, <1>5, <1>6 DEF DispatchBalanced, FrameTypes
<1>8. ResultsCounted'
  BY <1>6 DEF ResultsCounted
<1> QED BY <1>5, <1>7, <1>8 DEF FrameInv

LEMMA FrameStarts == ASSUME FrameInit PROVE FrameInv
<1>1. FrameTypes
  BY FrameAssumption DEF FrameInit, FrameTypes, Kinds
<1>2. last.op = "none"
  BY DEF FrameInit
<1>3. OnceInv
  BY DEF FrameInit, OnceInv
<1> QED BY <1>1, <1>2, <1>3 DEF FrameInv, DispatchBalanced, ResultsCounted

LEMMA FrameStep ==
  ASSUME FrameInv, [FrameNext]_frameVars
  PROVE  FrameInv' /\ [LoadedStep]_frameVars
<1>1. CASE UNCHANGED frameVars
  BY <1>1 DEF frameVars, FrameInv, DispatchBalanced, ResultsCounted, OnceInv, FrameTypes
<1>2. ASSUME NEW outcome \in Outcomes, NEW kind \in Found, CallGlobal(kind, outcome)
      PROVE  FrameInv' /\ LoadedStep
  <2>1. outcome \in ScriptOutcomes /\ kind \in Kinds
    BY FrameAssumption DEF ScriptOutcomes
  <2> QED BY <1>2, <2>1, CallGlobalStep
<1>3. ASSUME NEW outcome \in Outcomes, NEW m \in Modules, NEW func \in {"empty", "named"},
             NEW required \in Returns, NEW field \in Found, NEW global \in Found,
             LET e == Env(m, func, required, field, global) IN
             \/ Dispatch(m, e, outcome)
             \/ \E extra \in {<<>>, <<CVal("nil", "extra")>>} : CallScript(m, e, extra, outcome)
      PROVE  FrameInv' /\ LoadedStep
  <2> DEFINE e == Env(m, func, required, field, global)
  <2>1. outcome \in ScriptOutcomes
    BY FrameAssumption DEF ScriptOutcomes
  <2>2. e \in Environments /\ e.entry = loaded[m]
        /\ e.required \in (Kinds \ {"nil"}) \cup {"error"}
    <3>1. FrameTypes
      BY DEF FrameInv, DispatchBalanced
    <3> QED BY <3>1, EnvTyped
  <2>3. \/ Dispatch(m, e, outcome)
        \/ \E extra \in {<<>>, <<CVal("nil", "extra")>>} : CallScript(m, e, extra, outcome)
    BY <1>3
  <2> HIDE DEF e
  <2> QED BY <2>1, <2>2, <2>3, DispatchStep, CallScriptStep
<1> QED BY <1>1, <1>2, <1>3 DEF FrameNext

-------------------------------------------------------------------------------
(* Theorems. *)

\* However many lookups and calls there have been, whatever modules they loaded
\* and whether they failed, one more leaves exactly the results of the function
\* it found above what was there (find_lua_function, call_lua_script,
\* rpc_dispatch).
THEOREM DispatchIsBalanced == FrameSpec => []DispatchBalanced
<1>1. FrameInv => DispatchBalanced
  BY DEF FrameInv
<1>2. FrameInit => FrameInv
  BY FrameStarts
<1>3. FrameInv /\ [FrameNext]_frameVars => FrameInv'
  BY FrameStep
<1> QED BY <1>1, <1>2, <1>3, PTL DEF FrameSpec

\* call_lua_script counts, and call_script returns, the results of the call
\* itself, on a stack of any height (call_lua_script, lua_call_script).
THEOREM ResultsAreCounted == FrameSpec => []ResultsCounted
<1>1. FrameInv => ResultsCounted
  BY DEF FrameInv
<1>2. FrameInit => FrameInv
  BY FrameStarts
<1>3. FrameInv /\ [FrameNext]_frameVars => FrameInv'
  BY FrameStep
<1> QED BY <1>1, <1>2, <1>3, PTL DEF FrameSpec

\* The chunk of a module runs once, also when it fails, and what it left in
\* package.loaded stays (find_lua_function, load_lua_library, require).
THEOREM ModulesLoadOnce == FrameSpec => LoadedOnce
<1>1. FrameInit => FrameInv
  BY FrameStarts
<1>2. FrameInv /\ [FrameNext]_frameVars => FrameInv' /\ [LoadedStep]_frameVars
  BY FrameStep
<1>3. [LoadedStep]_frameVars => [\A m \in Modules :
                              /\ runs'[m] <= 1
                              /\ (runs[m] = 1 => loaded'[m] = loaded[m] /\ loaded[m] # "nil")]_frameVars
  BY DEF LoadedStep
<1> QED BY <1>1, <1>2, <1>3, PTL DEF FrameSpec, LoadedOnce
===============================================================================
