-------------------------- MODULE HttpHandlerProofs ---------------------------
(***************************************************************************)
(* Proofs about HttpHandler and the stack functions of lua_util.c it uses,  *)
(* for any number of requests, callbacks and results: every request that    *)
(* finds a handler is answered once, with what the script returned for it,  *)
(* however much earlier requests and callbacks have left on the stack.      *)
(***************************************************************************)
EXTENDS HttpHandler, LuaFrameProofs

(* The values a script returns are values, one for each kind.               *)
LEMMA Tagged ==
  ASSUME NEW k \in Seq(Kinds), NEW who \in Sources, NEW n \in Nat
  PROVE  /\ [i \in 1..Len(k) |-> Val(k[i], <<who, n, i>>)] \in Seq(Values)
         /\ Len([i \in 1..Len(k) |-> Val(k[i], <<who, n, i>>)]) = Len(k)
<1>1. \A v \in Kinds, i \in Nat : Val(v, <<who, n, i>>) \in Values
  BY DEF Values, Val
<1> QED BY <1>1

(* The outcome of a script, as call_lua_script is given it, in one shape.   *)
LEMMA OutcomeValues ==
  ASSUME NEW res \in ScriptResults, NEW who \in Sources, NEW n \in Nat
  PROVE  \E values \in Seq(Values) :
           /\ Outcome(res, who, n) = [error |-> res.error, values |-> values]
           /\ ~res.error =>
                /\ Len(values) = Len(res.kinds)
                /\ \A i \in 1..Len(res.kinds) : values[i] = Val(res.kinds[i], <<who, n, i>>)
<1>1. res.kinds \in Seq(Kinds) /\ res.error \in BOOLEAN
  BY DEF ScriptResults
<1>2. CASE res.error
  <2>1. Outcome(res, who, n) = [error |-> res.error, values |-> <<>>]
    BY <1>2 DEF Outcome
  <2>2. <<>> \in Seq(Values)
    OBVIOUS
  <2> QED BY <1>2, <2>1, <2>2
<1>3. CASE ~res.error
  <2> DEFINE values == [i \in 1..Len(res.kinds) |-> Val(res.kinds[i], <<who, n, i>>)]
  <2>1. Outcome(res, who, n) = [error |-> res.error, values |-> values]
    BY <1>3 DEF Outcome
  <2>2. values \in Seq(Values) /\ Len(values) = Len(res.kinds)
    BY <1>1, Tagged
  <2>3. \A i \in 1..Len(res.kinds) : values[i] = Val(res.kinds[i], <<who, n, i>>)
    OBVIOUS
  <2> HIDE DEF values
  <2> QED BY <2>1, <2>2, <2>3
<1> QED BY <1>1, <1>2, <1>3

-------------------------------------------------------------------------------

(* The results of a call are found where http_handler looks for them: the   *)
(* reply it decides on is the one the script's own results call for.        *)
LEMMA ReplyOfCall ==
  ASSUME NEW stk \in Seq(Values), Len(stk) >= 2, NEW res \in ScriptResults, NEW n \in Nat,
         NEW c, c = call_lua_script(stk, 1, Outcome(res, "request", n))
  PROVE  /\ c.stk \in Seq(Values)
         /\ Reply(c.ret, c.stk) \in [code : {200, 500}, body : Values]
         /\ Reply(c.ret, c.stk).code = 200 <=>
              ~res.error /\ Len(res.kinds) = 2 /\ res.kinds[1] \notin {"nil", "false"}
         /\ ~res.error /\ Len(res.kinds) = 2 /\ res.kinds[1] \notin {"nil", "false"}
              /\ res.kinds[2] = "text"
              => Reply(c.ret, c.stk).body = Val("text", <<"request", n, 2>>)
<1>1. "request" \in Sources
  BY DEF Sources
<1>2. PICK values \in Seq(Values) :
        /\ Outcome(res, "request", n) = [error |-> res.error, values |-> values]
        /\ ~res.error =>
             /\ Len(values) = Len(res.kinds)
             /\ \A i \in 1..Len(res.kinds) :
                  values[i] = Val(res.kinds[i], <<"request", n, i>>)
  BY <1>1, OutcomeValues
<1>3. res.error \in BOOLEAN /\ res.kinds \in Seq(Kinds)
  BY DEF ScriptResults
<1> DEFINE below == settop(stk, Len(stk) - 1 - 1)
<1>4. below \in Seq(Values)
  BY SettopPrefix
<1>5. c = [ret |-> IF res.error THEN 0 ELSE Len(values),
           stk |-> below \o (IF res.error THEN <<Message>> ELSE values)]
  <2> DEFINE err == res.error
  <2>1. err \in BOOLEAN /\ Len(stk) >= 1 + 1 /\ 1 \in Nat
    BY <1>3
  <2> HIDE DEF err
  <2>2. call_lua_script(stk, 1, [error |-> err, values |-> values]) =
          [ret |-> IF err THEN 0 ELSE Len(values),
           stk |-> below \o (IF err THEN <<Message>> ELSE values)]
    BY <2>1, CalledScript
  <2>3. c = call_lua_script(stk, 1, [error |-> err, values |-> values])
    BY <1>2 DEF err
  <2> HIDE DEF below
  <2> QED BY <2>2, <2>3 DEF err
<1> HIDE DEF below
<1>6. InternalError.code = 500 /\ InternalError \in [code : {200, 500}, body : Values]
  BY ZenonT(60) DEF InternalError, CVal, Val, Values, Kinds, Sources
<1>7. CASE res.error
  <2>1. c.ret = 0 /\ c.stk = below \o <<Message>>
    BY <1>5, <1>7
  <2>2. c.stk \in Seq(Values)
    <3>1. <<Message>> \in Seq(Values)
      BY MessageValue
    <3>2. below \o <<Message>> \in Seq(Values)
      BY <1>4, <3>1, ConcatProperties
    <3> QED BY <2>1, <3>2
  <2>3. Reply(c.ret, c.stk) = InternalError
    BY <2>1 DEF Reply
  <2> QED BY <1>6, <1>7, <2>2, <2>3
<1>8. CASE ~res.error
  <2>1. c.ret = Len(values) /\ c.stk = below \o values
    BY <1>5, <1>8
  <2>2. Len(values) = Len(res.kinds)
    BY <1>2, <1>8
  <2>3. c.stk \in Seq(Values)
    <3>1. below \o values \in Seq(Values)
      BY <1>4
    <3> QED BY <2>1, <3>1
  <2>4. CASE Len(values) # 2
    <3>1. Reply(c.ret, c.stk) = InternalError
      BY <2>1, <2>4 DEF Reply
    <3> QED BY <1>6, <2>2, <2>3, <2>4, <3>1
  <2>5. CASE Len(values) = 2
    <3>1. /\ values[1] = Val(res.kinds[1], <<"request", n, 1>>)
          /\ values[2] = Val(res.kinds[2], <<"request", n, 2>>)
      BY <1>2, <1>8, <2>2, <2>5
    <3>2. c.stk[Len(c.stk) - 1] = values[1] /\ c.stk[Len(c.stk)] = values[2]
      <4> DEFINE u == below \o values
                 k == Len(below)
      <4>1. k \in Nat /\ Len(u) = k + Len(values)
        BY <1>4
      <4>2. \A i \in 1..Len(values) : u[k + i] = values[i]
        BY <1>4
      <4> HIDE DEF u, k
      <4>3. Len(u) - 1 = k + 1 /\ Len(u) = k + 2 /\ 1 \in 1..Len(values) /\ 2 \in 1..Len(values)
        BY <2>5, <4>1
      <4>4. u[Len(u) - 1] = values[1] /\ u[Len(u)] = values[2]
        BY <4>2, <4>3
      <4> QED BY <2>1, <4>4 DEF u
    <3>3. ToBoolean(values[1]) <=> res.kinds[1] \notin {"nil", "false"}
      BY <3>1 DEF ToBoolean, Val
    <3>4. res.kinds[2] = "text" => evbuffer_add_printf(values[2]) = values[2]
      BY <3>1 DEF evbuffer_add_printf, Val
    <3>5. CASE ToBoolean(values[1])
      <4>1. Reply(c.ret, c.stk) = OK(evbuffer_add_printf(values[2]))
        BY <2>1, <2>5, <3>2, <3>5 DEF Reply
      <4>2. /\ Reply(c.ret, c.stk).code = 200
            /\ Reply(c.ret, c.stk).body = evbuffer_add_printf(values[2])
        BY <4>1 DEF OK
      <4>3. evbuffer_add_printf(values[2]) \in Values
        <5>1. CVal("text", "garbled") \in Values
          BY DEF CVal, Val, Values, Kinds, Sources
        <5>2. values[2] \in Values
          <6>1. 2 \in 1..Len(values)
            BY <2>5
          <6> QED BY <6>1, ElementOfSeq
        <5> QED BY <5>1, <5>2 DEF evbuffer_add_printf
      <4>4. Reply(c.ret, c.stk) \in [code : {200, 500}, body : Values]
        BY <4>1, <4>3 DEF OK
      <4> QED BY <1>8, <2>2, <2>3, <2>5, <3>1, <3>3, <3>4, <3>5, <4>2, <4>4
    <3>6. CASE ~ToBoolean(values[1])
      <4>1. Reply(c.ret, c.stk) = InternalError
        BY <3>2, <3>6 DEF Reply
      <4> QED BY <1>6, <2>3, <3>3, <3>6, <4>1
    <3> QED BY <3>5, <3>6
  <2> QED BY <2>4, <2>5
<1> QED BY <1>3, <1>7, <1>8

(* A call takes the stack to a stack, whatever it was called with.          *)
LEMMA CallKeepsStack ==
  ASSUME NEW stk \in Seq(Values), Len(stk) >= 1, NEW res \in ScriptResults,
         NEW who \in Sources, NEW n \in Nat
  PROVE  call_lua_script(stk, 0, Outcome(res, who, n)).stk \in Seq(Values)
<1>1. PICK values \in Seq(Values) :
        Outcome(res, who, n) = [error |-> res.error, values |-> values]
  BY OutcomeValues
<1> DEFINE err == res.error
           below == settop(stk, Len(stk) - 1 - 0)
           top == IF err THEN <<Message>> ELSE values
<1>2. err \in BOOLEAN /\ Len(stk) >= 0 + 1 /\ 0 \in Nat
  BY DEF ScriptResults
<1>3. below \in Seq(Values)
  BY SettopPrefix
<1>4. top \in Seq(Values)
  BY MessageValue
<1>5. call_lua_script(stk, 0, [error |-> err, values |-> values]).stk = below \o top
  <2> HIDE DEF err
  <2>1. call_lua_script(stk, 0, [error |-> err, values |-> values]) =
          [ret |-> IF err THEN 0 ELSE Len(values), stk |-> below \o top]
    BY <1>2, CalledScript
  <2> HIDE DEF below, top
  <2> QED BY <2>1
<1> HIDE DEF below, top
<1>6. below \o top \in Seq(Values)
  BY <1>3, <1>4
<1> QED BY <1>1, <1>5, <1>6

(* The invariant holds once _init_httpd has registered its libraries.       *)
LEMMA InitIInv == Init => IInv
<1> SUFFICES ASSUME Init PROVE IInv
  OBVIOUS
<1>1. NoResult \in ScriptResults
  BY DEF NoResult, ScriptResults
<1>2. _init_httpd \in Seq(Values)
  <2>1. CVal("table", "http") \in Values
    BY DEF CVal, Val, Values, Kinds, Sources
  <2> QED BY <2>1 DEF _init_httpd
<1>3. TypeOK
  BY <1>1, <1>2, BoundsAssumption DEF Init, TypeOK
<1>4. HandlerOnStack /\ missed \subseteq 1..arrived
  BY DEF Init, HandlerOnStack
<1>5. AnsweredOnce
  BY BoundsAssumption DEF Init, AnsweredOnce, Requests
<1>6. RepliesWithItsResult
  BY DEF Init, RepliesWithItsResult
<1> QED BY <1>3, <1>4, <1>5, <1>6 DEF IInv

(* What was said of the replies holds while replies and results stay.       *)
LEMMA SameReplies ==
  ASSUME RepliesWithItsResult, reply' = reply, given' = given
  PROVE  RepliesWithItsResult'
<1>1. \A r : Succeeded(r)' <=> Succeeded(r)
  BY DEF Succeeded
<1> QED BY <1>1, ZenonT(60) DEF RepliesWithItsResult, Requests

(* Steps that change neither the stack nor what the requests have got.      *)
LEMMA QuietStep ==
  ASSUME IInv, UNCHANGED <<stack, arrived, missed, reply, given>>,
         proc' \in {"up", "crashed", "closed"}, handler' \in {"function", "nil"},
         UNCHANGED <<ciTop, fits>>, called' \in 0..MaxCallback,
         running' = running \/ (running = "idle" /\ running' = "callback")
  PROVE  IInv'
<1>1. TypeOK'
  BY ZenonT(60) DEF IInv, TypeOK
<1>2. HandlerOnStack' /\ (missed \subseteq 1..arrived)'
  BY DEF IInv, HandlerOnStack
<1>3. AnsweredOnce'
  BY DEF IInv, AnsweredOnce, TypeOK
<1>4. RepliesWithItsResult'
  BY SameReplies DEF IInv
<1> QED BY <1>1, <1>2, <1>3, <1>4 DEF IInv

(* A request that finds no handler stays without an answer.                 *)
LEMMA MissingStep == IInv /\ HandlerMissing => IInv'
<1> SUFFICES ASSUME IInv, HandlerMissing PROVE IInv'
  OBVIOUS
<1>1. stack' = stack
  <2>1. handler \in Kinds /\ stack \in Seq(Values)
    BY DEF IInv, TypeOK, Kinds
  <2> QED BY <2>1, FindLuaGlobalFunction DEF HandlerMissing
<1>2. /\ arrived \in Nat /\ MaxReq \in Nat /\ arrived < MaxReq /\ arrived' = arrived + 1
      /\ missed' = missed \cup {arrived + 1} /\ running = "idle"
      /\ UNCHANGED <<proc, handler, ciTop, running, called, reply, given>>
  BY BoundsAssumption DEF IInv, TypeOK, HandlerMissing
<1>3. TypeOK'
  <2>1. fits' \in BOOLEAN
    BY DEF HandlerMissing, PushesFit, IInv, TypeOK
  <2>2. missed' \in SUBSET Requests /\ arrived' \in 0..MaxReq
    BY <1>2 DEF IInv, TypeOK, Requests
  <2> QED BY <1>1, <1>2, <2>1, <2>2 DEF IInv, TypeOK
<1>4. HandlerOnStack'
  BY <1>2 DEF HandlerOnStack
<1>5. (missed \subseteq 1..arrived)'
  BY <1>2 DEF IInv
<1>6. AnsweredOnce'
  BY <1>2 DEF IInv, AnsweredOnce, Requests
<1>7. RepliesWithItsResult'
  BY <1>2, SameReplies DEF IInv
<1> QED BY <1>3, <1>4, <1>5, <1>6, <1>7 DEF IInv

(* A request that finds its handler.                                        *)
LEMMA HandlerStep == IInv /\ http_handler => IInv'
<1> SUFFICES ASSUME IInv, http_handler PROVE IInv'
  OBVIOUS
<1>1. stack' \in Seq(Values) /\ Len(stack') >= 2
  <2>1. handler \in Kinds /\ stack \in Seq(Values)
    BY DEF IInv, TypeOK, Kinds
  <2>2. PICK f \in Values : find_lua_global_function(stack, handler).stk = Append(stack, f)
    BY <2>1, FindLuaGlobalFunction DEF http_handler
  <2> DEFINE t == CVal("table", "request")
  <2>3. t \in Values
    BY DEF CVal, Val, Values, Kinds, Sources
  <2>4. stack' = Append(Append(stack, f), t)
    BY <2>2 DEF http_handler, http_request_to_lua_table
  <2> HIDE DEF t
  <2> QED BY <2>1, <2>3, <2>4
<1>2. /\ arrived \in Nat /\ MaxReq \in Nat /\ arrived < MaxReq /\ arrived' = arrived + 1
      /\ running = "idle" /\ running' = "handler"
      /\ UNCHANGED <<proc, handler, ciTop, called, missed, reply, given>>
  BY BoundsAssumption DEF IInv, TypeOK, http_handler
<1>3. TypeOK'
  <2>1. fits' \in BOOLEAN
    BY DEF http_handler, PushesFit, IInv, TypeOK
  <2>2. arrived' \in 0..MaxReq
    BY <1>2
  <2> QED BY <1>1, <1>2, <2>1, <2>2 DEF IInv, TypeOK
<1>4. HandlerOnStack'
  BY <1>1, <1>2 DEF HandlerOnStack, IInv
<1>5. (missed \subseteq 1..arrived)'
  BY <1>2 DEF IInv
<1>6. AnsweredOnce'
  BY <1>2 DEF IInv, AnsweredOnce, Requests
<1>7. RepliesWithItsResult'
  BY <1>2, SameReplies DEF IInv
<1> QED BY <1>3, <1>4, <1>5, <1>6, <1>7 DEF IInv

(* The handler returns: the request is answered now, and only now.          *)
LEMMA ReturnStep ==
  ASSUME IInv, NEW res \in Results, HandlerReturns(res)
  PROVE  IInv'
<1> DEFINE c == call_lua_script(stack, 1, Outcome(res, "request", arrived))
           a == Reply(c.ret, c.stk)
<1>1. /\ stack \in Seq(Values) /\ Len(stack) >= 2 /\ res \in ScriptResults
      /\ arrived \in Nat /\ arrived \in Requests /\ MaxReq \in Nat
      /\ arrived \notin missed /\ running = "handler"
  BY ResultsAssumption, BoundsAssumption
     DEF IInv, TypeOK, HandlerOnStack, HandlerReturns, Requests
<1>2. /\ c.stk \in Seq(Values)
      /\ a \in [code : {200, 500}, body : Values]
      /\ a.code = 200 <=>
           ~res.error /\ Len(res.kinds) = 2 /\ res.kinds[1] \notin {"nil", "false"}
      /\ ~res.error /\ Len(res.kinds) = 2 /\ res.kinds[1] \notin {"nil", "false"}
           /\ res.kinds[2] = "text"
           => a.body = Val("text", <<"request", arrived, 2>>)
  BY <1>1, ReplyOfCall
<1>3. /\ stack' = c.stk /\ ciTop' = adjustresults(c.stk)
      /\ reply' = [reply EXCEPT ![arrived] = @ \o <<a>>]
      /\ given' = [given EXCEPT ![arrived] = res]
      /\ running' = "idle"
      /\ UNCHANGED <<proc, handler, fits, arrived, called, missed>>
  BY DEF HandlerReturns, Replies
<1> HIDE DEF a, c
<1>4. reply[arrived] = <<>>
  <2>1. reply[arrived] \in Seq([code : {200, 500}, body : Values]) /\ Len(reply[arrived]) = 0
    BY <1>1 DEF IInv, TypeOK, AnsweredOnce
  <2> QED BY <2>1
<1>5. <<>> \o <<a>> = <<a>>
  OBVIOUS
<1>6. reply' = [reply EXCEPT ![arrived] = <<a>>]
  BY <1>3, <1>4, <1>5
<1>7. /\ reply'[arrived] = <<a>> /\ given'[arrived] = res
      /\ \A r \in Requests \ {arrived} : reply'[r] = reply[r] /\ given'[r] = given[r]
  BY <1>1, <1>3, <1>6, ZenonT(60) DEF IInv, TypeOK
<1>8. Len(reply'[arrived]) = 1 /\ reply'[arrived][1] = a
  <2>1. Len(<<a>>) = 1 /\ <<a>>[1] = a
    OBVIOUS
  <2> QED BY <1>7, <2>1
<1>9. TypeOK'
  <2>1. <<a>> \in Seq([code : {200, 500}, body : Values])
    BY <1>2
  <2>2. reply' \in [Requests -> Seq([code : {200, 500}, body : Values])]
    BY <1>6, <2>1 DEF IInv, TypeOK
  <2>3. given' \in [Requests -> ScriptResults]
    BY <1>1, <1>3 DEF IInv, TypeOK
  <2>4. ciTop' \in Nat
    BY <1>2, <1>3 DEF IInv, TypeOK, adjustresults
  <2> QED BY <1>2, <1>3, <2>2, <2>3, <2>4, ZenonT(60) DEF IInv, TypeOK
<1>10. HandlerOnStack' /\ (missed \subseteq 1..arrived)'
  BY <1>3 DEF IInv, HandlerOnStack
<1>11. AnsweredOnce'
  <2> SUFFICES ASSUME NEW r \in Requests
               PROVE  Len(reply'[r]) = IF \/ r > arrived
                                          \/ r \in missed
                                       THEN 0 ELSE 1
    BY <1>3 DEF AnsweredOnce
  <2>1. CASE r = arrived
    <3>1. ~(r > arrived) /\ r \notin missed
      BY <1>1, <2>1
    <3> QED BY <1>8, <2>1, <3>1
  <2>2. CASE r # arrived
    BY <1>7, <2>2 DEF IInv, AnsweredOnce
  <2> QED BY <2>1, <2>2
<1>12. RepliesWithItsResult'
  <2> SUFFICES ASSUME NEW r \in Requests, NEW i \in 1..Len(reply'[r])
               PROVE  /\ reply'[r][i].code = 200 <=> Succeeded(r)'
                      /\ Succeeded(r)' /\ given'[r].kinds[2] = "text"
                           => reply'[r][i].body = Val("text", <<"request", r, 2>>)
    BY DEF RepliesWithItsResult
  <2>1. CASE r = arrived
    <3>1. i = 1
      <4>1. Len(reply'[r]) = 1
        BY <1>8, <2>1
      <4>2. \A k : k \in 1..1 => k = 1
        OBVIOUS
      <4> QED BY <4>1, <4>2
    <3>2. reply'[r][i] = a
      BY <1>8, <2>1, <3>1
    <3>3. Succeeded(r)' <=>
            ~res.error /\ Len(res.kinds) = 2 /\ res.kinds[1] \notin {"nil", "false"}
      BY <1>7, <2>1 DEF Succeeded
    <3> QED BY <1>2, <1>7, <2>1, <3>2, <3>3
  <2>2. CASE r # arrived
    <3>1. reply'[r] = reply[r] /\ given'[r] = given[r]
      BY <1>7, <2>2
    <3>2. Succeeded(r)' <=> Succeeded(r)
      BY <3>1 DEF Succeeded
    <3> QED BY <3>1, <3>2 DEF IInv, RepliesWithItsResult
  <2> QED BY <2>1, <2>2
<1> QED BY <1>9, <1>10, <1>11, <1>12 DEF IInv

(* A callback of an outgoing request leaves what it leaves on the stack.    *)
LEMMA CallbackStep ==
  ASSUME IInv, NEW e \in Lookups, NEW res \in Results, CallbackReturns(e, res)
  PROVE  IInv'
<1> DEFINE found == find_lua_function(stack, e)
           c == call_lua_script(found.stk, 0, Outcome(res, "callback", called))
<1>1. /\ stack \in Seq(Values) /\ e \in Environments /\ res \in ScriptResults
      /\ called \in Nat /\ "callback" \in Sources
  BY ResultsAssumption, LookupsAssumption, BoundsAssumption DEF IInv, TypeOK, Sources
<1>2. /\ running = "callback" /\ running' = "idle"
      /\ stack' = IF found.ok THEN c.stk ELSE found.stk
      /\ ciTop' = IF found.ok THEN adjustresults(c.stk) ELSE ciTop
      /\ UNCHANGED <<proc, handler, arrived, called, missed, reply, given>>
  BY DEF CallbackReturns
<1>3. fits' \in BOOLEAN
  BY DEF CallbackReturns, PushesFit, IInv, TypeOK
<1>4. stack' \in Seq(Values) /\ ciTop' \in Nat
  <2>1. CASE found.ok
    <3>1. PICK f \in Values : found.stk = Append(stack, f)
      BY <1>1, <2>1, FindLuaFunction
    <3>2. found.stk \in Seq(Values) /\ Len(found.stk) >= 1
      <4>1. Append(stack, f) \in Seq(Values) /\ Len(Append(stack, f)) >= 1
        BY <1>1
      <4> QED BY <3>1, <4>1
    <3>3. c.stk \in Seq(Values)
      BY <1>1, <3>2, CallKeepsStack
    <3>4. stack' = c.stk /\ ciTop' = adjustresults(c.stk)
      BY <1>2, <2>1
    <3> HIDE DEF c, found
    <3> QED BY <3>3, <3>4 DEF IInv, TypeOK, adjustresults
  <2>2. CASE ~found.ok
    <3>1. found.stk = stack
      BY <1>1, <2>2, FindLuaFunction
    <3>2. stack' = found.stk /\ ciTop' = ciTop
      BY <1>2, <2>2
    <3> QED BY <1>1, <3>1, <3>2 DEF IInv, TypeOK
  <2> QED BY <2>1, <2>2
<1> HIDE DEF c, found
<1>5. TypeOK'
  BY <1>2, <1>3, <1>4 DEF IInv, TypeOK
<1>6. HandlerOnStack' /\ (missed \subseteq 1..arrived)'
  BY <1>2 DEF IInv, HandlerOnStack
<1>7. AnsweredOnce'
  BY <1>2 DEF IInv, AnsweredOnce
<1>8. RepliesWithItsResult'
  BY <1>2, SameReplies DEF IInv
<1> QED BY <1>5, <1>6, <1>7, <1>8 DEF IInv

(* Every step keeps the invariant.                                          *)
LEMMA StepIInv == IInv /\ [Next]_vars => IInv'
<1> SUFFICES ASSUME IInv, [Next]_vars PROVE IInv'
  OBVIOUS
<1>1. CASE HandlerMissing
  BY <1>1, MissingStep
<1>2. CASE http_handler
  BY <1>2, HandlerStep
<1>3. ASSUME NEW kind \in {"nil", "function"}, ScriptDefines(kind) PROVE IInv'
  BY <1>3, QuietStep DEF ScriptDefines, IInv, TypeOK
<1>4. ASSUME NEW res \in Results, HandlerReturns(res) PROVE IInv'
  BY <1>4, ReturnStep
<1>5. ASSUME NEW res \in Results, HandlerCrashes(res) PROVE IInv'
  BY <1>5, QuietStep DEF HandlerCrashes, IInv, TypeOK
<1>6. ASSUME NEW res \in Results, NEW e \in Lookups, CallbackReturns(e, res) PROVE IInv'
  BY <1>6, CallbackStep
<1>7. CASE CallbackStarts
  <2>1. called' \in 0..MaxCallback
    BY <1>7, BoundsAssumption DEF CallbackStarts, IInv, TypeOK
  <2> QED BY <1>7, <2>1, QuietStep DEF CallbackStarts, IInv, TypeOK
<1>8. CASE Shutdown
  BY <1>8, QuietStep DEF Shutdown, IInv, TypeOK
<1>9. CASE CrashElsewhere
  BY <1>9, QuietStep DEF CrashElsewhere, IInv, TypeOK
<1>10. CASE UNCHANGED vars
  BY <1>10, QuietStep DEF vars, IInv, TypeOK
<1> QED BY <1>1, <1>2, <1>3, <1>4, <1>5, <1>6, <1>7, <1>8, <1>9, <1>10 DEF Next, Ended

-------------------------------------------------------------------------------

(* The invariant holds throughout, for any number of requests and callbacks *)
(* and any results of their scripts.                                        *)
THEOREM Invariant == Spec => []IInv
BY InitIInv, StepIInv, PTL DEF Spec

(* http_handler's reply to a request is decided by what the script returned *)
(* for that request, whatever earlier requests and callbacks have left on   *)
(* the Lua stack they share.                                                *)
THEOREM RepliesBelong == Spec => []RepliesWithItsResult
<1>1. IInv => RepliesWithItsResult
  BY DEF IInv
<1> QED BY <1>1, Invariant, PTL

(* http_handler answers every request that finds a handler, and answers it  *)
(* once; only the request being handled is still waiting.                   *)
THEOREM NoSecondAnswer == Spec => []AnsweredOnce
<1>1. IInv => AnsweredOnce
  BY DEF IInv
<1> QED BY <1>1, Invariant, PTL
===============================================================================
