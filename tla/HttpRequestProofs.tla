-------------------------- MODULE HttpRequestProofs ---------------------------
(***************************************************************************)
(* Proofs about HttpRequest, for any set of calls, of argument lists and of *)
(* outcomes: IInv is an inductive invariant, and with it no object is freed *)
(* twice, a callback record lives as long as its callback, and a call that  *)
(* has failed leaves nothing behind.                                        *)
(***************************************************************************)
EXTENDS HttpRequest, SequenceTheorems, TLAPS

(* A prefix of a sequence has its elements, up to its length.               *)
LEMMA SubSeqPrefix ==
  ASSUME NEW S, NEW s \in Seq(S), NEW n \in Nat, n <= Len(s)
  PROVE  /\ SubSeq(s, 1, n) \in Seq(S)
         /\ Len(SubSeq(s, 1, n)) = n
         /\ \A i \in 1..n : SubSeq(s, 1, n)[i] = s[i]
  OBVIOUS

(* What removing or adding the innermost callback does to the list.         *)
LEMMA FrontLast ==
  ASSUME NEW S, NEW s \in Seq(S), s # <<>>
  PROVE  /\ Len(s) \in Nat /\ Len(s) > 0
         /\ Last(s) = s[Len(s)] /\ Last(s) \in S
         /\ Front(s) \in Seq(S)
         /\ Len(Front(s)) = Len(s) - 1
         /\ \A i \in 1..(Len(s) - 1) : Front(s)[i] = s[i]
<1>1. Len(s) \in Nat /\ Len(s) > 0
  BY EmptySeq
<1>2. Last(s) = s[Len(s)] /\ Last(s) \in S
  BY <1>1 DEF Last
<1>3. /\ Front(s) \in Seq(S)
      /\ Len(Front(s)) = Len(s) - 1
      /\ \A i \in 1..(Len(s) - 1) : Front(s)[i] = s[i]
  <2>1. Len(s) - 1 \in Nat /\ Len(s) - 1 <= Len(s)
    BY <1>1
  <2> QED BY <2>1, SubSeqPrefix DEF Front
<1> QED BY <1>1, <1>2, <1>3

(* http_request_new leaves a live request and connection behind exactly     *)
(* when it does not return NULL, and then both.                             *)
LEMMA RequestNew ==
  ASSUME NEW f \in Outcomes, HoldsRecord(f)
  PROVE  /\ ~http_request_new(f).null <=> f \in {"sync", "async"}
         /\ ~http_request_new(f).null => /\ http_request_new(f).req = "live"
                                         /\ http_request_new(f).evcon = "live"
         /\ http_request_new(f).null =>
              /\ http_request_new(f).evcon \in {"none", "freed"}
              /\ http_request_new(f).req \in {"none", "freed", "corrupt"}
              /\ f # "strdup" => http_request_new(f).req # "corrupt"
<1>1. CASE f = "evcon"
  BY <1>1 DEF http_request_new
<1>2. CASE f = "request"
  BY <1>2 DEF http_request_new, Free
<1>3. CASE f \in {"strdup", "connect"}
  BY <1>3 DEF http_request_new, evhttp_make_request, Free
<1>4. CASE f \in {"sync", "async"}
  BY <1>4 DEF http_request_new, evhttp_make_request, Free
<1> QED BY <1>1, <1>2, <1>3, <1>4 DEF Outcomes, HoldsRecord

(* Before any call is made nothing is held and no callback is active.       *)
LEMMA InitIInv == Init => IInv
<1> SUFFICES ASSUME Init PROVE IInv
  OBVIOUS
<1>1. TypeOK
  BY DEF Init, TypeOK, CallStates, Objects
<1>2. NestedOnce
  BY DEF Init, NestedOnce
<1>3. \A o \in Out : Holdings(o)
  BY DEF Init, Holdings
<1> QED BY <1>1, <1>2, <1>3 DEF IInv

(* A call adds o to the active callbacks when it was not among them.        *)
LEMMA PushNested ==
  ASSUME TypeOK, NestedOnce, NEW o \in Out, call[o] # "callback",
         call' = [call EXCEPT ![o] = "callback"], cbs' = Append(cbs, o)
  PROVE  NestedOnce'
<1>1. /\ Len(cbs') = Len(cbs) + 1 /\ Len(cbs) \in Nat
      /\ cbs'[Len(cbs) + 1] = o
      /\ \A i \in 1..Len(cbs) : cbs'[i] = cbs[i]
  BY DEF TypeOK
<1>2. \A i \in 1..Len(cbs) : cbs[i] # o
  BY DEF NestedOnce
<1>3. \A i, j \in 1..Len(cbs') : cbs'[i] = cbs'[j] => i = j
  BY <1>1, <1>2 DEF NestedOnce
<1>4. \A p \in Out : call'[p] = "callback" <=> \E i \in 1..Len(cbs') : cbs'[i] = p
  <2> SUFFICES ASSUME NEW p \in Out
               PROVE  call'[p] = "callback" <=> \E i \in 1..Len(cbs') : cbs'[i] = p
    OBVIOUS
  <2>1. CASE p = o
    BY <1>1, <2>1 DEF TypeOK
  <2>2. CASE p # o
    BY <1>1, <2>2 DEF TypeOK, NestedOnce
  <2> QED BY <2>1, <2>2
<1> QED BY <1>3, <1>4 DEF NestedOnce

(* Removing the innermost callback leaves the others as they were.          *)
LEMMA PopNested ==
  ASSUME TypeOK, NestedOnce, cbs # <<>>, NEW o \in Out, o = Last(cbs),
         call' = [call EXCEPT ![o] = "done"], cbs' = Front(cbs)
  PROVE  NestedOnce'
<1>1. /\ Len(cbs') = Len(cbs) - 1 /\ Len(cbs) \in Nat /\ Len(cbs) > 0
      /\ cbs[Len(cbs)] = o
      /\ \A i \in 1..(Len(cbs) - 1) : cbs'[i] = cbs[i]
  BY FrontLast DEF TypeOK
<1>2. \A i \in 1..(Len(cbs) - 1) : cbs[i] # o
  BY <1>1 DEF NestedOnce
<1>3. \A i, j \in 1..Len(cbs') : cbs'[i] = cbs'[j] => i = j
  BY <1>1 DEF NestedOnce
<1>4. \A p \in Out : call'[p] = "callback" <=> \E i \in 1..Len(cbs') : cbs'[i] = p
  <2> SUFFICES ASSUME NEW p \in Out
               PROVE  call'[p] = "callback" <=> \E i \in 1..Len(cbs') : cbs'[i] = p
    OBVIOUS
  <2>1. CASE p = o
    BY <1>1, <1>2, <2>1 DEF TypeOK
  <2>2. CASE p # o
    <3>1. call'[p] = call[p]
      BY <2>2 DEF TypeOK
    <3>2. (\E i \in 1..Len(cbs) : cbs[i] = p) <=> (\E i \in 1..Len(cbs') : cbs'[i] = p)
      BY <1>1, <2>2
    <3> QED BY <3>1, <3>2 DEF NestedOnce
  <2> QED BY <2>1, <2>2
<1> QED BY <1>3, <1>4 DEF NestedOnce

(* A step that changes no active callback keeps NestedOnce.                 *)
LEMMA SameNested ==
  ASSUME NestedOnce, cbs' = cbs,
         \A p \in Out : call'[p] = "callback" <=> call[p] = "callback"
  PROVE  NestedOnce'
  BY DEF NestedOnce

(* A call that a step leaves alone holds what it held.                      *)
LEMMA SameHoldings ==
  ASSUME NEW p \in Out, Holdings(p), proc' = proc, call'[p] = call[p],
         pool'[p] = pool[p], req'[p] = req[p], evcon'[p] = evcon[p]
  PROVE  Holdings(p)'
  BY DEF Holdings

(* What a call of http.get or http.post can do, in the terms of IInv.       *)
LEMMA RequestStep ==
  ASSUME IInv, NEW o \in Out, lua_http_request_get(o)
  PROVE  IInv'
<1> USE DEF IInv
<1>1. proc = "up" /\ call[o] = "unused" /\ TypeOK /\ NestedOnce
  BY DEF lua_http_request_get
<1>2. PICK a \in ArgLists :
        \/ RefuseArguments(o, a)
        \/ DereferenceAddress(a)
        \/ \E f \in Outcomes : \/ RefuseRecord(o, a, f) \/ RefuseRequest(o, a, f)
                               \/ AcceptRequest(o, a, f) \/ AcceptInside(o, a, f)
  BY DEF lua_http_request_get
<1>3. CASE RefuseArguments(o, a)
  <2> USE <1>3 DEF RefuseArguments
  <2>1. TypeOK'
    BY DEF TypeOK, CallStates
  <2>2. NestedOnce'
    BY <1>1, SameNested DEF TypeOK
  <2>3. \A p \in Out : Holdings(p)'
    BY <1>1, ZenonT(60) DEF Holdings, TypeOK
  <2> QED BY <2>1, <2>2, <2>3
<1>4. CASE DereferenceAddress(a)
  <2> USE <1>4 DEF DereferenceAddress
  <2>1. TypeOK'
    BY DEF TypeOK
  <2>2. NestedOnce'
    BY <1>1, SameNested
  <2>3. \A p \in Out : Holdings(p)'
    BY <1>1 DEF Holdings
  <2> QED BY <2>1, <2>2, <2>3
<1>5. ASSUME NEW f \in Outcomes, RefuseRecord(o, a, f)
      PROVE  IInv'
  <2>1. CallbackRecord(f) \in {"none", "freed"}
    BY <1>5 DEF RefuseRecord, CallbackRecord, HoldsRecord, pool_free, Free
  <2>2. TypeOK'
    BY <1>5, <2>1 DEF RefuseRecord, TypeOK, CallStates, Objects
  <2>3. NestedOnce'
    BY <1>1, <1>5, SameNested DEF RefuseRecord, TypeOK
  <2>4. /\ call' = [call EXCEPT ![o] = "refused"]
        /\ pool' \in [Out -> Objects] /\ pool'[o] \in {"none", "freed"}
        /\ \A p \in Out \ {o} : pool'[p] = pool[p]
        /\ UNCHANGED <<proc, req, evcon, cbs>>
    BY <1>5, <2>1 DEF RefuseRecord, TypeOK, Objects
  <2>5. \A p \in Out : Holdings(p)'
    <3>1. \A p \in Out \ {o} : Holdings(p)'
      BY <2>4, SameHoldings DEF TypeOK
    <3>2. {pool[o], req[o], evcon[o]} = {"none"}
      BY <1>1 DEF Holdings
    <3>3. Holdings(o)'
      BY <2>4, <3>2 DEF Holdings, TypeOK
    <3> QED BY <3>1, <3>3
  <2> QED BY <2>2, <2>3, <2>5
<1>6. ASSUME NEW f \in Outcomes, RefuseRequest(o, a, f)
      PROVE  IInv'
  <2> DEFINE new == http_request_new(f)
  <2>1. AfterRequest(new.null, CallbackRecord(f)) = "freed"
    BY <1>6 DEF RefuseRequest, AfterRequest, CallbackRecord, HoldsRecord, pool_free, Free
  <2>2. /\ new.evcon \in {"none", "freed"}
        /\ new.req \in {"none", "freed", "corrupt"}
        /\ f # "strdup" => new.req # "corrupt"
    BY <1>6, RequestNew DEF RefuseRequest
  <2>3. f = "strdup" => ~UriCopied
    BY <1>6 DEF RefuseRequest, Attempted, OutcomesOf, UriCopied
  <2> HIDE DEF new
  <2>4. /\ call' = [call EXCEPT ![o] = "refused"]
        /\ pool' = [pool EXCEPT ![o] = "freed"]
        /\ req' = [req EXCEPT ![o] = new.req]
        /\ evcon' = [evcon EXCEPT ![o] = new.evcon]
        /\ UNCHANGED <<proc, cbs>>
    BY <1>6, <2>1 DEF RefuseRequest, Keeps, new
  <2>5. TypeOK'
    BY <2>2, <2>4 DEF TypeOK, CallStates, Objects
  <2>6. NestedOnce'
    BY <1>1, <2>4, SameNested DEF TypeOK
  <2>7. \A p \in Out : Holdings(p)'
    BY <1>1, <2>2, <2>3, <2>4, ZenonT(60) DEF Holdings, TypeOK
  <2> QED BY <2>5, <2>6, <2>7
<1>7. ASSUME NEW f \in Outcomes, AcceptRequest(o, a, f) \/ AcceptInside(o, a, f)
      PROVE  IInv'
  <2>1. /\ AfterRequest(http_request_new(f).null, CallbackRecord(f)) = "live"
        /\ http_request_new(f).req = "live"
        /\ http_request_new(f).evcon = "live"
    BY <1>7, RequestNew
    DEF AcceptRequest, AcceptInside, AfterRequest, CallbackRecord, HoldsRecord
  <2>2. /\ pool' = [pool EXCEPT ![o] = "live"]
        /\ req' = [req EXCEPT ![o] = "live"]
        /\ evcon' = [evcon EXCEPT ![o] = "live"]
        /\ proc' = proc
    BY <1>7, <2>1 DEF AcceptRequest, AcceptInside, Keeps
  <2>3. CASE AcceptRequest(o, a, f)
    <3>1. call' = [call EXCEPT ![o] = "pending"] /\ cbs' = cbs
      BY <2>3 DEF AcceptRequest
    <3>2. TypeOK'
      BY <2>2, <3>1 DEF TypeOK, CallStates, Objects
    <3>3. NestedOnce'
      BY <1>1, <3>1, SameNested DEF TypeOK
    <3>4. \A p \in Out : Holdings(p)'
      BY <1>1, <2>2, <3>1, ZenonT(60) DEF Holdings, TypeOK
    <3> QED BY <3>2, <3>3, <3>4
  <2>4. CASE AcceptInside(o, a, f)
    <3>1. call' = [call EXCEPT ![o] = "callback"] /\ cbs' = Append(cbs, o)
      BY <2>4 DEF AcceptInside
    <3>2. TypeOK'
      BY <2>2, <3>1 DEF TypeOK, CallStates, Objects
    <3>3. NestedOnce'
      BY <1>1, <3>1, PushNested
    <3>4. \A p \in Out : Holdings(p)'
      BY <1>1, <2>2, <3>1, ZenonT(60) DEF Holdings, TypeOK
    <3> QED BY <3>2, <3>3, <3>4
  <2> QED BY <1>7, <2>3, <2>4
<1> QED BY <1>2, <1>3, <1>4, <1>5, <1>6, <1>7

(* Every step of the program keeps the invariant.                           *)
LEMMA StepIInv == IInv /\ [Next]_vars => IInv'
<1> SUFFICES ASSUME IInv, [Next]_vars PROVE IInv'
  OBVIOUS
<1> USE DEF IInv
<1>1. ASSUME NEW o \in Out, lua_http_request_get(o) PROVE IInv'
  BY <1>1, RequestStep
<1>2. ASSUME NEW o \in Out, lua_http_request_post(o) PROVE IInv'
  BY <1>2, RequestStep DEF lua_http_request_post
<1>3. ASSUME NEW o \in Out, http_request_cb(o) PROVE IInv'
  <2> USE <1>3 DEF http_request_cb
  <2>1. TypeOK'
    BY DEF TypeOK, CallStates
  <2>2. NestedOnce'
    <3>1. cbs' = Append(cbs, o)
      BY DEF TypeOK
    <3> QED BY <3>1, PushNested
  <2>3. \A p \in Out : Holdings(p)'
    BY ZenonT(60) DEF Holdings, TypeOK
  <2> QED BY <2>1, <2>2, <2>3
<1>4. ASSUME NEW o \in Out, http_request_cb_null(o) PROVE IInv'
  <2> USE <1>4 DEF http_request_cb_null
  <2>1. req[o] = "live" /\ Free(req[o]) = "freed"
    BY DEF Holdings, Free
  <2>2. TypeOK'
    BY <2>1 DEF TypeOK, Objects
  <2>3. NestedOnce'
    BY SameNested
  <2>4. \A p \in Out : Holdings(p)'
    BY <2>1 DEF Holdings, TypeOK
  <2> QED BY <2>2, <2>3, <2>4
<1>5. ASSUME NEW o \in Out, CallbackReturns(o) PROVE IInv'
  <2> USE <1>5 DEF CallbackReturns
  <2>1. call[o] = "callback"
    <3>1. Len(cbs) \in 1..Len(cbs) /\ cbs[Len(cbs)] = o
      BY FrontLast DEF TypeOK
    <3> QED BY <3>1 DEF NestedOnce
  <2>2. /\ pool[o] = "live" /\ req[o] = "live" /\ evcon[o] = "live"
        /\ pool_free(pool[o]) = "freed" /\ Free(req[o]) = "freed"
    BY <2>1 DEF Holdings, pool_free, Free
  <2>3. TypeOK'
    BY <2>2, FrontLast DEF TypeOK, CallStates, Objects
  <2>4. NestedOnce'
    BY PopNested
  <2>5. \A p \in Out : Holdings(p)'
    BY <2>2, ZenonT(60) DEF Holdings, TypeOK
  <2> QED BY <2>3, <2>4, <2>5
<1>6. CASE Shutdown
  <2> USE <1>6 DEF Shutdown
  <2>1. TypeOK'
    BY DEF TypeOK, CallStates, Objects
  <2>2. NestedOnce'
    BY SameNested DEF TypeOK
  <2>3. \A p \in Out : call[p] # "callback"
    BY DEF NestedOnce
  <2>4. \A p \in Out : Holdings(p)'
    BY <2>3, ZenonT(60) DEF Holdings, TypeOK
  <2> QED BY <2>1, <2>2, <2>4
<1>7. CASE CrashElsewhere
  <2> USE <1>7 DEF CrashElsewhere
  <2>1. TypeOK'
    BY DEF TypeOK
  <2>2. NestedOnce'
    BY SameNested
  <2>3. \A p \in Out : Holdings(p)'
    BY DEF Holdings
  <2> QED BY <2>1, <2>2, <2>3
<1>8. CASE UNCHANGED vars
  <2> USE <1>8 DEF vars
  <2>1. TypeOK'
    BY DEF TypeOK
  <2>2. NestedOnce'
    BY DEF NestedOnce
  <2>3. \A p \in Out : Holdings(p)'
    BY DEF Holdings
  <2> QED BY <2>1, <2>2, <2>3
<1> QED BY <1>1, <1>2, <1>3, <1>4, <1>5, <1>6, <1>7, <1>8 DEF Next, Ended

(* What http.get and http.post hold at every moment, for any number of      *)
(* calls, nested to any depth.                                              *)
THEOREM Invariant == Spec => []IInv
  BY InitIInv, StepIInv, PTL DEF Spec

(* Type correctness of the model of http.get, http.post and their callback. *)
THEOREM TypeCorrect == Spec => []TypeOK
<1>1. IInv => TypeOK
  BY DEF IInv
<1> QED BY <1>1, Invariant, PTL

(* No pool, connection or (when the uris can be copied) request of any call *)
(* is freed twice by httpd.c and http_util.c.                               *)
THEOREM NoDoubleFree == Spec => []MemorySafe
<1>1. IInv => MemorySafe
  BY DEF IInv, TypeOK, Holdings, MemorySafe, CallStates
<1> QED BY <1>1, Invariant, PTL

(* http_request_cb never finds its callback record, or its request, freed.  *)
THEOREM RecordLives == Spec => []RecordOutlivesCallback
<1>1. IInv => RecordOutlivesCallback
  BY DEF IInv, TypeOK, Holdings, RecordOutlivesCallback
<1> QED BY <1>1, Invariant, PTL

(* No error path of http.get, http.post or http_request_new leaks an object. *)
THEOREM NoLeak == Spec => []NothingLeft
<1>1. IInv => NothingLeft
  BY DEF IInv, TypeOK, Holdings, NothingLeft
<1> QED BY <1>1, Invariant, PTL

-------------------------------------------------------------------------------
(* The refinement of CallbackContract. *)

StageOf == [o \in Out |-> Stage(call[o])]
HeldOf == [o \in Out |-> pool[o] = "live"]

(* The stage of the call a step is about is the only one to change.         *)
LEMMA StageChanges ==
  ASSUME NEW o \in Out, NEW c, call \in [Out -> CallStates], call' = [call EXCEPT ![o] = c]
  PROVE  StageOf' = [StageOf EXCEPT ![o] = Stage(c)]
<1>1. \A p \in Out : call'[p] = IF p = o THEN c ELSE call[p]
  OBVIOUS
<1>2. \A p \in Out : Stage(call[p])' = IF p = o THEN Stage(c) ELSE Stage(call[p])
  BY <1>1 DEF Stage
<1> QED BY <1>2 DEF StageOf

(* So is the record it holds.                                               *)
LEMMA HeldChanges ==
  ASSUME NEW o \in Out, NEW p, pool \in [Out -> Objects], pool' = [pool EXCEPT ![o] = p]
  PROVE  HeldOf' = [HeldOf EXCEPT ![o] = (p = "live")]
<1>1. \A q \in Out : pool'[q] = IF q = o THEN p ELSE pool[q]
  OBVIOUS
<1> QED BY <1>1 DEF HeldOf

(* A record that is not there before a refused call is not there after it.  *)
LEMMA HeldStays ==
  ASSUME NEW o \in Out, NEW p, pool \in [Out -> Objects], pool' = [pool EXCEPT ![o] = p],
         (pool[o] = "live") <=> (p = "live")
  PROVE  HeldOf' = HeldOf
<1>1. \A q \in Out : (pool'[q] = "live") = (pool[q] = "live")
  OBVIOUS
<1> QED BY <1>1 DEF HeldOf

(* What a call of http.get or http.post is for the contract.                *)
LEMMA RequestRefines ==
  ASSUME IInv, NEW o \in Out, lua_http_request_get(o)
  PROVE  Contract!Next
<1>1. /\ proc = "up" /\ call[o] = "unused" /\ TypeOK
      /\ pool[o] = "none" /\ StageOf[o] = "unused"
  BY DEF lua_http_request_get, IInv, Holdings, StageOf, Stage
<1>2. Stage("refused") = "refused" /\ Stage("pending") = "accepted" /\ Stage("callback") = "running"
  BY DEF Stage
<1>3. PICK a \in ArgLists :
        \/ RefuseArguments(o, a)
        \/ DereferenceAddress(a)
        \/ \E f \in Outcomes : \/ RefuseRecord(o, a, f) \/ RefuseRequest(o, a, f)
                               \/ AcceptRequest(o, a, f) \/ AcceptInside(o, a, f)
  BY DEF lua_http_request_get
<1>4. ASSUME call' = [call EXCEPT ![o] = "refused"], HeldOf' = HeldOf, UNCHANGED <<proc, cbs>>
      PROVE  Contract!Next
  <2>1. StageOf' = [StageOf EXCEPT ![o] = "refused"]
    <3>1. call \in [Out -> CallStates]
      BY <1>1 DEF TypeOK
    <3>2. StageOf' = [StageOf EXCEPT ![o] = Stage("refused")]
      BY <1>4, <3>1, StageChanges
    <3> QED BY <1>2, <3>2, ZenonT(60)
  <2>2. Contract!Refuse(o)
    BY <1>1, <1>4, <2>1 DEF Contract!Refuse, StageOf, HeldOf
  <2> QED BY <1>1, <2>2 DEF Contract!Next
<1>5. CASE RefuseArguments(o, a)
  BY <1>4, <1>5 DEF RefuseArguments, HeldOf
<1>6. CASE DereferenceAddress(a)
  <2>1. proc' = "crashed" /\ UNCHANGED <<call, pool, cbs>>
    BY <1>6 DEF DereferenceAddress
  <2>2. Contract!Stop
    BY <2>1 DEF Contract!Stop, StageOf, HeldOf
  <2> QED BY <1>1, <2>2 DEF Contract!Next
<1>7. ASSUME NEW f \in Outcomes, RefuseRecord(o, a, f) PROVE Contract!Next
  <2>1. CallbackRecord(f) \in {"none", "freed"}
    BY <1>7 DEF RefuseRecord, CallbackRecord, HoldsRecord, pool_free, Free
  <2>2. HeldOf' = HeldOf
    BY <1>1, <1>7, <2>1, HeldStays DEF RefuseRecord, TypeOK
  <2> QED BY <1>4, <1>7, <2>2 DEF RefuseRecord
<1>8. ASSUME NEW f \in Outcomes, RefuseRequest(o, a, f) PROVE Contract!Next
  <2>1. AfterRequest(http_request_new(f).null, CallbackRecord(f)) = "freed"
    BY <1>8 DEF RefuseRequest, AfterRequest, CallbackRecord, HoldsRecord, pool_free, Free
  <2>2. pool' = [pool EXCEPT ![o] = "freed"]
    BY <1>8, <2>1 DEF RefuseRequest, Keeps
  <2>3. HeldOf' = HeldOf
    BY <1>1, <2>2, HeldStays DEF TypeOK
  <2> QED BY <1>4, <1>8, <2>3 DEF RefuseRequest
<1>9. ASSUME NEW f \in Outcomes, AcceptRequest(o, a, f) \/ AcceptInside(o, a, f)
      PROVE  Contract!Next
  <2>1. AfterRequest(http_request_new(f).null, CallbackRecord(f)) = "live"
    BY <1>9 DEF AcceptRequest, AcceptInside, AfterRequest, CallbackRecord, HoldsRecord
  <2>2. pool' = [pool EXCEPT ![o] = "live"] /\ proc' = proc
    BY <1>9, <2>1 DEF AcceptRequest, AcceptInside, Keeps
  <2>3. HeldOf' = [HeldOf EXCEPT ![o] = TRUE]
    BY <1>1, <2>2, HeldChanges DEF TypeOK
  <2>4. CASE AcceptRequest(o, a, f)
    <3>0. call' = [call EXCEPT ![o] = "pending"] /\ cbs' = cbs
      BY <2>4 DEF AcceptRequest
    <3>1. StageOf' = [StageOf EXCEPT ![o] = "accepted"]
      <4>1. call \in [Out -> CallStates] /\ call' = [call EXCEPT ![o] = "pending"]
        BY <1>1, <3>0 DEF TypeOK
      <4>2. StageOf' = [StageOf EXCEPT ![o] = Stage("pending")]
        BY <4>1, StageChanges, Zenon
      <4> QED BY <1>2, <4>2
    <3>2. Contract!Accept(o)
      BY <1>1, <2>2, <2>3, <3>0, <3>1 DEF Contract!Accept, StageOf, HeldOf
    <3> QED BY <1>1, <3>2 DEF Contract!Next
  <2>5. CASE AcceptInside(o, a, f)
    <3>0. call' = [call EXCEPT ![o] = "callback"] /\ cbs' = Append(cbs, o)
      BY <2>5 DEF AcceptInside
    <3>1. StageOf' = [StageOf EXCEPT ![o] = "running"]
      <4>1. call \in [Out -> CallStates] /\ call' = [call EXCEPT ![o] = "callback"]
        BY <1>1, <3>0 DEF TypeOK
      <4>2. StageOf' = [StageOf EXCEPT ![o] = Stage("callback")]
        BY <4>1, StageChanges, Zenon
      <4> QED BY <1>2, <4>2
    <3>2. Contract!AcceptAndRun(o)
      BY <1>1, <2>2, <2>3, <3>0, <3>1 DEF Contract!AcceptAndRun, StageOf, HeldOf
    <3> QED BY <1>1, <3>2 DEF Contract!Next
  <2> QED BY <1>9, <2>4, <2>5
<1> QED BY <1>3, <1>5, <1>6, <1>7, <1>8, <1>9

(* Every step is a step of the contract, or changes nothing it speaks of.   *)
LEMMA StepRefines == IInv /\ [Next]_vars => [Contract!Next]_(Contract!vars)
<1> SUFFICES ASSUME IInv, [Next]_vars PROVE [Contract!Next]_(Contract!vars)
  OBVIOUS
<1>0. TypeOK
  BY DEF IInv
<1>1. ASSUME NEW o \in Out, lua_http_request_get(o) \/ lua_http_request_post(o)
      PROVE  Contract!Next
  BY <1>1, RequestRefines DEF lua_http_request_post
<1>2. ASSUME NEW o \in Out, http_request_cb(o) PROVE Contract!Next
  <2>1. proc = "up" /\ proc' = proc /\ call[o] = "pending" /\ cbs = <<>> /\ cbs' = <<o>>
    BY <1>2 DEF http_request_cb
  <2>2. StageOf[o] = "accepted" /\ Stage("callback") = "running"
    BY <2>1 DEF StageOf, Stage
  <2>3. StageOf' = [StageOf EXCEPT ![o] = "running"]
    BY <1>0, <1>2, <2>2, StageChanges, ZenonT(60) DEF http_request_cb, TypeOK
  <2>4. HeldOf' = HeldOf
    BY <1>2 DEF http_request_cb, HeldOf
  <2>5. Contract!Run(o)
    BY <2>1, <2>2, <2>3, <2>4 DEF Contract!Run, StageOf, HeldOf
  <2> QED BY <2>1, <2>5 DEF Contract!Next
<1>3. ASSUME NEW o \in Out, http_request_cb_null(o) PROVE Contract!Next
  <2>1. proc = "up" /\ proc' = "crashed" /\ UNCHANGED <<call, pool, cbs>>
    BY <1>3 DEF http_request_cb_null
  <2>2. Contract!Stop
    BY <2>1 DEF Contract!Stop
  <2> QED BY <2>1, <2>2 DEF Contract!Next
<1>4. ASSUME NEW o \in Out, CallbackReturns(o) PROVE Contract!Next
  <2>1. proc = "up" /\ proc' = proc /\ cbs # <<>> /\ o = Last(cbs) /\ cbs' = Front(cbs)
    BY <1>4 DEF CallbackReturns
  <2>2. call[o] = "callback"
    <3>1. Len(cbs) \in 1..Len(cbs) /\ cbs[Len(cbs)] = o
      BY <1>0, <2>1, FrontLast DEF TypeOK
    <3> QED BY <3>1 DEF NestedOnce, IInv
  <2>3. pool[o] = "live" /\ pool_free(pool[o]) = "freed"
    BY <2>2 DEF IInv, Holdings, pool_free, Free
  <2>4. StageOf[o] = "running" /\ Stage("done") = "finished"
    BY <2>2 DEF StageOf, Stage
  <2>5. StageOf' = [StageOf EXCEPT ![o] = "finished"]
    BY <1>0, <1>4, <2>4, StageChanges DEF CallbackReturns, TypeOK
  <2>6. HeldOf' = [HeldOf EXCEPT ![o] = FALSE]
    BY <1>0, <1>4, <2>3, HeldChanges DEF CallbackReturns, TypeOK
  <2>7. Contract!Finish(o)
    BY <2>1, <2>4, <2>5, <2>6
    DEF Contract!Finish, StageOf, HeldOf, Contract!Last, Contract!Front, Last, Front
  <2> QED BY <2>1, <2>7 DEF Contract!Next
<1>5. CASE Shutdown
  <2>1. proc = "up" /\ proc' = "closed" /\ cbs' = cbs
    BY <1>5 DEF Shutdown
  <2>2. \A p \in Out : Stage(call[p])' = Stage(call[p])
    BY <1>5 DEF Shutdown, Stage
  <2>3. StageOf' = StageOf
    BY <2>2 DEF StageOf
  <2>4. \A p \in Out : pool'[p] # "live"
    BY <1>5 DEF Shutdown
  <2>5. HeldOf' = [p \in Out |-> FALSE]
    BY <2>4 DEF HeldOf
  <2>6. Contract!Stop
    BY <2>1, <2>3, <2>5 DEF Contract!Stop, StageOf, HeldOf
  <2> QED BY <2>1, <2>6 DEF Contract!Next
<1>6. CASE CrashElsewhere
  <2>1. proc = "up" /\ proc' = "crashed" /\ UNCHANGED <<call, pool, cbs>>
    BY <1>6 DEF CrashElsewhere
  <2>2. Contract!Stop
    BY <2>1 DEF Contract!Stop
  <2> QED BY <2>1, <2>2 DEF Contract!Next
<1>7. CASE UNCHANGED vars
  BY <1>7 DEF vars, Contract!vars
<1> QED BY <1>1, <1>2, <1>3, <1>4, <1>5, <1>6, <1>7 DEF Next, Ended

(* A call of http.get or http.post is refused and forgotten, or accepted    *)
(* and called back at most once, its record held until the callback has     *)
(* returned; nested callbacks return in the reverse order of their start    *)
(* (http_request_new, http_request_cb).                                     *)
THEOREM KeepsContract == Spec => ContractSpec
<1>1. Init => Contract!Init
  <2> SUFFICES ASSUME Init PROVE Contract!Init
    OBVIOUS
  <2>1. \A o \in Out : Stage(call[o]) = "unused"
    BY DEF Init, Stage
  <2> QED BY <2>1 DEF Init, Contract!Init
<1>2. IInv /\ [Next]_vars => [Contract!Next]_(Contract!vars)
  BY StepRefines
<1> QED BY <1>1, <1>2, Invariant, PTL DEF Spec, ContractSpec, Contract!Spec
===============================================================================
