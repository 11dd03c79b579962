---------------------------- MODULE AdmissionProofs ----------------------------
(***************************************************************************)
(* Proofs about Admission, for any pods, reviews and foreign requests.     *)
(* What a handler has established so far goes with its program counter and *)
(* is not disturbed by the other handlers, the end of the process or the   *)
(* API server; a review that was admitted keeps the answer it was given.   *)
(***************************************************************************)
EXTENDS Admission, TLAPS

JSON(c) == Input(c).contentType = "application/json"

\* What holds of the request and its answer wherever the handler of c is.
CallInv(c) ==
  /\ handler[c] # "none" => prepared
  /\ handler[c] \in {"decode", "inject", "respond"} => JSON(c)
  /\ handler[c] = "respond" => response[c] # None
  /\ (handler[c] = "respond" /\ response[c].allowed) => body[c] = "pod"
  /\ status[c] = 200 =>
       /\ handler[c] = "done" /\ response[c] # None
       /\ response[c].allowed => body[c] = "pod" /\ JSON(c) /\ response[c].uid = c

PreparedInv == endpoint = "serving" => prepared

\* A handler starts for a review only when the API server asked for it.
AskedInv == \A r \in Reviews : review[r] = "none" => handler[r] = "none"

IInv ==
  /\ TypeOK /\ PreparedInv /\ AskedInv
  /\ \A c \in Calls : CallInv(c)
  /\ StoredOnlyIfAllowed

\* Between the states of this step only the handler of c did something.
OnlyCall(c) ==
  /\ handler' \in {[handler EXCEPT ![c] = l] : l \in Active \cup {"done", "panic"}}
  /\ \A d \in Calls \ {c} : body'[d] = body[d] /\ response'[d] = response[d] /\ status'[d] = status[d]
  /\ UNCHANGED <<endpoint, prepared, review, store>>

\* What inject answers when it has decoded a pod.
Allow == [uid |-> None, allowed |-> TRUE, patch |-> NoPatch]

\* Neither answer of inject is None, and one allows while the other does not.
LEMMA ResponseTypes ==
  /\ ToAdmissionResponse \in Responses /\ ToAdmissionResponse # None
  /\ Allow \in Responses /\ Allow # None
  /\ Allow.allowed /\ ~ToAdmissionResponse.allowed
<1>1. ToAdmissionResponse \in Responses /\ ~ToAdmissionResponse.allowed
  BY DEF ToAdmissionResponse, Responses
<1>2. Allow \in Responses /\ Allow.allowed
  BY DEF Allow, Responses
<1> QED
  BY <1>1, <1>2, AdmissionAssumption

\* inject, with the answer by its name.
LEMMA InjectCases ==
  ASSUME NEW c \in Calls, Inject(c)
  PROVE  /\ handler[c] = "inject"
         /\ \/ handler' = [handler EXCEPT ![c] = "panic"] /\ response' = response
            \/ /\ handler' = [handler EXCEPT ![c] = "respond"]
               /\ \/ response' = [response EXCEPT ![c] = ToAdmissionResponse]
                  \/ response' = [response EXCEPT ![c] = Allow] /\ body[c] = "pod"
         /\ UNCHANGED <<endpoint, prepared, body, status, review, store>>
BY DEF Inject, Allow, At, Goto

\* At first nobody reviews anything.
LEMMA InitInv == Init => IInv
<1> SUFFICES ASSUME Init PROVE IInv
  OBVIOUS
<1>1. TypeOK
  BY DEF Init, TypeOK, Endpoint!Init
<1>2. PreparedInv /\ AskedInv /\ StoredOnlyIfAllowed
  BY DEF Init, PreparedInv, AskedInv, Calls, StoredOnlyIfAllowed, Endpoint!Init
<1>3. \A c \in Calls : handler[c] = "none" /\ status[c] = 0
  BY DEF Init
<1>4. \A c \in Calls : CallInv(c)
  BY <1>3 DEF CallInv
<1> QED
  BY <1>1, <1>2, <1>4 DEF IInv

\* Every step of a handler keeps the types.
LEMMA HandleType ==
  ASSUME IInv, NEW c \in Calls, Handle(c)
  PROVE  TypeOK' /\ OnlyCall(c) /\ handler[c] \in Active
<1> USE DEF IInv, Goto, At, Active
<1>a. Input(c).body \in Bodies
  BY AdmissionAssumption DEF Input, Bodies, Calls
<1>1. CASE ReadBody(c)
  BY <1>1, <1>a DEF ReadBody, TypeOK, OnlyCall, Bodies
<1>2. CASE CheckRequest(c)
  <2>1. handler[c] = "check" /\ \E l \in {"done", "decode"} : handler' = [handler EXCEPT ![c] = l]
    BY <1>2 DEF CheckRequest, HttpError
  <2>2. status' \in [Calls -> {0, 200, 400, 415}]
        /\ \A d \in Calls \ {c} : status'[d] = status[d]
    BY <1>2 DEF CheckRequest, HttpError, TypeOK
  <2>3. UNCHANGED <<endpoint, prepared, body, response, review, store>>
    BY <1>2 DEF CheckRequest
  <2>4. handler' \in [Calls -> {"none"} \cup Active \cup {"done", "panic", "aborted"}]
    BY <2>1 DEF TypeOK
  <2>5. TypeOK'
    BY <2>2, <2>3, <2>4 DEF TypeOK
  <2>6. handler' \in {[handler EXCEPT ![c] = l] : l \in Active \cup {"done", "panic"}}
    BY <2>1
  <2>7. OnlyCall(c)
    BY <2>2, <2>3, <2>6 DEF OnlyCall
  <2> QED
    BY <2>1, <2>5, <2>7
<1>3. CASE Decode(c)
  <2>1. handler[c] = "decode" /\ \E l \in {"respond", "inject"} : handler' = [handler EXCEPT ![c] = l]
    BY <1>3 DEF Decode
  <2>2. response' \in [Calls -> Responses \cup {None}]
        /\ \A d \in Calls \ {c} : response'[d] = response[d]
    BY <1>3, ResponseTypes DEF Decode, TypeOK
  <2>3. UNCHANGED <<endpoint, prepared, body, status, review, store>>
    BY <1>3 DEF Decode
  <2>4. handler' \in [Calls -> {"none"} \cup Active \cup {"done", "panic", "aborted"}]
    BY <2>1 DEF TypeOK
  <2>5. TypeOK'
    BY <2>2, <2>3, <2>4 DEF TypeOK
  <2> QED
    BY <2>1, <2>2, <2>3, <2>5 DEF OnlyCall
<1>4. CASE Inject(c)
  <2>1. /\ handler[c] = "inject" /\ \E l \in {"respond", "panic"} : handler' = [handler EXCEPT ![c] = l]
        /\ UNCHANGED <<endpoint, prepared, body, status, review, store>>
    BY <1>4, InjectCases
  <2>2. response' \in [Calls -> Responses \cup {None}]
        /\ \A d \in Calls \ {c} : response'[d] = response[d]
    BY <1>4, InjectCases, ResponseTypes DEF TypeOK
  <2>3. handler' \in [Calls -> {"none"} \cup Active \cup {"done", "panic", "aborted"}]
    BY <2>1 DEF TypeOK
  <2>4. TypeOK'
    BY <2>1, <2>2, <2>3 DEF TypeOK
  <2> QED
    BY <2>1, <2>2, <2>4 DEF OnlyCall
<1>5. CASE Respond(c)
  <2>1. response[c] # None
    BY <1>5 DEF Respond, CallInv
  <2>2. PICK uid \in {c, None} : response' = [response EXCEPT ![c].uid = uid]
    BY <1>5 DEF Respond, RequestUIDs
  <2>3. [response[c] EXCEPT !.uid = uid] \in Responses
    BY <2>1 DEF TypeOK, Responses
  <2>4. /\ response' \in [Calls -> Responses \cup {None}]
        /\ \A d \in Calls \ {c} : response'[d] = response[d]
    BY <2>2, <2>3 DEF TypeOK
  <2>5. /\ status' \in [Calls -> {0, 200, 400, 415}]
        /\ \A d \in Calls \ {c} : status'[d] = status[d]
    BY <1>5 DEF Respond, TypeOK
  <2>6. /\ handler[c] = "respond" /\ handler' = [handler EXCEPT ![c] = "done"]
        /\ UNCHANGED <<endpoint, prepared, body, review, store>>
    BY <1>5 DEF Respond
  <2> QED
    BY <2>4, <2>5, <2>6 DEF TypeOK, OnlyCall
<1> QED
  BY <1>1, <1>2, <1>3, <1>4, <1>5 DEF Handle

\* Every step of a handler keeps what its program counter stands for.
LEMMA HandleCall ==
  ASSUME IInv, NEW c \in Calls, Handle(c)
  PROVE  CallInv(c)'
<1> USE DEF IInv, Goto, At, CallInv, JSON
<1>1. CASE ReadBody(c)
  BY <1>1 DEF ReadBody, TypeOK
<1>2. CASE CheckRequest(c)
  BY <1>2 DEF CheckRequest, HttpError, TypeOK
<1>3. CASE Decode(c)
  <2>1. /\ handler[c] = "decode" /\ status'[c] = status[c] /\ body' = body /\ prepared' = prepared
        /\ \/ handler'[c] = "inject"
           \/ handler'[c] = "respond" /\ response'[c] = ToAdmissionResponse
    BY <1>3 DEF Decode, TypeOK
  <2> QED
    BY ResponseTypes, <2>1 DEF Input
<1>4. CASE Inject(c)
  <2>1. /\ handler[c] = "inject" /\ status' = status /\ body' = body /\ prepared' = prepared
        /\ \/ handler'[c] = "panic"
           \/ handler'[c] = "respond" /\ response'[c] = ToAdmissionResponse
           \/ handler'[c] = "respond" /\ response'[c] = Allow /\ body[c] = "pod"
    BY <1>4, InjectCases DEF TypeOK
  <2> QED
    BY ResponseTypes, <2>1 DEF Input
<1>5. CASE Respond(c)
  <2>1. /\ handler[c] = "respond" /\ handler'[c] = "done" /\ response[c] \in Responses
        /\ body' = body /\ prepared' = prepared
    BY <1>5 DEF Respond, TypeOK
  <2>2. PICK uid \in {c, None} :
          /\ body[c] = "pod" => uid = c
          /\ response' = [response EXCEPT ![c].uid = uid]
    BY <1>5 DEF Respond, RequestUIDs
  <2>3. response'[c] = [response[c] EXCEPT !.uid = uid]
    BY <2>2 DEF TypeOK
  <2>4. response'[c] \in Responses /\ response'[c].allowed = response[c].allowed
        /\ response'[c].uid = uid
    BY <2>1, <2>3 DEF Responses
  <2>5. response'[c] # None
    BY <2>4, AdmissionAssumption
  <2> QED
    BY <2>1, <2>2, <2>4, <2>5 DEF Input
<1> QED
  BY <1>1, <1>2, <1>3, <1>4, <1>5 DEF Handle

\* Nothing that leaves a finished handler alone takes back what was stored.
LEMMA StoredStays ==
  ASSUME IInv, prepared => prepared',
         \A r \in Reviews : (review[r] = "admitted" /\ status[r] = 200) =>
           review'[r] = "admitted" /\ status'[r] = status[r] /\ response'[r] = response[r],
         NEW s \in store, s.pod \in Labelled
  PROVE  \E r \in Reviews : /\ PodOf[r] = s.pod /\ review'[r] = "admitted"
                            /\ status'[r] = 200 /\ response'[r].allowed /\ response'[r].uid = r
                            /\ prepared'
BY DEF IInv, StoredOnlyIfAllowed

\* Every step keeps the invariant.
LEMMA StepInv == IInv /\ [Next]_vars => IInv'
<1> SUFFICES ASSUME IInv, [Next]_vars PROVE IInv'
  OBVIOUS
<1>1. ASSUME NEW c \in Calls, Handle(c)
      PROVE  IInv'
  <2>1. TypeOK' /\ OnlyCall(c) /\ handler[c] \in Active
    BY <1>1, HandleType
  <2>2. PreparedInv' /\ AskedInv'
    <3>1. \A r \in Reviews : review[r] = "none" => r # c
      BY <2>1 DEF IInv, AskedInv, Active
    <3> QED
      BY <2>1, <3>1 DEF OnlyCall, IInv, TypeOK, PreparedInv, AskedInv, Calls
  <2>3. ASSUME NEW d \in Calls, d # c
        PROVE  CallInv(d)'
    <3>1. handler'[d] = handler[d]
      BY <2>1, <2>3 DEF OnlyCall, IInv, TypeOK
    <3>2. CallInv(d)
      BY DEF IInv
    <3>3. /\ body'[d] = body[d] /\ response'[d] = response[d] /\ status'[d] = status[d]
          /\ prepared' = prepared
      BY <2>1, <2>3 DEF OnlyCall
    <3> QED
      BY <3>1, <3>2, <3>3 DEF CallInv, JSON, Input
  <2>4. StoredOnlyIfAllowed'
    <3>1. \A r \in Reviews : (review[r] = "admitted" /\ status[r] = 200) => r # c
      BY <2>1 DEF IInv, CallInv, Calls, Active
    <3>2. \A r \in Reviews : (review[r] = "admitted" /\ status[r] = 200) =>
            review'[r] = "admitted" /\ status'[r] = status[r] /\ response'[r] = response[r]
      BY <2>1, <3>1 DEF OnlyCall, Calls
    <3>3. prepared' = prepared /\ store' = store
      BY <2>1 DEF OnlyCall
    <3> QED
      BY <3>2, <3>3, StoredStays DEF StoredOnlyIfAllowed
  <2> QED
    BY <2>1, <2>2, <2>3, <2>4, <1>1, HandleCall DEF IInv
<1>2. CASE StartUp
  <2> USE <1>2 DEF StartUp, Endpoint!Prepare, Endpoint!Open, handlerVars
  <2>1. TypeOK' /\ PreparedInv' /\ AskedInv' /\ (prepared => prepared')
    BY DEF IInv, TypeOK, PreparedInv, AskedInv
  <2>2. \A c \in Calls : CallInv(c)'
    BY DEF IInv, CallInv, JSON, Input
  <2>3. StoredOnlyIfAllowed'
    BY StoredStays, <2>1 DEF StoredOnlyIfAllowed
  <2> QED
    BY <2>1, <2>2, <2>3 DEF IInv
<1>3. CASE Close \/ Exit
  <2> USE <1>3 DEF Close, Exit, Endpoint!Close, handlerVars
  <2>1. TypeOK' /\ PreparedInv' /\ AskedInv'
    BY DEF IInv, TypeOK, PreparedInv, AskedInv, Active, Calls
  <2>2. ASSUME NEW c \in Calls
        PROVE  CallInv(c)'
    <3>1. \/ handler'[c] = handler[c]
          \/ handler[c] \in Active /\ handler'[c] = "aborted"
      BY DEF IInv, TypeOK
    <3> QED
      BY <3>1 DEF IInv, CallInv, JSON, Input, Active
  <2>3. StoredOnlyIfAllowed'
    BY StoredStays DEF StoredOnlyIfAllowed
  <2> QED
    BY <2>1, <2>2, <2>3 DEF IInv
<1>4. ASSUME NEW p \in Posts, Post(p)
      PROVE  IInv'
  <2> USE <1>4 DEF Post, Goto
  <2>1. TypeOK' /\ PreparedInv' /\ AskedInv'
    BY AdmissionAssumption DEF IInv, TypeOK, PreparedInv, AskedInv, Active, Calls
  <2>2. ASSUME NEW c \in Calls
        PROVE  CallInv(c)'
    <3>1. handler'[c] = IF c = p THEN "read" ELSE handler[c]
      BY DEF IInv, TypeOK
    <3>2. CallInv(c) /\ (c = p => prepared)
      BY DEF IInv, PreparedInv
    <3> QED
      BY <3>1, <3>2 DEF CallInv, JSON, Input
  <2>3. StoredOnlyIfAllowed'
    BY StoredStays DEF StoredOnlyIfAllowed
  <2> QED
    BY <2>1, <2>2, <2>3 DEF IInv
<1>5. ASSUME NEW r \in Reviews, Ask(r)
      PROVE  IInv'
  <2> USE <1>5 DEF Ask, Goto, Conclude, Save
  <2>1. TypeOK' /\ PreparedInv' /\ AskedInv'
    BY DEF IInv, TypeOK, PreparedInv, AskedInv, Active, Calls, Pods
  <2>2. ASSUME NEW c \in Calls
        PROVE  CallInv(c)'
    <3>1. \/ handler'[c] = handler[c]
          \/ c = r /\ handler'[c] = "read" /\ prepared /\ handler[c] # "done"
      <4>1. CASE endpoint = "serving"
        BY <4>1 DEF IInv, TypeOK, PreparedInv, AskedInv, Calls
      <4>2. CASE endpoint # "serving"
        BY <4>2
      <4> QED
        BY <4>1, <4>2
    <3>2. CallInv(c)
      BY DEF IInv
    <3> QED
      BY <3>1, <3>2 DEF CallInv, JSON, Input
  <2>3. StoredOnlyIfAllowed'
    BY StoredStays DEF StoredOnlyIfAllowed, IInv, TypeOK
  <2> QED
    BY <2>1, <2>2, <2>3 DEF IInv
<1>6. ASSUME NEW r \in Reviews, Answered(r)
      PROVE  IInv'
  <2> DEFINE pod == [pod |-> PodOf[r], patch |-> response[r].patch]
  <2> USE DEF Conclude
  <2>1. /\ review[r] = "waiting" /\ UNCHANGED <<endpoint, prepared, handler, body, response, status>>
        /\ \/ /\ status[r] = 200 /\ response[r].allowed
              /\ store' = store \cup {pod} /\ review' = [review EXCEPT ![r] = "admitted"]
           \/ /\ \E how \in {"denied", "error"} : review' = [review EXCEPT ![r] = how]
              /\ store' = store
    BY <1>6 DEF Answered, Admits, Save, handlerVars
  <2>2. r \in Calls /\ CallInv(r)
    BY DEF IInv, Calls
  <2>3. (status[r] = 200 /\ response[r].allowed) =>
           response[r] \in Responses /\ response[r].uid = r /\ prepared
    BY <2>2 DEF IInv, TypeOK, CallInv
  <2>4. (status[r] = 200 /\ response[r].allowed) => pod \in [pod : Pods, patch : {NoPatch}]
    BY <2>3 DEF Responses, Pods
  <2>5. TypeOK' /\ PreparedInv' /\ AskedInv'
    <3>1. review' \in [Reviews -> {"none", "waiting", "admitted", "denied", "error"}]
      BY <2>1 DEF IInv, TypeOK
    <3>2. store' \subseteq [pod : Pods, patch : {NoPatch}]
      BY <2>1, <2>4 DEF IInv, TypeOK
    <3> QED
      BY <2>1, <3>1, <3>2 DEF IInv, TypeOK, PreparedInv, AskedInv
  <2>6. ASSUME NEW c \in Calls
        PROVE  CallInv(c)'
    BY <2>1 DEF IInv, CallInv, JSON, Input
  <2>7. ASSUME NEW s \in store', s.pod \in Labelled
        PROVE  \E q \in Reviews : /\ PodOf[q] = s.pod /\ review'[q] = "admitted"
                                  /\ status'[q] = 200 /\ response'[q].allowed /\ response'[q].uid = q
                                  /\ prepared'
    <3>1. CASE s \in store
      <4>1. \A q \in Reviews : (review[q] = "admitted" /\ status[q] = 200) =>
              review'[q] = "admitted" /\ status'[q] = status[q] /\ response'[q] = response[q]
        BY <2>1 DEF IInv, TypeOK
      <4> QED
        BY <2>1, <2>7, <3>1, <4>1, StoredStays
    <3>2. CASE s \notin store
      <4>1. s = pod /\ status[r] = 200 /\ response[r].allowed /\ review'[r] = "admitted"
        BY <2>1, <2>7, <3>2 DEF IInv, TypeOK
      <4>2. s.pod = PodOf[r]
        BY <4>1
      <4> QED
        BY <2>1, <2>3, <4>1, <4>2
    <3> QED
      BY <3>1, <3>2
  <2> QED
    BY <2>5, <2>6, <2>7 DEF IInv, StoredOnlyIfAllowed
<1>7. ASSUME NEW r \in Reviews, Timeout(r)
      PROVE  IInv'
  <2> USE <1>7 DEF Timeout, Conclude, handlerVars
  <2>1. TypeOK' /\ PreparedInv' /\ AskedInv'
    BY DEF IInv, TypeOK, PreparedInv, AskedInv
  <2>2. ASSUME NEW c \in Calls
        PROVE  CallInv(c)'
    BY DEF IInv, CallInv, JSON, Input
  <2>3. StoredOnlyIfAllowed'
    BY StoredStays DEF StoredOnlyIfAllowed, IInv, TypeOK
  <2> QED
    BY <2>1, <2>2, <2>3 DEF IInv
<1>8. CASE UNCHANGED vars
  BY <1>8 DEF vars, handlerVars, IInv, TypeOK, PreparedInv, AskedInv, CallInv, JSON, Input, StoredOnlyIfAllowed
<1> QED
  BY <1>1, <1>2, <1>3, <1>4, <1>5, <1>6, <1>7, <1>8 DEF Next

\* The inductive invariant holds of every behaviour; the theorems below follow from it.
THEOREM InvAlways == Spec => []IInv
<1> QED
  BY InitInv, StepInv, PTL DEF Spec

\* Every variable keeps its type; the handlers never leave their labels.
THEOREM TypeCorrect == Spec => []TypeOK
<1>1. IInv => TypeOK
  BY DEF IInv
<1> QED
  BY <1>1, InvAlways, PTL

\* A labelled pod is stored only after the answer to a review of its own, in
\* time and from a prepared process, allowed it.
THEOREM StoredPodsAllowed == Spec => []StoredOnlyIfAllowed
<1>1. IInv => StoredOnlyIfAllowed
  BY DEF IInv
<1> QED
  BY <1>1, InvAlways, PTL

\* The webhook allows only what it decoded as a pod, sent as JSON.
THEOREM AllowedArePods == Spec => []AllowsOnlyPods
<1>1. IInv => AllowsOnlyPods
  BY DEF IInv, CallInv, JSON, AllowsOnlyPods
<1> QED
  BY <1>1, InvAlways, PTL
-----------------------------------------------------------------------------
(* Why reviews end: the part of ReviewsEnd that needs no fairness.  A step *)
(* of a handler brings it nearer to its end and nobody moves it back, its  *)
(* next step always has what it reads, and a review that waits has a       *)
(* handler to wait for.                                                    *)

\* The steps a handler has at most before it.
Ahead(l) ==
  CASE l = "read" -> 5 [] l = "check" -> 4 [] l = "decode" -> 3 [] l = "inject" -> 2
    [] l = "respond" -> 1 [] OTHER -> 0

\* A handler that was called only ever gets nearer to its end.
HandlersAdvance ==
  [][\A c \in Calls :
       /\ Handle(c) => Ahead(handler'[c]) < Ahead(handler[c])
       /\ handler[c] # "none" => Ahead(handler'[c]) <= Ahead(handler[c])]_vars

\* Behind each check the body is one that the next step knows what to do with,
\* and Respond has an answer to put the UID into.
Progress(c) ==
  /\ handler[c] = "check" => body[c] # None
  /\ handler[c] = "decode" => body[c] \notin {None, "empty"}
  /\ handler[c] = "inject" => body[c] \in {"noRequest", "badPod", "pod"}
  /\ handler[c] = "respond" => response[c] # None

WaitingHasHandler ==
  /\ \A c \in Calls : Progress(c)
  /\ \A r \in Reviews : review[r] = "waiting" => handler[r] # "none"

\* A review that has ended keeps its verdict, its answer stays what it was, and
\* a pod is stored for good.
VerdictsAreFinal ==
  [][/\ \A r \in Reviews : review[r] \in {"admitted", "denied", "error"} => review'[r] = review[r]
     /\ \A c \in Calls : handler[c] \in {"done", "panic", "aborted"} =>
          /\ handler'[c] = handler[c] /\ status'[c] = status[c] /\ response'[c] = response[c]
     /\ store \subseteq store']_vars

\* How a handler may have ended.
Ends == {"done", "panic", "aborted"}

\* The five steps of a handler, by the labels they lead to.
LEMMA HandleAdvances ==
  ASSUME IInv, NEW c \in Calls, Handle(c)
  PROVE  /\ handler[c] \in Active
         /\ Ahead(handler'[c]) < Ahead(handler[c]) /\ Ahead(handler[c]) \in Nat
         /\ handler'[c] # "none"
         /\ \A d \in Calls \ {c} : handler'[d] = handler[d]
<1> USE DEF At, Goto
<1>1. handler[c] \in Active /\ OnlyCall(c)
  BY HandleType
<1>2. \A d \in Calls \ {c} : handler'[d] = handler[d]
  BY <1>1 DEF OnlyCall, IInv, TypeOK
<1>3. \/ handler[c] = "read" /\ handler'[c] = "check"
      \/ handler[c] = "check" /\ handler'[c] \in {"done", "decode"}
      \/ handler[c] = "decode" /\ handler'[c] \in {"respond", "inject"}
      \/ handler[c] = "inject" /\ handler'[c] \in {"respond", "panic"}
      \/ handler[c] = "respond" /\ handler'[c] = "done"
  <2>1. CASE ReadBody(c)
    BY <2>1 DEF ReadBody, IInv, TypeOK
  <2>2. CASE CheckRequest(c)
    BY <2>2 DEF CheckRequest, HttpError, IInv, TypeOK
  <2>3. CASE Decode(c)
    BY <2>3 DEF Decode, IInv, TypeOK
  <2>4. CASE Inject(c)
    BY <2>4, InjectCases DEF IInv, TypeOK
  <2>5. CASE Respond(c)
    BY <2>5 DEF Respond, IInv, TypeOK
  <2> QED
    BY <2>1, <2>2, <2>3, <2>4, <2>5 DEF Handle
<1> QED
  BY <1>1, <1>2, <1>3 DEF Ahead

\* What the other steps do to the handlers and their answers.
LEMMA OtherSteps ==
  ASSUME IInv, [Next]_vars, \A c \in Calls : ~Handle(c)
  PROVE  \A c \in Calls :
           /\ \/ handler'[c] = handler[c]
              \/ handler[c] = "none" /\ handler'[c] = "read"
              \/ handler[c] \in Active /\ handler'[c] = "aborted"
           /\ body'[c] = body[c] /\ response'[c] = response[c] /\ status'[c] = status[c]
<1> SUFFICES ASSUME NEW c \in Calls
             PROVE  /\ \/ handler'[c] = handler[c]
                       \/ handler[c] = "none" /\ handler'[c] = "read"
                       \/ handler[c] \in Active /\ handler'[c] = "aborted"
                    /\ body'[c] = body[c] /\ response'[c] = response[c] /\ status'[c] = status[c]
  OBVIOUS
<1> USE DEF Goto
<1>1. CASE StartUp \/ UNCHANGED vars
  BY <1>1 DEF StartUp, vars, handlerVars
<1>2. CASE Close \/ Exit
  BY <1>2 DEF Close, Exit, handlerVars, IInv, TypeOK
<1>3. ASSUME NEW p \in Posts, Post(p)
      PROVE  /\ handler'[c] = handler[c] \/ (handler[c] = "none" /\ handler'[c] = "read")
             /\ UNCHANGED <<body, response, status>>
  BY <1>3 DEF Post, IInv, TypeOK
<1>4. ASSUME NEW r \in Reviews, Ask(r)
      PROVE  /\ handler'[c] = handler[c] \/ (handler[c] = "none" /\ handler'[c] = "read")
             /\ UNCHANGED <<body, response, status>>
  <2>1. handler[r] = "none"
    BY <1>4 DEF Ask, IInv, AskedInv
  <2>2. handler' = handler \/ handler' = [handler EXCEPT ![r] = "read"]
    BY <1>4 DEF Ask
  <2> QED
    BY <1>4, <2>1, <2>2 DEF Ask, IInv, TypeOK
<1>5. ASSUME NEW r \in Reviews, Answered(r) \/ Timeout(r)
      PROVE  UNCHANGED handlerVars
  BY <1>5 DEF Answered, Timeout
<1> QED
  BY <1>1, <1>2, <1>3, <1>4, <1>5 DEF Next, handlerVars

\* A handler comes nearer to its end with each of its steps, and no step of
\* anybody else sets it back (webhook.go:478-528 has no loop and no retry).
THEOREM HandlersComeToAnEnd == Spec => HandlersAdvance
<1>1. ASSUME IInv, [Next]_vars, NEW c \in Calls
      PROVE  /\ Handle(c) => Ahead(handler'[c]) < Ahead(handler[c])
             /\ handler[c] # "none" => Ahead(handler'[c]) <= Ahead(handler[c])
  <2>1. CASE Handle(c)
    BY <1>1, <2>1, HandleAdvances DEF Ahead
  <2>2. ASSUME NEW d \in Calls, d # c, Handle(d)
        PROVE  handler'[c] = handler[c] /\ Ahead(handler[c]) \in Nat
    BY <1>1, <2>2, HandleAdvances DEF Ahead
  <2>3. ASSUME \A d \in Calls : ~Handle(d)
        PROVE  handler[c] # "none" => Ahead(handler'[c]) <= Ahead(handler[c])
    BY <1>1, <2>3, OtherSteps DEF Ahead
  <2>4. CASE ~Handle(c)
    BY <2>2, <2>3, <2>4
  <2> QED
    BY <2>1, <2>4
<1>2. IInv /\ [Next]_vars =>
        \A c \in Calls :
          /\ Handle(c) => Ahead(handler'[c]) < Ahead(handler[c])
          /\ handler[c] # "none" => Ahead(handler'[c]) <= Ahead(handler[c])
  BY <1>1
<1> QED
  BY <1>2, InvAlways, PTL DEF Spec, HandlersAdvance

\* A review that the API server waits for has a handler, and wherever the
\* handler is, it has what its next step reads.
THEOREM WaitsHaveHandlers == Spec => []WaitingHasHandler
<1>1. Init => WaitingHasHandler
  BY DEF Init, WaitingHasHandler, Progress, Calls
<1>2. ASSUME IInv, IInv', WaitingHasHandler, [Next]_vars
      PROVE  WaitingHasHandler'
  <2>1. ASSUME NEW c \in Calls, Handle(c)
        PROVE  WaitingHasHandler'
    <3>1. /\ handler[c] \in Active /\ handler'[c] # "none"
          /\ \A d \in Calls \ {c} : handler'[d] = handler[d]
      BY <1>2, <2>1, HandleAdvances
    <3>2. OnlyCall(c)
      BY <1>2, <2>1, HandleType
    <3>3. \A r \in Reviews : review'[r] = "waiting" => handler'[r] # "none"
      BY <1>2, <3>1, <3>2 DEF OnlyCall, WaitingHasHandler, Calls
    <3>4. \A d \in Calls \ {c} : Progress(d)'
      BY <1>2, <3>1, <3>2 DEF OnlyCall, WaitingHasHandler, Progress
    <3>5. Progress(c)'
      <4> USE <1>2 DEF Progress, At, Goto, IInv
      <4>1. CASE ReadBody(c)
        <5>1. Input(c).body \in Bodies /\ None \notin Bodies /\ "empty" \in Bodies
          BY AdmissionAssumption DEF Input, Bodies, Calls
        <5> QED
          BY <4>1, <5>1 DEF ReadBody, TypeOK
      <4>2. CASE CheckRequest(c)
        BY <4>2 DEF CheckRequest, HttpError, TypeOK, WaitingHasHandler
      <4>3. CASE Decode(c)
        BY <4>3 DEF Decode, TypeOK, WaitingHasHandler, CallInv, Bodies
      <4>4. CASE Inject(c)
        BY <4>4, InjectCases, ResponseTypes DEF TypeOK
      <4>5. CASE Respond(c)
        BY <4>5 DEF Respond, TypeOK
      <4> QED
        BY <2>1, <4>1, <4>2, <4>3, <4>4, <4>5 DEF Handle
    <3> QED
      BY <3>3, <3>4, <3>5 DEF WaitingHasHandler
  <2>2. ASSUME \A c \in Calls : ~Handle(c)
        PROVE  WaitingHasHandler'
    <3>1. \A c \in Calls : Progress(c)'
      BY <1>2, <2>2, OtherSteps DEF WaitingHasHandler, Progress
    <3>2. ASSUME NEW r \in Reviews, review'[r] = "waiting", review[r] # "waiting"
          PROVE  handler'[r] # "none"
      <4>1. ASSUME NEW q \in Reviews, Ask(q)
            PROVE  handler'[r] # "none"
        <5>1. r = q /\ handler' = [handler EXCEPT ![q] = "read"]
          BY <1>2, <3>2, <4>1 DEF Ask, Conclude, Goto, IInv, TypeOK
        <5> QED
          BY <1>2, <5>1 DEF IInv, TypeOK, Calls
      <4>2. ASSUME NEW q \in Reviews, Answered(q) \/ Timeout(q)
            PROVE  FALSE
        <5>1. \E how \in {"admitted", "denied", "error"} : review' = [review EXCEPT ![q] = how]
          BY <4>2 DEF Answered, Timeout, Conclude
        <5> QED
          BY <1>2, <3>2, <5>1 DEF IInv, TypeOK
      <4>3. CASE StartUp \/ Close \/ Exit \/ UNCHANGED vars \/ \E p \in Posts : Post(p)
        BY <3>2, <4>3 DEF StartUp, Close, Exit, Post, vars
      <4> QED
        BY <1>2, <2>2, <4>1, <4>2, <4>3 DEF Next
    <3>3. \A r \in Reviews : handler[r] # "none" => handler'[r] # "none"
      BY <1>2, <2>2, OtherSteps DEF Calls, Active
    <3> QED
      BY <1>2, <3>1, <3>2, <3>3 DEF WaitingHasHandler
  <2> QED
    BY <2>1, <2>2
<1> QED
  BY <1>1, <1>2, InvAlways, PTL DEF Spec

\* Nothing is taken back: a verdict, an answer, a stored pod.
THEOREM VerdictsStay == Spec => VerdictsAreFinal
<1>1. ASSUME IInv, [Next]_vars, NEW c \in Calls, handler[c] \in Ends
      PROVE  handler'[c] = handler[c] /\ status'[c] = status[c] /\ response'[c] = response[c]
  <2>1. ASSUME NEW d \in Calls, Handle(d)
        PROVE  d # c /\ OnlyCall(d) /\ handler'[c] = handler[c]
    BY <1>1, <2>1, HandleType, HandleAdvances DEF Active, Ends
  <2>2. CASE \A d \in Calls : ~Handle(d)
    BY <1>1, <2>2, OtherSteps DEF Active, Ends
  <2> QED
    BY <2>1, <2>2 DEF OnlyCall
<1>2. ASSUME IInv, [Next]_vars
      PROVE  /\ \A r \in Reviews : review[r] \in {"admitted", "denied", "error"} => review'[r] = review[r]
             /\ store \subseteq store'
  <2>1. ASSUME NEW q \in Reviews, Ask(q) \/ Answered(q) \/ Timeout(q)
        PROVE  /\ review[q] \in {"none", "waiting"} /\ store \subseteq store'
               /\ \E how \in {"waiting", "admitted", "denied", "error"} : review' = [review EXCEPT ![q] = how]
    BY <2>1 DEF Ask, Answered, Timeout, Conclude, Save
  <2>2. ASSUME NEW c \in Calls, Handle(c)
        PROVE  UNCHANGED <<review, store>>
    BY <1>2, <2>2, HandleType DEF OnlyCall
  <2>3. CASE StartUp \/ Close \/ Exit \/ UNCHANGED vars \/ \E p \in Posts : Post(p)
    BY <2>3 DEF StartUp, Close, Exit, Post, vars
  <2>4. CASE UNCHANGED <<review, store>>
    BY <2>4
  <2>5. CASE \E q \in Reviews : Ask(q) \/ Answered(q) \/ Timeout(q)
    BY <1>2, <2>1, <2>5 DEF IInv, TypeOK
  <2> QED
    BY <1>2, <2>2, <2>3, <2>4, <2>5 DEF Next, StartUp, Close, Exit, Post, vars
<1>3. IInv /\ [Next]_vars =>
        /\ \A r \in Reviews : review[r] \in {"admitted", "denied", "error"} => review'[r] = review[r]
        /\ \A c \in Calls : handler[c] \in {"done", "panic", "aborted"} =>
             /\ handler'[c] = handler[c] /\ status'[c] = status[c] /\ response'[c] = response[c]
        /\ store \subseteq store'
  BY <1>1, <1>2 DEF Ends
<1> QED
  BY <1>3, InvAlways, PTL DEF Spec, VerdictsAreFinal
=============================================================================
