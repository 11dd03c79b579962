------------------------------- MODULE Admission -------------------------------
(***************************************************************************)
(* A pod is created: the API server sends a review to the webhook, whose   *)
(* serveInject and inject (pkg/webhook/webhook.go) handle every request in *)
(* a goroutine of its own, and stores the pod if the answer allows it.     *)
(* Requests by other HTTP clients reach the same handler.  The process the *)
(* handlers run in is WebhookEndpoint, which WebhookProcess implements.    *)
(***************************************************************************)
EXTENDS Naturals, FiniteSets

CONSTANTS
  Reviews,               \* AdmissionReviews: one per attempt to create a pod
  PodOf,                 \* review -> the pod under review
  Labelled,              \* pods in a namespace the registration selects
  Posts,                 \* requests of other clients: [body, contentType]
  MaxPosts,              \* bound on how many of them are made
  None                   \* no pod, UID, body, answer

Pods == {PodOf[r] : r \in Reviews}
Calls == Reviews \cup Posts
\* What a request body may be: empty, not JSON, an AdmissionReview without a
\* Request, one whose object is no pod, one with a pod.
Bodies == {"empty", "malformed", "noRequest", "badPod", "pod"}

NoPatch == <<>>
Responses == [uid : Calls \cup {None}, allowed : BOOLEAN, patch : {NoPatch}]

ASSUME AdmissionAssumption ==
  /\ Labelled \subseteq Pods /\ MaxPosts \in Nat
  /\ Posts \subseteq [body : Bodies, contentType : {"application/json", "other"}]
  /\ None \notin Calls \cup Responses \cup Bodies /\ Reviews \cap Posts = {}

VARIABLES
  endpoint, prepared,    \* the process, see WebhookEndpoint
  handler,               \* per call: where its handler is, or how it ended
  body,                  \* per call: the body the handler read
  response, status,      \* per call: the AdmissionResponse and the HTTP status
  review,                \* per review: what the API server knows of it
  store                  \* pods stored: [pod, patch]

handlerVars == <<handler, body, response, status>>
vars == <<endpoint, prepared, handlerVars, review, store>>

Endpoint == INSTANCE WebhookEndpoint

Active == {"read", "check", "decode", "inject", "respond"}

TypeOK ==
  /\ endpoint \in {"starting", "serving", "gone"} /\ prepared \in BOOLEAN
  /\ handler \in [Calls -> {"none"} \cup Active \cup {"done", "panic", "aborted"}]
  /\ body \in [Calls -> Bodies \cup {None}]
  /\ response \in [Calls -> Responses \cup {None}]
  /\ status \in [Calls -> {0, 200, 400, 415}]
  /\ review \in [Reviews -> {"none", "waiting", "admitted", "denied", "error"}]
  /\ store \subseteq [pod : Pods, patch : {NoPatch}]

Init ==
  /\ Endpoint!Init
  /\ handler = [c \in Calls |-> "none"]
  /\ body = [c \in Calls |-> None]
  /\ response = [c \in Calls |-> None]
  /\ status = [c \in Calls |-> 0]
  /\ review = [r \in Reviews |-> "none"]
  /\ store = {}
-----------------------------------------------------------------------------
(* The process.                                                            *)
StartUp ==
  /\ Endpoint!Prepare \/ Endpoint!Open
  /\ UNCHANGED <<handlerVars, review, store>>

\* The listener fails, which leaves the requests in progress alone.
Close ==
  /\ Endpoint!Close
  /\ UNCHANGED <<handlerVars, review, store>>

\* The process ends, with its listener or after it, and takes them with it.
Exit ==
  /\ Endpoint!Close \/ (endpoint = "gone" /\ UNCHANGED <<endpoint, prepared>>)
  /\ handler' = [c \in Calls |-> IF handler[c] \in Active THEN "aborted" ELSE handler[c]]
  /\ UNCHANGED <<body, response, status, review, store>>
-----------------------------------------------------------------------------
(* serveInject and inject.                                                 *)
Input(c) ==
  IF c \in Posts THEN c ELSE [body |-> "pod", contentType |-> "application/json"]
At(c, l) == handler[c] = l
Goto(c, l) == handler' = [handler EXCEPT ![c] = l]
HttpErrorServer(c, code) == Goto(c, "done") /\ status' = [status EXCEPT ![c] = 500]
HttpError(c, code) == Goto(c, "done") /\ status' = [status EXCEPT ![c] = code]

\* A body that cannot be read counts as no body.
ReadBody(c) ==
  /\ At(c, "read")
  /\ body' \in {[body EXCEPT ![c] = b] : b \in {Input(c).body, "empty"}}
  /\ Goto(c, "check")
  /\ UNCHANGED <<endpoint, prepared, response, status, review, store>>

ReadAgain(c) ==
  /\ At(c, "check")
  /\ Goto(c, IF body[c] = "empty" THEN "read" ELSE "decode")
  /\ UNCHANGED <<endpoint, prepared, body, response, status, review, store>>
CheckNothing(c) ==
  /\ At(c, "check")
  /\ Goto(c, "decode") /\ UNCHANGED status
  /\ UNCHANGED <<endpoint, prepared, body, response, review, store>>
CheckRequest(c) ==
  /\ At(c, "check")
  /\ IF body[c] = "empty" THEN HttpError(c, 400)
     ELSE IF Input(c).contentType # "application/json" THEN HttpError(c, 415)
     ELSE Goto(c, "decode") /\ UNCHANGED status
  /\ UNCHANGED <<endpoint, prepared, body, response, review, store>>

ToAdmissionResponse == [uid |-> None, allowed |-> FALSE, patch |-> NoPatch]

\* deserializer.Decode; its error is answered, not an HTTP error.
Decode(c) ==
  /\ At(c, "decode")
  /\ IF body[c] = "malformed"
     THEN Goto(c, "respond") /\ response' = [response EXCEPT ![c] = ToAdmissionResponse]
     ELSE Goto(c, "inject") /\ UNCHANGED response
  /\ UNCHANGED <<endpoint, prepared, body, status, review, store>>

\* inject reads ar.Request before anything checked it: without one it panics,
\* and net/http closes the connection.  createPatch is called with no
\* annotations and returns an empty patch.
Inject(c) ==
  /\ At(c, "inject")
  /\ \/ body[c] = "noRequest" /\ Goto(c, "panic") /\ UNCHANGED response
     \/ /\ body[c] = "badPod"
        /\ response' = [response EXCEPT ![c] = ToAdmissionResponse]
        /\ Goto(c, "respond")
     \/ /\ body[c] = "pod"
        /\ response' = [response EXCEPT ![c] = [uid |-> None, allowed |-> TRUE, patch |-> NoPatch]]
        /\ Goto(c, "respond")
  /\ UNCHANGED <<endpoint, prepared, body, status, review, store>>

\* The UID is copied from the request if there is one: decoding may have failed
\* before or after it was filled in.
RequestUIDs(c) == IF body[c] = "malformed" THEN {c, None} ELSE {c}
RespondWithoutUID(c) ==
  /\ At(c, "respond")
  /\ status' = [status EXCEPT ![c] = 200]
  /\ Goto(c, "done")
  /\ UNCHANGED <<endpoint, prepared, body, response, review, store>>
\* These answers can be marshalled, but the write may fail: then nothing arrives,
\* nor does what http.Error writes after it.
Respond(c) ==
  /\ At(c, "respond")
  /\ \E uid \in RequestUIDs(c) : response' = [response EXCEPT ![c].uid = uid]
  /\ status' = [status EXCEPT ![c] = 200] \/ UNCHANGED status
  /\ Goto(c, "done")
  /\ UNCHANGED <<endpoint, prepared, body, review, store>>

Handle(c) == ReadBody(c) \/ CheckRequest(c) \/ Decode(c) \/ Inject(c) \/ Respond(c)
-----------------------------------------------------------------------------
(* The clients: another one posts, the API server reviews a new pod.       *)
Post(p) ==
  /\ endpoint = "serving" /\ handler[p] = "none"
  /\ Cardinality({q \in Posts : handler[q] # "none"}) < MaxPosts
  /\ Goto(p, "read")
  /\ UNCHANGED <<endpoint, prepared, body, response, status, review, store>>

Conclude(r, how) == review' = [review EXCEPT ![r] = how]
Save(pod, patch) == store' = store \cup {[pod |-> pod, patch |-> patch]}

\* A client creates the pod, again only after the last attempt has ended
\* without success.  A refused connection fails the call.
Ask(r) ==
  /\ review[r] = "none"
  /\ \A q \in Reviews : PodOf[q] = PodOf[r] => review[q] \notin {"waiting", "admitted"}
  /\ \/ PodOf[r] \notin Labelled /\ Save(PodOf[r], NoPatch) /\ Conclude(r, "admitted")
        /\ UNCHANGED handler
     \/ PodOf[r] \in Labelled /\ endpoint = "serving" /\ Goto(r, "read")
        /\ Conclude(r, "waiting") /\ UNCHANGED store
     \/ PodOf[r] \in Labelled /\ endpoint # "serving" /\ Conclude(r, "error")
        /\ UNCHANGED <<handler, store>>
  /\ UNCHANGED <<endpoint, prepared, body, response, status>>

\* The answer arrives while the API server still waits for it.
Admits(r) == status[r] = 200 /\ response[r].allowed
Answered(r) ==
  /\ review[r] = "waiting" /\ handler[r] \in {"done", "panic", "aborted"}
  /\ IF Admits(r)
     THEN Save(PodOf[r], response[r].patch) /\ Conclude(r, "admitted")
     ELSE Conclude(r, IF status[r] = 200 THEN "denied" ELSE "error") /\ UNCHANGED store
  /\ UNCHANGED <<endpoint, prepared, handlerVars>>

\* The call times out: failurePolicy Fail refuses the pod, and the handler's
\* answer, if it comes, reaches nobody.
Timeout(r) ==
  /\ review[r] = "waiting"
  /\ Conclude(r, "error")
  /\ UNCHANGED <<endpoint, prepared, handlerVars, store>>

Next ==
  \/ StartUp \/ Close \/ Exit
  \/ \E c \in Calls : Handle(c)
  \/ \E p \in Posts : Post(p)
  \/ \E r \in Reviews : Ask(r) \/ Answered(r) \/ Timeout(r)

Spec == Init /\ [][Next]_vars
\* The goroutine of a review's handler runs, since the API server sends the
\* whole body; another client may never do so.  The API server takes the answer,
\* or notices that the connection broke; no timer is needed for that.
FairSpec == Spec /\ \A r \in Reviews : WF_vars(Handle(r)) /\ WF_vars(Answered(r))
-----------------------------------------------------------------------------
(* Properties.                                                             *)

\* A pod of a selected namespace is stored only if a review of that very pod
\* was answered in time, with its own UID, by a process that had read its
\* configuration and synced its cache (registration.yaml: failurePolicy Fail).
StoredOnlyIfAllowed ==
  \A s \in store : s.pod \in Labelled =>
    \E r \in Reviews : /\ PodOf[r] = s.pod /\ review[r] = "admitted"
                       /\ status[r] = 200 /\ response[r].allowed /\ response[r].uid = r
                       /\ prepared

\* An AdmissionReview says "allowed" only of a pod that could be decoded, from
\* a request with the right content type; whatever else was posted is refused.
AllowsOnlyPods ==
  \A c \in Calls : (status[c] = 200 /\ response[c].allowed) =>
    body[c] = "pod" /\ Input(c).contentType = "application/json"

\* Whatever becomes of the process and whoever else posts, every review ends:
\* the handler always answers, or takes its connection down with it.
ReviewsEnd == \A r \in Reviews : (review[r] = "waiting") ~> (review[r] # "waiting")
=============================================================================
