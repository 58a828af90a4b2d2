-------------------------- MODULE ClientConnection --------------------------
(***************************************************************************)
(* The connection state machine of RTI_MQTT_Client (mqtt/Client.c): the    *)
(* calls connect() and disconnect() made by session threads, the detached  *)
(* recovery threads started when the connection is lost, and the Paho      *)
(* callbacks that answer the requests these threads wait for.              *)
(*                                                                         *)
(* cfg_lock is held over short sections only, never over a wait, so every  *)
(* section is one action.  Between two sections any other thread may run.  *)
(*                                                                         *)
(* A request owns a guard condition (its trigger) and a result.  The       *)
(* requests "connect" and "disconnect" live in the client.  submit_all and *)
(* cancel_all work on a copy in the caller's stack frame: they share the   *)
(* trigger of req_sub and req_unsub, but the result is the frame's.        *)
(***************************************************************************)
EXTENDS Naturals, FiniteSets

CONSTANTS
    Callers,                  \* threads that call connect() and disconnect()
    Recoverers,               \* threads available to run on_connection_lost
    CallerOps,                \* the calls they make
    HasSubscriptions,         \* req_ctx_sub.params is not empty
    Reconnect,                \* config->reconnect
    UnsubscribeOnDisconnect,  \* config->unsubscribe_on_disconnect
    FiniteTimeouts,           \* request timeouts are not zero
    LinkFails,                \* the broker's connection may be lost
    Apart,                    \* losses and recoveries do not meet other calls
    ArrivalErrors,            \* on_message_arrived may put the client in ERROR
    MaxLate                   \* bound: unanswered requests nobody waits for

ASSUME ThreadAssumption == Callers \cap Recoverers = {}
ASSUME OpsAssumption == CallerOps \subseteq {"connect", "disconnect"}
ASSUME SwitchAssumption ==
    /\ HasSubscriptions \in BOOLEAN
    /\ Reconnect \in BOOLEAN
    /\ UnsubscribeOnDisconnect \in BOOLEAN
    /\ FiniteTimeouts \in BOOLEAN
    /\ LinkFails \in BOOLEAN
    /\ Apart \in BOOLEAN
    /\ ArrivalErrors \in BOOLEAN
ASSUME LateAssumption == MaxLate \in Nat

Threads == Callers \cup Recoverers

Requests == {"connect", "disconnect", "sub", "unsub"}

\* The requests stored in the client rather than in a stack frame.
ClientRequests == {"connect", "disconnect"}

States ==
    {"DISCONNECTED", "DISCONNECTING", "CONNECTING", "CONNECTED", "ERROR"}

Results == {"OK", "ERROR"}

\* Where a thread is: outside of any call, in the recovery loop, about to
\* take cfg_lock in disconnect(), or working on request req[t].
\* A thread that may still have an operation in flight is Waiting.
Waiting == {"submitted", "wait", "woken", "read"}
Working == {"api", "succeeded", "failed"} \cup Waiting
Places == {"idle", "lost", "reconnect", "check", "disconnect"} \cup Working

VARIABLES
    state,       \* data->state
    at,          \* place of every thread
    req,         \* request every thread works on, or worked on last
    unanswered,  \* the operation this thread submitted has no answer yet
    trigger,     \* trigger value of the guard condition of each request
    result,      \* result field of the client's requests
    frame,       \* result field of the request copy in a thread's frame
    late,        \* operations in flight whose thread no longer waits
    link,        \* the connection to the broker is up
    calm,        \* from here on the broker answers in time, and OK
    disturbed    \* a recovery was started or an arrival has failed

vars == <<state, at, req, unanswered, trigger, result, frame, late, link,
          calm, disturbed>>

\* What the code has no variable for and most steps leave alone.
ghosts == <<calm, disturbed>>

TypeOK ==
    /\ state \in States
    /\ at \in [Threads -> Places]
    /\ \A t \in Callers : at[t] \notin {"lost", "reconnect", "check"}
    /\ req \in [Threads -> Requests]
    /\ unanswered \in [Threads -> BOOLEAN]
    /\ \A t \in Threads : unanswered[t] => at[t] \in Waiting
    /\ trigger \in [Requests -> BOOLEAN]
    /\ result \in [ClientRequests -> Results]
    /\ frame \in [Threads -> Results]
    /\ late \in [Requests -> 0..MaxLate]
    /\ link \in BOOLEAN
    /\ calm \in BOOLEAN
    /\ disturbed \in BOOLEAN

\* RTI_MQTT_Client_new: requests start as RTI_MQTT_PendingRequest_INITIALIZER.
Init ==
    /\ state = "DISCONNECTED"
    /\ at = [t \in Threads |-> "idle"]
    /\ req = [t \in Threads |-> "connect"]
    /\ unanswered = [t \in Threads |-> FALSE]
    /\ trigger = [k \in Requests |-> FALSE]
    /\ result = [k \in ClientRequests |-> "ERROR"]
    /\ frame = [t \in Threads |-> "ERROR"]
    /\ late = [k \in Requests |-> 0]
    /\ link = FALSE
    /\ calm = FALSE
    /\ disturbed = FALSE

-----------------------------------------------------------------------------
(* Moves of one thread. *)

Go(t, place) == at' = [at EXCEPT ![t] = place]

\* Start working on request k.
Begin(t, k) ==
    /\ Go(t, "api")
    /\ req' = [req EXCEPT ![t] = k]

\* Leave connect() or disconnect().  on_connection_lost only looks at the
\* state afterwards; for a session thread the call is over.
Return(t) ==
    /\ Go(t, IF t \in Recoverers THEN "check" ELSE "idle")
    /\ req' = [req EXCEPT ![t] = "connect"]

\* The wait is over.  An operation without an answer is still in flight, and
\* a frame holds what the next copy will: the result of req_sub or req_unsub
\* itself, which only the initializer ever writes.
Abandon(t) ==
    /\ unanswered[t] => late[req[t]] < MaxLate
    /\ late' = [late EXCEPT ![req[t]] = @ + IF unanswered[t] THEN 1 ELSE 0]
    /\ unanswered' = [unanswered EXCEPT ![t] = FALSE]
    /\ frame' = [frame EXCEPT ![t] = "ERROR"]

-----------------------------------------------------------------------------
(* connect() and disconnect(). *)

\* Mutant of Connect: the state is not looked at.
ConnectUnchecked(t) ==
    /\ \/ t \in Callers /\ at[t] = "idle" /\ "connect" \in CallerOps /\ ~calm
       \/ at[t] = "reconnect"
    /\ state' = "CONNECTING"
    /\ Begin(t, "connect")
    /\ UNCHANGED <<unanswered, trigger, result, frame, late, link, ghosts>>

\* The first section of connect(), from a session thread or from the loop of
\* on_connection_lost.
Connect(t) ==
    /\ \/ t \in Callers /\ at[t] = "idle" /\ "connect" \in CallerOps /\ ~calm
       \/ at[t] = "reconnect"
    /\ \/ /\ state = "DISCONNECTED"
          /\ state' = "CONNECTING"
          /\ Begin(t, "connect")
       \/ /\ state # "DISCONNECTED"
          /\ Return(t)
          /\ UNCHANGED state
    /\ UNCHANGED <<unanswered, trigger, result, frame, late, link, ghosts>>

\* The first section of disconnect(), from a session thread or from the error
\* path of connect().
Disconnect(t) ==
    /\ \/ /\ t \in Callers /\ at[t] = "idle" /\ "disconnect" \in CallerOps
          /\ ~calm
          /\ Apart => \A r \in Recoverers : at[r] = "idle"
       \/ at[t] = "disconnect"
    /\ \/ /\ state \in {"CONNECTED", "ERROR"}
          /\ state' = "DISCONNECTING"
          /\ Begin(t, IF UnsubscribeOnDisconnect /\ HasSubscriptions
                      THEN "unsub" ELSE "disconnect")
       \/ /\ state \notin {"CONNECTED", "ERROR"}
          /\ Return(t)
          /\ UNCHANGED state
    /\ UNCHANGED <<unanswered, trigger, result, frame, late, link, ghosts>>

\* The Paho call takes the operation on, or refuses it.  Once calm it only
\* refuses what needs a connection when there is none.
CallApi(t) ==
    /\ at[t] = "api"
    /\ LET served == req[t] = "connect" \/ link
       IN \/ /\ calm => served
             /\ Go(t, "submitted")
             /\ unanswered' = [unanswered EXCEPT ![t] = TRUE]
          \/ /\ calm => ~served
             /\ Go(t, "failed")
             /\ UNCHANGED unanswered
    /\ UNCHANGED <<state, req, trigger, result, frame, late, link, ghosts>>

-----------------------------------------------------------------------------
(* wait_for_request(). *)

\* A wait set takes one thread at a time and refuses a second one.
EnterWait(t) ==
    /\ at[t] = "submitted"
    /\ IF \E u \in Threads : at[u] = "wait" /\ req[u] = req[t]
       THEN Go(t, "failed") /\ Abandon(t)
       ELSE Go(t, "wait") /\ UNCHANGED <<late, unanswered, frame>>
    /\ UNCHANGED <<state, req, trigger, result, link, ghosts>>

\* The wait set returns ...
Wake(t) ==
    /\ at[t] = "wait"
    /\ trigger[req[t]]
    /\ Go(t, "woken")
    /\ UNCHANGED <<state, req, unanswered, trigger, result, frame, late, link,
                   ghosts>>

\* Mutant of ResetTrigger: the trigger stays set.
ResetNothing(t) ==
    /\ at[t] = "woken"
    /\ Go(t, "read")
    /\ UNCHANGED <<state, req, unanswered, trigger, result, frame, late, link,
                   ghosts>>

\* ... and the trigger is reset, whoever else has seen or set it since.
ResetTrigger(t) ==
    /\ at[t] = "woken"
    /\ trigger' = [trigger EXCEPT ![req[t]] = FALSE]
    /\ Go(t, "read")
    /\ UNCHANGED <<state, req, unanswered, result, frame, late, link, ghosts>>

\* The wait times out.  The operation stays with Paho, and nothing clears the
\* trigger when its answer comes.
TimeOut(t) ==
    /\ at[t] = "wait"
    /\ FiniteTimeouts
    /\ ~trigger[req[t]]
    /\ calm => ~unanswered[t]
    /\ Abandon(t)
    /\ Go(t, "failed")
    /\ UNCHANGED <<state, req, trigger, result, link, ghosts>>

\* retcode = req->result.
ResultOf(t) ==
    IF req[t] \in ClientRequests THEN result[req[t]] ELSE frame[t]

ReadResult(t) ==
    /\ at[t] = "read"
    /\ Abandon(t)
    /\ Go(t, IF ResultOf(t) = "OK" THEN "succeeded" ELSE "failed")
    /\ UNCHANGED <<state, req, trigger, result, link, ghosts>>

-----------------------------------------------------------------------------
(* What connect() and disconnect() do once a request ended. *)

Succeeded(t) ==
    /\ at[t] = "succeeded"
    /\ \/ /\ req[t] = "connect"
          /\ state' = "CONNECTED"
          /\ IF HasSubscriptions
             THEN Begin(t, "sub")
             ELSE Return(t)
       \/ /\ req[t] = "sub"
          /\ Return(t)
          /\ UNCHANGED state
       \/ /\ req[t] = "unsub"
          /\ Begin(t, "disconnect")
          /\ UNCHANGED state
       \/ /\ req[t] = "disconnect"
          /\ state' = "DISCONNECTED"
          /\ Return(t)
    /\ UNCHANGED <<unanswered, trigger, result, frame, late, link, ghosts>>

\* Mutant of Failed: connect() returns without resetting the state.
FailedKeepsState(t) ==
    /\ at[t] = "failed"
    /\ IF req[t] = "sub"
       THEN Go(t, "disconnect") /\ UNCHANGED req
       ELSE Return(t)
    /\ UNCHANGED <<state, unanswered, trigger, result, frame, late, link,
                   ghosts>>

\* connect() goes back to DISCONNECTED, or disconnects when the subscriptions
\* could not be submitted; disconnect() just returns.
Failed(t) ==
    /\ at[t] = "failed"
    /\ \/ req[t] = "connect" /\ state' = "DISCONNECTED" /\ Return(t)
       \/ /\ req[t] = "sub"
          /\ Go(t, "disconnect")
          /\ UNCHANGED <<state, req>>
       \/ req[t] \in {"unsub", "disconnect"} /\ Return(t) /\ UNCHANGED state
    /\ UNCHANGED <<unanswered, trigger, result, frame, late, link, ghosts>>

-----------------------------------------------------------------------------
(* The recovery thread: RTI_MQTT_Client_on_connection_lost. *)

\* Mutant of OnConnectionLost: the state is not reset before connect().
LostKeepsState(t) ==
    /\ at[t] = "lost"
    /\ Go(t, "reconnect")
    /\ UNCHANGED <<state, req, unanswered, trigger, result, frame, late, link,
                   ghosts>>

OnConnectionLost(t) ==
    /\ at[t] = "lost"
    /\ state' = "DISCONNECTED"
    /\ Go(t, "reconnect")
    /\ UNCHANGED <<req, unanswered, trigger, result, frame, late, link, ghosts>>

CheckReconnected(t) ==
    /\ at[t] = "check"
    /\ Go(t, IF state = "CONNECTED" THEN "idle" ELSE "reconnect")
    /\ UNCHANGED <<state, req, unanswered, trigger, result, frame, late, link,
                   ghosts>>

\* Paho_on_connection_lost starts a detached thread, whatever the
\* configuration says.
Spawn ==
    /\ \E r \in Recoverers : at[r] = "idle" /\ Go(r, "lost")
    /\ disturbed' = TRUE

-----------------------------------------------------------------------------
(* The callbacks. *)

\* A successful answer changes the connection before the callback runs.
LinkAfter(k, r) ==
    CASE k = "connect" /\ r = "OK" -> TRUE
      [] k = "disconnect" /\ r = "OK" -> FALSE
      [] OTHER -> link

\* on_connection_result starts a recovery instead of waking the waiter when
\* the client believes it is connected.
Diverted(k, r) ==
    k = "connect" /\ state = "CONNECTED" /\ r = "ERROR" /\ Reconnect

\* Mutant of HandleClientRequest: the waiter is not woken by a failure.
HandleOnlySuccess(k, r) ==
    \/ /\ Diverted(k, r)
       /\ Spawn
       /\ UNCHANGED <<trigger, result>>
    \/ /\ ~Diverted(k, r)
       /\ result' = [result EXCEPT ![k] = r]
       /\ trigger' = [trigger EXCEPT ![k] = @ \/ r = "OK"]
       /\ UNCHANGED <<at, disturbed>>

\* on_*_result for a request of the client: set the result, then the trigger.
HandleClientRequest(k, r) ==
    \/ /\ Diverted(k, r)
       /\ Spawn
       /\ UNCHANGED <<trigger, result>>
    \/ /\ ~Diverted(k, r)
       /\ result' = [result EXCEPT ![k] = r]
       /\ trigger' = [trigger EXCEPT ![k] = TRUE]
       /\ UNCHANGED <<at, disturbed>>

\* The answer to the operation thread t still waits for.
Answer(t, r) ==
    /\ unanswered[t]
    /\ calm => r = "OK"
    /\ unanswered' = [unanswered EXCEPT ![t] = FALSE]
    /\ link' = LinkAfter(req[t], r)
    /\ \/ /\ req[t] \in ClientRequests
          /\ HandleClientRequest(req[t], r)
          /\ UNCHANGED frame
       \/ /\ req[t] \notin ClientRequests
          /\ frame' = [frame EXCEPT ![t] = r]
          /\ trigger' = [trigger EXCEPT ![req[t]] = TRUE]
          /\ UNCHANGED <<at, result, disturbed>>
    /\ UNCHANGED <<state, req, late, calm>>

\* The answer to an operation nobody waits for any more.  For "sub" and
\* "unsub" the callback runs on a dead stack frame: it may find it intact, it
\* may write into the frame of a later call, or it may have no effect.
LateAnswer(k, r) ==
    /\ late[k] > 0
    /\ calm => r = "OK"
    /\ late' = [late EXCEPT ![k] = @ - 1]
    /\ link' = LinkAfter(k, r)
    /\ \/ k \in ClientRequests /\ HandleClientRequest(k, r) /\ UNCHANGED frame
       \/ /\ k \notin ClientRequests
          /\ trigger' \in {trigger, [trigger EXCEPT ![k] = TRUE]}
          /\ \/ UNCHANGED frame
             \/ \E u \in Threads : /\ req[u] = k
                                   /\ at[u] \in Waiting
                                   /\ frame' = [frame EXCEPT ![u] = r]
          /\ UNCHANGED <<at, result, disturbed>>
    /\ UNCHANGED <<state, req, unanswered, calm>>

\* The broker or the network drops the connection: Paho calls connlost.
LinkLost ==
    /\ LinkFails /\ link /\ ~calm
    /\ Apart => \A t \in Threads : at[t] = "idle"
    /\ link' = FALSE
    /\ Spawn
    /\ UNCHANGED <<state, req, unanswered, trigger, result, frame, late, calm>>

\* on_message_arrived fails for some subscription.
ArrivalFails ==
    /\ ArrivalErrors /\ link /\ ~calm
    /\ state' = "ERROR"
    /\ disturbed' = TRUE
    /\ UNCHANGED <<at, req, unanswered, trigger, result, frame, late, link,
                   calm>>

\* The environment stops misbehaving and the application stops calling.
CalmDown ==
    /\ ~calm
    /\ calm' = TRUE
    /\ UNCHANGED <<state, at, req, unanswered, trigger, result, frame, late,
                   link, disturbed>>

-----------------------------------------------------------------------------
Step(t) ==
    \/ Connect(t) \/ Disconnect(t) \/ CallApi(t)
    \/ EnterWait(t) \/ Wake(t) \/ ResetTrigger(t) \/ TimeOut(t)
    \/ ReadResult(t)
    \/ Succeeded(t) \/ Failed(t)
    \/ OnConnectionLost(t) \/ CheckReconnected(t)

Next ==
    \/ \E t \in Threads : Step(t) \/ \E r \in Results : Answer(t, r)
    \/ \E k \in Requests, r \in Results : LateAnswer(k, r)
    \/ LinkLost
    \/ ArrivalFails

Spec == Init /\ [][Next]_vars

\* Threads are scheduled, Paho answers every operation it took on, and the
\* environment settles in the end.  A session thread need not make calls.
Busy(t) == at[t] # "idle" /\ Step(t)

Fairness ==
    /\ \A t \in Threads : /\ WF_vars(Busy(t))
                          /\ WF_vars(\E r \in Results : Answer(t, r))
    /\ \A k \in Requests : WF_vars(\E r \in Results : LateAnswer(k, r))
    /\ WF_vars(CalmDown)

FairSpec == Init /\ [][Next \/ CalmDown]_vars /\ Fairness

-----------------------------------------------------------------------------
(* Properties. *)

\* Thread t is between setting CONNECTING and leaving that state.
Connecting(t) == req[t] = "connect" /\ at[t] \in Working

\* Thread t is between setting DISCONNECTING and returning.
Disconnecting(t) == req[t] \in {"unsub", "disconnect"} /\ at[t] \in Working

\* CONNECTING is never left behind: while data->state is CONNECTING, which
\* makes connect() and disconnect() refuse to work (Client.c:1072, 1168), some
\* thread is inside connect() and will change it.
ConnectingHasConnector ==
    state = "CONNECTING" => \E t \in Threads : Connecting(t)

\* One thread at most is inside connect() or disconnect(), and the state says
\* in which.
OneInside ==
    /\ \A t \in Threads : /\ Connecting(t) => state = "CONNECTING"
                          /\ Disconnecting(t) => state = "DISCONNECTING"
    /\ \A t, u \in Threads :
          /\ Connecting(t) \/ Disconnecting(t)
          /\ Connecting(u) \/ Disconnecting(u)
          => t = u

\* data->state works as a lock until a recovery or a failed arrival overwrites
\* it, and excludes threads from each other in connect() and disconnect()
\* (Client.c:1065-1083, 1159-1186).
StateIsLock == ~disturbed => OneInside

\* Where losses stay apart from calls, connect() and disconnect() proceed only
\* on the answer to the operation they submitted themselves: wait_for_request
\* (Client.c:368) never reports the success of an operation still in flight.
SuccessIsOwnAnswer ==
    [][\A t \in Threads :
          /\ at[t] = "read"
          /\ at'[t] = "succeeded"
          => ~unanswered[t]]_vars

\* Where losses stay apart from calls, every call of a session thread returns
\* (Client.c:1051, 1150), even with timeouts of zero, which wait_for_request
\* turns into infinite waits.
CallsReturn == \A t \in Callers : at[t] # "idle" ~> at[t] = "idle"

\* A lost connection is re-established: once a recovery thread runs
\* (Client.c:592), the client ends up CONNECTED with the broker's connection up.
RecoveryCompletes ==
    \A r \in Recoverers : at[r] # "idle" ~> state = "CONNECTED" /\ link

=============================================================================
