----------------------- MODULE ClientConnectionProofs -----------------------
(***************************************************************************)
(* Proofs about ClientConnection, for any number of session threads and    *)
(* recovery threads and for every setting of the switches.                 *)
(***************************************************************************)
EXTENDS ClientConnection, TLAPS

\* Session threads and recovery threads are different threads.
LEMMA ThreadFacts ==
    /\ Callers \subseteq Threads
    /\ Recoverers \subseteq Threads
    /\ \A t \in Recoverers : t \notin Callers
    /\ \A t \in Threads : t \in Callers \/ t \in Recoverers
  BY Zenon, ThreadAssumption DEF Threads

USE DEF Requests, ClientRequests, States, Results, Waiting, Working, Places

\* Starting a recovery thread moves an idle one and no other.
LEMMA SpawnType ==
    ASSUME TypeOK, Spawn
    PROVE  /\ at' \in [Threads -> Places]
           /\ \A t \in Callers : at'[t] \notin {"lost", "reconnect", "check"}
           /\ \A t \in Threads : unanswered[t] => at'[t] \in Waiting
           /\ disturbed' = TRUE
<1>1. PICK q \in Recoverers : at[q] = "idle" /\ Go(q, "lost")
  BY Zenon DEF Spawn
<1> QED
  BY <1>1, ThreadFacts DEF TypeOK, Go, Spawn

\* The callback of one of the client's requests wakes the waiter or starts a
\* recovery thread.
LEMMA HandlerType ==
    ASSUME TypeOK, NEW k \in ClientRequests, NEW r \in Results,
           HandleClientRequest(k, r)
    PROVE  /\ trigger' \in [Requests -> BOOLEAN]
           /\ result' \in [ClientRequests -> Results]
           /\ at' \in [Threads -> Places]
           /\ \A t \in Callers : at'[t] \notin {"lost", "reconnect", "check"}
           /\ \A t \in Threads : unanswered[t] => at'[t] \in Waiting
           /\ disturbed' \in BOOLEAN
<1>1. CASE Spawn /\ UNCHANGED <<trigger, result>>
  BY Zenon, <1>1, SpawnType DEF TypeOK
<1>2. CASE /\ result' = [result EXCEPT ![k] = r]
           /\ trigger' = [trigger EXCEPT ![k] = TRUE]
           /\ UNCHANGED <<at, disturbed>>
  <2>1. trigger' \in [Requests -> BOOLEAN]
    BY Zenon, <1>2 DEF TypeOK
  <2> QED
    BY Zenon, <1>2, <2>1 DEF TypeOK
<1> QED
  BY Zenon, <1>1, <1>2 DEF HandleClientRequest

\* One step of any thread, callback or event of the environment.
LEMMA TypePreserved == TypeOK /\ [Next]_vars => TypeOK'
<1> SUFFICES ASSUME TypeOK, [Next]_vars PROVE TypeOK'
  BY Zenon
<1> USE SwitchAssumption, LateAssumption, ThreadFacts DEF TypeOK, ghosts
<1>1. ASSUME NEW t \in Threads, Connect(t) PROVE TypeOK'
  BY <1>1 DEF Connect, Begin, Return, Go
<1>2. ASSUME NEW t \in Threads, Disconnect(t) PROVE TypeOK'
  BY <1>2 DEF Disconnect, Begin, Return, Go
<1>3. ASSUME NEW t \in Threads, CallApi(t) PROVE TypeOK'
  <2>1. /\ unanswered' \in [Threads -> BOOLEAN]
        /\ at' \in [Threads -> Places]
    BY Zenon, <1>3 DEF CallApi, Go
  <2>2. CASE Go(t, "submitted") /\ unanswered' = [unanswered EXCEPT ![t] = TRUE]
    BY <1>3, <2>1, <2>2 DEF CallApi, Go
  <2>3. CASE Go(t, "failed") /\ UNCHANGED unanswered
    BY <1>3, <2>1, <2>3 DEF CallApi, Go
  <2> QED
    BY Zenon, <1>3, <2>2, <2>3 DEF CallApi
<1>4. ASSUME NEW t \in Threads, EnterWait(t) PROVE TypeOK'
  <2>1. CASE Go(t, "failed") /\ Abandon(t)
    BY <1>4, <2>1 DEF EnterWait, Abandon, Go
  <2>2. CASE Go(t, "wait") /\ UNCHANGED <<late, unanswered, frame>>
    BY Zenon, <1>4, <2>2 DEF EnterWait, Go
  <2> QED
    BY Zenon, <1>4, <2>1, <2>2 DEF EnterWait
<1>5. ASSUME NEW t \in Threads, Wake(t) \/ ResetTrigger(t) PROVE TypeOK'
  <2>1. CASE Wake(t)
    BY Zenon, <2>1 DEF Wake, Go
  <2>2. CASE ResetTrigger(t)
    <3>1. trigger' \in [Requests -> BOOLEAN]
      BY Zenon, <2>2 DEF ResetTrigger
    <3> QED
      BY Zenon, <2>2, <3>1 DEF ResetTrigger, Go
  <2> QED
    BY Zenon, <1>5, <2>1, <2>2
<1>6. ASSUME NEW t \in Threads, TimeOut(t) PROVE TypeOK'
  BY <1>6 DEF TimeOut, Abandon, Go
<1>7. ASSUME NEW t \in Threads, ReadResult(t) PROVE TypeOK'
  BY <1>7 DEF ReadResult, Abandon, Go
<1>8. ASSUME NEW t \in Threads, Succeeded(t) PROVE TypeOK'
  BY <1>8 DEF Succeeded, Begin, Return, Go
<1>9. ASSUME NEW t \in Threads, Failed(t) PROVE TypeOK'
  BY <1>9 DEF Failed, Return, Go
<1>10. ASSUME NEW t \in Threads, OnConnectionLost(t) PROVE TypeOK'
  BY Zenon, <1>10 DEF OnConnectionLost, Go
<1>11. ASSUME NEW t \in Threads, CheckReconnected(t) PROVE TypeOK'
  BY Zenon, <1>11 DEF CheckReconnected, Go
<1>12. ASSUME NEW t \in Threads, NEW r \in Results, Answer(t, r) PROVE TypeOK'
  <2>1. link' \in BOOLEAN
    BY Zenon, <1>12 DEF Answer, LinkAfter
  <2>2. /\ unanswered' \in [Threads -> BOOLEAN]
        /\ \A u \in Threads : unanswered'[u] => unanswered[u]
    BY Zenon, <1>12 DEF Answer
  <2>3. CASE req[t] \in ClientRequests
    BY Zenon, <1>12, <2>1, <2>2, <2>3, HandlerType DEF Answer
  <2>4. CASE req[t] \notin ClientRequests
    <3>1. trigger' = [trigger EXCEPT ![req[t]] = TRUE]
      BY Zenon, <1>12, <2>4 DEF Answer
    <3>2. trigger' \in [Requests -> BOOLEAN]
      BY Zenon, <3>1
    <3> QED
      BY <1>12, <2>1, <2>2, <2>4, <3>2 DEF Answer
  <2> QED
    BY Zenon, <2>3, <2>4
<1>13. ASSUME NEW k \in Requests, NEW r \in Results, LateAnswer(k, r)
       PROVE  TypeOK'
  <2>1. link' \in BOOLEAN
    BY Zenon, <1>13 DEF LateAnswer, LinkAfter
  <2>2. late' \in [Requests -> 0..MaxLate]
    BY <1>13 DEF LateAnswer
  <2>3. CASE k \in ClientRequests
    BY <1>13, <2>1, <2>2, <2>3, HandlerType DEF LateAnswer
  <2>4. CASE k \notin ClientRequests
    <3>1. trigger' \in {trigger, [trigger EXCEPT ![k] = TRUE]}
      BY Zenon, <1>13, <2>4 DEF LateAnswer
    <3>2. [trigger EXCEPT ![k] = TRUE] \in [Requests -> BOOLEAN]
      BY Zenon
    <3>3. trigger' \in [Requests -> BOOLEAN]
      BY Zenon, <3>1, <3>2
    <3> QED
      BY <1>13, <2>1, <2>2, <2>4, <3>3 DEF LateAnswer
  <2> QED
    BY Zenon, <2>3, <2>4
<1>14. CASE LinkLost
  <2>1. link' \in BOOLEAN
    BY Zenon, <1>14 DEF LinkLost
  <2> QED
    BY Zenon, <1>14, <2>1, SpawnType DEF LinkLost
<1>15. CASE ArrivalFails
  BY Zenon, <1>15 DEF ArrivalFails
<1>16. CASE UNCHANGED vars
  BY Zenon, <1>16 DEF vars
<1> HIDE DEF TypeOK
<1>17. ASSUME NEW t \in Threads, Step(t) PROVE TypeOK'
  BY Zenon, <1>1, <1>2, <1>3, <1>4, <1>5, <1>6, <1>7, <1>8, <1>9, <1>10, <1>11, <1>17
     DEF Step
<1> QED
  BY Zenon, <1>12, <1>13, <1>14, <1>15, <1>16, <1>17 DEF Next

\* The initial state has its type.
LEMMA InitType == Init => TypeOK
<1> SUFFICES ASSUME Init PROVE TypeOK
  BY Zenon
<1>1. late \in [Requests -> 0..MaxLate]
  BY LateAssumption DEF Init
<1>2. unanswered \in [Threads -> BOOLEAN] /\ trigger \in [Requests -> BOOLEAN]
  BY Zenon DEF Init
<1> QED
  BY Zenon, <1>1, <1>2, ThreadFacts DEF Init, TypeOK

\* Every variable stays in its type: threads of the application never enter
\* the recovery loop, an unanswered operation belongs to a thread that waits.
THEOREM TypeCorrect == Spec => []TypeOK
  BY InitType, TypePreserved, PTL DEF Spec


-----------------------------------------------------------------------------
\* A thread that leaves connect() takes the state out of CONNECTING.
LEMMA ConnectorPreserved ==
    TypeOK /\ ConnectingHasConnector /\ [Next]_vars => ConnectingHasConnector'
<1> SUFFICES ASSUME TypeOK, ConnectingHasConnector, [Next]_vars,
                    state' = "CONNECTING"
             PROVE  \E t \in Threads : Connecting(t)'
  BY Zenon DEF ConnectingHasConnector
<1> USE DEF TypeOK, Connecting
<1>1. ASSUME NEW t \in Threads, Connect(t), state = "DISCONNECTED"
      PROVE  Connecting(t)'
  BY <1>1 DEF Connect, Begin, Go
<1>2. ASSUME state = "CONNECTING" PROVE \E t \in Threads : Connecting(t)'
  <2>1. PICK c \in Threads : Connecting(c)
    BY Zenon, <1>2 DEF ConnectingHasConnector
  <2>2. ASSUME NEW t \in Threads, Step(t) PROVE Connecting(c)'
    <3>1. CASE t = c
      BY <1>2, <2>1, <2>2, <3>1
         DEF Step, Connect, Disconnect, CallApi, EnterWait, Wake,
             ResetTrigger, TimeOut, ReadResult, Succeeded, Failed,
             OnConnectionLost, CheckReconnected, Begin, Return, Go
    <3>2. CASE t # c
      BY <2>1, <2>2, <3>2
         DEF Step, Connect, Disconnect, CallApi, EnterWait, Wake,
             ResetTrigger, TimeOut, ReadResult, Succeeded, Failed,
             OnConnectionLost, CheckReconnected, Begin, Return, Go
    <3> QED
      BY Zenon, <3>1, <3>2
  <2>3. ASSUME Spawn, UNCHANGED req PROVE Connecting(c)'
    BY Zenon, <2>1, <2>3, ThreadFacts DEF Spawn, Go
  <2>4. ASSUME NEW k \in Requests, NEW r \in Results, HandleClientRequest(k, r),
               UNCHANGED req
        PROVE  Connecting(c)'
    BY Zenon, <2>1, <2>3, <2>4 DEF HandleClientRequest
  <2>5. ASSUME NEW t \in Threads, NEW r \in Results, Answer(t, r)
        PROVE  Connecting(c)'
    BY Zenon, <2>1, <2>4, <2>5 DEF Answer
  <2>6. ASSUME NEW k \in Requests, NEW r \in Results, LateAnswer(k, r)
        PROVE  Connecting(c)'
    BY Zenon, <2>1, <2>4, <2>6 DEF LateAnswer
  <2>7. CASE LinkLost
    BY Zenon, <2>3, <2>7 DEF LinkLost
  <2>8. CASE UNCHANGED <<at, req>>
    BY Zenon, <2>1, <2>8
  <2> QED
    BY <2>2, <2>5, <2>6, <2>7, <2>8 DEF Next, ArrivalFails, vars
<1>3. ASSUME state # "CONNECTING"
      PROVE  \E t \in Threads : Connect(t) /\ state = "DISCONNECTED"
  BY <1>3 DEF Next, Step, Connect, Disconnect, CallApi, EnterWait, Wake,
              ResetTrigger, TimeOut, ReadResult, Succeeded, Failed,
              OnConnectionLost, CheckReconnected, Answer, LateAnswer, LinkLost,
              ArrivalFails, vars
<1> QED
  BY Zenon, <1>1, <1>2, <1>3

\* While data->state is CONNECTING some thread is inside connect() and will
\* change it (Client.c:1051-1148), however many threads call, time out or
\* recover at once.
THEOREM ConnectingIsOwned == Spec => []ConnectingHasConnector
<1>1. Init => ConnectingHasConnector
  BY Zenon DEF Init, ConnectingHasConnector
<1> QED
  BY <1>1, TypeCorrect, ConnectorPreserved, PTL DEF Spec

-----------------------------------------------------------------------------
\* StateIsLock as an inductive invariant: before the first disturbance no
\* recovery thread is running either.
LockInv ==
    ~disturbed => OneInside /\ \A r \in Recoverers : at[r] = "idle"

\* Every step keeps LockInv.
LEMMA LockPreserved == TypeOK /\ LockInv /\ [Next]_vars => LockInv'
<1> SUFFICES ASSUME TypeOK, LockInv, [Next]_vars, ~disturbed' PROVE LockInv'
  BY Zenon DEF LockInv
<1> USE ThreadFacts
    DEF TypeOK, LockInv, OneInside, Connecting, Disconnecting, ghosts
<1>1. ASSUME NEW t \in Threads, Connect(t) PROVE LockInv'
  BY <1>1 DEF Connect, Begin, Return, Go
<1>2. ASSUME NEW t \in Threads, Disconnect(t) PROVE LockInv'
  BY <1>2 DEF Disconnect, Begin, Return, Go
<1>3. ASSUME NEW t \in Threads, CallApi(t) PROVE LockInv'
  BY <1>3 DEF CallApi, Go
<1>4. ASSUME NEW t \in Threads, EnterWait(t) PROVE LockInv'
  BY <1>4 DEF EnterWait, Go
<1>5. ASSUME NEW t \in Threads, Wake(t) \/ ResetTrigger(t) PROVE LockInv'
  BY <1>5 DEF Wake, ResetTrigger, Go
<1>6. ASSUME NEW t \in Threads, TimeOut(t) PROVE LockInv'
  BY <1>6 DEF TimeOut, Go
<1>7. ASSUME NEW t \in Threads, ReadResult(t) PROVE LockInv'
  BY <1>7 DEF ReadResult, Go
<1>8. ASSUME NEW t \in Threads, Succeeded(t) PROVE LockInv'
  BY <1>8 DEF Succeeded, Begin, Return, Go
<1>9. ASSUME NEW t \in Threads, Failed(t) PROVE LockInv'
  BY <1>9 DEF Failed, Return, Go
<1>10. ASSUME NEW t \in Threads, OnConnectionLost(t) \/ CheckReconnected(t)
       PROVE  FALSE
  BY Zenon, <1>10 DEF OnConnectionLost, CheckReconnected
<1>11. ASSUME NEW t \in Threads, NEW r \in Results, Answer(t, r)
       PROVE  UNCHANGED <<state, at, req, disturbed>>
  BY Zenon, <1>11 DEF Answer, HandleClientRequest, Spawn
<1>12. ASSUME NEW k \in Requests, NEW r \in Results, LateAnswer(k, r)
       PROVE  UNCHANGED <<state, at, req, disturbed>>
  BY Zenon, <1>12 DEF LateAnswer, HandleClientRequest, Spawn
<1>13. ASSUME LinkLost \/ ArrivalFails PROVE FALSE
  BY Zenon, <1>13 DEF LinkLost, ArrivalFails, Spawn
<1>14. CASE UNCHANGED <<state, at, req, disturbed>>
  BY Zenon, <1>14
<1> HIDE DEF TypeOK, LockInv, OneInside, Connecting, Disconnecting
<1>15. ASSUME NEW t \in Threads, Step(t) PROVE LockInv'
  BY Zenon, <1>1, <1>2, <1>3, <1>4, <1>5, <1>6, <1>7, <1>8, <1>9, <1>10, <1>15
     DEF Step
<1> QED
  BY Zenon, <1>11, <1>12, <1>13, <1>14, <1>15 DEF Next, vars

\* data->state works as a lock until the first recovery or failed arrival: one
\* thread at most is inside connect() or disconnect(), for any number of
\* threads and with any timeouts and late answers (Client.c:1065-1083,
\* 1159-1186).
THEOREM StateExcludes == Spec => []StateIsLock
<1>1. Init => LockInv
  BY ThreadFacts DEF Init, LockInv, OneInside, Connecting, Disconnecting
<1>2. LockInv => StateIsLock
  BY Zenon DEF LockInv, StateIsLock
<1> QED
  BY <1>1, <1>2, LockPreserved, TypeCorrect, PTL DEF Spec

-----------------------------------------------------------------------------
(* Success is the answer to one's own operation.  Where losses stay apart  *)
(* from calls, waits do not time out, arrivals do not fail and there are   *)
(* no subscriptions to submit, data->state is a lock for good: nobody      *)
(* resets it while a thread is inside.  So no operation is abandoned, and  *)
(* a trigger that is set is that of an answer its own waiter has not read. *)

\* The settings of this part.
Settled == Apart /\ ~FiniteTimeouts /\ ~ArrivalErrors /\ ~HasSubscriptions

\* Operations are those of connect() and disconnect(); none is abandoned.
NoneAbandoned ==
    /\ \A t \in Threads : at[t] # "disconnect" /\ req[t] \in ClientRequests
    /\ \A k \in Requests : late[k] = 0

\* A recovery meets no disconnect(), and starts when nobody can connect.
RecoveryApart ==
    \A r \in Recoverers :
        /\ at[r] # "idle" => \A t \in Threads : ~Disconnecting(t)
        /\ at[r] = "lost" => /\ ~link /\ state # "DISCONNECTED"
                             /\ \A t \in Threads : t # r => at[t] = "idle"

\* There is no connection in state DISCONNECTED: connect() fails only before
\* there is one, disconnect() succeeds only after it is gone.
LinkKnown ==
    /\ link => state # "DISCONNECTED"
    /\ \A t \in Threads :
          /\ link /\ Connecting(t) =>
                \/ at[t] = "succeeded"
                \/ at[t] \in Waiting /\ ~unanswered[t] /\ result["connect"] = "OK"
          /\ link /\ req[t] = "disconnect" =>
                /\ at[t] # "succeeded"
                /\ at[t] \in Waiting /\ ~unanswered[t] => result["disconnect"] = "ERROR"

\* A trigger is set between an answer and the reset by the one it is for.
TriggerOwned ==
    /\ \A k \in Requests : trigger[k] =>
          \E t \in Threads : /\ req[t] = k /\ ~unanswered[t]
                             /\ at[t] \in {"submitted", "wait", "woken"}
    /\ \A t \in Threads : at[t] \in {"woken", "read"} => ~unanswered[t]

SettledInv ==
    TypeOK /\ OneInside /\ NoneAbandoned /\ RecoveryApart /\ LinkKnown /\ TriggerOwned

\* A thread that works on a request is inside connect() or disconnect().
LEMMA WorkingIsInside ==
    ASSUME SettledInv, NEW t \in Threads, at[t] \in Working
    PROVE  /\ req[t] = "connect" => Connecting(t)
           /\ req[t] = "disconnect" => Disconnecting(t)
           /\ \A u \in Threads : at[u] \in Working => u = t
           /\ \A u \in Recoverers : at[u] # "lost"
<1>0. TypeOK /\ OneInside /\ NoneAbandoned /\ RecoveryApart /\ LinkKnown /\ TriggerOwned
  BY Zenon DEF SettledInv
<1>1. req[t] \in ClientRequests
  BY Zenon, <1>0 DEF NoneAbandoned
<1>2. \A u \in Threads : at[u] \in Working => Connecting(u) \/ Disconnecting(u)
  BY Zenon, <1>0 DEF NoneAbandoned, Connecting, Disconnecting
<1>3. \A u \in Threads : at[u] \in Working => u = t
  BY Zenon, <1>0, <1>2 DEF OneInside
<1>4. \A u \in Recoverers : at[u] # "lost"
  BY Zenon, <1>0, ThreadFacts DEF RecoveryApart
<1>. QED BY Zenon, <1>1, <1>3, <1>4 DEF Connecting, Disconnecting

\* connect() or disconnect() is refused.
LEMMA SettledRefused ==
    ASSUME SettledInv, TypeOK', NEW t \in Threads, Return(t),
           at[t] \in {"idle", "reconnect"}, t \in Recoverers => at[t] = "reconnect",
           UNCHANGED <<state, unanswered, trigger, result, late, link>>
    PROVE  SettledInv'
<1>0. TypeOK /\ OneInside /\ NoneAbandoned /\ RecoveryApart /\ LinkKnown /\ TriggerOwned
  BY Zenon DEF SettledInv
<1>1. \A u \in Threads :
          /\ at'[u] = IF u = t THEN (IF t \in Recoverers THEN "check" ELSE "idle") ELSE at[u]
          /\ req'[u] = IF u = t THEN "connect" ELSE req[u]
  BY <1>0 DEF Return, Go, TypeOK
<1>2. \A u \in Threads : at'[u] \in Working => at'[u] = at[u] /\ req'[u] = req[u]
  BY Zenon, <1>1
<1>3. OneInside'
  BY <1>0, <1>2 DEF OneInside, Connecting, Disconnecting
<1>4. NoneAbandoned'
  BY Zenon, <1>0, <1>1 DEF NoneAbandoned
<1>5. RecoveryApart'
  BY <1>0, <1>1, <1>2, ThreadFacts DEF RecoveryApart, Disconnecting
<1>6. LinkKnown'
  BY <1>0, <1>1, <1>2 DEF LinkKnown, Connecting
<1>7. TriggerOwned'
  BY <1>0, <1>1, <1>2 DEF TriggerOwned
<1>. QED BY Zenon, <1>3, <1>4, <1>5, <1>6, <1>7 DEF SettledInv

\* A thread enters connect() or disconnect().
LEMMA SettledBegins ==
    ASSUME SettledInv, TypeOK', NEW t \in Threads, NEW k \in ClientRequests, Begin(t, k),
           k = "connect" => state = "DISCONNECTED" /\ state' = "CONNECTING",
           k = "disconnect" => /\ state \in {"CONNECTED", "ERROR"} /\ state' = "DISCONNECTING"
                               /\ t \notin Recoverers /\ \A r \in Recoverers : at[r] = "idle",
           at[t] \in {"idle", "reconnect"},
           UNCHANGED <<unanswered, trigger, result, late, link>>
    PROVE  SettledInv'
<1>0. TypeOK /\ OneInside /\ NoneAbandoned /\ RecoveryApart /\ LinkKnown /\ TriggerOwned
  BY Zenon DEF SettledInv
<1>1. \A u \in Threads : /\ at'[u] = IF u = t THEN "api" ELSE at[u]
                         /\ req'[u] = IF u = t THEN k ELSE req[u]
  BY <1>0 DEF Begin, Go, TypeOK
<1>2. \A u \in Threads : ~Connecting(u) /\ ~Disconnecting(u)
  BY Zenon, <1>0 DEF OneInside
<1>3. \A u \in Threads : at[u] \notin Working
  BY Zenon, <1>0, <1>2 DEF NoneAbandoned, Connecting, Disconnecting
<1>4. OneInside'
  BY <1>1, <1>3 DEF OneInside, Connecting, Disconnecting
<1>5. NoneAbandoned'
  BY Zenon, <1>0, <1>1 DEF NoneAbandoned
<1>6. RecoveryApart'
  <2>. SUFFICES ASSUME NEW r \in Recoverers
                PROVE  /\ at'[r] # "idle" => \A u \in Threads : ~Disconnecting(u)'
                       /\ at'[r] = "lost" =>
                             /\ ~link' /\ state' # "DISCONNECTED"
                             /\ \A u \in Threads : u # r => at'[u] = "idle"
    BY Zenon DEF RecoveryApart
  <2>1. CASE k = "connect"
    BY Zenon, <1>0, <1>1, <1>3, <2>1, ThreadFacts DEF RecoveryApart, Disconnecting
  <2>2. CASE k = "disconnect"
    BY Zenon, <1>1, <2>2, ThreadFacts
  <2>. QED BY Zenon, <2>1, <2>2
<1>7. LinkKnown'
  BY <1>0, <1>1, <1>2, <1>3 DEF LinkKnown, Connecting
<1>8. TriggerOwned'
  BY <1>0, <1>1, <1>3 DEF TriggerOwned
<1>. QED BY Zenon, <1>4, <1>5, <1>6, <1>7, <1>8 DEF SettledInv

\* The first sections of connect() and disconnect().
LEMMA SettledEnters ==
    ASSUME Settled, SettledInv, NEW t \in Threads, Connect(t) \/ Disconnect(t)
    PROVE  SettledInv'
<1>0. TypeOK /\ OneInside /\ NoneAbandoned /\ RecoveryApart /\ LinkKnown /\ TriggerOwned
  BY Zenon DEF SettledInv
<1>1. TypeOK'
  BY Zenon, <1>0, TypePreserved DEF Next, Step
<1>2. CASE Connect(t)
  <2>1. /\ UNCHANGED <<unanswered, trigger, result, late, link>>
        /\ at[t] \in {"idle", "reconnect"} /\ (t \in Recoverers => at[t] = "reconnect")
    BY Zenon, <1>2, ThreadFacts DEF Connect
  <2>. QED BY Zenon, <1>1, <1>2, <2>1, SettledRefused, SettledBegins DEF Connect
<1>3. CASE Disconnect(t)
  <2>1. /\ UNCHANGED <<unanswered, trigger, result, late, link>>
        /\ t \notin Recoverers /\ at[t] = "idle" /\ \A r \in Recoverers : at[r] = "idle"
    BY Zenon, <1>0, <1>3, ThreadFacts DEF Disconnect, Settled, NoneAbandoned
  <2>2. \/ /\ state \in {"CONNECTED", "ERROR"} /\ state' = "DISCONNECTING"
           /\ Begin(t, "disconnect")
        \/ Return(t) /\ UNCHANGED state
    BY Zenon, <1>3 DEF Disconnect, Settled
  <2>. QED BY Zenon, <1>1, <2>1, <2>2, SettledRefused, SettledBegins
<1>. QED BY Zenon, <1>2, <1>3

\* A thread goes on with its request, and no other thread is inside.
LEMMA SettledMoves ==
    ASSUME SettledInv, TypeOK', NEW t \in Threads, NEW place \in Working,
           at[t] \in Working, Go(t, place), UNCHANGED <<state, req, result, late, link>>,
           LinkKnown', TriggerOwned'
    PROVE  SettledInv'
<1>0. TypeOK /\ OneInside /\ NoneAbandoned /\ RecoveryApart /\ LinkKnown /\ TriggerOwned
  BY Zenon DEF SettledInv
<1>1. \A u \in Threads : at'[u] = IF u = t THEN place ELSE at[u]
  BY <1>0 DEF Go, TypeOK
<1>2. OneInside'
  BY <1>0, <1>1 DEF OneInside, Connecting, Disconnecting
<1>3. NoneAbandoned'
  BY Zenon, <1>0, <1>1 DEF NoneAbandoned
<1>4. RecoveryApart'
  BY Zenon, <1>0, <1>1, ThreadFacts DEF RecoveryApart, Disconnecting
<1>. QED BY Zenon, <1>2, <1>3, <1>4 DEF SettledInv

\* The call of Paho and wait_for_request.
LEMMA SettledWaits ==
    ASSUME Settled, SettledInv, NEW t \in Threads,
           CallApi(t) \/ EnterWait(t) \/ Wake(t) \/ ResetTrigger(t) \/ TimeOut(t) \/ ReadResult(t)
    PROVE  SettledInv'
<1>0. TypeOK /\ OneInside /\ NoneAbandoned /\ RecoveryApart /\ LinkKnown /\ TriggerOwned
  BY Zenon DEF SettledInv
<1>1. TypeOK'
  BY Zenon, <1>0, TypePreserved DEF Next, Step
<1>2. at[t] \in Working /\ req[t] \in ClientRequests
  BY Zenon, <1>0 DEF CallApi, EnterWait, Wake, ResetTrigger, TimeOut, ReadResult, NoneAbandoned
<1>3. /\ \A u \in Threads : at[u] \in Working => u = t
      /\ req[t] = "connect" => Connecting(t)
  BY Zenon, <1>2, WorkingIsInside
<1>4. \A k \in Requests : trigger[k] =>
          k = req[t] /\ ~unanswered[t] /\ at[t] \in {"submitted", "wait", "woken"}
  BY <1>0, <1>3 DEF TriggerOwned
<1>. DEFINE Moves(place) == \A u \in Threads : at'[u] = IF u = t THEN place ELSE at[u]
<1>5. \A place : Go(t, place) => Moves(place)
  BY Zenon, <1>0 DEF Go, TypeOK
<1>6. CASE CallApi(t)
  <2>1. /\ at[t] = "api" /\ UNCHANGED <<state, req, trigger, result, late, link>>
        /\ \/ Go(t, "submitted") /\ unanswered' = [unanswered EXCEPT ![t] = TRUE]
           \/ Go(t, "failed") /\ UNCHANGED unanswered
    BY Zenon, <1>6 DEF CallApi
  <2>2. \A u \in Threads : u # t => at'[u] = at[u] /\ unanswered'[u] = unanswered[u]
    BY <1>0, <1>5, <2>1 DEF TypeOK
  <2>3. at'[t] = "failed" \/ (at'[t] = "submitted" /\ unanswered'[t])
    BY <1>0, <1>5, <2>1 DEF TypeOK
  <2>4. req[t] = "connect" => ~link
    BY Zenon, <1>0, <1>3, <2>1 DEF LinkKnown
  <2>5. LinkKnown'
    BY ZenonT(30), <1>0, <2>1, <2>2, <2>3, <2>4 DEF LinkKnown, Connecting
  <2>6. TriggerOwned'
    BY Zenon, <1>0, <1>4, <2>1, <2>2, <2>3 DEF TriggerOwned
  <2>. QED BY Zenon, <1>1, <1>2, <2>1, <2>5, <2>6, SettledMoves
<1>7. CASE EnterWait(t)
  <2>1. at[t] = "submitted" /\ UNCHANGED <<state, req, trigger, result, link>>
    BY Zenon, <1>7 DEF EnterWait
  <2>2. ~ \E u \in Threads : at[u] = "wait" /\ req[u] = req[t]
    BY Zenon, <1>3, <2>1
  <2>3. Go(t, "wait") /\ UNCHANGED <<late, unanswered>>
    BY Zenon, <1>7, <2>2 DEF EnterWait
  <2>4. Moves("wait")
    BY Zenon, <1>5, <2>3
  <2>5. LinkKnown'
    BY Zenon, <1>0, <2>1, <2>3, <2>4 DEF LinkKnown, Connecting
  <2>6. TriggerOwned'
    BY Zenon, <1>0, <1>4, <2>1, <2>3, <2>4 DEF TriggerOwned
  <2>. QED BY Zenon, <1>1, <1>2, <2>1, <2>3, <2>5, <2>6, SettledMoves
<1>8. CASE Wake(t)
  <2>1. /\ at[t] = "wait" /\ trigger[req[t]] /\ Go(t, "woken")
        /\ UNCHANGED <<state, req, unanswered, trigger, result, late, link>>
    BY Zenon, <1>8 DEF Wake
  <2>2. Moves("woken")
    BY Zenon, <1>5, <2>1
  <2>3. ~unanswered[t]
    BY Zenon, <1>2, <1>4, <2>1
  <2>4. LinkKnown'
    BY <1>0, <2>1, <2>2 DEF LinkKnown, Connecting
  <2>5. TriggerOwned'
    BY Zenon, <1>0, <1>4, <2>1, <2>2, <2>3 DEF TriggerOwned
  <2>. QED BY Zenon, <1>1, <1>2, <2>1, <2>4, <2>5, SettledMoves
<1>9. CASE ResetTrigger(t)
  <2>1. /\ at[t] = "woken" /\ Go(t, "read")
        /\ trigger' = [trigger EXCEPT ![req[t]] = FALSE]
        /\ UNCHANGED <<state, req, unanswered, result, late, link>>
    BY Zenon, <1>9 DEF ResetTrigger
  <2>2. Moves("read")
    BY Zenon, <1>5, <2>1
  <2>3. \A k \in Requests : ~trigger'[k]
    BY Zenon, <1>0, <1>2, <1>4, <2>1 DEF TypeOK
  <2>4. LinkKnown'
    BY Zenon, <1>0, <2>1, <2>2 DEF LinkKnown, Connecting
  <2>5. TriggerOwned'
    BY <1>0, <2>1, <2>2, <2>3 DEF TriggerOwned
  <2>. QED BY Zenon, <1>1, <1>2, <2>1, <2>4, <2>5, SettledMoves
<1>10. CASE TimeOut(t)
  BY Zenon, <1>10 DEF TimeOut, Settled
<1>11. CASE ReadResult(t)
  <2>. DEFINE place == IF ResultOf(t) = "OK" THEN "succeeded" ELSE "failed"
  <2>1. /\ at[t] = "read" /\ Abandon(t) /\ Go(t, place)
        /\ UNCHANGED <<state, req, trigger, result, link>>
    BY Zenon, <1>11 DEF ReadResult
  <2>2. ~unanswered[t]
    BY Zenon, <1>0, <2>1 DEF TriggerOwned
  <2>3. \A k \in Requests : late'[k] = late[k]
    BY <1>0, <2>1, <2>2, LateAssumption DEF Abandon, TypeOK
  <2>4. UNCHANGED late
    BY <1>0, <1>1, <2>3 DEF TypeOK
  <2>5. \A u \in Threads : unanswered'[u] = unanswered[u]
    <3>1. unanswered \in [Threads -> BOOLEAN] /\ unanswered[t] = FALSE
      BY <1>0, <2>2 DEF TypeOK
    <3>. QED BY Zenon, <2>1, <3>1 DEF Abandon
  <2>6. Moves(place)
    BY Zenon, <1>5, <2>1
  <2>7. req[t] = "connect" /\ link => place = "succeeded"
    BY Zenon, <1>0, <1>2, <1>3, <2>1 DEF LinkKnown, ResultOf
  <2>8. req[t] = "disconnect" /\ link => place = "failed"
    BY Zenon, <1>0, <1>2, <2>1, <2>2 DEF LinkKnown, ResultOf
  <2>9. LinkKnown'
    BY Zenon, <1>0, <1>2, <2>1, <2>5, <2>6, <2>7, <2>8 DEF LinkKnown, Connecting
  <2>10. TriggerOwned'
    BY Zenon, <1>0, <1>4, <2>1, <2>5, <2>6 DEF TriggerOwned
  <2>. QED BY Zenon, <1>1, <1>2, <2>1, <2>4, <2>9, <2>10, SettledMoves
<1>. QED BY Zenon, <1>6, <1>7, <1>8, <1>9, <1>10, <1>11

\* connect() or disconnect() ends.
LEMMA SettledEnds ==
    ASSUME Settled, SettledInv, NEW t \in Threads, Succeeded(t) \/ Failed(t)
    PROVE  SettledInv'
<1>0. TypeOK /\ OneInside /\ NoneAbandoned /\ RecoveryApart /\ LinkKnown /\ TriggerOwned
  BY DEF SettledInv
<1>1. TypeOK'
  BY Zenon, <1>0, TypePreserved DEF Next, Step
<1>2. /\ at[t] \in {"succeeded", "failed"} /\ Return(t)
      /\ UNCHANGED <<unanswered, trigger, result, late, link>>
  BY Zenon, <1>0 DEF Succeeded, Failed, Settled, NoneAbandoned
<1>3. /\ \A u \in Threads : at[u] \in Working => u = t
      /\ \A u \in Recoverers : at[u] # "lost"
      /\ req[t] = "connect" => Connecting(t)
      /\ req[t] = "disconnect" => Disconnecting(t)
  BY Zenon, <1>2, WorkingIsInside
<1>4. \A u \in Threads :
          /\ at'[u] = IF u = t THEN (IF t \in Recoverers THEN "check" ELSE "idle") ELSE at[u]
          /\ req'[u] = IF u = t THEN "connect" ELSE req[u]
  BY Zenon, <1>0, <1>2 DEF Return, Go, TypeOK
<1>5. \A u \in Threads : at'[u] \notin Working
  BY Zenon, <1>3, <1>4
<1>6. OneInside'
  BY Zenon, <1>5 DEF OneInside, Connecting, Disconnecting
<1>7. NoneAbandoned'
  BY Zenon, <1>0, <1>2, <1>4 DEF NoneAbandoned
<1>8. RecoveryApart'
  BY Zenon, <1>3, <1>4, <1>5, ThreadFacts DEF RecoveryApart, Disconnecting
<1>9. link => state' # "DISCONNECTED"
  <2>1. CASE req[t] = "connect" /\ at[t] = "succeeded"
    BY Zenon, <2>1 DEF Succeeded, Failed
  <2>2. CASE req[t] = "connect" /\ at[t] = "failed"
    BY Zenon, <1>0, <1>3, <2>2 DEF LinkKnown
  <2>3. CASE req[t] = "disconnect" /\ at[t] = "succeeded"
    BY Zenon, <1>0, <2>3 DEF LinkKnown
  <2>4. CASE req[t] = "disconnect" /\ at[t] = "failed"
    BY Zenon, <1>0, <2>4 DEF Succeeded, Failed, LinkKnown
  <2>. QED BY Zenon, <1>0, <1>2, <2>1, <2>2, <2>3, <2>4 DEF NoneAbandoned
<1>10. LinkKnown'
  BY Zenon, <1>2, <1>4, <1>5, <1>9 DEF LinkKnown, Connecting
<1>11. TriggerOwned'
  BY <1>0, <1>2, <1>3, <1>4, <1>5 DEF TriggerOwned
<1>. QED BY Zenon, <1>1, <1>6, <1>7, <1>8, <1>10, <1>11 DEF SettledInv

\* The recovery loop resets the state while nobody is inside.
LEMMA SettledRecovers ==
    ASSUME SettledInv, NEW t \in Threads, OnConnectionLost(t) \/ CheckReconnected(t)
    PROVE  SettledInv'
<1>0. TypeOK /\ OneInside /\ NoneAbandoned /\ RecoveryApart /\ LinkKnown /\ TriggerOwned
  BY Zenon DEF SettledInv
<1>1. TypeOK'
  BY Zenon, <1>0, TypePreserved DEF Next, Step
<1>2. UNCHANGED <<req, unanswered, trigger, result, late, link>>
  BY Zenon DEF OnConnectionLost, CheckReconnected
<1>3. t \in Recoverers
  BY Zenon, <1>0, ThreadFacts DEF OnConnectionLost, CheckReconnected, TypeOK
<1>4. CASE OnConnectionLost(t)
  <2>1. /\ at[t] = "lost" /\ state' = "DISCONNECTED"
        /\ \A u \in Threads : at'[u] = IF u = t THEN "reconnect" ELSE at[u]
    BY Zenon, <1>0, <1>4 DEF OnConnectionLost, Go, TypeOK
  <2>2. ~link /\ \A u \in Threads : u # t => at[u] = "idle"
    BY Zenon, <1>0, <1>3, <2>1 DEF RecoveryApart
  <2>3. OneInside' /\ NoneAbandoned' /\ RecoveryApart'
    BY <1>0, <1>2, <2>1, <2>2, ThreadFacts
       DEF NoneAbandoned, OneInside, RecoveryApart, Connecting, Disconnecting
  <2>4. LinkKnown' /\ TriggerOwned'
    BY Zenon, <1>0, <1>2, <2>1, <2>2 DEF LinkKnown, TriggerOwned
  <2>. QED BY Zenon, <1>1, <2>3, <2>4 DEF SettledInv
<1>5. CASE CheckReconnected(t)
  <2>1. /\ at[t] = "check" /\ UNCHANGED state
        /\ at'[t] \in {"idle", "reconnect"}
        /\ \A u \in Threads : u # t => at'[u] = at[u]
    BY Zenon, <1>0, <1>5 DEF CheckReconnected, Go, TypeOK
  <2>2. \A u \in Threads : at'[u] \in Working => u # t
    BY Zenon, <2>1
  <2>3. OneInside' /\ NoneAbandoned'
    BY <1>0, <1>2, <2>1, <2>2 DEF NoneAbandoned, OneInside, Connecting, Disconnecting
  <2>4. RecoveryApart'
    BY Zenon, <1>0, <1>2, <1>3, <2>1, <2>2, ThreadFacts DEF RecoveryApart, Disconnecting
  <2>5. LinkKnown' /\ TriggerOwned'
    BY <1>0, <1>2, <2>1, <2>2 DEF LinkKnown, TriggerOwned, Connecting
  <2>. QED BY Zenon, <1>1, <2>3, <2>4, <2>5 DEF SettledInv
<1>. QED BY Zenon, <1>4, <1>5

\* The answer wakes the thread that is inside, and is not diverted.
LEMMA SettledAnswered ==
    ASSUME SettledInv, NEW t \in Threads, NEW r \in Results, Answer(t, r)
    PROVE  SettledInv'
<1>0. TypeOK /\ OneInside /\ NoneAbandoned /\ RecoveryApart /\ LinkKnown /\ TriggerOwned
  BY Zenon DEF SettledInv
<1>1. TypeOK'
  BY Zenon, <1>0, TypePreserved DEF Next
<1>2. at[t] \in {"submitted", "wait"} /\ unanswered[t] /\ req[t] \in ClientRequests
  BY Zenon, <1>0 DEF Answer, TypeOK, NoneAbandoned, TriggerOwned
<1>3. /\ \A u \in Threads : at[u] \in Working => u = t
      /\ \A u \in Recoverers : at[u] # "lost"
      /\ req[t] = "connect" => Connecting(t)
  BY Zenon, <1>2, WorkingIsInside
<1>4. ~Diverted(req[t], r)
  BY Zenon, <1>0, <1>3 DEF Diverted, OneInside
<1>5. /\ result' = [result EXCEPT ![req[t]] = r] /\ trigger' = [trigger EXCEPT ![req[t]] = TRUE]
      /\ unanswered' = [unanswered EXCEPT ![t] = FALSE] /\ link' = LinkAfter(req[t], r)
      /\ UNCHANGED <<state, at, req, late>>
  BY Zenon, <1>2, <1>4 DEF Answer, HandleClientRequest
<1>6. /\ result'[req[t]] = r /\ ~unanswered'[t]
      /\ \A u \in Threads : u # t => unanswered'[u] = unanswered[u]
  BY Zenon, <1>0, <1>2, <1>5 DEF TypeOK
<1>7. \A k \in Requests : trigger'[k] => trigger[k] \/ k = req[t]
  BY Zenon, <1>0, <1>5 DEF TypeOK
<1>8. OneInside' /\ NoneAbandoned'
  BY Zenon, <1>0, <1>5 DEF OneInside, NoneAbandoned, Connecting, Disconnecting
<1>9. RecoveryApart'
  BY Zenon, <1>0, <1>3, <1>5 DEF RecoveryApart, Disconnecting
<1>10. LinkKnown'
  <2>1. CASE req[t] = "connect"
    <3>1. state = "CONNECTING" /\ ~link
      BY Zenon, <1>0, <1>2, <1>3, <2>1 DEF OneInside, LinkKnown
    <3>2. link' => r = "OK"
      BY Zenon, <1>5, <2>1, <3>1 DEF LinkAfter
    <3>3. \A u \in Threads : req[u] = "disconnect" => at[u] \notin Working
      BY Zenon, <1>3, <2>1
    <3>. QED BY Zenon, <1>2, <1>3, <1>5, <1>6, <2>1, <3>1, <3>2, <3>3 DEF LinkKnown, Connecting
  <2>2. CASE req[t] = "disconnect"
    <3>1. link' => link /\ r = "ERROR"
      BY Zenon, <1>5, <2>2 DEF LinkAfter
    <3>2. \A u \in Threads : ~Connecting(u)
      BY Zenon, <1>3, <2>2 DEF Connecting
    <3>3. \A u \in Threads : u # t => at[u] \notin Working
      BY Zenon, <1>3
    <3>. QED BY Zenon, <1>0, <1>2, <1>5, <1>6, <2>2, <3>1, <3>2, <3>3 DEF LinkKnown, Connecting
  <2>. QED BY Zenon, <1>2, <2>1, <2>2
<1>11. TriggerOwned'
  <2>1. ASSUME NEW k \in Requests, trigger'[k]
        PROVE  \E u \in Threads : /\ req'[u] = k /\ ~unanswered'[u]
                                  /\ at'[u] \in {"submitted", "wait", "woken"}
    <3>1. CASE k = req[t]
      BY Zenon, <1>2, <1>5, <1>6, <3>1
    <3>2. CASE trigger[k]
      BY <1>0, <1>2, <1>5, <1>6, <3>2 DEF TriggerOwned
    <3>. QED BY Zenon, <1>7, <2>1, <3>1, <3>2
  <2>2. \A u \in Threads : at'[u] \in {"woken", "read"} => ~unanswered'[u]
    BY Zenon, <1>0, <1>2, <1>5, <1>6 DEF TriggerOwned
  <2>. QED BY Zenon, <2>1, <2>2 DEF TriggerOwned
<1>. QED BY Zenon, <1>1, <1>8, <1>9, <1>10, <1>11 DEF SettledInv

\* A loss starts a recovery when nobody is inside.
LEMMA SettledLost ==
    ASSUME Settled, SettledInv, LinkLost
    PROVE  SettledInv'
<1>0. TypeOK /\ OneInside /\ NoneAbandoned /\ RecoveryApart /\ LinkKnown /\ TriggerOwned
  BY Zenon DEF SettledInv
<1>1. TypeOK'
  BY Zenon, <1>0, TypePreserved DEF Next
<1>2. /\ link /\ ~link' /\ \A t \in Threads : at[t] = "idle"
      /\ UNCHANGED <<state, req, unanswered, trigger, result, late>>
  BY Zenon DEF LinkLost, Settled
<1>3. PICK q \in Recoverers : Go(q, "lost")
  BY Zenon DEF LinkLost, Spawn
<1>4. \A t \in Threads : at'[t] = IF t = q THEN "lost" ELSE "idle"
  BY Zenon, <1>0, <1>2, <1>3 DEF Go, TypeOK
<1>5. state # "DISCONNECTED"
  BY Zenon, <1>0, <1>2 DEF LinkKnown
<1>6. OneInside' /\ NoneAbandoned' /\ RecoveryApart'
  BY <1>0, <1>2, <1>4, <1>5, ThreadFacts
     DEF NoneAbandoned, OneInside, RecoveryApart, Connecting, Disconnecting
<1>7. LinkKnown' /\ TriggerOwned'
  BY Zenon, <1>0, <1>2, <1>4 DEF LinkKnown, TriggerOwned
<1>. QED BY Zenon, <1>1, <1>6, <1>7 DEF SettledInv

\* Every step keeps SettledInv.
LEMMA SettledStep ==
    ASSUME Settled, SettledInv, [Next \/ CalmDown]_vars
    PROVE  SettledInv'
<1>0. TypeOK /\ OneInside /\ NoneAbandoned /\ RecoveryApart /\ LinkKnown /\ TriggerOwned
  BY Zenon DEF SettledInv
<1>1. ASSUME NEW t \in Threads, Step(t) PROVE SettledInv'
  BY Zenon, <1>1, SettledEnters, SettledWaits, SettledEnds, SettledRecovers DEF Step
<1>2. ASSUME NEW k \in Requests, NEW r \in Results, LateAnswer(k, r) PROVE FALSE
  BY <1>0, <1>2 DEF LateAnswer, NoneAbandoned
<1>3. CASE ArrivalFails
  BY Zenon, <1>3 DEF ArrivalFails, Settled
<1>4. CASE CalmDown \/ UNCHANGED vars
  <2>1. UNCHANGED <<state, at, req, unanswered, trigger, result, frame, late, link>>
        /\ calm' \in BOOLEAN /\ disturbed' \in BOOLEAN
    BY ZenonT(30), <1>0, <1>4 DEF CalmDown, vars, TypeOK
  <2>2. TypeOK'
    BY Zenon, <1>0, <2>1 DEF TypeOK
  <2>3. OneInside' /\ NoneAbandoned' /\ RecoveryApart'
    BY <1>0, <2>1 DEF NoneAbandoned, OneInside, RecoveryApart, Connecting, Disconnecting
  <2>4. LinkKnown' /\ TriggerOwned'
    BY Zenon, <1>0, <2>1 DEF LinkKnown, TriggerOwned, Connecting
  <2>. QED BY Zenon, <2>2, <2>3, <2>4 DEF SettledInv
<1>. QED BY Zenon, <1>1, <1>2, <1>3, <1>4, SettledAnswered, SettledLost DEF Next

\* connect() and disconnect() proceed only on the answer to the operation they
\* submitted themselves (Client.c:340-407), for any number of threads, losses
\* and recoveries, as long as losses stay apart from calls.
THEOREM OwnAnswer == Settled => (FairSpec => SuccessIsOwnAnswer)
<1>1. Init => SettledInv
  <2>. SUFFICES ASSUME Init PROVE SettledInv
    BY Zenon
  <2>1. TypeOK
    BY Zenon, InitType
  <2>. QED BY Zenon, <2>1, ThreadFacts
           DEF Init, SettledInv, OneInside, NoneAbandoned, RecoveryApart, LinkKnown,
               TriggerOwned, Connecting, Disconnecting
<1>2. Settled /\ SettledInv /\ [Next \/ CalmDown]_vars => (Settled /\ SettledInv)'
  BY Zenon, SettledStep DEF Settled
<1>3. SettledInv => \A t \in Threads :
                        /\ at[t] = "read"
                        /\ at'[t] = "succeeded"
                        => ~unanswered[t]
  BY Zenon DEF SettledInv, TriggerOwned
<1>. QED BY <1>1, <1>2, <1>3, PTL DEF FairSpec, SuccessIsOwnAnswer

=============================================================================
