---------------------------- MODULE Publication ----------------------------
(***************************************************************************)
(* RTI_MQTT_Publication (mqtt/Publication.c) and the client functions it   *)
(* writes through (mqtt/Client.c): a session thread submits a message to   *)
(* Paho and waits for its answer, and Paho's callback thread updates the   *)
(* counters of the publication and wakes the writer.                       *)
(*                                                                         *)
(* Every publication has one request, one last_write_qos and one trigger.  *)
(* After a timeout the message is still in flight, and its answer is taken *)
(* for the answer to whatever is being written by then.                    *)
(***************************************************************************)
EXTENDS Counters

CONSTANTS
    QosLevels,       \* QoS levels of the messages written, within 0..2
    FiniteTimeouts,  \* config->max_reply_timeout is not zero
    MaxLate          \* bound: messages in flight that nobody waits for

VARIABLES
    at,       \* place of the writer
    qos,      \* req_ctx.last_write_qos
    status,   \* data->message_status
    trigger,  \* trigger value of the request's guard condition
    result,   \* the request's result
    answer,   \* the answer to the message being written
    late,     \* messages in flight whose write() has returned
    past      \* no write() timed out, some did, or QoS 2 is used after that

pubvars == <<at, qos, status, trigger, result, answer, late, past>>

PublicationInit ==
    /\ at = "idle"
    /\ qos = 0
    /\ status = [sent_count |-> 0, pending_count |-> 0,
                 ok_count |-> 0, error_count |-> 0]
    /\ trigger = FALSE
    /\ result = "ERROR"
    /\ answer = "none"
    /\ late = 0
    /\ past = "prompt"

-----------------------------------------------------------------------------
(* write_w_params() and wait_for_write_result(). *)

\* A valid message: note its QoS and count it as pending.
Write(q) ==
    /\ at = "idle"
    /\ at' = "writing"
    /\ qos' = q
    /\ status' = [status EXCEPT !.pending_count = Wrap(@ + 1)]
    /\ past' = IF past # "prompt" /\ q = 2 THEN "mixed" ELSE past
    /\ UNCHANGED <<trigger, result, answer, late>>

\* Mutant of SendMessage: a refused message stays pending.
SendMessageLeaks ==
    /\ at = "writing"
    /\ \/ at' = "sent" /\ answer' = "awaited"
       \/ at' = "refused" /\ UNCHANGED answer
    /\ UNCHANGED <<qos, status, trigger, result, late, past>>

\* MQTTAsync_sendMessage takes the message, or refuses it.
SendMessage ==
    /\ at = "writing"
    /\ \/ /\ at' = "sent"
          /\ answer' = "awaited"
          /\ UNCHANGED status
       \/ /\ at' = "refused"
          /\ status' = [status EXCEPT !.pending_count = Wrap(@ - 1)]
          /\ UNCHANGED answer
    /\ UNCHANGED <<qos, trigger, result, late, past>>

WriteFails ==
    /\ at = "refused"
    /\ at' = "idle"
    /\ UNCHANGED <<qos, status, trigger, result, answer, late, past>>

CountSent ==
    /\ at = "sent"
    /\ at' = "wait"
    /\ status' = [status EXCEPT !.sent_count = Wrap(@ + 1)]
    /\ UNCHANGED <<qos, trigger, result, answer, late, past>>

\* The wait set returns and the trigger is reset.
Wake ==
    /\ at = "wait" /\ trigger
    /\ at' = "read"
    /\ trigger' = FALSE
    /\ UNCHANGED <<qos, status, result, answer, late, past>>

\* write() returns; a message without an answer stays in flight.
Leave ==
    /\ answer = "awaited" => late < MaxLate
    /\ late' = late + IF answer = "awaited" THEN 1 ELSE 0
    /\ past' = CASE answer # "awaited" -> past
                 [] answer = "awaited" /\ qos = 2 -> "mixed"
                 [] OTHER -> IF past = "mixed" THEN past ELSE "late"
    /\ answer' = "none"
    /\ at' = "idle"
    /\ UNCHANGED <<qos, status, trigger, result>>

TimeOut == at = "wait" /\ FiniteTimeouts /\ ~trigger /\ Leave

\* write() returns the result the request has now.
ReturnResult == at = "read" /\ Leave

-----------------------------------------------------------------------------
(* The callback. *)

\* Mutant of CountAnswer: failures are not counted.
CountOnlySuccess(s, r) ==
    [s EXCEPT !.pending_count = Wrap(@ - 1),
              !.ok_count = IF r = "OK" THEN Wrap(@ + 1) ELSE @]

CountAnswer(s, r) ==
    [s EXCEPT !.pending_count = Wrap(@ - 1),
              !.ok_count = IF r = "OK" THEN Wrap(@ + 1) ELSE @,
              !.error_count = IF r = "OK" THEN @ ELSE Wrap(@ + 1)]

\* Mutant of OnWriteResult: QoS 2 is counted here as well.
OnWriteResultAnyQos(s, r) == CountAnswer(s, r)

\* Publication_on_write_result.
OnWriteResult(s, r) ==
    IF qos = 2 /\ r = "OK" THEN s ELSE CountAnswer(s, r)

\* Client_on_write_result: for QoS 2 the delivery is taken to follow at once,
\* and Publication_on_write_delivery_result wants a pending message for it.
Answered(r) ==
    LET written == OnWriteResult(status, r)
    IN IF qos # 2
       THEN [status |-> written, result |-> r]
       ELSE IF written.pending_count = 0
            THEN [status |-> written, result |-> "ERROR"]
            ELSE [status |-> CountAnswer(written, r), result |-> r]

\* No lock protects pending_count.  While the writer adds to it or subtracts
\* from it, the callback's update or the writer's may be lost.
Raced(s) ==
    LET before == status.pending_count
        after == s.pending_count
        outcomes == CASE before # after /\ at = "writing" ->
                             {after, before, Wrap(after - 1)}
                      [] before # after /\ at = "refused" ->
                             {after, before, Wrap(after + 1)}
                      [] OTHER -> {after}
    IN {[s EXCEPT !.pending_count = p] : p \in outcomes}

\* Mutant of Callback: the writer is not woken by a failure.
CallbackOnlySuccess(r) ==
    /\ status' \in Raced(Answered(r).status)
    /\ result' = Answered(r).result
    /\ trigger' = (trigger \/ r = "OK")
    /\ UNCHANGED <<at, qos, past>>

Callback(r) ==
    /\ status' \in Raced(Answered(r).status)
    /\ result' = Answered(r).result
    /\ trigger' = TRUE
    /\ UNCHANGED <<at, qos, past>>

Answer(r) ==
    /\ answer = "awaited"
    /\ answer' = r
    /\ Callback(r)
    /\ UNCHANGED late

LateAnswer(r) ==
    /\ late > 0
    /\ late' = late - 1
    /\ Callback(r)
    /\ UNCHANGED answer

-----------------------------------------------------------------------------
WriterStep == SendMessage \/ WriteFails \/ CountSent \/ Wake \/ ReturnResult

PublicationNext ==
    \/ \E q \in QosLevels : Write(q)
    \/ WriterStep
    \/ TimeOut
    \/ \E r \in {"OK", "ERROR"} : Answer(r) \/ LateAnswer(r)

PublicationSpec == PublicationInit /\ [][PublicationNext]_pubvars

\* The writer's thread runs, and Paho answers every message it took.  A wait
\* need not time out.
PublicationFairness ==
    /\ WF_pubvars(WriterStep)
    /\ WF_pubvars(\E r \in {"OK", "ERROR"} : Answer(r))

-----------------------------------------------------------------------------
(* Properties. *)

Unanswered == late + IF answer = "awaited" THEN 1 ELSE 0

\* sent_count, ok_count and error_count account for every message Paho took:
\* each one was answered and counted once, or is in flight, until QoS 2 meets
\* a late answer (Publication.c:216-289).
AnswersCounted ==
    past # "mixed" =>
        Wrap(status.sent_count + IF at = "sent" THEN 1 ELSE 0) =
            Wrap(status.ok_count + status.error_count + Unanswered)

\* pending_count is the number of messages without an answer until a write()
\* times out: the updates of the writer and of the callback (Publication.c:429,
\* 445, 227, 277) add up.
PendingIsUnanswered ==
    past = "prompt" =>
        status.pending_count = Unanswered + IF at = "writing" THEN 1 ELSE 0

\* Until a write() times out, write() returns OK exactly when the broker
\* accepted this message (Publication.c:452, Client.c:368).
WriteReportsItsAnswer ==
    [][/\ past = "prompt"
       /\ at = "read"
       /\ at' # "read"
       => (result = "OK" <=> answer = "OK")]_pubvars

\* Every write() returns even if no wait ever times out, as with a
\* max_reply_timeout of zero (Client.c:380), and whatever answers come late.
WritesReturn == at # "idle" ~> at = "idle"

============================================================================
