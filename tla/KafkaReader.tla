---------------------------- MODULE KafkaReader ----------------------------
(***************************************************************************)
(* The Kafka adapter's stream reader: its creation and deletion            *)
(* (KafkaConnection.c), its polling thread and the calls Routing Service's *)
(* session thread makes on it (KafkaStreamReader.c).                       *)
(*                                                                         *)
(* The polling thread and the session share one message (rkm), one loaned  *)
(* payload sequence and two binary semaphores.  poll_sem lets the polling  *)
(* thread fetch the next message, read_sem lets the session read the one   *)
(* just fetched; return_loan closes the cycle.                             *)
(*                                                                         *)
(* Messages of the topic are numbered 1..KafkaMessages in offset order.    *)
(***************************************************************************)
EXTENDS Naturals

CONSTANTS
    KafkaMessages,      \* how many messages the topic ever gets
    KafkaFaults         \* how many consumer errors and failed reads may happen

ASSUME KafkaAssumption == KafkaMessages \in Nat /\ KafkaFaults \in Nat

VARIABLES
    kr_reader,      \* "none", "ready", or "joining" while it is being deleted
    run_thread,     \* the flag the polling thread tests
    poll_pc,        \* where the polling thread is
    poll_sem,       \* is the semaphore given?
    read_sem,
    rkm,            \* the message kept by the reader, 0 for NULL
    kr_live,        \* messages handed out by librdkafka and not destroyed
    payload,        \* the message whose bytes the payload sequence loans
    kr_notified,    \* on_data_available was called and no read started since
    session_pc,     \* where the session thread is
    kr_sample,      \* the message whose bytes the loaned sample holds
    kr_lost,        \* a failed read kept the reader from going on
    kr_arrived,     \* messages in the topic
    kr_fetched,     \* the consumer's position
    kr_delivered,   \* the last message Routing Service was given
    kr_faults

kreader == <<kr_reader, run_thread, poll_pc, poll_sem, read_sem, rkm, kr_live,
             payload, kr_notified, session_pc, kr_sample, kr_lost, kr_arrived,
             kr_fetched, kr_delivered, kr_faults>>

\* The event that carries a consumer error; it is never a message.
ErrorEvent == KafkaMessages + 1

\* What the environment owns.
topic == <<kr_arrived, kr_fetched>>

KafkaReaderInit ==
    /\ kr_reader = "none" /\ run_thread = FALSE /\ poll_pc = "none"
    /\ poll_sem = FALSE /\ read_sem = FALSE
    /\ rkm = 0 /\ kr_live = {} /\ payload = 0
    /\ kr_notified = FALSE /\ session_pc = "idle" /\ kr_sample = 0
    /\ kr_lost = FALSE /\ kr_arrived = 0 /\ kr_fetched = 0
    /\ kr_delivered = 0 /\ kr_faults = 0

-----------------------------------------------------------------------------
(* Creation and deletion.                                                  *)

\* Both semaphores are new, poll_sem is given once, and the thread started.
StartPolling ==
    poll_sem' = TRUE /\ read_sem' = FALSE /\ poll_pc' = "top"

\* The reader has no message.  A failed creation (a missing property, a
\* refused configuration, a failed subscription) destroys what it made and
\* leaves no reader: the state is what it was.
CreateStreamReader ==
    /\ kr_reader = "none"
    /\ kr_reader' = "ready" /\ run_thread' = TRUE
    /\ rkm' = 0 /\ kr_live' = {} /\ payload' = 0
    /\ StartPolling
    /\ kr_notified' = FALSE /\ kr_sample' = 0 /\ kr_lost' = FALSE
    /\ UNCHANGED <<session_pc, topic, kr_delivered, kr_faults>>

\* Mutant of DeleteStreamReader: the thread is not asked to end.
DeleteStreamReaderSilently ==
    /\ kr_reader = "ready" /\ session_pc = "idle"
    /\ kr_reader' = "joining"
    /\ UNCHANGED <<run_thread, poll_pc, poll_sem, read_sem, rkm, kr_live,
                   payload, kr_notified, session_pc, kr_sample, kr_lost, topic,
                   kr_delivered, kr_faults>>

\* Routing Service deletes a reader only between two reads of its session.
DeleteStreamReader ==
    /\ kr_reader = "ready" /\ session_pc = "idle"
    /\ kr_reader' = "joining" /\ run_thread' = FALSE
    /\ UNCHANGED <<poll_pc, poll_sem, read_sem, rkm, kr_live, payload,
                   kr_notified, session_pc, kr_sample, kr_lost, topic,
                   kr_delivered, kr_faults>>

\* cleanup_stream_reader: the consumer goes, with the messages it handed out,
\* and so do the semaphores and the lists.
CleanupStreamReader ==
    /\ poll_sem' = FALSE /\ read_sem' = FALSE /\ rkm' = 0 /\ kr_live' = {}
    /\ payload' = 0 /\ kr_sample' = 0

\* The join waits without limit; then the consumer is closed.
JoinPollingThread ==
    /\ kr_reader = "joining" /\ poll_pc = "ended"
    /\ kr_reader' = "none" /\ poll_pc' = "none"
    /\ CleanupStreamReader
    /\ kr_notified' = FALSE /\ kr_lost' = FALSE
    /\ UNCHANGED <<run_thread, session_pc, topic, kr_delivered, kr_faults>>

-----------------------------------------------------------------------------
(* The polling thread.                                                     *)

\* while (stream_reader->run_thread)
PollTop ==
    /\ poll_pc = "top"
    /\ poll_pc' = IF run_thread THEN "take" ELSE "ended"
    /\ UNCHANGED <<kr_reader, run_thread, poll_sem, read_sem, rkm, kr_live,
                   payload, kr_notified, session_pc, kr_sample, kr_lost,
                   topic, kr_delivered, kr_faults>>

PollTake ==
    /\ poll_pc = "take" /\ poll_sem
    /\ poll_sem' = FALSE /\ poll_pc' = "poll"
    /\ UNCHANGED <<kr_reader, run_thread, read_sem, rkm, kr_live, payload,
                   kr_notified, session_pc, kr_sample, kr_lost, topic,
                   kr_delivered, kr_faults>>

\* Mutant of PollTimeout: the semaphore is kept.
PollTimeoutKeeps ==
    /\ poll_pc = "poll"
    /\ rkm' = 0 /\ poll_pc' = "top"
    /\ UNCHANGED <<kr_reader, run_thread, poll_sem, read_sem, kr_live, payload,
                   kr_notified, session_pc, kr_sample, kr_lost, topic,
                   kr_delivered, kr_faults>>

\* The poll timed out with nothing fetched: the semaphore goes back.
PollTimeout ==
    /\ poll_pc = "poll"
    /\ rkm' = 0 /\ poll_sem' = TRUE /\ poll_pc' = "top"
    /\ UNCHANGED <<kr_reader, run_thread, read_sem, kr_live, payload,
                   kr_notified, session_pc, kr_sample, kr_lost, topic,
                   kr_delivered, kr_faults>>

\* error_cleanup: the event or message is destroyed, though the pointer keeps
\* its value, and the semaphore is given back.
ErrorCleanup ==
    /\ kr_live' = kr_live \ {rkm'} /\ poll_sem' = TRUE

\* error_cleanup returns 0 when it succeeds, and the thread returns when it
\* gets 0: every error ends the polling thread.
AfterError == "ended"

\* The poll returned an error event, or a message whose bytes the payload
\* sequence did not take.
PollError ==
    /\ poll_pc = "poll" /\ kr_faults < KafkaFaults
    /\ \/ rkm' = ErrorEvent /\ UNCHANGED kr_fetched
       \/ /\ kr_fetched < kr_arrived
          /\ rkm' = kr_fetched + 1 /\ kr_fetched' = kr_fetched + 1
    /\ ErrorCleanup
    /\ poll_pc' = AfterError
    /\ kr_faults' = kr_faults + 1
    /\ UNCHANGED <<kr_reader, run_thread, read_sem, payload, kr_notified,
                   session_pc, kr_sample, kr_lost, kr_arrived, kr_delivered>>

\* The poll returned a message; its bytes are loaned into the payload.
PollMessage ==
    /\ poll_pc = "poll" /\ kr_fetched < kr_arrived
    /\ rkm' = kr_fetched + 1 /\ kr_fetched' = kr_fetched + 1
    /\ kr_live' = kr_live \cup {rkm'} /\ payload' = rkm'
    /\ poll_pc' = "notify"
    /\ UNCHANGED <<kr_reader, run_thread, poll_sem, read_sem, kr_notified,
                   session_pc, kr_sample, kr_lost, kr_arrived, kr_delivered,
                   kr_faults>>

\* on_data_available, before read_sem is given.
PollNotify ==
    /\ poll_pc = "notify"
    /\ kr_notified' = TRUE /\ poll_pc' = "give"
    /\ UNCHANGED <<kr_reader, run_thread, poll_sem, read_sem, rkm, kr_live,
                   payload, session_pc, kr_sample, kr_lost, topic,
                   kr_delivered, kr_faults>>

\* Mutant of PollGive: the thread lets itself poll again.
PollGiveBoth ==
    /\ poll_pc = "give"
    /\ read_sem' = TRUE /\ poll_sem' = TRUE /\ poll_pc' = "top"
    /\ UNCHANGED <<kr_reader, run_thread, rkm, kr_live, payload, kr_notified,
                   session_pc, kr_sample, kr_lost, topic, kr_delivered,
                   kr_faults>>

PollGive ==
    /\ poll_pc = "give"
    /\ read_sem' = TRUE /\ poll_pc' = "top"
    /\ UNCHANGED <<kr_reader, run_thread, poll_sem, rkm, kr_live, payload,
                   kr_notified, session_pc, kr_sample, kr_lost, topic,
                   kr_delivered, kr_faults>>

-----------------------------------------------------------------------------
(* The session thread of Routing Service.                                  *)

\* The session calls read when it was notified.
ReadCall ==
    /\ kr_reader = "ready" /\ session_pc = "idle" /\ kr_notified
    /\ kr_notified' = FALSE /\ session_pc' = "wait"
    /\ UNCHANGED <<kr_reader, run_thread, poll_pc, poll_sem, read_sem, rkm,
                   kr_live, payload, kr_sample, kr_lost, topic, kr_delivered,
                   kr_faults>>

\* read waits for read_sem without limit.
ReadTake ==
    /\ session_pc = "wait" /\ read_sem
    /\ read_sem' = FALSE /\ session_pc' = "copy"
    /\ UNCHANGED <<kr_reader, run_thread, poll_pc, poll_sem, rkm, kr_live,
                   payload, kr_notified, kr_sample, kr_lost, topic,
                   kr_delivered, kr_faults>>

\* Mutant of CopyPayload: the message is destroyed once it is copied.
CopyPayloadDestroys ==
    /\ session_pc = "copy"
    /\ kr_sample' = payload /\ kr_delivered' = payload
    /\ kr_live' = kr_live \ {rkm} /\ session_pc' = "loaned"
    /\ UNCHANGED <<kr_reader, run_thread, poll_pc, poll_sem, read_sem, rkm,
                   payload, kr_notified, kr_lost, topic, kr_faults>>

\* The payload is copied into the sample, which is handed over on loan.
CopyPayload ==
    /\ session_pc = "copy"
    /\ kr_sample' = payload /\ kr_delivered' = payload
    /\ session_pc' = "loaned"
    /\ UNCHANGED <<kr_reader, run_thread, poll_pc, poll_sem, read_sem, rkm,
                   kr_live, payload, kr_notified, kr_lost, topic, kr_faults>>

\* The sample refuses the payload (it is longer than the member's bound):
\* read returns no sample, so there is no loan to return and neither
\* semaphore is given again.
CopyFails ==
    /\ session_pc = "copy" /\ kr_faults < KafkaFaults
    /\ session_pc' = "idle" /\ kr_lost' = TRUE /\ kr_faults' = kr_faults + 1
    /\ UNCHANGED <<kr_reader, run_thread, poll_pc, poll_sem, read_sem, rkm,
                   kr_live, payload, kr_notified, kr_sample, topic,
                   kr_delivered>>

\* return_loan destroys the message and lets the polling thread go on.
KafkaReturnLoan ==
    /\ session_pc = "loaned"
    /\ kr_live' = kr_live \ {rkm} /\ poll_sem' = TRUE
    /\ session_pc' = "idle" /\ kr_sample' = 0
    /\ UNCHANGED <<kr_reader, run_thread, poll_pc, read_sem, rkm, payload,
                   kr_notified, kr_lost, topic, kr_delivered, kr_faults>>

\* A producer adds a message to the topic.
Produce ==
    /\ kr_arrived < KafkaMessages
    /\ kr_arrived' = kr_arrived + 1
    /\ UNCHANGED <<kr_reader, run_thread, poll_pc, poll_sem, read_sem, rkm,
                   kr_live, payload, kr_notified, session_pc, kr_sample,
                   kr_lost, kr_fetched, kr_delivered, kr_faults>>

-----------------------------------------------------------------------------

PollingThread ==
    PollTop \/ PollTake \/ PollTimeout \/ PollError \/ PollMessage
            \/ PollNotify \/ PollGive

SessionThread == ReadCall \/ ReadTake \/ CopyPayload \/ CopyFails \/ KafkaReturnLoan

KafkaReaderNext ==
    \/ CreateStreamReader \/ DeleteStreamReader \/ JoinPollingThread
    \/ PollingThread \/ SessionThread \/ Produce

KafkaReaderSpec == KafkaReaderInit /\ [][KafkaReaderNext]_kreader

\* The threads are scheduled, and a consumer that keeps polling gets the
\* messages that are in the topic.
KafkaReaderFairness ==
    /\ WF_kreader(PollTop \/ PollNotify \/ PollGive)
    /\ WF_kreader(PollTake)
    /\ SF_kreader(PollMessage)
    /\ WF_kreader(PollTimeout \/ PollMessage)
    /\ WF_kreader(ReadCall) /\ WF_kreader(ReadTake)
    /\ WF_kreader(CopyPayload \/ CopyFails) /\ WF_kreader(KafkaReturnLoan)
    /\ WF_kreader(JoinPollingThread)

KafkaReaderFairSpec == KafkaReaderSpec /\ KafkaReaderFairness

-----------------------------------------------------------------------------
(* Properties.                                                             *)

\* Who may touch rkm and the payload next.  A failed read keeps the turn.
KafkaTurn ==
    {h \in {"poll_sem", "thread", "read_sem", "session", "lost"} :
        \/ h = "poll_sem" /\ poll_sem
        \/ h = "thread" /\ poll_pc \in {"poll", "notify", "give"}
        \/ h = "read_sem" /\ read_sem
        \/ h = "session" /\ session_pc \in {"copy", "loaned"}
        \/ h = "lost" /\ kr_lost}

\* The two semaphores pass a single turn around: while the reader exists
\* exactly one of the polling thread, the session and the two semaphores has
\* it, so that the thread never polls a message into a reader whose last one
\* is still being read.
KafkaOneTurn ==
    kr_reader # "none" => \E h \in KafkaTurn : KafkaTurn = {h}

\* From the moment read has its semaphore until return_loan has destroyed the
\* message, the payload refers to the reader's current message, that message
\* is the last one fetched, and it has not been destroyed: read copies no
\* freed bytes and return_loan destroys no message twice.
KafkaPayloadIsLive ==
    /\ session_pc \in {"copy", "loaned"} =>
           payload = rkm /\ rkm \in kr_live /\ rkm = kr_fetched
    /\ session_pc = "loaned" => kr_sample = rkm

\* Every message still to be fetched reaches Routing Service, as long as no
\* consumer error or failed read happens and the reader is not deleted.
KafkaMessagesAreRead ==
    \A n \in 1 .. KafkaMessages :
        (kr_reader = "ready" /\ kr_arrived >= n /\ kr_fetched < n)
            ~> (kr_delivered >= n \/ kr_faults > 0 \/ kr_reader # "ready")

\* A deletion ends, unless a fetched message is waiting for a read that the
\* session will not make, or a failed read has kept the turn.
KafkaDeletionEnds ==
    (kr_reader = "joining" /\ ~read_sem /\ ~kr_lost) ~> kr_reader = "none"

\* What KafkaStreamReader.c says of consumer errors ("informational as the
\* consumer will automatically try to recover"): a message that arrives in
\* the topic reaches Routing Service even when the consumer reported an error,
\* as long as no read failed.
KafkaErrorsAreInformational ==
    \A n \in 1 .. KafkaMessages :
        (kr_reader = "ready" /\ kr_arrived >= n)
            ~> (kr_fetched >= n \/ kr_lost \/ kr_reader # "ready")
=============================================================================
