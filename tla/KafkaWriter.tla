---------------------------- MODULE KafkaWriter ----------------------------
(***************************************************************************)
(* The Kafka adapter's stream writer: its creation and deletion            *)
(* (KafkaConnection.c) and write (KafkaStreamWriter.c), over the producer  *)
(* of librdkafka, which is modelled from how write uses it: a bounded      *)
(* queue that holds the messages to be sent and the delivery reports that  *)
(* nobody has served yet, and a background thread that sends.              *)
(*                                                                         *)
(* Samples are numbered in the order Routing Service writes them.          *)
(***************************************************************************)
EXTENDS Naturals, Sequences

CONSTANTS
    KafkaSamples,   \* how many samples are ever written
    KafkaQueueMax   \* queue.buffering.max.messages

ASSUME KafkaWriterAssumption ==
    KafkaSamples \in Nat /\ KafkaQueueMax \in Nat \ {0}

VARIABLES
    kw_pc,          \* "none": no writer; "idle"; "produce" and "full" in write
    kw_sample,      \* the sample write is at
    kw_last,        \* the last sample of the call
    kw_pending,     \* messages enqueued and not yet sent
    kw_reports,     \* delivery reports waiting for rd_kafka_poll
    kw_sent         \* what the broker has got

kwriter == <<kw_pc, kw_sample, kw_last, kw_pending, kw_reports, kw_sent>>

KafkaWriterInit ==
    /\ kw_pc = "none" /\ kw_sample = 0 /\ kw_last = 0
    /\ kw_pending = <<>> /\ kw_reports = 0 /\ kw_sent = <<>>

\* A failed creation leaves no writer and no producer.
CreateStreamWriter ==
    /\ kw_pc = "none"
    /\ kw_pc' = "idle" /\ kw_pending' = <<>> /\ kw_reports' = 0
    /\ UNCHANGED <<kw_sample, kw_last, kw_sent>>

\* Flushes for at most ten seconds: some of what is pending is sent, the rest
\* is reported and destroyed with the producer.
DeleteStreamWriter ==
    /\ kw_pc = "idle"
    /\ \E n \in 0 .. Len(kw_pending) :
           kw_sent' = kw_sent \o SubSeq(kw_pending, 1, n)
    /\ kw_pc' = "none" /\ kw_pending' = <<>> /\ kw_reports' = 0
    /\ UNCHANGED <<kw_sample, kw_last>>

\* Routing Service hands write a batch of samples.
WriteCall ==
    /\ kw_pc = "idle"
    /\ \E last \in kw_sample + 1 .. KafkaSamples : kw_last' = last
    /\ kw_pc' = "produce" /\ kw_sample' = kw_sample + 1
    /\ UNCHANGED <<kw_pending, kw_reports, kw_sent>>

\* The next sample of the batch, or the end of write.
NextSample ==
    IF kw_sample < kw_last
    THEN kw_sample' = kw_sample + 1 /\ kw_pc' = "produce"
    ELSE kw_sample' = kw_sample /\ kw_pc' = "idle"

\* Mutant of ServeReports: nobody polls.
ServeNoReports == kw_reports' = kw_reports

\* rd_kafka_poll serves the reports that are there.
ServeReports == kw_reports' = 0

QueueHasRoom(reports) == Len(kw_pending) + reports < KafkaQueueMax

\* The sample has no payload: it is skipped, without a poll.
SkipSample ==
    /\ kw_pc = "produce" /\ NextSample
    /\ UNCHANGED <<kw_last, kw_pending, kw_reports, kw_sent>>

\* producev takes the sample, or refuses it for good and it is dropped; the
\* reports are served and write goes on.
ProduceSample ==
    /\ kw_pc = "produce"
    /\ \/ /\ QueueHasRoom(kw_reports)
          /\ kw_pending' = Append(kw_pending, kw_sample)
       \/ UNCHANGED kw_pending
    /\ ServeReports /\ NextSample
    /\ UNCHANGED <<kw_last, kw_sent>>

\* The queue is full: write enters its retry loop.
QueueIsFull ==
    /\ kw_pc = "produce" /\ ~QueueHasRoom(kw_reports)
    /\ kw_pc' = "full"
    /\ UNCHANGED <<kw_sample, kw_last, kw_pending, kw_reports, kw_sent>>

\* A turn of the loop: serve the reports, produce again.  The loop is left
\* when the queue takes the sample; the poll behind it serves what is left.
RetrySample ==
    /\ kw_pc = "full"
    /\ ServeReports
    /\ QueueHasRoom(kw_reports')
    /\ kw_pending' = Append(kw_pending, kw_sample)
    /\ NextSample
    /\ UNCHANGED <<kw_last, kw_sent>>

\* A turn of the loop that ends with the queue still full, or with the sample
\* refused for another reason, which also leaves the loop.
RetryFails ==
    /\ kw_pc = "full"
    /\ ServeReports
    /\ \/ ~QueueHasRoom(kw_reports') /\ UNCHANGED <<kw_pc, kw_sample>>
       \/ NextSample
    /\ UNCHANGED <<kw_last, kw_pending, kw_sent>>

\* The producer's thread sends the oldest message, or gives it up when its
\* time to live has passed; either way there is a report.
SendPending ==
    /\ kw_pending # <<>>
    /\ kw_pending' = Tail(kw_pending) /\ kw_reports' = kw_reports + 1
    /\ kw_sent' \in {kw_sent, Append(kw_sent, Head(kw_pending))}
    /\ UNCHANGED <<kw_pc, kw_sample, kw_last>>

KafkaWriterNext ==
    \/ CreateStreamWriter \/ DeleteStreamWriter \/ WriteCall
    \/ SkipSample \/ ProduceSample \/ QueueIsFull \/ RetrySample
    \/ RetryFails \/ SendPending

\* The producer sends or gives up, and write is scheduled: its retry is made
\* again and again, so that it finds the room there is.  That a sample is
\* refused is not counted on.
KafkaWriterFairness ==
    /\ WF_kwriter(SendPending)
    /\ WF_kwriter(SkipSample \/ ProduceSample \/ QueueIsFull)
    /\ WF_kwriter(RetrySample)

-----------------------------------------------------------------------------
(* Properties.                                                             *)

\* A write that meets a full queue does not stay in its retry loop.
KafkaWritesReturn == kw_pc = "full" ~> kw_pc = "idle"
=============================================================================
