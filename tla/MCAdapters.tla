----------------------------- MODULE MCAdapters -----------------------------
(***************************************************************************)
(* The parts of the adapters that do not share state, side by side for     *)
(* TLC: the two receive queues, the publications and the entity lists of   *)
(* the MQTT adapter, the Kafka reader and writer, and the streams of a     *)
(* Modbus connection.  A behaviour is one of the part chosen first.        *)
(***************************************************************************)
EXTENDS MCCircularReceiveQueue, UnboundedReceiveQueue, Publication,
        KafkaReader, KafkaWriter, ModbusStreams, MqttAdapter

CONSTANT Parts

VARIABLE part

\* A Modbus reader and writer: with polling and without; several devices and
\* a constant for a reader alone, one device for both, different devices.
Setup(polling, reader, writer) ==
    [polling |-> polling, reader |-> reader, writer |-> writer]
MCModbusSetups ==
    {Setup(TRUE, <<1, Constant, 2>>, <<>>), Setup(FALSE, <<2, 1>>, <<>>),
     Setup(TRUE, <<1, 1>>, <<1>>), Setup(FALSE, <<1>>, <<2, 1>>)}

\* A part that was not chosen starts in one state only.
AdaptersInit ==
    /\ part \in Parts
    /\ Init /\ UnboundedInit /\ PublicationInit /\ KafkaReaderInit
    /\ KafkaWriterInit /\ ModbusInit /\ MqttInit
    /\ part # "modbus" => mb_setup = Setup(FALSE, <<2, 1>>, <<>>)

AdaptersNext ==
    /\ UNCHANGED part
    /\ \/ /\ part = "ring" /\ Next
          /\ UNCHANGED <<uvars, pubvars, kreader, kwriter, mbvars, mqvars>>
       \/ /\ part = "unbounded" /\ UnboundedNext
          /\ UNCHANGED <<vars, pubvars, kreader, kwriter, mbvars, mqvars>>
       \/ /\ part = "publication" /\ PublicationNext
          /\ UNCHANGED <<vars, uvars, kreader, kwriter, mbvars, mqvars>>
       \/ /\ part = "kafka reader" /\ KafkaReaderNext
          /\ UNCHANGED <<vars, uvars, pubvars, kwriter, mbvars, mqvars>>
       \/ /\ part = "kafka writer" /\ KafkaWriterNext
          /\ UNCHANGED <<vars, uvars, pubvars, kreader, mbvars, mqvars>>
       \/ /\ part = "modbus" /\ ModbusNext
          /\ UNCHANGED <<vars, uvars, pubvars, kreader, kwriter, mqvars>>
       \/ /\ part = "mqtt" /\ MqttNext
          /\ UNCHANGED <<vars, uvars, pubvars, kreader, kwriter, mbvars>>

allvars == <<part, vars, uvars, pubvars, kreader, kwriter, mbvars, mqvars>>

AdaptersSpec ==
    /\ AdaptersInit /\ [][AdaptersNext]_allvars
    /\ PublicationFairness /\ KafkaReaderFairness /\ KafkaWriterFairness
    /\ ModbusFairness
=============================================================================
