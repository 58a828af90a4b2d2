--------------------------- MODULE ModbusStreams ---------------------------
(***************************************************************************)
(* The Modbus adapter at run time: a stream reader with its two threads    *)
(* and its destructor (ModbusStreamReader.cxx), a stream writer            *)
(* (ModbusStreamWriter.cxx) and the connection they share                  *)
(* (LibModbusClient.cxx).                                                  *)
(*                                                                         *)
(* A configuration is a sequence of elements; each names the slave device  *)
(* its registers are in, or is a constant that needs no transfer.  A       *)
(* transfer goes to whatever slave the connection has selected: selecting  *)
(* it and transferring are separate calls, and only the transfer holds the *)
(* connection's mutex.  The values themselves are in ModbusConfiguration.  *)
(***************************************************************************)
EXTENDS Integers, Sequences

CONSTANTS
    ModbusSetups,   \* the configurations a connection may be used with
    Constant,       \* stands for the device of a constant element
    FirstSlave      \* the slave a new connection has selected

\* A reader reads something; a setup without a writer has no elements for it.
ASSUME ModbusAssumption ==
    \A s \in ModbusSetups :
        /\ s.polling \in BOOLEAN
        /\ Len(s.reader) \in Nat \ {0} /\ Len(s.writer) \in Nat
        /\ s.writer # <<>> => Len(s.writer) > 0

VARIABLES
    mb_setup,       \* [polling, reader, writer]: the setup in use
    mb_slave,       \* the slave the connection has selected
    mb_mutex,       \* who holds cached_data_mutex_, or "free"
    mb_reader,      \* "none", "ready", "destroying", or "terminated": the
                    \* process was, see PassThrows
    mb_stop,        \* stop_thread_
    mb_cached,      \* elements gone through since a round began; cached_data_
    poller_pc,      \* the thread that reads the devices
    notifier_pc,    \* the thread that calls the listener
    mb_notified,
    session_at,     \* the session that reads from the stream reader
    mb_sample,      \* elements gone through by the copy the session got
    mb_at,          \* per actor, the element it is at and the call it makes
    mb_transfer     \* the last transfer: the device meant, the device asked

mbvars == <<mb_setup, mb_slave, mb_mutex, mb_reader, mb_stop, mb_cached,
            poller_pc, notifier_pc, mb_notified, session_at, mb_sample,
            mb_at, mb_transfer>>

NoTransfer == [meant |-> FirstSlave, asked |-> FirstSlave]
Unread == 0
Deleted == -1

\* The actors that walk through a configuration.
ModbusActors == {"poller", "session", "writer"}
AtElement(a, i, call) == mb_at' = [mb_at EXCEPT ![a] = <<i, call>>]
Elements(a) == IF a = "writer" THEN mb_setup.writer ELSE mb_setup.reader
Idle(a) == mb_at[a] = <<0, "none">>

ModbusInit ==
    /\ mb_setup \in ModbusSetups
    /\ mb_slave = FirstSlave /\ mb_mutex = "free"
    /\ mb_reader = "none" /\ mb_stop = FALSE /\ mb_cached = Unread
    /\ poller_pc = "none" /\ notifier_pc = "none"
    /\ mb_notified = FALSE /\ session_at = "idle" /\ mb_sample = Unread
    /\ mb_at = [a \in ModbusActors |-> <<0, "none">>]
    /\ mb_transfer = NoTransfer

-----------------------------------------------------------------------------
(* One pass over the configuration: read_data_from_modbus and write.       *)

\* On to the element after i, or to the end of the pass.
NextElement(a, i) ==
    IF i < Len(Elements(a)) THEN AtElement(a, i + 1, "get")
                            ELSE AtElement(a, 0, "done")

\* The reader's passes leave a mark in the cache.
MarkCached(a, i) ==
    mb_cached' = IF a = "writer" THEN mb_cached ELSE i

\* get_slave_id, compared with the element's.  A constant needs no device.
\* When the slave cannot be had the element is left out of this pass.
GetSlave(a) ==
    LET i == mb_at[a][1]
        device == Elements(a)[i]
    IN  /\ mb_at[a][2] = "get"
        /\ \/ /\ device = Constant
              /\ NextElement(a, i) /\ MarkCached(a, i)
           \/ /\ device # Constant
              /\ AtElement(a, i, IF mb_slave = device THEN "transfer" ELSE "set")
              /\ UNCHANGED mb_cached
           \/ NextElement(a, i) /\ MarkCached(a, i)
        /\ UNCHANGED <<mb_slave, mb_transfer>>

\* Mutant of SetSlave: the transfer is made when the selection has failed.
SetSlaveOrNot(a) ==
    LET i == mb_at[a][1]
    IN  /\ mb_at[a][2] = "set"
        /\ mb_slave' \in {Elements(a)[i], mb_slave}
        /\ AtElement(a, i, "transfer")
        /\ UNCHANGED <<mb_cached, mb_transfer>>

\* set_slave_id, or its exception, which leaves the element out.
SetSlave(a) ==
    LET i == mb_at[a][1]
    IN  /\ mb_at[a][2] = "set"
        /\ \/ /\ mb_slave' = Elements(a)[i]
              /\ AtElement(a, i, "transfer") /\ UNCHANGED mb_cached
           \/ /\ UNCHANGED mb_slave
              /\ NextElement(a, i) /\ MarkCached(a, i)
        /\ UNCHANGED mb_transfer

\* read_coils, read_registers, write_coils or write_registers, under the
\* connection's mutex, to the slave selected by now.  An exception leaves the
\* cached value as it was.  A writer makes no transfer for an optional member
\* that is not set or a value that is out of range.
Transfer(a) ==
    LET i == mb_at[a][1]
    IN  /\ mb_at[a][2] = "transfer"
        /\ \/ mb_transfer' = [meant |-> Elements(a)[i], asked |-> mb_slave]
           \/ a = "writer" /\ UNCHANGED mb_transfer
        /\ NextElement(a, i) /\ MarkCached(a, i)
        /\ UNCHANGED mb_slave

Pass(a) ==
    /\ GetSlave(a) \/ SetSlave(a) \/ Transfer(a)
    /\ UNCHANGED <<mb_setup, mb_mutex, mb_reader, mb_stop, poller_pc,
                   notifier_pc, mb_notified, session_at, mb_sample>>

\* An exception that the loop does not catch: a constant or a value read does
\* not suit its field, or a field cannot be had from a sample to write.  It
\* ends the pass and gives up the mutex.  The session's read() and the write()
\* throw on to their caller; on the polling thread nobody catches it, and the
\* process is terminated.
PassThrows(a) ==
    LET i == mb_at[a][1]
    IN  /\ \/ /\ mb_at[a][2] = "get" /\ Elements(a)[i] = Constant
              /\ UNCHANGED mb_transfer
           \/ /\ mb_at[a][2] = "transfer"
              /\ mb_transfer' = IF a = "writer" THEN mb_transfer
                                ELSE [meant |-> Elements(a)[i], asked |-> mb_slave]
        /\ \/ /\ a = "poller"
              /\ mb_reader' = "terminated"
              /\ UNCHANGED <<mb_at, mb_mutex, session_at>>
           \/ /\ a = "session"
              /\ AtElement(a, 0, "none") /\ mb_mutex' = "free"
              /\ session_at' = "idle"
              /\ UNCHANGED mb_reader
           \/ /\ a = "writer"
              /\ AtElement(a, 0, "none")
              /\ UNCHANGED <<mb_mutex, mb_reader, session_at>>
        /\ UNCHANGED <<mb_setup, mb_slave, mb_stop, mb_cached, poller_pc,
                       notifier_pc, mb_notified, mb_sample>>

-----------------------------------------------------------------------------
(* The stream reader.                                                      *)

\* The constructor; the threads are started when there is a polling period.
\* It throws before that when the configuration is refused.
ReaderConstructor ==
    /\ mb_reader = "none" /\ mb_mutex = "free"
    /\ mb_reader' = "ready" /\ mb_stop' = FALSE /\ mb_cached' = Unread
    /\ poller_pc' = IF mb_setup.polling THEN "check" ELSE "none"
    /\ notifier_pc' = IF mb_setup.polling THEN "check" ELSE "none"
    /\ mb_notified' = FALSE /\ mb_sample' = Unread
    /\ UNCHANGED <<mb_setup, mb_slave, mb_mutex, session_at, mb_at,
                   mb_transfer>>

\* on_data_available_thread: tests stop_thread_, reads, sleeps.
PollerCheck ==
    /\ poller_pc = "check"
    /\ poller_pc' = IF mb_stop THEN "ended" ELSE "lock"
    /\ UNCHANGED <<mb_setup, mb_slave, mb_mutex, mb_reader, mb_stop,
                   mb_cached, notifier_pc, mb_notified, session_at,
                   mb_sample, mb_at, mb_transfer>>

\* Mutant of PollerLock: the cache is written to without its mutex.
PollerNoLock ==
    /\ poller_pc = "lock" /\ mb_mutex = "free"
    /\ poller_pc' = "pass"
    /\ AtElement("poller", 1, "get")
    /\ UNCHANGED <<mb_setup, mb_slave, mb_mutex, mb_reader, mb_stop, mb_cached,
                   notifier_pc, mb_notified, session_at, mb_sample,
                   mb_transfer>>

\* read_data_from_modbus takes the cache's mutex for its whole pass.
PollerLock ==
    /\ poller_pc = "lock" /\ mb_mutex = "free"
    /\ mb_mutex' = "poller" /\ poller_pc' = "pass"
    /\ AtElement("poller", 1, "get")
    /\ UNCHANGED <<mb_setup, mb_slave, mb_reader, mb_stop, mb_cached,
                   notifier_pc, mb_notified, session_at, mb_sample,
                   mb_transfer>>

PollerUnlock ==
    /\ poller_pc = "pass" /\ mb_at["poller"] = <<0, "done">>
    /\ mb_mutex' = "free" /\ poller_pc' = "check"
    /\ AtElement("poller", 0, "none")
    /\ UNCHANGED <<mb_setup, mb_slave, mb_reader, mb_stop, mb_cached,
                   notifier_pc, mb_notified, session_at, mb_sample,
                   mb_transfer>>

\* modbus_reading_thread: tests stop_thread_, calls the listener, sleeps.
Notifier ==
    /\ \/ /\ notifier_pc = "check"
          /\ notifier_pc' = IF mb_stop THEN "ended" ELSE "call"
          /\ UNCHANGED mb_notified
       \/ /\ notifier_pc = "call"
          /\ mb_notified' = TRUE /\ notifier_pc' = "check"
    /\ UNCHANGED <<mb_setup, mb_slave, mb_mutex, mb_reader, mb_stop,
                   mb_cached, poller_pc, session_at, mb_sample, mb_at,
                   mb_transfer>>

\* read and take.  Without polling the session first makes a pass itself,
\* under the mutex, and takes the mutex again for the copy.
ModbusRead ==
    /\ mb_reader = "ready" /\ session_at = "idle"
    /\ IF mb_setup.polling
       THEN /\ mb_notified /\ session_at' = "copy"
            /\ UNCHANGED <<mb_mutex, mb_at>>
       ELSE /\ mb_mutex = "free" /\ mb_mutex' = "session"
            /\ session_at' = "pass" /\ AtElement("session", 1, "get")
    /\ mb_notified' = FALSE /\ mb_sample' = Unread
    /\ UNCHANGED <<mb_setup, mb_slave, mb_reader, mb_stop, mb_cached,
                   poller_pc, notifier_pc, mb_transfer>>

SessionUnlock ==
    /\ session_at = "pass" /\ mb_at["session"] = <<0, "done">>
    /\ mb_mutex' = "free" /\ session_at' = "copy"
    /\ AtElement("session", 0, "none")
    /\ UNCHANGED <<mb_setup, mb_slave, mb_reader, mb_stop, mb_cached,
                   poller_pc, notifier_pc, mb_notified, mb_sample,
                   mb_transfer>>

\* cached_data_ is copied under the mutex.
CopyCached ==
    /\ session_at = "copy" /\ mb_mutex = "free"
    /\ mb_sample' = mb_cached /\ session_at' = "loaned"
    /\ UNCHANGED <<mb_setup, mb_slave, mb_mutex, mb_reader, mb_stop,
                   mb_cached, poller_pc, notifier_pc, mb_notified, mb_at,
                   mb_transfer>>

ModbusReturnLoan ==
    /\ session_at = "loaned"
    /\ session_at' = "idle" /\ mb_sample' = Unread
    /\ UNCHANGED <<mb_setup, mb_slave, mb_mutex, mb_reader, mb_stop,
                   mb_cached, poller_pc, notifier_pc, mb_notified, mb_at,
                   mb_transfer>>

\* Mutant of ReaderDestructor: the threads are not asked to stop.
ReaderDestructorNoStop ==
    /\ mb_reader = "ready" /\ session_at = "idle" /\ mb_mutex = "free"
    /\ mb_reader' = "destroying" /\ mb_mutex' = "destructor"
    /\ mb_cached' = Deleted
    /\ UNCHANGED <<mb_setup, mb_slave, mb_stop, poller_pc, notifier_pc,
                   mb_notified, session_at, mb_sample, mb_at, mb_transfer>>

\* The destructor takes the mutex, deletes the cache, asks the threads to
\* stop, and joins them with the mutex held.
ReaderDestructor ==
    /\ mb_reader = "ready" /\ session_at = "idle" /\ mb_mutex = "free"
    /\ mb_reader' = "destroying" /\ mb_mutex' = "destructor"
    /\ mb_cached' = Deleted /\ mb_stop' = TRUE
    /\ UNCHANGED <<mb_setup, mb_slave, poller_pc, notifier_pc, mb_notified,
                   session_at, mb_sample, mb_at, mb_transfer>>

JoinThreads ==
    /\ mb_reader = "destroying"
    /\ mb_setup.polling => poller_pc = "ended" /\ notifier_pc = "ended"
    /\ mb_reader' = "none" /\ mb_mutex' = "free"
    /\ poller_pc' = "none" /\ notifier_pc' = "none"
    /\ UNCHANGED <<mb_setup, mb_slave, mb_stop, mb_cached, mb_notified,
                   session_at, mb_sample, mb_at, mb_transfer>>

-----------------------------------------------------------------------------
(* The stream writer.  It has no state of its own between two writes.      *)

ModbusWrite ==
    /\ Idle("writer") /\ mb_setup.writer # <<>>
    /\ AtElement("writer", 1, "get")
    /\ UNCHANGED <<mb_setup, mb_slave, mb_mutex, mb_reader, mb_stop,
                   mb_cached, poller_pc, notifier_pc, mb_notified,
                   session_at, mb_sample, mb_transfer>>

ModbusWriteEnds ==
    /\ mb_at["writer"] = <<0, "done">>
    /\ AtElement("writer", 0, "none")
    /\ UNCHANGED <<mb_setup, mb_slave, mb_mutex, mb_reader, mb_stop,
                   mb_cached, poller_pc, notifier_pc, mb_notified,
                   session_at, mb_sample, mb_transfer>>

Running == mb_reader # "terminated"

ModbusNext ==
    /\ Running
    /\ \/ ReaderConstructor \/ ReaderDestructor \/ JoinThreads
       \/ PollerCheck \/ PollerLock \/ PollerUnlock \/ Notifier
       \/ ModbusRead \/ SessionUnlock \/ CopyCached \/ ModbusReturnLoan
       \/ ModbusWrite \/ ModbusWriteEnds
       \/ \E a \in ModbusActors : Pass(a) \/ PassThrows(a)

ModbusSpec == ModbusInit /\ [][ModbusNext]_mbvars

\* The two threads and the destructor are scheduled.
ModbusFairness ==
    /\ WF_mbvars(Running /\ (PollerCheck \/ PollerUnlock \/ Pass("poller")))
    /\ WF_mbvars(Running /\ PollerLock)
    /\ WF_mbvars(Running /\ Notifier)
    /\ WF_mbvars(Running /\ JoinThreads)

-----------------------------------------------------------------------------
(* Properties.                                                             *)

\* The devices named by the elements of a setup.
DevicesOf(elements) == {elements[i] : i \in 1 .. Len(elements)} \ {Constant}

\* No other stream can change the slave of this setup's connection to another
\* one: there is no writer, or all elements name one device.
UndisturbedSlave(setup) ==
    \/ setup.writer = <<>>
    \/ \E d \in DevicesOf(setup.writer) :
           DevicesOf(setup.reader) \cup DevicesOf(setup.writer) = {d}

\* Registers and coils are read from and written to the device their element
\* names, through failed selections and constants, as long as no stream with
\* other devices shares the connection.
ModbusOwnDevice ==
    UndisturbedSlave(mb_setup) => mb_transfer.meant = mb_transfer.asked

\* A sample is copied from a cache that exists and between two passes, never
\* from the middle of one or after one that an exception ended: it is Unread
\* or has all elements.
ModbusSampleIsWhole ==
    mb_sample \in {Unread, Len(mb_setup.reader)}

\* The destructor returns, unless its threads had tested stop_thread_ already
\* and wait for the mutex it holds.
ModbusDeletionEnds ==
    (mb_reader = "destroying" /\ poller_pc # "lock") ~> mb_reader = "none"
=============================================================================
