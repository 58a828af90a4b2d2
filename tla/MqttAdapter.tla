---------------------------- MODULE MqttAdapter ----------------------------
(***************************************************************************)
(* The entities of the MQTT adapter: the plugin with its list of broker    *)
(* connections (Plugin.c), every connection with its lists of stream       *)
(* readers and writers (BrokerConnection.c), and the objects themselves    *)
(* (MessageReader.c, MessageWriter.c).                                     *)
(*                                                                         *)
(* All three lists are kept the same way.  Creating reads the list's       *)
(* length, makes the object, which waits for the broker, and stores it at  *)
(* that index.  Deleting looks the object up, deletes it, shifts the       *)
(* entries behind it to the left and shortens the list.  Nothing locks a   *)
(* list: that two calls on one owner do not overlap is left to Routing     *)
(* Service, and is assumed here.  Calls on different owners overlap.       *)
(***************************************************************************)
EXTENDS Naturals, Sequences, Functions

CONSTANTS
    MqttConnections, MqttReaders, MqttWriters   \* addresses of the objects

\* Objects that exist have different addresses.
ASSUME MqttAssumption ==
    /\ MqttConnections \cap MqttReaders = {} /\ MqttConnections \cap MqttWriters = {}
    /\ MqttReaders \cap MqttWriters = {}
    /\ {"plugin", "none"} \cap (MqttConnections \cup MqttReaders \cup MqttWriters) = {}

VARIABLES
    mq_plugin,      \* the plugin exists
    mq_list,        \* the list of every owner
    mq_call,        \* calls in progress: owner and the length they have read
    mq_owner        \* the owner of every object that exists

mqvars == <<mq_plugin, mq_list, mq_call, mq_owner>>

Plugin == <<"plugin", "connections">>
Owners == {Plugin} \cup (MqttConnections \X {"readers", "writers"})
NoOwner == <<"none", "none">>
NoCall == [owner |-> NoOwner, length |-> 0]
Objects == MqttConnections \cup MqttReaders \cup MqttWriters

\* What an owner's list is for.
Kept(o) == CASE o[2] = "connections" -> MqttConnections
             [] o[2] = "readers" -> MqttReaders
             [] o[2] = "writers" -> MqttWriters

Exists(o) == IF o = Plugin THEN mq_plugin ELSE mq_owner[o[1]] = Plugin

MqttInit ==
    /\ mq_plugin = FALSE
    /\ mq_list = [o \in Owners |-> <<>>]
    /\ mq_call = [x \in Objects |-> NoCall]
    /\ mq_owner = [x \in Objects |-> NoOwner]

Calling(o) == \E x \in Objects : mq_call[x].owner = o
Vacant(o) == ~Calling(o)

\* AdapterPlugin_new
AdapterPluginCreate ==
    /\ ~mq_plugin
    /\ mq_plugin' = TRUE /\ mq_list' = [mq_list EXCEPT ![Plugin] = <<>>]
    /\ UNCHANGED <<mq_call, mq_owner>>

\* A create call begins: it reads the length of the list.
BeginCreate(o, x) ==
    /\ Exists(o) /\ Vacant(o)
    /\ mq_owner[x] = NoOwner /\ mq_call[x] = NoCall
    /\ mq_call' = [mq_call EXCEPT ![x] = [owner |-> o,
                                          length |-> Len(mq_list[o])]]
    /\ UNCHANGED <<mq_plugin, mq_list, mq_owner>>

\* ensure_length(length + 1), then the slot at length is written.
StoreAt(list, length, x) ==
    [i \in 1 .. length + 1 |-> IF i = length + 1 THEN x ELSE list[i]]

\* The object could be made: it is stored, with lists of its own if it is a
\* connection.
EndCreate(o, x) ==
    /\ mq_call[x].owner = o
    /\ mq_list' = [p \in Owners |->
                      IF p = o THEN StoreAt(mq_list[o], mq_call[x].length, x)
                      ELSE IF p[1] = x THEN <<>> ELSE mq_list[p]]
    /\ mq_owner' = [mq_owner EXCEPT ![x] = o]
    /\ mq_call' = [mq_call EXCEPT ![x] = NoCall]
    /\ UNCHANGED mq_plugin

\* The stream's type, the properties or the broker stood in the way: what was
\* made is deleted and the list is as it was.
FailCreate(o, x) ==
    /\ mq_call[x].owner = o
    /\ mq_call' = [mq_call EXCEPT ![x] = NoCall]
    /\ UNCHANGED <<mq_plugin, mq_list, mq_owner>>

\* AdapterPlugin_create_connection: BrokerConnection_new, then the list.
CreateConnection(c) ==
    BeginCreate(Plugin, c) \/ EndCreate(Plugin, c) \/ FailCreate(Plugin, c)

\* BrokerConnection_create_stream_reader: MessageReader_new, then the list.
CreateMqttReader(c, r) ==
    LET o == <<c, "readers">>
    IN  BeginCreate(o, r) \/ EndCreate(o, r) \/ FailCreate(o, r)

\* BrokerConnection_create_stream_writer: MessageWriter_new, then the list.
CreateMqttWriter(c, w) ==
    LET o == <<c, "writers">>
    IN  BeginCreate(o, w) \/ EndCreate(o, w) \/ FailCreate(o, w)

\* Mutant of ShiftLeft: the move begins one entry too late.
ShiftLeftLate(list, x) ==
    LET rm == CHOOSE i \in DOMAIN list :
                  list[i] = x /\ \A j \in 1 .. i - 1 : list[j] # x
    IN  [i \in 1 .. Len(list) - 1 |-> IF i <= rm THEN list[i] ELSE list[i + 1]]

\* The entries behind the first x move to the left; the list gets shorter.
ShiftLeft(list, x) ==
    LET rm == CHOOSE i \in DOMAIN list :
                  list[i] = x /\ \A j \in 1 .. i - 1 : list[j] # x
    IN  [i \in 1 .. Len(list) - 1 |-> IF i < rm THEN list[i] ELSE list[i + 1]]

\* An object that is not in the list is not deleted.
DeleteEntry(o, x) ==
    /\ mq_owner[x] = o /\ Vacant(o)
    /\ x \in Range(mq_list[o])
    /\ mq_list' = [mq_list EXCEPT ![o] = ShiftLeft(mq_list[o], x)]
    /\ mq_owner' = [mq_owner EXCEPT ![x] = NoOwner]
    /\ UNCHANGED <<mq_plugin, mq_call>>

DeleteMqttReader(c, r) == DeleteEntry(<<c, "readers">>, r)

DeleteMqttWriter(c, w) == DeleteEntry(<<c, "writers">>, w)

\* Routing Service deletes the streams of a connection before the connection.
HasStreams(c) == \/ \E x \in Objects : mq_owner[x] # NoOwner /\ mq_owner[x][1] = c
                 \/ \E k \in {"readers", "writers"} : Calling(<<c, k>>)

DeleteConnection(c) == ~HasStreams(c) /\ DeleteEntry(Plugin, c)

\* Deletes the first connection until there is none left.
AdapterPluginDelete ==
    /\ mq_plugin /\ ~Calling(Plugin)
    /\ \A c \in MqttConnections : ~HasStreams(c)
    /\ mq_owner' = [x \in Objects |->
                       IF x \in Range(mq_list[Plugin]) THEN NoOwner
                                                         ELSE mq_owner[x]]
    /\ mq_list' = [mq_list EXCEPT ![Plugin] = <<>>]
    /\ mq_plugin' = FALSE
    /\ UNCHANGED mq_call

MqttNext ==
    \/ AdapterPluginCreate \/ AdapterPluginDelete
    \/ \E c \in MqttConnections :
           \/ CreateConnection(c) \/ DeleteConnection(c)
           \/ \E r \in MqttReaders : CreateMqttReader(c, r) \/ DeleteMqttReader(c, r)
           \/ \E w \in MqttWriters : CreateMqttWriter(c, w) \/ DeleteMqttWriter(c, w)

MqttSpec == MqttInit /\ [][MqttNext]_mqvars

-----------------------------------------------------------------------------

\* Through creations that take their time, that fail, or that overlap with
\* calls on other owners, an owner's list holds exactly the objects that were
\* created in it and not deleted, each of them once: every later delete finds
\* its object, and deleting the plugin leaves no connection, and so no client
\* thread, behind.
MqttEntitiesAreListed ==
    /\ \A o \in Owners :
           /\ IsInjective(mq_list[o])
           /\ Exists(o) => Range(mq_list[o]) = {x \in Kept(o) : mq_owner[x] = o}
    /\ ~mq_plugin => \A x \in Objects : mq_owner[x] = NoOwner
=============================================================================
