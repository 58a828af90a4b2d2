# A TLA+ model of the RTI Routing Service gateway plugins

The repository holds plugins that connect RTI Routing Service to other
protocols: adapters for MQTT, Kafka and Modbus, a forwarding processor, and
transformations between data representations. This directory models what they
do while they run: who changes which state, who waits for whom, what happens
when a call times out, a connection is lost or a copy fails, and what becomes
of a sample on its way through them. Modules are checked with TLC on small
instances, and the central invariants are proved with TLAPS for all sizes.

## 1. The system

### Parts, their state and their operations

| Part | Source | State | Operations |
|---|---|---|---|
| MQTT receive queue | `mqtt/Message.c` | ring or growing sequence of samples, loan flag, counters | receive, read (loan, copy), return loan |
| MQTT client connection | `mqtt/Client.c`, `mqtt/ClientApiPaho.c` | `data->state`, one pending request per operation (guard condition and result) | connect, disconnect, wait for request, Paho callbacks, recovery thread |
| MQTT publication | `mqtt/Publication.c`, `mqtt/Client.c` | request, `last_write_qos`, message counters | write, result and delivery callbacks |
| MQTT subscriptions | `mqtt/Subscription.c`, `mqtt/Client.c`, `adapter/MessageReader.c` | list of subscriptions, their parameters, the union to resubmit, listener | subscribe, unsubscribe, submit all, message arrival, read |
| MQTT topic filters | `mqtt/Infrastructure.c` | two string indices | match |
| MQTT adapter | `adapter/Plugin.c`, `adapter/BrokerConnection.c`, `adapter/MessageReader.c`, `adapter/MessageWriter.c` | lists of connections, readers and writers | create and delete each of them |
| MQTT configuration | `adapter/Properties.c` | properties, the configuration made of them | parse, delete |
| Kafka adapter | `kafka/srcC` | polling thread, two binary semaphores, one message; the producer's queue | poll, read, return loan, write, create, delete |
| Modbus streams | `modbus/srcCxx/ModbusStream*.cxx`, `LibModbusClient.cxx` | two threads, a cached sample and its mutex, the slave the connection has selected | poll, notify, read, write, destroy |
| Modbus configuration | `modbus/srcCxx/ModbusAdapterConfiguration.cxx` | an element, the field it is for | check, registers to values, values to registers |
| Forwarding processor | `fwd/srcCxx` | matching tables, the members known | create, on data available |
| Transformation framework | `common/transformation/srcC` | pool of output samples, loan flag, list of transformations | create, transform, return loan, delete |
| JSON and field plugins | `json/srcC`, `field/srcC` | buffer and its size | serialize, deserialize |
| Sequence2Array | `sequence2array/srcCxx`, `common/dds_specific/srcCxx` | the two types of a route | compare types, copy samples both ways |

Session threads of Routing Service call into the adapters, and pass what they
read through transformations and processors. The MQTT adapter also runs on the
threads of the Paho library, which call back with answers, with messages and
when the connection is lost, and on detached threads that re-establish a lost
connection. A Kafka reader has a polling thread, a Modbus reader two. The
transformations and the forwarding processor have no threads of their own.

### What is hard about it

* Requests are objects that outlive the wait for them. A wait that times out
  leaves its operation with Paho, and the late answer triggers the same guard
  condition the next operation waits on.
* `data->state` is both what the client reports and the lock that keeps two
  threads out of connect and disconnect. The recovery thread and a failed
  message arrival overwrite it without looking.
* Subscriptions are submitted again after each reconnection from a copy taken
  under a lock and used without it, while readers come and go.
* The ring of a bounded queue uses three indices, and equal indices mean both
  empty and full. Counters are 32 bits wide and wrap.
* Publication counters and listeners are shared between threads and not locked.
* A Kafka reader and its session pass one message back and forth with two
  semaphores; every path through an error has to leave them as they were.
* A Modbus connection has one selected slave for all its streams, and
  selecting it and using it are two calls.
* Pools, buffers and lists are kept from one call to the next, so that what a
  failed call leaves behind is found by a later one.

`PROJECT.json` lists every hazard at its line.

## 2. Modules

Every module names its variables after the fields they model. A section of code
under a lock is one action. Between two sections any other thread may run.

| Module | Models | State and actions |
|---|---|---|
| `MessageQueue` | what a receive queue promises: messages are handed out once, in order, and only the oldest are dropped | abstract, not translated from code |
| `Counters` | unsigned counters that wrap | `Wrap` |
| `MessageStatus` | the four counters of a subscription | operators `CountReceived`, `CountRead`, `CountLost`, all modulo the counter width |
| `ReceiveQueueReads` | what both queues share: names of messages, sizes of reads | constants only |
| `CircularReceiveQueue` | the queue with a size limit | `Receive`, `ReadLoan`, `ReadCopy`, `ReadCopyFails`, `ReturnLoan` |
| `UnboundedReceiveQueue` | the queue without limit | the same, with `Unbounded` in their names and the state prefixed `u_`, and `Crash`, a read of an entry that an earlier partial copy emptied |
| `ClientConnection` | connection state machine | one place per thread; an action per section of connect, disconnect and wait_for_request, per callback and per step of the recovery loop |
| `Publication` | one publication and its writer | `Write` to `ReturnResult` for the writer, `Callback` for Paho |
| `ClientSubscriptions` | subscriptions, their readers, resubmission and delivery | one place per reader; a queue is the number of its messages, and a read may fail or find a ring exactly full; the broker and the connection's message order are external |
| `TopicFilter` | `RTI_MQTT_TopicFilter_match` | one action per branch of the loop; compared with the level-wise rule of the MQTT standard |
| `MqttAdapter` | the plugin, its connections and their readers and writers | the list of every owner; a creation begins, then succeeds or fails, and calls on other owners run in between |
| `MqttConfiguration` | the parsing of properties | one operator per `*_default` and `*_parse` function, applied in the code's order; a property's text is a sequence of words |
| `KafkaReader` | a Kafka reader from creation to deletion | places of the polling thread and the session, both semaphores, messages alive in librdkafka |
| `KafkaWriter` | a Kafka writer over the producer's bounded queue | an action per sample, per turn of the retry loop, and for the producer's thread |
| `ModbusStreams` | a Modbus reader with its threads, a writer, and their connection | a place per actor in its pass over the configuration; selecting a slave and transferring are separate steps; `PassThrows` is an exception that the loop does not catch |
| `ModbusConfiguration` | one element of a Modbus configuration | `ConfigureStream` accepts or refuses it; reading and writing convert registers and values, in the precision of the code's types; a write that leaves its buffer ends the behaviour |
| `ForwardingProcessor` | the tables and both engines | `CreateProcessor`, `on_data_available` |
| `Transformation` | the framework's `transform` and `return_loan` with the JSON and field plugins | the buffer member is a string, an array or a sequence; the pool as what every member of a sample holds: nothing, its own input's value, a part of it, its text and the former end of the buffer behind it, or an older one |
| `TransformationPlugin` | the plugin's list of transformations | `TPlugin_new`, creation and deletion of transformations, `TPlugin_delete` |
| `Sequence2Array` | comparison of types and copying, both directions | types and values as trees; creation compares the types, then batches are transformed and returned |
| `MC*` | instances for TLC | values of constants, symmetry |
| `*Proofs` | theorems | see section 5 |

`MCAdapters` and `MCDataPath` put parts that share no state side by side: a
behaviour chooses a part first and is then a behaviour of that part, so that
one run checks all of them without multiplying their states.

Both queue modules instantiate `MessageQueue` with a refinement mapping and state
its specification as a property (`ImplementsMessageQueue`,
`UnboundedImplementsMessageQueue`): the abstract queue is what they are shown to
implement.

### Abstractions

* A message is its sequence number, a topic filter of a subscription is a model
  value, a counter is modulo a small number instead of 2^32. A byte has
  `ByteBase` values instead of 256, a register two bytes.
* Allocation failures, logging and the layout of samples are left out.
* Paho and the broker are external. Paho takes an operation or refuses it, and
  answers each one it took at most once. Operations reach the broker in order.
* librdkafka, libmodbus, `REDAString_fnmatch`, the JSON formatter of Connext and
  Routing Service are external too. A consumer returns messages in offset
  order; the producer's queue holds messages and unserved delivery reports;
  libmodbus may refuse any call.
* Routing Service makes the calls on one owner one at a time, deletes a stream
  before its connection, and returns a loan before it deletes the stream. The
  code relies on this: nothing locks the adapters' lists, and the mutex of a
  transformation plugin is compiled out by default.
* A late answer to `submit_all` or `cancel_all` writes through a pointer into a
  stack frame that is gone. The model lets it find the frame intact, write into
  the frame of a later call, or have no effect.
* Two unlocked updates of `pending_count` that overlap may lose either one
  (`Raced`).
* Modbus factors, offsets and field values are whole numbers. The arithmetic on
  them rounds to the nearest number of the code's type, ties to even
  (`Rounded`): a reader computes in `float`, exact up to 2^24, and a writer in
  `long double`, exact up to 2^64. A number of a FLOAT datatype is named by its
  four bytes and only moved (factor 1, offset 0). The JSON text of a Modbus or
  forwarding configuration is given parsed.
* A text of the JSON plugin is its length and whether it is well formed.
  Characters and octets are treated alike. Behind a text that is read from an
  array without a terminator, what `from_json` finds there is not modelled: it
  accepts the text or refuses it.
* `element_count()` of a primitive sequence that was never set is a choice
  (`sq_way.count`): its bound, or its length.
* Members of the two types of Sequence2Array have the same names in the same
  order, as its documentation asks for.
* Some variables have no counterpart in the code. `calm` says that the
  environment has settled, `disturbed` that a recovery or failed arrival has
  overwritten the state, `failures` and `misread` that a read of the queue
  failed, `past` that a write timed out, `left` how many messages came before
  the listener or were left in the queue by a read, `kr_lost` that a read failed
  with the semaphore taken, `tf_clean` that no batch has failed or had a sample
  without data. They record history for the properties and guard
  no step of the code; `calm` restricts the environment only.

## 3. Runs

| Run | Checks | Bounds and why they are enough |
|---|---|---|
| `Adapters`, ring | the ring keeps the latest messages in order, implements `MessageQueue`, drains unless full, counters balanced | capacity 3, so that indices wrap in every combination; counters wrap within the run; two failed copies |
| `Adapters`, unbounded | the same for the growing queue until a partial copy spoils it | nine messages, copies of one and two, two failed copies; the counters wrap |
| `Adapters`, publication | answers are counted once; `pending_count`; results; writes return | all QoS levels, two late messages, counters modulo 5 |
| `Adapters`, Kafka reader | one turn, live payload, messages are read, deletion ends | three messages, two faults, any number of readers one after the other |
| `Adapters`, Kafka writer | a write that meets a full queue returns | four samples, a queue of two |
| `Adapters`, Modbus | transfers go to the right device, samples are whole, deletion ends | setups with and without polling, with several devices and a constant, with a writer on the same and on another device; exceptions in every pass |
| `Adapters`, MQTT | the lists hold what exists | two connections, two readers, one writer: creations on different owners overlap, a list has an entry before and after the one deleted |
| `DataPath`, topic filter | matching against the rule of MQTT, and that it ends | all filters and topics of up to three levels over three names, both wildcards and two malformed levels |
| `DataPath`, transformation | outputs are the batch's, texts fit their buffer | batches of up to two; strings, arrays and sequences, bounded and not; texts below, at and above the initial size and the bound; malformed text; samples without data |
| `DataPath`, plugin | the list holds what Routing Service was given | three transformations: first, middle, last |
| `DataPath`, forwarding | samples go where the table says | tables with patterns before and after plain keys, repeated keys, missing outputs, empty keys, members that are not set, writes that fail; two inputs, up to two samples |
| `DataPath`, Modbus | values and registers agree, fields take what they get | every datatype and byte order, each kind of field, ranges, factors and offsets of both signs; a byte has two values, and all registers are tried; a float is exact up to 8 of the 256 values of INT64, so that rounding happens, a long double up to all of them, as in the code |
| `DataPath`, sequences | copies carry everything their input carries | every pair of a dozen member types on each side, nested collections, unions, optional members |
| `DataPath`, MQTT configuration | settings are what their properties say | every property, texts that convert and that do not, groups of properties that meet in a setting or in the SSL configuration |
| `ConnectionStates` | CONNECTING never stays behind | one session thread and one recovery thread, one abandoned operation of each kind; losses, recovery, timeouts, subscriptions and failed arrivals all on (cancelling subscriptions on disconnect is left to `ConnectionLock`, for size) |
| `ConnectionLock` | `data->state` excludes session threads from each other | three session threads: one inside, one refused, one arriving |
| `ConnectionLiveness` | calls return, success is one's own answer, recovery completes | three session threads, two recovery threads, infinite timeouts, no subscriptions; losses and recoveries do not meet other calls (`Apart`) |
| `Subscriptions` | resubmission, broker state, live delivery, no lost notification | two readers with filters of their own, one with a ring and one without, one abandoned operation, two unread messages; reads that fail |
| `CircularQueueFull` | violation: a full ring cannot be read | |
| `RecoveryStuck` | violation: recovery never ends | |
| `KafkaErrors` | violation: a consumer error ends the reader | |
| `FieldTransformation` | violation: the field of the output is not set | |
| `ModbusUnsigned` | violation: an unsigned field gets one byte of its register | |
| `SequenceTypes` | violation: types that differ are accepted | |

Deadlock checking is off: a gateway whose application makes no more calls, and
a bounded model that has used up its bound, may stop.

### Fairness

Threads that are inside a call are scheduled (weak fairness of their steps).
Paho answers each operation it took. A session thread need not make calls, and
no wait need ever time out. `ConnectionLiveness` also assumes that the
environment settles (`CalmDown`): from some point on the broker is reachable
and accepts what it is sent. Without that no client could promise to reconnect.

A Kafka consumer that polls again and again gets a message that is in the topic
(strong fairness of `PollMessage`, since polls that time out come in between),
and a session that was notified reads and returns its loan, which is what
Routing Service does. The Kafka producer sends or gives up what is in its
queue, and the retry loop of write() is scheduled. The two threads of a Modbus
reader and its destructor are scheduled; the session is not relied on.

### Conditions in properties

Some properties hold only up to an event that the code does not handle. They
say so in their statement, and the event itself happens in the run:

* `StateIsLock` until a recovery or a failed arrival overwrites the state;
* the ring's invariants until a copy fails; the growing queue's until a copy
  takes part of it;
* `AnswersCounted` until QoS 2 is used after a timeout;
  `PendingIsUnanswered` and `WriteReportsItsAnswer` until the first timeout;
* `SuccessIsOwnAnswer`, `CallsReturn` and `RecoveryCompletes` where losses do
  not meet a call and disconnect() does not meet a recovery (`Apart`), and
  timeouts are infinite;
* `KafkaMessagesAreRead` until a consumer error or a failed read;
  `KafkaDeletionEnds` unless a message waits for a read, or a read has failed;
* `ModbusOwnDevice` where no other stream of the connection has another device;
  `ModbusDeletionEnds` unless the polling thread already waits for the mutex;
* `UnreadIsNotified` except for messages that came before the listener was set
  and those that a failed read, or a read of a ring exactly full, left in the
  queue: nobody is told of them until another message arrives;
* `OutputsAreTheInputs` for the JSON plugin, until a batch fails or has a sample
  without data; an array that its text does not fill is expected to have the
  former end of the buffer behind the terminator;
* `JsonTextFits` asks for room for the terminator, but for texts read from an
  array, to which the code adds none; a sequence that is read never enters the
  buffer;
* `SamplesGoWhereConfigured` where no key of a table is matched by an earlier
  one (`KeysAreApart`): otherwise add() replaces the output of that entry;
* `ModbusValueFitsField` says nothing of the elements of a collection of
  enumerations, nor of an enumeration whose valid values a float may round;
* `ModbusValuesAgree` as long as no number on the way is beyond the exact range
  of the arithmetic, except for unsigned values of 16 bits, and except for
  sequences with more values than the element, which overrun the buffer;
* `SamplesAreWhole` without collections of strings; `MqttSettingsHold` for the
  defaults of the code, and except for the two timeouts the keep alive is read
  into.

## 4. Where the code departs from what it says

Shown by a run:

* A ring that is exactly full has equal indices, so a read finds nothing in it
  (`Message.c:684`). A message that arrives then replaces the oldest and moves
  both indices on (`Message.c:448-451`): they stay equal, and the reader gets
  nothing any more.
* disconnect() leaves DISCONNECTING behind when cancelling fails; connect()
  refuses that state, and the recovery loop never ends (`Client.c:1195`).
* The first error of a Kafka consumer ends the polling thread, which a comment
  next to it calls informational (`KafkaStreamReader.c:86`).
* The inverse field transformation sets the field of its input
  (`PrimitiveFieldTransformation.c:660`).
* A 16 bit register read into an unsigned field is cast to 8 bits, with a factor
  and an offset or without (`ModbusAdapterConfiguration.cxx:487`).
* Sequence2Array accepts types that differ, in three places: members whose kinds
  differ, after it has logged them as incompatible
  (`Sequence2ArrayTransformation.cxx:49`), and an array and a sequence (`:243`)
  or two sequences (`:321`) whose elements are of different primitive types. The
  counterexample goes through whichever the search meets first.

Met while modelling, and the reason for the conditions of section 3. MQTT:

* A filter that ends in `+` does not match the topics it stands for: the loop
  header steps over the end of the topic (`Infrastructure.c:346`).
* unsubscribe() returns OK although the broker refused (`Client.c:1320`).
* A timed out wait leaves its answer to come; the next call on the same request
  takes it for its own. connect() may report success without a connection,
  write() the result of an earlier message.
* A recovery that meets a call overwrites its state; the call may then wait for
  an answer another thread has consumed, and with a timeout of zero for ever.
* `reconnect` is not consulted when Paho reports a lost connection
  (`ClientApiPaho.c:580`).
* write() waits for the answer to QoS 0 messages (`Client.c:772`), which a
  comment three lines above says it does not.
* A copying read of a part of the growing queue leaves empty entries at its
  front (`Message.c:909`).
* A message that arrives before the listener is set is queued and nobody is
  told (`MessageReader.c:87`). A read that fails has used up the notification of
  the messages it leaves in the queue (`MessageReader.c:272-279`).
* Of two readers with the same topic filter, the one that unsubscribes first
  takes the filter away from the other (`Client.c:1318`). The documentation
  discourages such a configuration (`mqtt/doc/configuration.rst:268-272`).
* A topic that begins with a slash makes the filter `#` fail
  (`Infrastructure.c:295`), and the failure ends the delivery to the
  subscriptions that follow.
* The keep alive period is read into the connection timeout
  (`Properties.c:480-498`), so the one Paho is given (`ClientApiPaho.c:164`) is
  always the default.
* A list of servers or topics that is empty, or ends up so, is a parse error
  (`Properties.c:163`).
* The overflow check of `Time_normalize` is inverted (`Infrastructure.c:55`).
* `mqtt/doc/configuration.rst` gives other defaults than the code
  (`rtiadapt_mqtt_client.h:200-201`): `client.reconnect` is false (`:575`), and
  true in the code; `client.max_reply_timeout` is 10 s and 10 ns (`:555`,
  `:565`), and 3 s and 0 ns in the code. The cypher suites are "ALL" (`:696`,
  and `rtiadapt_mqtt.h:557`), and left unset by the code; their property is
  `client.ssl.cypher_suites` (`:692`), and `client.ssl.cypher suites`, with a
  space, in the code (`rtiadapt_mqtt.h:561`). `MqttSettingsHold` is about the
  names and the defaults of the code.

Other parts:

* A failed copy in a Kafka read gives neither semaphore back: the reader stops,
  and its deletion waits for ever. So does a deletion that comes between the
  notification and the read.
* The destructor of a Modbus reader joins its threads with the mutex held that
  the polling thread may be waiting for.
* A reader and a writer of one Modbus connection with different devices may
  select a slave between the other's selection and transfer.
* An exception that the loop of a Modbus reader does not catch (a constant that
  does not fit its field, `ModbusStreamReader.cxx:166-219`, or a value that
  cannot be set, `:305-317`) leaves the polling thread and so terminates the
  process (`:40`).
* A Modbus reader computes in `float`. INT32 and INT64 values beyond 2^24 arrive
  rounded, also with factor 1 and offset 0
  (`ModbusAdapterConfiguration.cxx:492-566`).
* A sequence whose bound is larger than `array_elements` is accepted, and a
  Modbus writer then stores a longer value past the end of its buffer
  (`ModbusAdapterConfiguration.cxx:353`, `ModbusStreamWriter.cxx:133`). The
  comment at `ModbusStreamWriter.cxx:124-127` says that the number of elements
  is checked.
* The valid values of a Modbus element are compared with the ordinals of a
  single enumeration, not with those of an array or sequence of enumerations
  (`ModbusAdapterConfiguration.cxx:1312`).
* `check_configuration_consistency` sets the minimum of an unsigned field to 0
  in a copy of the element (`ModbusAdapterConfiguration.cxx:1120`), so that it
  counts for the checks that follow and not for what is read.
* An input member of Sequence2Array that is a collection of strings is read
  from and set in the parent sample (`DynamicDataHelpers.cxx:505-510`).
* Sequence2Array requires two arrays to have the same size
  (`Sequence2ArrayTransformation.cxx:188`); its documentation also accepts a
  smaller input array (`sequence2array/doc/configuration.rst:91-92`).
* The JSON plugin gives an array the whole buffer (`JsonTransformation.c:579-611`).
  Behind the terminator of a short text are the end of an earlier, longer one,
  or bytes that were never written.
* A text that fills an array is parsed without a terminator
  (`JsonTransformation.c:674-718`). `json/doc/configuration.rst:39-44` says that
  the transformation adds one, and then that only sequences are reallocated.
* A batch that fails, or has a sample without data, leaves samples in the pool
  that no return of a loan clears (`Transformation.c:539-564`): the outputs of a
  later batch may have members of an earlier one.
* The initial size of the JSON buffer is 256
  (`JsonTransformationInfrastructure.h:38`), and 255 in
  `json/doc/static/csv/json_transformation_properties.csv:9`.

## 5. Proofs

All theorems hold for every value of the constants that satisfies the named
assumptions next to their declarations: any ring size and counter width, any
sets of session and recovery threads, any setting of the switches, any number
of readers, connections and streams, and topics, configurations, tables and
batches of any length. Eight modules hold them. Every safety property of a
passing run has its theorem, but for the one of `Sequence2Array`.

### Assumptions

Most say what a constant is (a number, a set of records, a switch). Those with
content are:

* a counter has at least two values, and the ring is smaller than a counter can
  count (`ModulusAssumption`, `WidthAssumption`; both are `uint32` in the code);
* no session thread is a recovery thread (`ThreadAssumption`), connections,
  readers and writers are distinct (`MqttAssumption`), and no reader has one of
  the names that stand for other senders (`SenderAssumption`);
* a pattern relation is between keys (`ForwardingAssumption`), and a sample has
  members of its type (`TransformationAssumption`);
* a Modbus element and field are records as they are parsed, and a FLOAT
  datatype has factor 1 and offset 0 (`ModbusUseAssumption`);
* a level of a topic or a filter has neither a slash nor the terminating NUL in
  it (`LevelAssumption`);
* in the text of a list, what is between two separators is one word or nothing
  (`ListAssumption`), and a URI is a word (`UriAssumption`). This is what it
  means for the model's texts to be made of words.

Two theorems have a hypothesis of their own. `ActiveOnBroker` is for readers of
which no two have the same filter: without that one reader's unsubscribe takes
away the other's. `OwnAnswer` is for the setting in which the run checks its
property (`Settled`): losses stay apart from calls, waits have no time limit,
arrivals do not fail, and there is nothing to resubmit. Otherwise an answer may
outlive the call it was for, and `SuccessIsOwnAnswer` is false.

### Receive queues

`MqttMessageProofs`, counters and ring. Each operation on the counters keeps
the balance modulo any width (`CountReceivedBalanced`, `CountReadBalanced`).

* `RingTypeCorrect`: `TypeOK`. The invariant adds that the messages between
  `next_unread` and `next` never exceed the ring (`TypeInv`).
* `RingIsConsistent`, `BacklogCorrect`: until a copy fails, a slot is empty
  exactly when no unread message belongs in it, and the unread slots hold the
  latest messages in order. Neither is inductive alone: which slot a message is
  in follows from where the indices are and how many are unread. `RingInv` ties
  slots, indices and the abstract backlog together; the proof has one
  step per action, with lemmas on `Slot` for the wrap-around.
* `CountersStayBalanced`: received = unread + read + lost modulo the counter
  width, also after failed copies, until a read fails while a loan is out
  (`CountInv`).
* `RingImplementsQueue`: the refinement of `MessageQueue`. From `RingInv` the
  backlog is known before and after each step, and the step does to it what the
  abstract operation does. `LoanInv` adds that nothing is on loan when the flag
  is off.
* `PartialRingDrained`: the action property that a loan read of a ring that is
  not full takes all of it.

`MqttMessageProofs`, growing queue

* `UnboundedBacklogCorrect`, `UnboundedBalanced`, `UnboundedImplementsQueue`,
  from `UnboundedInv`. A queue is whole, or its first entry has lost its
  message. Every read follows the first entry, so no read succeeds on a spoiled
  queue and it stays spoiled; nothing needs to be known of its other entries.

### Connection, publication, subscriptions

`ClientConnectionProofs`

* `TypeCorrect`: `TypeOK`, inductive as it stands.
* `ConnectingIsOwned`: `ConnectingHasConnector`, inductive with `TypeOK`. A
  thread that leaves connect() takes the state along; no other action sets
  CONNECTING.
* `StateExcludes`: `StateIsLock`. The invariant `LockInv` adds that before the
  first disturbance no recovery thread runs. Each action that enters a call
  tests the state and changes it at once, so no second thread passes the test.
* `OwnAnswer`: the action property `SuccessIsOwnAnswer`, from `SettledInv`. In
  its setting the state is a lock for good, so at most one thread is inside
  (`OneInside`) and no operation is abandoned (`NoneAbandoned`). A trigger that
  is set is then that of an answer whose waiter has not read it yet
  (`TriggerOwned`). That a recovery never meets a disconnect() needs to know
  when there is a connection (`LinkKnown`, `RecoveryApart`).

`MqttMessageProofs`, publication

* `AnswersCountedCorrect`, `PendingCorrect` and the action property
  `WriteReportCorrect`, from `PublicationInv`. Until a write times out the only
  answer on its way is the one to the message the writer waits for: no callback
  runs while the writer updates the unlocked `pending_count`, and a QoS 2
  callback finds its own message pending (`PromptInv`, `AnswersHaveWrites`). Afterwards `pending_count` may be off, and the answers
  are still counted as long as nothing consults it.

`ClientSubscriptionsProofs`

* `ResubmissionCorrect`, `RegisteredAlive`, from `RegistryInv`: a subscription
  is in the list exactly between its addition and its removal, has parameters
  exactly between the creation and deletion of its requests, and the union kept
  for resubmission is that of all parameters.
* `UnreadNotified`, from `NotifiedInv`, which says the same of readers that are
  not in use, and from what is known of the counts when a full ring drops its
  oldest message.
* `ActiveOnBroker`, from `BrokerInv`. The property speaks of a moment when
  nothing is on its way, and the invariant has to say what may be on its way
  before: who sent each operation and that each sender has at most one
  (`SendersInv`, `SentOnce`), that no cancellation that is still to be served
  names the filter of a reader in use (`CancelsAreOver`), and that such a filter
  is at the broker or in the copy the recovery resubmits (`ServedInv`).

`TopicFilterProofs`

* `MatchesFound`, `MatchesJustified`, `NoMatchingError`, from `TopicInv`. The
  code moves two indices over characters, the rule of MQTT speaks of levels.
  `Layout` says where in a string each level begins, and `Progress` what the
  loop has established: both indices are at the same offset of the same level,
  the characters before are equal, and the levels before are covered by those of
  the filter. `NoMatchingError` is the safety half of `MatchingSucceeds`.

`MqttConfigurationProofs`

* `SettingsHold`: `MqttSettingsHold`, for any texts. The invariant `ConfigInv`
  says that a configuration is what parsing made of the properties; the work is
  in what parsing computes. `ElementsAreListed` says that splitting a text and
  joining the elements gives the text back, but for a last separator.
  `ParsedTo` says what the fields are after the first k settings, and
  `ClientParsed` the same for the settings for SSL, where the first that is
  given allocates the structure and turns verification on. The tables of
  settings enter with the fact that no two settings have a field in common,
  except the two timeouts that the keep alive is read into.

### Adapters

`AdapterProofs`, Kafka

* `OneTurn`, `PayloadIsLive`, from `KafkaInvariant`. The turn is counted over
  five places at once: both semaphores, the polling thread, the session, and a
  read that failed. A reader that does not exist has nothing under way, and the
  payload is that of the last message from the moment it was fetched, not only
  while it is read.

`ModbusProofs`

* `SampleIsWhole`, from `MutexInv`: the mutex is held by whoever is in a pass or
  destroys the reader, and the cache is at the end of a pass whenever the mutex
  is free on a reader that polls. A session that makes the passes itself copies
  only after one that no exception ended.
* `OwnDevice`, from `MutexInv` and `SlaveInv`: whoever is about to transfer has
  the slave of its element selected. Without a writer this follows from the
  mutex, with one from the single device they share (`OneDevice`).
* `ValueFitsField`, from `ModbusInv`: a stream that is ready keeps the element
  that was checked. `AcceptedFits` draws from the checks how many values a read
  gives; `CastTwice` shows that a value that was compared with the valid ones
  is not changed by the cast that follows.
* `ValuesAgree`: `ModbusValuesAgree`, inductive with `ModbusInv`. The code takes
  a number apart into registers and puts it together with shifts and casts, and
  the property asks for the remainder of the number itself. The bytes of the
  registers are the digits of the number (`BytesMakeTheWhole`), and a number has
  only one quotient and remainder (`DivisionIsUnique`), for one, two and four
  registers in every order of bytes. `ReadAgrees` and `WriteAgrees` add the
  linear transformation, which does not round where the property speaks of it
  (`IsExact`).

`AdapterProofs`, MQTT

* `EntitiesAreListed`, from `EntitiesInv`. That the lists are exact is not
  inductive: a creation stores at an index it has read earlier. The invariant
  adds that it is the only call on its owner, that the list still has the length
  it has read, and that its owner exists (`CallsAreCurrent`), and that an object
  never outlives its owner (`OwnersExist`). `StoreAdds` and `ShiftRemoves` say
  what the two operations on a list do to the set of its entries.

### Data path

`DataPathProofs`

* `TransformationsListed`, from `PluginInv`. `PlaceFound` shows that the search
  of the list finds what is in it, `ListAdds` and `ListRemoves` what the
  operations do to the entries.
* `JsonTextFitsBuffer`, `OutputsCorrect`, from `JsonInv` and `PoolInv`. The
  buffer grows in a loop over the batch, and a batch that is larger than the
  pool extends it: the lemmas say what the size and every slot of the pool are
  after each sample of the batch (`SizeAfterEach`, `PoolSlots`). The kinds of
  the buffer member are cases of the leaves about one sample.
* `SamplesForwarded`, from `ForwardingInv`: the table that is built is the
  configuration when no key is matched by an earlier one (`TableIsConfig`), the
  cache of members never changes a key, and after each sample an output has
  what the samples so far were to send to it (`ForwardLoop`, `InputForwarded`).

Loops over data are recursive functions in the modules that are proved about.
What they compute is proved by induction from the fact that a set of natural
numbers has a least element (`LeastNumber`): that a function with the recursive
equation exists at all, and then what holds after each turn of the loop, follow
by looking at the first number for which it would not. `InductionUpTo` and
`LoopValues` state this for the data path, `JoinIs` for topics, and `LoopIs`,
`ParseIs` and `JoinedIs` for the configuration.

A leaf that names `Zenon` needs no arithmetic; most do. tlapm 1.4.5 takes longer
to prepare a leaf for the SMT solver the more of them a module has, so the SMT
solver is left to those that need it, and `SMTT(30)` marks the ones for which it
may need more than its usual five seconds.

### Only model-checked

* The liveness properties; fairness is out of the prover's reach.
* `SamplesAreWhole` of `Sequence2Array`: types and values are trees, and
  comparing and copying them are recursive operators, for which the prover has
  no arithmetic backend. It is checked for the types of the run.

## 6. Not modelled

* `mqtt/Infrastructure.c` other than the matching of topic filters: copies and
  life cycle of configuration structures and conversions of times, which share
  no state. Creation and deletion of an MQTT client, and of its publications.
* Readers that share a topic filter: the subscriptions of a client are modelled
  with filters of their own.
* The properties a Kafka connection passes on to librdkafka, which are not
  interpreted by the adapter.
* Connecting a Modbus client, and the Modbus adapter object, which keeps no
  state.
* The registration of types by transformations.
* The samples of a route as a whole. The parts of a route hand samples over by
  calls of Routing Service, which is not in this repository; each part is
  modelled up to these calls.
* The vendored JSON parser, generated type support, the helpers in C that build
  types and samples, tests and examples.
