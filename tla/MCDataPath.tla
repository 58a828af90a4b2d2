----------------------------- MODULE MCDataPath -----------------------------
(***************************************************************************)
(* What happens to a sample between an adapter and DDS, side by side for   *)
(* TLC: the MQTT topic filter, transformations and their plugin, the       *)
(* forwarding processor, the conversion of Modbus registers and of         *)
(* sequences, and the configuration of the MQTT adapter.  The parts share  *)
(* no state; a behaviour is one of the part that was chosen first.         *)
(***************************************************************************)
EXTENDS MCTopicFilter, Transformation, TransformationPlugin,
        ForwardingProcessor, ModbusConfiguration, Sequence2Array,
        MqttConfiguration

CONSTANT Parts

VARIABLE part

-----------------------------------------------------------------------------
(* Transformations.                                                        *)

Input(valid, text, wellformed, members) ==
    [valid |-> valid, text |-> text, wellformed |-> wellformed,
     members |-> members]

\* Texts that fit, that just fit, that fit without a terminator and that do
\* not; one that is malformed and one that is empty; a sample without data.
MCSampleInputs ==
    {Input(TRUE, 1, TRUE, {"a"}), Input(TRUE, 3, TRUE, {"a", "b"}),
     Input(TRUE, 4, TRUE, {"b"}), Input(TRUE, 2, FALSE, {"a", "b"}),
     Input(TRUE, 0, FALSE, {}), Input(FALSE, 1, TRUE, {})}

-----------------------------------------------------------------------------
(* Forwarding: "?" matches one character, "*" any string, also "".         *)

MCForwardKeys == {"a", "b", "", "?", "*"}
MCFnMatch ==
    {<<k, k>> : k \in MCForwardKeys} \cup ({"*"} \X MCForwardKeys)
        \cup ({"?"} \X {"a", "b", "*"})

Entry(in_key, out_name) == [in_key |-> in_key, out_name |-> out_name]

\* Tables with plain keys, with a pattern after and before them, with the
\* same key twice, with an output that is not there, and without a name.
MCForwardTables ==
    {<<>>, <<Entry("a", "x")>>, <<Entry("a", "x"), Entry("b", "y")>>,
     <<Entry("a", "x"), Entry("*", "y")>>, <<Entry("*", "y"), Entry("a", "x")>>,
     <<Entry("b", "y"), Entry("?", "x"), Entry("*", "z")>>,
     <<Entry("a", "x"), Entry("a", "y")>>, <<Entry("a", "")>>}
MCMemberTables ==
    {<<>>, <<Entry("a", "m"), Entry("*", "n")>>, <<Entry("b", "m")>>}
MCRouteInputs == <<"a", "b">>
MCInputMembers == [i \in {"a", "b"} |-> IF i = "a" THEN {"m"} ELSE {"n"}]

-----------------------------------------------------------------------------
(* Modbus: elements and fields that fit together and that do not.          *)

Element(datatype, count) ==
    [datatype |-> datatype, readonly |-> FALSE, count |-> count,
     address |-> TRUE, constant |-> "none", min |-> -Huge, max |-> Huge,
     valid |-> {}, factor |-> 1, offset |-> 0]
Field(shape, kind, size, values) ==
    [shape |-> shape, kind |-> kind, size |-> size, ordinals |-> {0, 1},
     values |-> values]
Use(entity, element, field) ==
    [entity |-> entity, element |-> element, field |-> field]

SingleKinds ==
    {"char8", "uint8", "int16", "uint16", "int32", "uint64", "float32",
     "enum", "bool"}
SingleReaders ==
    {Use("reader", [e EXCEPT !.readonly = TRUE], Field("single", kind, 1, {})) :
        kind \in SingleKinds,
        e \in {Element("INT8", 0), Element("INT16", 0), Element("INT16", 1),
               Element("INT32", 0), Element("INT32", 2), Element("INT64", 0),
               Element("INT64", 3)}
              \cup {Element(d, 0) : d \in FloatDatatypes}}
VectorReaders ==
    {Use("reader", e, f) :
        e \in {Element("INT16", 2), Element("INT8", 3), Element("INT32", 4),
               Element("FLOAT_BADC", 4), Element("COIL_BOOLEAN", 3)},
        f \in {Field("array", "int32", 2, {}), Field("array", "uint8", 3, {}),
               Field("sequence", "uint32", 2, {}),
               Field("sequence", "float32", 3, {}),
               Field("single", "int64", 1, {})}}
EnumReaders ==
    {Use("reader", [Element("INT16", 0) EXCEPT !.valid = v, !.offset = o],
         Field("single", "enum", 1, {})) :
        v \in {{0}, {0, 1}, {1, 2}}, o \in {0, 1}}
    \cup {Use("reader", [Element("INT16", 2) EXCEPT !.valid = {1, 2}],
              Field("array", "enum", 2, {}))}
RangeReaders ==
    {Use("reader", [Element("INT16", 0) EXCEPT !.min = a, !.max = b,
                                               !.offset = o, !.factor = c],
         Field("single", kind, 1, {})) :
        kind \in {"int16", "uint32"}, a \in {-Huge, -1, 1}, b \in {-1, 1},
        o \in {-1, 1}, c \in {-1, 2}}
ConstantReaders ==
    {Use("reader", [Element("none", 0) EXCEPT !.address = FALSE, !.constant = c],
         Field("single", "string", 1, {})) : c \in {"none", "string"}}
SingleWriters ==
    {Use("writer", e, f) :
        e \in {Element(d, 0) : d \in IntegerDatatypes \cup FloatDatatypes
                                         \cup {"COIL_BOOLEAN"}}
              \cup {[Element("INT16", 0) EXCEPT !.readonly = TRUE],
                    [Element("INT32", 0) EXCEPT !.offset = -1, !.factor = 2,
                                                !.max = 5]},
        f \in {Field("single", "int64", 1, -9 .. 8),
               Field("single", "uint64", 1, 0 .. 17),
               Field("single", "float32", 1, 0 .. 15),
               Field("single", "bool", 1, {0, 1})}}
VectorWriters ==
    {Use("writer", e, f) :
        e \in {Element("INT16", 2), Element("INT32", 4),
               Element("FLOAT_DCBA", 4), Element("COIL_BOOLEAN", 2)},
        f \in {Field("array", "int32", 2, {-2, -1, 1}),
               Field("array", "float32", 2, {1, 3, 6}),
               Field("sequence", "int32", 2, {-2, 1}),
               Field("sequence", "int32", 3, {-2, 1})}}
MCModbusUses ==
    SingleReaders \cup VectorReaders \cup EnumReaders \cup RangeReaders
        \cup ConstantReaders \cup SingleWriters \cup VectorWriters

-----------------------------------------------------------------------------
(* Sequences and arrays: pairs of members that a route's types may have.   *)

Prim(kind) == Type(kind, 0, 0, "", <<>>)
SeqT(t, bound) == Type("sequence", bound, 0, "", <<t>>)
ArrT(t, size) == Type("array", size, 1, "", <<t>>)
StructT(parts) == Type("struct", 0, 0, "", parts)
UnionT(disc, parts) == Type("union", 0, 0, disc, parts)
Optional(t) == [t EXCEPT !.disc = "optional"]

\* The same shape, of sequences and of arrays.
Nested(C(_, _), n) == StructT(<<C(Prim("int"), n), Prim("int")>>)
Chosen(C(_, _), n) == UnionT("enum", <<Prim("int"), C(Prim("float"), n)>>)

SequenceMembers ==
    {SeqT(Prim(kind), 2) : kind \in {"int", "float", "wide", "string"}}
        \cup {SeqT(Nested(SeqT, 2), 1), SeqT(SeqT(Prim("int"), 2), 1),
              Nested(SeqT, 2), Chosen(SeqT, 2), Prim("int")}
ArrayMembers ==
    {ArrT(Prim(kind), n) : kind \in {"int", "float", "wide"}, n \in {1, 2}}
        \cup {ArrT(Prim("string"), 1), ArrT(ArrT(Prim("int"), 1), 1),
              ArrT(ArrT(Prim("int"), 2), 2), ArrT(Nested(ArrT, 1), 1),
              Nested(ArrT, 2), Chosen(ArrT, 1), Chosen(ArrT, 2),
              UnionT("long", <<Prim("int"), ArrT(Prim("float"), 2)>>)}
LargerArrays ==
    {ArrT(Nested(ArrT, 2), 2), Type("array", 4, 2, "", <<Prim("int")>>)}
MCSequenceUses ==
    {[in |-> Optional(StructT(<<a>>)), out |-> Optional(StructT(<<b>>))] :
        a \in SequenceMembers, b \in ArrayMembers \cup LargerArrays}
    \cup {[in |-> StructT(<<a>>), out |-> StructT(<<b>>)] :
        a \in ArrayMembers, b \in SequenceMembers}
    \cup {[in |-> Optional(StructT(<<a>>)), out |-> StructT(<<b>>)] :
        a \in {SeqT(Prim("int"), 2)}, b \in {ArrT(Prim("int"), 2)}}
    \cup {[in |-> StructT(<<Prim("string"), a>>),
            out |-> StructT(<<Prim("string"), b>>)] :
        a \in {SeqT(Prim("string"), 2)}, b \in {ArrT(Prim("string"), 1)}}

-----------------------------------------------------------------------------
(* Properties of the MQTT adapter: words that are known and that are not,  *)
(* and the properties that meet in a setting or in the SSL configuration.  *)

MCPropertyTexts ==
    [boolean |-> {<<"yes">>, <<"0">>, <<"maybe">>},
     long |-> {<<"7">>, <<"x">>},
     qos |-> {<<"one">>, <<"2">>, <<"3">>},
     mqtt |-> {<<"3.1">>, <<"MQTT_5">>, <<"4">>},
     tls |-> {<<"1.2">>, <<"TLS_1_0">>, <<"2">>},
     persistence |-> {<<"Durable">>, <<"no">>, <<>>},
     string |-> {<<>>, <<"a">>},
     octets |-> {<<>>, <<"a">>},
     list |-> {<<>>, <<"a">>, <<"a", ";">>, <<";", "a">>, <<"a", ";", ";">>,
               <<"a", ";", "ssl:b">>, <<";", "ssl:b", ";", "a">>, <<"ssl:b">>}]
MCPropertyGroups ==
    {{"servers", "ssl.ca", "ssl.protocol_version", "ssl.verify_server_certificate"},
     {"ssl.id", "ssl.key", "ssl.key_password", "ssl.cypher suites", "password"},
     {"connection_timeout.sec", "connection_timeout.nanosec",
      "keep_alive_period.sec", "keep_alive_period.nanosec",
      "max_reply_timeout.sec", "max_reply_timeout.nanosec"},
     {"id", "protocol_version", "clean_session", "unsubscribe_on_disconnect", "reconnect"},
     {"max_connection_retries", "max_unack_messages", "persistence",
      "persistence_storage", "username"},
     {"topics", "max_qos", "queue_size"},
     {"topic", "qos", "retained", "use_message_info", "max_wait_time.sec",
      "max_wait_time.nanosec"}}
-----------------------------------------------------------------------------

\* A part that was not chosen starts in one state only and stays there; for
\* the topic filter that is one with a filter that is not legal.
DataPathInit ==
    /\ part \in Parts
    /\ part # "topic filter" =>
           levels = [filter |-> <<<<"+", "a">>>>, topic |-> <<<<"a">>>>]
    /\ part # "transformation" =>
           tf_kind = "json serializer" /\ tf_member = "string" /\ tf_bound = UnboundedMember
    /\ part # "forwarding" => /\ fw_by = "name"
                              /\ fw_config = [forward |-> <<>>, members |-> <<>>]
    /\ part # "modbus" => mc_use = Use("reader", Element("INT16", 2),
                                       Field("array", "int32", 2, {}))
    /\ part # "sequences" =>
           /\ sq_way = [to |-> "array", count |-> "bound"]
           /\ sq_types = [in |-> StructT(<<ArrT(Prim("int"), 2)>>),
                          out |-> StructT(<<SeqT(Prim("int"), 2)>>)]
    /\ part # "mqtt configuration" => cf_entity = "client"
    /\ TransformationInit /\ TransformationPluginInit /\ ForwardingInit
    /\ ModbusConfigurationInit /\ Sequence2ArrayInit /\ ConfigurationInit
    /\ Init

DataPathNext ==
    /\ UNCHANGED part
    /\ \/ /\ part = "topic filter" /\ Next
          /\ UNCHANGED <<tfvars, tpvars, fwvars, mcvars, sqvars, cfvars>>
       \/ /\ part = "transformation" /\ TransformationNext
          /\ UNCHANGED <<vars, tpvars, fwvars, mcvars, sqvars, cfvars>>
       \/ /\ part = "plugin" /\ TransformationPluginNext
          /\ UNCHANGED <<vars, tfvars, fwvars, mcvars, sqvars, cfvars>>
       \/ /\ part = "forwarding" /\ ForwardingNext
          /\ UNCHANGED <<vars, tfvars, tpvars, mcvars, sqvars, cfvars>>
       \/ /\ part = "modbus" /\ ModbusConfigurationNext
          /\ UNCHANGED <<vars, tfvars, tpvars, fwvars, sqvars, cfvars>>
       \/ /\ part = "sequences" /\ Sequence2ArrayNext
          /\ UNCHANGED <<vars, tfvars, tpvars, fwvars, mcvars, cfvars>>
       \/ /\ part = "mqtt configuration" /\ ConfigurationNext
          /\ UNCHANGED <<vars, tfvars, tpvars, fwvars, mcvars, sqvars>>

allvars == <<part, vars, tfvars, tpvars, fwvars, mcvars, sqvars, cfvars>>

\* The loop that matches a topic runs to its end.
DataPathSpec ==
    /\ DataPathInit /\ [][DataPathNext]_allvars
    /\ WF_vars(part = "topic filter" /\ Next)
=============================================================================
