------------------------- MODULE MqttConfiguration -------------------------
(***************************************************************************)
(* How the MQTT adapter turns the properties of a connection, an input or  *)
(* an output into the configuration of a client, a subscription or a       *)
(* publication (mqtt/srcC/adapter/Properties.c): the defaults first, then  *)
(* one property after the other, in the order of the code.                 *)
(*                                                                         *)
(* The text of a property is a sequence of words and ";", the value of a   *)
(* setting a sequence of words.                                            *)
(***************************************************************************)
EXTENDS Naturals, Sequences, Functions

CONSTANTS
    PropertyTexts,   \* for each kind of setting, texts a property may have
    Numerals,        \* words that are decimal numbers
    SslUris,         \* words that start with "ssl"
    PropertyGroups   \* properties that may be given together, or some of them

Separator == ";"
NoWord == ""

\* The words of texts that are lists.
Words == UNION {Range(text) : text \in PropertyTexts["list"]}

\* What is between two separators is one word, or nothing.
ASSUME ListAssumption ==
    \A text \in PropertyTexts["list"] :
        /\ text \in Seq(Words) /\ NoWord \notin Range(text)
        /\ \A i \in 1 .. Len(text) - 1 : Separator \in {text[i], text[i + 1]}

\* A URI is a word.
ASSUME UriAssumption == SslUris \cap {NoWord, Separator} = {}

NoValue == <<"NULL">>

-----------------------------------------------------------------------------
(* The conversions: the set of the value, or of nothing for an error.      *)

\* The constant that text is one of the words for.
OneOf(words, text) ==
    {<<name>> : name \in {n \in DOMAIN words : text \in {<<w>> : w \in words[n]}}}

MqttProtocolVersion_from_string(text) ==
    OneOf([MQTT_DEFAULT |-> {"default", "MQTT_DEFAULT"},
           MQTT_3_1 |-> {"3.1", "MQTT_3_1"},
           MQTT_3_1_1 |-> {"3.1.1", "MQTT_3_1_1"},
           MQTT_5 |-> {"5", "MQTT_5"}], text)

SslTlsProtocolVersion_from_string(text) ==
    OneOf([TLS_DEFAULT |-> {"default", "TLS_DEFAULT"},
           TLS_1_0 |-> {"1.0", "TLS_1_0"}, TLS_1_1 |-> {"1.1", "TLS_1_1"},
           TLS_1_2 |-> {"1.2", "TLS_1_2"}], text)

QosLevel_from_string(text) ==
    OneOf([ZERO |-> {"zero", "ZERO", "Zero", "0"},
           ONE |-> {"one", "ONE", "One", "1"},
           TWO |-> {"two", "TWO", "Two", "2"}], text)

PersistenceLevel_from_string(text) ==
    OneOf([NONE |-> {"none", "NONE", "n", "N", "no", "NO", "No", "0"},
           DURABLE |-> {"durable", "DURABLE", "Durable", "y", "Y", "yes",
                        "YES", "Yes", "1"}], text)

Boolean_from_string(text) ==
    OneOf([TRUE_ |-> {"t", "T", "true", "TRUE", "True", "y", "Y", "yes",
                      "YES", "Yes", "1"},
           FALSE_ |-> {"f", "F", "false", "FALSE", "False", "n", "N", "no",
                       "NO", "No", "0"}], text)

Yes == <<"TRUE_">>
No == <<"FALSE_">>

\* strtol: a text that is not a number is 0.
String_to_long(text) ==
    {IF text \in {<<n>> : n \in Numerals} THEN text ELSE <<"0">>}

\* Where the element that starts after `consumed` words ends.
ElementEnd(text, consumed) ==
    CHOOSE k \in consumed + 1 .. Len(text) + 1 :
        /\ k > Len(text) \/ text[k] = Separator
        /\ \A j \in consumed + 1 .. k - 1 : text[j] # Separator

Word(words) == IF words = <<>> THEN NoWord ELSE words[1]

\* An iteration of the loop of DDS_StringSeq_from_string.
NextElement(text, l) ==
    IF l.consumed >= Len(text)
    THEN l
    ELSE LET end == ElementEnd(text, l.consumed)
         IN [consumed |-> end,
             seq |-> Append(l.seq, Word(SubSeq(text, l.consumed + 1, end - 1)))]

\* There are at most Len(text) iterations.  Nothing follows the last ";".
Elements(text) ==
    LET loop[n \in 0 .. Len(text)] ==
            IF n = 0 THEN [consumed |-> 0, seq |-> <<>>]
            ELSE NextElement(text, loop[n - 1])
    IN  loop[Len(text)].seq

\* An empty text is an error: the success of set_length() is taken for one.
StringSeq_from_string(text) ==
    IF text = <<>> THEN {} ELSE {Elements(text)}

ConvertText(kind, text) ==
    CASE kind = "boolean" -> Boolean_from_string(text)
      [] kind = "long" -> String_to_long(text)
      [] kind = "qos" -> QosLevel_from_string(text)
      [] kind = "mqtt" -> MqttProtocolVersion_from_string(text)
      [] kind = "tls" -> SslTlsProtocolVersion_from_string(text)
      [] kind = "persistence" -> PersistenceLevel_from_string(text)
      [] kind = "list" -> StringSeq_from_string(text)
      [] OTHER -> {text}      \* strings and octets are copied

-----------------------------------------------------------------------------
(* The settings, in the order in which their properties are looked up.     *)

Setting(name, field, kind, default) ==
    [name |-> name, field |-> field, kind |-> kind, default |-> default]

\* The only property with a space in its name (rtiadapt_mqtt.h:560-561); the
\* documentation writes it with an underscore.
CypherSuites == "ssl.cypher suites"

\* The period of the keep alive is read into the timeout of connect().
ClientSettings ==
    <<Setting("id", "id", "string", <<>>),
      Setting("protocol_version", "protocol_version", "mqtt", <<"MQTT_DEFAULT">>),
      Setting("servers", "server_uris", "list", <<>>),
      Setting("connection_timeout.sec", "connect_timeout.seconds", "long", <<"10">>),
      Setting("connection_timeout.nanosec", "connect_timeout.nanoseconds", "long", <<"0">>),
      Setting("max_connection_retries", "max_connection_retries", "long", <<"10">>),
      Setting("keep_alive_period.sec", "connect_timeout.seconds", "long", <<"10">>),
      Setting("keep_alive_period.nanosec", "connect_timeout.nanoseconds", "long", <<"0">>),
      Setting("clean_session", "clean_session", "boolean", No),
      Setting("unsubscribe_on_disconnect", "unsubscribe_on_disconnect", "boolean", Yes),
      Setting("max_reply_timeout.sec", "max_reply_timeout.seconds", "long", <<"3">>),
      Setting("max_reply_timeout.nanosec", "max_reply_timeout.nanoseconds", "long", <<"0">>),
      Setting("reconnect", "reconnect", "boolean", Yes),
      Setting("max_unack_messages", "max_unack_messages", "long", <<"10">>),
      Setting("persistence", "persistence_level", "persistence", <<"NONE">>),
      Setting("persistence_storage", "persistence_storage", "string", NoValue),
      Setting("username", "username", "string", NoValue),
      Setting("password", "password", "octets", NoValue)>>

SslSettings ==
    <<Setting("ssl.ca", "ca", "string", NoValue),
      Setting("ssl.id", "identity", "string", NoValue),
      Setting("ssl.key", "private_key", "string", NoValue),
      Setting("ssl.key_password", "private_key_password", "string", NoValue),
      Setting(CypherSuites, "cypher_suites", "string", NoValue),
      Setting("ssl.protocol_version", "ssl_tls_config.protocol_version", "tls", <<"TLS_DEFAULT">>),
      Setting("ssl.verify_server_certificate", "verify_server_certificate", "boolean", No)>>

SubscriptionSettings ==
    <<Setting("topics", "topic_filters", "list", <<>>),
      Setting("max_qos", "max_qos", "qos", <<"TWO">>),
      Setting("queue_size", "message_queue_size", "long", <<"0">>)>>

PublicationSettings ==
    <<Setting("topic", "topic", "string", <<>>),
      Setting("qos", "qos", "qos", <<"ZERO">>),
      Setting("retained", "retained", "boolean", No),
      Setting("use_message_info", "use_message_info", "boolean", No),
      Setting("max_wait_time.sec", "max_wait_time.seconds", "long", <<"10">>),
      Setting("max_wait_time.nanosec", "max_wait_time.nanoseconds", "long", <<"0">>)>>

SettingsOf(entity) ==
    CASE entity = "client" -> Range(ClientSettings) \cup Range(SslSettings)
      [] entity = "subscription" -> Range(SubscriptionSettings)
      [] entity = "publication" -> Range(PublicationSettings)

\* Every field with its default.
Defaults(settings) ==
    [f \in {s.field : s \in settings} |->
        (CHOOSE s \in settings : s.field = f).default]

\* keep_alive_period has its own field, which keeps its default; nothing is
\* allocated for SSL.
BrokerConnectionConfig_default ==
    Defaults(SettingsOf("client")
                 \cup {Setting("none", "keep_alive_period", "none", <<"10">>),
                       Setting("none", "ssl_tls_config", "none", NoValue)})

MessageReaderConfig_default == Defaults(SettingsOf("subscription"))

MessageWriterConfig_default == Defaults(SettingsOf("publication"))

-----------------------------------------------------------------------------
(* ..._parse_from_properties().                                            *)

\* Mutant of AllocateSsl: what initialize() leaves is kept.
AllocateSslUnverified(c) == [c EXCEPT !["ssl_tls_config"] = <<"allocated">>]

\* allocate_ssl_tls_config: verification is on by default.
AllocateSsl(c) ==
    IF c["ssl_tls_config"] # NoValue
    THEN c
    ELSE [c EXCEPT !["ssl_tls_config"] = <<"allocated">>,
                   !["verify_server_certificate"] = Yes]

ScanServers(c) ==
    IF Range(c["server_uris"]) \cap SslUris # {} THEN AllocateSsl(c) ELSE c

\* A setting for SSL that is given has the structure for it allocated.
LookupSsl(c, s) == IF s \in Range(SslSettings) THEN AllocateSsl(c) ELSE c

\* RTI_RS_MQTT_lookup_property and what is done with the text found.
Lookup(props, configs, s) ==
    IF s.name \notin DOMAIN props
    THEN configs
    ELSE {[LookupSsl(c, s) EXCEPT ![s.field] = x] :
             c \in configs, x \in ConvertText(s.kind, props[s.name])}

ParseSettings(settings, props, configs) ==
    LET after[k \in 0 .. Len(settings)] ==
            IF k = 0 THEN configs ELSE Lookup(props, after[k - 1], settings[k])
    IN  after[Len(settings)]

\* The settings of the client, then those for SSL.
ClientConfig_parse(props) ==
    LET plain == ParseSettings(ClientSettings, props,
                               {BrokerConnectionConfig_default})
    IN  ParseSettings(SslSettings, props, {ScanServers(c) : c \in plain})

BrokerConnectionConfig_parse(props) == ClientConfig_parse(props)

MessageReaderConfig_parse(props) ==
    ParseSettings(SubscriptionSettings, props, {MessageReaderConfig_default})

MessageWriterConfig_parse(props) ==
    ParseSettings(PublicationSettings, props, {MessageWriterConfig_default})

ParseEntity(entity, props) ==
    CASE entity = "client" -> BrokerConnectionConfig_parse(props)
      [] entity = "subscription" -> MessageReaderConfig_parse(props)
      [] entity = "publication" -> MessageWriterConfig_parse(props)

-----------------------------------------------------------------------------
VARIABLES
    cf_entity,  \* whose configuration it is
    cf_props,   \* the properties of the connection, input or output
    cf_config   \* the configuration, as a set of at most one

cfvars == <<cf_entity, cf_props, cf_config>>

\* Some of the properties of a group, each with a text for its kind.
PropertySets(entity) ==
    LET settings == SettingsOf(entity)
        texts(n) == PropertyTexts[(CHOOSE s \in settings : s.name = n).kind]
        names == {s.name : s \in settings}
        given == UNION {SUBSET g : g \in {h \in PropertyGroups : h \subseteq names}}
    IN UNION {{p \in [N -> UNION {texts(n) : n \in N}] :
                  \A n \in N : p[n] \in texts(n)} : N \in given}

NoProperties == [n \in {} |-> <<>>]

ConfigurationInit ==
    /\ cf_entity \in {"client", "subscription", "publication"}
    /\ cf_props = NoProperties
    /\ cf_config = {}

\* A new connection, input or output parses its properties.  On an error the
\* configuration that was allocated here is deleted.
ParseProperties ==
    /\ cf_props = NoProperties /\ cf_config = {}
    /\ \E props \in PropertySets(cf_entity) :
           /\ cf_props' = props
           /\ cf_config' = ParseEntity(cf_entity, props)
    /\ UNCHANGED cf_entity

\* Its owner deletes the configuration, or gives up without one.
DeleteConfig ==
    /\ cf_props # NoProperties \/ cf_config # {}
    /\ cf_props' = NoProperties
    /\ cf_config' = {}
    /\ UNCHANGED cf_entity

ConfigurationNext == ParseProperties \/ DeleteConfig

ConfigurationSpec == ConfigurationInit /\ [][ConfigurationNext]_cfvars

-----------------------------------------------------------------------------
(* Properties.                                                             *)

\* A text with one more element of a list.
JoinElement(list, k, text) ==
    text \o (IF k = 1 THEN <<>> ELSE <<Separator>>)
         \o (IF list[k] = NoWord THEN <<>> ELSE <<list[k]>>)

\* The text that lists the elements.
Joined(list) ==
    LET joined[k \in 0 .. Len(list)] ==
            IF k = 0 THEN <<>> ELSE JoinElement(list, k, joined[k - 1])
    IN  joined[Len(list)]

\* The value x is what the text says.
Says(kind, text, x) ==
    IF kind = "list"
    THEN Len(x) > 0 /\ text \in {Joined(x), Joined(x) \o <<Separator>>}
    ELSE x \in ConvertText(kind, text)

\* Whether something in the properties is about SSL.
AsksForSsl ==
    \/ \E s \in Range(SslSettings) : s.name \in DOMAIN cf_props
    \/ /\ "servers" \in DOMAIN cf_props
       /\ \E i \in DOMAIN cf_props["servers"] : cf_props["servers"][i] \in SslUris

\* A configuration has for every setting what its property says or else the
\* default of the code, lists included (Properties.c:150-214); it has one for
\* SSL exactly when a server or a property asks for it, and then the
\* certificate of the server is verified unless the property for that says no
\* (Properties.c:621-657).  The two timeouts that the keep alive is read into
\* are left out.
\*
\* The names and defaults are those of rtiadapt_mqtt.h:330-679 and
\* rtiadapt_mqtt_client.h:189-208, 274-279, 347-354.  mqtt/doc/configuration.rst
\* has others, and the property says nothing for them: reconnect is false at
\* :574-575 and TRUE here; max_reply_timeout is 10 s and 10 ns at :555 and :565
\* and 3 s and 0 ns here; the cypher suites are "ALL" at :696 and in the comment
\* at rtiadapt_mqtt.h:557 and unset here, and their property is called
\* client.ssl.cypher_suites at :692.
MqttSettingsHold ==
    \A c \in cf_config :
        /\ \A s \in SettingsOf(cf_entity) :
               IF s.name \in DOMAIN cf_props
               THEN \/ Says(s.kind, cf_props[s.name], c[s.field])
                    \/ s.field \in {"connect_timeout.seconds",
                                    "connect_timeout.nanoseconds"}
               ELSE \/ c[s.field] = s.default
                    \/ s.field \in {"connect_timeout.seconds",
                                    "connect_timeout.nanoseconds",
                                    "verify_server_certificate"}
        /\ cf_entity = "client" =>
               /\ c["ssl_tls_config"] # NoValue <=> AsksForSsl
               /\ "ssl.verify_server_certificate" \notin DOMAIN cf_props =>
                      c["verify_server_certificate"] =
                          IF AsksForSsl THEN Yes ELSE No
=============================================================================
