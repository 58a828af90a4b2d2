------------------------ MODULE ForwardingProcessor ------------------------
(***************************************************************************)
(* The forwarding processor: the table that names an output for a key, and *)
(* the engine that takes the samples of a route's inputs and writes each   *)
(* to the output its key selects (ForwardingEngine.cxx, Properties.cxx).   *)
(* The key is the input's name (ByInputNameForwardingEngine.cxx) or the    *)
(* value of a member of the sample (ByInputValueForwardingEngine.cxx).     *)
(*                                                                         *)
(* Keys are strings, and a table's keys are patterns that other strings,   *)
(* those of other entries included, may match.                             *)
(***************************************************************************)
EXTENDS Naturals, Sequences, FiniteSets, Functions

CONSTANTS
    ForwardKeys,        \* strings: inputs' names, members' values, patterns
    FnMatch,            \* <<pattern, string>> pairs: REDAString_fnmatch
    ForwardTables,      \* forwarding tables, as sequences of entries
    MemberTables,       \* input member tables
    RouteInputs,        \* the route's inputs, in order
    RouteOutputs,       \* the names of the route's outputs
    InputMembers,       \* input |-> the members of its type
    SampleValues,       \* what a member may hold, NoKey if it is not set
    NoString,           \* a string of the configuration that is missing or empty
    NoKey,              \* stands for the exception where there is no key
    MaxTaken            \* bound: samples an input has when it is read

ASSUME ForwardingAssumption ==
    /\ FnMatch \subseteq ForwardKeys \X ForwardKeys
    /\ ForwardTables \cup MemberTables
           \subseteq Seq([in_key : STRING, out_name : STRING])

VARIABLES
    fw_by,          \* which engine: "name" or "value"
    fw_config,      \* its configuration: forwarding and member table
    fw_state,       \* "new", then "refused" or "running"
    fw_table,       \* fwd_table
    fw_members,     \* input_members
    fw_cache,       \* input_members_cache: members known, by input
    fw_taken,       \* the samples the last on_data_available took, by input
    fw_written      \* the outputs they were written to, by input

fwvars == <<fw_by, fw_config, fw_state, fw_table, fw_members, fw_cache,
            fw_taken, fw_written>>

RouteInputSet == Range(RouteInputs)
Nothing == [i \in RouteInputSet |-> <<>>]

ForwardingInit ==
    /\ fw_by \in {"name", "value"}
    /\ fw_config \in [forward : ForwardTables, members : MemberTables]
    /\ fw_by = "name" => fw_config.members = <<>>
    /\ fw_state = "new" /\ fw_table = <<>> /\ fw_members = <<>>
    /\ fw_cache = [i \in RouteInputSet |-> {}]
    /\ fw_taken = Nothing /\ fw_written = Nothing

-----------------------------------------------------------------------------
(* Tables.                                                                 *)

Matches(entry, string) == <<entry.in_key, string>> \in FnMatch

\* Mutant of find: the last entry that matches.
find_last(table, string) ==
    LET hits == {k \in DOMAIN table : Matches(table[k], string)}
    IN  IF hits = {} THEN 0 ELSE CHOOSE k \in hits : \A j \in hits : k >= j

\* find: the first entry that matches; 0 stands for the exception.
find(table, string) ==
    LET hits == {k \in DOMAIN table : Matches(table[k], string)}
    IN  IF hits = {} THEN 0 ELSE CHOOSE k \in hits : \A j \in hits : k <= j

\* add: an entry whose key an earlier one matches only changes that entry's
\* output; others go to the end.
add(table, entry) ==
    LET k == find(table, entry.in_key)
    IN  IF k # 0 THEN [table EXCEPT ![k].out_name = entry.out_name]
        ELSE Append(table, entry)

\* The table of a configuration, to which its entries are added in order.
from_matching_table(config) ==
    LET table[k \in 0 .. Len(config)] ==
            IF k = 0 THEN <<>> ELSE add(table[k - 1], config[k])
    IN  table[Len(config)]

\* parse_from_json: both members of an entry are required.
TableIsRefused(config) ==
    \E k \in DOMAIN config : NoString \in {config[k].in_key, config[k].out_name}

\* create_processor: the configuration is parsed and the tables are built.
\* Forwarding by name has no member table.
CreateProcessor ==
    /\ fw_state = "new"
    /\ IF \/ TableIsRefused(fw_config.forward)
          \/ fw_by = "value" /\ TableIsRefused(fw_config.members)
       THEN fw_state' = "refused" /\ UNCHANGED <<fw_table, fw_members>>
       ELSE /\ fw_state' = "running"
            /\ fw_table' = from_matching_table(fw_config.forward)
            /\ fw_members' = IF fw_by = "value"
                             THEN from_matching_table(fw_config.members) ELSE <<>>
    /\ UNCHANGED <<fw_by, fw_config, fw_cache, fw_taken, fw_written>>

-----------------------------------------------------------------------------
(* Forwarding.                                                             *)

\* cache_input_member: the member that is read of the samples of input i,
\* NoString if the table or the input's type has none.  It is looked up in
\* the sample's type once and is then found in the cache.
KeyMember(i) ==
    LET k == find(fw_members, i)
    IN  IF k = 0 THEN NoString
        ELSE IF fw_members[k].out_name \in fw_cache[i] \cup InputMembers[i]
        THEN fw_members[k].out_name ELSE NoString

\* get_forwarding_key.
get_forwarding_key(i, sample) ==
    CASE fw_by = "name" -> i
      [] fw_by = "value" -> IF KeyMember(i) = NoString THEN NoKey
                            ELSE sample.members[KeyMember(i)]

\* forward_data: where a sample is written; <<>> when an exception, of the
\* lookups or of the write, ends the forwarding of this sample, and of this
\* sample only.
forward_data(i, sample) ==
    LET key == get_forwarding_key(i, sample)
        k == IF key = NoKey THEN 0 ELSE find(fw_table, key)
    IN  IF k # 0 /\ fw_table[k].out_name \in RouteOutputs /\ ~sample.refused
        THEN <<fw_table[k].out_name>> ELSE <<>>

\* The loop over the samples of input i: those without data are passed over.
ForwardInput(i, samples) ==
    LET out[k \in 0 .. Len(samples)] ==
            IF k = 0 THEN <<>>
            ELSE IF samples[k].valid
            THEN out[k - 1] \o forward_data(i, samples[k]) ELSE out[k - 1]
    IN  out[Len(samples)]

\* on_data_available: all inputs are read and their samples forwarded.
on_data_available(taken) ==
    /\ fw_state = "running"
    /\ fw_taken' = taken
    /\ fw_written' = [i \in RouteInputSet |-> ForwardInput(i, taken[i])]
    /\ fw_cache' = [i \in RouteInputSet |->
           IF /\ fw_by = "value" /\ KeyMember(i) # NoString
              /\ \E k \in DOMAIN taken[i] : taken[i][k].valid
           THEN fw_cache[i] \cup {KeyMember(i)} ELSE fw_cache[i]]
    /\ UNCHANGED <<fw_by, fw_config, fw_state, fw_table, fw_members>>

\* Samples of input i: without data, or written, or refused by the output.
SamplesOf(i) ==
    {s \in [valid : BOOLEAN, refused : BOOLEAN,
            members : [InputMembers[i] -> SampleValues]] : s.refused => s.valid}
TakenOf(i) == UNION {[1 .. n -> SamplesOf(i)] : n \in 0 .. MaxTaken}

\* One input at a time has samples: the others are read to no effect.
DataAvailable ==
    \E i \in RouteInputSet : \E samples \in TakenOf(i) :
        on_data_available([Nothing EXCEPT ![i] = samples])

ForwardingNext == CreateProcessor \/ DataAvailable

ForwardingSpec == ForwardingInit /\ [][ForwardingNext]_fwvars

-----------------------------------------------------------------------------
(* Properties.                                                             *)

\* No key of the configuration is matched by the key of an earlier entry.
KeysAreApart(config) ==
    \A j, k \in DOMAIN config : j < k => ~Matches(config[j], config[k].in_key)

\* The output the configuration itself names for a key, {} if none.
Configured(config, key) ==
    {config[k].out_name : k \in {k \in DOMAIN config :
        Matches(config[k], key) /\ \A j \in 1 .. k - 1 : ~Matches(config[j], key)}}

\* The keys and the outputs of the route that the configuration names for a
\* sample of input i; there is one of each at most.
ConfiguredKeys(i, s) ==
    (IF fw_by = "name" THEN {i}
     ELSE {s.members[m] : m \in Configured(fw_config.members, i) \cap InputMembers[i]})
        \ {NoKey}
ConfiguredOutputs(i, s) ==
    (UNION {Configured(fw_config.forward, key) : key \in ConfiguredKeys(i, s)})
        \cap RouteOutputs

\* A sample whose write throws ("refused") reaches no output.
OutputsReached(i, s) == IF s.refused THEN {} ELSE ConfiguredOutputs(i, s)

\* The places up to n of the samples of input i that ought to be written.
ToSend(i, samples, n) ==
    {k \in 1 .. n : samples[k].valid /\ OutputsReached(i, samples[k]) # {}}

\* When no key of a table is matched by an earlier one, every sample with
\* data goes to the output of the first entry of the configuration that its
\* key matches, once and in the order taken, and a sample that no entry, or
\* no output, is there for, or whose write fails, holds up no other.
SamplesGoWhereConfigured ==
    fw_state = "running" /\ KeysAreApart(fw_config.forward)
                         /\ KeysAreApart(fw_config.members) =>
        \A i \in RouteInputSet :
            LET taken == fw_taken[i]
                written == fw_written[i]
            IN  /\ Len(written) = Cardinality(ToSend(i, taken, Len(taken)))
                /\ \A k \in ToSend(i, taken, Len(taken)) :
                       written[Cardinality(ToSend(i, taken, k))]
                           \in OutputsReached(i, taken[k])
=============================================================================
