--------------------------- MODULE Transformation ---------------------------
(***************************************************************************)
(* A transformation of Routing Service samples: the framework's pool of    *)
(* output samples and its loan (Transformation.c), and what the JSON and   *)
(* the primitive field plugins do to one sample                            *)
(* (JsonTransformation.c, PrimitiveFieldTransformation.c).                 *)
(*                                                                         *)
(* A batch is what the session passes to transform.  An input is described *)
(* by what the code can tell apart: is it a valid sample, how long is the  *)
(* text that is made of it or found in it, is that text well formed, and   *)
(* which members of the output it gives a value to.                        *)
(*                                                                         *)
(* A member of an output sample is "unset", has a value of its own input   *)
(* ("new") or only the front of one ("cut"), or still has one from an      *)
(* earlier batch ("old").  An array is "padded" when it has the text of    *)
(* its own input and, behind the terminator, what the buffer held there:   *)
(* the end of an earlier, longer text or what no text was written to yet.  *)
(*                                                                         *)
(* The JSON plugin's buffer member is a string, an array or a sequence;    *)
(* characters and octets are treated alike.                                *)
(***************************************************************************)
EXTENDS Naturals, Sequences, FiniteSets

CONSTANTS
    TransformKinds,     \* the kinds of transformation to consider
    BufferBounds,       \* bounds of the buffer member, UnboundedMember included
    UnboundedMember,
    InitialSize,        \* unbounded_member_serialized_size_initial
    SampleMembers,      \* members of an output sample
    BufferMember,       \* the member a serializer writes its text to
    SampleInputs,       \* the inputs a batch is made of
    MaxBatch            \* bound: inputs of a batch

ASSUME TransformationAssumption ==
    /\ TransformKinds \subseteq {"json serializer", "json deserializer",
                                 "field serializer", "field deserializer"}
    /\ BufferBounds \subseteq Nat /\ InitialSize \in Nat
    /\ BufferMember \in SampleMembers
    /\ SampleInputs \subseteq [valid : BOOLEAN, text : Nat, wellformed : BOOLEAN,
                               members : SUBSET SampleMembers]

VARIABLES
    tf_kind,        \* what this transformation does
    tf_member,      \* the kind of the buffer member's type
    tf_bound,       \* json_buffer_max
    tf_both,        \* the input type, too, has the field that is set
    tf_size,        \* json_buffer_size, or the field's msg_payload_size
    tf_pool,        \* read_buffer: slots that are NULL or a sample
    tf_loaned,      \* read_buffer_loaned
    tf_batch,       \* the batch that is on loan
    tf_count,       \* how many outputs transform returned for it
    tf_clean        \* no batch so far failed or had an invalid sample

tftypes == <<tf_kind, tf_member, tf_bound, tf_both>>
tfvars == <<tftypes, tf_size, tf_pool, tf_loaned, tf_batch, tf_count, tf_clean>>

Batches == UNION {[1 .. n -> SampleInputs] : n \in 1 .. MaxBatch}
EmptySample == [m \in SampleMembers |-> "unset"]
NullSlot == [m \in SampleMembers |-> "null"]

IsJson == tf_kind \in {"json serializer", "json deserializer"}

\* json_buffer is used by a serializer and to read a string or an array; a
\* sequence is read into a sequence of its own.
HasBuffer == IsJson /\ ~(tf_kind = "json deserializer" /\ tf_member = "sequence")

\* preallocate_buffers gives json_buffer the bound of a bounded member and
\* the initial size for an unbounded one; the field's state starts with an
\* empty string of size 0.
PreallocatedSize ==
    IF ~HasBuffer THEN 0
    ELSE IF tf_bound = UnboundedMember THEN InitialSize ELSE tf_bound

\* An array has a bound.  The field plugin's member is a sequence of octets,
\* and nobody looks whether its input type has the field.
TransformationInit ==
    /\ tf_kind \in TransformKinds /\ tf_bound \in BufferBounds
    /\ tf_member \in {"string", "array", "sequence"}
    /\ tf_member = "array" => tf_bound # UnboundedMember
    /\ ~IsJson => tf_member = "sequence"
    /\ tf_both \in BOOLEAN
    /\ tf_kind # "field deserializer" => tf_both = TRUE
    /\ tf_size = PreallocatedSize
    /\ tf_pool = <<>> /\ tf_loaned = FALSE
    /\ tf_batch = <<>> /\ tf_count = 0 /\ tf_clean = TRUE

-----------------------------------------------------------------------------
(* One sample.  Every operator says what the plugin makes of input in.     *)

\* Mutant of SizeIncrement: the terminator is forgotten.
SizeIncrementShort(size) == size - 1

\* The buffer a text with its terminator needs, as to_json and get_string
\* report it, and what is allocated for that.
SizeNeeded(in) == in.text + 1
SizeIncrement(size) == size

\* The loop around to_json and around get_string: too small a buffer is an
\* error for a bounded member and is enlarged for an unbounded one.
JsonSize(in, size) ==
    IF HasBuffer /\ SizeNeeded(in) > size /\ tf_bound = UnboundedMember
    THEN SizeIncrement(SizeNeeded(in)) ELSE size

\* get_char_array copies a whole array, with its terminator or without; to a
\* sequence the terminator is added, unless there is nothing in it.
JsonTextRefused(in, size) ==
    CASE tf_kind = "json serializer" \/ tf_member = "string" ->
             SizeNeeded(in) > size /\ tf_bound # UnboundedMember
      [] tf_kind = "json deserializer" /\ tf_member = "array" -> FALSE
      [] tf_kind = "json deserializer" /\ tf_member = "sequence" -> in.text = 0

\* serialize: a string or a sequence gets the text; an array gets the whole
\* json_buffer, whatever is behind the text.
JsonSerialize(in, slot) ==
    [slot EXCEPT ![BufferMember] =
        IF tf_member = "array" /\ SizeNeeded(in) < tf_size THEN "padded" ELSE "new"]

\* deserialize: from_json sets the members the text names and no other.
JsonDeserialize(in, slot) ==
    [m \in SampleMembers |-> IF m \in in.members THEN "new" ELSE slot[m]]

\* The field's serialize: snprintf puts as much of the text into the buffer
\* as there is room for with its terminator.
FieldSerialize(in, slot) ==
    [slot EXCEPT ![BufferMember] = IF in.text < tf_size THEN "new" ELSE "cut"]

\* The field's deserialize.  A payload longer than the buffer makes it
\* enlarge the buffer, and leave when that succeeds; for others the value is
\* parsed and set in the field of the input sample, which fails when the
\* input type has no such field.
FieldSize(in, size) == IF in.text > size THEN in.text ELSE size
FieldPayloadRefused(in, size) == in.text > size \/ ~tf_both
FieldDeserialize(in, slot) == slot

-----------------------------------------------------------------------------
(* transform and return_loan.                                              *)

PluginRefuses(in, size) ==
    CASE tf_kind = "json serializer" -> JsonTextRefused(in, size)
      [] tf_kind = "json deserializer" ->
             JsonTextRefused(in, size) \/ ~in.wellformed
      [] tf_kind = "field serializer" -> FALSE
      [] tf_kind = "field deserializer" -> FieldPayloadRefused(in, size)

PluginSize(in, size) ==
    CASE IsJson -> JsonSize(in, size)
      [] tf_kind = "field serializer" -> size
      [] tf_kind = "field deserializer" -> FieldSize(in, size)

PluginOutput(in, slot) ==
    CASE tf_kind = "json serializer" -> JsonSerialize(in, slot)
      [] tf_kind = "json deserializer" -> JsonDeserialize(in, slot)
      [] tf_kind = "field serializer" -> FieldSerialize(in, slot)
      [] tf_kind = "field deserializer" -> FieldDeserialize(in, slot)

\* The valid inputs of batch among the first n.
ValidUpTo(batch, n) == {i \in 1 .. n : batch[i].valid}

\* The buffer after the first n inputs.
SizeAfter(batch, n) ==
    LET size[i \in 0 .. Len(batch)] ==
            IF i = 0 THEN tf_size
            ELSE IF batch[i].valid THEN PluginSize(batch[i], size[i - 1])
            ELSE size[i - 1]
    IN  size[n]

\* Input i is the first the plugin refuses: transform leaves there.
FirstRefused(batch, i) ==
    /\ batch[i].valid /\ PluginRefuses(batch[i], SizeAfter(batch, i - 1))
    /\ \A j \in ValidUpTo(batch, i - 1) :
           ~PluginRefuses(batch[j], SizeAfter(batch, j - 1))

\* The pool never shrinks; a slot that is not there yet is NULL.
PoolLength(batch) == IF Len(tf_pool) > Len(batch) THEN Len(tf_pool) ELSE Len(batch)
PoolSlot(i) == IF i <= Len(tf_pool) THEN tf_pool[i] ELSE NullSlot
Created(slot) == IF slot = NullSlot THEN EmptySample ELSE slot

\* The pool when the first n inputs were transformed: input i goes to slot i,
\* and an invalid one leaves its slot alone.
PoolAfter(batch, n) ==
    [i \in 1 .. PoolLength(batch) |->
        IF i \in ValidUpTo(batch, n)
        THEN PluginOutput(batch[i], Created(PoolSlot(i))) ELSE PoolSlot(i)]

\* All valid inputs were transformed: the pool is on loan, and out_count is
\* their number.
TransformSucceeds(batch) ==
    /\ ~tf_loaned
    /\ \A i \in DOMAIN batch : ~FirstRefused(batch, i)
    /\ tf_pool' = PoolAfter(batch, Len(batch))
    /\ tf_size' = SizeAfter(batch, Len(batch))
    /\ tf_loaned' = TRUE /\ tf_batch' = batch
    /\ tf_count' = Cardinality(ValidUpTo(batch, Len(batch)))
    /\ tf_clean' = (tf_clean /\ \A i \in DOMAIN batch : batch[i].valid)
    /\ UNCHANGED tftypes

\* What a slot holds belongs to an earlier batch from now on.
Aged(slot) == [m \in SampleMembers |->
                  IF slot[m] \in {"new", "cut", "padded"} THEN "old" ELSE slot[m]]

\* Input i was refused.  Its slot has been created, perhaps with some of the
\* members set; nothing is cleared and nothing is on loan.
TransformFails(batch) ==
    /\ ~tf_loaned
    /\ \E i \in DOMAIN batch :
           /\ FirstRefused(batch, i)
           /\ \E set \in SUBSET batch[i].members :
                  LET pool == PoolAfter(batch, i - 1)
                      part == [m \in SampleMembers |->
                                  IF m \in set THEN "old" ELSE Created(pool[i])[m]]
                  IN  tf_pool' = [j \in DOMAIN pool |->
                                     Aged(IF j = i THEN part ELSE pool[j])]
           /\ tf_size' = PluginSize(batch[i], SizeAfter(batch, i - 1))
    /\ tf_clean' = FALSE
    /\ UNCHANGED <<tftypes, tf_loaned, tf_batch, tf_count>>

\* transform is called while the pool is on loan: it refuses.
TransformOnLoan(batch) == tf_loaned /\ UNCHANGED tfvars

\* Mutant of TransformReturnLoan: the slots are not cleared.
TransformReturnLoanKeeps ==
    /\ tf_loaned
    /\ tf_pool' = [i \in DOMAIN tf_pool |-> Aged(tf_pool[i])]
    /\ tf_loaned' = FALSE /\ tf_batch' = <<>> /\ tf_count' = 0
    /\ UNCHANGED <<tftypes, tf_size, tf_clean>>

\* The first out_count slots are cleared.
TransformReturnLoan ==
    /\ tf_loaned
    /\ tf_pool' = [i \in DOMAIN tf_pool |->
                      IF i <= tf_count /\ tf_pool[i] # NullSlot THEN EmptySample
                      ELSE Aged(tf_pool[i])]
    /\ tf_loaned' = FALSE /\ tf_batch' = <<>> /\ tf_count' = 0
    /\ UNCHANGED <<tftypes, tf_size, tf_clean>>

\* A member that is read holds no more than its type allows.
HoldsTexts(batch) ==
    tf_kind = "json deserializer" /\ tf_bound # UnboundedMember =>
        \A i \in DOMAIN batch : batch[i].text <= tf_bound

TransformationNext ==
    \/ \E batch \in Batches :
           /\ HoldsTexts(batch)
           /\ \/ TransformSucceeds(batch) \/ TransformFails(batch)
              \/ TransformOnLoan(batch)
    \/ TransformReturnLoan

TransformationSpec == TransformationInit /\ [][TransformationNext]_tfvars

-----------------------------------------------------------------------------
(* Properties.                                                             *)

\* The members the output of input in ought to have.
OwnMembers(in) ==
    IF tf_kind = "json serializer" THEN {BufferMember} ELSE in.members

\* What the output of input in ought to be: its own members, and in an array
\* that its text does not fill, the text and its terminator.
OwnOutput(in) ==
    [m \in SampleMembers |->
        IF m \notin OwnMembers(in) THEN "unset"
        ELSE IF tf_kind = "json serializer" /\ tf_member = "array"
                    /\ SizeNeeded(in) < tf_bound THEN "padded"
        ELSE "new"]

\* Until a batch fails or has a sample without data, the JSON plugin's outputs
\* are those of the batch: as many as there are inputs, and the k-th made of
\* the k-th input alone.  No member is left from an earlier batch; only an
\* array may have the end of an earlier text behind the terminator of its own.
OutputsAreTheInputs ==
    IsJson /\ tf_loaned /\ tf_clean =>
        /\ tf_count = Len(tf_batch)
        /\ \A k \in 1 .. tf_count : tf_pool[k] = OwnOutput(tf_batch[k])

\* The texts json_buffer holds with their terminator: all but those of arrays
\* that are read, to which the code adds none.
IsTerminated == ~(tf_kind = "json deserializer" /\ tf_member = "array")

\* Every text that was put in json_buffer fits it, with its terminator unless
\* it was read from an array, and the buffer of a bounded member stays within
\* the bound: the loop that enlarges the buffer ends, and the member takes
\* what is in it.
JsonTextFits ==
    HasBuffer =>
        /\ tf_loaned => \A i \in ValidUpTo(tf_batch, Len(tf_batch)) :
                            IF IsTerminated THEN SizeNeeded(tf_batch[i]) <= tf_size
                            ELSE tf_batch[i].text <= tf_size
        /\ tf_bound # UnboundedMember => tf_size = tf_bound

\* What the field plugin's README says of the inverse transformation ("a
\* string value is parsed from a string, and set in a DDS sample's field"):
\* the outputs of a batch have the field set.
FieldIsSet ==
    tf_kind = "field deserializer" /\ tf_loaned =>
        \A k \in 1 .. tf_count : \E m \in SampleMembers : tf_pool[k][m] = "new"
=============================================================================
