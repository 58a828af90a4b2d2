--------------------------- MODULE Sequence2Array ---------------------------
(***************************************************************************)
(* The Sequence2Array and Array2Sequence transformations                   *)
(* (plugins/transformations/sequence2array): the types of a route are      *)
(* compared when the transformation is created, and every sample is then   *)
(* copied member by member into a new sample of the output type.           *)
(*                                                                         *)
(* Members have the same names in the same order on both sides, as the     *)
(* plugin's documentation asks for, and are known by their position.       *)
(***************************************************************************)
EXTENDS Integers, Sequences, SequencesExt

CONSTANTS
    SequenceUses,    \* pairs of an input and an output type, see Type
    MaxSamples       \* bound: samples of one transform()

\* A type: size is the number of elements of an array or the bound of a
\* sequence, dims the dimensions of an array, disc the type of a union's
\* discriminator or, of a struct, "optional" when its first member is, and
\* parts the types of the members or of the elements.
Type(kind, size, dims, disc, parts) ==
    [kind |-> kind, size |-> size, dims |-> dims, disc |-> disc,
     parts |-> parts]

\* A value: v of a primitive or the discriminator of a union, and the values
\* of the members or elements; of a union, the chosen one.
Value(v, e) == [v |-> v, e |-> e]

Absent == Value(-1, <<>>)   \* an optional member that is not set
Threw == Value(-2, <<>>)    \* an exception

Collections == {"sequence", "array"}
Complex == Collections \cup {"struct", "union"}

\* TypeKinds that copy_primitive_member and its siblings have a case for.
Copied == {"int", "float", "string"}

-----------------------------------------------------------------------------
(* Which types are accepted.                                               *)

RECURSIVE are_types_compatible(_, _)

MembersCompatible(in, out) ==
    IF in.kind \in Complex THEN are_types_compatible(in, out) ELSE in = out

\* Types of different kinds are logged as incompatible, and accepted.
is_union_or_struct_type_compatible(in, out) ==
    \/ in.kind # out.kind
    \/ /\ in.kind = "union" => in.disc = out.disc
       /\ Len(in.parts) = Len(out.parts)
       /\ \A i \in DOMAIN in.parts :
              MembersCompatible(in.parts[i], out.parts[i])

\* Primitive contents that differ only count between two arrays.
ContentsCompatible(in, out) ==
    \/ in.parts[1] = out.parts[1]
    \/ IF in.parts[1].kind \in Complex
       THEN are_types_compatible(in.parts[1], out.parts[1])
       ELSE ~(in.kind = "array" /\ out.kind = "array")

ArrayCompatible(in, out) ==
    /\ out.kind \in Collections
    /\ out.kind = "array" => in.dims = out.dims /\ in.size = out.size
    /\ ContentsCompatible(in, out)

SequenceCompatible(in, out) ==
    /\ out.kind \in Collections
    /\ out.kind = "array" => out.dims = 1
    /\ ContentsCompatible(in, out)

are_types_compatible(in, out) ==
    CASE in.kind \in {"struct", "union"} ->
             is_union_or_struct_type_compatible(in, out)
      [] in.kind = "array" -> ArrayCompatible(in, out)
      [] in.kind = "sequence" -> SequenceCompatible(in, out)
      [] OTHER -> FALSE

-----------------------------------------------------------------------------
(* DynamicData: a sample and its members.                                  *)

RECURSIVE Default(_)

\* new DynamicData(type).
Default(t) ==
    CASE t.kind = "array" ->
             Value(0, [i \in 1 .. t.size |-> Default(t.parts[1])])
      [] t.kind = "struct" ->
             Value(0, [i \in DOMAIN t.parts |-> Default(t.parts[i])])
      [] t.kind = "union" -> Value(1, <<Default(t.parts[1])>>)
      [] OTHER -> Value(0, <<>>)

HasMember(t, m) ==
    m <= IF t.kind \in Collections THEN t.size ELSE Len(t.parts)

MemberType(t, m) == IF t.kind \in Collections THEN t.parts[1] ELSE t.parts[m]

\* loan_value(m) or value(m); what is not there yet has its default.
Member(t, s, m) ==
    IF t.kind = "union"
    THEN IF s.v = m THEN s.e[1] ELSE Default(t.parts[m])
    ELSE IF m > Len(s.e) THEN Default(MemberType(t, m)) ELSE s.e[m]

\* The sample after its member m was set: a union then has this member, a
\* sequence grows by it.
WithMember(t, s, m, value) ==
    IF value = Threw THEN Threw
    ELSE IF t.kind = "union" THEN Value(m, <<value>>)
    ELSE IF m > Len(s.e) THEN Value(s.v, Append(s.e, value))
    ELSE Value(s.v, [s.e EXCEPT ![m] = value])

\* The members that convert_sample visits: of a union the chosen one, of a
\* collection its elements.
Visited(t, s) ==
    CASE t.kind = "union" -> <<s.v>>
      [] t.kind = "struct" -> [i \in DOMAIN t.parts |-> i]
      [] OTHER -> [i \in DOMAIN s.e |-> i]

-----------------------------------------------------------------------------
(* convert_sample().  A way w says whether outputs are arrays or sequences *)
(* (w.to), and what member_info().element_count() says of a sequence that  *)
(* was not set yet (w.count): its bound, or its length.                    *)

Resize(s, n) ==
    [i \in 1 .. n |-> IF i <= Len(s) THEN s[i] ELSE Value(0, <<>>)]

ElementCount(w, t, s) ==
    IF t.kind = "sequence" /\ w.count = "length" THEN Len(s.e) ELSE t.size

\* Numbers are copied all at once into as many elements as the output has.
copy_primitive_array_elements(in, s, out) ==
    IF in.parts[1] # out.parts[1]
    THEN Threw
    ELSE Value(0, Resize(s.e, out.size))

\* The same into a sequence; floats are set again, without the ones added.
copy_primitive_sequence_elements(w, in, s, out, o) ==
    IF in.parts[1] # out.parts[1] THEN Threw
    ELSE IF in.parts[1].kind = "float" THEN s
    ELSE Value(0, Resize(s.e, ElementCount(w, out, o)))

copy_primitive_member(in, out, value) ==
    IF in # out \/ in.kind \notin Copied THEN Threw ELSE value

\* Strings are read from, and set in, the samples that have the collection,
\* not the collection.
CopyStrings(w, in, s, out, o, m) ==
    LET count == ElementCount(w, MemberType(out, m), Member(out, o, m))
        string(t, i) == HasMember(t, i) /\ MemberType(t, i).kind = "string"
    IN IF \E i \in 1 .. count : ~(string(in, i) /\ string(out, i))
       THEN Threw
       ELSE FoldLeft(LAMBDA acc, i :
                         WithMember(out, acc, i, Member(in, s, i)),
                     o, [i \in 1 .. count |-> i])

\* Mutant of FitsOutput: the size of the output does not matter.
FitsAlways(s, out) == TRUE

FitsOutput(s, out) == Len(s.e) <= out.size

RECURSIVE convert_sample(_, _, _, _, _)

\* The elements of a collection that are samples themselves.
ConvertElements(w, in, s, out, o) ==
    LET convert(acc, j) ==
            IF acc = Threw \/ out.parts[1].kind \notin Complex
            THEN Threw
            ELSE WithMember(out, acc, j,
                     convert_sample(w, in.parts[1], s.e[j],
                                    out.parts[1], Member(out, acc, j)))
    IN FoldLeft(convert, o, [j \in DOMAIN s.e |-> j])

\* The cast of the output's type to ArrayType or SequenceType only has a
\* size when the output is one.
ConvertCollection(w, in, s, out, o, m) ==
    LET from == MemberType(in, m)
        to == MemberType(out, m)
        value == Member(in, s, m)
        old == Member(out, o, m)
    IN IF to.kind # w.to \/ ~FitsOutput(value, to) THEN Threw
       ELSE IF from.parts[1].kind \in Complex
       THEN WithMember(out, o, m, ConvertElements(w, from, value, to, old))
       ELSE IF from.parts[1].kind = "string" THEN CopyStrings(w, in, s, out, o, m)
       ELSE IF from.parts[1].kind \notin Copied THEN Threw
       ELSE WithMember(out, o, m,
                IF w.to = "array" THEN copy_primitive_array_elements(from, value, to)
                ELSE copy_primitive_sequence_elements(w, from, value, to, old))

ConvertMember(w, in, s, out, o, m) ==
    LET value == Member(in, s, m)
    IN IF o = Threw \/ value = Absent THEN o
       ELSE IF ~HasMember(out, m) THEN Threw
       ELSE CASE MemberType(in, m).kind \in Collections ->
                     ConvertCollection(w, in, s, out, o, m)
              [] MemberType(in, m).kind \in {"struct", "union"} ->
                     IF MemberType(out, m).kind \in Complex
                     THEN WithMember(out, o, m,
                              convert_sample(w, MemberType(in, m), value,
                                             MemberType(out, m), Member(out, o, m)))
                     ELSE Threw
              [] OTHER ->
                     WithMember(out, o, m,
                         copy_primitive_member(MemberType(in, m),
                                               MemberType(out, m), value))

convert_sample(w, in, s, out, o) ==
    FoldLeft(LAMBDA acc, m : ConvertMember(w, in, s, out, acc, m),
             o, Visited(in, s))

-----------------------------------------------------------------------------
VARIABLES
    sq_way,    \* the transformation and the library's element_count
    sq_types,  \* [in |-> type of the input, out |-> type of the output]
    sq_at,     \* "none", "ready", "loaned", "failed": transform() threw
    sq_in,     \* the samples given to transform()
    sq_out     \* the samples it allocated

sqvars == <<sq_way, sq_types, sq_at, sq_in, sq_out>>

Sequence2ArrayInit ==
    /\ sq_way \in [to : Collections, count : {"bound", "length"}]
    /\ sq_way.to = "array" => sq_way.count = "bound"
    /\ sq_types \in SequenceUses
    /\ sq_at = "none"
    /\ sq_in = <<>>
    /\ sq_out = <<>>

\* The constructors: types that are not compatible throw.
CreateSequence2Array ==
    /\ sq_at = "none"
    /\ are_types_compatible(sq_types.in, sq_types.out)
    /\ sq_at' = "ready"
    /\ UNCHANGED <<sq_way, sq_types, sq_in, sq_out>>

RECURSIVE ValuesOf(_)

\* The values of a type that samples are made of.
ValuesOf(t) ==
    CASE t.kind = "array" ->
             {Value(0, e) : e \in [1 .. t.size -> ValuesOf(t.parts[1])]}
      [] t.kind = "sequence" ->
             {Value(0, e) : e \in BoundedSeq(ValuesOf(t.parts[1]), t.size)}
      [] t.kind = "union" ->
             UNION {{Value(d, <<x>>) : x \in ValuesOf(t.parts[d])} :
                        d \in DOMAIN t.parts}
      [] t.kind = "struct" ->
             LET members(i) ==
                     ValuesOf(t.parts[i])
                         \cup IF i = 1 /\ t.disc = "optional" THEN {Absent} ELSE {}
                 Longer(es, i) == {Append(e, x) : e \in es, x \in members(i)}
             IN {Value(0, e) :
                    e \in FoldLeft(Longer, {<<>>}, [i \in DOMAIN t.parts |-> i])}
      [] OTHER -> {Value(v, <<>>) : v \in 1 .. 2}

\* transform(): a new output for every sample, in order; after an exception
\* there are the ones converted before it.
TransformSamples(batch) ==
    LET converted == [i \in DOMAIN batch |->
                          convert_sample(sq_way, sq_types.in, batch[i],
                                         sq_types.out, Default(sq_types.out))]
        thrown == {i \in DOMAIN batch : converted[i] = Threw}
        made == {i \in DOMAIN batch : \A j \in thrown : i < j}
    IN /\ sq_in' = batch
       /\ sq_out' = [i \in made |-> converted[i]]
       /\ sq_at' = IF thrown = {} THEN "loaned" ELSE "failed"
       /\ UNCHANGED <<sq_way, sq_types>>

\* return_loan() deletes the samples; the router drops those of a transform()
\* that threw.
ReturnSamples ==
    /\ sq_at \in {"loaned", "failed"}
    /\ sq_at' = "ready"
    /\ sq_in' = <<>>
    /\ sq_out' = <<>>
    /\ UNCHANGED <<sq_way, sq_types>>

\* delete_transformation().
DeleteSequence2Array ==
    /\ sq_at = "ready"
    /\ sq_at' = "none"
    /\ UNCHANGED <<sq_way, sq_types, sq_in, sq_out>>

Sequence2ArrayNext ==
    \/ CreateSequence2Array
    \/ /\ sq_at = "ready"
       /\ \E batch \in BoundedSeq(ValuesOf(sq_types.in), MaxSamples) :
              TransformSamples(batch)
    \/ ReturnSamples
    \/ DeleteSequence2Array

-----------------------------------------------------------------------------
(* Properties.                                                             *)

RECURSIVE Carries(_, _, _)

\* The output o says what the input s says: every member at its place, and
\* only defaults after the last element of a collection.
Carries(t, s, o) ==
    \/ s = Absent
    \/ CASE t.kind = "struct" ->
                \A i \in DOMAIN t.parts : Carries(t.parts[i], s.e[i], o.e[i])
         [] t.kind = "union" -> /\ o.v = s.v
                                /\ Carries(t.parts[s.v], s.e[1], o.e[1])
         [] t.kind \in Collections ->
                /\ Len(s.e) <= Len(o.e)
                /\ \A i \in DOMAIN s.e : Carries(t.parts[1], s.e[i], o.e[i])
                /\ \A i \in Len(s.e) + 1 .. Len(o.e) :
                       o.e[i].v = 0 \/ t.parts[1].kind \in Complex
         [] OTHER -> o = s

RECURSIVE HasStrings(_)

HasStrings(t) ==
    \/ t.kind \in Collections /\ t.parts[1].kind = "string"
    \/ \E i \in DOMAIN t.parts : HasStrings(t.parts[i])

RECURSIVE SameLeaves(_, _)

\* The primitive members and elements of the types are of the same types.
SameLeaves(in, out) ==
    IF in.kind \in Complex
    THEN /\ in.kind \in Collections <=> out.kind \in Collections
         /\ in.kind \in Collections \/ in.kind = out.kind
         /\ Len(in.parts) = Len(out.parts)
         /\ \A i \in DOMAIN in.parts : SameLeaves(in.parts[i], out.parts[i])
    ELSE in = out

\* Samples that transform() returns carry everything their inputs carry, for
\* types whose leaves are the same: none of the checks of sizes on the way
\* (Sequence2ArrayTransformation.cxx:405, 519, DynamicDataHelpers.cxx:430) lets
\* an element be lost.  Collections of strings are not, and primitive
\* sequences are only if element_count() of a new one is its bound.
SamplesAreWhole ==
    /\ sq_at = "loaned"
    /\ ~HasStrings(sq_types.in)
    /\ SameLeaves(sq_types.in, sq_types.out)
    /\ sq_way.to = "array" \/ sq_way.count = "bound"
    => /\ Len(sq_out) = Len(sq_in)
       /\ \A i \in DOMAIN sq_in : Carries(sq_types.in, sq_in[i], sq_out[i])

\* A Sequence2Array transformation is created only for types whose nested
\* members agree (sequence2array/doc/configuration.rst:82-92,
\* Sequence2ArrayTransformation.cxx:49, 239, 289).
AcceptedTypesAgree ==
    sq_way.to = "array" /\ sq_at # "none"
        => SameLeaves(sq_types.in, sq_types.out)
=============================================================================
