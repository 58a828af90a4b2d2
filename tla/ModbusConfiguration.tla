------------------------ MODULE ModbusConfiguration ------------------------
(***************************************************************************)
(* One element of the Modbus adapter's configuration: how it is parsed,    *)
(* checked against the field of the DDS type it is for, and then used to   *)
(* turn registers into the field's value (stream reader) or the field's    *)
(* value into registers (stream writer).  ModbusAdapterConfiguration.cxx,  *)
(* LibModbusClient.hpp, UtilsLongDouble.hpp, DynamicDataHelpers.cxx.       *)
(*                                                                         *)
(* A register has two bytes and a byte has ByteBase values (256 in the     *)
(* program), so that the sizes of the types stay in proportion.  Factors,  *)
(* offsets and the numbers of fields are whole; the arithmetic on them is  *)
(* that of the program's floating point types and rounds.  A number of a   *)
(* FLOAT datatype is named by its four bytes, most significant first, and  *)
(* is only moved, with factor 1 and offset 0.                              *)
(***************************************************************************)
EXTENDS Integers, Sequences

CONSTANTS
    ByteBase,       \* values of a byte
    Huge,           \* RTI_DOUBLE_MAX, and -Huge is RTI_DOUBLE_MIN
    FloatExact,     \* a float is exact up to this whole number, 2^24
    LongDoubleExact,    \* a long double up to this one, 2^64
    ModbusUses,     \* what to configure: [entity, element, field] records
    MaxVector       \* bound: elements of a field's value

VARIABLES
    mc_use,         \* entity, element and field of this configuration
    mc_phase,       \* "new", then "refused" or "ready"; "overrun" when a
                    \* write went past the end of its buffer
    mc_element,     \* the element as parsed
    mc_registers,   \* registers read, or written, last
    mc_values       \* the field's value that goes with mc_registers

mcvars == <<mc_use, mc_phase, mc_element, mc_registers, mc_values>>

RegisterBase == ByteBase * ByteBase
Registers == 0 .. RegisterBase - 1

IntegerDatatypes == {"INT8", "INT16", "INT32", "INT64"}
FloatDatatypes == {"FLOAT_ABCD", "FLOAT_BADC", "FLOAT_CDAB", "FLOAT_DCBA"}
BooleanDatatypes == {"COIL_BOOLEAN", "DISCRETE_INPUT_BOOLEAN"}
RegisterDatatypes == IntegerDatatypes \cup FloatDatatypes \cup BooleanDatatypes

\* An element as the JSON text gives it, and a member of the DDS type.
ElementRecords ==
    [datatype : RegisterDatatypes \cup {"none"}, readonly : BOOLEAN, count : Nat,
     address : BOOLEAN, constant : STRING, min : Int, max : Int,
     valid : SUBSET Int, factor : Int, offset : Int]
FieldRecords ==
    [shape : {"single", "array", "sequence"}, kind : STRING, size : Nat,
     ordinals : SUBSET Int, values : SUBSET Int]

ASSUME ModbusUseAssumption ==
    /\ ByteBase \in Nat \ {0, 1} /\ Huge \in Nat /\ MaxVector \in Nat
    /\ FloatExact \in Nat \ {0} /\ LongDoubleExact \in Nat \ {0}
    /\ ModbusUses \subseteq
           [entity : {"reader", "writer"}, element : ElementRecords, field : FieldRecords]
    /\ \A u \in ModbusUses : u.element.datatype \in FloatDatatypes
           => u.element.factor = 1 /\ u.element.offset = 0

ModbusConfigurationInit ==
    /\ mc_use \in ModbusUses
    /\ mc_phase = "new" /\ mc_element = mc_use.element
    /\ mc_registers = <<>> /\ mc_values = <<>>

-----------------------------------------------------------------------------
(* Parsing an element.                                                     *)

number_of_registers_primitive_type(datatype) ==
    CASE datatype \in BooleanDatatypes \cup {"INT8", "INT16"} -> 1
      [] datatype \in FloatDatatypes \cup {"INT32"} -> 2
      [] datatype = "INT64" -> 4

\* A constant needs no datatype of its own.
ParsedDatatype(e) ==
    IF e.datatype = "none" /\ e.constant # "none" THEN "CONSTANT_VALUE"
    ELSE e.datatype

check_for_errors(e) ==
    \/ ParsedDatatype(e) = "none"
    \/ ParsedDatatype(e) # "CONSTANT_VALUE" /\ (~e.address \/ e.constant # "none")
    \/ e.min > e.max

\* A count that is given must be that of one or several whole values.
CountIsWrong(e) ==
    /\ e.count # 0 /\ ParsedDatatype(e) # "CONSTANT_VALUE"
    /\ LET n == number_of_registers_primitive_type(e.datatype)
       IN  e.count % n # 0 \/ e.count \div n < 1

\* One value is not an array.
set_array_elements_from_config(e) ==
    IF e.count = 0 \/ ParsedDatatype(e) = "CONSTANT_VALUE" THEN 0
    ELSE LET n == e.count \div number_of_registers_primitive_type(e.datatype)
         IN  IF n = 1 THEN 0 ELSE n

ParsedCount(e) ==
    IF ParsedDatatype(e) = "CONSTANT_VALUE" THEN e.count
    ELSE IF set_array_elements_from_config(e) # 0 THEN e.count
    ELSE number_of_registers_primitive_type(e.datatype)

Parsed(e) ==
    [datatype |-> ParsedDatatype(e), readonly |-> e.readonly,
     count |-> ParsedCount(e), constant |-> e.constant, min |-> e.min,
     max |-> e.max, valid |-> e.valid, factor |-> e.factor, offset |-> e.offset,
     array_elements |-> set_array_elements_from_config(e)]

-----------------------------------------------------------------------------
(* Checking an element against its field.                                  *)

SignedKinds == {"char8", "int16", "int32", "int64", "enum", "float32", "float64"}
UnsignedKinds == {"uint8", "uint16", "uint32", "uint64"}
is_signed_kind(kind) == kind \in SignedKinds

IntegerKinds(size) ==
    CASE size = 8 -> {"int64", "uint64"}
      [] size = 4 -> {"int32", "uint32"}
      [] size = 2 -> {"int16", "uint16"}
      [] size = 1 -> {"char8", "uint8"}

ByteSize(datatype) ==
    CASE datatype = "INT8" -> 1 [] datatype = "INT16" -> 2
      [] datatype = "INT32" -> 4 [] datatype = "INT64" -> 8

\* The cases fall through: a field may be wider than what is read.
is_compatible_dds_datatype(e, kind) ==
    IF kind = "enum" /\ e.datatype # "CONSTANT_VALUE"
    THEN e.datatype \in IntegerDatatypes /\ e.valid # {}
    ELSE CASE e.datatype \in IntegerDatatypes ->
                  kind \in {"float32", "float64"} \cup
                           UNION {IntegerKinds(s) : s \in {t \in {1, 2, 4, 8} :
                                                     t >= ByteSize(e.datatype)}}
           [] e.datatype \in FloatDatatypes -> kind \in {"float32", "float64"}
           [] e.datatype \in BooleanDatatypes ->
                  kind \in {"bool"} \cup UNION {IntegerKinds(s) : s \in {1, 2, 4, 8}}
           [] OTHER -> TRUE

\* Registers of more than a byte: the kind must have a sign, and an unsigned
\* one takes no negative bound and no offset below its minimum, which is 0.
RangeIsWrong(e, kind) ==
    /\ e.datatype \in (IntegerDatatypes \ {"INT8"}) \cup FloatDatatypes
    /\ \/ kind \notin SignedKinds \cup UnsignedKinds
       \/ /\ ~is_signed_kind(kind)
          /\ (e.min # -Huge /\ e.min < 0) \/ e.max < 0 \/ e.offset < 0

check_configuration_consistency(entity, e, f) ==
    \/ entity = "writer" /\ (e.datatype = "CONSTANT_VALUE" \/ e.readonly)
    \/ IF e.array_elements # 0
       THEN \/ f.shape = "single"
            \/ f.shape = "array" /\ f.size # e.array_elements
            \/ f.shape = "sequence" /\ f.size < e.array_elements
            \/ RangeIsWrong(e, f.kind)
            \/ ~is_compatible_dds_datatype(e, f.kind)
       ELSE \/ f.shape # "single" /\ e.datatype # "CONSTANT_VALUE"
            \/ RangeIsWrong(e, f.kind)
            \/ f.kind = "enum" /\ ~(e.valid \subseteq f.ordinals)
            \/ ~is_compatible_dds_datatype(e, f.kind)

\* The constructor of a stream reader or writer parses and checks its
\* configuration, and throws when either fails.
ConfigureStream ==
    /\ mc_phase = "new"
    /\ IF check_for_errors(mc_use.element) \/ CountIsWrong(mc_use.element)
       THEN mc_phase' = "refused" /\ UNCHANGED mc_element
       ELSE /\ mc_element' = Parsed(mc_use.element)
            /\ mc_phase' = IF check_configuration_consistency(
                                  mc_use.entity, mc_element', mc_use.field)
                           THEN "refused" ELSE "ready"
    /\ UNCHANGED <<mc_use, mc_registers, mc_values>>

-----------------------------------------------------------------------------
(* Values and registers.                                                   *)

\* safe_cast: a conversion out of range is undefined in C++; the builds keep
\* the low bits.
safe_cast_unsigned(v, base) == v % base
safe_cast_signed(v, base) ==
    IF v % base >= base \div 2 THEN (v % base) - base ELSE v % base

\* As many values as the bytes of the datatype have.
BaseOf(datatype) ==
    LET base32 == RegisterBase * RegisterBase
    IN  CASE datatype = "INT8" -> ByteBase [] datatype = "INT16" -> RegisterBase
          [] datatype = "INT32" -> base32 [] datatype = "INT64" -> base32 * base32

\* Mutant of check_correct_value: only the range is checked.
check_range_only(e, v) == v >= e.min /\ v <= e.max

check_correct_value(e, v) ==
    v >= e.min /\ v <= e.max /\ (e.valid # {} => v \in e.valid)

\* The multiple of the least power of two that is enough, nearest to v, the
\* even one if two are as near.
Nearest(v, exact) ==
    LET size == IF v < 0 THEN -v ELSE v
        unit == 2 ^ (CHOOSE k \in 1 .. size :
                        exact * 2 ^ k >= size /\ exact * 2 ^ (k - 1) < size)
        down == size \div unit
        twice == 2 * (size % unit)
        near == IF twice > unit \/ (twice = unit /\ down % 2 = 1)
                THEN down + 1 ELSE down
    IN  IF v < 0 THEN -(near * unit) ELSE near * unit

\* A whole number in a floating point type that is exact up to the given one.
Rounded(v, exact) ==
    IF -exact <= v /\ v <= exact THEN v ELSE Nearest(v, exact)

\* data_offset() + value * data_factor(): the factor and the offset are floats,
\* so that a reader, whose values are integers, computes in float, and a
\* writer, whose values are long doubles, in long double.
LinearTransformation(e, v, exact) ==
    IF e.datatype \in FloatDatatypes THEN v
    ELSE Rounded(e.offset + Rounded(Rounded(v, exact) * e.factor, exact), exact)

\* Mutant of int16_to_int32: the low register comes first.
int16_to_int32_low_first(r) == r[2] * RegisterBase + r[1]

\* The macros of libmodbus put the high register first.
int32_to_int16(v) == <<v \div RegisterBase, v % RegisterBase>>
int64_to_int16(v) ==
    LET base32 == RegisterBase * RegisterBase
    IN  <<(v \div (base32 * RegisterBase)) % RegisterBase, (v \div base32) % RegisterBase,
          (v \div RegisterBase) % RegisterBase, v % RegisterBase>>
int16_to_int32(r) == r[1] * RegisterBase + r[2]
int16_to_int64(r) ==
    ((r[1] * RegisterBase + r[2]) * RegisterBase + r[3]) * RegisterBase + r[4]

\* The four orders in which the bytes a, b, c, d of a float are transferred.
SwapBytes(r) == (r % ByteBase) * ByteBase + (r \div ByteBase)
float_to_int16(datatype, v) ==
    LET hi == v \div RegisterBase
        lo == v % RegisterBase
    IN  CASE datatype = "FLOAT_ABCD" -> <<hi, lo>>
          [] datatype = "FLOAT_BADC" -> <<SwapBytes(hi), SwapBytes(lo)>>
          [] datatype = "FLOAT_CDAB" -> <<lo, hi>>
          [] datatype = "FLOAT_DCBA" -> <<SwapBytes(lo), SwapBytes(hi)>>
int16_to_float(datatype, r) ==
    CASE datatype = "FLOAT_ABCD" -> r[1] * RegisterBase + r[2]
      [] datatype = "FLOAT_BADC" -> SwapBytes(r[1]) * RegisterBase + SwapBytes(r[2])
      [] datatype = "FLOAT_CDAB" -> r[2] * RegisterBase + r[1]
      [] datatype = "FLOAT_DCBA" -> SwapBytes(r[2]) * RegisterBase + SwapBytes(r[1])

\* What is read of a value's registers, before the linear transformation.
RawValue(e, kind, r) ==
    LET signed == is_signed_kind(kind)
        Cast(v) == IF signed THEN safe_cast_signed(v, BaseOf(e.datatype))
                   ELSE safe_cast_unsigned(v, BaseOf(e.datatype))
    IN  CASE e.datatype \in {"INT8", "INT16"} -> Cast(r[1])
          [] e.datatype = "INT32" -> Cast(int16_to_int32(r))
          [] e.datatype = "INT64" -> Cast(int16_to_int64(r))
          [] e.datatype \in FloatDatatypes -> int16_to_float(e.datatype, r)

\* The transformed value is cast to the size of the datatype, the unsigned
\* 16 bit one to 8 bits.
FieldValue(e, kind, v) ==
    CASE e.datatype \in FloatDatatypes -> v
      [] e.datatype = "INT16" /\ ~is_signed_kind(kind) ->
             safe_cast_unsigned(v, BaseOf("INT8"))
      [] e.datatype \in IntegerDatatypes /\ is_signed_kind(kind) ->
             safe_cast_signed(v, BaseOf(e.datatype))
      [] OTHER -> safe_cast_unsigned(v, BaseOf(e.datatype))

\* The registers of value k.
Slice(e, regs, k) ==
    LET n == number_of_registers_primitive_type(e.datatype)
    IN  SubSeq(regs, (k - 1) * n + 1, k * n)

ValueCount(e) == e.count \div number_of_registers_primitive_type(e.datatype)

\* get_float_value, for the registers of an element.
get_float_value(e, kind, regs) ==
    [k \in 1 .. ValueCount(e) |->
        LET raw == RawValue(e, kind, Slice(e, regs, k))
        IN  FieldValue(e, kind, LinearTransformation(e, raw, FloatExact))]

\* read_data_from_modbus for this element.  A value that is out of range
\* leaves the field as it was; coils are stored as they are.
ReadElement(regs) ==
    /\ mc_phase = "ready" /\ mc_use.entity = "reader"
    /\ mc_element.datatype # "CONSTANT_VALUE" /\ Len(regs) = mc_element.count
    /\ LET kind == mc_use.field.kind
       IN  IF mc_element.datatype \in BooleanDatatypes
           THEN mc_values' = regs
           ELSE /\ \A k \in 1 .. ValueCount(mc_element) :
                       check_correct_value(mc_element,
                           RawValue(mc_element, kind, Slice(mc_element, regs, k)))
                /\ mc_values' = get_float_value(mc_element, kind, regs)
    /\ mc_registers' = regs
    /\ UNCHANGED <<mc_use, mc_phase, mc_element>>

RegistersOf(e, v) ==
    CASE e.datatype \in {"INT8", "INT16"} ->
             <<safe_cast_unsigned(v, BaseOf(e.datatype))>>
      [] e.datatype = "INT32" ->
             int32_to_int16(safe_cast_unsigned(v, BaseOf("INT32")))
      [] e.datatype = "INT64" ->
             int64_to_int16(safe_cast_unsigned(v, BaseOf("INT64")))
      [] e.datatype \in FloatDatatypes -> float_to_int16(e.datatype, v)

\* What is written for a value, before it is cast.
WrittenValue(e, v) == LinearTransformation(e, v, LongDoubleExact)

\* get_registers_value: value k goes to its own registers of the buffer, which
\* has those of the element; what the values leave of them is 0.
get_registers_value(e, values) ==
    LET n == number_of_registers_primitive_type(e.datatype)
    IN  [i \in 1 .. e.count |->
            IF i <= Len(values) * n
            THEN RegistersOf(e, WrittenValue(e, values[(i - 1) \div n + 1]))
                            [((i - 1) % n) + 1]
            ELSE 0]

\* A sequence may have more values than the element.  The first one too many
\* is stored past the end of the buffer, unless a value up to it is wrong.
Overruns(e, values) ==
    /\ Len(values) > ValueCount(e)
    /\ e.datatype \in BooleanDatatypes
       \/ \A k \in 1 .. ValueCount(e) + 1 :
              check_correct_value(e, WrittenValue(e, values[k]))

\* write for this element.  A coil is on when the value's low byte is not 0.
\* What follows a write past the end of the buffer is undefined, and nothing
\* follows it here.
CoilOf(v) == IF safe_cast_unsigned(v, ByteBase) # 0 THEN 1 ELSE 0
WriteElement(values) ==
    /\ mc_phase = "ready" /\ mc_use.entity = "writer"
    /\ IF Overruns(mc_element, values)
       THEN mc_phase' = "overrun" /\ UNCHANGED <<mc_registers, mc_values>>
       ELSE /\ IF mc_element.datatype \in BooleanDatatypes
               THEN mc_registers' = [k \in 1 .. mc_element.count |->
                        IF k <= Len(values) THEN CoilOf(values[k]) ELSE 0]
               ELSE /\ \A k \in DOMAIN values :
                           check_correct_value(mc_element,
                                               WrittenValue(mc_element, values[k]))
                    /\ mc_registers' = get_registers_value(mc_element, values)
            /\ mc_values' = values /\ UNCHANGED mc_phase
    /\ UNCHANGED <<mc_use, mc_element>>

\* Any registers the device may hold, any values the field may have.
RegistersRead ==
    [1 .. mc_element.count ->
        IF mc_element.datatype \in BooleanDatatypes THEN 0 .. 1 ELSE Registers]
FieldLengths ==
    {n \in 0 .. MaxVector :
        CASE mc_use.field.shape = "single" -> n = 1
          [] mc_use.field.shape = "array" -> n = mc_use.field.size
          [] mc_use.field.shape = "sequence" -> n <= mc_use.field.size}
FieldVectors == UNION {[1 .. n -> mc_use.field.values] : n \in FieldLengths}

ModbusConfigurationNext ==
    \/ ConfigureStream
    \/ mc_phase = "ready" /\ mc_use.entity = "reader"
          /\ mc_element.datatype # "CONSTANT_VALUE"
          /\ \E regs \in RegistersRead : ReadElement(regs)
    \/ \E values \in FieldVectors : WriteElement(values)

ModbusConfigurationSpec ==
    ModbusConfigurationInit /\ [][ModbusConfigurationNext]_mcvars

-----------------------------------------------------------------------------
(* Properties.                                                             *)

\* The number with these bytes, the most significant first.
BigEndian(bytes) ==
    LET value[i \in 0 .. Len(bytes)] ==
            IF i = 0 THEN 0 ELSE value[i - 1] * ByteBase + bytes[i]
    IN  value[Len(bytes)]

\* The bytes of a number's registers by the Modbus standard: big endian, for a
\* float in the order that the datatype names.
BytesOf(datatype, regs) ==
    LET hi(i) == regs[i] \div ByteBase
        lo(i) == regs[i] % ByteBase
    IN  CASE datatype = "INT8" -> <<lo(1)>>
          [] datatype = "INT16" -> <<hi(1), lo(1)>>
          [] datatype \in {"INT32", "FLOAT_ABCD"} -> <<hi(1), lo(1), hi(2), lo(2)>>
          [] datatype = "FLOAT_BADC" -> <<lo(1), hi(1), lo(2), hi(2)>>
          [] datatype = "FLOAT_CDAB" -> <<hi(2), lo(2), hi(1), lo(1)>>
          [] datatype = "FLOAT_DCBA" -> <<lo(2), hi(2), lo(1), hi(1)>>
          [] datatype = "INT64" ->
                 <<hi(1), lo(1), hi(2), lo(2), hi(3), lo(3), hi(4), lo(4)>>

\* The number that the registers denote, in two's complement when the field
\* has a sign.
Denoted(datatype, kind, regs) ==
    LET all == BigEndian(BytesOf(datatype, regs))
    IN  IF /\ datatype \in IntegerDatatypes /\ is_signed_kind(kind)
           /\ all >= BaseOf(datatype) \div 2
        THEN all - BaseOf(datatype) ELSE all

\* The numbers a datatype can transfer for a field of this kind; a float is
\* one that has four bytes.
InRange(datatype, kind, v) ==
    IF datatype \in FloatDatatypes
    THEN 0 <= v /\ v < RegisterBase * RegisterBase
    ELSE LET base == BaseOf(datatype)
         IN  IF is_signed_kind(kind) THEN -(base \div 2) <= v /\ v < base \div 2
             ELSE 0 <= v /\ v < base

\* The value on the field's side and on the register's side of value k.
FieldSide(k) == mc_values[k]
RegisterSide(k) ==
    Denoted(mc_element.datatype, mc_use.field.kind, Slice(mc_element, mc_registers, k))

\* The transformation of the configuration, in exact arithmetic, and that no
\* number it goes through is beyond those the stream's arithmetic is exact for.
Linear(e, v) == e.offset + v * e.factor
IsExact(e, v, exact) ==
    \/ e.datatype \in FloatDatatypes
    \/ \A x \in {v, v * e.factor, Linear(e, v)} : -exact <= x /\ x <= exact

\* What an accepted element transfers is the linear transformation of the
\* number on the other side, value by value, whatever the datatype and the
\* byte order: reader and writer agree with the Modbus representation.  This
\* is said of numbers within the exact range of the arithmetic: a reader's
\* goes through a float and rounds INT32 and INT64 values beyond 2^24, even
\* with factor 1 and offset 0.  The reader's unsigned 16 bit values keep only
\* their low byte and are left out here, and so are sequences with more values
\* than the element, which overrun the writer's buffer.
ModbusValuesAgree ==
    mc_phase = "ready" /\ mc_registers # <<>> =>
        \A k \in DOMAIN mc_values :
            LET kind == mc_use.field.kind
                dt == mc_element.datatype
                reads == mc_use.entity = "reader"
                from == IF reads THEN RegisterSide(k) ELSE FieldSide(k)
                to == IF reads THEN FieldSide(k) ELSE RegisterSide(k)
            IN  \/ dt \in BooleanDatatypes
                \/ reads /\ dt = "INT16" /\ ~is_signed_kind(kind)
                \/ /\ InRange(dt, kind, Linear(mc_element, from))
                   /\ IsExact(mc_element, from,
                              IF reads THEN FloatExact ELSE LongDoubleExact)
                   => to = Linear(mc_element, from)

\* A reader that was accepted gives its field a value the field can take: one
\* value for a single field, as many as it has elements for an array, at most
\* the bound for a sequence; and a single enumeration only one of its ordinals
\* (unless the value is transformed, or rounded by a float, after it was
\* checked).  The values that are valid for an array or a sequence of
\* enumerations are not compared with the ordinals, so that nothing is said
\* of its elements.
ModbusValueFitsField ==
    mc_phase = "ready" /\ mc_use.entity = "reader" /\ mc_values # <<>> =>
        /\ CASE mc_use.field.shape = "single" -> Len(mc_values) = 1
             [] mc_use.field.shape = "array" -> Len(mc_values) = mc_use.field.size
             [] mc_use.field.shape = "sequence" ->
                    Len(mc_values) > 1 /\ Len(mc_values) <= mc_use.field.size
        /\ /\ mc_use.field.shape = "single" /\ mc_use.field.kind = "enum"
           /\ mc_element.factor = 1 /\ mc_element.offset = 0
           /\ \A v \in mc_element.valid : -FloatExact <= v /\ v <= FloatExact
           => mc_values[1] \in mc_use.field.ordinals

\* What doc/_static/csv/conversion_modbus_to_dynamicdata.csv says of unsigned
\* fields other than uint8 ("<field value> = OFFSET + FACTOR * <register
\* value>"): a register that is read into one arrives as that value, as long
\* as it is in the range of a register.
ModbusUnsignedReads ==
    /\ mc_phase = "ready" /\ mc_use.entity = "reader"
    /\ mc_element.datatype = "INT16" /\ mc_use.field.kind \in UnsignedKinds
    => \A k \in DOMAIN mc_values :
           LET value == Linear(mc_element, RegisterSide(k))
           IN  value \in Registers => FieldSide(k) = value
=============================================================================
