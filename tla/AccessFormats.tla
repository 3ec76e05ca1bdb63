--------------------------- MODULE AccessFormats ---------------------------
(***************************************************************************)
(* The badge formats of src/services/accesscontrol/formats that carry      *)
(* numbers under a binary, big endian encoding with parity bits: Wiegand   *)
(* 26, 34, 35 and 37 (with their variants), HID Honeywell 40, Getronik 40  *)
(* and Barium Ferrite.                                                     *)
(*                                                                         *)
(* One Format object is given its fields and writes its linear data        *)
(* (getLinearData); the data is damaged or not on its way; a second Format *)
(* object reads it (setLinearData).  A number is a function from the rank  *)
(* of a bit (0 is the lowest) to 0 or 1; a BitsetStream is a sequence of   *)
(* bits, the first bit of the first byte first.  Positions of bits in the  *)
(* layouts count from 0, as in the code.                                   *)
(***************************************************************************)
EXTENDS Integers, Sequences, FiniteSets, SequencesExt, FiniteSetsExt

CONSTANT Formats        \* the names of the formats of this instance

ASSUME FormatsAssumption ==
    Formats \subseteq {"w26", "w34", "w34f", "w35", "w37", "w37f", "w37p2",
                       "honeywell", "getronik", "barium"}

VARIABLES
    fmt,        \* the format of both objects
    stage,      \* "new", "set", "written", "sent", "read"
    fields,     \* the fields of the object that writes
    data,       \* the linear data: what getLinearData made, then what arrives
    damage,     \* what happened to the data on its way
    got,        \* the fields of the object that reads
    error       \* setLinearData threw

vars == <<fmt, stage, fields, data, damage, got, error>>

-----------------------------------------------------------------------------
(* Numbers and streams of bits.                                            *)

Ranks == 0..39          \* of the bits of a field: the widest one has 35

Zero == [k \in Ranks |-> 0]

Zeros(n) == [i \in 1..n |-> 0]

\* A stream fills its last byte with zeros.
Pad(bits) == bits \o Zeros((8 - (Len(bits) % 8)) % 8)

Number(bits) == FoldLeft(LAMBDA n, b : 2 * n + b, 0, bits)

OfByte(n) == [i \in 1..8 |-> (n \div 2^(8 - i)) % 2]

\* BitHelper::swapBytes
SwapBytes(bits) ==
    LET n == Len(bits) \div 8
    IN  [i \in 1..(8 * n) |-> bits[8 * (n - 1 - ((i - 1) \div 8)) + ((i - 1) % 8) + 1]]

\* The first n bytes of a number as they lie in memory: the lowest byte first.
Memory(number, n) ==
    [i \in 1..(8 * n) |-> number[8 * ((i - 1) \div 8) + 7 - ((i - 1) % 8)]]

\* Mutant: the field is taken from the front of its last byte.
AlignNothing(bits, len) == bits

\* BitHelper::align: the leading bits that are too many go, and the rest starts
\* with the highest byte.
Align(bits, len) ==
    IF len % 8 = 0
      THEN bits
      ELSE SwapBytes(Pad(SubSeq(SwapBytes(bits), 9 - (len % 8), Len(bits))))

\* BitHelper::revert: the way back, a shift to the right over all the bytes.
Revert(bits, len) ==
    IF len % 8 = 0
      THEN bits
      ELSE LET n == 8 - (len % 8)
           IN  SwapBytes(Zeros(n) \o SubSeq(SwapBytes(bits), 1, Len(bits) - n))

\* StaticFormat::convertField with a BinaryDataType and a
\* BigEndianDataRepresentation: convert, convertNumeric and concat.
ConvertField(number, len) ==
    SubSeq(SwapBytes(Align(Memory(number, (len + 7) \div 8), len)), 1, len)

\* StaticFormat::revertField: extract, revertNumeric and revert.
RevertField(bits, pos, len) ==
    LET lined == Revert(SwapBytes(Pad(SubSeq(bits, pos + 1, pos + len))), len)
    IN  [k \in Ranks |-> IF k < Len(lined) THEN lined[8 * (k \div 8) + 8 - (k % 8)]
                                           ELSE 0]

\* Format::calculateParity
CalculateParity(bits, type, positions) ==
    LET ones == Quantify(positions, LAMBDA p : bits[p + 1] = 1)
    IN  IF type = "even" THEN ones % 2 ELSE (ones + 1) % 2

-----------------------------------------------------------------------------
(* The layouts: the length in bits, the fixed bits before the fields, the  *)
(* fields in the order of the data (first bit, width, and the width of the *)
(* C++ type its setter takes), the parity bits in the order in which       *)
(* getLinearData writes them, and the bytes the data takes.                *)

Parity(at, type, over) == [at |-> at, type |-> type, over |-> over]

\* Mutant: the range of the right parity starts one bit late.
WiegandLate(len, left, right) ==
    << Parity(0, "even", 1..left),
       Parity(len - 1, "odd", (len - right)..(len - 2)) >>

\* WiegandFormat::getLeftParity and getRightParity.
WiegandParities(len, left, right) ==
    << Parity(0, "even", 1..left),
       Parity(len - 1, "odd", (len - right - 1)..(len - 2)) >>

\* HIDHoneywell40BitFormat::getRightParity
Columns(i) == { i, 8 + i, 16 + i, 24 + i }

Wiegand26 ==
    [len |-> 26, head |-> <<0>>, fields |-> << <<1, 8, 8>>, <<9, 16, 40>> >>,
     parities |-> WiegandParities(26, 12, 12)]

Wiegand34 ==
    [len |-> 34, head |-> <<0>>, fields |-> << <<1, 32, 40>> >>,
     parities |-> WiegandParities(34, 16, 16)]

Wiegand34WithFacility ==
    [Wiegand34 EXCEPT !.fields = << <<1, 16, 16>>, <<17, 16, 40>> >>]

Wiegand35 ==
    [len |-> 35, head |-> <<0, 0>>, fields |-> << <<2, 12, 16>>, <<14, 20, 40>> >>,
     parities |-> << Parity(1, "even", { p \in 2..33 : p % 3 # 1 }),
                     Parity(34, "odd", { p \in 1..32 : p % 3 # 0 }),
                     Parity(0, "odd", 1..34) >>]

Wiegand37 ==
    [len |-> 37, head |-> <<0>>, fields |-> << <<1, 35, 40>> >>,
     parities |-> WiegandParities(37, 18, 18)]

Wiegand37WithFacility ==
    [Wiegand37 EXCEPT !.fields = << <<1, 16, 16>>, <<17, 19, 40>> >>]

Wiegand37WithFacilityRightParity2 ==
    [len |-> 37, head |-> <<0>>, fields |-> << <<1, 16, 16>>, <<17, 18, 40>> >>,
     parities |-> << Parity(0, "odd", 1..16),
                     Parity(35, "even", 17..34),
                     Parity(36, "odd", 0..35) >>]

HIDHoneywell40Bit ==
    [len |-> 40, head |-> <<1, 1, 1, 1>>, fields |-> << <<4, 12, 16>>, <<16, 16, 40>> >>,
     parities |-> [i \in 1..8 |-> Parity(31 + i, "even", Columns(i - 1))]]

Getronik40Bit ==
    [len |-> 40, head |-> OfByte(46), fields |-> << <<8, 16, 40>>, <<24, 14, 16>> >>,
     parities |-> <<>>]

BariumFerritePCSC ==
    [len |-> 40, head |-> <<1, 1, 1, 1>>, fields |-> << <<4, 12, 16>>, <<16, 16, 40>> >>,
     parities |-> <<>>]

Layout ==
    [w26 |-> Wiegand26, w34 |-> Wiegand34, w34f |-> Wiegand34WithFacility,
     w35 |-> Wiegand35, w37 |-> Wiegand37, w37f |-> Wiegand37WithFacility,
     w37p2 |-> Wiegand37WithFacilityRightParity2, honeywell |-> HIDHoneywell40Bit,
     getronik |-> Getronik40Bit, barium |-> BariumFerritePCSC]

\* The formats that derive from WiegandFormat.
Wiegands == {"w26", "w34", "w34f", "w37", "w37f"}

\* The formats that start with a fixed value.
FortyBits == {"honeywell", "getronik", "barium"}

-----------------------------------------------------------------------------
(* Writing.                                                                *)

\* The fixed bits and the fields, and zeros where the parity bits go.
Skeleton(f, values) ==
    LET layout == Layout[f]
        body == FlattenSeq([i \in DOMAIN layout.fields |->
                                ConvertField(values[i], layout.fields[i][2])])
        bits == layout.head \o body
    IN  bits \o Zeros(layout.len - Len(bits))

\* BitsetStream::writeAt with one bit.
WriteAt(bits, pos, bit) == [bits EXCEPT ![pos + 1] = bit]

\* Getronik40BitFormat::getRightParity: a whole byte, the parity of the first
\* 38 bits and the last byte, as (byte << 7) >> 7 is computed in an int.
GetronikParity(bits) ==
    LET last == SubSeq(bits, 33, 40)
    IN  [last EXCEPT ![8] = (@ + CalculateParity(bits, "even", 0..37)) % 2]

\* BariumFerritePCSCFormat::calcChecksum: the exclusive or of the four bytes, and
\* one more (in an unsigned char) when its low half is all ones.
CalcChecksum(bits) ==
    LET xor == Number([i \in 1..8 |-> CalculateParity(bits, "even", Columns(i - 1))])
    IN  OfByte(IF xor % 16 = 15 THEN (xor + 1) % 256 ELSE xor)

GetronikLinearData(bits) ==
    LET fixed == WriteAt(bits, 39, 1)
    IN  WriteAt(fixed, 38, GetronikParity(fixed)[8])

\* The parities one after the other: each one sees those written before it.
ParityLinearData(bits, parities) ==
    FoldLeft(LAMBDA b, p : WriteAt(b, p.at, CalculateParity(b, p.type, p.over)),
             bits, parities)

\* getLinearData.  The bits that follow the format in the last byte are zero.
LinearData(f, values) ==
    LET bits == Skeleton(f, values)
    IN  CASE f = "getronik" -> GetronikLinearData(bits)
          [] f = "barium" -> SubSeq(bits, 1, 32) \o CalcChecksum(bits)
          [] OTHER -> Pad(ParityLinearData(bits, Layout[f].parities))

-----------------------------------------------------------------------------
(* Reading.                                                                *)

\* The fields that are in the data.
FieldsOf(f, bits) ==
    [i \in DOMAIN Layout[f].fields |->
        RevertField(bits, Layout[f].fields[i][1], Layout[f].fields[i][2])]

\* The fixed bits that the formats of 40 bits look at before they set a field.
FixedBits(f, bits) ==
    /\ IsPrefix(Layout[f].head, bits)
    /\ f = "getronik" => bits[40] = 1

\* Getronik compares the whole last byte with what getRightParity returns.
GetronikAccepts(bits) == SubSeq(bits, 33, 40) = GetronikParity(bits)

\* The parities, looked at after the fields are set.  The Wiegand formats compute
\* them again from the fields they have just set, the others from the data.
Parities(f, bits) ==
    LET checked == IF f \in Wiegands THEN Skeleton(f, FieldsOf(f, bits)) ELSE bits
    IN  CASE f = "getronik" -> GetronikAccepts(bits)
          [] f = "barium" -> SubSeq(bits, 33, 40) = CalcChecksum(bits)
          [] OTHER -> \A i \in DOMAIN Layout[f].parities :
                          LET p == Layout[f].parities[i]
                          IN  bits[p.at + 1] = CalculateParity(checked, p.type, p.over)

\* The result of setLinearData on an object with the fields old.  Only the formats
\* that derive from WiegandFormat look at the length first; Wiegand 35 and 37 with
\* two right parities set the fields one by one until the data ends; the formats
\* of 40 bits take no data at all for success.
SetFrom(f, bits, old) ==
    LET short == Len(bits) < Layout[f].len
        Fits(i) == Layout[f].fields[i][1] + Layout[f].fields[i][2] <= Len(bits)
    IN  CASE short /\ f \in {"w35", "w37p2"} ->
               [got |-> [i \in DOMAIN old |-> IF Fits(i) THEN FieldsOf(f, bits)[i] ELSE old[i]],
                error |-> TRUE]
          [] short /\ f \in Wiegands -> [got |-> old, error |-> TRUE]
          [] short /\ f \in FortyBits -> [got |-> old, error |-> bits # <<>>]
          [] ~short /\ f \in FortyBits /\ ~FixedBits(f, bits) -> [got |-> old, error |-> TRUE]
          [] OTHER -> [got |-> FieldsOf(f, bits), error |-> ~Parities(f, bits)]

-----------------------------------------------------------------------------

\* The values given to a field of a width, cut to the type of the setter: none,
\* all, every other bit, the lowest, the highest of the field, the first above
\* it, and the lowest of the second byte.
Patterns(width, ctype) ==
    { [k \in Ranks |-> IF k < ctype /\ k \in ones THEN 1 ELSE 0] :
        ones \in { {}, Ranks, { k \in Ranks : k % 2 = 0 }, {0}, {width - 1},
                   {width}, {8} } }

Init ==
    /\ fmt \in Formats
    /\ stage = "new"
    /\ fields = [i \in DOMAIN Layout[fmt].fields |-> Zero]
    /\ data = <<>>
    /\ damage = "none"
    /\ got = [i \in DOMAIN Layout[fmt].fields |-> Zero]
    /\ error = FALSE

\* setUid, setFacilityCode, setCompanyCode, setField
SetFields ==
    LET Values(i) == Patterns(Layout[fmt].fields[i][2], Layout[fmt].fields[i][3])
    IN  /\ stage = "new"
        /\ fields' \in { v \in [DOMAIN fields -> UNION { Values(i) : i \in DOMAIN fields }] :
                            \A i \in DOMAIN fields : v[i] \in Values(i) }
        /\ stage' = "set"
        /\ UNCHANGED <<fmt, data, damage, got, error>>

GetLinearData ==
    /\ stage = "set"
    /\ data' = LinearData(fmt, fields)
    /\ stage' = "written"
    /\ UNCHANGED <<fmt, fields, damage, got, error>>

Arrive ==
    /\ stage = "written"
    /\ stage' = "sent"
    /\ UNCHANGED <<fmt, fields, data, damage, got, error>>

\* One bit is wrong, the ones after the format in its last byte included.
FlipBit ==
    /\ stage = "written"
    /\ \E i \in DOMAIN data : data' = [data EXCEPT ![i] = 1 - @]
    /\ damage' = "flip"
    /\ stage' = "sent"
    /\ UNCHANGED <<fmt, fields, got, error>>

\* The last byte, or all of them, are missing.
Shorten ==
    /\ stage = "written"
    /\ \E n \in {0, Len(data) - 8} : data' = SubSeq(data, 1, n)
    /\ damage' = "short"
    /\ stage' = "sent"
    /\ UNCHANGED <<fmt, fields, got, error>>

SetLinearData ==
    LET result == SetFrom(fmt, data, got)
    IN  /\ stage = "sent"
        /\ got' = result.got
        /\ error' = result.error
        /\ stage' = "read"
        /\ UNCHANGED <<fmt, fields, data, damage>>

Next ==
    \/ SetFields
    \/ GetLinearData
    \/ Arrive
    \/ FlipBit
    \/ Shorten
    \/ SetLinearData

Spec == Init /\ [][Next]_vars

-----------------------------------------------------------------------------

\* What a badge of this format can carry of the fields: their low bits.
Carried ==
    [i \in DOMAIN fields |->
        [k \in Ranks |-> IF k < Layout[fmt].fields[i][2] THEN fields[i][k] ELSE 0]]

\* Data that arrives as getLinearData wrote it is accepted by setLinearData and
\* gives the low bits of every field back: the byte order, the shifts of fields
\* whose width is no multiple of eight, the order in which overlapping parities
\* are written and the ranges over which they are checked all agree.  Getronik is
\* held to it only when the parity of its first 38 bits is even: setLinearData
\* compares a parity with the whole last byte and refuses the others.
RoundTrip ==
    (stage = "read" /\ damage = "none") =>
        \/ ~error /\ got = Carried
        \/ /\ fmt = "getronik" /\ error
           /\ CalculateParity(data, "even", 0..37) = 1

\* No format but Getronik takes data with one wrong bit, or without its last byte,
\* for another badge: it throws or reads the fields that were written (a wrong bit
\* after the end of the format).  When no data arrives at all the formats of 40
\* bits return without an error, with the fields they had.
DamageDetected ==
    (stage = "read" /\ fmt # "getronik" /\ ~error) => (data = <<>> \/ got = Carried)
=============================================================================
