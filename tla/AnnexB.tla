-------------------------------- MODULE AnnexB --------------------------------
(***************************************************************************)
(* The two framings of an H.264 access unit and the conversion between     *)
(* them (internal/h264/avcc_to_annexb.go), with the framing an encoder     *)
(* writes and the reading of a decoder as references.                      *)
(*                                                                         *)
(* A byte has Base values (256).  A result that may fail is a set of at    *)
(* most one value.                                                         *)
(***************************************************************************)
EXTENDS Naturals, Sequences, SequencesExt

CONSTANT Base

ASSUME BaseAssumption == Base \in Nat /\ Base > 1

Bytes == 0 .. Base - 1

Slice(data, first, length) == SubSeq(data, first, first + length - 1)

-----------------------------------------------------------------------------
(* References: H.264's framings.                                           *)

\* No NALU starts or ends with zero, or holds two zeros before a byte below 3
\* (emulation prevention puts a 3 there), and its length fits in four bytes.
Sound(nalu) ==
    /\ nalu \in Seq(Bytes)
    /\ Len(nalu) \in 1 .. Base * Base * Base * Base - 1
    /\ nalu[1] # 0 /\ Last(nalu) # 0
    /\ \A i \in 1 .. Len(nalu) - 2 : nalu[i] = 0 /\ nalu[i + 1] = 0 => nalu[i + 2] > 2

BigEndian(n) ==
    LET upper == n \div Base
        high  == upper \div Base
    IN  << (high \div Base) % Base, high % Base, upper % Base, n % Base >>

LongCode == <<0, 0, 0, 1>>

ShortCode == <<0, 0, 1>>

\* An access unit: each NALU behind its mark.
Framed(nalus, marks) == FlattenSeq([k \in DOMAIN nalus |-> marks[k] \o nalus[k]])

LengthFramed(nalus) == Framed(nalus, [k \in DOMAIN nalus |-> BigEndian(Len(nalus[k]))])

CodeFramed(nalus, code) == Framed(nalus, [k \in DOMAIN nalus |-> code])

Marks(data) == {i \in 1 .. Len(data) - 2 : Slice(data, i, 3) = ShortCode}

\* What a decoder reads: the bytes between one 00 00 01 and the next, or the end,
\* without the zeros before it.
ReadAs(data, nalus) ==
    \E at \in [DOMAIN nalus -> Marks(data)] :
        LET Ending(k) == IF k = Len(nalus) THEN Len(data) ELSE at[k + 1] - 1
            End(k)    == at[k] + 2 + Len(nalus[k])
        IN  /\ \A k, l \in DOMAIN nalus : k < l => at[k] < at[l]
            /\ \A i \in Marks(data) : \E k \in DOMAIN nalus : i = at[k]
            /\ \A k \in DOMAIN nalus :
                  /\ End(k) <= Ending(k)
                  /\ nalus[k] = Slice(data, at[k] + 3, Len(nalus[k]))
                  /\ data[End(k)] # 0
                  /\ \A i \in End(k) + 1 .. Ending(k) : data[i] = 0

-----------------------------------------------------------------------------
(* The conversion.                                                         *)

Value(mark) == ((mark[1] * Base + mark[2]) * Base + mark[3]) * Base + mark[4]

\* The NALUs from each position on, reframed; nothing if a length field is cut short, is
\* zero, or exceeds the buffer.
Reframed(avcc) ==
    LET end == Len(avcc) + 1
        rest[i \in 1 .. end] ==
            IF i = end THEN {<<>>}
            ELSE IF i + 4 > end THEN {}
            ELSE LET length == Value(Slice(avcc, i, 4))
                     next   == i + 4 + length
                 IN  IF length < 1 \/ next > end THEN {}
                     ELSE {LongCode \o Slice(avcc, i + 4, length) \o others :
                              others \in rest[next]}
    IN  rest

AVCCToAnnexB(avcc) == IF avcc = <<>> THEN {} ELSE Reframed(avcc)[1]

isAnnexB_LongOnly(data) == IsPrefix(LongCode, data)

isAnnexB(data) == IsPrefix(LongCode, data) \/ IsPrefix(ShortCode, data)

ToAnnexB(data) ==
    IF data = <<>> THEN {} ELSE IF isAnnexB(data) THEN {data} ELSE AVCCToAnnexB(data)
===============================================================================
