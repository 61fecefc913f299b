----------------------------- MODULE SpsReader -----------------------------
(***************************************************************************)
(* H264_Decode_SPS (jrtp/Is_H264KeyFrame.cpp): the width and the height of *)
(* the video are read from a sequence parameter set, one Exp-Golomb code   *)
(* or flag after the other, up to the end of the buffer, which may come    *)
(* too early.  What was written is a list of fields in the order of the    *)
(* H.264 standard; the reader sees its bits only.                          *)
(***************************************************************************)
EXTENDS Integers, Sequences, FiniteSets, SequencesExt

(* The parameter sets that may come: [high, fields, cut].  "high" says     *)
(* that the profile is 100, 110, 118 or 122, with the fields in High.      *)
CONSTANT ParameterSets

(* A field: its name, how the standard writes it, its value.  "ue" and     *)
(* "se" are Exp-Golomb codes, "u1" is a bit.                               *)
Field(name, kind, value) == [name |-> name, kind |-> kind, value |-> value]

\* The digits of an Exp-Golomb code: k zeros and the k + 1 bits of n + 1.
UeCode(n) ==
  LET k == CHOOSE k \in 0..n : 2^k <= n + 1 /\ n + 1 < 2^(k + 1)
  IN  [j \in 1..(2 * k + 1) |-> IF j <= k THEN 0 ELSE ((n + 1) \div 2^(2 * k + 1 - j)) % 2]

Written(f) ==
  CASE f.kind = "u1" -> <<f.value>>
    [] f.kind = "ue" -> UeCode(f.value)
    [] f.kind = "se" -> UeCode(IF f.value > 0 THEN 2 * f.value - 1 ELSE -2 * f.value)

Codes(ps) == [j \in DOMAIN ps.fields |-> Written(ps.fields[j])]

\* The bits of a parameter set behind its first three bytes, with the stop
\* bit and the zeros that fill the last byte.
Whole(ps) ==
  LET bits  == Append(FlattenSeq(Codes(ps)), 1)
      bytes == (Len(bits) + 7) \div 8
  IN  [j \in 1..(8 * bytes) |-> IF j <= Len(bits) THEN bits[j] ELSE 0]

\* What is left when "cut" bytes are lost.
Bits(ps) == SubSeq(Whole(ps), 1, Len(Whole(ps)) - 8 * ps.cut)

VARIABLES
  sps,      \* the parameter set that is read
  data,     \* its bits
  shift,    \* whether "(bit[n++] & b) >> (7 - n)" shifts by the old n
  at,       \* the place in Order of the field that is read
  left,     \* how often it is still read
  cursor,   \* pFrameData, FromByteBits and *pSize
  got       \* the value last read of each field

vars == <<sps, data, shift, at, left, cursor, got>>

-----------------------------------------------------------------------------
Cursor(byte, bit, size) == [byte |-> byte, bit |-> bit, size |-> size]

Reading(value, c) == [value |-> value, cursor |-> c]

\* The cursor moved to bit n of the buffer; the cursor where a read reached
\* the end: pFrameData and *pSize have moved on, FromByteBits has not.
Total(c)     == 8 * (c.byte + c.size)
Position(c)  == 8 * c.byte + c.bit
Moved(c, n)  == Cursor(n \div 8, n % 8, c.byte + c.size - n \div 8)
\* Mutant: at the end of the buffer nothing is used up.
ExhaustedStays(c) == c

Exhausted(c) == Cursor(c.byte + c.size, c.bit, 0)

(* The value of a bit that is set.  The program changes n and reads it     *)
(* again in one expression: which comes first is the compiler's choice.    *)
SetBit(n) == IF shift = "old" THEN 1 ELSE IF n % 8 = 7 THEN 0 ELSE 2

Or(x, b) == IF b = 2 /\ (x \div 2) % 2 = 1 THEN x ELSE x + b

\* The zeros in front of the first bit that is set.
ZerosAt(c) ==
  LET n == Position(c)
  IN  CHOOSE k \in 0..(Total(c) - n) :
        /\ \A j \in 0..(k - 1) : data[n + j + 1] = 0
        /\ n + k = Total(c) \/ data[n + k + 1] = 1

\* The number in the k bits from position n on.
Info(n, k) ==
  LET info[j \in 0..k] ==
        IF j = 0 THEN 0
        ELSE Or(2 * info[j - 1], data[n + j] * SetBit(n + j - 1))
  IN  info[k]

\* The code_num of an Exp-Golomb code.  One that ends with the last bit of
\* the buffer, or behind it, is not read: the result is 0.
CodeNum(c) ==
  LET n == Position(c)
      k == ZerosAt(c)
  IN  IF n + 2 * k + 1 < Total(c)
      THEN Reading(2^k - 1 + Info(n + k + 1, k), Moved(c, n + 2 * k + 1))
      ELSE Reading(0, Exhausted(c))

\* Mutant: the number is not made smaller by one.
get_ue_golombPlus(c) ==
  {IF c.size <= 0 THEN Reading(0, c) ELSE [CodeNum(c) EXCEPT !.value = @ + 1]}

get_ue_golomb(c) == {IF c.size <= 0 THEN Reading(0, c) ELSE CodeNum(c)}

\* code_num / 2 + 0.5 is a division of integers first.  At the end of the
\* buffer the next byte in memory is read.
get_se_golomb(c) ==
  CASE c.size > 0 ->
         {[CodeNum(c) EXCEPT !.value = (IF @ % 2 = 1 THEN 1 ELSE -1) * (@ \div 2)]}
    [] c.size < 0 -> {Reading(0, c)}
    [] c.size = 0 -> {Reading(0, c), Reading(0, Cursor(c.byte + 1, c.bit, -1))}

get_bits1(c) ==
  LET n == Position(c)
      values == IF c.size > 0 THEN {data[n + 1] * SetBit(n)} ELSE {0, SetBit(n)}
  IN  CASE c.size < 0 -> {Reading(0, c)}
        [] c.size >= 0 /\ c.bit < 7 -> {Reading(v, Cursor(c.byte, c.bit + 1, c.size)) : v \in values}
        [] c.size >= 0 /\ c.bit = 7 ->
             {IF c.size > 1 THEN Reading(v, Moved(c, n + 1))
              ELSE Reading(0, Cursor(c.byte + 1, 7, c.size - 1)) : v \in values}

-----------------------------------------------------------------------------
(* The fields up to the size of the video, in the order in which           *)
(* H264_Decode_SPS reads them.  It reads on to the flags behind the size,  *)
(* but uses none of them.                                                  *)
High == {"chroma_format_idc", "bit_depth_luma_minus8", "bit_depth_chroma_minus8",
         "qpprime_y_zero_transform_bypass_flag", "seq_scaling_matrix_present_flag"}

Cyclic == {"delta_pic_order_always_zero_flag", "offset_for_non_ref_pic",
           "offset_for_top_to_bottom_field", "num_ref_frames_in_pic_order_cnt_cycle"}

Order == <<
  "seq_parameter_set_id", "chroma_format_idc", "residual_colour_transform_flag",
  "bit_depth_luma_minus8", "bit_depth_chroma_minus8", "qpprime_y_zero_transform_bypass_flag",
  "seq_scaling_matrix_present_flag", "seq_scaling_list_present_flag",
  "log2_max_frame_num_minus4", "pic_order_cnt_type", "log2_max_pic_order_cnt_lsb_minus4",
  "delta_pic_order_always_zero_flag", "offset_for_non_ref_pic",
  "offset_for_top_to_bottom_field", "num_ref_frames_in_pic_order_cnt_cycle",
  "offset_for_ref_frame", "num_ref_frames", "gaps_in_frame_num_value_allowed_flag",
  "pic_width_in_mbs_minus1", "pic_height_in_map_units_minus1">>

(* How often a field is read, given those before it.                       *)
Once(condition) == IF condition THEN 1 ELSE 0

Times(name) ==
  CASE name \in High -> Once(sps.high)
    [] name = "residual_colour_transform_flag" -> Once(sps.high /\ got["chroma_format_idc"] = 3)
    [] name = "seq_scaling_list_present_flag" ->
         8 * Once(sps.high /\ got["seq_scaling_matrix_present_flag"] # 0)
    [] name = "log2_max_pic_order_cnt_lsb_minus4" -> Once(got["pic_order_cnt_type"] = 0)
    [] name \in Cyclic -> Once(got["pic_order_cnt_type"] = 1)
    [] name = "offset_for_ref_frame" ->
         IF got["pic_order_cnt_type"] = 1 THEN got["num_ref_frames_in_pic_order_cnt_cycle"] ELSE 0
    [] OTHER -> 1

(* Which function reads a field.  Scaling lists themselves are not read.   *)
Bits1  == {"residual_colour_transform_flag", "qpprime_y_zero_transform_bypass_flag",
           "seq_scaling_matrix_present_flag", "seq_scaling_list_present_flag",
           "gaps_in_frame_num_value_allowed_flag"}
Signed == {"offset_for_non_ref_pic", "offset_for_top_to_bottom_field", "offset_for_ref_frame"}

Readings(name) ==
  CASE name \in Bits1  -> get_bits1(cursor)
    [] name \in Signed -> get_se_golomb(cursor)
    [] OTHER -> get_ue_golomb(cursor)

-----------------------------------------------------------------------------
Start(ps) ==
  /\ sps = ps
  /\ data = Bits(ps)
  /\ shift \in {"old", "new"}
  /\ at = 1 /\ left = 1
  /\ cursor = Cursor(0, 0, Len(Bits(ps)) \div 8)
  /\ got = [name \in ToSet(Order) |-> 0]

Init == \E ps \in ParameterSets : Start(ps)

ReadField ==
  /\ left > 0
  /\ \E r \in Readings(Order[at]) :
       /\ cursor' = r.cursor
       /\ got' = [got EXCEPT ![Order[at]] = r.value]
  /\ left' = left - 1
  /\ UNCHANGED <<sps, data, shift, at>>

NextField ==
  /\ left = 0 /\ at < Len(Order)
  /\ at' = at + 1
  /\ left' = Times(Order[at + 1])
  /\ UNCHANGED <<sps, data, shift, cursor, got>>

Next == ReadField \/ NextField

Spec == Init /\ [][Next]_vars

-----------------------------------------------------------------------------
Done == at = Len(Order) /\ left = 0

Places(ps, name) == {j \in DOMAIN ps.fields : ps.fields[j].name = name}

HasField(ps, name, value) == \E j \in Places(ps, name) : ps.fields[j].value = value

(* Two zero bytes with a byte up to 3 behind them.  H.264 would write one  *)
(* more byte between them, and the reader does not take it out.            *)
Emulates(ps) ==
  \E b \in 0..(Len(Whole(ps)) \div 8 - 3) :
    \A j \in (8 * b + 1)..(8 * b + 22) : Whole(ps)[j] = 0

(* The parameter sets that the reader follows: no scaling lists, no        *)
(* delta_pic_order_always_zero_flag that is 0, which it reads as a code,   *)
(* and no byte that is not part of a field.                                *)
Followed(ps) ==
  /\ ~HasField(ps, "seq_scaling_matrix_present_flag", 1)
  /\ ~HasField(ps, "delta_pic_order_always_zero_flag", 0)
  /\ ~Emulates(ps)

(* The syntax of H.264 (7.3.2.1.1) up to the size of the video: which      *)
(* fields are written, how often, in which order and with which values.    *)
(* The int in which the program builds a code holds the numbers, and its   *)
(* array offset_for_ref_frame the offsets.                                 *)
Kind(name) ==
  CASE name \in Bits1 \cup {"delta_pic_order_always_zero_flag"} -> "u1"
    [] name \in Signed -> "se"
    [] OTHER -> "ue"

Values == [u1 |-> 0..1, ue |-> 0..(2 * (2^30 - 1)), se |-> -(2^30 - 1)..(2^30 - 1)]

Repeated(ps, name) ==
  CASE name \in High -> Once(ps.high)
    [] name = "residual_colour_transform_flag" -> Once(HasField(ps, "chroma_format_idc", 3))
    [] name = "seq_scaling_list_present_flag" ->
         8 * Once(HasField(ps, "seq_scaling_matrix_present_flag", 1))
    [] name = "log2_max_pic_order_cnt_lsb_minus4" -> Once(HasField(ps, "pic_order_cnt_type", 0))
    [] name \in Cyclic -> Once(HasField(ps, "pic_order_cnt_type", 1))
    [] name = "offset_for_ref_frame" ->
         LET cycle == Places(ps, "num_ref_frames_in_pic_order_cnt_cycle")
         IN  IF cycle = {} THEN 0 ELSE ps.fields[CHOOSE j \in cycle : TRUE].value
    [] OTHER -> 1

InSyntax(ps) ==
  /\ ps.fields \in Seq([name : STRING, kind : {"u1", "ue", "se"}, value : Int])
  /\ \A j \in DOMAIN ps.fields :
       LET f == ps.fields[j]
       IN  /\ f.value \in Values[f.kind]
           /\ f.name \in ToSet(Order) => f.kind = Kind(f.name)
           /\ f.name = "num_ref_frames_in_pic_order_cnt_cycle" => f.value <= 255
  /\ \A name \in ToSet(Order) : Cardinality(Places(ps, name)) = Repeated(ps, name)
  /\ \A j \in 2..Len(ps.fields), b \in DOMAIN Order :
       ps.fields[j].name = Order[b] => \E a \in 1..b : ps.fields[j - 1].name = Order[a]

SizeFields == {"pic_width_in_mbs_minus1", "pic_height_in_map_units_minus1"}

(* The size that is read is the one that was written, whatever optional    *)
(* fields come before it and wherever in a byte its codes begin and end.   *)
SizeRead ==
  Done /\ shift = "old" /\ Followed(sps) /\ sps.cut = 0 =>
    \A name \in SizeFields : HasField(sps, name, got[name])

(* From a parameter set whose end is missing no other size is read: a      *)
(* number is the one that was written or 0, and behind a missing width no  *)
(* height is found.                                                        *)
SizeNotInvented ==
  Done /\ shift = "old" /\ Followed(sps) =>
    /\ \A name \in SizeFields : HasField(sps, name, got[name]) \/ got[name] = 0
    /\ ~HasField(sps, "pic_width_in_mbs_minus1", got["pic_width_in_mbs_minus1"])
         => got["pic_height_in_map_units_minus1"] = 0
=============================================================================
