---------------------------- MODULE MCH264Parser ----------------------------
(* A small instance of H264Parser: every picture of at most eight bytes    *)
(* 0, 1 and 2, and parameter sets with every combination of the optional   *)
(* fields, whole or with bytes of their end missing.                       *)
EXTENDS H264Parser, Integers, Sequences

MCPictures == UNION {[1..n -> 0..2] : n \in 0..8}

F(name, kind, value) == <<[name |-> name, kind |-> kind, value |-> value]>>

\* What H.264 writes for a profile below 100 and for one from 100 on.
HighFields(chroma, scaling) ==
  F("chroma_format_idc", "ue", chroma)
  \o (IF chroma = 3 THEN F("residual_colour_transform_flag", "u1", 1) ELSE <<>>)
  \o F("bit_depth_luma_minus8", "ue", 0) \o F("bit_depth_chroma_minus8", "ue", 2)
  \o F("qpprime_y_zero_transform_bypass_flag", "u1", 0)
  \o F("seq_scaling_matrix_present_flag", "u1", scaling)
  \o IF scaling = 0 THEN <<>>
     ELSE [j \in 1..8 |-> F("seq_scaling_list_present_flag", "u1", 0)[1]]

PictureOrder(type, x) ==
  F("pic_order_cnt_type", "ue", type)
  \o CASE type = 0 -> F("log2_max_pic_order_cnt_lsb_minus4", "ue", 2 * x)
       [] type = 2 -> <<>>
       [] type = 1 -> F("delta_pic_order_always_zero_flag", "u1", x)
                      \o F("offset_for_non_ref_pic", "se", -2)
                      \o F("offset_for_top_to_bottom_field", "se", 1)
                      \o F("num_ref_frames_in_pic_order_cnt_cycle", "ue", 2)
                      \o F("offset_for_ref_frame", "se", 0) \o F("offset_for_ref_frame", "se", 3)

Size(frames, gaps, width, height) ==
  F("num_ref_frames", "ue", frames) \o F("gaps_in_frame_num_value_allowed_flag", "u1", gaps)
  \o F("pic_width_in_mbs_minus1", "ue", width) \o F("pic_height_in_map_units_minus1", "ue", height)

Flags == F("frame_mbs_only_flag", "u1", 1) \o F("direct_8x8_inference_flag", "u1", 1)
         \o F("frame_cropping_flag", "u1", 0) \o F("vui_parameters_present_flag", "u1", 0)

MCParameterSets ==
  { [high |-> chroma # 0, cut |-> cut,
     fields |-> F("seq_parameter_set_id", "ue", 0)
                \o (IF chroma = 0 THEN <<>> ELSE HighFields(chroma, scaling))
                \o F("log2_max_frame_num_minus4", "ue", log2)
                \o PictureOrder(type, x) \o Size(log2 + 1, gaps, width, height) \o Flags] :
    cut \in 0..3, chroma \in {0, 1, 3}, scaling \in 0..1, log2 \in {0, 3},
    type \in 0..2, x \in 0..1, gaps \in 0..1, width \in {0, 6, 39}, height \in {1, 29} }
=============================================================================
