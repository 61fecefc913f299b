----------------------------- MODULE H264Parser -----------------------------
(***************************************************************************)
(* The functions of jrtp/Is_H264KeyFrame.cpp side by side: the sender      *)
(* gives GetNalSize a picture (NalUnits), the receiver gives               *)
(* H264_Decode_SPS the parameter set it found in one (SpsReader).  They    *)
(* share no state.                                                         *)
(***************************************************************************)
EXTENDS NalUnits

CONSTANT ParameterSets

VARIABLES sps, data, shift, at, left, cursor, got

Sps == INSTANCE SpsReader

(* The parameter sets that the reader follows are in the syntax of H.264.  *)
ASSUME ParameterSetsAssumption ==
  \A ps \in ParameterSets :
    /\ ps.high \in BOOLEAN /\ ps.cut \in Nat
    /\ Sps!Followed(ps) => Sps!InSyntax(ps)

spsVars    == <<sps, data, shift, at, left, cursor, got>>
parserVars == <<vars, spsVars>>

NoSet == [high |-> FALSE, fields |-> <<>>, cut |-> 0]

\* One of the two calls is made.
ParserInit ==
  \/ Init /\ Sps!Start(NoSet) /\ shift = "old"
  \/ src = <<>> /\ Start /\ Sps!Init

ParserNext ==
  \/ SkipByte /\ UNCHANGED spsVars
  \/ HeadFound /\ UNCHANGED spsVars
  \/ Measure /\ UNCHANGED spsVars
  \/ AddUnit /\ UNCHANGED spsVars
  \/ sps # NoSet /\ Sps!ReadField /\ UNCHANGED vars
  \/ sps # NoSet /\ Sps!NextField /\ UNCHANGED vars

ParserSpec == ParserInit /\ [][ParserNext]_parserVars

(* The size that H264_Decode_SPS reads is the one that was written.        *)
SizeRead == sps # NoSet => Sps!SizeRead

(* From a parameter set whose end is missing it reads no other size.       *)
SizeNotInvented == sps # NoSet => Sps!SizeNotInvented
=============================================================================
