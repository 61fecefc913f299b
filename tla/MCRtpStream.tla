---------------------------- MODULE MCRtpStream ----------------------------
(* Small instances of RtpStream: packets of at most five bytes; a picture  *)
(* with a parameter set in two packets and a picture of two fragments.     *)
EXTENDS RtpStream

NAL(type, len) == [type |-> type, len |-> len]

MCPictures == { <<NAL("SPS", 1), NAL("IDR", 2)>>, <<NAL("slice", 6)>> }
=============================================================================
