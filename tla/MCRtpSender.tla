---------------------------- MODULE MCRtpSender ----------------------------
(* Small instances of RtpSender: packets of at most five bytes, NAL units  *)
(* at and around the size of a packet and of one, two and three fragments. *)
EXTENDS RtpSender

NAL(type, len) == [type |-> type, len |-> len]

MCPictures == { <<NAL("slice", 5)>>, <<NAL("slice", 6)>>, <<NAL("slice", 8)>>,
                <<NAL("SPS", 1), NAL("IDR", 7)>>,
                <<NAL("SPS", 4), NAL("IDR", 11), NAL("slice", 2)>> }

=============================================================================
