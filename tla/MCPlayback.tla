---------------------------- MODULE MCPlayback ----------------------------
(* A small instance of Playback: any packet of three pictures of a sender  *)
(* with packets of five bytes, in any order and any number of times, and   *)
(* packets of other senders, some of which end within their headers; the   *)
(* receiver is started twice.                                              *)
EXTENDS Playback

MCPictures == { <<[type |-> "slice", len |-> 8]>> }

Single(pic, nal, type, len, marker) ==
  Packet("single", pic, nal, type, 1, len, FALSE, FALSE, marker)
FU(pic, nal, type, first, last, start, end, marker) ==
  Packet("fu", pic, nal, type, first, last, start, end, marker)

MCInputs ==
  { Single(1, 1, "SPS", 2, FALSE), Single(1, 2, "IDR", 3, TRUE),
    FU(2, 1, "slice", 1, 4, TRUE, FALSE, FALSE), FU(2, 1, "slice", 5, 7, FALSE, FALSE, FALSE),
    FU(2, 1, "slice", 8, 8, FALSE, TRUE, TRUE),
    FU(3, 1, "slice", 5, 5, FALSE, TRUE, FALSE), FU(3, 2, "slice", 1, 2, TRUE, TRUE, FALSE),
    FU(5, 1, "slice", 2, 1, TRUE, FALSE, FALSE), FU(5, 1, "slice", 2, 0, FALSE, TRUE, FALSE),
    Stap(Single(6, 1, "slice", 1, FALSE), Single(6, 2, "slice", 0, FALSE), FALSE, FALSE),
    Stap(Single(6, 1, "slice", 0, FALSE), Single(6, 2, "SPS", 2, FALSE), FALSE, FALSE),
    Stap(Single(4, 1, "slice", 1, FALSE), Single(4, 2, "SPS", 2, FALSE), FALSE, FALSE),
    Stap(Single(4, 1, "slice", 1, FALSE), Single(4, 2, "SPS", 2, FALSE), TRUE, TRUE),
    EmptyPayload(TRUE), EmptyPayload(FALSE), Unknown(TRUE), Unknown(FALSE) }
=============================================================================
