--------------------------- MODULE MCCaptureSetup ---------------------------
(* Small instances of CaptureSetup: cameras whose formats repeat a         *)
(* resolution, share a height, share a width, or are not listed.           *)
EXTENDS CaptureSetup

Format(w, h, listed) == [res |-> [w |-> w, h |-> h], listed |-> listed]

VGA == Format(640, 480, TRUE)
SD  == Format(720, 480, TRUE)
HD  == Format(1280, 720, TRUE)
MJPG == Format(1920, 1080, FALSE)

MCCameras == { <<>>, <<MJPG>>, <<VGA, HD>>, <<MJPG, VGA, VGA, HD, VGA>>,
               <<HD, VGA, SD>>, <<SD, MJPG, SD, VGA, HD>> }
=============================================================================
