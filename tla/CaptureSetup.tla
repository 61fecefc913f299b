---------------------------- MODULE CaptureSetup ----------------------------
(***************************************************************************)
(* From the Init button to a running capture: InitCapture, the list of the *)
(* camera's resolutions, the user's choice, and the format the camera is   *)
(* started with (DShowCaptureDlg.cpp, src/video_capture.cpp).  The frames  *)
(* of the capture and the Push button are in CapturePipeline.              *)
(*                                                                         *)
(* Any step of InitCapture and of StartCapture may fail, and the dialog    *)
(* looks at neither result.  Where the code then uses a pointer that was   *)
(* never set, the program may crash.                                       *)
(***************************************************************************)
EXTENDS Naturals, Sequences, SequencesExt

CONSTANT Cameras    \* what GetStreamCaps gives: sequences of formats

(* A format has a resolution, and is of the kind GetVideoResolution lists  *)
(* (a video format with a VIDEOINFOHEADER) or not.                         *)
ASSUME CamerasAssumption ==
  \A cam \in Cameras :
    cam \in Seq([res : [w : Nat \ {0}, h : Nat \ {0}], listed : BOOLEAN])

VARIABLES
  formats,                \* the formats of the camera
  devices,                \* the lists of devices are filled
  m_bInit, m_bIsVideoOpen,
  capture,                \* what InitCapture made: "none" before the graph,
                          \* "partial" when a later step failed, or "built"
  m_arrCamResolutionArr,  \* the resolutions the dialog offers
  nSel,                   \* the selected one, 0 for none
  size,                   \* m_nWidth, m_nHeight
  format,                 \* the format the camera is set to, 0 for none
  m_tVidParam,            \* the size BufferCB converts with
  running,                \* the graph runs
  crashed

setup     == <<devices, m_bInit, capture, m_arrCamResolutionArr>>
started   == <<m_bIsVideoOpen, size, format, m_tVidParam, running>>
setupVars == <<formats, setup, nSel, started, crashed>>

Unset == [w |-> 0, h |-> 0]

-----------------------------------------------------------------------------
(* GetVideoResolution: a resolution is listed with its first format.       *)
\* Mutant: the number of the entry for that of the format.
OfferEntry(list, i) ==
  IF formats[i].listed /\ \A n \in 1..Len(list) : list[n].res # formats[i].res
  THEN Append(list, [res |-> formats[i].res, nResolutionIndex |-> Len(list) + 1])
  ELSE list

Offer(list, i) ==
  IF formats[i].listed /\ \A n \in 1..Len(list) : list[n].res # formats[i].res
  THEN Append(list, [res |-> formats[i].res, nResolutionIndex |-> i])
  ELSE list

GetVideoResolution ==
  LET offered[i \in 0..Len(formats)] ==
        IF i = 0 THEN <<>> ELSE Offer(offered[i - 1], i)
  IN  offered[Len(formats)]

(* The search of the Capture handler.  Its condition assigns the width     *)
(* where it means to compare it: the first entry of the height is taken.   *)
FindResolution(sel) ==
  LET Found(entry) == entry.res.h = sel.h
      n == SelectInSeq(m_arrCamResolutionArr, Found)
  IN  IF n = 0 THEN 1 ELSE m_arrCamResolutionArr[n].nResolutionIndex

-----------------------------------------------------------------------------
SetupInit ==
  /\ formats \in Cameras
  /\ devices = FALSE
  /\ m_bInit = FALSE /\ m_bIsVideoOpen = FALSE
  /\ capture = "none"
  /\ m_arrCamResolutionArr = <<>> /\ nSel = 0
  /\ size = Unset /\ format = 0 /\ m_tVidParam = Unset
  /\ running = FALSE
  /\ crashed = FALSE

(* The button that lists the devices. *)
GetDevices ==
  /\ ~crashed
  /\ devices' \in {devices, TRUE}
  /\ UNCHANGED <<formats, m_bInit, capture, m_arrCamResolutionArr, nSel, started, crashed>>

(* InitCapture makes all of the graph, or returns early.                   *)
InitCapture == capture' \in {"none", "partial", "built"}

(* The Init button: whatever InitCapture returned, the resolutions are     *)
(* listed and m_bInit is set.  GetVideoResolution tests m_pCapture, which  *)
(* nobody has set when the graph was not made.                             *)
ButtonInit ==
  /\ ~crashed
  /\ ~m_bInit /\ devices
  /\ InitCapture
  /\ m_arrCamResolutionArr' = IF capture' = "none" THEN <<>> ELSE GetVideoResolution
  /\ nSel' = IF m_arrCamResolutionArr' = <<>> THEN 0 ELSE 1
  /\ m_bInit' = TRUE
  /\ UNCHANGED <<formats, devices, started, crashed>>

(* The same when InitCapture failed and that pointer, or one that          *)
(* FindInterface did not set, is used.                                     *)
InitCrashes ==
  /\ ~crashed
  /\ ~m_bInit /\ devices
  /\ crashed' = TRUE
  /\ UNCHANGED <<formats, setup, nSel, started>>

Select(n) ==
  /\ ~crashed
  /\ nSel' = n
  /\ UNCHANGED <<formats, setup, started, crashed>>

-----------------------------------------------------------------------------
(* The Capture button, pressed to start: StartCapture sets the camera's    *)
(* format, then the sizes of BufferCB unless SetMediaType fails, and runs  *)
(* the graph unless a later step fails.  SetFormat is taken to succeed: a  *)
(* comment asks for a camera that has YUY2 or RGB24.                       *)
StartCapture ==
  /\ ~crashed
  /\ m_bInit /\ ~m_bIsVideoOpen
  /\ nSel > 0
  /\ m_bIsVideoOpen' = TRUE
  /\ size' = m_arrCamResolutionArr[nSel].res
  /\ format' = FindResolution(size')
  /\ \/ UNCHANGED <<m_tVidParam, running>>
     \/ m_tVidParam' = size' /\ running' \in BOOLEAN
  /\ UNCHANGED <<formats, setup, nSel, crashed>>

(* StartCapture on a graph that lacks a filter. *)
StartCrashes ==
  /\ ~crashed
  /\ m_bInit /\ ~m_bIsVideoOpen
  /\ nSel > 0
  /\ capture = "partial"
  /\ crashed' = TRUE
  /\ UNCHANGED <<formats, setup, nSel, started>>

(* The Capture button, pressed to stop. *)
StopCapture ==
  /\ ~crashed
  /\ m_bInit /\ m_bIsVideoOpen
  /\ running' = FALSE
  /\ m_bIsVideoOpen' = FALSE
  /\ UNCHANGED <<formats, setup, nSel, size, format, m_tVidParam, crashed>>

SetupNext ==
  \/ GetDevices \/ ButtonInit \/ InitCrashes
  \/ \E n \in 1..Len(m_arrCamResolutionArr) : Select(n)
  \/ StartCapture \/ StartCrashes \/ StopCapture

SetupSpec == SetupInit /\ [][SetupNext]_setupVars

-----------------------------------------------------------------------------
Resolution == [w : Nat, h : Nat]

SetupTypeOK ==
  /\ formats \in Cameras
  /\ {devices, m_bInit, m_bIsVideoOpen, running, crashed} \subseteq BOOLEAN
  /\ capture \in {"none", "partial", "built"}
  /\ m_arrCamResolutionArr \in Seq([res : Resolution, nResolutionIndex : 1..Len(formats)])
  /\ nSel \in 0..Len(m_arrCamResolutionArr)
  /\ size \in Resolution /\ m_tVidParam \in Resolution
  /\ format \in 0..Len(formats)

(* The results of InitCapture and StartCapture are not looked at, yet no   *)
(* capture is opened when InitCapture made no graph: the list is empty and *)
(* without a selection nothing starts.                                     *)
(* What runs is what was selected, as far as the search sees it: BufferCB  *)
(* and the encoder get the selected size, the camera a format of that      *)
(* height, and of that size too when the camera has no other size of the   *)
(* same height.  Formats that repeat a resolution, that are not listed,    *)
(* and captures that failed before do not disturb it.                      *)
SameHeight(i) == formats[i].listed /\ formats[i].res.h = size.h

StartedAsSelected ==
  /\ m_bIsVideoOpen => capture # "none"
  /\ running =>
       /\ m_tVidParam = size
       /\ SameHeight(format)
       /\ (\A i \in 1..Len(formats) : SameHeight(i) => formats[i].res = size)
            => formats[format].res = size

(* What the comment in StartCapture says ("nResolutionIndex is the number  *)
(* of the selected resolution"): the camera runs with the selected size.   *)
RunsSelected == running => formats[format].res = size
=============================================================================
