------------------------------ MODULE Playback ------------------------------
(***************************************************************************)
(* From the Pull button to the screen: StartRTPReceiver makes a session, a *)
(* decoder and a buffer, and a RecvDataThread (jrtp/rtp_receiver.cpp) that *)
(* takes each packet through DecodeFrames (RtpReceiver), Decode            *)
(* (codec/h264_codec.cpp) and DrawDirectDraw (src/DirectDraw.cpp),         *)
(* whatever each of them returned.                                         *)
(*                                                                         *)
(* Nothing ends that thread: a second press of the button changes its      *)
(* label, a third one replaces surface, decoder and buffer one by one      *)
(* under the running thread.  The model follows the thread until a second  *)
(* one is created: what two threads do to one session without a lock has   *)
(* no meaning.  What was made by press n is known by the number n.         *)
(***************************************************************************)
EXTENDS RtpReceiver

CONSTANT MaxPulls   \* bound on the number of calls of StartRTPReceiver

ASSUME MaxPullsAssumption == MaxPulls \in Nat

VARIABLES
  m_bIsPull,
  pulls,         \* the calls of StartRTPReceiver so far
  ui,            \* how far the present one is, or "idle"
  session,       \* m_RtpSess: "none", "failed" or "open"
  m_pDDraw, m_pDecoder, m_pYUVBuf,
  surfaces,      \* the CDirectDraws whose InitDirectDraw made lpDDSOffscreen
  blank,         \* and those for which it stayed NULL
  opened,        \* the decoders whose InitDecode succeeded
  failed,        \* and those whose InitDecode did not
  knows,         \* the decoders that have been given a parameter set
  yuv,           \* what each m_pYUVBuf holds: Noise, or a decoded picture
  threads,       \* the number of RecvDataThreads
  recv,          \* where the first is: "poll", "decode", "copy", "draw", "crashed"
  target,        \* dst_buf: the buffer that Decode was called with
  screen,        \* what the window shows
  decoded,       \* history: what the decoder put out last, or Noise
  missed         \* history: the last DrawDirectDraw did not reach the window

dialogVars  == <<m_bIsPull, pulls, ui, session>>
madeVars    == <<m_pDDraw, m_pDecoder, m_pYUVBuf, surfaces, blank,
                 opened, failed>>
threadVars  == <<knows, yuv, recv, target, screen, decoded, missed>>
playingVars == <<vars, dialogVars, madeVars, threads, threadVars>>

\* Decoded pictures are numbered 1 and 2 in turn, which tells the last one
\* from the one before; Noise is none: memory from malloc, a blank window.
Noise == 0
Later(picture) == IF picture = 1 THEN 2 ELSE 1

PlaybackInit ==
  /\ Init
  /\ m_bIsPull = FALSE /\ pulls = 0 /\ ui = "idle" /\ session = "none"
  /\ m_pDDraw = 0 /\ m_pDecoder = 0 /\ m_pYUVBuf = 0
  /\ surfaces = {} /\ blank = {} /\ opened = {} /\ failed = {} /\ knows = {}
  /\ yuv = [n \in 1..MaxPulls |-> Noise]
  /\ threads = 0 /\ recv = "poll" /\ target = 0
  /\ screen = Noise /\ decoded = Noise /\ missed = FALSE

-----------------------------------------------------------------------------
(* The dialog's thread.  InitDirectDraw makes the surface to draw on, or   *)
(* one of its steps fails.                                                 *)
InitDirectDraw(n) ==
  \/ surfaces' = surfaces \cup {n} /\ UNCHANGED blank
  \/ blank' = blank \cup {n} /\ UNCHANGED surfaces

(* The Pull button starts a receiver, whatever InitDirectDraw returned,    *)
ButtonPull ==
  /\ ui = "idle" /\ ~m_bIsPull /\ pulls < MaxPulls
  /\ pulls' = pulls + 1
  /\ m_pDDraw' = pulls + 1
  /\ InitDirectDraw(pulls + 1)
  /\ ui' = "session"
  /\ UNCHANGED <<vars, m_bIsPull, session, m_pDecoder, m_pYUVBuf, opened, failed, threads, threadVars>>

(* or, pressed again, changes its label. *)
ButtonStop ==
  /\ ui = "idle" /\ m_bIsPull
  /\ m_bIsPull' = FALSE
  /\ UNCHANGED <<vars, pulls, ui, session, madeVars, threads, threadVars>>

(* Create fails when the port is taken, and on a session that is open: its *)
(* result is only traced.                                                  *)
CreateSession ==
  /\ ui = "session"
  /\ session' \in (IF session = "open" THEN {"open"} ELSE {"open", "failed"})
  /\ ui' = "decoder"
  /\ UNCHANGED <<vars, m_bIsPull, pulls, madeVars, threads, threadVars>>

\* Mutant: the thread is created before the decoder is prepared.
NewDecoderRunning ==
  /\ ui = "decoder"
  /\ m_pDecoder' = pulls
  /\ threads' = threads + 1
  /\ ui' = "init"
  /\ UNCHANGED <<vars, m_bIsPull, pulls, session, m_pDDraw, m_pYUVBuf, surfaces, blank,
                 opened, failed, threadVars>>

NewDecoder ==
  /\ ui = "decoder"
  /\ m_pDecoder' = pulls
  /\ ui' = "init"
  /\ UNCHANGED <<vars, m_bIsPull, pulls, session, m_pDDraw, m_pYUVBuf, surfaces, blank,
                 opened, failed, threads, threadVars>>

(* InitDecode, whose result nobody looks at. *)
InitDecode ==
  /\ ui = "init"
  /\ \/ opened' = opened \cup {m_pDecoder} /\ UNCHANGED failed
     \/ failed' = failed \cup {m_pDecoder} /\ UNCHANGED opened
  /\ ui' = "buffer"
  /\ UNCHANGED <<vars, m_bIsPull, pulls, session, m_pDDraw, m_pDecoder, m_pYUVBuf, surfaces, blank,
                 threads, threadVars>>

NewBuffer ==
  /\ ui = "buffer"
  /\ m_pYUVBuf' = pulls
  /\ ui' = "thread"
  /\ UNCHANGED <<vars, m_bIsPull, pulls, session, m_pDDraw, m_pDecoder, surfaces, blank,
                 opened, failed, threads, threadVars>>

CreateThread ==
  /\ ui = "thread"
  /\ threads' = threads + 1
  /\ m_bIsPull' = TRUE
  /\ ui' = "idle"
  /\ UNCHANGED <<vars, pulls, session, madeVars, threadVars>>

-----------------------------------------------------------------------------
(* RecvDataThread.  A packet that the session has received goes through    *)
(* DecodeFrames; a copy that leaves the buffer ends the program.           *)
TakePacket(p) ==
  /\ threads = 1 /\ recv = "poll" /\ session = "open"
  /\ DecodeFrames(p)
  /\ recv' = IF overran' = {} THEN "decode" ELSE "crashed"
  /\ UNCHANGED <<dialogVars, madeVars, threads, knows, yuv, target, screen, decoded, missed>>

\* What dst brings to a decoder: a parameter set, something to show.
BringsSet(nals)     == \E i \in 1..Len(nals) : nals[i].type = "SPS"
BringsPicture(nals) == \E i \in 1..Len(nals) : nals[i].type # "SPS"

(* Decode gets what dst holds.  Of nothing it makes nothing; ffmpeg makes  *)
(* a picture when it has a parameter set, unless the data is damaged.      *)
DecodeNothing ==
  /\ threads = 1 /\ recv = "decode"
  /\ dst = <<>>
  /\ recv' = "draw"
  /\ UNCHANGED <<vars, dialogVars, madeVars, threads, knows, yuv, target, screen, decoded, missed>>

Decode ==
  /\ threads = 1 /\ recv = "decode"
  /\ dst # <<>> /\ m_pDecoder \in opened
  /\ knows' = IF BringsSet(dst) THEN knows \cup {m_pDecoder} ELSE knows
  /\ \/ /\ m_pDecoder \in knows' /\ BringsPicture(dst)
        /\ recv' = "copy"
     \/ recv' = "draw"
  /\ target' = m_pYUVBuf
  /\ UNCHANGED <<vars, dialogVars, madeVars, threads, yuv, screen, decoded, missed>>

(* With a decoder that was not prepared, or could not be, pCodecCtx is     *)
(* whatever the memory held.                                               *)
DecodeUnprepared ==
  /\ threads = 1 /\ recv = "decode"
  /\ dst # <<>> /\ m_pDecoder \notin opened
  /\ recv' \in {"draw", "crashed"}
  /\ UNCHANGED <<vars, dialogVars, madeVars, threads, knows, yuv, target, screen, decoded, missed>>

CopyPicture ==
  /\ threads = 1 /\ recv = "copy"
  /\ yuv' = [yuv EXCEPT ![target] = Later(decoded)]
  /\ decoded' = Later(decoded)
  /\ recv' = "draw"
  /\ UNCHANGED <<vars, dialogVars, madeVars, threads, knows, target, screen, missed>>

(* DrawDirectDraw draws the buffer after every packet, *)
\* Mutant: the buffer is drawn only when nothing was decoded.
DrawElse ==
  /\ threads = 1 /\ recv = "draw" /\ m_pDDraw \in surfaces
  /\ screen' = IF dst # <<>> THEN screen ELSE yuv[m_pYUVBuf]
  /\ missed' = FALSE
  /\ recv' = "poll"
  /\ UNCHANGED <<vars, dialogVars, madeVars, threads, knows, yuv, target, decoded>>

Draw ==
  /\ threads = 1 /\ recv = "draw" /\ m_pDDraw \in surfaces
  /\ screen' = yuv[m_pYUVBuf]
  /\ missed' = FALSE
  /\ recv' = "poll"
  /\ UNCHANGED <<vars, dialogVars, madeVars, threads, knows, yuv, target, decoded>>

(* but gives up when the surface cannot be locked, and does not see when   *)
(* Blt fails.                                                              *)
DrawMisses ==
  /\ threads = 1 /\ recv = "draw" /\ m_pDDraw \in surfaces
  /\ missed' = TRUE
  /\ recv' = "poll"
  /\ UNCHANGED <<vars, dialogVars, madeVars, threads, knows, yuv, target, screen, decoded>>

(* Without a surface it calls Lock of NULL. *)
DrawUnprepared ==
  /\ threads = 1 /\ recv = "draw" /\ m_pDDraw \notin surfaces
  /\ recv' = "crashed"
  /\ UNCHANGED <<vars, dialogVars, madeVars, threads, knows, yuv, target, screen, decoded, missed>>

RecvDataThread ==
  \/ DecodeNothing \/ Decode \/ DecodeUnprepared \/ CopyPicture
  \/ Draw \/ DrawMisses \/ DrawUnprepared

\* When the thread crashes the program ends, with the dialog.
PlaybackNext ==
  /\ recv # "crashed"
  /\ \/ ButtonPull \/ ButtonStop
     \/ CreateSession \/ NewDecoder \/ InitDecode \/ NewBuffer \/ CreateThread
     \/ \E p \in Inputs : TakePacket(p)
     \/ RecvDataThread

(* The thread is scheduled; the user need not press anything, and no       *)
(* packet need arrive.                                                     *)
PlaybackSpec ==
  PlaybackInit /\ [][PlaybackNext]_playingVars

-----------------------------------------------------------------------------
FirstSession == pulls = 1

(* Until the button starts the receiver again, surface, decoder and buffer *)
(* are those of one press, made for one size, and their preparation is     *)
(* through before the thread uses them.  What can bring it down then is    *)
(* that InitDirectDraw or InitDecode failed, which nobody looks at, or a   *)
(* packet that overran the buffer.                                         *)
PreparedUntilRestart ==
  FirstSession /\ threads > 0 =>
    /\ m_pDDraw = m_pYUVBuf /\ m_pDecoder = m_pYUVBuf /\ m_pYUVBuf # 0
    /\ m_pDDraw \in surfaces \cup blank /\ m_pDecoder \in opened \cup failed
    /\ recv = "crashed" => m_pDDraw \in blank \/ m_pDecoder \in failed \/ overran # {}

(* A picture is given to the decoder only when it has had a parameter set, *)
(* by then or with it: m_bHaveGetKeyFrame stands for what the decoder      *)
(* knows.  A restart keeps the flag and gives the picture to a new one.    *)
DecoderHasSet ==
  FirstSession /\ m_pDecoder \in opened /\ recv \in {"copy", "draw"} /\ dst # <<>> =>
    m_pDecoder \in knows

(* Whenever the thread is back for the next packet and its last drawing    *)
(* reached the window, the window shows what the decoder put out last,     *)
(* also after packets from which nothing was decoded: a picture whose      *)
(* drawing was missed is made up for with the next packet, no earlier one  *)
(* comes back, and noise is only ever seen before the first one.           *)
ShowsLastDecoded ==
  FirstSession /\ threads = 1 /\ recv = "poll" /\ ~missed => screen = decoded
=============================================================================
