# A verification project for DShowCapture

DShowCapture is a Windows dialog program that captures a camera with
DirectShow, encodes the pictures with H.264, sends them over RTP, and receives,
decodes and draws such a stream. The modules here model the parts of it in
which threads, buffers and packets meet; TLC checks them on small instances and
TLAPS proves some of their properties for every instance.

All paths below are relative to `src/DShowCapture/`. Every definition that
models code is listed with its lines in `PROJECT.json` under `map`.

## 1. The system

```
 camera                                                              remote
   |  DirectShow graph (src/video_capture.cpp)                          |
   v                                                                    v
 BufferCB (src/SampleGrabberCB.cpp)                      jrtplib: RTPSession::Poll,
   |  converts to pYUVBuf                                sequence numbers, sorted list
   v                                                                    |
 frame queue (src/framequeue.cpp)                        RecvDataThread (jrtp/rtp_receiver.cpp)
   |                                                                    |
   v                                                                    v
 SendDataThread (jrtp/rtp_sender.cpp)                    CH264DecodeRtp (jrtp/h264-rtp.cpp)
   |  H264Encoder::Encode (codec/h264_codec.cpp)         H264Frame (jrtp/h264frame.cpp)
   v                                                                    |
 CH264EncodeRtp, H264Frame: RTP packets  ---> network --->              v
                                                         H264Decoder, DirectDraw
 the dialog (DShowCaptureDlg.cpp) starts and stops all of it
```

The repository has no README and no tests of its own; what the code is
meant to do is in its comments, its names and the way its parts call each other.

### Inventory

| Component | State it keeps | Operations | Who calls it | What is hard about it |
|---|---|---|---|---|
| **Frame queue** `src/framequeue.cpp` | a linked list with both ends, `nb_packets`, `abort_request`, a mutex, a condition variable | `init`, `put`, `get` (blocking or not), `flush`, `destroy`, `abort`, `start`, `count` | `BufferCB` puts and, with YUY2, gets; every `SendDataThread` gets; the recorder | any thread may call any operation; waits inside `get`; frees what it cannot queue |
| **Capture callback** `src/SampleGrabberCB.cpp` | `pYUVBuf` (one buffer for all frames), the parameters of the capture | `BufferCB` | the graph's streaming thread | rewrites the buffer that queue entries point to; tests the count and then does a blocking get on the queue it alone fills |
| **Send path** `jrtp/rtp_sender.cpp`, `codec/h264_codec.cpp` | `m_pEncoder` and its `pFrameYUV`, `m_encapsulation`, one thread per push | `StartRTPSender`, `SendDataThread`, `SendH264Nalu`, `StopRTPSender` | the Push button; a thread that never ends | threads of an earlier push stay alive and use the new push's encoder and packetizer, without a lock |
| **Packetizer** `jrtp/h264frame.cpp`, `jrtp/h264-rtp.cpp` | `m_NALs`, `m_currentNAL`, what is left of the NAL unit being fragmented | `EncodeFrames`, `GetRTPFrame`, `EncapsulateFU` | `SendH264Nalu` | boundaries of the fragments; the loop that only the marker ends |
| **RTP source** `jrtp/jrtplib/` (vendored) | probation, extended sequence numbers, the sorted list of packets | `ProcessRTPPacket`, `GetNextPacket` | `Poll` in `RecvDataThread` | loss, repetition and reordering; 16-bit numbers that wrap |
| **Table of sources** `jrtp/jrtplib/rtpsources.cpp`, `rtpsession.cpp` | one entry per SSRC, three counters, the list of colliding addresses, BYE packets to send | `Poll`, `SendPacket` | `RecvDataThread`; the sender's session only sends, nobody polls it | two participants with one SSRC, our own SSRC used by others, time-outs between packets |
| **Depacketizer** `jrtp/h264frame.cpp`, `jrtp/h264-rtp.cpp` | the picture under assembly, `m_currentFU`, `m_bHaveGetKeyFrame` | `DecodeFrames`, `SetFromRTPFrame` | `RecvDataThread`, for each packet | looks at no sequence number; five ways out of a call, each of which must leave the buffer consistent |
| **NAL parser** `jrtp/Is_H264KeyFrame.cpp` | none between calls | `GetNalSize`, `Is_H264KeyFrame`, `H264_Decode_SPS` | packetizer, depacketizer | searches and bit arithmetic at the ends of the buffer |
| **Decoder and drawing** `codec/h264_codec.cpp`, `src/DirectDraw.cpp` | ffmpeg's state, surfaces | `Decode`, `DrawDirectDraw` | `RecvDataThread`, whatever `DecodeFrames` returned | stale picture drawn again; the Pull button replaces surface, decoder and buffer under the running thread |
| **Dialog** `DShowCaptureDlg.cpp` | `m_bInit`, `m_bIsVideoOpen`, `m_bIsPush`, the list of resolutions | the buttons' handlers | the user | results that are not looked at; `StopCapture` waits for the streaming thread |
| **Capture graph** `src/video_capture.cpp` | the filters, the list of formats | `InitCapture`, `StartCapture`, `StopCapture`, `GetVideoResolution` | the dialog | steps that fail half-way; the choice of a resolution |
| **Recorder** `src/Mp4Record.cpp` | `m_bStart`, the ffmpeg context, a mutex | `InitRecord`, `StartRecord`, `StopRecord`, one thread per recording | nobody: the button's body is commented out | a blocking get with the mutex held; threads that never end |
| AAC codec, MFC shell, `IASipCall.cpp`, vendored code | | | not used, not built, or third party | not modelled |

The components share state in six places: the queue between the callback and
the senders (and a recorder), `pYUVBuf` between the callback and the encoder,
`m_pEncoder` and `m_encapsulation` between the senders, `m_pDecoder`,
`m_pYUVBuf` and `m_pDDraw` between the Pull button and the receiving thread, the
file between the recording threads and `StopRecord`, and the packet list of the
source between `Poll` and `GetNextPacket`, which one thread calls in turn.

### What makes each component correct

* **Queue.** The pointers form the list of the nodes that were put, the counter
  and the tail agree with it, no wakeup is lost, each frame is handed out or
  freed exactly once and in order, and a blocked reader is served.
* **Capture and send path.** A callback returns; a picture is never encoded from
  data older than the entry that announced it; `InitEncode` of an
  encoder is over before the encoder is used; the backlog stays bounded where the code drops.
* **Dialog and graph.** What runs is what was selected; nothing is used that a
  failed step did not make.
* **Packetizer.** No packet is too long or empty; bits and marker are where the
  receiver needs them; one sender's packets are the picture byte for byte; the
  loop ends.
* **Source.** Packets come out in the order of their extended numbers, which is
  the order of sending on a network that only loses packets.
* **Depacketizer.** Buffer and list of NAL units agree after any packets in any
  order, and no packet that is long enough for its own headers gets behind the
  buffer; the damage of one picture does not reach the next one; nothing goes to
  the decoder before a parameter set.
* **NAL parser.** The units found are those of the stream, all of them and in
  order; the size that is read is the one that was written.
* **Playback.** The preparation of what the thread uses is over, whether it
  succeeded or not; the window shows what was decoded last, when the drawing
  reached it.
* **Table of sources.** The counters are those of the table; the session's own
  entry is its own; participants of different hosts are not mixed; an SSRC that
  others know is not given up silently.
* **Recorder.** Frames are in order, the trailer comes behind them, stopping
  returns.

The hazards these properties are for are listed under `hazards` in
`PROJECT.json`, each at the line where it bites; those that no property covers
yet say why.

## 2. The modules

| Module | Models | Composes |
|---|---|---|
| `FrameChannel` | what the queue promises: a FIFO that is open or aborted | |
| `FrameQueue` | `framequeue.cpp` with pointers, mutex and condition variable | implements `FrameChannel` |
| `CapturePipeline` | the dialog's Capture and Push buttons, `BufferCB`, `SendDataThread`, `StartRTPSender`, the encoder's copy | the queue as the FIFO that `FrameQueue` implements |
| `CaptureSetup` | from the Init button to a running capture: `InitCapture`, `GetVideoResolution`, the choice, `StartCapture`, `StopCapture` | |
| `H264Packets` | pictures, NAL units, packets | |
| `RtpSender` | `SendH264Nalu`, `EncodeFrames`, `GetRTPFrame`, `EncapsulateFU` | `H264Packets` |
| `RtpReceiver` | `DecodeFrames`, `SetFromRTPFrame`, `AddDataToEncodedFrame`, `Is_H264KeyFrame` | `H264Packets` |
| `RtpLink` | the network and jrtplib's record of a source | |
| `RtpStream` | sender, network, source and receiver together | `RtpSender`, `RtpLink`, `RtpReceiver` |
| `Playback` | the Pull button, `StartRTPReceiver`, `RecvDataThread`, the decoder and what is drawn | `RtpReceiver` |
| `RtpSources` | jrtplib's table of participants and the session's own SSRC | |
| `NalUnits` | `GetNalSize`, `GetNALSize`, `isNalHead`, `isNalTail` | |
| `SpsReader` | `H264_Decode_SPS`, `get_ue_golomb`, `get_se_golomb`, `get_bits1` | |
| `H264Parser` | the two readers side by side | `NalUnits`, `SpsReader` |
| `Mp4Record` | `InitRecord`, `StartRecord`, `StopRecord`, `RecordVideoThread` | the queue as the FIFO that `FrameQueue` implements |
| `FrameQueueProofs`, `CapturePipelineProofs`, `RtpSenderProofs`, `RtpSourcesProofs`, `RtpStreamProofs`, `H264ParserProofs`, `Mp4RecordProofs` | theorems about the module of the same name | |
| `DialogProofs` | theorems about what the dialog starts: `CaptureSetup`, `Playback` and the `RtpReceiver` inside it | |
| `MC*` | small instances for TLC | |

### FrameQueue

A critical section that runs straight through is one action, because nobody can
see its middle. Two operations are split. `frame_queue_get` releases the mutex
inside `pthread_cond_wait`: the thread is `"waiting"` until it is signalled (or
wakes spuriously, which pthreads allows) and `"woken"` until it has the mutex
again; then it looks at the abort flag and the list once more, like the loop in
the code. `frame_queue_flush` walks the list with the mutex held, one node per
step, and resets the ends after the loop. `frame_queue_destroy` is a flush after
which the queue is no more `live`; destroying a condition variable with waiters
is undefined, so its caller is the last user.

The nodes' `next` and `buffer` fields, the allocated nodes (`heap`) and the ends
are modelled as the code has them. `list`, `offered`, `delivered`, `freed` and
`stranded` are history variables; no guard reads them, but for the bound
`MaxFrames`. `stranded` holds the waiters that a `frame_queue_abort` left asleep:
it signals one waiter only.

The refinement to `FrameChannel` maps the contents of the list to the channel.
A flush takes effect when it takes the mutex: from then on the frames that it
still has to free count as freed.

### CapturePipeline

Three kinds of threads: the dialog's, the streaming thread, and one
`SendDataThread` per press of Push. `pYUVBuf` has one cell per plane and band of
rows; libyuv fills it band by band, `Encode` copies it plane by plane, and each
cell holds the number of the frame that it shows. A queue entry is only the
number of the frame it was put for, because all entries point to the one buffer.
`StopRTPSender` is not a part of the push button's handler: pressing it again
only changes its label (`StopPush`), so the thread stays and the next push makes
another one. `CaptureStuck` names the state in which `BufferCB` waits in its own
blocking `frame_queue_get`.

`InitEncode` succeeds (`ready`) or not (`failed`): when `avcodec_open2` fails it
returns before it allocates `pFrameYUV` (`codec/h264_codec.cpp:37`), and
`StartRTPSender` drops the result and creates the thread all the same
(`jrtp/rtp_sender.cpp:89`). What `Encode` does with an encoder that is not prepared
is `EncodeUnprepared`: `pFrameYUV` is whatever the memory held, so the program may
end (`Crashed`, after which nobody takes a step) or go on.

### CaptureSetup

The dialog's side of a capture: which format is started, and what happens when
steps fail. `GetVideoResolution` goes through the camera's formats, as a recursive
function of how many it has seen, and lists each resolution with its first one; `FindResolution` is the search of the Capture
handler, assignment included. `capture` says how far `InitCapture` came. Each
step of it and of `StartCapture` may fail; where the code goes on with a pointer
that was never set, the program may crash (`InitCrashes`, `StartCrashes`) or go
on. `CapturePipeline` takes over where a capture runs; its Capture button is the
same handler, seen by the threads. The specification is called `SetupSpec`, so
that one proof module can extend this one and `Playback`.

### H264Packets, RtpSender, RtpReceiver

Bytes are abstracted to their place: a packet carries the bytes `first..last` of
NAL unit `nal` of picture `pic`, with the header bits and the marker. A NAL unit
in the receiver's buffer is the sequence of the packets whose data it consists
of, with its offset. This keeps what the code computes with lengths and bits,
and lets the properties tell whose bytes lie where. `RtpSender` treats a call of
`EncodeFrames` as one step: the data races inside two overlapping calls are left
out, so what is shown for two threads is what happens even without them.
`RtpReceiver` takes any packet of a set `Inputs`, also aggregated, truncated,
empty and unknown ones, and those that end within their own headers. The 16-bit
counter `m_currentFU` wraps at `FURange`, the 32-bit lengths at `LenRange`.

`Bytes` is the number of bytes behind a packet's own headers: -1 for a fragment
whose payload is one byte (`curFULen - 2`, `jrtp/h264frame.cpp:391`, `:400`, `:414`)
and for a unit of an aggregate that says its length is 0 (`len - 1`, `:360`).
`DataLen` is what the code makes of it without a sign, and `Room` is the test at
`:456`, whose sum wraps too. For data of -1 bytes it can come out as if one byte less
than the header were added, and the `memcpy` at `:495` copies some 4 GB.
That is `Overrun`: the call does not return, `overran` is the data that did it,
and nothing comes after. It is taken to end the program, because so long a copy
does not stay within the memory that belongs to it. The bits of the second FU
header, which lie behind such a packet, may be any.

### RtpLink and RtpStream

The network may lose, repeat and reorder packets within `MaxLost`, `MaxRepeated`
and a window drawn from `Windows`. The rest of `RtpLink` is jrtplib's: probation, the
extended number of a packet, the sorted list. `RtpStream` conjoins actions of
the three component modules: a `SendPacket` of the sender is a `Send` of the
link, a `GetNextPacket` of the link is a `DecodeFrames` of the receiver. The
component modules are instantiated, not copied, so what the composition checks
is what the components say. `Ahead` says where a NAL unit of a picture lies in a
buffer that has all of the picture; `Fits` and `KeyPicture` are built on it.

### Playback

`StartRTPReceiver` step by step, as the dialog's thread runs it, beside the
receiving thread: `ButtonPull` (surface), `CreateSession`, `NewDecoder`,
`InitDecode`, `NewBuffer`, `CreateThread`. The objects of press *n* are known by
*n*. `TakePacket` is a `DecodeFrames` of `RtpReceiver`; then come `Decode`, in two
steps because the buffer is chosen when `Decode` is called and written when
ffmpeg returned, and the drawing. `InitDirectDraw` makes the surface (`surfaces`)
or returns before it did (`blank`), and the dialog drops what it returned
(`DShowCaptureDlg.cpp:464`); `InitDecode` likewise (`opened`, `failed`).
`DrawDirectDraw` reaches the window (`Draw`), or not, because `Lock` failed
(`src/DirectDraw.cpp:156`) or `Blt`, whose result is dropped (`:163`; `DrawMisses`
for both), or calls `Lock` of a surface that is `NULL` (`:149`; `DrawUnprepared`).
That call ends the program, as does an `Overrun`, and as a decoder that is not
prepared may (`DecodeUnprepared`): `recv` is then `"crashed"`, and nobody takes a
step any more. Nothing ends the thread: the second press of the
button only changes its label (`ButtonStop`), the third one starts again on the
same `RTPReceiver`. The model goes on until the second thread is created; what two
threads do to one `RTPSession` without a lock has no meaning. Decoded pictures
are numbered 1 and 2 in turn: the properties only tell the last from the one
before. ffmpeg is external: with a parameter set it makes a picture of a slice or
it does not.

### RtpSources

The table of `RTPSources` with its counters as jrtplib keeps them, incremented
and decremented packet by packet and taken anew at the end of a poll. One packet
is one action, with the handling of a collision that follows it in
`ProcessPolledData`. The own session's packets have no sender address
(`senderaddress` 0 in the code), which is `Self` here. Timers are left out: at the
end of a poll any other participant may have been quiet for too long, and it may
or may not be time for an RTCP packet. The variable `missed` counts who became
active without being counted: `SetCSRC` on an entry that exists
(`jrtp/jrtplib/rtpsources.cpp:366`) has no `activecount++`, while the branch above
it has.

### NalUnits, SpsReader, H264Parser

`GetNalSize` is a state machine on the positions of the bytes: the outer search
(`SkipByte`, `HeadFound`), the loop of `GetNALSize` (`Measure`), and the entry in
the array (`AddUnit`). What it should find is defined apart from how it reads, by
`Starts` and `Ends`. `SpsReader` reads bits: the parameter set is data with the
fields of the H.264 standard, `Bits` writes it as the standard does, and the
three functions read it back. `Order`, `Times` and `Readings` are
`H264_Decode_SPS` as a table: which field comes next, how often, and which
function reads it. `bit[nByteBits++] & **p) >> (7 - nByteBits)` reads and changes
`nByteBits` without a sequence point between; `shift` is the compiler's choice,
and the properties are about the choice that makes the function work. The
functions are not recursive operators, so both modules can be proved about.

What the reader is given is defined apart from how it reads, too. `InSyntax` is
section 7.3.2.1.1 of the standard up to the size: which fields are written, how
often (`Repeated`), in which order, as which kind (`Kind`) and with which values
(`Values`, the numbers that the program's `int` can hold; at most 255 offsets, for
which its array has room). `Followed` says which of these sets the reader follows:
those without scaling lists, without a `delta_pic_order_always_zero_flag` that is
0, and without an emulation prevention byte (`Emulates`), which the standard writes
between two zero bytes and a byte up to 3, and which `H264_Decode_SPS` does not
take out. `high` says that the profile is one from 100 on, of those in which the
standard writes the fields in `High`: 100, 110, 118 and 122. The profiles 44, 83,
128 and 244 are left out: the standard writes the fields there too, but the code
does not ask for 44, and 128 and 244 are negative in its `char`.

### Mp4Record

The recorder as the commented body of the Record button uses it. A thread tests
`m_bStart`, locks, takes a frame, writes, unlocks; none ever ends, so the second
recording has two of them on one file. `late` counts what is written behind the
trailer: there the code uses a context that `StopRecord` has freed, which is
undefined; the model follows the outcome in which the process survives, so that
the bound can be stated.

## 3. The runs

| Run | What it asks | Instance |
|---|---|---|
| `frame_queue` | list, ends and counter; lost wakeups; implementation of `FrameChannel`; a blocked consumer is served | 3 threads, 2 nodes, 3 frames |
| `frame_queue_abort` | a violation: `frame_queue_abort` does not wake every reader | 3 threads, 2 nodes, 2 frames |
| `capture` | when `BufferCB` can block, what the encoder can read, does the Capture button come back | 2 frames, 2 pushes, both formats |
| `capture_setup` | is what runs what was selected, whatever failed | 6 cameras with up to 5 formats |
| `capture_choice` | a violation: the search for the selected resolution | as above |
| `sender` | sizes, bits, contiguity, whole pictures, termination | 2 threads, 3 pictures, packets of 5 bytes |
| `playback` | the receiver's buffer for any packets in any order; what the decoder gets and the window shows | 17 packets, a buffer of 14 bytes, lengths modulo 64, 2 starts |
| `sources` | counters, the own entry, collisions, BYE | 3 SSRCs, 3 addresses on 2 hosts, 1 change |
| `stream` | order, independence of pictures, everything shown on a good network | 6 packets, one lost, one repeated, one overtaking |
| `stream_loss` | a violation: fragments of two NAL units joined | two packets lost |
| `parser` | the NAL units of any short picture; the size in any parameter set | pictures of up to 8 bytes, 2400 parameter sets |
| `recorder` | order, trailer, late writes, does stopping return | 5 frames, 3 recordings |

**What they show.**

*Queue.* `NoLostWakeup` says that while a thread sleeps in `frame_queue_get`
which no abort left behind, every queued frame has a woken thread on its way:
this is why the signal of a put may be a signal and not a broadcast. With
`BlockedConsumerServed` it holds for every interleaving, spurious wakeups
included. `StrandedAsleep` and the violation `AbortReturns` are two sides of
`frame_queue_abort` (`src/framequeue.cpp:105`): exactly the waiters it did not
signal sleep on. `ImplementsChannel` is the refinement: each frame is handed out
or freed once, in the order of the puts.

*Capture.* `StuckNeedsSender` and `StuckForGood` fix when the capture hangs: only
with YUY2, only when a sender took the last entry between `frame_queue_count`
and the blocking `frame_queue_get` (`src/SampleGrabberCB.cpp:162`), and then for
ever, because `BufferCB` is the queue's only producer. `StopComesBack` is
therefore stated with `CaptureStuck` as the one exception; `StuckForGood` shows
that the exception is not a way round the property. `NeverStale` says what
sharing one buffer costs: a picture may mix its own frame with later ones, but
never shows an earlier one. `FirstPushPrepared` says what the order of the calls
in `StartRTPSender` achieves: during the first push no thread calls an encoder
before its `InitEncode` is over, and if `Encode` brings the program down, it is
because `InitEncode` had failed. It does not say that the encoder is prepared, which
nobody checks. With a second push, the thread of the first can call the new encoder
before `InitEncode` (`jrtp/rtp_sender.cpp:88`), which is why the property has its
condition. The program that has ended is an exception to `StopComesBack` too.

*Setup.* `StartedAsSelected` says what the search keeps in spite of its
assignment: the height always, the whole resolution when heights tell the
camera's resolutions apart, the same size for `BufferCB` and the encoder, and all
that with repeated and unlisted formats and after captures that failed. It also
shows why the unchecked result of `InitCapture` does less harm than it could:
without a graph the list is empty, and without a selection nothing starts. The
violation `RunsSelected` is the rest: with two resolutions of one height the
camera may run with the other one.

*Sender.* `PacketsFit`, `HeaderBits` hold at each NAL unit length around the
boundaries; `Contiguous` says that with one thread the wire carries the picture
byte for byte. With two threads this is false; `WholePictures` and `CallReturns`
say what is left: what was sent of a picture is all of it once no call is under
way, and the loop ends for every call.

*Playback.* `OpenHasNAL`, `BufferFits`, `Tiled` and `Headed` relate `m_currentFU`,
the list of NAL units and the buffer after any sequence of packets, which is what
keeps `m_NALs[m_numberOfNALsInFrame - 1]` inside the array. `BufferFits` says where
the test for the room fails: what is in the buffer never exceeds it, and the only
data whose copy leaves the buffer is data whose length wrapped; sums of lengths
that did not wrap are always compared rightly. `DecoderHasSet` is the
gate in front of the decoder: `m_bHaveGetKeyFrame` may stand for what the decoder
knows. `ShowsLastDecoded` is why ignoring the result of `Decode` is harmless for
the picture: after each drawing that reached the window, it shows what was decoded
last, so a drawing that failed is made up for with the next packet and nothing
older or undefined comes back. `PreparedUntilRestart` says that the thread finds
surface, decoder and buffer of one press with their preparation over, and names
what can end it: a surface or a decoder that could not be made, whose results
nobody looks at, or an `Overrun`. `PreparedUntilRestart` and `DecoderHasSet` are stated for the first
press of the button, and that is the finding in them: after a restart the thread
meets a new decoder that is not prepared (`jrtp/rtp_receiver.cpp:129`), a surface
of one size with a buffer of another, and a flag that speaks of the old decoder.

*Sources.* `OwnKept`: nothing that comes from outside touches the session's own
entry, not a BYE with its SSRC, not a time-out, not an RTP packet; and after a
change of SSRC the old entry is ours no more. `CountsAgree` gives the exact error
of `activecount`: it is too low by those that were on probation when a mixer named
them, until the end of the poll, although `jrtp/jrtplib/rtpsources.h:285` calls it
the number of validated members without a BYE. `OneHost` shows that the two address
checks of `CheckCollision` together keep two hosts apart under one SSRC whichever
kind of packet came first. `LeaversSayBye`: an SSRC that was used in a packet is
left with a BYE.

*Stream.* `IntactDelivered`: when all packets of a picture come in turn after a
marker, the decoder gets exactly that picture, whatever happened before. Its two
conditions are what the receiver's code needs. `Fits`: a NAL unit for which there
is no room is left out without a word, and the 16-bit count of fragments must not
come round to 0 inside a NAL unit (`jrtp/h264frame.cpp:456`, `:399`).
`KeyPicture`: before the first delivery the parameter set must lie within the
`KeyWindow` bytes that `Is_H264KeyFrame` looks at. `AllShown` and `InOrderOut`
cover probation too: the packets that arrive before the source is valid are kept
and shown. Both exclude a wrap of the sequence numbers during probation
(`WrapsOnProbation`), where packets are in fact taken out of order. `InOrderOut`
also excludes that half the range of the sequence numbers is lost (`FewLost`):
behind such a gap jrtplib takes a new packet for a late one.

*Parser.* `UnitsInOrder` and `AllUnits` compare the byte loop with what start
codes mean, for every byte string up to eight bytes with the only bytes the
functions tell apart. `SizeRead` holds for parameter sets without scaling lists,
without `delta_pic_order_always_zero_flag = 0` and without emulation prevention
bytes; the exceptions are mistakes of the code (below). `SizeNotInvented` is what the checks of `*pSize` achieve: from a
set whose end is missing no wrong size is read.

*Recorder.* `StopReturns` says what `StopRecord` waits for: one frame for each
thread that has tested `m_bStart`; with fewer in the queue, or when others take
them, it can wait for ever. `LateBounded` says how much comes behind the trailer.

**Findings.** The three violation runs are disagreements between the code and
its comments: the started resolution need not be the selected one;
`frame_queue_get` does not return from every abort; the receiver keeps fragments
whose first fragment was lost when another NAL unit was open.

Other disagreements and mistakes that the modules have to follow, without a run of
their own:

* The results of `InitEncode` (`jrtp/rtp_sender.cpp:89`), `InitDecode`
  (`jrtp/rtp_receiver.cpp:129`) and `InitDirectDraw` (`DShowCaptureDlg.cpp:464`) are
  dropped; when one of them fails, a thread uses what was not made.
* The length of a packet that ends within its own headers wraps and passes the test
  for the room in the buffer (`jrtp/h264frame.cpp:456`).
* A late packet from before a wrap of the sequence numbers moves `exthighseqnr`
  a whole cycle ahead (`jrtp/jrtplib/rtpsourcedata.cpp:158`).
* `delta_pic_order_always_zero_flag` is one bit in the standard and is read with
  `get_ue_golomb` (`jrtp/Is_H264KeyFrame.cpp:269`); `get_se_golomb` divides
  integers before it rounds (`:174`), so odd codes lose one; present scaling lists
  are skipped without being read (`:251`); `profile_idc >= 100` (`:238`) is tested
  on a `char`, which is negative from 128 on; emulation prevention bytes are read as if
  they were part of a field (`:222`).
* The own SSRC named as a contributing source by somebody else is taken for a
  collision with our own packets (`jrtp/jrtplib/rtpsources.cpp:366`).

**Why the bounds are enough.** Three threads are the fewest with two blocked
consumers and a producer, or one of each and a flush; two nodes make a list with
different ends, are recycled, and run out; three frames are more than the nodes.
Two camera frames fill the buffer again while one entry waits or is being
copied; two pushes are the fewest with a stale thread. NAL units in the `sender`
run are at, just below and just above one, two and three fragments. The
`playback` run's buffer overflows after a few of its packets, `m_currentFU`
wraps at 4, and lengths wrap at 64, so these boundaries are met: a packet's length
wraps when it has a byte less than its headers, and with it the sum wraps or not,
depending on whether there is anything in the buffer and on the header that is
added. 64 is more than twice the size of the buffer, which is all that the proofs
need of the code's 2^32 and 768 KB; in the two `stream` runs, whose packets come
from the program's own sender, it is 128 and no length wraps. Two starts are the fewest with a decoder
replaced under a thread. The cameras of `capture_setup` have no format, none that
is listed, and formats that share heights, repeat or are skipped before and
between others. Sequence numbers modulo 8 wrap in every `stream` behaviour that
starts at 5, 6 or 7, before, at and after the end of probation. In `sources`, two
hosts are ours, whose address is `Self`, and another with two ports: each branch
of `CheckCollision` is met (same address, same host, other host); three SSRCs are
a participant, a mixer that names it and ourselves; one change of SSRC uses the
third. Eight bytes are two start codes of either length with something between
and behind; `MaxNal` is 2, so the array overflows. Parameter sets have every
optional group, widths whose codes have one, five and eleven bits, and up to
three bytes missing. Three recordings leave two stale threads behind. The bounds
`MaxFrames`, `MaxPushes`, `MaxPulls`, `MaxRecords`, `MaxChanges`, `MaxPictures`,
`MaxSent`, `MaxLost` and `MaxRepeated` only limit how often the environment acts.
The runs without deadlock check stop when these bounds are used up, or, in
`parser`, when the call returns.

**Fairness.** A thread that is inside an operation and not blocked is scheduled
in the end: a woken reader, a flush, a callback, a handler of the dialog, a
sender, the receiving thread, a recording thread that has the mutex or can get
it. Each is weak fairness on what the thread does next, and needs only that the
operating system runs threads; where two threads want one mutex, nothing but weak
fairness is assumed of either. Nothing is assumed of the user (nobody has to
press a button), the camera, spurious wakeups, or the peer; in `stream`, that a
packet which is not lost arrives is the meaning of "not lost", and the bound on
the losses is part of the statement. `Playback`, `RtpSources`, `NalUnits` and
`SpsReader` state safety only and have no fairness.

## 4. The theorems

| Module | Theorems | Holds for |
|---|---|---|
| `FrameQueueProofs` | `TypeCorrect`, `ListCorrect`, `EndsCorrect`, `WakeupCorrect`, `StrandedCorrect`, `QueueImplementsChannel`, `ConservationCorrect`, `InOrderCorrect` | any finite set of threads, any set of nodes, any number of frames |
| `CapturePipelineProofs` | `StuckNeedsSenderCorrect`, `NeverStaleCorrect`, `FirstPushPreparedCorrect`, `StuckForGoodCorrect`, `BacklogBoundedCorrect`, `QueuedConvertedCorrect` | any number of frames and pushes |
| `RtpSenderProofs` | `TypeCorrect`, `PacketsFitCorrect`, `HeaderBitsCorrect`, `ContiguousCorrect`, `WholePicturesCorrect` | any pictures with at least one NAL unit each, any packet size above two bytes, any number of threads that share the packetizer |
| `DialogProofs` (receiver) | `TypeCorrect`, `OpenHasNALCorrect`, `BufferFitsCorrect`, `TiledCorrect`, `HeadedCorrect` | any set of packets each shorter than the buffer, also ones that end within their headers; any buffer size, any counter width, any width of the lengths above twice the buffer |
| `DialogProofs` (playback) | `PlaybackReceives`, `PreparedUntilRestartCorrect`, `DecoderHasSetCorrect`, `ShowsLastDecodedCorrect` | as above, and any number of presses of Pull |
| `DialogProofs` (setup) | `SetupTypeCorrect`, `StartedAsSelectedCorrect`, `ListInOrderCorrect` | any cameras with any lists of formats |
| `RtpStreamProofs` | `StreamUsesLink`, `StreamUsesSender`, `LinkTypeCorrect`, `SortedCorrect`, `InOrderOutCorrect`, `StreamInvariant`, `IntactDeliveredCorrect` | any range of sequence numbers above 2, any probation, any losses, repetitions and reordering, any pictures, any packet size above two bytes, any buffer |
| `RtpSourcesProofs` | `OwnKeptCorrect`, `OneHostCorrect`, `LeaversSayByeCorrect`, `CountsAgreeCorrect` | any SSRCs, any addresses on any hosts, any number of changes |
| `H264ParserProofs` | `UnitsInOrderCorrect`, `AllUnitsCorrect`, `CodeRead`, `SizeReadCorrect`, `SizeNotInventedCorrect` | any pictures, any size of the array; any parameter sets that are in the syntax of H.264 as far as the reader follows them, and any number of missing bytes |
| `Mp4RecordProofs` | `FileInOrderCorrect`, `TrailerCorrect`, `LateBoundedCorrect` | any number of frames and recordings |

*FrameQueue.* `Shape` is the invariant of the list. `ListShape` and `EndsAgree`
are not inductive alone: a flush leaves the ends stale until it is over, so
`Shape` adds that at most one thread flushes (`OneFlusher`), that a destroyed
queue is empty and unused (`Lifetime`), and that nodes hold offered frames
(`Numbered`). On top of it `Wakeup`, which is `NoLostWakeup` and
`StrandedAsleep`, is inductive: a put adds one frame and, if a reader sleeps,
wakes one; a get takes one frame and uses up one woken reader; a reader goes to
sleep on an empty list only. The refinement maps each step of the queue to a
step of the channel or to a stutter; the steps inside a flush stutter because
`FreedFrames` counts the rest of the list from the start. The assumptions are
`NULL \notin Nodes`, that `Threads` is finite (for counting the woken), and
`MaxFrames \in Nat`. `Conservation` and `InOrder` are properties of
`FrameChannel`, and the refinement carries them over to the pointers and the
mutex: in the channel they are inductive together, because a frame that is handed
out is older than all that stay.

*CapturePipeline.* `IInv` has two halves. `Control` ties the threads to the
dialog: a callback runs only while a capture is open (`Opened`); BufferCB decides
to drop an entry only with YUY2, and then the entry is still there or a sender is
(`DropsForSender`); a sender is created behind the `InitEncode` of its encoder,
whether it succeeded or not, and what crashed during the first push called an encoder
that had failed (`Prepared`). `Buffer` bounds what the cells of `pYUVBuf` show: the cells filled
so far show the frame of this callback (`Converted`), no cell and no entry is
ahead of the camera (`NotAhead`), and no cell is older than a frame that is
queued or that a thread holds (`QueuedConverted`, `Covers`). `NeverStale` needs
the last: a sender copies cells that are no older than what it took, and what it
copied is overwritten by later copies only. The two action properties are read
off `IInv`.

*RtpSender.* `PacketsFit` and `HeaderBits` speak of packets that were made; what
the next packet will be depends on the position in the picture. `IInv` adds
`Fragmenting`: a remainder other than 0 belongs to a NAL unit of the picture in
`m_encapsulation` that is too long for a packet, and it is shorter than what the
first fragment began with. Hence a first fragment never ends its NAL unit, and
every other starts behind byte 1. That a thread inside a call has one of the
pictures, whoever's picture it then sends, is the third part. `GoodPacket` says
both properties of one packet and two lemmas establish it for the two kinds of
packets; the actions then only add a good packet or move it. The assumptions
are that a packet has room for more than the two FU header bytes
(`MaxPayloadAssumption`) and that pictures have NAL units with a header byte
(`PicturesAssumption`). The two properties about whole pictures rest on `After`,
which tells the packetizer's position from the packet that it made last: the next
packet carries on there (`CarriesOn`). For `Contiguous`, `InTurn` says what one
thread does next; that `callers` has one element makes all others idle. For
`WholePictures`, `Wholes` says that a packet without the marker is followed or was
made last, and that something is left of a picture only while some thread holds a
packet without the marker (`GoesOn`), so its loop goes on.

*DialogProofs, the receiver.* `IInv` says that the picture under assembly is `Good`: its type,
its length within the buffer, every NAL unit begins with data that had a header
byte and has no other inside, and while a fragmented NAL unit is open there is
one in the list. `OpenHasNAL` alone is not inductive, because a first fragment
that does not fit is left out and yet sets `m_currentFU`: the proof needs that a
packet is refused only when something is in the buffer already, which follows
from "no NAL unit, no bytes" together with the assumption that each packet by
itself is shorter than the buffer (64 KB against 768 KB in the code). The other
assumptions say that what arrives is a single NAL unit, a fragment, an
aggregate, nothing, or something else, with data of -1 bytes or more. For
`BufferFits`, `SpilledNothing` shows that data of 0 bytes or more, added to a buffer
that is `Good`, gives a sum below `LenRange`, so the test decides rightly (`RoomFor`)
and nothing spills; hence what spills has -1 bytes (`SpilledWrapped`), and nothing of
it is counted, because the call does not return. `Tiled` speaks of sums: the bytes of a NAL
unit are those of all its pieces. `NALBytes` is a recursive function, and what it
does when a piece is appended is proved from the fact that the recursion has a
solution (`BytesAdded`). The library's induction theorems take an operator and
cannot be used; `SetInduction` takes a set instead, of which it says that the
least number outside it would have a predecessor inside.

*DialogProofs, the thread and the button.* `PlaybackReceives` shows that every
step of `Playback` is a `DecodeFrames` or leaves the receiver alone, so the
theorems above hold inside it. `PInv` has three parts. `Making` follows the
button's handler: the thread is created last, so the preparation of what it uses is
over; and the thread crashes only where it meets a surface or a decoder that failed,
or after an `Overrun`. `Knowing`
ties the gate to the decoder: the picture that opens the gate brings a parameter
set itself (`GateOpens`), and it is decoded before anything else. `Showing` says
that the buffer holds what was decoded last, and so does the window unless the last
drawing missed it. All three are about the first press,
as the properties are.

*DialogProofs, the setup.* `ListInOrder` is what `GetVideoResolution` returns for
any list of formats: each usable resolution once, with its first format, in the
camera's order. It is proved of the recursive function by the same induction
through a set, prefix by prefix. `SetupInv` then says that the dialog's list is
empty or that one, and follows the handlers; `FindResolution` returns the first
entry of the selected height, hence `StartedAsSelected`.

*RtpStream, the link.* `StreamUsesLink` and `StreamUsesSender` show that each step
of the stream is one of the component or leaves it alone. `LinkInv` has three
parts. `Link!TypeOK` has the facts about the cycles that the arithmetic needs.
`Stored` says that the list is sorted without a number twice, what its numbers are
during probation, and that `numcycles` is the full rounds of `exthighseqnr`; it
holds on any network. `OneByOne` is about a network that only loses: there is a
newest packet *h* that came, all under way are newer, those missing behind it are
no more than were lost, and once the source is valid `exthighseqnr` is exactly the
number of *h* counted from the sender's first one (`Exact`), as long as `FewLost`
and not `WrapsOnProbation`. Then the extended number of the next packet that
comes is again the exact one (`NextExact`): fewer than half the range lie between,
so the comparison modulo `SeqRange` decides rightly whether a cycle ended.
`InOrderOut` is read off it: what waits is newer than what was taken.

*RtpStream, the pictures.* `StreamInv` adds two parts. `Wired` carries what is
proved of the packetizer with one thread (`Turns` of `RtpSenderProofs`) to the
wire: every packet there is a good packet of its picture, and each is joined to the
one before it; it carries on there, or it begins a picture behind a marker.
`Gathered` is about the receiver, as long as it runs (`overran` is empty; that it
stays so during a picture that fits is part of the step): the packets taken since the last marker have
none, the buffer is empty when there are none of them, and when they follow one
another from the first packet of a picture that fits, the buffer is `Assembled`:
the complete NAL units so far, each with its pieces in a row and its offset, then
the open one as far as the last byte taken, with `m_currentFU` the number of its
fragments. The condition is inside the invariant, so it says nothing of a damaged
picture, and that is enough because each of the ways out of `DecodeFrames` at a
marker leaves the buffer empty. `TakesDue` is the step: the packet that is due is
taken, and the buffer is assembled up to it. The sizes of all fragments but the
last are needed there, because the count of fragments may not wrap
(`OneMoreFragment`), and the sums of `Ahead` because nothing may be left out
(`AheadGrows`). At the marker the buffer has the whole picture, and
`Is_H264KeyFrame` finds its parameter set (`KeyFound`). The assumptions are those
of the packetizer, that one thread sends (`OneThreadAssumption`; with two nothing
of this is true, see *Sender* above), and that the buffer's constants are numbers,
with `LenRange` above twice the buffer (`BufferAssumption`).

*RtpSources.* For `OwnKept` the invariant is the property itself with the type of
the table: an address that is set is never changed, so an entry with `Self` for
both addresses takes nothing from elsewhere; time-outs leave out the own entry;
a new SSRC is one that has no entry. For `OneHost`, `hosts` lies within the hosts
of the addresses that are set, and the two addresses, if both are set, are on
one host. `Heard` keeps that wherever `Collides` is false. `LeaversSayBye` needs
only that an SSRC that has been used has the flag set (`Known`). For
`CountsAgree`, `Counted(S, m)` states it of any table: `CountSet` shows that a
counter follows a set that gains or loses one element, and each operation on a
table, also the one in the middle of a packet, keeps `Counted`; only a contributor
that had an entry moves `m` (`ContributorCounted`).

*H264ParserProofs, the NAL units.* `IInv` says of the position `lpData` which starts lie before it: every
one of them is in the array (`Passed`), the unit being measured begins at a start
and has no end inside (`Measuring`), and between two entries no start lies
(`Ordered`, `NoneBetween`). The step from a start code of three or four bytes to
"a start is behind every 0 0 1" is a lemma about `isNalHead`, and likewise for
`isNalTail`.

*H264ParserProofs, the parameter set.* The proof goes from digits to fields to the
whole set. The provers know nothing of powers: that 2^(k+1) is twice 2^k is proved
by counting the subsets of 1..k+1 (`PowerDoubles`), and `Digit` and `LeadingDigit`
are what follows for the digits of a number. From the shape of a code
(`CodeShape`) and what the two loops of `get_ue_golomb` compute (`ZerosRead`,
`InfoRead`) comes `CodeRead`: at any bit of the buffer the written number is found.
`FieldRead` says the same of each way to read a field, also of
`delta_pic_order_always_zero_flag` = 1, whose one bit happens to be the code of 0,
and of what happens at the end of the buffer. `FieldInBits` finds the code of
field n in the bits of the whole set; `Offset` is its place, a sum of lengths,
which is proved about by induction through a set as above, because `FlattenSeq`
is a recursive function. `EndOf(ps, a)` counts the fields with one of the first
`a` names; by the order of the syntax they are the first ones (`FirstFields`), so
the reader at place `at` with `left` repetitions to go stands behind
`EndOf(sps, at) - left` fields (`FieldsRead`).

`SpsInv` then says that the reader is in one of two conditions. In `InSync` its
cursor is at the written place of the next field, and those numbers that decide
what comes next or are the size (`Known`) have their written values once they are
passed. Hence it expects every field as often as it was written (`TimesRight`), and
its next read begins at the right bit. In `RanOut` the bits came to an end before
the size: this takes a missing byte, because the stop bit keeps a whole set from
ending with a code; from then on every read finds the end again (`NothingRead`),
so a number of the size is 0 or was read before. `SizeRead` is what `InSync` says at
the last field and `RanOut` excludes; `SizeNotInvented` is what both say. The
assumption about the constants, `ParameterSetsAssumption`, is that a set which the
reader follows is in the syntax, as an encoder writes it; of other sets nothing is
claimed.

*Mp4Record.* The mutex is held by exactly the thread between lock and unlock, so
at most one thread has a frame in hand; that frame is younger than all in the
file and older than all in the queue. For `LateBounded`: behind the trailer
`m_bStart` is false, so no thread joins those that tested it, and a write uses one
of them up.

**Only model-checked.** The liveness properties (`BlockedConsumerServed`,
`StopComesBack`, `CallReturns`, `AllShown`, `StopReturns`) rest on fairness, which
the proof system does not handle. All invariants and action properties of the
passing runs are proved. The properties of the three violation runs are
false, as the runs show.

## 5. What is not modelled, and why

* Sizes that differ: `pYUVBuf` keeps the size of the first frame
  (`src/SampleGrabberCB.cpp:132`), an encoder the size of its push, and the
  receiver's buffer the size of the local camera (`DShowCaptureDlg.cpp:458`,
  undefined before the first capture). Nothing in the repository says what should
  happen when they disagree, so there is no property to check; every module has
  one size.
* Two receiving threads on one `RTPReceiver`, as after a restart: they share a
  session without a lock.
* The end of the program: no destructor runs while threads do.
* Listing devices, fitting the preview window, and the DirectShow objects.
* `H264_Decode_SPS` behind the size, the SVC profile, and the rest of the
  parsing in ffmpeg.
* The ways `InitRecord` can fail, and the audio thread of the recorder, which is
  never created.
* What lies in memory behind a short packet: a fragment of one byte has its second
  header there, and `RtpReceiver` lets it be anything; what an `Overrun` reads and
  writes before the program ends has no meaning that could be stated.
* The insides of DirectDraw, compression, jrtplib beyond `RtpLink` and `RtpSources` (its
  transmitters, RTCP builder and scheduler), DirectShow, libyuv, ffmpeg: external.
  They appear as the places where the program's state passes through them.
* Audio: `BufferCB` would queue it, but `StartCapture` renders no audio pin and
  nothing creates the AAC codec.
* `IASipCall.cpp` is in no project file.

Most of the repository is not the program: the headers under
`include/DirectShow`, ffmpeg, libyuv and jrtplib are more than nine tenths of its
lines, so the share of lines that the modules translate is small although little
of the program's own logic is left.

## 6. Plan

Done, in this order: the queue and its promise, the capture pipeline, the
packetizer, the depacketizer, the link and the stream, the setup of a capture;
then playback, the parser, the recorder, the table of sources, the proofs of the
capture pipeline, the parser, the recorder and the sources, and those of whole
pictures, of the counters and of playback; then the proofs of the link and the
stream, of the setup, of the receiver's buffer, and the queue's properties through
the refinement; last, the proof that the parameter set is read as it was written.

What is left is jrtplib's RTCP scheduler, should the receiver's reports come to
matter.

## 7. Running it

```
tlc -workers 2 -config MCFrameQueue.cfg MCFrameQueue.tla
tlapm FrameQueueProofs.tla
```

and likewise for the other pairs of `MC` module and configuration
(`MCFrameQueueAbort.cfg`, `MCCaptureSetupChoice.cfg` and `MCRtpStreamLoss.cfg` go
with the modules of their names' beginnings) and for the other proof modules. The
longest run, `stream`, takes between two and three minutes, `playback` and `sources`
one to two.
