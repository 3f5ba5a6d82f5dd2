------------------------------- MODULE Player -------------------------------
(***************************************************************************)
(* The player inside FFplay (ffplay.c) and the controls the library puts   *)
(* around it (ffplay_lib.c).                                               *)
(*                                                                         *)
(* A reader thread fills a packet queue for each stream, a decoder thread  *)
(* for each stream turns packets into frames in a ring, and the rings are  *)
(* emptied by the thread that calls ffplay_step, for video, and by the     *)
(* audio device, for sound.  Clients pause, resume, seek and stop by events*)
(* that ffplay_step handles.  A seek empties the packet queues and gives   *)
(* them a new serial number; what is on its way with an older one is       *)
(* dropped where it is met.                                                *)
(*                                                                         *)
(* Positions in the file are indices of Media.  One action is a section    *)
(* under one lock, or the access to one variable that threads share.  Time *)
(* is left out: the picture is due whenever ffplay_step looks.             *)
(***************************************************************************)
EXTENDS Integers, SequencesExt, FiniteSets

CONSTANTS
  Media,        \* the kinds of the packets of the file, in their order
  RingSize,     \* VIDEO_PICTURE_QUEUE_SIZE and SAMPLE_QUEUE_SIZE, by kind
  Delay,        \* frames a codec holds back until it is drained, by kind
  MinFrames,    \* MIN_FRAMES: packets beyond which a queue has enough
  Autoexit,     \* the option of that name
  Scripts       \* bound: what clients call, one call after the other

Kinds == Range(Media)

ASSUME MediaAssumption == Media \in Seq({"audio", "video"}) /\ Media # <<>>
ASSUME SizesAssumption == /\ RingSize \in [Kinds -> Nat \ {0, 1}] /\ Delay \in [Kinds -> Nat]
                          /\ MinFrames \in Nat
Events == [type : {"pause", "resume", "quit"}] \cup [type : {"seek"}, to : 0 .. Len(Media)]

ASSUME ScriptsAssumption == Scripts \subseteq Seq(Events)
ASSUME AutoexitAssumption == Autoexit \in BOOLEAN

VARIABLES
  q,       \* PacketQueue, by kind
  ring,    \* FrameQueue, by kind
  dec,     \* Decoder and its thread, by kind
  reader,  \* read_thread
  main,    \* the thread in ffplay_step
  device,  \* the thread in sdl_audio_callback
  is,      \* the rest of VideoState
  api,     \* the events of SDL and what clients have called
  played   \* history: per kind, what was played since the last seek

vars == <<q, ring, dec, reader, main, device, is, api, played>>

-----------------------------------------------------------------------------
Positions == 1 .. Len(Media)
Null == 0                     \* the packet that drains a decoder
Empty == [serial |-> 0, pos |-> 0]
Streams == {k \in Kinds : is.opened[k]}

(* Streams are taken one after the other, the sound first.                 *)
IsNext(k, todo) == k \in todo /\ (k = "video" => "audio" \notin todo)

Init ==
  /\ q = [k \in Kinds |-> [packets |-> <<>>, serial |-> 0, abort |-> TRUE]]
  /\ ring = [k \in Kinds |-> [slot |-> [i \in 0 .. RingSize[k] - 1 |-> Empty],
                              rindex |-> 0, windex |-> 0, size |-> 0, shown |-> 0]]
  /\ dec = [k \in Kinds |-> [at |-> "none", serial |-> -1, finished |-> 0,
                             codec |-> <<>>, draining |-> FALSE, frame |-> 0]]
  /\ reader = [at |-> "open", todo |-> Kinds, next |-> 1, target |-> 0, eof |-> FALSE]
  /\ main = [at |-> "events", closing |-> {}, slot |-> 0, frame |-> Empty]
  /\ device = [at |-> "closed", slot |-> 0, frame |-> Empty]
  /\ is = [abort |-> FALSE, paused |-> FALSE, step |-> FALSE, seekReq |-> FALSE, seekPos |-> 0,
           opened |-> [k \in Kinds |-> FALSE], vidclk |-> -1]
  /\ api \in [events : {<<>>}, todo : Scripts]
  /\ played = [k \in Kinds |-> [from |-> 0, frames |-> <<>>, dropped |-> {}]]

-----------------------------------------------------------------------------
(* Packet queues and frame queues. *)

(* SDL_CondSignal on the condition of a packet queue: its only waiter is   *)
(* the decoder.                                                            *)
Woken(d) == IF d.at = "asleep" THEN [d EXCEPT !.at = "get"] ELSE d

(* packet_queue_put, after an abort without effect.                        *)
Put(k, pos) ==
  IF q[k].abort THEN q[k]
  ELSE [q[k] EXCEPT !.packets = Append(@, [serial |-> q[k].serial, pos |-> pos])]

(* packet_queue_start and packet_queue_flush.                              *)
Started(p) == [p EXCEPT !.abort = FALSE, !.serial = @ + 1]
Flushed(p) == [p EXCEPT !.packets = <<>>, !.serial = @ + 1]

(* frame_queue_nb_remaining.                                               *)
Remaining(k) == ring[k].size - ring[k].shown

(* frame_queue_peek: the slot of the next frame to be played.              *)
PeekSlot(k) == (ring[k].rindex + ring[k].shown) % RingSize[k]

(* Mutant of FrameNext: the frame that is played is not kept.                   *)
FrameNextForgets(k) ==
  LET f == ring[k]
  IN  [f EXCEPT !.slot[f.rindex] = Empty,
                !.rindex = (@ + 1) % RingSize[k], !.size = @ - 1]

(* frame_queue_next: both rings keep the frame that was played last.       *)
FrameNext(k) ==
  LET f == ring[k]
  IN  IF f.shown = 0 THEN [f EXCEPT !.shown = 1]
      ELSE [f EXCEPT !.slot[f.rindex] = Empty,
                     !.rindex = (@ + 1) % RingSize[k], !.size = @ - 1]

(* Its signal, which only wakes a decoder that waits for room: there are   *)
(* frames, so that the device does not wait.                               *)
RoomFor(k) == IF ring[k].shown = 1 /\ dec[k].at = "full" THEN [dec[k] EXCEPT !.at = "frame"]
              ELSE dec[k]

(* A frame is played: history.                                             *)
Plays(k, frame) ==
  IF frame.serial = q[k].serial
  THEN [played EXCEPT ![k].frames = Append(@, frame.pos)] ELSE played

-----------------------------------------------------------------------------
(* The reader. *)

(* stream_component_open: the audio stream, then the video stream, if they *)
(* can be opened; packet_queue_start and a thread for the decoder.         *)
OpenStream(k) ==
  /\ reader.at = "open" /\ IsNext(k, reader.todo)
  /\ reader' = [reader EXCEPT !.todo = @ \ {k}, !.eof = FALSE]
  /\ q' = [q EXCEPT ![k] = Started(@)]
  /\ dec' = [dec EXCEPT ![k].at = "top"]
  /\ is' = [is EXCEPT !.opened[k] = TRUE]
  /\ device' = IF k = "audio" THEN [device EXCEPT !.at = "idle"] ELSE device
  /\ UNCHANGED <<ring, main, api, played>>

OpenFails(k) ==
  /\ reader.at = "open" /\ IsNext(k, reader.todo)
  /\ reader' = [reader EXCEPT !.todo = @ \ {k}]
  /\ UNCHANGED <<q, ring, dec, main, device, is, api, played>>

(* The end of read_thread; after an error it asks for the player to quit.  *)
Leave(at, error) ==
  /\ reader' = [reader EXCEPT !.at = at]
  /\ api' = IF error THEN [api EXCEPT !.events = Append(@, [type |-> "quit"])] ELSE api
  /\ UNCHANGED <<q, ring, dec, main, device, is, played>>

Opened ==
  /\ reader.at = "open" /\ reader.todo = {}
  /\ IF Streams = {} THEN Leave("done", TRUE) ELSE Leave("loop", FALSE)

ReadAborts == reader.at = "loop" /\ is.abort /\ Leave("done", FALSE)

(* The loop finds a request to seek and calls avformat_seek_file.          *)
SeekBegins ==
  /\ reader.at = "loop" /\ ~is.abort /\ is.seekReq
  /\ reader' = [reader EXCEPT !.at = "seek", !.target = is.seekPos]
  /\ UNCHANGED <<q, ring, dec, main, device, is, api, played>>

SeekReturns(ok) ==
  /\ reader.at = "seek"
  /\ reader' = IF ok THEN [reader EXCEPT !.at = "flush", !.next = reader.target + 1, !.todo = Streams]
               ELSE [reader EXCEPT !.at = "sought"]
  /\ UNCHANGED <<q, ring, dec, main, device, is, api, played>>

SeekFlushes(k) ==
  /\ reader.at = "flush" /\ IsNext(k, reader.todo)
  /\ q' = [q EXCEPT ![k] = Flushed(@)]
  /\ played' = [played EXCEPT ![k] = [from |-> reader.target, frames |-> <<>>, dropped |-> {}]]
  /\ reader' = [reader EXCEPT !.todo = @ \ {k}, !.at = IF reader.todo = {k} THEN "sought" ELSE @]
  /\ UNCHANGED <<ring, dec, main, device, is, api>>

SeekEnds ==
  /\ reader.at = "sought"
  /\ is' = [is EXCEPT !.seekReq = FALSE]
  /\ reader' = [reader EXCEPT !.eof = FALSE, !.at = IF is.paused THEN "step" ELSE "read"]
  /\ UNCHANGED <<q, ring, dec, main, device, api, played>>

(* step_to_next_frame looks again, and stream_toggle_pause negates.        *)
StepLooks ==
  /\ reader.at = "step"
  /\ reader' = [reader EXCEPT !.at = IF is.paused THEN "toggle" ELSE "mark"]
  /\ UNCHANGED <<q, ring, dec, main, device, is, api, played>>

StepToggles ==
  /\ reader.at = "toggle"
  /\ is' = [is EXCEPT !.paused = ~@]
  /\ reader' = [reader EXCEPT !.at = "mark"]
  /\ UNCHANGED <<q, ring, dec, main, device, api, played>>

StepMarks ==
  /\ reader.at = "mark"
  /\ is' = [is EXCEPT !.step = TRUE]
  /\ reader' = [reader EXCEPT !.at = "read"]
  /\ UNCHANGED <<q, ring, dec, main, device, api, played>>

(* Nothing to do before the next packet is read.                           *)
Reading == reader.at = "read" \/ (reader.at = "loop" /\ ~is.abort /\ ~is.seekReq)

(* stream_has_enough_packets for all streams: wait and look again.         *)
Enough == \A k \in Streams : q[k].abort \/ Len(q[k].packets) > MinFrames

ReadWaits ==
  /\ Reading /\ Enough
  /\ reader' = [reader EXCEPT !.at = "loop"]
  /\ UNCHANGED <<q, ring, dec, main, device, is, api, played>>

(* Mutant of AllPlayed: does not look into the rings.                      *)
AllDecoded ==
  ~is.paused /\ \A k \in Streams : dec[k].finished = q[k].serial

(* Everything was decoded and played; once true this stays so until the    *)
(* reader itself seeks.                                                    *)
AllPlayed ==
  ~is.paused /\ \A k \in Streams : dec[k].finished = q[k].serial /\ Remaining(k) = 0

ReadEnds == Reading /\ ~Enough /\ AllPlayed /\ Autoexit /\ Leave("ended", TRUE)

(* av_read_frame fails for good.                                           *)
ReadFails == Reading /\ ~Enough /\ ~(AllPlayed /\ Autoexit) /\ Leave("done", Autoexit)

(* av_read_frame returns a packet, which is queued or dropped.             *)
ReadPacket ==
  /\ Reading /\ ~Enough /\ ~(AllPlayed /\ Autoexit) /\ reader.next \in Positions
  /\ LET k == Media[reader.next]
     IN  IF is.opened[k]
         THEN q' = [q EXCEPT ![k] = Put(k, reader.next)] /\ dec' = [dec EXCEPT ![k] = Woken(@)]
         ELSE UNCHANGED <<q, dec>>
  /\ reader' = [reader EXCEPT !.next = @ + 1, !.eof = FALSE, !.at = "loop"]
  /\ UNCHANGED <<ring, main, device, is, api, played>>

(* At the end of the file each decoder gets one packet that drains it.     *)
ReadEof ==
  /\ Reading /\ ~Enough /\ ~(AllPlayed /\ Autoexit) /\ reader.next \notin Positions
  /\ IF reader.eof THEN UNCHANGED <<q, dec>>
     ELSE /\ q' = [k \in Kinds |-> IF is.opened[k] THEN Put(k, Null) ELSE q[k]]
          /\ dec' = [k \in Kinds |-> IF is.opened[k] THEN Woken(dec[k]) ELSE dec[k]]
  /\ reader' = [reader EXCEPT !.eof = TRUE, !.at = "loop"]
  /\ UNCHANGED <<ring, main, device, is, api, played>>

Reader ==
  \/ \E k \in Kinds : OpenStream(k) \/ OpenFails(k) \/ SeekFlushes(k)
  \/ Opened \/ ReadAborts \/ SeekBegins \/ (\E ok \in BOOLEAN : SeekReturns(ok)) \/ SeekEnds
  \/ StepLooks \/ StepToggles \/ StepMarks
  \/ ReadWaits \/ ReadEnds \/ ReadFails \/ ReadPacket \/ ReadEof
-----------------------------------------------------------------------------
(* The decoders. *)

Decoders(k, d) == dec' = [dec EXCEPT ![k] = d]

(* decoder_decode_frame first takes what the codec has, if it is not stale.*)
Receive(k) ==
  LET d == dec[k]
      out == IF d.draining THEN d.codec # <<>> ELSE Len(d.codec) > Delay[k]
  IN  /\ d.at = "top"
      /\ Decoders(k, CASE q[k].serial # d.serial -> [d EXCEPT !.at = "get"]
                       [] q[k].serial = d.serial /\ q[k].abort -> [d EXCEPT !.at = "done"]
                       [] q[k].serial = d.serial /\ ~q[k].abort /\ out ->
                            [d EXCEPT !.at = "frame", !.frame = Head(d.codec), !.codec = Tail(@)]
                       [] q[k].serial = d.serial /\ ~q[k].abort /\ ~out /\ d.draining ->
                            [d EXCEPT !.finished = d.serial, !.draining = FALSE]
                       [] OTHER -> [d EXCEPT !.at = "get"])
      /\ UNCHANGED <<q, ring, reader, main, device, is, api, played>>

(* Mutant of Taken: what is in the codec stays there.                      *)
TakenOnly(d, p) == [d EXCEPT !.serial = p.serial, !.finished = IF p.serial # d.serial THEN 0 ELSE @]

(* The decoder d after packet_queue_get returned p: a new serial empties   *)
(* the codec.                                                              *)
Taken(d, p) ==
  IF p.serial = d.serial THEN d
  ELSE [d EXCEPT !.serial = p.serial, !.finished = 0, !.codec = <<>>, !.draining = FALSE]

(* avcodec_send_packet, unless the packet is stale.                        *)
Sent(k, d, p) ==
  IF p.serial # q[k].serial THEN d
  ELSE IF p.pos = Null THEN [d EXCEPT !.draining = TRUE, !.at = "top"]
  ELSE [d EXCEPT !.codec = Append(@, p.pos), !.at = "top"]

GetPacket(k) ==
  LET d == dec[k]
      p == Head(q[k].packets)
  IN  /\ d.at = "get"
      /\ IF q[k].abort \/ q[k].packets = <<>>
         THEN Decoders(k, [d EXCEPT !.at = IF q[k].abort THEN "done" ELSE "asleep"]) /\ UNCHANGED q
         ELSE Decoders(k, Sent(k, Taken(d, p), p)) /\ q' = [q EXCEPT ![k].packets = Tail(@)]
      /\ UNCHANGED <<ring, reader, main, device, is, api, played>>

(* get_video_frame drops a picture that is late already.                   *)
DropEarly(k) ==
  /\ dec[k].at = "frame" /\ k = "video"
  /\ dec[k].serial = is.vidclk /\ q[k].packets # <<>>
  /\ Decoders(k, [dec[k] EXCEPT !.at = "top"])
  /\ played' = IF dec[k].serial = q[k].serial THEN [played EXCEPT ![k].dropped = @ \cup {dec[k].frame}]
               ELSE played
  /\ UNCHANGED <<q, ring, reader, main, device, is, api>>

(* Mutant of Reserve: the size of the ring is not looked at.               *)
ReserveAny(k) ==
  /\ dec[k].at = "frame"
  /\ Decoders(k, [dec[k] EXCEPT !.at = IF q[k].abort THEN "done" ELSE "write"])
  /\ ring' = IF q[k].abort THEN ring ELSE [ring EXCEPT ![k].slot[ring[k].windex] = Empty]
  /\ UNCHANGED <<q, reader, main, device, is, api, played>>

(* frame_queue_peek_writable; then the frame is being written.             *)
Reserve(k) ==
  LET f == ring[k]
      full == f.size >= RingSize[k]
      at == CASE q[k].abort -> "done" [] ~q[k].abort /\ full -> "full" [] OTHER -> "write"
  IN  /\ dec[k].at = "frame"
      /\ Decoders(k, [dec[k] EXCEPT !.at = at])
      /\ ring' = IF at = "write" THEN [ring EXCEPT ![k].slot[f.windex] = Empty] ELSE ring
      /\ UNCHANGED <<q, reader, main, device, is, api, played>>

(* frame_queue_push, and the signal to the device if it waits.             *)
Push(k) ==
  LET f == ring[k]
  IN  /\ dec[k].at = "write"
      /\ ring' = [ring EXCEPT ![k] = [f EXCEPT
                   !.slot[f.windex] = [serial |-> dec[k].serial, pos |-> dec[k].frame],
                   !.windex = (@ + 1) % RingSize[k], !.size = @ + 1]]
      /\ Decoders(k, [dec[k] EXCEPT !.at = "top"])
      /\ device' = IF k = "audio" /\ device.at = "asleep" THEN [device EXCEPT !.at = "peek"] ELSE device
      /\ UNCHANGED <<q, reader, main, is, api, played>>

(* The filters cannot be configured or fail: the thread ends, and the one  *)
(* for video may ask for the player to quit.                               *)
FilterFails(k, quits) ==
  /\ dec[k].at = "frame" /\ (quits => k = "video")
  /\ Decoders(k, [dec[k] EXCEPT !.at = "done"])
  /\ api' = IF quits THEN [api EXCEPT !.events = Append(@, [type |-> "quit"])] ELSE api
  /\ UNCHANGED <<q, ring, reader, main, device, is, played>>

Decode(k) ==
  \/ Receive(k) \/ GetPacket(k) \/ DropEarly(k) \/ Reserve(k) \/ Push(k)
  \/ \E quits \in BOOLEAN : FilterFails(k, quits)

-----------------------------------------------------------------------------
(* The audio device. *)

(* sdl_audio_callback wants samples; a paused player gives silence.  Else  *)
(* frame_queue_peek_readable and frame_queue_next, until a frame is fresh. *)
DeviceTakes ==
  LET k == "audio"
      i == PeekSlot(k)
      frame == ring[k].slot[i]
  IN  /\ device.at = "peek" \/ (device.at = "idle" /\ ~is.paused)
      /\ IF q[k].abort \/ Remaining(k) <= 0
         THEN /\ device' = [device EXCEPT !.at = IF q[k].abort THEN "idle" ELSE "asleep"]
              /\ UNCHANGED <<ring, dec, played>>
         ELSE /\ ring' = [ring EXCEPT ![k] = FrameNext(k)]
              /\ dec' = [dec EXCEPT ![k] = RoomFor(k)]
              /\ played' = Plays(k, frame)
              /\ device' = IF frame.serial = q[k].serial
                           THEN [at |-> "play", slot |-> i, frame |-> frame] ELSE device
      /\ UNCHANGED <<q, reader, main, is, api>>

(* The samples are copied.                                                 *)
DevicePlays ==
  /\ device.at = "play"
  /\ device' = [at |-> "idle", slot |-> 0, frame |-> Empty]
  /\ UNCHANGED <<q, ring, dec, reader, main, is, api, played>>

Device == DeviceTakes \/ DevicePlays

-----------------------------------------------------------------------------
(* ffplay_step: first all events, then the picture. *)

(* What the handler of an event does to the state; a wish to pause or to   *)
(* resume that is not met yet toggles in a step of its own, because the    *)
(* reader toggles without the lock of the API.                             *)
HandleEvent ==
  LET e == Head(api.events)
      toggles == (e.type = "pause" /\ ~is.paused) \/ (e.type = "resume" /\ is.paused)
  IN  /\ main.at = "events" /\ api.events # <<>>
      /\ api' = [api EXCEPT !.events = Tail(@)]
      /\ is' = CASE e.type = "quit" -> [is EXCEPT !.abort = TRUE]
                 [] e.type = "seek" /\ ~is.seekReq -> [is EXCEPT !.seekReq = TRUE, !.seekPos = e.to]
                 [] OTHER -> is
      /\ main' = [main EXCEPT !.at = CASE e.type = "quit" -> "join" [] toggles -> "toggle" [] OTHER -> @]
      /\ UNCHANGED <<q, ring, dec, reader, device, played>>

(* All events are handled, and the player shows pictures.                  *)
Refreshing ==
  \/ main.at = "refresh"
  \/ main.at = "events" /\ api.events = <<>> /\ "video" \in Streams /\ ~is.paused

(* video_refresh drops stale pictures, and may find the next one not due.  *)
DropStale(at) ==
  LET k == "video"
  IN  /\ Refreshing
      /\ Remaining(k) > 0 /\ ring[k].slot[PeekSlot(k)].serial # q[k].serial
      /\ ring' = [ring EXCEPT ![k] = FrameNext(k)]
      /\ dec' = [dec EXCEPT ![k] = RoomFor(k)]
      /\ main' = [main EXCEPT !.at = at]
      /\ UNCHANGED <<q, reader, device, is, api, played>>

Refresh ==
  LET k == "video"
      frame == ring[k].slot[PeekSlot(k)]
  IN  /\ Refreshing
      /\ Remaining(k) = 0 \/ frame.serial = q[k].serial
      /\ main' = IF Remaining(k) = 0 \/ is.paused THEN [main EXCEPT !.at = "events"]
                 ELSE [main EXCEPT !.at = "show", !.slot = PeekSlot(k), !.frame = frame]
      /\ UNCHANGED <<q, ring, dec, reader, device, is, api, played>>

(* The picture sets the clock and becomes the one on screen, unless it is  *)
(* so late that the one after it is tried.                                 *)
Show(late) ==
  LET k == "video"
  IN  /\ main.at = "show"
      /\ late => Remaining(k) > 1 /\ ~is.step
      /\ is' = [is EXCEPT !.vidclk = main.frame.serial]
      /\ ring' = [ring EXCEPT ![k] = FrameNext(k)]
      /\ dec' = [dec EXCEPT ![k] = RoomFor(k)]
      /\ played' = Plays(k, main.frame)
      /\ main' = [main EXCEPT !.at = IF late THEN "refresh" ELSE "shown",
                              !.slot = 0, !.frame = Empty]
      /\ UNCHANGED <<q, reader, device, api>>

(* After a step the player pauses.                                         *)
ShowLooks ==
  /\ main.at = "shown"
  /\ main' = [main EXCEPT !.at = IF is.step /\ ~is.paused THEN "toggle" ELSE "events"]
  /\ UNCHANGED <<q, ring, dec, reader, device, is, api, played>>

(* stream_toggle_pause.                                                    *)
Toggle ==
  /\ main.at = "toggle"
  /\ is' = [is EXCEPT !.paused = ~@]
  /\ main' = [main EXCEPT !.at = "events"]
  /\ UNCHANGED <<q, ring, dec, reader, device, api, played>>

(* stream_close, under the lock of the API: wait for the reader, then close*)
(* one stream after the other.                                             *)
JoinReader ==
  /\ main.at = "join" /\ reader.at \in {"done", "ended"}
  /\ main' = [main EXCEPT !.at = IF Streams = {} THEN "closed" ELSE "abort", !.closing = Streams]
  /\ UNCHANGED <<q, ring, dec, reader, device, is, api, played>>

(* packet_queue_abort.                                                     *)
AbortQueue(k) ==
  /\ main.at = "abort" /\ IsNext(k, main.closing)
  /\ q' = [q EXCEPT ![k].abort = TRUE]
  /\ dec' = [dec EXCEPT ![k] = Woken(@)]
  /\ main' = [main EXCEPT !.at = "signal"]
  /\ UNCHANGED <<ring, reader, device, is, api, played>>

(* Mutant of SignalRing: packet_queue_abort alone.                         *)
SignalNobody(k) ==
  /\ main.at = "signal" /\ IsNext(k, main.closing)
  /\ main' = [main EXCEPT !.at = "decoder"]
  /\ UNCHANGED <<q, ring, dec, reader, device, is, api, played>>

(* frame_queue_signal wakes the decoder or the device, whichever waits.    *)
SignalRing(k) ==
  /\ main.at = "signal" /\ IsNext(k, main.closing)
  /\ dec' = IF dec[k].at = "full" THEN [dec EXCEPT ![k].at = "frame"] ELSE dec
  /\ device' = IF k = "audio" /\ device.at = "asleep" THEN [device EXCEPT !.at = "peek"] ELSE device
  /\ main' = [main EXCEPT !.at = "decoder"]
  /\ UNCHANGED <<q, ring, reader, is, api, played>>

(* SDL_WaitThread, packet_queue_flush, and SDL_CloseAudioDevice, which     *)
(* waits for the callback.                                                 *)
JoinDecoder(k) ==
  /\ main.at = "decoder" /\ IsNext(k, main.closing)
  /\ dec[k].at = "done" /\ (k = "audio" => device.at = "idle")
  /\ q' = [q EXCEPT ![k] = Flushed(@)]
  /\ device' = IF k = "audio" THEN [device EXCEPT !.at = "closed"] ELSE device
  /\ main' = [main EXCEPT !.at = IF main.closing = {k} THEN "closed" ELSE "abort",
                          !.closing = @ \ {k}]
  /\ UNCHANGED <<ring, dec, reader, is, api, played>>

Main ==
  \/ HandleEvent \/ (\E at \in {"refresh", "events"} : DropStale(at)) \/ Refresh
  \/ (\E late \in BOOLEAN : Show(late)) \/ ShowLooks \/ Toggle \/ JoinReader
  \/ \E k \in Kinds : AbortQueue(k) \/ SignalRing(k) \/ JoinDecoder(k)

-----------------------------------------------------------------------------
(* The clients; ffplay_step keeps the lock of the API while it closes.     *)

Closing == main.at \in {"join", "abort", "signal", "decoder", "closed"}

(* ffplay_pause, ffplay_resume, ffplay_stop and ffplay_seek.               *)
Call ==
  /\ api.todo # <<>> /\ ~Closing
  /\ api' = [api EXCEPT !.events = Append(@, Head(api.todo)), !.todo = Tail(@)]
  /\ UNCHANGED <<q, ring, dec, reader, main, device, is, played>>

Finished == main.at = "closed" /\ UNCHANGED vars

Next ==
  \/ Reader \/ (\E k \in Kinds : Decode(k)) \/ Device \/ Main \/ Call \/ Finished

Spec == Init /\ [][Next]_vars

-----------------------------------------------------------------------------
(* Type correctness: the places of the threads, the indices of the rings   *)
(* and what the queues hold.                                               *)
TypeOK ==
  /\ \A k \in Kinds :
       /\ q[k].packets \in Seq([serial : Nat, pos : Positions \cup {Null}])
       /\ q[k].serial \in Nat /\ q[k].abort \in BOOLEAN
       /\ ring[k].slot \in [0 .. RingSize[k] - 1 -> [serial : Int, pos : Nat]]
       /\ ring[k].rindex \in 0 .. RingSize[k] - 1 /\ ring[k].windex \in 0 .. RingSize[k] - 1
       /\ ring[k].shown \in {0, 1} /\ ring[k].size \in ring[k].shown .. RingSize[k]
       /\ dec[k].at \in {"none", "top", "get", "asleep", "frame", "full", "write", "done"}
       /\ dec[k].codec \in Seq(Positions) /\ dec[k].serial \in Int
  /\ main.at \in {"events", "refresh", "show", "shown", "toggle", "join", "abort", "signal",
                  "decoder", "closed"}
  /\ device.at \in {"closed", "idle", "peek", "asleep", "play"}
  /\ is.paused \in BOOLEAN /\ is.vidclk \in Int

(* The frame the device plays or the screen shows is still in its slot, and*)
(* no decoder writes into the slot of a frame that was not played yet or is*)
(* the last that was: frame_queue_peek and its variants return pointers    *)
(* that are used after the mutex is released.                              *)
FrameInUseIsKept ==
  /\ device.at = "play" => ring["audio"].slot[device.slot] = device.frame
  /\ main.at = "show" => ring["video"].slot[main.slot] = main.frame
  /\ \A k \in Kinds : \A i \in 0 .. ring[k].size - 1 :
       ring[k].slot[(ring[k].rindex + i) % RingSize[k]] # Empty

(* The frames of a stream that are to be played.                           *)
Due(k) == {p \in Positions : Media[p] = k /\ p > played[k].from /\ p \notin played[k].dropped}

(* From the position of the last seek on, the frames of a stream are played*)
(* in their order and none is left out but those dropped for being late;   *)
(* nothing that was on its way before the seek is played (the serials).    *)
PlayedInOrder ==
  \A k \in Kinds :
    LET f == played[k].frames
    IN  /\ \A i, j \in 1 .. Len(f) : i < j => f[i] < f[j]
        /\ \A i \in 1 .. Len(f) : f[i] \in Due(k)
        /\ \A p \in Due(k), i \in 1 .. Len(f) : p < f[i] => \E j \in 1 .. Len(f) : f[j] = p

(* With -autoexit the player quits at the end of the file only after the   *)
(* last frame of each stream was played (or dropped).                      *)
QuitMeansPlayed ==
  reader.at = "ended" =>
    \A k \in Streams : \A i \in Positions :
      Media[i] = k /\ i > played[k].from => i \in Range(played[k].frames) \cup played[k].dropped

(* No wake-up is lost: who sleeps on a queue has a reason to, and whoever  *)
(* takes the reason away wakes it.  Only between packet_queue_abort and    *)
(* frame_queue_signal a thread may sleep on a ring that is aborted.        *)
NoLostWakeup ==
  \A k \in Kinds :
    LET signalling == main.at = "signal" /\ IsNext(k, main.closing)
    IN  /\ dec[k].at = "asleep" => q[k].packets = <<>> /\ ~q[k].abort
        /\ dec[k].at = "full" => ring[k].size = RingSize[k] /\ (q[k].abort => signalling)
        /\ k = "audio" /\ device.at = "asleep" => Remaining(k) = 0 /\ (q[k].abort => signalling)

=============================================================================
