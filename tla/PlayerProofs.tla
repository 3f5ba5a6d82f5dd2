----------------------------- MODULE PlayerProofs -----------------------------
(* Proofs about Player.                                                    *)
EXTENDS Player, TLAPS

-----------------------------------------------------------------------------
(* The invariant.                                                          *)

Frame == [serial : Int, pos : Nat]
Queue == [packets : Seq([serial : Nat, pos : Positions \cup {Null}]), serial : Nat, abort : BOOLEAN]
Slots(k) == [0 .. RingSize[k] - 1 -> Frame]
RingOf(k) ==
  [slot : Slots(k), rindex : 0 .. RingSize[k] - 1, windex : 0 .. RingSize[k] - 1,
   size : 0 .. RingSize[k], shown : {0, 1}]
Decoder ==
  [at : {"none", "top", "get", "asleep", "frame", "full", "write", "done"}, serial : Int,
   finished : Int, codec : Seq(Positions), draining : BOOLEAN, frame : Nat]

ReaderTypes ==
  reader \in [at : {"open", "loop", "seek", "flush", "sought", "step", "toggle", "mark", "read",
                    "done", "ended"},
              todo : SUBSET Kinds, next : Nat, target : 0 .. Len(Media), eof : BOOLEAN]
MainTypes ==
  main \in [at : {"events", "refresh", "show", "shown", "toggle", "join", "abort", "signal",
                  "decoder", "closed"},
            closing : SUBSET Kinds, slot : Nat, frame : Frame]
DeviceTypes ==
  device \in [at : {"closed", "idle", "peek", "asleep", "play"}, slot : Nat, frame : Frame]
StateTypes ==
  is \in [abort : BOOLEAN, paused : BOOLEAN, step : BOOLEAN, seekReq : BOOLEAN,
          seekPos : 0 .. Len(Media), opened : [Kinds -> BOOLEAN], vidclk : Int]
ApiTypes ==
  api \in [events : Seq(Events), todo : Seq(Events)]
QueueTypes == q \in [Kinds -> Queue]
DecoderTypes == dec \in [Kinds -> Decoder]
RingTypes == ring = [k \in Kinds |-> ring[k]] /\ \A k \in Kinds : ring[k] \in RingOf(k)

Types ==
  /\ ReaderTypes /\ MainTypes /\ DeviceTypes /\ StateTypes /\ ApiTypes
  /\ QueueTypes /\ DecoderTypes /\ RingTypes

(* Threads only work on streams that the file has, and on frames of it.    *)
Sound(d) == d.at \in {"frame", "full", "write"} => d.frame \in Positions
Places ==
  /\ main.at \in {"refresh", "show"} => "video" \in Kinds
  /\ device.at # "closed" => "audio" \in Kinds
  /\ \A k \in Kinds : Sound(dec[k])

(* The slot of the i-th frame of the ring of k.                            *)
SlotOf(k, i) == (ring[k].rindex + i) % RingSize[k]

(* The ring holds size frames from rindex on, the first of which was shown *)
(* perhaps; the decoder writes behind them, if there is room.              *)
Contents(k) ==
  /\ ring[k].shown <= ring[k].size
  /\ ring[k].windex = SlotOf(k, ring[k].size)
  /\ \A i \in 0 .. ring[k].size - 1 : ring[k].slot[SlotOf(k, i)] # Empty

RingHolds(k) == Contents(k) /\ (dec[k].at = "write" => ring[k].size < RingSize[k])

Rings == \A k \in Kinds : RingHolds(k)

(* What is in use is the frame that was shown last, for the device, or the *)
(* next to be shown, for the screen.                                       *)
InUse ==
  /\ device.at = "play" =>
       /\ ring["audio"].shown = 1 /\ device.slot = ring["audio"].rindex
       /\ ring["audio"].slot[device.slot] = device.frame
  /\ main.at = "show" =>
       /\ ring["video"].shown < ring["video"].size
       /\ main.slot = SlotOf("video", ring["video"].shown)
       /\ ring["video"].slot[main.slot] = main.frame

Inv == Types /\ Places /\ Rings /\ InUse /\ NoLostWakeup

-----------------------------------------------------------------------------
(* Slots of a ring.                                                        *)

LEMMA KindsAre ==
  /\ Kinds \subseteq {"audio", "video"}
  /\ \A i \in Positions : Media[i] \in Kinds
  /\ Len(Media) \in Nat
BY MediaAssumption DEF Kinds, Range, Positions

LEMMA RingSizes == \A k \in Kinds : RingSize[k] \in Nat /\ RingSize[k] >= 2
BY SizesAssumption

Wrapped(a, R) == IF a < R THEN a ELSE a - R

LEMMA Wraps ==
  ASSUME NEW R \in Nat, R >= 2, NEW i \in 0 .. R - 1, NEW n \in 0 .. R
  PROVE  (i + n) % R = Wrapped(i + n, R)
<1> USE DEF Wrapped
<1>1. CASE i + n < R
    BY <1>1
<1>2. CASE i + n >= R
    <2>1. i + n \in R .. 2 * R - 1
        BY <1>2
    <2> DEFINE a == i + n
    <2> HIDE DEF a
    <2>2. ASSUME a \in R .. 2 * R - 1 PROVE a % R = a - R
        BY <2>2
    <2>3. QED
        BY <1>2, <2>1, <2>2 DEF a
<1>3. QED
    BY <1>1, <1>2

LEMMA SlotIs ==
  ASSUME RingTypes, NEW k \in Kinds, NEW n \in 0 .. RingSize[k]
  PROVE  /\ SlotOf(k, n) = Wrapped(ring[k].rindex + n, RingSize[k])
         /\ SlotOf(k, n) \in 0 .. RingSize[k] - 1
<1>1. ring[k].rindex \in 0 .. RingSize[k] - 1
    BY DEF RingTypes, RingOf
<1>2. SlotOf(k, n) = Wrapped(ring[k].rindex + n, RingSize[k])
    BY <1>1, RingSizes, Wraps, Zenon DEF SlotOf
<1>3. Wrapped(ring[k].rindex + n, RingSize[k]) \in 0 .. RingSize[k] - 1
    BY <1>1, RingSizes DEF Wrapped
<1>4. QED
    BY <1>2, <1>3

(* Reading and writing of frames that lie next to each other.              *)
LEMMA SlotsDiffer ==
  ASSUME RingTypes, NEW k \in Kinds, NEW m \in 0 .. RingSize[k], NEW n \in 0 .. RingSize[k],
         m < n, n - m < RingSize[k]
  PROVE  SlotOf(k, m) # SlotOf(k, n)
<1>1. ring[k].rindex \in 0 .. RingSize[k] - 1
    BY DEF RingTypes, RingOf
<1>2. QED
    BY <1>1, SlotIs, RingSizes DEF Wrapped

LEMMA RingUpdate ==
  ASSUME RingTypes, NEW k \in Kinds, NEW f \in RingOf(k), ring' = [ring EXCEPT ![k] = f]
  PROVE  RingTypes' /\ ring'[k] = f /\ \A j \in Kinds \ {k} : ring'[j] = ring[j]
<1>1. ring'[k] = f /\ \A j \in Kinds \ {k} : ring'[j] = ring[j]
    BY DEF RingTypes
<1>2. ring' = [j \in Kinds |-> ring'[j]]
    BY DEF RingTypes
<1>3. \A j \in Kinds : RingOf(j)' = RingOf(j)
    BY DEF RingOf, Slots, Frame
<1>4. QED
    BY <1>1, <1>2, <1>3 DEF RingTypes

(* frame_queue_next, when there is a frame to be played.                   *)
LEMMA NextHolds ==
  ASSUME RingTypes, NEW k \in Kinds, RingHolds(k), ring[k].shown < ring[k].size
  PROVE  LET f == FrameNext(k)
         IN  /\ f \in RingOf(k) /\ f.shown = 1 /\ f.rindex = PeekSlot(k)
             /\ f.slot[f.rindex] = ring[k].slot[PeekSlot(k)]
             /\ f.size = IF ring[k].shown = 0 THEN ring[k].size ELSE ring[k].size - 1
             /\ f.size >= 1 /\ f.windex = ring[k].windex
             /\ f.windex = (f.rindex + f.size) % RingSize[k]
             /\ \A i \in 0 .. f.size - 1 : f.slot[(f.rindex + i) % RingSize[k]] # Empty
             /\ \A i \in 1 .. f.size - 1 :
                  f.slot[(f.rindex + i) % RingSize[k]] = ring[k].slot[SlotOf(k, i + ring[k].shown)]
<1> DEFINE g == ring[k]
           R == RingSize[k]
<1>1. /\ g.slot \in Slots(k) /\ g.rindex \in 0 .. R - 1 /\ g.windex \in 0 .. R - 1
      /\ g.size \in 0 .. R /\ g.shown \in {0, 1} /\ g \in RingOf(k) /\ R \in Nat /\ R >= 2
    BY RingSizes DEF RingTypes, RingOf
<1>2. CASE g.shown = 0
    <2>1. FrameNext(k) = [g EXCEPT !.shown = 1]
        BY <1>2 DEF FrameNext
    <2>2. PeekSlot(k) = g.rindex
        <3>1. PeekSlot(k) = SlotOf(k, 0)
            BY <1>2 DEF PeekSlot, SlotOf
        <3>2. QED
            BY <1>1, <3>1, SlotIs DEF Wrapped
    <2> DEFINE f == [g EXCEPT !.shown = 1]
    <2>3. /\ f \in RingOf(k) /\ f.shown = 1 /\ f.rindex = g.rindex /\ f.slot = g.slot
          /\ f.size = g.size /\ f.windex = g.windex
        BY <1>1 DEF RingOf
    <2> HIDE DEF f
    <2>4. /\ f.windex = (f.rindex + f.size) % R
          /\ \A i \in 0 .. f.size - 1 : f.slot[(f.rindex + i) % R] # Empty
        BY <2>3 DEF RingHolds, Contents, SlotOf
    <2>5. \A i \in 1 .. f.size - 1 : f.slot[(f.rindex + i) % R] = g.slot[SlotOf(k, i + g.shown)]
        BY <1>1, <1>2, <2>3 DEF SlotOf
    <2>6. QED
        BY <1>1, <1>2, <2>1, <2>2, <2>3, <2>4, <2>5 DEF f
<1>3. CASE g.shown = 1
    <2> DEFINE next == (g.rindex + 1) % R
    <2>1. PeekSlot(k) = next /\ g.size >= 2
        BY <1>1, <1>3 DEF PeekSlot
    <2>2. next = Wrapped(g.rindex + 1, R)
        <3>1. 1 \in 0 .. R
            BY <1>1
        <3>2. QED
            BY <1>1, <3>1, Wraps, Zenon
    <2> DEFINE f == [g EXCEPT !.slot = [g.slot EXCEPT ![g.rindex] = Empty],
                              !.rindex = next, !.size = g.size - 1]
    <2>3. FrameNext(k) = f
        BY <1>1, <1>3 DEF FrameNext, RingOf
    <2> HIDE DEF next
    <2>4. Empty \in Frame /\ next \in 0 .. R - 1 /\ next # g.rindex
        BY <1>1, <2>2 DEF Empty, Frame, Wrapped
    <2>5. /\ f \in RingOf(k) /\ f.shown = 1 /\ f.rindex = next
          /\ f.slot = [g.slot EXCEPT ![g.rindex] = Empty]
          /\ f.size = g.size - 1 /\ f.windex = g.windex
        <3> DEFINE slot == [g.slot EXCEPT ![g.rindex] = Empty]
                   size == g.size - 1
        <3>1. slot \in Slots(k)
            BY <1>1, <2>4 DEF Slots
        <3>2. size \in 0 .. R
            BY <1>1, <2>1
        <3>3. f = [g EXCEPT !.slot = slot, !.rindex = next, !.size = size]
            BY DEF f
        <3> HIDE DEF slot, size
        <3>4. /\ f \in RingOf(k) /\ f.shown = 1 /\ f.rindex = next
              /\ f.slot = slot /\ f.size = size /\ f.windex = g.windex
            BY <1>1, <1>3, <2>4, <3>1, <3>2, <3>3 DEF RingOf
        <3>5. QED
            BY <3>4 DEF slot, size
    <2> HIDE DEF f
    <2>6. ASSUME NEW i \in 0 .. f.size
          PROVE  (f.rindex + i) % R = SlotOf(k, i + 1)
        <3>1. (f.rindex + i) % R = Wrapped(f.rindex + i, R)
            <4>1. f.rindex \in 0 .. R - 1 /\ i \in 0 .. R
                BY <1>1, <2>4, <2>5
            <4>2. QED
                BY <1>1, <4>1, Wraps, Zenon
        <3>2. i + 1 \in 0 .. R
            BY <1>1, <2>5
        <3>3. SlotOf(k, i + 1) = Wrapped(g.rindex + (i + 1), R)
            BY <3>2, SlotIs, Zenon
        <3>4. Wrapped(f.rindex + i, R) = Wrapped(g.rindex + (i + 1), R)
            BY <1>1, <2>2, <2>5 DEF Wrapped
        <3>5. QED
            BY <3>1, <3>3, <3>4
    <2>7. f.windex = (f.rindex + f.size) % R
        <3>1. f.size \in 0 .. f.size /\ f.size + 1 = g.size
            BY <1>1, <2>1, <2>5
        <3>2. (f.rindex + f.size) % R = SlotOf(k, f.size + 1)
            BY <2>6, <3>1
        <3>3. QED
            BY <2>5, <3>1, <3>2 DEF RingHolds, Contents
    <2>8. ASSUME NEW i \in 0 .. f.size - 1
          PROVE  /\ f.slot[(f.rindex + i) % R] # Empty
                 /\ f.slot[(f.rindex + i) % R] = g.slot[SlotOf(k, i + 1)]
        <3> DEFINE n == i + 1
        <3>1. n \in 0 .. g.size - 1 /\ n \in 0 .. R /\ 0 \in 0 .. R /\ 0 < n /\ n - 0 < R
              /\ i \in 0 .. f.size
            BY <1>1, <2>1, <2>5
        <3>2. (f.rindex + i) % R = SlotOf(k, n)
            BY <2>6, <3>1
        <3> HIDE DEF n
        <3>3. g.slot[SlotOf(k, n)] # Empty
            BY <3>1 DEF RingHolds, Contents
        <3>4. SlotOf(k, 0) = g.rindex
            BY <1>1, <3>1, SlotIs DEF Wrapped
        <3>5. SlotOf(k, n) # g.rindex /\ SlotOf(k, n) \in 0 .. R - 1
            BY <3>1, <3>4, SlotIs, SlotsDiffer
        <3>6. f.slot[SlotOf(k, n)] = g.slot[SlotOf(k, n)]
            BY <1>1, <2>5, <3>5 DEF Slots
        <3>7. QED
            BY <3>2, <3>3, <3>6 DEF n
    <2>9. f.slot[f.rindex] = g.slot[PeekSlot(k)]
        BY <1>1, <2>1, <2>4, <2>5 DEF Slots
    <2>10. f.size >= 1
        BY <1>1, <2>1, <2>5
    <2>11. \A i \in 1 .. f.size - 1 : f.slot[(f.rindex + i) % R] = g.slot[SlotOf(k, i + g.shown)]
        BY <1>1, <1>3, <2>8
    <2>12. QED
        BY <1>3, <2>1, <2>3, <2>5, <2>7, <2>8, <2>9, <2>10, <2>11
<1>4. QED
    BY <1>1, <1>2, <1>3

-----------------------------------------------------------------------------
(* Initially.                                                              *)

LEMMA InitInv == Init => Inv
<1> SUFFICES ASSUME Init PROVE Inv
    OBVIOUS
<1> USE KindsAre DEF Init
<1>1. Types
    <2>1. ReaderTypes /\ MainTypes /\ DeviceTypes
        BY DEF ReaderTypes, MainTypes, DeviceTypes, Empty, Frame
    <2>2. StateTypes
        BY DEF StateTypes
    <2>3. ApiTypes
        <3>1. <<>> \in Seq(Events) /\ Scripts \subseteq Seq(Events)
            BY ScriptsAssumption
        <3>2. api.events = <<>> /\ api.todo \in Scripts
              /\ api = [events |-> api.events, todo |-> api.todo]
            OBVIOUS
        <3>3. QED
            BY <3>1, <3>2 DEF ApiTypes
    <2>4. QueueTypes
        BY DEF QueueTypes, Queue
    <2>5. DecoderTypes
        BY DEF DecoderTypes, Decoder
    <2>6. RingTypes
        <3>1. \A k \in Kinds : ring[k] = [slot |-> [i \in 0 .. RingSize[k] - 1 |-> Empty],
                                          rindex |-> 0, windex |-> 0, size |-> 0, shown |-> 0]
            OBVIOUS
        <3>2. ring = [k \in Kinds |-> ring[k]]
            OBVIOUS
        <3>3. \A k \in Kinds : ring[k] \in RingOf(k)
            BY <3>1, RingSizes DEF RingOf, Slots, Empty, Frame
        <3>4. QED
            BY <3>2, <3>3 DEF RingTypes
    <2>7. QED
        BY <2>1, <2>2, <2>3, <2>4, <2>5, <2>6 DEF Types
<1>2. Places
    BY DEF Places, Sound
<1>3. Rings
    <2>1. SUFFICES ASSUME NEW k \in Kinds PROVE RingHolds(k)
        BY DEF Rings
    <2>2. ring[k].rindex = 0 /\ ring[k].windex = 0 /\ ring[k].size = 0 /\ ring[k].shown = 0
        OBVIOUS
    <2>3. SlotOf(k, 0) = 0
        <3>1. RingTypes /\ 0 \in 0 .. RingSize[k]
            BY <1>1, RingSizes DEF Types
        <3>2. SlotOf(k, 0) = Wrapped(ring[k].rindex + 0, RingSize[k])
            BY <3>1, SlotIs
        <3>3. QED
            BY <2>2, <3>2, RingSizes DEF Wrapped
    <2>4. QED
        BY <2>2, <2>3 DEF RingHolds, Contents
<1>4. InUse
    BY DEF InUse
<1>5. NoLostWakeup
    BY DEF NoLostWakeup
<1>6. QED
    BY <1>1, <1>2, <1>3, <1>4, <1>5 DEF Inv

-----------------------------------------------------------------------------
(* Types.                                                                  *)

(* What each thread leaves alone.                                          *)
LEMMA ReaderKeeps == Reader => UNCHANGED <<ring, main>>
BY DEF Reader, OpenStream, OpenFails, SeekFlushes, Opened, ReadAborts, SeekBegins, SeekReturns,
       SeekEnds, StepLooks, StepToggles, StepMarks, ReadWaits, ReadEnds, ReadFails, ReadPacket,
       ReadEof, Leave

LEMMA DecodeKeeps == \A k \in Kinds : Decode(k) => UNCHANGED <<reader, main, is>>
BY DEF Decode, Receive, GetPacket, DropEarly, Reserve, Push, FilterFails

LEMMA DeviceKeeps == Device => UNCHANGED <<q, reader, main, is, api>>
BY DEF Device, DeviceTakes, DevicePlays

LEMMA MainKeeps == Main => UNCHANGED reader
BY DEF Main, HandleEvent, DropStale, Refresh, Show, ShowLooks, Toggle, JoinReader, AbortQueue,
       SignalRing, JoinDecoder

LEMMA StreamsAreKinds == Streams \subseteq Kinds
BY DEF Streams

LEMMA EventTypes ==
  ASSUME NEW e \in Events
  PROVE  /\ e.type \in {"pause", "resume", "quit", "seek"}
         /\ e.type = "seek" => e.to \in 0 .. Len(Media)
BY DEF Events

LEMMA StepReaderTypes ==
  ASSUME Types, [Next]_vars
  PROVE  ReaderTypes'
<1>0. /\ reader.todo \subseteq Kinds /\ reader.next + 1 \in Nat /\ reader.target + 1 \in Nat
      /\ Streams \subseteq Kinds
    BY KindsAre, StreamsAreKinds DEF Types, ReaderTypes
<1> USE DEF Types, ReaderTypes
<1>1. ASSUME NEW k \in Kinds, OpenStream(k) \/ OpenFails(k) \/ SeekFlushes(k) PROVE ReaderTypes'
    <2>1. reader.todo \ {k} \in SUBSET Kinds
        BY <1>0
    <2>2. \/ reader' = [reader EXCEPT !.todo = reader.todo \ {k}, !.eof = FALSE]
          \/ reader' = [reader EXCEPT !.todo = reader.todo \ {k}]
          \/ reader' = [reader EXCEPT !.todo = reader.todo \ {k}, !.at = "sought"]
        BY <1>1 DEF OpenStream, OpenFails, SeekFlushes
    <2>3. QED
        BY <2>1, <2>2
<1>2. CASE Opened \/ ReadAborts \/ ReadEnds \/ ReadFails
    BY <1>2 DEF Opened, ReadAborts, ReadEnds, ReadFails, Leave
<1>3. CASE SeekBegins
    BY <1>3 DEF SeekBegins, StateTypes
<1>4. CASE \E ok \in BOOLEAN : SeekReturns(ok)
    BY <1>0, <1>4 DEF SeekReturns
<1>5. CASE SeekEnds \/ StepLooks \/ StepToggles \/ StepMarks
    BY <1>5 DEF SeekEnds, StepLooks, StepToggles, StepMarks
<1>6. CASE ReadWaits \/ ReadPacket \/ ReadEof
    BY <1>0, <1>6 DEF ReadWaits, ReadPacket, ReadEof
<1>7. CASE UNCHANGED reader
    BY <1>7
<1>8. QED
    BY <1>1, <1>2, <1>3, <1>4, <1>5, <1>6, <1>7, DecodeKeeps, DeviceKeeps, MainKeeps
    DEF Next, Reader, Call, Finished, vars

LEMMA StepStateTypes ==
  ASSUME Types, [Next]_vars
  PROVE  StateTypes'
<1> USE DEF Types, StateTypes
<1>1. ASSUME NEW k \in Kinds, OpenStream(k) PROVE StateTypes'
    BY <1>1 DEF OpenStream
<1>2. CASE SeekEnds \/ StepToggles \/ StepMarks \/ Toggle
    BY <1>2 DEF SeekEnds, StepToggles, StepMarks, Toggle
<1>3. CASE HandleEvent
    <2>1. Head(api.events) \in Events
        BY <1>3 DEF HandleEvent, ApiTypes
    <2>2. \/ is' = [is EXCEPT !.abort = TRUE]
          \/ is' = [is EXCEPT !.seekReq = TRUE, !.seekPos = Head(api.events).to]
             /\ Head(api.events).type = "seek"
          \/ is' = is
        BY <1>3 DEF HandleEvent
    <2>3. QED
        BY <2>1, <2>2, EventTypes
<1>4. ASSUME NEW late \in BOOLEAN, Show(late) PROVE StateTypes'
    BY <1>4 DEF Show, MainTypes, Frame
<1>5. CASE UNCHANGED is
    BY <1>5
<1>6. ASSUME Reader PROVE StateTypes'
    <2>1. ASSUME NEW k \in Kinds, OpenFails(k) \/ SeekFlushes(k) PROVE UNCHANGED is
        BY <2>1 DEF OpenFails, SeekFlushes
    <2>2. CASE \/ Opened \/ ReadAborts \/ SeekBegins \/ (\E ok \in BOOLEAN : SeekReturns(ok))
               \/ StepLooks \/ ReadWaits \/ ReadEnds \/ ReadFails \/ ReadPacket \/ ReadEof
        BY <2>2, <1>5 DEF Opened, ReadAborts, SeekBegins, SeekReturns, StepLooks, ReadWaits,
                          ReadEnds, ReadFails, ReadPacket, ReadEof, Leave
    <2>3. QED
        BY <1>1, <1>2, <1>5, <1>6, <2>1, <2>2 DEF Reader
<1>7. ASSUME Main PROVE StateTypes'
    <2>1. \/ HandleEvent \/ (\E late \in BOOLEAN : Show(late)) \/ Toggle \/ UNCHANGED is
        BY <1>7 DEF Main, DropStale, Refresh, ShowLooks, JoinReader, AbortQueue, SignalRing,
                    JoinDecoder
    <2>2. QED
        BY <1>2, <1>3, <1>4, <1>5, <2>1
<1>8. QED
    BY <1>5, <1>6, <1>7, DecodeKeeps, DeviceKeeps DEF Next, Call, Finished, vars

LEMMA StepApiTypes ==
  ASSUME Types, [Next]_vars
  PROVE  ApiTypes'
<1> USE DEF Types, ApiTypes
<1>1. [type |-> "quit"] \in Events
    BY DEF Events
<1>2. CASE \/ UNCHANGED api
           \/ api' = [api EXCEPT !.events = Append(@, [type |-> "quit"])]
    <2>1. Append(api.events, [type |-> "quit"]) \in Seq(Events)
        BY <1>1
    <2>2. QED
        BY <1>2, <2>1
<1>3. CASE HandleEvent
    <2>1. Head(api.events) \in Events /\ Tail(api.events) \in Seq(Events)
        BY <1>3 DEF HandleEvent
    <2>2. api' = [api EXCEPT !.events = Tail(api.events)]
        BY <1>3 DEF HandleEvent
    <2>3. QED
        BY <2>1, <2>2
<1>4. CASE Call
    <2>1. Head(api.todo) \in Events /\ Tail(api.todo) \in Seq(Events)
        BY <1>4 DEF Call
    <2>2. Append(api.events, Head(api.todo)) \in Seq(Events)
        BY <2>1
    <2>3. QED
        BY <1>4, <2>1, <2>2 DEF Call
<1>5. ASSUME Reader
      PROVE  \/ UNCHANGED api
             \/ api' = [api EXCEPT !.events = Append(@, [type |-> "quit"])]
    BY <1>5 DEF Reader, OpenStream, OpenFails, SeekFlushes, Opened, ReadAborts, SeekBegins,
                SeekReturns, SeekEnds, StepLooks, StepToggles, StepMarks, ReadWaits, ReadEnds,
                ReadFails, ReadPacket, ReadEof, Leave
<1>6. ASSUME NEW k \in Kinds, Decode(k)
      PROVE  \/ UNCHANGED api
             \/ api' = [api EXCEPT !.events = Append(@, [type |-> "quit"])]
    BY <1>6 DEF Decode, Receive, GetPacket, DropEarly, Reserve, Push, FilterFails
<1>7. ASSUME Main PROVE UNCHANGED api \/ HandleEvent
    BY <1>7 DEF Main, DropStale, Refresh, Show, ShowLooks, Toggle, JoinReader, AbortQueue,
                SignalRing, JoinDecoder
<1>8. QED
    BY <1>2, <1>3, <1>4, <1>5, <1>6, <1>7, DeviceKeeps DEF Next, Finished, vars

Packet == [serial : Nat, pos : Positions \cup {Null}]

LEMMA QueueEdits ==
  ASSUME QueueTypes, NEW k \in Kinds
  PROVE  /\ \A pos \in Positions \cup {Null} : Put(k, pos) \in Queue
         /\ Flushed(q[k]) \in Queue
         /\ [q[k] EXCEPT !.abort = TRUE] \in Queue
         /\ Started(q[k]) \in Queue
         /\ q[k].packets # <<>> =>
              Head(q[k].packets) \in Packet /\ [q[k] EXCEPT !.packets = Tail(@)] \in Queue
<1>1. q[k] \in Queue /\ q[k].packets \in Seq(Packet) /\ q[k].serial \in Nat
    BY DEF QueueTypes, Queue, Packet
<1>2. ASSUME NEW pos \in Positions \cup {Null} PROVE Put(k, pos) \in Queue
    <2>1. [serial |-> q[k].serial, pos |-> pos] \in Packet
        BY <1>1 DEF Packet
    <2>2. Append(q[k].packets, [serial |-> q[k].serial, pos |-> pos]) \in Seq(Packet)
        BY <1>1, <2>1
    <2>3. QED
        BY <1>1, <2>2 DEF Put, Queue, Packet
<1>3. Flushed(q[k]) \in Queue
    <2>1. <<>> \in Seq(Packet) /\ q[k].serial + 1 \in Nat
        BY <1>1
    <2>2. QED
        BY <1>1, <2>1 DEF Flushed, Queue, Packet
<1>4. /\ [q[k] EXCEPT !.abort = TRUE] \in Queue
      /\ Started(q[k]) \in Queue
    <2>1. q[k].serial + 1 \in Nat
        BY <1>1
    <2>2. QED
        BY <1>1, <2>1 DEF Started, Queue
<1>5. ASSUME q[k].packets # <<>>
      PROVE  Head(q[k].packets) \in Packet /\ [q[k] EXCEPT !.packets = Tail(@)] \in Queue
    <2>1. Head(q[k].packets) \in Packet /\ Tail(q[k].packets) \in Seq(Packet)
        BY <1>1, <1>5
    <2>2. QED
        BY <1>1, <2>1 DEF Queue, Packet
<1>6. QED
    BY <1>2, <1>3, <1>4, <1>5

LEMMA StepQueueTypes ==
  ASSUME Types, [Next]_vars
  PROVE  QueueTypes'
<1>0. q \in [Kinds -> Queue]
    BY DEF Types, QueueTypes
<1>1. ASSUME NEW k \in Kinds, NEW p \in Queue, q' = [q EXCEPT ![k] = p] PROVE QueueTypes'
    BY <1>0, <1>1 DEF QueueTypes, Queue
<1>2. CASE UNCHANGED q
    BY <1>0, <1>2 DEF QueueTypes, Queue
<1>3. ASSUME NEW k \in Kinds, OpenStream(k) \/ SeekFlushes(k) \/ AbortQueue(k) \/ JoinDecoder(k)
      PROVE  QueueTypes'
    <2>1. /\ Flushed(q[k]) \in Queue /\ [q[k] EXCEPT !.abort = TRUE] \in Queue
          /\ Started(q[k]) \in Queue
        BY QueueEdits DEF Types
    <2>2. CASE OpenStream(k)
        <3>1. q' = [q EXCEPT ![k] = Started(q[k])]
            BY <2>2 DEF OpenStream
        <3>2. QED
            BY <1>1, <2>1, <3>1
    <2>3. CASE SeekFlushes(k) \/ JoinDecoder(k)
        <3>1. q' = [q EXCEPT ![k] = Flushed(q[k])]
            BY <1>0, <2>3 DEF SeekFlushes, JoinDecoder
        <3>2. QED
            BY <1>1, <2>1, <3>1
    <2>4. CASE AbortQueue(k)
        <3>1. q' = [q EXCEPT ![k] = [q[k] EXCEPT !.abort = TRUE]]
            BY <1>0, <2>4 DEF AbortQueue
        <3>2. QED
            BY <1>1, <2>1, <3>1
    <2>5. QED
        BY <1>3, <2>2, <2>3, <2>4
<1>4. CASE ReadPacket
    <2>1. reader.next \in Positions /\ Media[reader.next] \in Kinds
        BY <1>4, KindsAre DEF ReadPacket
    <2>2. Put(Media[reader.next], reader.next) \in Queue
        BY <2>1, QueueEdits DEF Types
    <2>3. QED
        BY <1>1, <1>2, <1>4, <2>1, <2>2 DEF ReadPacket
<1>5. CASE ReadEof
    <2>1. \A k \in Kinds : Put(k, Null) \in Queue
        BY QueueEdits DEF Types
    <2>2. CASE reader.eof
        BY <1>2, <1>5, <2>2 DEF ReadEof
    <2>3. CASE ~reader.eof
        <3>1. q' = [k \in Kinds |-> IF is.opened[k] THEN Put(k, Null) ELSE q[k]]
            BY <1>5, <2>3 DEF ReadEof
        <3>2. q' \in [Kinds -> Queue]
            BY <1>0, <2>1, <3>1
        <3>3. QED
            BY <3>2 DEF QueueTypes, Queue
    <2>4. QED
        BY <2>2, <2>3
<1>6. ASSUME NEW k \in Kinds, Decode(k) PROVE QueueTypes'
    <2>1. \/ UNCHANGED q
          \/ q[k].packets # <<>> /\ q' = [q EXCEPT ![k] = [q[k] EXCEPT !.packets = Tail(@)]]
        BY <1>0, <1>6 DEF Decode, Receive, GetPacket, DropEarly, Reserve, Push, FilterFails, Queue
    <2>2. q[k].packets # <<>> => [q[k] EXCEPT !.packets = Tail(@)] \in Queue
        BY QueueEdits DEF Types
    <2>3. QED
        BY <1>1, <1>2, <2>1, <2>2
<1>7. ASSUME Reader
      PROVE  \/ UNCHANGED q \/ (\E k \in Kinds : OpenStream(k) \/ SeekFlushes(k))
             \/ ReadPacket \/ ReadEof
    BY <1>7 DEF Reader, OpenFails, Opened, ReadAborts, SeekBegins, SeekReturns, SeekEnds,
                StepLooks, StepToggles, StepMarks, ReadWaits, ReadEnds, ReadFails, Leave
<1>8. ASSUME Main
      PROVE  UNCHANGED q \/ \E k \in Kinds : AbortQueue(k) \/ JoinDecoder(k)
    BY <1>8 DEF Main, HandleEvent, DropStale, Refresh, Show, ShowLooks, Toggle, JoinReader,
                SignalRing
<1>9. QED
    BY <1>2, <1>3, <1>4, <1>5, <1>6, <1>7, <1>8, DeviceKeeps DEF Next, Call, Finished, vars

LEMMA DecoderEdits ==
  ASSUME DecoderTypes, NEW k \in Kinds
  PROVE  /\ Woken(dec[k]) \in Decoder /\ RoomFor(k) \in Decoder
         /\ \A at \in {"top", "get", "asleep", "frame", "full", "write", "done"} :
              [dec[k] EXCEPT !.at = at] \in Decoder
BY DEF DecoderTypes, Decoder, Woken, RoomFor

(* What decoder_decode_frame takes from the codec.                         *)
LEMMA ReceiveTypes ==
  ASSUME Types, NEW k \in Kinds, Receive(k)
  PROVE  \E d \in Decoder :
           /\ dec' = [dec EXCEPT ![k] = d]
           /\ d.at \in {"top", "get", "done", "frame"}
           /\ d.at = "frame" => d.frame \in Positions
<1> DEFINE d == dec[k]
           out == IF d.draining THEN d.codec # <<>> ELSE Len(d.codec) > Delay[k]
<1>1. d \in Decoder /\ d.at = "top" /\ d.codec \in Seq(Positions)
    BY DEF Types, DecoderTypes, Decoder, Receive
<1>2. out => Head(d.codec) \in Positions /\ Tail(d.codec) \in Seq(Positions)
    <2>1. Delay[k] \in Nat
        BY SizesAssumption
    <2>2. out => d.codec # <<>>
        BY <1>1, <2>1
    <2> HIDE DEF out, d
    <2>3. QED
        BY <1>1, <2>2
<1>3. /\ [d EXCEPT !.at = "get"] \in Decoder /\ [d EXCEPT !.at = "done"] \in Decoder
      /\ [d EXCEPT !.finished = d.serial, !.draining = FALSE] \in Decoder
      /\ out => [d EXCEPT !.at = "frame", !.frame = Head(d.codec), !.codec = Tail(@)] \in Decoder
    <2>1. [d EXCEPT !.at = "get"] \in Decoder /\ [d EXCEPT !.at = "done"] \in Decoder
        BY <1>1 DEF Decoder
    <2>2. [d EXCEPT !.finished = d.serial, !.draining = FALSE] \in Decoder
        BY <1>1 DEF Decoder
    <2>3. ASSUME out
          PROVE  [d EXCEPT !.at = "frame", !.frame = Head(d.codec), !.codec = Tail(@)] \in Decoder
        <3>1. Head(d.codec) \in Nat /\ Head(d.codec) \in Positions /\ Tail(d.codec) \in Seq(Positions)
            BY <1>2, <2>3 DEF Positions
        <3> HIDE DEF d, out
        <3>2. QED
            BY <1>1, <3>1 DEF Decoder
    <2>4. QED
        BY <2>1, <2>2, <2>3
<1>4. \/ dec' = [dec EXCEPT ![k] = [d EXCEPT !.at = "get"]]
      \/ dec' = [dec EXCEPT ![k] = [d EXCEPT !.at = "done"]]
      \/ dec' = [dec EXCEPT ![k] = [d EXCEPT !.finished = d.serial, !.draining = FALSE]]
      \/ out /\ dec' = [dec EXCEPT ![k] =
                         [d EXCEPT !.at = "frame", !.frame = Head(d.codec), !.codec = Tail(@)]]
    BY DEF Receive, Decoders
<1> HIDE DEF d, out
<1>5. /\ [d EXCEPT !.at = "get"].at = "get" /\ [d EXCEPT !.at = "done"].at = "done"
      /\ [d EXCEPT !.finished = d.serial, !.draining = FALSE].at = "top"
      /\ [d EXCEPT !.at = "frame", !.frame = Head(d.codec), !.codec = Tail(@)].frame = Head(d.codec)
      /\ [d EXCEPT !.at = "frame", !.frame = Head(d.codec), !.codec = Tail(@)].at = "frame"
    BY <1>1 DEF Decoder
<1>6. QED
    BY <1>2, <1>3, <1>4, <1>5

LEMMA GetPacketTypes ==
  ASSUME Types, NEW k \in Kinds, GetPacket(k)
  PROVE  \E d \in Decoder :
           /\ dec' = [dec EXCEPT ![k] = d]
           /\ d.at \in {"top", "get", "done", "asleep"}
           /\ d.at = "asleep" => q[k].packets = <<>> /\ ~q[k].abort /\ UNCHANGED q
<1>1. dec[k] \in Decoder /\ dec[k].at = "get" /\ q[k].abort \in BOOLEAN
    BY DEF Types, DecoderTypes, QueueTypes, Queue, GetPacket
<1>2. CASE q[k].abort \/ q[k].packets = <<>>
    <2> DEFINE d == [dec[k] EXCEPT !.at = IF q[k].abort THEN "done" ELSE "asleep"]
    <2>1. d \in Decoder /\ d.at = IF q[k].abort THEN "done" ELSE "asleep"
        BY <1>1 DEF Decoder
    <2>2. dec' = [dec EXCEPT ![k] = d] /\ UNCHANGED q
        BY <1>2 DEF GetPacket, Decoders
    <2> HIDE DEF d
    <2>3. QED
        BY <1>2, <2>1, <2>2
<1>3. CASE ~(q[k].abort \/ q[k].packets = <<>>)
    <2> DEFINE p == Head(q[k].packets)
               t == Taken(dec[k], p)
               d == Sent(k, t, p)
    <2>1. p \in Packet
        BY <1>3, QueueEdits DEF Types
    <2> HIDE DEF p
    <2>2. t \in Decoder /\ t.at = "get"
        <3>1. <<>> \in Seq(Positions) /\ p.serial \in Int
            BY <2>1 DEF Packet
        <3>2. CASE p.serial = dec[k].serial
            BY <1>1, <3>2 DEF Taken
        <3>3. CASE p.serial # dec[k].serial
            <4> DEFINE e == dec[k]
            <4>1. e \in Decoder /\ e.at = "get"
                BY <1>1
            <4>2. t = [e EXCEPT !.serial = p.serial, !.finished = 0, !.codec = <<>>,
                                !.draining = FALSE]
                BY <3>3 DEF Taken
            <4>0. PICK n \in Int : n = p.serial
                BY <3>1
            <4> HIDE DEF e, t
            <4>3. t = [at |-> e.at, serial |-> p.serial, finished |-> 0, codec |-> <<>>,
                       draining |-> FALSE, frame |-> e.frame]
                BY <4>1, <4>2 DEF Decoder
            <4>4. QED
                BY <3>1, <4>1, <4>3 DEF Decoder
        <3>4. QED
            BY <3>2, <3>3
    <2> HIDE DEF t
    <2>3. d \in Decoder /\ d.at \in {"get", "top"}
        <3>1. CASE p.serial # q[k].serial
            BY <2>2, <3>1 DEF Sent
        <3>2. CASE p.serial = q[k].serial /\ p.pos = Null
            BY <2>2, <3>2 DEF Sent, Decoder
        <3>3. CASE p.serial = q[k].serial /\ p.pos # Null
            <4>1. p.pos \in Positions /\ t.codec \in Seq(Positions)
                BY <2>1, <2>2, <3>3 DEF Packet, Decoder
            <4>2. Append(t.codec, p.pos) \in Seq(Positions)
                BY <4>1
            <4>3. d = [t EXCEPT !.codec = Append(t.codec, p.pos), !.at = "top"]
                BY <2>2, <3>3 DEF Sent, Decoder
            <4> HIDE DEF d
            <4>4. QED
                BY <2>2, <4>2, <4>3 DEF Decoder
        <3>4. QED
            BY <3>1, <3>2, <3>3
    <2>4. dec' = [dec EXCEPT ![k] = d]
        BY <1>3 DEF GetPacket, Decoders, p, t
    <2> HIDE DEF d
    <2>5. QED
        BY <2>3, <2>4
<1>4. QED
    BY <1>2, <1>3

(* A decoder that changes alone.                                           *)
LEMMA OneDecoder ==
  ASSUME DecoderTypes, \A j \in Kinds : Sound(dec[j]),
         NEW k \in Kinds, NEW d \in Decoder, Sound(d), dec' = [dec EXCEPT ![k] = d]
  PROVE  DecoderTypes' /\ \A j \in Kinds : Sound(dec'[j])
BY DEF DecoderTypes, Decoder

LEMMA NoDecoder ==
  ASSUME DecoderTypes, \A j \in Kinds : Sound(dec[j]), UNCHANGED dec
  PROVE  DecoderTypes' /\ \A j \in Kinds : Sound(dec'[j])
BY DEF DecoderTypes, Decoder

LEMMA StepDecoders ==
  ASSUME Types, Places, [Next]_vars
  PROVE  DecoderTypes' /\ \A j \in Kinds : Sound(dec'[j])
<1> DEFINE Goal == DecoderTypes' /\ \A j \in Kinds : Sound(dec'[j])
<1>0. DecoderTypes /\ \A j \in Kinds : Sound(dec[j])
    BY DEF Types, Places
<1>1. CASE UNCHANGED dec
    BY <1>0, <1>1, NoDecoder
<1>2. ASSUME NEW k \in Kinds, dec' = [dec EXCEPT ![k] = Woken(dec[k])] PROVE Goal
    <2>1. Woken(dec[k]) \in Decoder /\ Sound(Woken(dec[k]))
        BY <1>0 DEF DecoderTypes, Decoder, Woken, Sound
    <2>2. QED
        BY <1>0, <1>2, <2>1, OneDecoder
<1>3. ASSUME NEW k \in Kinds, dec' = [dec EXCEPT ![k] = RoomFor(k)] PROVE Goal
    <2>1. RoomFor(k) \in Decoder /\ Sound(RoomFor(k))
        BY <1>0 DEF DecoderTypes, Decoder, RoomFor, Sound
    <2>2. QED
        BY <1>0, <1>3, <2>1, OneDecoder
<1>4. ASSUME NEW k \in Kinds, dec[k].at \in {"frame", "full", "write"},
             NEW at \in {"top", "frame", "full", "write", "done"},
             dec' = [dec EXCEPT ![k] = [dec[k] EXCEPT !.at = at]]
      PROVE  Goal
    <2>1. [dec[k] EXCEPT !.at = at] \in Decoder /\ Sound([dec[k] EXCEPT !.at = at])
        BY <1>0, <1>4 DEF DecoderTypes, Decoder, Sound
    <2>2. QED
        BY <1>0, <1>4, <2>1, OneDecoder
<1>5. ASSUME NEW k \in Kinds, OpenStream(k) PROVE Goal
    <2>1. dec' = [dec EXCEPT ![k] = [dec[k] EXCEPT !.at = "top"]]
        BY <1>0, <1>5 DEF OpenStream, DecoderTypes
    <2>2. [dec[k] EXCEPT !.at = "top"] \in Decoder /\ Sound([dec[k] EXCEPT !.at = "top"])
        BY <1>0 DEF DecoderTypes, Decoder, Sound
    <2>3. QED
        BY <1>0, <2>1, <2>2, OneDecoder
<1>6. CASE ReadPacket
    <2>1. Media[reader.next] \in Kinds
        BY <1>6, KindsAre DEF ReadPacket
    <2>2. QED
        BY <1>1, <1>2, <1>6, <2>1 DEF ReadPacket
<1>7. CASE ReadEof
    <2>1. \A k \in Kinds : Woken(dec[k]) \in Decoder /\ Sound(Woken(dec[k]))
        BY <1>0 DEF DecoderTypes, Decoder, Woken, Sound
    <2>2. CASE reader.eof
        BY <1>1, <1>7, <2>2 DEF ReadEof
    <2>3. CASE ~reader.eof
        <3>1. dec' = [k \in Kinds |-> IF is.opened[k] THEN Woken(dec[k]) ELSE dec[k]]
            BY <1>7, <2>3 DEF ReadEof
        <3>2. dec' \in [Kinds -> Decoder] /\ \A j \in Kinds : Sound(dec'[j])
            BY <1>0, <2>1, <3>1 DEF DecoderTypes
        <3>3. QED
            BY <3>2 DEF DecoderTypes, Decoder
    <2>4. QED
        BY <2>2, <2>3
<1>8. ASSUME NEW k \in Kinds, Decode(k) PROVE Goal
    <2>1. CASE Receive(k)
        <3>1. PICK d \in Decoder : /\ dec' = [dec EXCEPT ![k] = d]
                                   /\ d.at \in {"top", "get", "done", "frame"}
                                   /\ d.at = "frame" => d.frame \in Positions
            BY <2>1, ReceiveTypes
        <3>2. Sound(d)
            BY <3>1 DEF Sound
        <3>3. QED
            BY <1>0, <3>1, <3>2, OneDecoder
    <2>2. CASE GetPacket(k)
        <3>1. PICK d \in Decoder : /\ dec' = [dec EXCEPT ![k] = d]
                                   /\ d.at \in {"top", "get", "done", "asleep"}
            BY <2>2, GetPacketTypes
        <3>2. Sound(d)
            BY <3>1 DEF Sound
        <3>3. QED
            BY <1>0, <3>1, <3>2, OneDecoder
    <2>3. CASE DropEarly(k) \/ (\E quits \in BOOLEAN : FilterFails(k, quits))
        BY <1>4, <2>3 DEF DropEarly, FilterFails, Decoders
    <2>4. CASE Reserve(k)
        <3>1. PICK at \in {"done", "full", "write"} :
                dec' = [dec EXCEPT ![k] = [dec[k] EXCEPT !.at = at]]
            BY <2>4 DEF Reserve, Decoders
        <3>2. QED
            BY <1>4, <2>4, <3>1 DEF Reserve
    <2>5. CASE Push(k)
        BY <1>4, <2>5 DEF Push, Decoders
    <2>6. QED
        BY <1>8, <2>1, <2>2, <2>3, <2>4, <2>5 DEF Decode
<1>9. CASE Device
    <2>1. device.at # "closed" => "audio" \in Kinds
        BY DEF Places
    <2>2. QED
        BY <1>1, <1>3, <1>9, <2>1 DEF Device, DeviceTakes, DevicePlays
<1>10. CASE (\E at \in {"refresh", "events"} : DropStale(at)) \/ (\E late \in BOOLEAN : Show(late))
    <2>1. "video" \in Kinds
        BY <1>10, StreamsAreKinds DEF DropStale, Refreshing, Show, Places
    <2>2. QED
        BY <1>3, <1>10, <2>1 DEF DropStale, Show
<1>11. ASSUME NEW k \in Kinds, AbortQueue(k) PROVE Goal
    BY <1>2, <1>11, <1>0 DEF AbortQueue, DecoderTypes
<1>12. ASSUME NEW k \in Kinds, SignalRing(k) PROVE Goal
    <2>1. CASE dec[k].at = "full"
        <3>1. dec' = [dec EXCEPT ![k] = [dec[k] EXCEPT !.at = "frame"]]
            BY <1>0, <1>12, <2>1 DEF SignalRing, DecoderTypes
        <3>2. QED
            BY <1>4, <2>1, <3>1
    <2>2. CASE dec[k].at # "full"
        BY <1>1, <1>12, <2>2 DEF SignalRing
    <2>3. QED
        BY <2>1, <2>2
<1>13. ASSUME Reader
       PROVE  UNCHANGED dec \/ (\E k \in Kinds : OpenStream(k)) \/ ReadPacket \/ ReadEof
    BY <1>13 DEF Reader, OpenFails, SeekFlushes, Opened, ReadAborts, SeekBegins, SeekReturns,
                 SeekEnds, StepLooks, StepToggles, StepMarks, ReadWaits, ReadEnds, ReadFails, Leave
<1>14. ASSUME Main
       PROVE  \/ UNCHANGED dec
              \/ (\E at \in {"refresh", "events"} : DropStale(at)) \/ (\E late \in BOOLEAN : Show(late))
              \/ (\E k \in Kinds : AbortQueue(k) \/ SignalRing(k))
    BY <1>14 DEF Main, HandleEvent, Refresh, ShowLooks, Toggle, JoinReader, JoinDecoder
<1>15. QED
    BY <1>1, <1>5, <1>6, <1>7, <1>8, <1>9, <1>10, <1>11, <1>12, <1>13, <1>14
       DEF Next, Call, Finished, vars

LEMMA PeekFrame ==
  ASSUME RingTypes, NEW k \in Kinds
  PROVE  /\ PeekSlot(k) = SlotOf(k, ring[k].shown) /\ PeekSlot(k) \in Nat
         /\ ring[k].slot[PeekSlot(k)] \in Frame
<1>1. /\ ring[k].shown \in 0 .. RingSize[k] /\ ring[k].slot \in Slots(k)
      /\ RingSize[k] \in Nat
    BY RingSizes DEF RingTypes, RingOf
<1>2. PeekSlot(k) = SlotOf(k, ring[k].shown)
    BY DEF PeekSlot, SlotOf
<1>3. SlotOf(k, ring[k].shown) \in 0 .. RingSize[k] - 1
    BY <1>1, SlotIs
<1>4. QED
    BY <1>1, <1>2, <1>3 DEF Slots

LEMMA RefreshingHasVideo ==
  ASSUME Places, Refreshing
  PROVE  "video" \in Kinds
BY StreamsAreKinds DEF Refreshing, Places

LEMMA StepMainTypes ==
  ASSUME Types, Places, [Next]_vars
  PROVE  MainTypes' /\ (main'.at \in {"refresh", "show"} => "video" \in Kinds)
<1> DEFINE Goal == MainTypes' /\ (main'.at \in {"refresh", "show"} => "video" \in Kinds)
<1>0. MainTypes /\ RingTypes /\ (main.at \in {"refresh", "show"} => "video" \in Kinds)
    BY DEF Types, Places
<1>1. CASE UNCHANGED main
    BY <1>0, <1>1 DEF MainTypes, Frame
<1>2. ASSUME NEW at \in {"events", "toggle", "join", "signal", "decoder"},
             main' = [main EXCEPT !.at = at]
      PROVE  Goal
    BY <1>0, <1>2 DEF MainTypes, Frame
<1>3. CASE HandleEvent
    <2>1. main.at = "events"
        BY <1>3 DEF HandleEvent
    <2>2. \E at \in {"events", "toggle", "join"} : main' = [main EXCEPT !.at = at]
        BY <1>0, <1>3, <2>1 DEF HandleEvent, MainTypes
    <2>3. QED
        BY <1>2, <2>2
<1>4. ASSUME NEW at \in {"refresh", "events"}, DropStale(at) PROVE Goal
    <2>1. "video" \in Kinds
        BY <1>4, RefreshingHasVideo DEF DropStale
    <2>2. main' = [main EXCEPT !.at = at]
        BY <1>4 DEF DropStale
    <2>3. QED
        BY <1>0, <2>1, <2>2 DEF MainTypes, Frame
<1>5. CASE Refresh
    <2>1. "video" \in Kinds
        BY <1>5, RefreshingHasVideo DEF Refresh
    <2> DEFINE frame == ring["video"].slot[PeekSlot("video")]
    <2>2. PeekSlot("video") \in Nat /\ frame \in Frame
        BY <1>0, <2>1, PeekFrame
    <2>3. \/ main' = [main EXCEPT !.at = "events"]
          \/ main' = [main EXCEPT !.at = "show", !.slot = PeekSlot("video"), !.frame = frame]
        BY <1>5 DEF Refresh
    <2> HIDE DEF frame
    <2>4. QED
        BY <1>0, <2>1, <2>2, <2>3 DEF MainTypes, Frame
<1>6. ASSUME NEW late \in BOOLEAN, Show(late) PROVE Goal
    <2>1. PICK at \in {"refresh", "shown"} :
            main' = [main EXCEPT !.at = at, !.slot = 0, !.frame = Empty]
        BY <1>6 DEF Show
    <2>2. "video" \in Kinds /\ Empty \in Frame
        BY <1>0, <1>6 DEF Show, Empty, Frame
    <2>3. QED
        BY <1>0, <2>1, <2>2 DEF MainTypes, Frame
<1>7. CASE ShowLooks \/ Toggle
    BY <1>2, <1>7 DEF ShowLooks, Toggle
<1>8. CASE JoinReader
    <2>1. PICK at \in {"closed", "abort"} : main' = [main EXCEPT !.at = at, !.closing = Streams]
        BY <1>8 DEF JoinReader
    <2>2. QED
        BY <1>0, <2>1, StreamsAreKinds DEF MainTypes, Frame
<1>9. ASSUME NEW k \in Kinds, AbortQueue(k) \/ SignalRing(k) PROVE Goal
    BY <1>2, <1>9 DEF AbortQueue, SignalRing
<1>10. ASSUME NEW k \in Kinds, JoinDecoder(k) PROVE Goal
    <2>1. PICK at \in {"closed", "abort"} :
            main' = [main EXCEPT !.at = at, !.closing = main.closing \ {k}]
        BY <1>10 DEF JoinDecoder
    <2>2. main.closing \ {k} \in SUBSET Kinds
        BY <1>0 DEF MainTypes
    <2>3. QED
        BY <1>0, <2>1, <2>2 DEF MainTypes, Frame
<1>11. QED
    BY <1>1, <1>3, <1>4, <1>5, <1>6, <1>7, <1>8, <1>9, <1>10, ReaderKeeps, DecodeKeeps,
       DeviceKeeps DEF Next, Main, Call, Finished, vars

LEMMA StepDeviceTypes ==
  ASSUME Types, Places, [Next]_vars
  PROVE  DeviceTypes' /\ (device'.at # "closed" => "audio" \in Kinds)
<1> DEFINE Goal == DeviceTypes' /\ (device'.at # "closed" => "audio" \in Kinds)
<1>0. DeviceTypes /\ RingTypes /\ (device.at # "closed" => "audio" \in Kinds)
    BY DEF Types, Places
<1>1. CASE UNCHANGED device
    BY <1>0, <1>1 DEF DeviceTypes, Frame
<1>2. ASSUME NEW at \in {"closed", "idle", "peek", "asleep"}, "audio" \in Kinds,
             device' = [device EXCEPT !.at = at]
      PROVE  Goal
    BY <1>0, <1>2 DEF DeviceTypes, Frame
<1>3. ASSUME NEW k \in Kinds, OpenStream(k) \/ Push(k) \/ SignalRing(k) \/ JoinDecoder(k)
      PROVE  Goal
    <2>1. \/ UNCHANGED device
          \/ k = "audio" /\ \E at \in {"closed", "idle", "peek"} : device' = [device EXCEPT !.at = at]
        BY <1>3 DEF OpenStream, Push, SignalRing, JoinDecoder
    <2>2. QED
        BY <1>1, <1>2, <2>1
<1>4. CASE DeviceTakes
    <2>1. "audio" \in Kinds
        BY <1>0, <1>4 DEF DeviceTakes
    <2> DEFINE frame == ring["audio"].slot[PeekSlot("audio")]
    <2>2. PeekSlot("audio") \in Nat /\ frame \in Frame
        BY <1>0, <2>1, PeekFrame
    <2>3. \/ \E at \in {"idle", "asleep"} : device' = [device EXCEPT !.at = at]
          \/ device' = [at |-> "play", slot |-> PeekSlot("audio"), frame |-> frame]
          \/ UNCHANGED device
        BY <1>4 DEF DeviceTakes
    <2> HIDE DEF frame
    <2>4. CASE device' = [at |-> "play", slot |-> PeekSlot("audio"), frame |-> frame]
        BY <2>1, <2>2, <2>4 DEF DeviceTypes, Frame
    <2>5. QED
        BY <1>1, <1>2, <2>1, <2>3, <2>4
<1>5. CASE DevicePlays
    BY <1>0, <1>5 DEF DevicePlays, DeviceTypes, Empty, Frame
<1>6. ASSUME Reader PROVE UNCHANGED device \/ \E k \in Kinds : OpenStream(k)
    BY <1>6 DEF Reader, OpenFails, SeekFlushes, Opened, ReadAborts, SeekBegins, SeekReturns,
                SeekEnds, StepLooks, StepToggles, StepMarks, ReadWaits, ReadEnds, ReadFails,
                ReadPacket, ReadEof, Leave
<1>7. ASSUME NEW k \in Kinds, Decode(k) PROVE UNCHANGED device \/ Push(k)
    BY <1>7 DEF Decode, Receive, GetPacket, DropEarly, Reserve, FilterFails
<1>8. ASSUME Main
      PROVE  UNCHANGED device \/ \E k \in Kinds : SignalRing(k) \/ JoinDecoder(k)
    BY <1>8 DEF Main, HandleEvent, DropStale, Refresh, Show, ShowLooks, Toggle, JoinReader,
                AbortQueue
<1>9. QED
    BY <1>1, <1>3, <1>4, <1>5, <1>6, <1>7, <1>8 DEF Next, Device, Call, Finished, vars

-----------------------------------------------------------------------------
(* How decoders and rings move.                                            *)

Takes(k) ==
  /\ ring[k].shown < ring[k].size
  /\ ring' = [ring EXCEPT ![k] = FrameNext(k)] /\ dec' = [dec EXCEPT ![k] = RoomFor(k)]

(* Who takes frames out of rings.                                          *)
LEMMA TakersAre ==
  ASSUME Types, Places, InUse
  PROVE  /\ DeviceTakes => "audio" \in Kinds /\ (UNCHANGED <<ring, dec>> \/ Takes("audio"))
         /\ \A at \in {"refresh", "events"} : DropStale(at) => "video" \in Kinds /\ Takes("video")
         /\ \A late \in BOOLEAN : Show(late) => "video" \in Kinds /\ Takes("video")
<1>0. \A k \in Kinds : ring[k].shown \in Nat /\ ring[k].size \in Nat
    BY RingSizes DEF Types, RingTypes, RingOf
<1>1. ASSUME DeviceTakes PROVE "audio" \in Kinds /\ (UNCHANGED <<ring, dec>> \/ Takes("audio"))
    <2>1. "audio" \in Kinds
        BY <1>1 DEF DeviceTakes, Places
    <2>2. CASE q["audio"].abort \/ Remaining("audio") <= 0
        BY <1>1, <2>1, <2>2 DEF DeviceTakes
    <2>3. CASE ~(q["audio"].abort \/ Remaining("audio") <= 0)
        <3>1. ring["audio"].shown < ring["audio"].size
            BY <1>0, <2>1, <2>3 DEF Remaining
        <3>2. QED
            BY <1>1, <2>1, <2>3, <3>1 DEF DeviceTakes, Takes
    <2>4. QED
        BY <2>2, <2>3
<1>2. ASSUME NEW at \in {"refresh", "events"}, DropStale(at)
      PROVE  "video" \in Kinds /\ Takes("video")
    <2>1. "video" \in Kinds
        BY <1>2, RefreshingHasVideo DEF DropStale
    <2>2. ring["video"].shown < ring["video"].size
        BY <1>0, <1>2, <2>1 DEF DropStale, Remaining
    <2>3. QED
        BY <1>2, <2>1, <2>2 DEF DropStale, Takes
<1>3. ASSUME NEW late \in BOOLEAN, Show(late) PROVE "video" \in Kinds /\ Takes("video")
    BY <1>3 DEF Show, Takes, InUse, Places
<1>4. QED
    BY <1>1, <1>2, <1>3

(* The sleep of a decoder, and its writing, begin in two actions only.     *)
LEMMA DecoderAt ==
  ASSUME Types, Places, InUse, [Next]_vars, NEW k \in Kinds
  PROVE  /\ dec'[k].at = "write" =>
              dec[k].at = "write" \/ (Reserve(k) /\ ring[k].size < RingSize[k])
         /\ dec'[k].at = "full" => dec[k].at = "full" \/ Reserve(k)
         /\ dec'[k].at = "asleep" => dec[k].at = "asleep" \/ GetPacket(k)
<1> DEFINE Goal == /\ dec'[k].at = "write" =>
                        dec[k].at = "write" \/ (Reserve(k) /\ ring[k].size < RingSize[k])
                   /\ dec'[k].at = "full" => dec[k].at = "full" \/ Reserve(k)
                   /\ dec'[k].at = "asleep" => dec[k].at = "asleep" \/ GetPacket(k)
<1>0. dec \in [Kinds -> Decoder]
    BY DEF Types, DecoderTypes
<1>1. CASE dec'[k] = dec[k]
    BY <1>1
<1>2. ASSUME NEW d, dec'[k] = d,
             d = Woken(dec[k]) \/ d = RoomFor(k) \/ d.at \notin {"write", "full", "asleep"}
      PROVE  Goal
    <2>1. dec[k] \in Decoder /\ dec'[k].at = d.at
        BY <1>0, <1>2
    <2>2. d.at \in {"write", "full", "asleep"} => dec[k].at = d.at
        BY <1>2, <2>1 DEF Woken, RoomFor, Decoder
    <2>3. QED
        BY <2>1, <2>2
<1>3. ASSUME NEW j \in Kinds, NEW d, dec' = [dec EXCEPT ![j] = d]
      PROVE  dec'[k] = IF j = k THEN d ELSE dec[k]
    BY <1>0, <1>3
<1>4. ASSUME NEW j \in Kinds, Takes(j) PROVE Goal
    <2>1. j = k => dec'[k] = RoomFor(k)
        BY <1>3, <1>4 DEF Takes
    <2>2. j # k => dec'[k] = dec[k]
        BY <1>3, <1>4 DEF Takes
    <2>3. QED
        BY <1>1, <1>2, <2>1, <2>2
<1>5. ASSUME NEW j \in Kinds, OpenStream(j) \/ AbortQueue(j) \/ SignalRing(j) PROVE Goal
    <2>1. CASE j # k
        <3>1. dec'[k] = dec[k]
            BY <1>0, <1>5, <2>1 DEF OpenStream, AbortQueue, SignalRing
        <3>2. QED
            BY <1>1, <3>1
    <2>2. CASE j = k
        <3>1. OpenStream(k) => dec'[k].at = "top"
            BY <1>0 DEF OpenStream, Decoder
        <3>2. AbortQueue(k) => dec'[k] = Woken(dec[k])
            BY <1>0 DEF AbortQueue
        <3>3. SignalRing(k) => dec'[k] = dec[k] \/ dec'[k].at = "frame"
            BY <1>0 DEF SignalRing, Decoder
        <3>4. QED
            BY <1>1, <1>2, <1>5, <2>2, <3>1, <3>2, <3>3
    <2>3. QED
        BY <2>1, <2>2
<1>6. CASE ReadPacket
    <2>1. dec'[k] = Woken(dec[k]) \/ dec'[k] = dec[k]
        BY <1>0, <1>6 DEF ReadPacket
    <2>2. QED
        BY <1>1, <1>2, <2>1
<1>7. CASE ReadEof
    <2>1. dec'[k] = Woken(dec[k]) \/ dec'[k] = dec[k]
        BY <1>0, <1>7 DEF ReadEof
    <2>2. QED
        BY <1>1, <1>2, <2>1
<1>8. ASSUME NEW j \in Kinds, Decode(j) PROVE Goal
    <2>1. CASE j # k
        <3>1. dec'[k] = dec[k]
            BY <1>0, <1>8, <2>1 DEF Decode, Receive, GetPacket, DropEarly, Reserve, Push,
                                    FilterFails, Decoders
        <3>2. QED
            BY <1>1, <3>1
    <2>2. CASE j = k /\ Receive(k)
        <3>1. PICK d \in Decoder : dec' = [dec EXCEPT ![k] = d] /\ d.at \in {"top", "get", "done", "frame"}
            BY <2>2, ReceiveTypes
        <3>2. QED
            BY <1>2, <1>3, <3>1
    <2>3. CASE j = k /\ GetPacket(k)
        <3>1. PICK d \in Decoder : dec' = [dec EXCEPT ![k] = d] /\ d.at \in {"top", "get", "done", "asleep"}
            BY <2>3, GetPacketTypes
        <3>2. QED
            BY <1>3, <2>3, <3>1
    <2>4. CASE j = k /\ (DropEarly(k) \/ Push(k) \/ (\E quits \in BOOLEAN : FilterFails(k, quits)))
        <3>1. dec'[k].at \in {"top", "done"}
            BY <1>0, <2>4 DEF DropEarly, Push, FilterFails, Decoders, Decoder
        <3>2. QED
            BY <1>2, <3>1
    <2>5. CASE j = k /\ Reserve(k)
        <3>1. ring[k].size \in Nat /\ RingSize[k] \in Nat
            BY RingSizes DEF Types, RingTypes, RingOf
        <3>2. dec'[k].at = "done" \/ dec'[k].at = "full" \/ (dec'[k].at = "write" /\ ring[k].size < RingSize[k])
            BY <1>0, <2>5, <3>1 DEF Reserve, Decoders, Decoder
        <3>3. QED
            BY <2>5, <3>2
    <2>6. QED
        BY <1>8, <2>1, <2>2, <2>3, <2>4, <2>5 DEF Decode
<1>9. CASE Reader
    <2>1. UNCHANGED dec \/ (\E j \in Kinds : OpenStream(j)) \/ ReadPacket \/ ReadEof
        BY <1>9 DEF Reader, OpenFails, SeekFlushes, Opened, ReadAborts, SeekBegins, SeekReturns,
                    SeekEnds, StepLooks, StepToggles, StepMarks, ReadWaits, ReadEnds, ReadFails, Leave
    <2>2. QED
        BY <1>1, <1>5, <1>6, <1>7, <2>1
<1>10. CASE Device
    <2>1. UNCHANGED dec \/ DeviceTakes
        BY <1>10 DEF Device, DevicePlays
    <2>2. QED
        BY <1>1, <1>4, <2>1, TakersAre
<1>11. CASE Main
    <2>1. \/ UNCHANGED dec
          \/ (\E at \in {"refresh", "events"} : DropStale(at)) \/ (\E late \in BOOLEAN : Show(late))
          \/ (\E j \in Kinds : AbortQueue(j) \/ SignalRing(j))
        BY <1>11 DEF Main, HandleEvent, Refresh, ShowLooks, Toggle, JoinReader, JoinDecoder
    <2>2. QED
        BY <1>1, <1>4, <1>5, <2>1, TakersAre
<1>12. QED
    BY <1>1, <1>8, <1>9, <1>10, <1>11 DEF Next, Call, Finished, vars

VideoTakes ==
  (\E at \in {"refresh", "events"} : DropStale(at)) \/ (\E late \in BOOLEAN : Show(late))

LEMMA RingMoves ==
  ASSUME [Next]_vars
  PROVE  \/ UNCHANGED ring \/ DeviceTakes \/ VideoTakes
         \/ \E k \in Kinds : Reserve(k) \/ Push(k)
<1>1. ASSUME NEW k \in Kinds, Decode(k) PROVE UNCHANGED ring \/ Reserve(k) \/ Push(k)
    BY <1>1 DEF Decode, Receive, GetPacket, DropEarly, FilterFails
<1>2. CASE Device
    BY <1>2 DEF Device, DevicePlays
<1>3. CASE Main
    BY <1>3 DEF VideoTakes, Main, HandleEvent, Refresh, ShowLooks, Toggle, JoinReader, AbortQueue,
                SignalRing, JoinDecoder
<1>4. QED
    BY <1>1, <1>2, <1>3, ReaderKeeps DEF Next, Call, Finished, vars

(* A ring that does not change keeps its contents.                         *)
LEMMA ContentsStay ==
  ASSUME NEW k \in Kinds, ring'[k] = ring[k], Contents(k)
  PROVE  Contents(k)'
BY DEF Contents, SlotOf

LEMMA TakeHolds ==
  ASSUME RingTypes, Rings, NEW k \in Kinds, Takes(k)
  PROVE  /\ RingTypes' /\ (\A j \in Kinds \ {k} : ring'[j] = ring[j])
         /\ Contents(k)' /\ ring'[k].shown = 1 /\ ring'[k].rindex = PeekSlot(k)
         /\ ring'[k].slot[PeekSlot(k)] = ring[k].slot[PeekSlot(k)]
         /\ ring'[k].size = IF ring[k].shown = 0 THEN ring[k].size ELSE ring[k].size - 1
         /\ \A i \in 1 .. ring'[k].size - 1 :
              ring'[k].slot[SlotOf(k, i)'] = ring[k].slot[SlotOf(k, i + ring[k].shown)]
<1> DEFINE f == FrameNext(k)
<1>1. RingHolds(k) /\ ring[k].shown < ring[k].size /\ ring' = [ring EXCEPT ![k] = f]
    BY DEF Rings, Takes
<1>2. /\ f \in RingOf(k) /\ f.shown = 1 /\ f.rindex = PeekSlot(k)
      /\ f.slot[f.rindex] = ring[k].slot[PeekSlot(k)]
      /\ f.size = IF ring[k].shown = 0 THEN ring[k].size ELSE ring[k].size - 1
      /\ f.size >= 1
      /\ f.windex = (f.rindex + f.size) % RingSize[k]
      /\ \A i \in 0 .. f.size - 1 : f.slot[(f.rindex + i) % RingSize[k]] # Empty
      /\ \A i \in 1 .. f.size - 1 :
           f.slot[(f.rindex + i) % RingSize[k]] = ring[k].slot[SlotOf(k, i + ring[k].shown)]
    BY <1>1, NextHolds
<1> HIDE DEF f
<1>3. RingTypes' /\ ring'[k] = f /\ (\A j \in Kinds \ {k} : ring'[j] = ring[j])
    BY <1>1, <1>2, RingUpdate
<1>4. Contents(k)'
    BY <1>2, <1>3 DEF Contents, SlotOf
<1>5. \A i \in 1 .. ring'[k].size - 1 :
        ring'[k].slot[SlotOf(k, i)'] = ring[k].slot[SlotOf(k, i + ring[k].shown)]
    <2>1. \A i : SlotOf(k, i)' = (f.rindex + i) % RingSize[k]
        BY <1>3 DEF SlotOf
    <2>2. QED
        BY <1>2, <1>3, <2>1
<1>6. QED
    BY <1>2, <1>3, <1>4, <1>5

(* frame_queue_peek_writable, and the frame that is being written.         *)
LEMMA ReserveHolds ==
  ASSUME RingTypes, Rings, NEW k \in Kinds, Reserve(k)
  PROVE  /\ RingTypes' /\ (\A j \in Kinds \ {k} : ring'[j] = ring[j])
         /\ Contents(k)' /\ ring'[k].size = ring[k].size /\ ring'[k].shown = ring[k].shown
         /\ ring'[k].rindex = ring[k].rindex
         /\ \A i \in 0 .. ring[k].size - 1 : ring'[k].slot[SlotOf(k, i)] = ring[k].slot[SlotOf(k, i)]
<1> DEFINE g == ring[k]
<1>1. /\ g \in RingOf(k) /\ g.slot \in Slots(k) /\ g.windex \in 0 .. RingSize[k] - 1
      /\ g.size \in 0 .. RingSize[k] /\ Contents(k) /\ RingSize[k] \in Nat /\ Empty \in Frame
    BY RingSizes DEF RingTypes, RingOf, Rings, RingHolds, Empty, Frame
<1>2. CASE UNCHANGED ring
    <2>1. RingTypes'
        BY <1>2 DEF RingTypes, RingOf, Slots, Frame
    <2>2. QED
        BY <1>1, <1>2, <2>1, ContentsStay
<1>3. CASE ring' # ring
    <2> DEFINE f == [g EXCEPT !.slot = [g.slot EXCEPT ![g.windex] = Empty]]
    <2>1. g.size < RingSize[k] /\ ring' = [ring EXCEPT ![k] = f]
        BY <1>1, <1>3 DEF Reserve, RingTypes
    <2>2. /\ f \in RingOf(k) /\ f.slot = [g.slot EXCEPT ![g.windex] = Empty] /\ f.size = g.size
          /\ f.shown = g.shown /\ f.rindex = g.rindex /\ f.windex = g.windex
        <3>1. [g.slot EXCEPT ![g.windex] = Empty] \in Slots(k)
            BY <1>1 DEF Slots
        <3>2. QED
            BY <1>1, <3>1 DEF RingOf
    <2> HIDE DEF f
    <2>3. RingTypes' /\ ring'[k] = f /\ (\A j \in Kinds \ {k} : ring'[j] = ring[j])
        BY <2>1, <2>2, RingUpdate
    <2>4. ASSUME NEW i \in 0 .. g.size - 1
          PROVE  f.slot[SlotOf(k, i)] = g.slot[SlotOf(k, i)]
        <3>1. i \in 0 .. RingSize[k] /\ i < g.size /\ g.size - i < RingSize[k] + 1
              /\ (g.size - i < RingSize[k])
            BY <1>1, <2>1
        <3>2. SlotOf(k, i) # g.windex /\ SlotOf(k, i) \in 0 .. RingSize[k] - 1
            BY <1>1, <3>1, SlotIs, SlotsDiffer DEF Contents
        <3>3. QED
            BY <1>1, <2>2, <3>2 DEF Slots
    <2>5. Contents(k)'
        <3>1. f.windex = (f.rindex + f.size) % RingSize[k]
            BY <1>1, <2>2 DEF Contents, SlotOf
        <3>2. \A i \in 0 .. f.size - 1 : f.slot[SlotOf(k, i)] # Empty
            BY <1>1, <2>2, <2>4 DEF Contents
        <3>3. \A i \in 0 .. f.size - 1 : f.slot[(f.rindex + i) % RingSize[k]] # Empty
            BY <2>2, <3>2 DEF SlotOf
        <3>4. f.shown <= f.size
            BY <1>1, <2>2 DEF Contents
        <3>5. QED
            BY <2>3, <3>1, <3>3, <3>4 DEF Contents, SlotOf
    <2>6. QED
        BY <2>2, <2>3, <2>4, <2>5
<1>4. QED
    BY <1>2, <1>3

(* frame_queue_push.                                                       *)
LEMMA PushWrites ==
  ASSUME Types, Places, Rings, NEW k \in Kinds, Push(k)
  PROVE  /\ RingTypes' /\ (\A j \in Kinds \ {k} : ring'[j] = ring[j])
         /\ Contents(k)' /\ ring'[k].size = ring[k].size + 1 /\ ring'[k].shown = ring[k].shown
         /\ ring'[k].rindex = ring[k].rindex
         /\ \A i \in 0 .. ring[k].size - 1 : ring'[k].slot[SlotOf(k, i)] = ring[k].slot[SlotOf(k, i)]
         /\ ring'[k].slot[SlotOf(k, ring[k].size)] = [serial |-> dec[k].serial, pos |-> dec[k].frame]
<1> DEFINE g == ring[k]
           R == RingSize[k]
           frame == [serial |-> dec[k].serial, pos |-> dec[k].frame]
           w == (g.windex + 1) % R
           f == [g EXCEPT !.slot = [g.slot EXCEPT ![g.windex] = frame],
                          !.windex = w, !.size = g.size + 1]
<1>1. /\ g \in RingOf(k) /\ g.slot \in Slots(k) /\ g.windex \in 0 .. R - 1 /\ g.rindex \in 0 .. R - 1
      /\ g.size \in 0 .. R /\ g.shown \in 0 .. g.size /\ Contents(k) /\ R \in Nat /\ R >= 2
    BY RingSizes DEF Types, RingTypes, RingOf, Rings, RingHolds, Contents
<1>2. g.size < R
    BY DEF Push, Rings, RingHolds
<1>3. frame \in Frame /\ frame # Empty
    <2>1. dec[k].frame \in Positions /\ dec[k].serial \in Int
        BY DEF Push, Places, Sound, Types, DecoderTypes, Decoder
    <2>2. QED
        BY <2>1 DEF Frame, Empty, Positions
<1>4. ring' = [ring EXCEPT ![k] = f]
    BY DEF Push, RingTypes
<1>5. w = Wrapped(g.windex + 1, R)
    <2>1. 1 \in 0 .. R
        BY <1>1
    <2>2. QED
        BY <1>1, <2>1, Wraps, Zenon
<1> HIDE DEF w, frame
<1>6. w \in 0 .. R - 1
    BY <1>1, <1>5 DEF Wrapped
<1>7. /\ f \in RingOf(k) /\ f.slot = [g.slot EXCEPT ![g.windex] = frame] /\ f.size = g.size + 1
      /\ f.shown = g.shown /\ f.rindex = g.rindex /\ f.windex = w
    <2> DEFINE slot == [g.slot EXCEPT ![g.windex] = frame]
               size == g.size + 1
    <2>1. slot \in Slots(k) /\ size \in 0 .. R
        BY <1>1, <1>2, <1>3 DEF Slots
    <2>2. f = [g EXCEPT !.slot = slot, !.windex = w, !.size = size]
        OBVIOUS
    <2> HIDE DEF slot, size
    <2>3. /\ f \in RingOf(k) /\ f.slot = slot /\ f.size = size
          /\ f.shown = g.shown /\ f.rindex = g.rindex /\ f.windex = w
        BY <1>1, <1>6, <2>1, <2>2 DEF RingOf
    <2>4. QED
        BY <2>3 DEF slot, size
<1> HIDE DEF f
<1>8. RingTypes' /\ ring'[k] = f /\ (\A j \in Kinds \ {k} : ring'[j] = ring[j])
    <2>1. RingTypes
        BY DEF Types
    <2>2. QED
        BY <1>4, <1>7, <2>1, RingUpdate
<1>9. ASSUME NEW i \in 0 .. g.size - 1
      PROVE  f.slot[SlotOf(k, i)] = g.slot[SlotOf(k, i)]
    <2>1. i \in 0 .. R /\ i < g.size /\ g.size - i < R
        BY <1>1, <1>2
    <2>2. SlotOf(k, i) # g.windex /\ SlotOf(k, i) \in 0 .. R - 1
        BY <1>1, <2>1, SlotIs, SlotsDiffer DEF Contents, Types
    <2>3. QED
        BY <1>1, <1>7, <2>2 DEF Slots
<1>10. \A i \in 0 .. R : (f.rindex + i) % R = SlotOf(k, i)
    BY <1>7 DEF SlotOf
<1>11. f.windex = SlotOf(k, g.size + 1)
    <2>1. g.windex = Wrapped(g.rindex + g.size, R)
        BY <1>1, SlotIs DEF Contents, Types
    <2>2. g.size + 1 \in 0 .. R
        BY <1>1, <1>2
    <2>3. SlotOf(k, g.size + 1) = Wrapped(g.rindex + (g.size + 1), R)
        BY <2>2, SlotIs DEF Types
    <2>4. QED
        BY <1>1, <1>2, <1>5, <1>7, <2>1, <2>3 DEF Wrapped
<1>12. f.slot[SlotOf(k, g.size)] = frame
    BY <1>1, <1>7 DEF Contents, Slots
<1>13. Contents(k)'
    <2>1. \A i \in 0 .. g.size : i \in 0 .. R /\ (i = g.size \/ i \in 0 .. g.size - 1)
        BY <1>1
    <2>2. g.size + 1 \in 0 .. R /\ (g.size + 1) - 1 = g.size
        BY <1>1, <1>2
    <2>3. \A i \in 0 .. f.size - 1 : f.slot[(f.rindex + i) % R] # Empty
        <3>1. \A i \in 0 .. g.size : f.slot[SlotOf(k, i)] # Empty
            BY <1>1, <1>3, <1>9, <1>12, <2>1 DEF Contents
        <3>2. QED
            BY <1>7, <1>10, <2>1, <2>2, <3>1
    <2>4. f.windex = (f.rindex + f.size) % R
        BY <1>7, <1>10, <1>11, <2>2
    <2>5. f.shown <= f.size
        BY <1>1, <1>7
    <2>6. QED
        BY <1>8, <2>3, <2>4, <2>5 DEF Contents, SlotOf
<1>14. QED
    BY <1>7, <1>8, <1>9, <1>12, <1>13 DEF frame

LEMMA PushHolds ==
  ASSUME Types, Places, Rings, NEW k \in Kinds, Push(k)
  PROVE  /\ RingTypes' /\ (\A j \in Kinds \ {k} : ring'[j] = ring[j])
         /\ Contents(k)' /\ ring'[k].size = ring[k].size + 1 /\ ring'[k].shown = ring[k].shown
         /\ ring'[k].rindex = ring[k].rindex
         /\ \A i \in 0 .. ring[k].size - 1 : ring'[k].slot[SlotOf(k, i)] = ring[k].slot[SlotOf(k, i)]
BY PushWrites

LEMMA StepRings ==
  ASSUME Types, Places, Rings, InUse, [Next]_vars
  PROVE  RingTypes' /\ Rings'
<1>0. RingTypes /\ (\A k \in Kinds : Contents(k) /\ ring[k].size \in Nat /\ RingSize[k] \in Nat)
    BY RingSizes DEF Types, RingTypes, RingOf, Rings, RingHolds
<1>1. ASSUME NEW k \in Kinds, ring'[k].size <= ring[k].size \/ dec'[k].at # "write",
             ring'[k].size \in Nat, Contents(k)'
      PROVE  RingHolds(k)'
    <2>1. dec'[k].at = "write" =>
            dec[k].at = "write" \/ (Reserve(k) /\ ring[k].size < RingSize[k])
        BY DecoderAt
    <2>2. dec'[k].at = "write" => ring[k].size < RingSize[k]
        BY <2>1 DEF Rings, RingHolds
    <2>3. dec'[k].at = "write" => ring'[k].size < RingSize[k]
        BY <1>0, <1>1, <2>2
    <2>4. QED
        BY <1>1, <2>3 DEF RingHolds
<1>2. ASSUME NEW k \in Kinds, ring'[k] = ring[k] PROVE RingHolds(k)'
    BY <1>0, <1>1, <1>2, ContentsStay
<1>3. CASE UNCHANGED ring
    <2>1. RingTypes'
        BY <1>0, <1>3 DEF RingTypes, RingOf, Slots, Frame
    <2>2. QED
        BY <1>2, <1>3, <2>1 DEF Rings
<1>4. ASSUME NEW k \in Kinds, RingTypes', Contents(k)', \A j \in Kinds \ {k} : ring'[j] = ring[j],
             ring'[k].size <= ring[k].size \/ dec'[k].at # "write"
      PROVE  RingTypes' /\ Rings'
    <2>1. ring'[k].size \in Nat
        BY <1>0, <1>4 DEF RingTypes, RingOf
    <2>2. RingHolds(k)'
        BY <1>1, <1>4, <2>1
    <2>3. QED
        BY <1>2, <1>4, <2>2 DEF Rings
<1>5. ASSUME NEW k \in Kinds, Takes(k) PROVE RingTypes' /\ Rings'
    <2>1. /\ RingTypes' /\ (\A j \in Kinds \ {k} : ring'[j] = ring[j]) /\ Contents(k)'
          /\ ring'[k].size = IF ring[k].shown = 0 THEN ring[k].size ELSE ring[k].size - 1
        BY <1>0, <1>5, TakeHolds
    <2>2. ring'[k].size <= ring[k].size
        BY <1>0, <2>1
    <2>3. QED
        BY <1>4, <2>1, <2>2
<1>6. ASSUME NEW k \in Kinds, Reserve(k) PROVE RingTypes' /\ Rings'
    <2>1. /\ RingTypes' /\ (\A j \in Kinds \ {k} : ring'[j] = ring[j]) /\ Contents(k)'
          /\ ring'[k].size = ring[k].size
        BY <1>0, <1>6, ReserveHolds
    <2>2. ring'[k].size <= ring[k].size
        BY <1>0, <2>1
    <2>3. QED
        BY <1>4, <2>1, <2>2
<1>7. ASSUME NEW k \in Kinds, Push(k) PROVE RingTypes' /\ Rings'
    <2>1. RingTypes' /\ (\A j \in Kinds \ {k} : ring'[j] = ring[j]) /\ Contents(k)'
        BY <1>7, PushHolds
    <2>2. dec'[k].at # "write"
        BY <1>7 DEF Push, Decoders, Types, DecoderTypes, Decoder
    <2>3. QED
        BY <1>4, <2>1, <2>2
<1>8. QED
    BY <1>3, <1>5, <1>6, <1>7, RingMoves, TakersAre DEF VideoTakes

(* A decoder that reserves or pushes leaves what is in use where it is.    *)
LEMMA WritesElsewhere ==
  ASSUME Types, Places, Rings, NEW k \in Kinds, NEW j \in Kinds, Reserve(j) \/ Push(j),
         NEW i \in 0 .. ring[k].size - 1
  PROVE  /\ ring'[k].slot[SlotOf(k, i)] = ring[k].slot[SlotOf(k, i)]
         /\ ring'[k].shown = ring[k].shown /\ ring'[k].rindex = ring[k].rindex
         /\ ring'[k].size >= ring[k].size
<1>0. RingTypes /\ ring[k].size \in Nat
    BY RingSizes DEF Types, RingTypes, RingOf
<1>1. CASE j # k
    <2>1. ring'[k] = ring[k]
        BY <1>0, <1>1, ReserveHolds, PushHolds
    <2>2. QED
        BY <1>0, <2>1
<1>2. CASE j = k /\ Reserve(k)
    BY <1>0, <1>2, ReserveHolds
<1>3. CASE j = k /\ Push(k)
    BY <1>0, <1>3, PushHolds
<1>4. QED
    BY <1>1, <1>2, <1>3

(* What is in use begins to be used in one action.                         *)
LEMMA DeviceAt ==
  ASSUME Types, [Next]_vars, device'.at \in {"play", "asleep"}
  PROVE  DeviceTakes \/ UNCHANGED device
<1>0. device \in [at : {"closed", "idle", "peek", "asleep", "play"}, slot : Nat, frame : Frame]
    BY DEF Types, DeviceTypes
<1>1. ASSUME NEW k \in Kinds, OpenStream(k) \/ Push(k) \/ SignalRing(k) \/ JoinDecoder(k)
      PROVE  UNCHANGED device \/ device'.at \in {"idle", "peek", "closed"}
    BY <1>0, <1>1 DEF OpenStream, Push, SignalRing, JoinDecoder
<1>2. CASE Device
    BY <1>2 DEF Device, DevicePlays
<1>3. CASE Reader
    <2>1. UNCHANGED device \/ \E k \in Kinds : OpenStream(k)
        BY <1>3 DEF Reader, OpenFails, SeekFlushes, Opened, ReadAborts, SeekBegins, SeekReturns,
                    SeekEnds, StepLooks, StepToggles, StepMarks, ReadWaits, ReadEnds, ReadFails,
                    ReadPacket, ReadEof, Leave
    <2>2. QED
        BY <1>1, <2>1
<1>4. ASSUME NEW k \in Kinds, Decode(k) PROVE UNCHANGED device \/ Push(k)
    BY <1>4 DEF Decode, Receive, GetPacket, DropEarly, Reserve, FilterFails
<1>5. CASE Main
    <2>1. UNCHANGED device \/ \E k \in Kinds : SignalRing(k) \/ JoinDecoder(k)
        BY <1>5 DEF Main, HandleEvent, DropStale, Refresh, Show, ShowLooks, Toggle, JoinReader,
                    AbortQueue
    <2>2. QED
        BY <1>1, <2>1
<1>6. QED
    BY <1>1, <1>2, <1>3, <1>4, <1>5 DEF Next, Call, Finished, vars

LEMMA MainAt ==
  ASSUME Types, [Next]_vars, main'.at = "show"
  PROVE  \/ Refresh
         \/ UNCHANGED main /\ main.at = "show" /\ ~VideoTakes
<1>0. main.at \in {"events", "refresh", "show", "shown", "toggle", "join", "abort", "signal",
                   "decoder", "closed"}
      /\ main = [at |-> main.at, closing |-> main.closing, slot |-> main.slot, frame |-> main.frame]
    BY DEF Types, MainTypes
<1>1. ~VideoTakes
    <2>1. ASSUME NEW at \in {"refresh", "events"}, DropStale(at) PROVE FALSE
        BY <1>0, <2>1 DEF DropStale
    <2>2. ASSUME NEW late \in BOOLEAN, Show(late) PROVE FALSE
        BY <1>0, <2>2 DEF Show
    <2>3. QED
        BY <2>1, <2>2 DEF VideoTakes
<1>2. ASSUME Main PROVE Refresh
    <2>1. ~HandleEvent
        BY <1>0 DEF HandleEvent
    <2>2. ~ShowLooks /\ ~Toggle /\ ~JoinReader
        BY <1>0 DEF ShowLooks, Toggle, JoinReader
    <2>3. \A k \in Kinds : ~AbortQueue(k) /\ ~SignalRing(k) /\ ~JoinDecoder(k)
        BY <1>0 DEF AbortQueue, SignalRing, JoinDecoder
    <2>4. QED
        BY <1>1, <1>2, <2>1, <2>2, <2>3 DEF Main, VideoTakes
<1>3. CASE UNCHANGED main
    BY <1>0, <1>1, <1>3
<1>4. QED
    BY <1>2, <1>3, ReaderKeeps, DecodeKeeps, DeviceKeeps DEF Next, Call, Finished, vars

(* The frame of the device is the one shown last.                          *)
LEMMA StepDeviceInUse ==
  ASSUME Types, Places, Rings, InUse, [Next]_vars, device'.at = "play"
  PROVE  /\ ring'["audio"].shown = 1 /\ device'.slot = ring'["audio"].rindex
         /\ ring'["audio"].slot[device'.slot] = device'.frame
<1>0. RingTypes /\ device \in [at : {"closed", "idle", "peek", "asleep", "play"}, slot : Nat, frame : Frame]
    BY DEF Types, DeviceTypes
<1>1. CASE DeviceTakes
    <2>1. "audio" \in Kinds
        BY <1>1, TakersAre
    <2> DEFINE frame == ring["audio"].slot[PeekSlot("audio")]
    <2>2. /\ device' = [at |-> "play", slot |-> PeekSlot("audio"), frame |-> frame]
          /\ ~(q["audio"].abort \/ Remaining("audio") <= 0)
        BY <1>0, <1>1 DEF DeviceTakes
    <2>3. Takes("audio")
        <3>1. ring["audio"].shown < ring["audio"].size
            BY <2>1, <2>2, RingSizes DEF Types, RingTypes, RingOf, Remaining
        <3>2. QED
            BY <1>1, <2>2, <3>1 DEF DeviceTakes, Takes
    <2>4. /\ ring'["audio"].shown = 1 /\ ring'["audio"].rindex = PeekSlot("audio")
          /\ ring'["audio"].slot[PeekSlot("audio")] = frame
        BY <1>0, <2>1, <2>3, TakeHolds
    <2> HIDE DEF frame
    <2>5. QED
        BY <2>2, <2>4
<1>2. CASE UNCHANGED device /\ ~DeviceTakes
    <2>1. /\ ring["audio"].shown = 1 /\ device.slot = ring["audio"].rindex
          /\ ring["audio"].slot[device.slot] = device.frame /\ "audio" \in Kinds
        BY <1>2 DEF InUse, Places
    <2>2. SlotOf("audio", 0) = device.slot /\ 0 \in 0 .. ring["audio"].size - 1
        <3>1. 0 \in 0 .. RingSize["audio"] /\ ring["audio"].rindex \in 0 .. RingSize["audio"] - 1
              /\ ring["audio"].size \in Nat /\ ring["audio"].size >= 1
            BY <2>1, RingSizes DEF Types, RingTypes, RingOf, Rings, RingHolds, Contents
        <3>2. SlotOf("audio", 0) = Wrapped(ring["audio"].rindex + 0, RingSize["audio"])
            BY <1>0, <2>1, <3>1, SlotIs
        <3>3. QED
            BY <2>1, <3>1, <3>2, RingSizes DEF Wrapped
    <2>3. CASE UNCHANGED ring
        BY <1>2, <2>1, <2>3
    <2>4. CASE VideoTakes
        <3>1. ring'["audio"] = ring["audio"]
            BY <1>0, <2>1, <2>4, TakersAre, TakeHolds DEF VideoTakes
        <3>2. QED
            BY <1>2, <2>1, <3>1
    <2>5. ASSUME NEW j \in Kinds, Reserve(j) \/ Push(j)
          PROVE  /\ ring'["audio"].slot[device.slot] = ring["audio"].slot[device.slot]
                 /\ ring'["audio"].shown = 1 /\ ring'["audio"].rindex = device.slot
        BY <2>1, <2>2, <2>5, WritesElsewhere
    <2>6. QED
        BY <1>2, <2>1, <2>3, <2>4, <2>5, RingMoves
<1>3. QED
    BY <1>1, <1>2, DeviceAt

(* The picture on its way to the screen is the next one of its ring.       *)
LEMMA StepMainInUse ==
  ASSUME Types, Places, Rings, InUse, [Next]_vars, main'.at = "show"
  PROVE  /\ ring'["video"].shown < ring'["video"].size
         /\ main'.slot = SlotOf("video", ring["video"].shown)'
         /\ ring'["video"].slot[main'.slot] = main'.frame
<1>0. RingTypes /\ main = [at |-> main.at, closing |-> main.closing, slot |-> main.slot, frame |-> main.frame]
    BY DEF Types, MainTypes
<1>1. CASE Refresh
    <2>1. "video" \in Kinds
        BY <1>1, RefreshingHasVideo DEF Refresh
    <2>2. /\ UNCHANGED ring /\ Remaining("video") # 0 /\ main'.slot = PeekSlot("video")
          /\ main'.frame = ring["video"].slot[PeekSlot("video")]
        BY <1>0, <1>1 DEF Refresh
    <2>3. ring["video"].shown < ring["video"].size
        BY <2>1, <2>2, RingSizes
           DEF Types, RingTypes, RingOf, Remaining, Rings, RingHolds, Contents
    <2>4. PeekSlot("video") = SlotOf("video", ring["video"].shown)
        BY <1>0, <2>1, PeekFrame
    <2>5. QED
        BY <2>2, <2>3, <2>4 DEF SlotOf
<1>2. CASE UNCHANGED main /\ main.at = "show" /\ ~VideoTakes
    <2>1. /\ ring["video"].shown < ring["video"].size /\ main.slot = SlotOf("video", ring["video"].shown)
          /\ ring["video"].slot[main.slot] = main.frame /\ "video" \in Kinds
        BY <1>2 DEF InUse, Places
    <2>2. ring["video"].shown \in 0 .. ring["video"].size - 1 /\ ring["video"].size \in Nat
        BY <2>1, RingSizes DEF Types, RingTypes, RingOf
    <2>3. CASE ring'["video"] = ring["video"]
        BY <1>2, <2>1, <2>3 DEF SlotOf
    <2>4. CASE DeviceTakes
        <3>1. ring'["video"] = ring["video"]
            BY <1>0, <2>1, <2>4, TakersAre, TakeHolds
        <3>2. QED
            BY <2>3, <3>1
    <2>5. ASSUME NEW j \in Kinds, Reserve(j) \/ Push(j)
          PROVE  /\ ring'["video"].slot[main.slot] = ring["video"].slot[main.slot]
                 /\ ring'["video"].shown = ring["video"].shown
                 /\ ring'["video"].rindex = ring["video"].rindex
                 /\ ring'["video"].size >= ring["video"].size
                 /\ ring'["video"].size \in Nat
        <3>1. ring'["video"].size \in Nat
            BY <2>1, StepRings, RingSizes DEF RingTypes, RingOf
        <3>2. QED
            BY <2>1, <2>2, <2>5, <3>1, WritesElsewhere
    <2>6. CASE \E j \in Kinds : Reserve(j) \/ Push(j)
        <3>1. /\ ring'["video"].slot[main.slot] = ring["video"].slot[main.slot]
              /\ ring'["video"].shown = ring["video"].shown
              /\ ring'["video"].rindex = ring["video"].rindex
              /\ ring'["video"].size >= ring["video"].size
              /\ ring'["video"].size \in Nat
            BY <2>5, <2>6
        <3>2. ring'["video"].shown < ring'["video"].size
            BY <2>1, <2>2, <3>1
        <3>3. QED
            BY <1>2, <2>1, <3>1, <3>2 DEF SlotOf
    <2>7. QED
        BY <1>2, <2>3, <2>4, <2>6, RingMoves
<1>3. QED
    BY <1>1, <1>2, MainAt

-----------------------------------------------------------------------------
(* Sleeping.                                                               *)

LEMMA QueueMoves ==
  ASSUME Types, [Next]_vars, NEW k \in Kinds
  PROVE  \/ q'[k] = q[k]
         \/ OpenStream(k) /\ q'[k] = Started(q[k])
         \/ q'[k] = Flushed(q[k])
         \/ AbortQueue(k) /\ q'[k] = [q[k] EXCEPT !.abort = TRUE]
         \/ GetPacket(k) /\ q'[k] = [q[k] EXCEPT !.packets = Tail(@)]
         \/ dec'[k] = Woken(dec[k]) /\ \E pos \in Positions \cup {Null} : q'[k] = Put(k, pos)
<1> DEFINE Goal ==
         \/ q'[k] = q[k]
         \/ OpenStream(k) /\ q'[k] = Started(q[k])
         \/ q'[k] = Flushed(q[k])
         \/ AbortQueue(k) /\ q'[k] = [q[k] EXCEPT !.abort = TRUE]
         \/ GetPacket(k) /\ q'[k] = [q[k] EXCEPT !.packets = Tail(@)]
         \/ dec'[k] = Woken(dec[k]) /\ \E pos \in Positions \cup {Null} : q'[k] = Put(k, pos)
<1>0. q \in [Kinds -> Queue] /\ dec \in [Kinds -> Decoder]
    BY DEF Types, QueueTypes, DecoderTypes
<1>1. CASE UNCHANGED q
    BY <1>1
<1>2. ASSUME NEW j \in Kinds, OpenStream(j) PROVE Goal
    <2>1. q' = [q EXCEPT ![j] = Started(q[j])]
        BY <1>2 DEF OpenStream
    <2>2. QED
        BY <1>0, <1>2, <2>1
<1>3. ASSUME NEW j \in Kinds, SeekFlushes(j) \/ JoinDecoder(j) PROVE Goal
    <2>1. q' = [q EXCEPT ![j] = Flushed(q[j])]
        BY <1>3 DEF SeekFlushes, JoinDecoder
    <2>2. QED
        BY <1>0, <2>1
<1>4. ASSUME NEW j \in Kinds, AbortQueue(j) PROVE Goal
    <2>1. q' = [q EXCEPT ![j] = [q[j] EXCEPT !.abort = TRUE]]
        BY <1>0, <1>4 DEF AbortQueue
    <2>2. QED
        BY <1>0, <1>4, <2>1
<1>5. ASSUME NEW j \in Kinds, GetPacket(j) PROVE Goal
    <2>1. \/ UNCHANGED q
          \/ q' = [q EXCEPT ![j] = [q[j] EXCEPT !.packets = Tail(@)]]
        BY <1>0, <1>5 DEF GetPacket
    <2>2. QED
        BY <1>0, <1>5, <2>1
<1>6. CASE ReadPacket
    <2> DEFINE j == Media[reader.next]
    <2>1. j \in Kinds /\ reader.next \in Positions
        BY <1>6, KindsAre DEF ReadPacket
    <2>2. \/ UNCHANGED q
          \/ q' = [q EXCEPT ![j] = Put(j, reader.next)] /\ dec' = [dec EXCEPT ![j] = Woken(dec[j])]
        BY <1>6 DEF ReadPacket
    <2> HIDE DEF j
    <2>3. CASE q' = [q EXCEPT ![j] = Put(j, reader.next)] /\ dec' = [dec EXCEPT ![j] = Woken(dec[j])]
        <3>1. CASE j = k
            BY <1>0, <2>1, <2>3, <3>1
        <3>2. CASE j # k
            BY <1>0, <2>3, <3>2
        <3>3. QED
            BY <3>1, <3>2
    <2>4. QED
        BY <1>1, <2>2, <2>3
<1>7. CASE ReadEof
    <2>1. CASE ~reader.eof /\ is.opened[k]
        BY <1>7, <2>1 DEF ReadEof
    <2>2. CASE reader.eof \/ ~is.opened[k]
        BY <1>7, <2>2 DEF ReadEof
    <2>3. QED
        BY <2>1, <2>2
<1>8. CASE Reader
    <2>1. \/ UNCHANGED q \/ (\E j \in Kinds : OpenStream(j) \/ SeekFlushes(j))
          \/ ReadPacket \/ ReadEof
        BY <1>8 DEF Reader, OpenFails, Opened, ReadAborts, SeekBegins, SeekReturns, SeekEnds,
                    StepLooks, StepToggles, StepMarks, ReadWaits, ReadEnds, ReadFails, Leave
    <2>2. QED
        BY <1>1, <1>2, <1>3, <1>6, <1>7, <2>1
<1>9. CASE Main
    <2>1. UNCHANGED q \/ \E j \in Kinds : AbortQueue(j) \/ JoinDecoder(j)
        BY <1>9 DEF Main, HandleEvent, DropStale, Refresh, Show, ShowLooks, Toggle, JoinReader,
                    SignalRing
    <2>2. QED
        BY <1>1, <1>3, <1>4, <2>1
<1>10. ASSUME NEW j \in Kinds, Decode(j) PROVE UNCHANGED q \/ GetPacket(j)
    BY <1>10 DEF Decode, Receive, DropEarly, Reserve, Push, FilterFails
<1>11. QED
    BY <1>1, <1>5, <1>8, <1>9, <1>10, DeviceKeeps DEF Next, Call, Finished, vars

Signalling(k) == main.at = "signal" /\ IsNext(k, main.closing)

(* A queue is aborted by packet_queue_abort only, and frame_queue_signal   *)
(* follows.                                                                *)
LEMMA AbortAt ==
  ASSUME Types, [Next]_vars, NEW k \in Kinds, q'[k].abort
  PROVE  q[k].abort \/ AbortQueue(k)
<1>1. q[k] \in Queue
    BY DEF Types, QueueTypes
<1>2. /\ Flushed(q[k]).abort = q[k].abort /\ ~Started(q[k]).abort
      /\ [q[k] EXCEPT !.packets = Tail(@)].abort = q[k].abort
    BY <1>1 DEF Flushed, Started, Queue
<1>3. \A pos \in Positions \cup {Null} : Put(k, pos).abort = q[k].abort
    BY <1>1 DEF Put, Queue
<1>4. QED
    BY <1>2, <1>3, QueueMoves

LEMMA SignalFollows ==
  ASSUME Types, [Next]_vars, NEW k \in Kinds
  PROVE  /\ AbortQueue(k) => Signalling(k)'
         /\ Signalling(k) => Signalling(k)' \/ SignalRing(k)
<1>0. main = [at |-> main.at, closing |-> main.closing, slot |-> main.slot, frame |-> main.frame]
    BY DEF Types, MainTypes
<1>1. AbortQueue(k) => Signalling(k)'
    BY <1>0 DEF AbortQueue, Signalling, IsNext
<1>2. ASSUME Signalling(k) PROVE Signalling(k)' \/ SignalRing(k)
    <2>0. main.at = "signal"
        BY <1>2 DEF Signalling
    <2>1. CASE UNCHANGED main
        BY <1>2, <2>1 DEF Signalling, IsNext
    <2>2. ASSUME Main PROVE SignalRing(k)
        <3>1. ~HandleEvent /\ ~Refresh /\ ~ShowLooks /\ ~Toggle /\ ~JoinReader
            BY <2>0 DEF HandleEvent, Refresh, Refreshing, ShowLooks, Toggle, JoinReader
        <3>2. \A at \in {"refresh", "events"} : ~DropStale(at)
            BY <2>0 DEF DropStale, Refreshing
        <3>3. \A late \in BOOLEAN : ~Show(late)
            BY <2>0 DEF Show
        <3>4. \A j \in Kinds : ~AbortQueue(j) /\ ~JoinDecoder(j)
            BY <2>0 DEF AbortQueue, JoinDecoder
        <3>5. PICK j \in Kinds : SignalRing(j)
            BY <2>2, <3>1, <3>2, <3>3, <3>4 DEF Main
        <3>6. j = k
            BY <1>2, <3>5, KindsAre DEF Signalling, SignalRing, IsNext
        <3>7. QED
            BY <3>5, <3>6
    <2>3. QED
        BY <2>1, <2>2, ReaderKeeps, DecodeKeeps, DeviceKeeps DEF Next, Call, Finished, vars
<1>3. QED
    BY <1>1, <1>2

(* Wake-ups of decoders that wait for a packet.                            *)
LEMMA StepAsleep ==
  ASSUME Inv, [Next]_vars, NEW k \in Kinds, dec'[k].at = "asleep"
  PROVE  q'[k].packets = <<>> /\ ~q'[k].abort
<1>0. Types /\ Places /\ InUse /\ dec \in [Kinds -> Decoder] /\ q[k] \in Queue
    BY DEF Inv, Types, DecoderTypes, QueueTypes
<1>1. CASE GetPacket(k)
    <2>1. PICK d \in Decoder :
            /\ dec' = [dec EXCEPT ![k] = d]
            /\ d.at = "asleep" => q[k].packets = <<>> /\ ~q[k].abort /\ UNCHANGED q
        BY <1>0, <1>1, GetPacketTypes
    <2>2. QED
        BY <1>0, <2>1
<1>2. CASE dec[k].at = "asleep" /\ ~GetPacket(k)
    <2>1. q[k].packets = <<>> /\ ~q[k].abort
        BY <1>2 DEF Inv, NoLostWakeup
    <2>2. ~OpenStream(k)
        BY <1>0 DEF OpenStream, Decoder
    <2>3. ~AbortQueue(k) /\ dec'[k] # Woken(dec[k])
        BY <1>0, <1>2 DEF AbortQueue, Woken, Decoder
    <2>4. q'[k] = q[k] \/ q'[k] = Flushed(q[k])
        BY <1>0, <1>2, <2>2, <2>3, QueueMoves
    <2>5. Flushed(q[k]).packets = <<>> /\ Flushed(q[k]).abort = q[k].abort
        BY <1>0 DEF Flushed, Queue
    <2>6. QED
        BY <2>1, <2>4, <2>5
<1>3. QED
    BY <1>0, <1>1, <1>2, DecoderAt

(* Wake-ups of decoders that wait for room.                                *)
LEMMA StepFull ==
  ASSUME Inv, [Next]_vars, NEW k \in Kinds, dec'[k].at = "full"
  PROVE  ring'[k].size = RingSize[k] /\ (q'[k].abort => Signalling(k)')
<1>0. /\ Types /\ Places /\ InUse /\ Rings /\ RingTypes /\ dec \in [Kinds -> Decoder]
      /\ ring[k].size \in 0 .. RingSize[k] /\ RingSize[k] \in Nat /\ ring[k].shown \in {0, 1}
    BY RingSizes DEF Inv, Types, DecoderTypes, RingTypes, RingOf
<1>1. CASE Reserve(k)
    <2>1. ~q[k].abort /\ ring[k].size >= RingSize[k] /\ UNCHANGED <<ring, q>>
        BY <1>0, <1>1 DEF Reserve, Decoders, Decoder
    <2>2. QED
        BY <1>0, <2>1
<1>2. CASE dec[k].at = "full" /\ ~Reserve(k)
    <2>1. ring[k].size = RingSize[k] /\ (q[k].abort => Signalling(k))
        BY <1>2 DEF Inv, NoLostWakeup, Signalling
    <2>2. ring'[k].size = RingSize[k]
        <3>1. ASSUME NEW j \in Kinds, Takes(j) PROVE ring'[k].size = ring[k].size
            <4>1. CASE j # k
                BY <1>0, <3>1, <4>1, TakeHolds
            <4>2. CASE j = k
                <5>1. dec'[k] = RoomFor(k)
                    BY <1>0, <3>1, <4>2 DEF Takes
                <5>2. ring[k].shown = 0
                    BY <1>0, <1>2, <5>1 DEF RoomFor, Decoder
                <5>3. QED
                    BY <1>0, <3>1, <4>2, <5>2, TakeHolds
            <4>3. QED
                BY <4>1, <4>2
        <3>2. ASSUME NEW j \in Kinds, Reserve(j) \/ Push(j) PROVE ring'[k].size = ring[k].size
            <4>1. j # k
                BY <1>2, <3>2 DEF Push
            <4>2. QED
                BY <1>0, <3>2, <4>1, ReserveHolds, PushHolds
        <3>3. QED
            BY <1>0, <2>1, <3>1, <3>2, RingMoves, TakersAre DEF VideoTakes
    <2>3. ~SignalRing(k)
        BY <1>0, <1>2 DEF SignalRing, Decoder
    <2>4. q'[k].abort => Signalling(k)'
        BY <1>0, <2>1, <2>3, AbortAt, SignalFollows
    <2>5. QED
        BY <2>2, <2>4
<1>3. QED
    BY <1>0, <1>1, <1>2, DecoderAt

(* Wake-ups of the device.                                                 *)
LEMMA StepSilent ==
  ASSUME Inv, [Next]_vars, "audio" \in Kinds, device'.at = "asleep"
  PROVE  Remaining("audio")' = 0 /\ (q'["audio"].abort => Signalling("audio")')
<1> DEFINE k == "audio"
<1>0. /\ Types /\ Places /\ InUse /\ Rings /\ RingTypes
      /\ ring[k].size \in Nat /\ ring[k].shown \in Nat /\ ring[k].shown <= ring[k].size
      /\ device \in [at : {"closed", "idle", "peek", "asleep", "play"}, slot : Nat, frame : Frame]
    BY RingSizes DEF Inv, Types, RingTypes, RingOf, Rings, RingHolds, Contents, DeviceTypes
<1>1. CASE DeviceTakes
    <2>1. ~q[k].abort /\ Remaining(k) <= 0 /\ UNCHANGED <<ring, q>>
        BY <1>0, <1>1 DEF DeviceTakes
    <2>2. QED
        BY <1>0, <2>1 DEF Remaining
<1>2. CASE UNCHANGED device /\ ~DeviceTakes
    <2>1. device.at = "asleep" /\ Remaining(k) = 0 /\ (q[k].abort => Signalling(k))
        BY <1>2 DEF Inv, NoLostWakeup, Signalling
    <2>2. Remaining(k)' = 0
        <3>1. CASE VideoTakes
            BY <1>0, <2>1, <3>1, TakersAre, TakeHolds DEF VideoTakes, Remaining
        <3>2. ASSUME NEW j \in Kinds, Reserve(j) PROVE Remaining(k)' = 0
            BY <1>0, <2>1, <3>2, ReserveHolds DEF Remaining
        <3>3. ASSUME NEW j \in Kinds, Push(j) PROVE Remaining(k)' = 0
            <4>1. j # k
                BY <1>0, <1>2, <2>1, <3>3 DEF Push
            <4>2. QED
                BY <1>0, <2>1, <3>3, <4>1, PushHolds DEF Remaining
        <3>4. CASE UNCHANGED ring
            BY <2>1, <3>4 DEF Remaining
        <3>5. QED
            BY <1>2, <3>1, <3>2, <3>3, <3>4, RingMoves
    <2>3. ~SignalRing(k)
        BY <1>0, <1>2, <2>1 DEF SignalRing
    <2>4. q'[k].abort => Signalling(k)'
        BY <1>0, <2>1, <2>3, AbortAt, SignalFollows
    <2>5. QED
        BY <2>2, <2>4
<1>3. QED
    BY <1>0, <1>1, <1>2, DeviceAt

-----------------------------------------------------------------------------
LEMMA StepInv == Inv /\ [Next]_vars => Inv'
<1> SUFFICES ASSUME Inv, [Next]_vars PROVE Inv'
    OBVIOUS
<1>0. Types /\ Places /\ Rings /\ InUse
    BY DEF Inv
<1>1. Types'
    BY <1>0, StepReaderTypes, StepMainTypes, StepDeviceTypes, StepStateTypes, StepApiTypes,
       StepQueueTypes, StepDecoders, StepRings DEF Types
<1>2. Places'
    BY <1>0, StepMainTypes, StepDeviceTypes, StepDecoders DEF Places
<1>3. Rings'
    BY <1>0, StepRings
<1>4. InUse'
    BY <1>0, StepDeviceInUse, StepMainInUse DEF InUse
<1>5. NoLostWakeup'
    BY StepAsleep, StepFull, StepSilent DEF NoLostWakeup, Signalling
<1>6. QED
    BY <1>1, <1>2, <1>3, <1>4, <1>5 DEF Inv

LEMMA InvHolds == Spec => []Inv
BY InitInv, StepInv, PTL DEF Spec

(* TypeOK: threads are at their places, indices inside the rings, for every*)
(* file, every size of the rings and every sequence of calls.              *)
THEOREM TypeCorrect == Spec => []TypeOK
<1>1. Inv => TypeOK
    <2> SUFFICES ASSUME Inv PROVE TypeOK
        OBVIOUS
    <2>1. ASSUME NEW k \in Kinds
          PROVE  /\ q[k] \in Queue /\ dec[k] \in Decoder /\ ring[k] \in RingOf(k)
                 /\ ring[k].shown <= ring[k].size /\ RingSize[k] \in Nat
        BY RingSizes DEF Inv, Types, QueueTypes, DecoderTypes, RingTypes, Rings, RingHolds, Contents
    <2>2. ASSUME NEW k \in Kinds
          PROVE  /\ ring[k].slot \in [0 .. RingSize[k] - 1 -> [serial : Int, pos : Nat]]
                 /\ ring[k].rindex \in 0 .. RingSize[k] - 1 /\ ring[k].windex \in 0 .. RingSize[k] - 1
                 /\ ring[k].shown \in {0, 1} /\ ring[k].size \in ring[k].shown .. RingSize[k]
        <3>1. /\ ring[k].slot \in Slots(k) /\ ring[k].rindex \in 0 .. RingSize[k] - 1
              /\ ring[k].windex \in 0 .. RingSize[k] - 1 /\ ring[k].size \in 0 .. RingSize[k]
              /\ ring[k].shown \in {0, 1}
            BY <2>1 DEF RingOf
        <3>2. ring[k].size \in ring[k].shown .. RingSize[k]
            <4> DEFINE n == ring[k].size
                       s == ring[k].shown
                       R == RingSize[k]
            <4>1. n \in 0 .. R /\ s \in {0, 1} /\ s <= n /\ R \in Nat
                BY <2>1, <3>1
            <4> HIDE DEF n, s, R
            <4>2. n \in s .. R
                BY <4>1
            <4> QED
                BY <4>2 DEF n, s, R
        <3> QED
            BY <3>1, <3>2 DEF Slots, Frame
    <2>3. MainTypes /\ DeviceTypes /\ StateTypes
        BY DEF Inv, Types
    <2>4. QED
        BY <2>1, <2>2, <2>3 DEF TypeOK, Queue, Decoder, MainTypes, DeviceTypes, StateTypes
<1>2. QED
    BY <1>1, InvHolds, PTL

(* NoLostWakeup: a decoder or the device that sleeps has a reason to, and  *)
(* stream_close wakes it, whichever of the two conditions it sleeps on.    *)
THEOREM Wakeups == Spec => []NoLostWakeup
BY InvHolds, PTL DEF Inv

(* FrameInUseIsKept: frame_queue_peek and its variants return pointers into*)
(* a ring that no decoder writes to while they are used, whatever the size *)
(* of the ring.                                                            *)
THEOREM FramesKept == Spec => []FrameInUseIsKept
<1>1. Inv => FrameInUseIsKept
    BY DEF Inv, Rings, RingHolds, Contents, SlotOf, InUse, FrameInUseIsKept
<1>2. QED
    BY <1>1, InvHolds, PTL

-----------------------------------------------------------------------------
(* The line: what of a stream was played, waits in the ring, is held by the*)
(* decoder, is in the codec and waits in the packet queue, one before the  *)
(* other, with nothing left out before the last of them.                   *)

Under(A, B) == \A x \in A, y \in B : x < y

Lined(due, P, R, D, C, Q) ==
  /\ Under(P, R \cup D \cup C \cup Q) /\ Under(R, D \cup C \cup Q)
  /\ Under(D, C \cup Q) /\ Under(C, Q)
  /\ P \cup R \cup D \cup C \cup Q \subseteq due
  /\ \A p \in due, x \in P \cup R \cup D \cup C \cup Q :
       p < x => p \in P \cup R \cup D \cup C \cup Q

LEMMA LineMoves ==
  ASSUME NEW due \in SUBSET Int, NEW P, NEW R, NEW D, NEW C, NEW Q, Lined(due, P, R, D, C, Q),
         NEW x
  PROVE  /\ x \in Q /\ (\A y \in Q \ {x} : x < y) => Lined(due, P, R, D, C \cup {x}, Q \ {x})
         /\ D = {} /\ x \in C /\ (\A y \in C \ {x} : x < y) => Lined(due, P, R, {x}, C \ {x}, Q)
         /\ D = {x} => Lined(due, P, R \cup {x}, {}, C, Q)
         /\ x \in R /\ (\A y \in R \ {x} : x < y) => Lined(due, P \cup {x}, R \ {x}, D, C, Q)
         /\ D = {x} => Lined(due \ {x}, P, R, {}, C, Q)
         /\ /\ x \in due /\ \A y \in P \cup R \cup D \cup C \cup Q : y < x
            /\ \A p \in due : p < x => p \in P \cup R \cup D \cup C \cup Q
            => Lined(due, P, R, D, C, Q \cup {x})
<1> USE DEF Lined, Under
<1>1. x \in Q /\ (\A y \in Q \ {x} : x < y) => Lined(due, P, R, D, C \cup {x}, Q \ {x})
    OBVIOUS
<1>2. D = {} /\ x \in C /\ (\A y \in C \ {x} : x < y) => Lined(due, P, R, {x}, C \ {x}, Q)
    OBVIOUS
<1>3. D = {x} => Lined(due, P, R \cup {x}, {}, C, Q)
    OBVIOUS
<1>4. x \in R /\ (\A y \in R \ {x} : x < y) => Lined(due, P \cup {x}, R \ {x}, D, C, Q)
    OBVIOUS
<1>5. D = {x} => Lined(due \ {x}, P, R, {}, C, Q)
    <2> SUFFICES ASSUME D = {x} PROVE Lined(due \ {x}, P, R, {}, C, Q)
        OBVIOUS
    <2>1. x \in Int /\ x \in D
        OBVIOUS
    <2>2. x \notin P /\ x \notin R /\ x \notin C /\ x \notin Q
        BY <2>1
    <2>3. Under(P, R \cup {} \cup C \cup Q) /\ Under(R, {} \cup C \cup Q) /\ Under({}, C \cup Q) /\ Under(C, Q)
        OBVIOUS
    <2>4. P \cup R \cup {} \cup C \cup Q \subseteq due \ {x}
        BY <2>2
    <2>5. \A p \in due \ {x}, y \in P \cup R \cup {} \cup C \cup Q :
            p < y => p \in P \cup R \cup {} \cup C \cup Q
        OBVIOUS
    <2>6. QED
        BY <2>3, <2>4, <2>5
<1>6. /\ x \in due /\ \A y \in P \cup R \cup D \cup C \cup Q : y < x
      /\ \A p \in due : p < x => p \in P \cup R \cup D \cup C \cup Q
      => Lined(due, P, R, D, C, Q \cup {x})
    OBVIOUS
<1>7. QED
    BY <1>1, <1>2, <1>3, <1>4, <1>5, <1>6

LEMMA LineEnds ==
  ASSUME NEW due \in SUBSET Int, NEW P, NEW R, NEW D, NEW C, NEW Q, Lined(due, P, R, D, C, Q)
  PROVE  Lined(due, P, R, {}, {}, {}) /\ Lined(due, P, {}, {}, {}, {})
<1> USE DEF Lined, Under
<1>1. ASSUME NEW p \in due, NEW x \in P \cup R, p < x PROVE p \in P \cup R
    <2>1. p \in P \cup R \cup D \cup C \cup Q /\ p \in Int /\ x \in Int
        BY <1>1
    <2>2. p \in D \cup C \cup Q => x < p
        OBVIOUS
    <2>3. QED
        BY <1>1, <2>1, <2>2
<1>2. ASSUME NEW p \in due, NEW x \in P, p < x PROVE p \in P
    <2>1. p \in P \cup R \cup D \cup C \cup Q /\ p \in Int /\ x \in Int
        BY <1>2
    <2>2. p \in R \cup D \cup C \cup Q => x < p
        OBVIOUS
    <2>3. QED
        BY <1>2, <2>1, <2>2
<1>3. Lined(due, P, R, {}, {}, {})
    BY <1>1
<1>4. Lined(due, P, {}, {}, {}, {})
    BY <1>2
<1>5. QED
    BY <1>3, <1>4

-----------------------------------------------------------------------------
(* Sequences of positions, and of packets.                                 *)

Members(s) == {s[i] : i \in 1 .. Len(s)}
Increasing(s) == \A i, j \in 1 .. Len(s) : i < j => s[i] < s[j]

LEMMA GrowsAtTheEnd ==
  ASSUME NEW s \in Seq(Int), NEW x \in Int
  PROVE  /\ Members(Append(s, x)) = Members(s) \cup {x}
         /\ Increasing(s) /\ (\A y \in Members(s) : y < x) => Increasing(Append(s, x))
<1> DEFINE t == Append(s, x)
<1>1. /\ Len(s) \in Nat /\ Len(t) = Len(s) + 1 /\ t[Len(s) + 1] = x
      /\ \A i \in 1 .. Len(s) : t[i] = s[i] /\ s[i] \in Int
    OBVIOUS
<1> HIDE DEF t
<1>2. \A i : i \in 1 .. Len(t) <=> i \in 1 .. Len(s) \/ i = Len(s) + 1
    BY <1>1
<1>3. Members(t) = Members(s) \cup {x}
    BY <1>1, <1>2 DEF Members
<1>4. ASSUME Increasing(s), \A y \in Members(s) : y < x PROVE Increasing(t)
    BY <1>1, <1>2, <1>4 DEF Members, Increasing
<1>5. QED
    BY <1>3, <1>4 DEF t

LEMMA TakenFromTheFront ==
  ASSUME NEW s \in Seq(Int), Increasing(s), s # <<>>
  PROVE  /\ Head(s) \in Members(s) /\ Members(Tail(s)) = Members(s) \ {Head(s)}
         /\ \A y \in Members(s) \ {Head(s)} : Head(s) < y
         /\ Increasing(Tail(s))
<1> DEFINE t == Tail(s)
           x == Head(s)
<1>1. /\ Len(s) \in Nat \ {0} /\ Len(t) = Len(s) - 1 /\ x = s[1]
      /\ \A i \in 1 .. Len(t) : t[i] = s[i + 1]
      /\ \A i \in 1 .. Len(s) : s[i] \in Int
    OBVIOUS
<1> HIDE DEF t, x
<1>2. \A i \in 2 .. Len(s) : i - 1 \in 1 .. Len(t) /\ t[i - 1] = s[i] /\ x < s[i]
    BY <1>1 DEF Increasing
<1>3. \A i \in 1 .. Len(t) : i + 1 \in 2 .. Len(s)
    BY <1>1
<1>4. 1 \in 1 .. Len(s) /\ \A i \in 1 .. Len(s) : i = 1 \/ i \in 2 .. Len(s)
    BY <1>1
<1>5. x \in Members(s)
    BY <1>1, <1>4 DEF Members
<1>6. Members(t) = Members(s) \ {x}
    <2>1. ASSUME NEW y \in Members(t) PROVE y \in Members(s) \ {x}
        BY <1>1, <1>2, <1>3, <1>4, <2>1 DEF Members
    <2>2. ASSUME NEW y \in Members(s) \ {x} PROVE y \in Members(t)
        BY <1>1, <1>2, <1>4, <2>2 DEF Members
    <2>3. QED
        BY <2>1, <2>2
<1>7. \A y \in Members(s) \ {x} : x < y
    BY <1>1, <1>2, <1>4 DEF Members
<1>8. Increasing(t)
    <2>1. SUFFICES ASSUME NEW i \in 1 .. Len(t), NEW j \in 1 .. Len(t), i < j PROVE t[i] < t[j]
        BY DEF Increasing
    <2>2. t[i] = s[i + 1] /\ t[j] = s[j + 1]
        BY <1>1
    <2>3. i + 1 \in 1 .. Len(s) /\ j + 1 \in 1 .. Len(s) /\ i + 1 < j + 1
        BY <1>1, <2>1
    <2>4. s[i + 1] < s[j + 1]
        BY <2>3 DEF Increasing
    <2>5. QED
        BY <2>2, <2>4
<1>9. QED
    BY <1>5, <1>6, <1>7, <1>8 DEF t, x

(* A queue holds packets of increasing positions; those that drain the     *)
(* decoder come last.                                                      *)
QueueOf(s) == {s[i].pos : i \in 1 .. Len(s)} \ {Null}
DrainsIn(s) == \E i \in 1 .. Len(s) : s[i].pos = Null
InLine(s) ==
  \A i, j \in 1 .. Len(s) :
    i < j => s[j].pos = Null \/ (s[i].pos # Null /\ s[i].pos < s[j].pos)

LEMMA PacketsAt == \A p \in Packet : p.pos \in Nat
<1>1. Positions \cup {Null} \subseteq Nat
    BY KindsAre DEF Positions, Null
<1>2. QED
    BY <1>1 DEF Packet

LEMMA PacketsAppend ==
  ASSUME NEW s \in Seq(Packet), NEW e \in Packet, InLine(s)
  PROVE  /\ e.pos = Null => InLine(Append(s, e)) /\ QueueOf(Append(s, e)) = QueueOf(s)
         /\ e.pos # Null /\ ~DrainsIn(s) /\ (\A y \in QueueOf(s) : y < e.pos) =>
              /\ InLine(Append(s, e)) /\ QueueOf(Append(s, e)) = QueueOf(s) \cup {e.pos}
              /\ ~DrainsIn(Append(s, e))
<1> DEFINE t == Append(s, e)
<1>1. /\ Len(s) \in Nat /\ Len(t) = Len(s) + 1 /\ t[Len(s) + 1] = e
      /\ \A i \in 1 .. Len(s) : t[i] = s[i]
      /\ \A i \in 1 .. Len(s) : s[i].pos \in Nat
      /\ e.pos \in Nat
    BY PacketsAt
<1> HIDE DEF t
<1>2. \A i : i \in 1 .. Len(t) <=> i \in 1 .. Len(s) \/ i = Len(s) + 1
    BY <1>1
<1>3. ASSUME e.pos = Null PROVE InLine(t) /\ QueueOf(t) = QueueOf(s)
    <2>1. InLine(t)
        BY <1>1, <1>2, <1>3 DEF InLine
    <2>2. QueueOf(t) = QueueOf(s)
        BY <1>1, <1>2, <1>3 DEF QueueOf
    <2>3. QED
        BY <2>1, <2>2
<1>4. ASSUME e.pos # Null, ~DrainsIn(s), \A y \in QueueOf(s) : y < e.pos
      PROVE  InLine(t) /\ QueueOf(t) = QueueOf(s) \cup {e.pos} /\ ~DrainsIn(t)
    <2>1. \A i \in 1 .. Len(s) : s[i].pos # Null /\ s[i].pos < e.pos
        BY <1>4 DEF DrainsIn, QueueOf
    <2>2. InLine(t)
        BY <1>1, <1>2, <1>4, <2>1 DEF InLine
    <2>3. QueueOf(t) = QueueOf(s) \cup {e.pos}
        BY <1>1, <1>2, <1>4 DEF QueueOf
    <2>4. ~DrainsIn(t)
        BY <1>1, <1>2, <1>4, <2>1 DEF DrainsIn
    <2>5. QED
        BY <2>2, <2>3, <2>4
<1>5. QED
    BY <1>3, <1>4 DEF t

LEMMA PacketsTail ==
  ASSUME NEW s \in Seq(Packet), InLine(s), s # <<>>
  PROVE  /\ InLine(Tail(s)) /\ (DrainsIn(Tail(s)) => DrainsIn(s))
         /\ Head(s).pos = Null => DrainsIn(s) /\ QueueOf(s) = {} /\ QueueOf(Tail(s)) = {}
         /\ Head(s).pos # Null =>
              /\ Head(s).pos \in QueueOf(s) /\ QueueOf(Tail(s)) = QueueOf(s) \ {Head(s).pos}
              /\ \A y \in QueueOf(s) \ {Head(s).pos} : Head(s).pos < y
<1> DEFINE t == Tail(s)
           x == Head(s).pos
<1>1. /\ Len(s) \in Nat \ {0} /\ Len(t) = Len(s) - 1 /\ x = s[1].pos
      /\ \A i \in 1 .. Len(t) : t[i] = s[i + 1]
      /\ \A i \in 1 .. Len(s) : s[i].pos \in Nat
    BY PacketsAt
<1> HIDE DEF t, x
<1>2. \A i \in 2 .. Len(s) : i - 1 \in 1 .. Len(t) /\ t[i - 1] = s[i]
                             /\ (s[i].pos = Null \/ (x # Null /\ x < s[i].pos))
    BY <1>1 DEF InLine
<1>3. \A i \in 1 .. Len(t) : i + 1 \in 2 .. Len(s) /\ i + 1 \in 1 .. Len(s)
    BY <1>1
<1>4. 1 \in 1 .. Len(s) /\ \A i \in 1 .. Len(s) : i = 1 \/ i \in 2 .. Len(s)
    BY <1>1
<1>5. InLine(t)
    BY <1>1, <1>3 DEF InLine
<1>6. DrainsIn(t) => DrainsIn(s)
    BY <1>1, <1>3 DEF DrainsIn
<1>7. ASSUME x = Null PROVE DrainsIn(s) /\ QueueOf(s) = {} /\ QueueOf(t) = {}
    <2>1. \A i \in 1 .. Len(s) : s[i].pos = Null
        BY <1>1, <1>2, <1>4, <1>7
    <2>2. QED
        BY <1>1, <1>3, <1>4, <2>1 DEF DrainsIn, QueueOf
<1>8. ASSUME x # Null
      PROVE  /\ x \in QueueOf(s) /\ QueueOf(t) = QueueOf(s) \ {x}
             /\ \A y \in QueueOf(s) \ {x} : x < y
    <2>1. x \in QueueOf(s)
        BY <1>1, <1>4, <1>8 DEF QueueOf
    <2>2. \A y \in QueueOf(s) \ {x} : x < y
        BY <1>1, <1>2, <1>4 DEF QueueOf
    <2>3. ASSUME NEW y \in QueueOf(t) PROVE y \in QueueOf(s) \ {x}
        <3>1. PICK i \in 1 .. Len(t) : y = t[i].pos /\ y # Null
            BY <2>3 DEF QueueOf
        <3>2. y = s[i + 1].pos /\ i + 1 \in 1 .. Len(s) /\ x < s[i + 1].pos
            BY <1>1, <1>2, <1>3, <3>1
        <3>3. x \in Nat
            BY <1>1, <1>4
        <3>4. QED
            BY <3>1, <3>2, <3>3 DEF QueueOf
    <2>4. ASSUME NEW y \in QueueOf(s) \ {x} PROVE y \in QueueOf(t)
        BY <1>1, <1>2, <1>4, <2>4 DEF QueueOf
    <2>5. QED
        BY <2>1, <2>2, <2>3, <2>4
<1>9. QED
    BY <1>5, <1>6, <1>7, <1>8 DEF t, x

-----------------------------------------------------------------------------
(* What the ring still has of the stream since its last seek.              *)

At(k, i) == ring[k].slot[SlotOf(k, i)]
Unplayed(k) == ring[k].shown .. ring[k].size - 1
Waiting(k) == {i \in Unplayed(k) : At(k, i).serial = q[k].serial}
Ringed(k) == {At(k, i).pos : i \in Waiting(k)}

RingInLine(k) ==
  /\ \A i, j \in Waiting(k) : i < j => At(k, i).pos < At(k, j).pos
  /\ \A i \in Unplayed(k) : At(k, i).serial <= q[k].serial

LEMMA RingSpan ==
  ASSUME RingTypes, NEW k \in Kinds
  PROVE  /\ ring[k].shown \in {0, 1} /\ ring[k].size \in 0 .. RingSize[k]
         /\ RingSize[k] \in Nat /\ \A i \in Unplayed(k) : At(k, i) \in Frame
<1>1. /\ ring[k].slot \in Slots(k) /\ ring[k].shown \in {0, 1} /\ ring[k].size \in 0 .. RingSize[k]
      /\ RingSize[k] \in Nat
    BY RingSizes DEF RingTypes, RingOf
<1>2. ASSUME NEW i \in Unplayed(k) PROVE At(k, i) \in Frame
    <2>1. i \in 0 .. RingSize[k]
        BY <1>1 DEF Unplayed
    <2>2. SlotOf(k, i) \in 0 .. RingSize[k] - 1
        BY <2>1, SlotIs
    <2>3. QED
        BY <1>1, <2>2 DEF At, Slots
<1>3. QED
    BY <1>1, <1>2

LEMMA RingStays ==
  ASSUME NEW k \in Kinds, ring'[k] = ring[k], q'[k].serial = q[k].serial, RingInLine(k)
  PROVE  Ringed(k)' = Ringed(k) /\ RingInLine(k)'
<1>1. /\ \A i : At(k, i)' = At(k, i)
      /\ Unplayed(k)' = Unplayed(k)
    BY DEF At, SlotOf, Unplayed
<1>2. Waiting(k)' = Waiting(k)
    BY <1>1 DEF Waiting
<1>3. QED
    BY <1>1, <1>2 DEF Ringed, RingInLine

(* A new serial number: all that was on its way is stale.                  *)
LEMMA RingRestarts ==
  ASSUME Types, NEW k \in Kinds, ring'[k] = ring[k], q'[k].serial = q[k].serial + 1, RingInLine(k)
  PROVE  Ringed(k)' = {} /\ RingInLine(k)'
<1>1. /\ \A i : At(k, i)' = At(k, i)
      /\ Unplayed(k)' = Unplayed(k)
    BY DEF At, SlotOf, Unplayed
<1>2. \A i \in Unplayed(k) : At(k, i) \in Frame
    BY RingSpan DEF Types
<1>3. q[k].serial \in Nat
    BY DEF Types, QueueTypes, Queue
<1>4. \A i \in Unplayed(k) : At(k, i).serial < q'[k].serial
    BY <1>2, <1>3 DEF RingInLine, Frame
<1>5. Waiting(k)' = {}
    BY <1>1, <1>2, <1>3, <1>4 DEF Waiting, Frame
<1>6. QED
    BY <1>1, <1>2, <1>3, <1>4, <1>5 DEF Ringed, RingInLine, Frame

(* frame_queue_next.                                                       *)
LEMMA RingTakes ==
  ASSUME Types, Rings, NEW k \in Kinds, Takes(k), q'[k].serial = q[k].serial, RingInLine(k),
         NEW x, x = At(k, ring[k].shown)
  PROVE  /\ RingInLine(k)'
         /\ x.serial = q[k].serial =>
              /\ x.pos \in Ringed(k) /\ Ringed(k)' = Ringed(k) \ {x.pos}
              /\ \A y \in Ringed(k) \ {x.pos} : x.pos < y
         /\ x.serial # q[k].serial => Ringed(k)' = Ringed(k)
<1>0. PICK e, n, S : e = ring[k].shown /\ n = ring[k].size /\ S = q[k].serial
    OBVIOUS
<1> DEFINE m == ring'[k].size
<1>1. /\ e \in {0, 1} /\ n \in Nat /\ e < n /\ \A i \in Unplayed(k) : At(k, i) \in Frame
    BY <1>0, RingSpan DEF Types, Takes
<1>2. /\ ring'[k].shown = 1 /\ m = n - e
      /\ \A i \in 1 .. m - 1 : At(k, i)' = At(k, i + e)
    <2>1. RingTypes
        BY DEF Types
    <2>2. /\ ring'[k].shown = 1
          /\ ring'[k].size = IF ring[k].shown = 0 THEN ring[k].size ELSE ring[k].size - 1
          /\ \A i \in 1 .. ring'[k].size - 1 :
              ring'[k].slot[SlotOf(k, i)'] = ring[k].slot[SlotOf(k, i + ring[k].shown)]
        BY <2>1, TakeHolds
    <2>3. m = n - e
        BY <1>0, <1>1, <2>2
    <2>4. QED
        BY <1>0, <2>2, <2>3 DEF At
<1>3. Unplayed(k) = e .. n - 1 /\ Unplayed(k)' = 1 .. m - 1
    BY <1>0, <1>2 DEF Unplayed
<1> HIDE DEF m
<1>4. \A i \in 1 .. m - 1 : i + e \in Unplayed(k) /\ i + e # e /\ i + e > e
    BY <1>1, <1>2, <1>3
<1>5. \A j \in Unplayed(k) : j = e \/ (j - e \in 1 .. m - 1 /\ (j - e) + e = j /\ j > e)
    BY <1>1, <1>2, <1>3
<1>6. e \in Unplayed(k) /\ x \in Frame /\ x = At(k, e)
    BY <1>0, <1>1, <1>3
<1>7. \A i \in Waiting(k)' : i \in 1 .. m - 1 /\ i + e \in Waiting(k) /\ At(k, i)' = At(k, i + e)
    BY <1>0, <1>2, <1>3, <1>4 DEF Waiting
<1>8. \A j \in Waiting(k) : j = e \/ (j - e \in Waiting(k)' /\ At(k, j) = At(k, j - e)' /\ j > e)
    <2>1. SUFFICES ASSUME NEW j \in Waiting(k), j # e
                   PROVE  j - e \in Waiting(k)' /\ At(k, j) = At(k, j - e)' /\ j > e
        OBVIOUS
    <2>2. j \in Unplayed(k) /\ At(k, j).serial = S
        BY <1>0 DEF Waiting
    <2>3. j - e \in 1 .. m - 1 /\ (j - e) + e = j /\ j > e
        BY <1>5, <2>1, <2>2
    <2>4. At(k, j - e)' = At(k, j)
        BY <1>2, <2>3
    <2>5. QED
        BY <1>0, <1>3, <2>2, <2>3, <2>4 DEF Waiting
<1>9. RingInLine(k)'
    <2>1. ASSUME NEW i \in Waiting(k)', NEW j \in Waiting(k)', i < j PROVE At(k, i)'.pos < At(k, j)'.pos
        <3>1. i + e < j + e
            BY <1>1, <1>7, <2>1
        <3>2. QED
            BY <1>7, <2>1, <3>1 DEF RingInLine
    <2>2. ASSUME NEW i \in Unplayed(k)' PROVE At(k, i)'.serial <= S
        BY <1>0, <1>2, <1>3, <1>4, <2>2 DEF RingInLine
    <2>3. QED
        BY <1>0, <2>1, <2>2 DEF RingInLine
<1>10. ASSUME NEW y \in Ringed(k)' PROVE y \in Ringed(k) /\ (x.serial = S => x.pos < y)
    <2>1. PICK i \in Waiting(k)' : y = At(k, i)'.pos
        BY <1>10 DEF Ringed
    <2>2. i + e \in Waiting(k) /\ y = At(k, i + e).pos /\ i + e > e
        BY <1>4, <1>7, <2>1
    <2>3. x.serial = S => e \in Waiting(k)
        BY <1>0, <1>6 DEF Waiting
    <2>4. QED
        BY <1>1, <1>6, <2>2, <2>3 DEF Ringed, RingInLine
<1>11. ASSUME NEW y \in Ringed(k), y # x.pos \/ x.serial # S PROVE y \in Ringed(k)'
    <2>1. PICK j \in Waiting(k) : y = At(k, j).pos
        BY DEF Ringed
    <2>2. j # e
        BY <1>0, <1>6, <1>11, <2>1 DEF Waiting
    <2>3. j - e \in Waiting(k)' /\ y = At(k, j - e)'.pos
        BY <1>8, <2>1, <2>2
    <2>4. QED
        BY <2>3 DEF Ringed
<1>12. x.serial = S => x.pos \in Ringed(k)
    BY <1>0, <1>6 DEF Waiting, Ringed
<1>13. x.pos \in Nat
    BY <1>6 DEF Frame
<1>14. QED
    BY <1>0, <1>9, <1>10, <1>11, <1>12, <1>13

(* frame_queue_peek_writable.                                              *)
LEMMA RingReserves ==
  ASSUME Types, Rings, NEW k \in Kinds, Reserve(k), RingInLine(k)
  PROVE  Ringed(k)' = Ringed(k) /\ RingInLine(k)'
<1>1. RingTypes /\ ring[k].shown \in {0, 1} /\ ring[k].size \in Nat
    BY RingSpan DEF Types
<1>2. /\ ring'[k].size = ring[k].size /\ ring'[k].shown = ring[k].shown
      /\ ring'[k].rindex = ring[k].rindex
      /\ \A i \in 0 .. ring[k].size - 1 : ring'[k].slot[SlotOf(k, i)] = ring[k].slot[SlotOf(k, i)]
    BY <1>1, ReserveHolds
<1>3. q'[k] = q[k]
    BY DEF Reserve
<1>4. Unplayed(k)' = Unplayed(k) /\ \A i \in Unplayed(k) : i \in 0 .. ring[k].size - 1
    BY <1>1, <1>2 DEF Unplayed
<1>5. \A i \in Unplayed(k) : At(k, i)' = At(k, i)
    <2>1. \A i : SlotOf(k, i)' = SlotOf(k, i)
        BY <1>2 DEF SlotOf
    <2>2. QED
        BY <1>2, <1>4, <2>1 DEF At
<1>6. Waiting(k)' = Waiting(k) /\ Waiting(k) \subseteq Unplayed(k)
    BY <1>3, <1>4, <1>5 DEF Waiting
<1>7. Ringed(k)' = Ringed(k)
    BY <1>5, <1>6 DEF Ringed
<1>8. RingInLine(k)'
    BY <1>3, <1>4, <1>5, <1>6 DEF RingInLine
<1>9. QED
    BY <1>7, <1>8

(* frame_queue_push.                                                       *)
LEMMA RingPushes ==
  ASSUME Types, Places, Rings, NEW k \in Kinds, Push(k), RingInLine(k),
         dec[k].serial <= q[k].serial,
         dec[k].serial = q[k].serial => \A y \in Ringed(k) : y < dec[k].frame
  PROVE  /\ RingInLine(k)'
         /\ Ringed(k)' = Ringed(k) \cup (IF dec[k].serial = q[k].serial THEN {dec[k].frame} ELSE {})
<1>0. PICK n, x, d, S : n = ring[k].size /\ x = dec[k].frame /\ d = dec[k].serial /\ S = q[k].serial
    OBVIOUS
<1> DEFINE z == [serial |-> d, pos |-> x]
<1>1. /\ RingTypes /\ ring[k].shown \in {0, 1} /\ n \in Nat /\ ring[k].shown <= n
      /\ \A i \in Unplayed(k) : At(k, i) \in Frame
    BY <1>0, RingSpan DEF Types, Rings, RingHolds, Contents
<1>2. /\ ring'[k].size = n + 1 /\ ring'[k].shown = ring[k].shown
      /\ ring'[k].rindex = ring[k].rindex
      /\ \A i \in 0 .. n - 1 : ring'[k].slot[SlotOf(k, i)] = ring[k].slot[SlotOf(k, i)]
      /\ ring'[k].slot[SlotOf(k, n)] = z
    BY <1>0, PushWrites
<1>3. q'[k] = q[k]
    BY DEF Push
<1>4. /\ \A i : i \in Unplayed(k)' <=> i \in Unplayed(k) \/ i = n
      /\ \A i \in Unplayed(k) : i \in 0 .. n - 1 /\ i < n
    BY <1>0, <1>1, <1>2 DEF Unplayed
<1>5. At(k, n)' = z /\ \A i \in Unplayed(k) : At(k, i)' = At(k, i)
    <2>1. \A i : SlotOf(k, i)' = SlotOf(k, i)
        BY <1>2 DEF SlotOf
    <2>2. QED
        BY <1>2, <1>4, <2>1 DEF At
<1>6. \A i : i \in Waiting(k)' <=> i \in Waiting(k) \/ (i = n /\ d = S)
    <2>1. z.serial = d
        OBVIOUS
    <2> HIDE DEF z
    <2>2. QED
        BY <1>0, <1>3, <1>4, <1>5, <2>1 DEF Waiting
<1>7. \A i \in Waiting(k) : i \in Unplayed(k) /\ i < n /\ At(k, i)' = At(k, i)
    BY <1>4, <1>5 DEF Waiting
<1>8. z.pos = x /\ z.serial = d
    OBVIOUS
<1> HIDE DEF z
<1>9. \A y : y \in Ringed(k)' <=> y \in Ringed(k) \/ (d = S /\ y = x)
    BY <1>5, <1>6, <1>7, <1>8 DEF Ringed
<1>10. RingInLine(k)'
    <2>1. ASSUME NEW i \in Waiting(k)', NEW j \in Waiting(k)', i < j PROVE At(k, i)'.pos < At(k, j)'.pos
        <3>1. CASE j \in Waiting(k)
            <4>1. i \in Waiting(k)
                <5>1. n \in Nat /\ j < n /\ j \in Int
                    BY <1>1, <1>7, <3>1 DEF Waiting, Unplayed
                <5>2. QED
                    BY <1>6, <2>1, <5>1
            <4>2. QED
                BY <1>7, <2>1, <3>1, <4>1 DEF RingInLine
        <3>2. CASE j = n /\ d = S
            <4>1. i \in Waiting(k)
                BY <1>1, <1>6, <2>1, <3>2
            <4>2. At(k, i)'.pos \in Ringed(k)
                BY <1>7, <4>1 DEF Ringed
            <4>3. QED
                BY <1>0, <1>5, <1>8, <3>2, <4>2
        <3>3. QED
            BY <1>6, <3>1, <3>2
    <2>2. ASSUME NEW i \in Unplayed(k)' PROVE At(k, i)'.serial <= S
        BY <1>0, <1>4, <1>5, <1>8 DEF RingInLine
    <2>3. QED
        BY <1>0, <1>3, <2>1, <2>2 DEF RingInLine
<1>11. QED
    BY <1>0, <1>9, <1>10

-----------------------------------------------------------------------------
(* The invariant.                                                          *)

Holding == {"frame", "full", "write"}

Alive(k) == dec[k].at # "done"
Fresh(k) == dec[k].serial = q[k].serial

Shown(k) == Members(played[k].frames)
Held(k) == IF dec[k].at \in Holding /\ Fresh(k) THEN {dec[k].frame} ELSE {}
Coded(k) == IF Alive(k) /\ Fresh(k) THEN Members(dec[k].codec) ELSE {}
Queued(k) == IF Alive(k) THEN QueueOf(q[k].packets) ELSE {}
Known(k) == Shown(k) \cup Ringed(k) \cup Held(k) \cup Coded(k) \cup Queued(k)

Line(k) == Lined(Due(k), Shown(k), Ringed(k), Held(k), Coded(k), Queued(k))

Sorted(k) ==
  /\ Increasing(played[k].frames) /\ RingInLine(k)
  /\ Alive(k) /\ Fresh(k) => Increasing(dec[k].codec)
  /\ Alive(k) => InLine(q[k].packets)

(* The reader has brought all that is due up to its place in the file,     *)
(* unless the decoder has ended or the queue is still to be flushed.       *)
FlushPending(k) == reader.at = "flush" /\ k \in reader.todo
Reach(k) ==
  is.opened[k] /\ ~FlushPending(k) =>
    /\ Alive(k) => \A p \in Due(k) : p < reader.next => p \in Known(k)
    /\ \A x \in Known(k) \cup played[k].dropped : x < reader.next
    /\ played[k].from < reader.next

(* A decoder is drained after the last packet.                             *)
Draining(k) == dec[k].draining /\ Fresh(k)
Drained(k) == Draining(k) \/ DrainsIn(q[k].packets)
Drains(k) ==
  is.opened[k] /\ Alive(k) =>
    /\ Draining(k) => dec[k].at \notin {"get", "asleep"} /\ Queued(k) = {}
    /\ Drained(k) => Due(k) \subseteq Known(k) /\ (~FlushPending(k) => reader.next > Len(Media))

Decoded(k) ==
  is.opened[k] /\ dec[k].finished = q[k].serial => Due(k) \subseteq Shown(k) \cup Ringed(k)

Serials(k) ==
  /\ dec[k].serial <= q[k].serial /\ dec[k].finished <= q[k].serial
  /\ \A i \in 1 .. Len(q[k].packets) : q[k].packets[i].serial = q[k].serial
  /\ is.opened[k] => q[k].serial >= 1

Unopened(k) ==
  IF is.opened[k] THEN dec[k].at # "none"
  ELSE /\ dec[k].at = "none" /\ q[k].packets = <<>>
       /\ played[k] = [from |-> 0, frames |-> <<>>, dropped |-> {}] /\ Ringed(k) = {}

OrderOf(k) ==
  Line(k) /\ Sorted(k) /\ Reach(k) /\ Drains(k) /\ Decoded(k) /\ Serials(k) /\ Unopened(k)

PlayedTypes ==
  played \in [Kinds -> [from : 0 .. Len(Media), frames : Seq(Positions),
                        dropped : SUBSET Positions]]

ReaderAtWork ==
  /\ reader.at = "open" =>
       reader.next = 1 /\ \A k \in Kinds : is.opened[k] => k \notin reader.todo
  /\ reader.at = "flush" => reader.next = reader.target + 1 /\ reader.todo \subseteq Streams
  /\ main.at \in {"abort", "signal", "decoder"} => reader.at \in {"done", "ended"}
  /\ main.closing \subseteq Streams
  /\ \A k \in Kinds : is.opened[k] /\ q[k].abort => reader.at \in {"done", "ended"}

Order == PlayedTypes /\ ReaderAtWork /\ QuitMeansPlayed /\ \A k \in Kinds : OrderOf(k)

-----------------------------------------------------------------------------
LEMMA DueAre == \A k \in Kinds : Due(k) \in SUBSET Int /\ Due(k) \subseteq Positions
BY KindsAre DEF Due, Positions

(* What a step does not touch.                                             *)
Undisturbed(k) ==
  /\ q'[k].serial = q[k].serial /\ q'[k].packets = q[k].packets
  /\ ring'[k] = ring[k] \/ (Ringed(k)' = Ringed(k) /\ RingInLine(k)')
  /\ played'[k] = played[k] /\ is'.opened[k] = is.opened[k]
  /\ dec'[k].serial = dec[k].serial /\ dec'[k].codec = dec[k].codec
  /\ dec'[k].draining = dec[k].draining /\ dec'[k].finished = dec[k].finished
  /\ dec'[k].frame = dec[k].frame
  /\ Fresh(k) => (dec'[k].at \in Holding <=> dec[k].at \in Holding)
  /\ dec'[k].at = "done" <=> dec[k].at = "done"
  /\ dec'[k].at = "none" <=> dec[k].at = "none"
  /\ dec'[k].at \in {"get", "asleep"} => dec[k].at \in {"get", "asleep"} \/ ~Draining(k)
  /\ ~is.opened[k] \/ FlushPending(k)' \/ (~FlushPending(k) /\ reader'.next = reader.next)

LEMMA Stays ==
  ASSUME NEW k \in Kinds, OrderOf(k), Undisturbed(k)
  PROVE  OrderOf(k)'
<1> USE DEF Undisturbed
<1>1. Alive(k)' = Alive(k) /\ Fresh(k)' = Fresh(k) /\ Draining(k)' = Draining(k)
    BY DEF Alive, Fresh, Draining
<1>2. Shown(k)' = Shown(k) /\ Due(k)' = Due(k)
    BY DEF Shown, Due
<1>3. Held(k)' = Held(k) /\ Coded(k)' = Coded(k) /\ Queued(k)' = Queued(k)
    BY <1>1 DEF Held, Coded, Queued
<1>4. Ringed(k)' = Ringed(k) /\ RingInLine(k)'
    BY RingStays DEF OrderOf, Sorted
<1>5. Known(k)' = Known(k)
    BY <1>2, <1>3, <1>4 DEF Known
<1>6. Drained(k)' = Drained(k)
    BY <1>1 DEF Drained
<1>7. Line(k)'
    BY <1>2, <1>3, <1>4 DEF OrderOf, Line
<1>8. Sorted(k)'
    BY <1>1, <1>4 DEF OrderOf, Sorted
<1>9. Reach(k)'
    BY <1>1, <1>2, <1>5 DEF OrderOf, Reach
<1>10. Drains(k)'
    BY <1>1, <1>2, <1>3, <1>5, <1>6 DEF OrderOf, Drains
<1>11. Decoded(k)'
    BY <1>2, <1>4 DEF OrderOf, Decoded
<1>12. Serials(k)' /\ Unopened(k)'
    BY <1>4 DEF OrderOf, Serials, Unopened
<1>13. QED
    BY <1>7, <1>8, <1>9, <1>10, <1>11, <1>12 DEF OrderOf

(* What a step of a decoder, or of who takes frames, owes to the line.     *)
LEMMA Advances ==
  ASSUME NEW k \in Kinds, OrderOf(k), UNCHANGED reader, is'.opened[k] = is.opened[k],
         played'[k].from = played[k].from, Alive(k)' => Alive(k), Due(k)' \subseteq Due(k),
         Known(k)' \cup played'[k].dropped \subseteq Known(k) \cup played[k].dropped,
         Alive(k)' => \A x \in Known(k) : x \in Due(k)' => x \in Known(k)',
         \A x \in Shown(k) \cup Ringed(k) : x \in Due(k)' => x \in (Shown(k) \cup Ringed(k))',
         Alive(k)' /\ Drained(k)' => Drained(k),
         Alive(k)' /\ Draining(k)' => dec'[k].at \notin {"get", "asleep"} /\ Queued(k)' = {},
         is.opened[k] /\ dec'[k].finished = q'[k].serial => Due(k) \subseteq Shown(k) \cup Ringed(k)
  PROVE  Reach(k)' /\ Drains(k)' /\ Decoded(k)'
<1>1. FlushPending(k)' = FlushPending(k)
    BY DEF FlushPending
<1>2. Reach(k)'
    BY <1>1 DEF OrderOf, Reach
<1>3. Drains(k)'
    BY <1>1 DEF OrderOf, Drains
<1>4. Decoded(k)'
    BY DEF OrderOf, Decoded
<1>5. QED
    BY <1>2, <1>3, <1>4

(* The thread of a decoder ends.                                           *)
LEMMA Ends ==
  ASSUME Inv, PlayedTypes, NEW k \in Kinds, OrderOf(k), dec'[k] = [dec[k] EXCEPT !.at = "done"],
         UNCHANGED <<q, reader, played, is>>, Ringed(k)' = Ringed(k), RingInLine(k)',
         dec[k].at # "none"
  PROVE  OrderOf(k)'
<1>1. /\ dec'[k].at = "done" /\ dec'[k].serial = dec[k].serial
      /\ dec'[k].finished = dec[k].finished
    BY DEF Inv, Types, DecoderTypes, Decoder
<1>2. ~Alive(k)' /\ Held(k)' = {} /\ Coded(k)' = {} /\ Queued(k)' = {}
    BY <1>1 DEF Alive, Held, Coded, Queued, Holding
<1>3. Shown(k)' = Shown(k) /\ Due(k)' = Due(k)
    BY DEF Shown, Due
<1>4. Line(k)'
    <2>1. Lined(Due(k), Shown(k), Ringed(k), {}, {}, {})
        BY DueAre, LineEnds DEF OrderOf, Line
    <2>2. QED
        BY <1>2, <1>3, <2>1 DEF Line
<1>5. Sorted(k)'
    BY <1>2 DEF OrderOf, Sorted
<1>6. Known(k)' \subseteq Known(k)
    BY <1>2, <1>3 DEF Known
<1>7. Reach(k)' /\ Drains(k)' /\ Decoded(k)'
    <2>1. is.opened[k] /\ dec'[k].finished = q'[k].serial => Due(k) \subseteq Shown(k) \cup Ringed(k)
        BY <1>1 DEF OrderOf, Decoded
    <2>2. QED
        BY <1>2, <1>3, <1>6, <2>1, Advances
<1>8. Serials(k)' /\ Unopened(k)'
    BY <1>1 DEF OrderOf, Serials, Unopened
<1>9. QED
    BY <1>4, <1>5, <1>7, <1>8 DEF OrderOf

LEMMA Elsewhere ==
  ASSUME NEW k \in Kinds, q'[k] = q[k], ring'[k] = ring[k], dec'[k] = dec[k],
         played'[k] = played[k], UNCHANGED <<reader, is>>
  PROVE  Undisturbed(k)
BY DEF Undisturbed, FlushPending

LEMMA IntegerSequences ==
  ASSUME NEW s \in Seq(Positions)
  PROVE  s \in Seq(Int)
<1>1. Len(s) \in Nat /\ \A i \in 1 .. Len(s) : s[i] \in Int
    BY DEF Positions
<1>2. s = [i \in 1 .. Len(s) |-> s[i]]
    OBVIOUS
<1>3. \E n \in Nat : s \in [1 .. n -> Int]
    BY <1>1, <1>2
<1>4. QED
    BY <1>3

LEMMA CodecTypes ==
  ASSUME Inv, NEW k \in Kinds
  PROVE  /\ dec[k] \in Decoder /\ q[k] \in Queue /\ dec[k].codec \in Seq(Int)
         /\ q[k].packets \in Seq(Packet) /\ q[k].serial \in Nat
         /\ dec[k].at \in Holding => dec[k].frame \in Int
<1>1. dec[k] \in Decoder /\ q[k] \in Queue /\ Sound(dec[k])
    BY DEF Inv, Types, DecoderTypes, QueueTypes, Places
<1>2. Positions \subseteq Int
    BY DEF Positions
<1>3. dec[k].codec \in Seq(Positions)
    BY <1>1 DEF Decoder
<1>4. dec[k].codec \in Seq(Int)
    BY <1>2, <1>3, IntegerSequences
<1>5. QED
    BY <1>1, <1>2, <1>4 DEF Queue, Packet, Sound, Holding

(* decoder_decode_frame gets a frame from the codec.                       *)
LEMMA ReceiveKeepsOrder ==
  ASSUME Inv, PlayedTypes, NEW k \in Kinds, OrderOf(k), Receive(k)
  PROVE  OrderOf(k)'
<1> DEFINE d == dec[k]
           c == dec[k].codec
<1>1. d \in Decoder /\ c \in Seq(Int) /\ Delay[k] \in Nat
    BY CodecTypes, SizesAssumption
<1>2. d.at = "top" /\ UNCHANGED <<q, ring, reader, main, device, is, api, played>>
    BY DEF Receive
<1>3. \/ dec'[k] = [d EXCEPT !.at = "get"] /\ ~(Fresh(k) /\ d.draining)
      \/ dec'[k] = [d EXCEPT !.at = "done"]
      \/ /\ Fresh(k) /\ c # <<>>
         /\ dec'[k] = [d EXCEPT !.at = "frame", !.frame = Head(c), !.codec = Tail(c)]
      \/ /\ Fresh(k) /\ c = <<>> /\ d.draining
         /\ dec'[k] = [d EXCEPT !.finished = d.serial, !.draining = FALSE]
    <2>1. dec \in [Kinds -> Decoder]
        BY DEF Inv, Types, DecoderTypes
    <2>2. \A e : dec' = [dec EXCEPT ![k] = e] => dec'[k] = e
        BY <2>1
    <2>3. Len(c) > Delay[k] => c # <<>>
        BY <1>1
    <2>4. QED
        BY <1>1, <2>2, <2>3 DEF Receive, Decoders, Fresh
<1>4. CASE dec'[k] = [d EXCEPT !.at = "get"] /\ ~(Fresh(k) /\ d.draining)
    <2>1. /\ dec'[k].at = "get" /\ dec'[k].serial = d.serial /\ dec'[k].codec = d.codec
          /\ dec'[k].draining = d.draining /\ dec'[k].finished = d.finished /\ dec'[k].frame = d.frame
        BY <1>1, <1>4 DEF Decoder
    <2>2. ~Draining(k)
        BY <1>4 DEF Draining
    <2>3. Undisturbed(k)
        BY <1>2, <2>1, <2>2 DEF Undisturbed, Holding, FlushPending
    <2>4. QED
        BY <2>3, Stays
<1>5. CASE dec'[k] = [d EXCEPT !.at = "done"]
    <2>1. Ringed(k)' = Ringed(k) /\ RingInLine(k)'
        BY <1>2, RingStays DEF OrderOf, Sorted
    <2>2. QED
        BY <1>2, <1>5, <2>1, Ends
<1>6. CASE /\ Fresh(k) /\ c # <<>>
           /\ dec'[k] = [d EXCEPT !.at = "frame", !.frame = Head(c), !.codec = Tail(c)]
    <2> DEFINE x == Head(c)
    <2>1. /\ dec'[k].at = "frame" /\ dec'[k].serial = d.serial /\ dec'[k].codec = Tail(c)
          /\ dec'[k].draining = d.draining /\ dec'[k].finished = d.finished /\ dec'[k].frame = x
        BY <1>1, <1>6 DEF Decoder
    <2>2. Increasing(c)
        BY <1>2, <1>6 DEF OrderOf, Sorted, Alive
    <2>3. /\ x \in Members(c) /\ Members(Tail(c)) = Members(c) \ {x}
          /\ (\A y \in Members(c) \ {x} : x < y) /\ Increasing(Tail(c))
        BY <1>1, <1>6, <2>2, TakenFromTheFront
    <2>4. /\ Alive(k) /\ Alive(k)' /\ Fresh(k)' /\ Draining(k)' = Draining(k)
        BY <1>2, <1>6, <2>1 DEF Alive, Fresh, Draining
    <2>5. Shown(k)' = Shown(k) /\ Due(k)' = Due(k) /\ Queued(k)' = Queued(k)
        BY <1>2, <2>4 DEF Shown, Due, Queued
    <2>6. Held(k) = {} /\ Held(k)' = {x} /\ Coded(k) = Members(c) /\ Coded(k)' = Members(c) \ {x}
        BY <1>2, <1>6, <2>1, <2>3, <2>4 DEF Held, Coded, Holding
    <2>7. Ringed(k)' = Ringed(k) /\ RingInLine(k)'
        BY <1>2, RingStays DEF OrderOf, Sorted
    <2> HIDE DEF x
    <2>8. Line(k)'
        <3>1. Lined(Due(k), Shown(k), Ringed(k), {}, Members(c), Queued(k))
            BY <2>6 DEF OrderOf, Line
        <3>2. Lined(Due(k), Shown(k), Ringed(k), {x}, Members(c) \ {x}, Queued(k))
            BY <2>3, <3>1, DueAre, LineMoves
        <3>3. QED
            BY <2>5, <2>6, <2>7, <3>2 DEF Line
    <2>9. Sorted(k)'
        BY <1>2, <2>1, <2>3, <2>4, <2>7 DEF OrderOf, Sorted
    <2>10. Known(k)' = Known(k)
        BY <2>3, <2>5, <2>6, <2>7 DEF Known
    <2>11. Reach(k)' /\ Drains(k)' /\ Decoded(k)'
        <3>1. Drained(k)' = Drained(k)
            BY <1>2, <2>4 DEF Drained
        <3>2. Draining(k)' => dec'[k].at \notin {"get", "asleep"} /\ Queued(k)' = {}
            <4>1. is.opened[k]
                BY <1>2 DEF OrderOf, Unopened
            <4>2. QED
                BY <2>1, <2>4, <2>5, <4>1 DEF OrderOf, Drains
        <3>3. is.opened[k] /\ dec'[k].finished = q'[k].serial => Due(k) \subseteq Shown(k) \cup Ringed(k)
            BY <1>2, <2>1 DEF OrderOf, Decoded
        <3>4. QED
            BY <1>2, <2>4, <2>5, <2>7, <2>10, <3>1, <3>2, <3>3, Advances
    <2>12. Serials(k)' /\ Unopened(k)'
        BY <1>2, <2>1 DEF OrderOf, Serials, Unopened
    <2>13. QED
        BY <2>8, <2>9, <2>11, <2>12 DEF OrderOf
<1>7. CASE /\ Fresh(k) /\ c = <<>> /\ d.draining
           /\ dec'[k] = [d EXCEPT !.finished = d.serial, !.draining = FALSE]
    <2>1. /\ dec'[k].at = "top" /\ dec'[k].serial = d.serial /\ dec'[k].codec = c
          /\ ~dec'[k].draining /\ dec'[k].finished = d.serial /\ dec'[k].frame = d.frame
        BY <1>1, <1>2, <1>7 DEF Decoder
    <2>2. Alive(k) /\ Alive(k)' /\ Fresh(k)' /\ Draining(k) /\ ~Draining(k)'
        BY <1>2, <1>7, <2>1 DEF Alive, Fresh, Draining
    <2>3. /\ Shown(k)' = Shown(k) /\ Due(k)' = Due(k) /\ Queued(k)' = Queued(k)
          /\ Held(k) = {} /\ Held(k)' = {} /\ Coded(k)' = Coded(k) /\ Coded(k) = {}
        <3>1. Members(c) = {}
            BY <1>7 DEF Members
        <3>2. QED
            BY <1>2, <2>1, <2>2, <1>7, <3>1 DEF Shown, Due, Queued, Held, Coded, Holding
    <2>4. Ringed(k)' = Ringed(k) /\ RingInLine(k)'
        BY <1>2, RingStays DEF OrderOf, Sorted
    <2>5. Line(k)' /\ Sorted(k)'
        BY <1>2, <1>7, <2>1, <2>2, <2>3, <2>4 DEF OrderOf, Line, Sorted
    <2>6. Known(k)' = Known(k)
        BY <2>3, <2>4 DEF Known
    <2>7. Queued(k) = {} /\ Due(k) \subseteq Known(k) /\ is.opened[k]
        <3>1. is.opened[k]
            BY <1>2 DEF OrderOf, Unopened
        <3>2. QED
            BY <2>2, <3>1 DEF OrderOf, Drains, Drained
    <2>8. Due(k) \subseteq Shown(k) \cup Ringed(k)
        BY <2>3, <2>7 DEF Known
    <2>9. Reach(k)' /\ Drains(k)' /\ Decoded(k)'
        <3>1. Drained(k)
            BY <2>2 DEF Drained
        <3>2. QED
            BY <1>2, <2>2, <2>3, <2>4, <2>6, <2>8, <3>1, Advances
    <2>10. Serials(k)' /\ Unopened(k)'
        BY <1>2, <2>1 DEF OrderOf, Serials, Unopened
    <2>11. QED
        BY <2>5, <2>9, <2>10 DEF OrderOf
<1>8. QED
    BY <1>3, <1>4, <1>5, <1>6, <1>7

(* decoder_decode_frame gets a packet.                                     *)
LEMMA GetPacketKeepsOrder ==
  ASSUME Inv, PlayedTypes, NEW k \in Kinds, OrderOf(k), GetPacket(k)
  PROVE  OrderOf(k)'
<1> DEFINE d == dec[k]
           s == q[k].packets
           S == q[k].serial
           p == Head(s)
           e == Taken(d, p)
           c == IF Fresh(k) THEN d.codec ELSE <<>>
           x == p.pos
<1>1. d \in Decoder /\ d.codec \in Seq(Int) /\ s \in Seq(Packet) /\ S \in Nat /\ q[k] \in Queue
    BY CodecTypes
<1>2. d.at = "get" /\ UNCHANGED <<ring, reader, main, device, is, api, played>>
    BY DEF GetPacket
<1>3. /\ is.opened[k] /\ Alive(k) /\ ~Draining(k) /\ S >= 1
      /\ (Fresh(k) => ~d.draining) /\ Held(k) = {}
    <2>1. is.opened[k] /\ Alive(k) /\ Held(k) = {}
        BY <1>2 DEF OrderOf, Unopened, Alive, Held, Holding
    <2>2. ~Draining(k) /\ S >= 1
        BY <1>2, <2>1 DEF OrderOf, Drains, Serials
    <2>3. QED
        BY <2>1, <2>2 DEF Draining
<1>4. dec \in [Kinds -> Decoder] /\ q \in [Kinds -> Queue]
    BY DEF Inv, Types, DecoderTypes, QueueTypes
<1>5. CASE q[k].abort \/ s = <<>>
    <2>1. /\ \/ dec'[k] = [d EXCEPT !.at = "done"]
             \/ dec'[k] = [d EXCEPT !.at = "asleep"]
          /\ UNCHANGED q
        BY <1>4, <1>5 DEF GetPacket, Decoders
    <2>2. CASE dec'[k] = [d EXCEPT !.at = "done"]
        <3>1. Ringed(k)' = Ringed(k) /\ RingInLine(k)'
            BY <1>2, <2>1, RingStays DEF OrderOf, Sorted
        <3>2. QED
            BY <1>2, <2>1, <2>2, <3>1, Ends
    <2>3. CASE dec'[k] = [d EXCEPT !.at = "asleep"]
        <3>1. /\ dec'[k].at = "asleep" /\ dec'[k].serial = d.serial /\ dec'[k].codec = d.codec
              /\ dec'[k].draining = d.draining /\ dec'[k].finished = d.finished
              /\ dec'[k].frame = d.frame
            BY <1>1, <2>3 DEF Decoder
        <3>2. Undisturbed(k)
            BY <1>2, <2>1, <3>1 DEF Undisturbed, Holding, FlushPending
        <3>3. QED
            BY <3>2, Stays
    <2>4. QED
        BY <2>1, <2>2, <2>3
<1>6. CASE ~q[k].abort /\ s # <<>>
    <2>1. dec'[k] = Sent(k, e, p) /\ q'[k].packets = Tail(s) /\ q'[k].serial = S
        BY <1>1, <1>4, <1>6 DEF GetPacket, Decoders, Queue
    <2>2. p \in Packet /\ x \in Nat /\ p.serial = S
        <3>1. p = s[1] /\ 1 \in 1 .. Len(s) /\ p \in Packet
            BY <1>1, <1>6
        <3>2. QED
            BY <3>1, PacketsAt DEF OrderOf, Serials
    <2>3. /\ e.serial = S /\ e.codec = c /\ ~e.draining /\ e.at = "get" /\ e.frame = d.frame
          /\ e.finished = S => d.finished = S
          /\ e.finished \in Int /\ (e.finished <= S) /\ e \in Decoder
        <3>1. CASE d.serial = S
            <4>1. e = d /\ Fresh(k)
                BY <2>2, <3>1 DEF Taken, Fresh
            <4>2. QED
                BY <1>1, <1>2, <1>3, <3>1, <4>1 DEF OrderOf, Serials, Decoder
        <3>2. CASE d.serial # S
            <4>1. e = [d EXCEPT !.serial = S, !.finished = 0, !.codec = <<>>, !.draining = FALSE]
                BY <2>2, <3>2 DEF Taken
            <4>2. ~Fresh(k) /\ <<>> \in Seq(Positions)
                BY <3>2 DEF Fresh
            <4> HIDE DEF e
            <4>3. /\ e.serial = S /\ e.finished = 0 /\ e.codec = <<>> /\ ~e.draining /\ e.at = d.at
                  /\ e.frame = d.frame
                BY <1>1, <4>1, <4>2 DEF Decoder
            <4>4. e \in Decoder
                <5>1. PICK none : none = <<>>
                    OBVIOUS
                <5>2. none \in Seq(Positions) /\ S \in Int /\ 0 \in Int
                    BY <1>1, <4>2, <5>1
                <5>3. e = [d EXCEPT !.serial = S, !.finished = 0, !.codec = none, !.draining = FALSE]
                    BY <4>1, <5>1
                <5> HIDE DEF S
                <5>4. QED
                    BY <1>1, <5>2, <5>3 DEF Decoder
            <4>5. QED
                BY <1>1, <1>2, <1>3, <4>2, <4>3, <4>4
        <3>3. QED
            BY <3>1, <3>2
    <2>4. c \in Seq(Int) /\ Coded(k) = Members(c) /\ Increasing(c)
        <3>1. Members(<<>>) = {} /\ Increasing(<<>>) /\ <<>> \in Seq(Int)
            BY DEF Members, Increasing
        <3>2. QED
            BY <1>1, <1>3, <3>1 DEF Coded, OrderOf, Sorted
    <2>5. /\ InLine(Tail(s)) /\ (DrainsIn(Tail(s)) => DrainsIn(s)) /\ Queued(k) = QueueOf(s)
          /\ x = Null => DrainsIn(s) /\ QueueOf(s) = {} /\ QueueOf(Tail(s)) = {}
          /\ x # Null =>
              /\ x \in QueueOf(s) /\ QueueOf(Tail(s)) = QueueOf(s) \ {x}
              /\ \A y \in QueueOf(s) \ {x} : x < y
        <3>1. InLine(s)
            BY <1>3 DEF OrderOf, Sorted
        <3>2. QED
            BY <1>1, <1>3, <1>6, <3>1, PacketsTail DEF Queued
    <2> HIDE DEF p, e, c, x, s, S
    <2>6. /\ dec'[k].at = "top" /\ dec'[k].serial = S /\ dec'[k].finished = e.finished
          /\ x = Null => dec'[k].codec = c /\ dec'[k].draining
          /\ x # Null => dec'[k].codec = Append(c, x) /\ ~dec'[k].draining
        <3>1. p.serial = q[k].serial /\ p.pos = x
            BY <2>2 DEF x, S
        <3>2. CASE x = Null
            <4>1. dec'[k] = [e EXCEPT !.draining = TRUE, !.at = "top"]
                BY <2>1, <3>1, <3>2 DEF Sent
            <4>2. QED
                BY <2>3, <3>2, <4>1 DEF Decoder
        <3>3. CASE x # Null
            <4>1. dec'[k] = [e EXCEPT !.codec = Append(e.codec, x), !.at = "top"]
                BY <2>1, <3>1, <3>3 DEF Sent
            <4>2. QED
                BY <2>3, <3>3, <4>1 DEF Decoder
        <3>4. QED
            BY <3>2, <3>3
    <2>7. /\ Alive(k)' /\ Fresh(k)' /\ Shown(k)' = Shown(k) /\ Due(k)' = Due(k) /\ Held(k)' = {}
          /\ Coded(k)' = Members(dec'[k].codec) /\ Queued(k)' = QueueOf(Tail(s))
        BY <1>2, <2>1, <2>6 DEF Alive, Fresh, Shown, Due, Held, Coded, Queued, Holding
    <2>8. Ringed(k)' = Ringed(k) /\ RingInLine(k)'
        BY <1>2, <2>1, RingStays DEF OrderOf, Sorted, S
    <2>9. Lined(Due(k), Shown(k), Ringed(k), {}, Members(c), QueueOf(s))
        BY <1>3, <2>4, <2>5 DEF OrderOf, Line
    <2>10. Line(k)' /\ Increasing(dec'[k].codec) /\ Known(k)' = Known(k)
        <3>1. CASE x = Null
            BY <1>3, <2>4, <2>5, <2>6, <2>7, <2>8, <2>9, <3>1 DEF Line, Known
        <3>2. CASE x # Null
            <4>1. \A y \in Members(c) : y < x
                BY <2>5, <2>9, <3>2 DEF Lined, Under
            <4>2. Members(Append(c, x)) = Members(c) \cup {x} /\ Increasing(Append(c, x))
                BY <2>2, <2>4, <4>1, GrowsAtTheEnd
            <4>3. Lined(Due(k), Shown(k), Ringed(k), {}, Members(c) \cup {x}, QueueOf(s) \ {x})
                BY <2>5, <2>9, <3>2, DueAre, LineMoves
            <4>4. Line(k)'
                BY <2>5, <2>6, <2>7, <2>8, <3>2, <4>2, <4>3 DEF Line
            <4>5. Known(k)' = Known(k)
                BY <1>3, <2>4, <2>5, <2>6, <2>7, <2>8, <3>2, <4>2 DEF Known
            <4>6. QED
                BY <2>6, <3>2, <4>2, <4>4, <4>5
        <3>3. QED
            BY <3>1, <3>2
    <2>11. Sorted(k)'
        BY <1>2, <2>1, <2>5, <2>8, <2>10 DEF OrderOf, Sorted
    <2>12. Reach(k)' /\ Drains(k)' /\ Decoded(k)'
        <3>1. Drained(k)' => Drained(k)
            BY <2>1, <2>5, <2>6 DEF Drained, Draining, s
        <3>2. Draining(k)' => dec'[k].at \notin {"get", "asleep"} /\ Queued(k)' = {}
            BY <2>5, <2>6, <2>7 DEF Draining
        <3>3. is.opened[k] /\ dec'[k].finished = q'[k].serial => Due(k) \subseteq Shown(k) \cup Ringed(k)
            BY <2>1, <2>3, <2>6 DEF OrderOf, Decoded, S
        <3>4. QED
            BY <1>2, <1>3, <2>7, <2>8, <2>10, <3>1, <3>2, <3>3, Advances
    <2>13. Serials(k)' /\ Unopened(k)'
        <3>1. \A i \in 1 .. Len(Tail(s)) : Tail(s)[i].serial = S
            <4>1. Len(s) \in Nat \ {0} /\ Len(Tail(s)) = Len(s) - 1
                  /\ \A i \in 1 .. Len(Tail(s)) : Tail(s)[i] = s[i + 1] /\ i + 1 \in 1 .. Len(s)
                BY <1>1, <1>6 DEF s
            <4>2. \A i \in 1 .. Len(s) : s[i].serial = S
                BY DEF OrderOf, Serials, s, S
            <4>3. QED
                BY <4>1, <4>2
        <3>2. S <= S
            BY <1>1 DEF S
        <3>3. Serials(k)'
            BY <1>2, <1>3, <2>1, <2>3, <2>6, <3>1, <3>2 DEF Serials
        <3>4. Unopened(k)'
            BY <1>2, <1>3, <2>6 DEF Unopened
        <3>5. QED
            BY <3>3, <3>4
    <2>14. QED
        BY <2>10, <2>11, <2>12, <2>13 DEF OrderOf
<1>7. QED
    BY <1>5, <1>6

(* get_video_frame drops a picture.                                        *)
LEMMA DropKeepsOrder ==
  ASSUME Inv, PlayedTypes, NEW k \in Kinds, OrderOf(k), DropEarly(k)
  PROVE  OrderOf(k)'
<1> DEFINE d == dec[k]
           x == dec[k].frame
<1>1. d \in Decoder /\ d.at = "frame" /\ UNCHANGED <<q, ring, reader, main, device, is, api>>
    BY CodecTypes DEF DropEarly
<1>2. /\ dec'[k].at = "top" /\ dec'[k].serial = d.serial /\ dec'[k].codec = d.codec
      /\ dec'[k].draining = d.draining /\ dec'[k].finished = d.finished /\ dec'[k].frame = x
    <2>1. dec \in [Kinds -> Decoder]
        BY DEF Inv, Types, DecoderTypes
    <2>2. dec'[k] = [d EXCEPT !.at = "top"]
        BY <2>1 DEF DropEarly, Decoders
    <2>3. QED
        BY <1>1, <2>2 DEF Decoder
<1>3. CASE ~Fresh(k)
    <2>1. UNCHANGED played
        BY <1>3 DEF DropEarly, Fresh
    <2>2. Undisturbed(k)
        BY <1>1, <1>2, <1>3, <2>1 DEF Undisturbed, Holding, FlushPending
    <2>3. QED
        BY <2>2, Stays
<1>4. CASE Fresh(k)
    <2>1. /\ played'[k].from = played[k].from /\ played'[k].frames = played[k].frames
          /\ played'[k].dropped = played[k].dropped \cup {x}
        <3>1. played' = [played EXCEPT ![k].dropped = @ \cup {x}]
            BY <1>4 DEF DropEarly, Fresh
        <3>2. QED
            BY <3>1 DEF PlayedTypes
    <2>2. Alive(k) /\ Alive(k)' /\ Fresh(k)' /\ Draining(k)' = Draining(k)
        BY <1>1, <1>2, <1>4 DEF Alive, Fresh, Draining
    <2>3. /\ Shown(k)' = Shown(k) /\ Due(k)' = Due(k) \ {x} /\ Queued(k)' = Queued(k)
          /\ Held(k) = {x} /\ Held(k)' = {} /\ Coded(k)' = Coded(k)
        BY <1>1, <1>2, <1>4, <2>1, <2>2 DEF Shown, Due, Queued, Held, Coded, Holding
    <2>4. Ringed(k)' = Ringed(k) /\ RingInLine(k)'
        BY <1>1, RingStays DEF OrderOf, Sorted
    <2>5. Lined(Due(k), Shown(k), Ringed(k), {x}, Coded(k), Queued(k))
        BY <2>3 DEF OrderOf, Line
    <2>6. Line(k)'
        <3>1. Lined(Due(k) \ {x}, Shown(k), Ringed(k), {}, Coded(k), Queued(k))
            BY <2>5, DueAre, LineMoves
        <3>2. QED
            BY <2>3, <2>4, <3>1 DEF Line
    <2>7. Sorted(k)'
        BY <1>1, <1>2, <2>1, <2>2, <2>4, <1>4 DEF OrderOf, Sorted
    <2>8. /\ Known(k)' \cup {x} = Known(k) /\ x \notin Due(k)'
          /\ x \notin Shown(k) \cup Ringed(k) /\ x \in Due(k)
        <3>1. x \in Int /\ x \in Due(k)
            BY <2>5, DueAre DEF Lined
        <3>2. x \notin Shown(k) \cup Ringed(k)
            BY <2>5, <3>1 DEF Lined, Under
        <3>3. QED
            BY <2>3, <2>4, <3>1, <3>2 DEF Known
    <2>9. Reach(k)' /\ Drains(k)' /\ Decoded(k)'
        <3>1. Drained(k)' = Drained(k)
            BY <1>1, <2>2 DEF Drained
        <3>2. Draining(k)' => dec'[k].at \notin {"get", "asleep"} /\ Queued(k)' = {}
            <4>1. is.opened[k]
                BY <1>1 DEF OrderOf, Unopened
            <4>2. QED
                BY <1>2, <2>2, <2>3, <4>1 DEF OrderOf, Drains
        <3>3. is.opened[k] /\ dec'[k].finished = q'[k].serial => Due(k) \subseteq Shown(k) \cup Ringed(k)
            BY <1>1, <1>2 DEF OrderOf, Decoded
        <3>4. Known(k)' \cup played'[k].dropped \subseteq Known(k) \cup played[k].dropped
            BY <2>1, <2>8
        <3>5. \A y \in Known(k) : y \in Due(k)' => y \in Known(k)'
            BY <2>8
        <3>6. QED
            BY <1>1, <2>1, <2>2, <2>3, <2>4, <3>1, <3>2, <3>3, <3>4, <3>5, Advances
    <2>10. Serials(k)' /\ Unopened(k)'
        BY <1>1, <1>2 DEF OrderOf, Serials, Unopened
    <2>11. QED
        BY <2>6, <2>7, <2>9, <2>10 DEF OrderOf
<1>5. QED
    BY <1>3, <1>4

(* A decoder that goes on, or ends, with its frame.                        *)
LEMMA DecoderGoes ==
  ASSUME Inv, PlayedTypes, NEW k \in Kinds, OrderOf(k), dec[k].at = "frame",
         NEW at \in {"full", "write", "done"}, dec' = [dec EXCEPT ![k] = [dec[k] EXCEPT !.at = at]],
         UNCHANGED <<q, reader, is, played>>, Ringed(k)' = Ringed(k), RingInLine(k)'
  PROVE  OrderOf(k)'
<1>1. dec[k] \in Decoder /\ dec'[k] = [dec[k] EXCEPT !.at = at]
    BY CodecTypes DEF Inv, Types, DecoderTypes
<1>2. CASE at = "done"
    BY <1>1, <1>2, Ends
<1>3. CASE at # "done"
    <2>1. /\ dec'[k].at = at /\ dec'[k].serial = dec[k].serial /\ dec'[k].codec = dec[k].codec
          /\ dec'[k].draining = dec[k].draining /\ dec'[k].finished = dec[k].finished
          /\ dec'[k].frame = dec[k].frame
        BY <1>1 DEF Decoder
    <2>2. Undisturbed(k)
        BY <1>3, <2>1 DEF Undisturbed, Holding, FlushPending
    <2>3. QED
        BY <2>2, Stays
<1>4. QED
    BY <1>2, <1>3

LEMMA ReserveKeepsOrder ==
  ASSUME Inv, PlayedTypes, NEW k \in Kinds, OrderOf(k), Reserve(k)
  PROVE  OrderOf(k)'
<1>1. Ringed(k)' = Ringed(k) /\ RingInLine(k)'
    BY RingReserves DEF Inv, OrderOf, Sorted
<1>2. \E at \in {"full", "write", "done"} : dec' = [dec EXCEPT ![k] = [dec[k] EXCEPT !.at = at]]
    BY DEF Reserve, Decoders
<1>3. dec[k].at = "frame" /\ UNCHANGED <<q, reader, is, played>>
    BY DEF Reserve
<1>4. QED
    BY <1>1, <1>2, <1>3, DecoderGoes

LEMMA FilterKeepsOrder ==
  ASSUME Inv, PlayedTypes, NEW k \in Kinds, OrderOf(k), NEW quits, FilterFails(k, quits)
  PROVE  OrderOf(k)'
<1>1. Ringed(k)' = Ringed(k) /\ RingInLine(k)'
    BY RingStays DEF FilterFails, OrderOf, Sorted
<1>2. dec' = [dec EXCEPT ![k] = [dec[k] EXCEPT !.at = "done"]]
    BY DEF FilterFails, Decoders
<1>3. dec[k].at = "frame" /\ UNCHANGED <<q, reader, is, played>>
    BY DEF FilterFails
<1>4. QED
    BY <1>1, <1>2, <1>3, DecoderGoes

(* frame_queue_push.                                                       *)
LEMMA PushKeepsOrder ==
  ASSUME Inv, PlayedTypes, NEW k \in Kinds, OrderOf(k), Push(k)
  PROVE  OrderOf(k)'
<1> DEFINE d == dec[k]
           x == dec[k].frame
<1>1. d \in Decoder /\ d.at = "write" /\ UNCHANGED <<q, reader, is, played>>
    BY CodecTypes DEF Push
<1>2. /\ dec'[k].at = "top" /\ dec'[k].serial = d.serial /\ dec'[k].codec = d.codec
      /\ dec'[k].draining = d.draining /\ dec'[k].finished = d.finished /\ dec'[k].frame = x
    <2>1. dec \in [Kinds -> Decoder]
        BY DEF Inv, Types, DecoderTypes
    <2>2. dec'[k] = [d EXCEPT !.at = "top"]
        BY <2>1 DEF Push, Decoders
    <2>3. QED
        BY <1>1, <2>2 DEF Decoder
<1>3. Fresh(k) => Held(k) = {x}
    BY <1>1 DEF Held, Holding
<1>4. Fresh(k) => \A y \in Ringed(k) : y < x
    BY <1>3 DEF OrderOf, Line, Lined, Under
<1>5. /\ RingInLine(k)'
      /\ Ringed(k)' = Ringed(k) \cup (IF Fresh(k) THEN {x} ELSE {})
    <2>1. Types /\ Places /\ Rings /\ RingInLine(k) /\ dec[k].serial <= q[k].serial
        BY DEF Inv, OrderOf, Sorted, Serials
    <2>2. dec[k].serial = q[k].serial => \A y \in Ringed(k) : y < dec[k].frame
        BY <1>4 DEF Fresh
    <2>3. /\ RingInLine(k)'
          /\ Ringed(k)' = Ringed(k) \cup (IF dec[k].serial = q[k].serial THEN {dec[k].frame} ELSE {})
        BY <2>1, <2>2, RingPushes
    <2>4. QED
        BY <2>3 DEF Fresh
<1>6. CASE ~Fresh(k)
    <2>1. Ringed(k)' = Ringed(k)
        BY <1>5, <1>6
    <2>2. Undisturbed(k)
        BY <1>1, <1>2, <1>5, <1>6, <2>1 DEF Undisturbed, Holding, FlushPending
    <2>3. QED
        BY <2>2, Stays
<1>7. CASE Fresh(k)
    <2>1. Alive(k) /\ Alive(k)' /\ Fresh(k)' /\ Draining(k)' = Draining(k)
        BY <1>1, <1>2, <1>7 DEF Alive, Fresh, Draining
    <2>2. /\ Shown(k)' = Shown(k) /\ Due(k)' = Due(k) /\ Queued(k)' = Queued(k)
          /\ Held(k) = {x} /\ Held(k)' = {} /\ Coded(k)' = Coded(k)
          /\ Ringed(k)' = Ringed(k) \cup {x}
        BY <1>1, <1>2, <1>3, <1>5, <1>7, <2>1 DEF Shown, Due, Queued, Held, Coded, Holding
    <2>3. Line(k)'
        <3>1. Lined(Due(k), Shown(k), Ringed(k), {x}, Coded(k), Queued(k))
            BY <2>2 DEF OrderOf, Line
        <3>2. Lined(Due(k), Shown(k), Ringed(k) \cup {x}, {}, Coded(k), Queued(k))
            BY <3>1, DueAre, LineMoves
        <3>3. QED
            BY <2>2, <3>2 DEF Line
    <2>4. Sorted(k)'
        BY <1>1, <1>2, <1>5, <1>7, <2>1 DEF OrderOf, Sorted
    <2>5. Known(k)' = Known(k)
        BY <2>2 DEF Known
    <2>6. Reach(k)' /\ Drains(k)' /\ Decoded(k)'
        <3>1. Drained(k)' = Drained(k)
            BY <1>1, <2>1 DEF Drained
        <3>2. Draining(k)' => dec'[k].at \notin {"get", "asleep"} /\ Queued(k)' = {}
            <4>1. is.opened[k]
                BY <1>1 DEF OrderOf, Unopened
            <4>2. QED
                BY <1>2, <2>1, <2>2, <4>1 DEF OrderOf, Drains
        <3>3. is.opened[k] /\ dec'[k].finished = q'[k].serial => Due(k) \subseteq Shown(k) \cup Ringed(k)
            BY <1>1, <1>2 DEF OrderOf, Decoded
        <3>4. QED
            BY <1>1, <2>1, <2>2, <2>5, <3>1, <3>2, <3>3, Advances
    <2>7. Serials(k)' /\ Unopened(k)'
        BY <1>1, <1>2 DEF OrderOf, Serials, Unopened
    <2>8. QED
        BY <2>3, <2>4, <2>6, <2>7 DEF OrderOf
<1>8. QED
    BY <1>6, <1>7

(* frame_queue_next: a stale frame is dropped, any other is played.        *)
LEMMA TakeKeepsOrder ==
  ASSUME Inv, PlayedTypes, NEW k \in Kinds, OrderOf(k), Takes(k), q' = q,
         UNCHANGED reader, is'.opened = is.opened,
         NEW x, x = At(k, ring[k].shown), played' = Plays(k, x)
  PROVE  OrderOf(k)'
<1>1. dec[k] \in Decoder /\ RingInLine(k) /\ Types /\ Rings
    BY CodecTypes DEF Inv, OrderOf, Sorted
<1>2. /\ RingInLine(k)'
      /\ x.serial = q[k].serial =>
           /\ x.pos \in Ringed(k) /\ Ringed(k)' = Ringed(k) \ {x.pos}
           /\ \A y \in Ringed(k) \ {x.pos} : x.pos < y
      /\ x.serial # q[k].serial => Ringed(k)' = Ringed(k)
    BY <1>1, RingTakes
<1>3. /\ dec'[k].serial = dec[k].serial /\ dec'[k].codec = dec[k].codec
      /\ dec'[k].draining = dec[k].draining /\ dec'[k].finished = dec[k].finished
      /\ dec'[k].frame = dec[k].frame
      /\ dec'[k].at = dec[k].at \/ (dec[k].at = "full" /\ dec'[k].at = "frame")
    <2>1. dec \in [Kinds -> Decoder]
        BY DEF Inv, Types, DecoderTypes
    <2>2. dec'[k] = dec[k] \/ (dec[k].at = "full" /\ dec'[k] = [dec[k] EXCEPT !.at = "frame"])
        BY <2>1 DEF Takes, RoomFor
    <2>3. QED
        BY <1>1, <2>2 DEF Decoder
<1>4. CASE x.serial # q[k].serial
    <2>1. played' = played
        BY <1>4 DEF Plays
    <2>2. Undisturbed(k)
        BY <1>2, <1>3, <1>4, <2>1 DEF Undisturbed, Holding, FlushPending
    <2>3. QED
        BY <2>2, Stays
<1>5. CASE x.serial = q[k].serial
    <2> DEFINE z == x.pos
               f == played[k].frames
    <2>1. /\ Line(k) /\ z \in Ringed(k) /\ z \in Due(k) /\ z \in Positions
          /\ is.opened[k] /\ dec[k].at # "none"
        BY <1>2, <1>5, DueAre DEF OrderOf, Line, Lined, Unopened
    <2>2. /\ played'[k].from = played[k].from /\ played'[k].frames = Append(f, z)
          /\ played'[k].dropped = played[k].dropped
        <3>1. played' = [played EXCEPT ![k].frames = Append(@, z)]
            BY <1>5 DEF Plays
        <3>2. QED
            BY <3>1 DEF PlayedTypes
    <2>3. f \in Seq(Int) /\ z \in Int
        <3>1. f \in Seq(Positions) /\ Positions \subseteq Int
            BY DEF PlayedTypes, Positions
        <3>2. QED
            BY <2>1, <3>1, IntegerSequences
    <2> HIDE DEF z
    <2>4. \A y \in Members(f) : y < z
        BY <2>1 DEF Line, Lined, Under, Shown
    <2>5. Members(Append(f, z)) = Members(f) \cup {z} /\ Increasing(Append(f, z))
        <3>1. Increasing(f)
            BY DEF OrderOf, Sorted
        <3>2. QED
            BY <2>3, <2>4, <3>1, GrowsAtTheEnd
    <2>6. Alive(k)' = Alive(k) /\ Fresh(k)' = Fresh(k) /\ Draining(k)' = Draining(k)
        BY <1>3 DEF Alive, Fresh, Draining
    <2>7. /\ Shown(k)' = Shown(k) \cup {z} /\ Due(k)' = Due(k) /\ Queued(k)' = Queued(k)
          /\ Held(k)' = Held(k) /\ Coded(k)' = Coded(k) /\ Ringed(k)' = Ringed(k) \ {z}
        <3>1. Held(k)' = Held(k)
            BY <1>3, <2>6 DEF Held, Holding
        <3>2. Shown(k)' = Shown(k) \cup {z} /\ Due(k)' = Due(k)
            BY <2>2, <2>5 DEF Shown, Due
        <3>3. QED
            BY <1>2, <1>3, <1>5, <2>6, <3>1, <3>2 DEF Queued, Coded, z
    <2>8. Line(k)'
        <3>1. \A y \in Ringed(k) \ {z} : z < y
            BY <1>2, <1>5 DEF z
        <3>2. Lined(Due(k), Shown(k) \cup {z}, Ringed(k) \ {z}, Held(k), Coded(k), Queued(k))
            BY <2>1, <3>1, DueAre, LineMoves DEF Line
        <3>3. QED
            BY <2>7, <3>2 DEF Line
    <2>9. Sorted(k)'
        BY <1>2, <1>3, <2>2, <2>5, <2>6 DEF OrderOf, Sorted
    <2>10. Known(k)' = Known(k) /\ (Shown(k) \cup Ringed(k))' = Shown(k) \cup Ringed(k)
        BY <2>1, <2>7 DEF Known
    <2>11. Reach(k)' /\ Drains(k)' /\ Decoded(k)'
        <3>1. Drained(k)' = Drained(k)
            BY <2>6 DEF Drained
        <3>2. Alive(k)' /\ Draining(k)' => dec'[k].at \notin {"get", "asleep"} /\ Queued(k)' = {}
            <4>1. SUFFICES ASSUME Alive(k), Draining(k)
                           PROVE  dec'[k].at \notin {"get", "asleep"} /\ Queued(k)' = {}
                BY <2>6
            <4>2. QED
                BY <1>3, <2>1, <2>7, <4>1 DEF OrderOf, Drains
        <3>3. is.opened[k] /\ dec'[k].finished = q'[k].serial => Due(k) \subseteq Shown(k) \cup Ringed(k)
            BY <1>3 DEF OrderOf, Decoded
        <3>4. QED
            BY <2>2, <2>6, <2>7, <2>10, <3>1, <3>2, <3>3, Advances
    <2>12. Serials(k)' /\ Unopened(k)'
        BY <1>3, <2>1 DEF OrderOf, Serials, Unopened
    <2>13. QED
        BY <2>8, <2>9, <2>11, <2>12 DEF OrderOf
<1>6. QED
    BY <1>4, <1>5

-----------------------------------------------------------------------------
(* A queue that is flushed, or started, makes what was on its way stale.   *)
LEMMA Restarts ==
  ASSUME Inv, PlayedTypes, NEW k \in Kinds, OrderOf(k), ring'[k] = ring[k],
         q'[k].serial = q[k].serial + 1, q'[k].packets = <<>>,
         dec'[k].serial = dec[k].serial, dec'[k].finished = dec[k].finished,
         dec'[k].at # "none", is'.opened[k], Increasing(played'[k].frames)
  PROVE  /\ Ringed(k)' = {} /\ Held(k)' = {} /\ Coded(k)' = {} /\ Queued(k)' = {}
         /\ Known(k)' = Shown(k)'
         /\ Sorted(k)' /\ Drains(k)' /\ Decoded(k)' /\ Serials(k)' /\ Unopened(k)'
<1>1. /\ q[k].serial \in Nat /\ dec[k].serial \in Int /\ dec[k].finished \in Int
    BY CodecTypes DEF Decoder
<1>2. dec[k].serial <= q[k].serial /\ dec[k].finished <= q[k].serial
    BY DEF OrderOf, Serials
<1>3. ~Fresh(k)' /\ dec'[k].finished # q'[k].serial /\ q'[k].serial >= 1
    BY <1>1, <1>2 DEF Fresh
<1>4. Ringed(k)' = {} /\ RingInLine(k)'
    BY RingRestarts DEF Inv, OrderOf, Sorted
<1>5. QueueOf(<<>>) = {} /\ ~DrainsIn(<<>>) /\ InLine(<<>>)
    BY DEF QueueOf, DrainsIn, InLine
<1>6. Held(k)' = {} /\ Coded(k)' = {} /\ Queued(k)' = {}
    BY <1>3, <1>5 DEF Held, Coded, Queued
<1>7. Known(k)' = Shown(k)'
    BY <1>4, <1>6 DEF Known
<1>8. Sorted(k)'
    BY <1>3, <1>4, <1>5 DEF Sorted
<1>9. Drains(k)' /\ Decoded(k)'
    BY <1>3, <1>5 DEF Drains, Drained, Draining, Decoded
<1>10. Serials(k)' /\ Unopened(k)'
    <2>1. dec'[k].serial <= q'[k].serial /\ dec'[k].finished <= q'[k].serial
        BY <1>1, <1>2
    <2>2. \A i \in 1 .. Len(q'[k].packets) : q'[k].packets[i].serial = q'[k].serial
        OBVIOUS
    <2>3. QED
        BY <1>3, <2>1, <2>2 DEF Serials, Unopened
<1>11. QED
    BY <1>4, <1>6, <1>7, <1>8, <1>9, <1>10

LEMMA Begins ==
  ASSUME Inv, PlayedTypes, NEW k \in Kinds, OrderOf(k), ring'[k] = ring[k],
         q'[k].serial = q[k].serial + 1, q'[k].packets = <<>>,
         dec'[k].serial = dec[k].serial, dec'[k].finished = dec[k].finished,
         dec'[k].at # "none", is'.opened[k],
         NEW from \in Nat, played'[k] = [from |-> from, frames |-> <<>>, dropped |-> {}],
         reader'.next = from + 1
  PROVE  OrderOf(k)'
<1>1. Increasing(<<>>) /\ Members(<<>>) = {}
    BY DEF Increasing, Members
<1>2. played'[k].frames = <<>> /\ played'[k].from = from /\ played'[k].dropped = {}
    OBVIOUS
<1>3. /\ Ringed(k)' = {} /\ Held(k)' = {} /\ Coded(k)' = {} /\ Queued(k)' = {}
      /\ Known(k)' = Shown(k)'
      /\ Sorted(k)' /\ Drains(k)' /\ Decoded(k)' /\ Serials(k)' /\ Unopened(k)'
    BY <1>1, <1>2, Restarts
<1>4. Shown(k)' = {}
    BY <1>1, <1>2 DEF Shown
<1>5. Line(k)'
    BY <1>3, <1>4 DEF Line, Lined, Under
<1>6. Reach(k)'
    <2>1. \A p \in Due(k)' : ~(p < reader'.next)
        BY <1>2 DEF Due, Positions
    <2>2. QED
        BY <1>2, <1>3, <1>4, <2>1 DEF Reach
<1>7. QED
    BY <1>3, <1>5, <1>6 DEF OrderOf

LEMMA JoinKeepsOrder ==
  ASSUME Inv, PlayedTypes, ReaderAtWork, NEW k \in Kinds, OrderOf(k), JoinDecoder(k)
  PROVE  OrderOf(k)'
<1>1. /\ main.at = "decoder" /\ dec[k].at = "done" /\ UNCHANGED <<ring, dec, reader, is, api, played>>
      /\ k \in main.closing
    BY DEF JoinDecoder, IsNext
<1>2. is.opened[k] /\ reader.at \in {"done", "ended"}
    BY <1>1 DEF ReaderAtWork, Streams
<1>3. q'[k].serial = q[k].serial + 1 /\ q'[k].packets = <<>>
    BY DEF JoinDecoder, Flushed, Inv, Types, QueueTypes, Queue
<1>4. Increasing(played'[k].frames)
    BY <1>1 DEF OrderOf, Sorted
<1>5. /\ Ringed(k)' = {} /\ Held(k)' = {} /\ Coded(k)' = {} /\ Queued(k)' = {}
      /\ Known(k)' = Shown(k)'
      /\ Sorted(k)' /\ Drains(k)' /\ Decoded(k)' /\ Serials(k)' /\ Unopened(k)'
    BY <1>1, <1>2, <1>3, <1>4, Restarts
<1>6. Shown(k)' = Shown(k) /\ Due(k)' = Due(k) /\ ~Alive(k)'
    BY <1>1 DEF Shown, Due, Alive
<1>7. Line(k)'
    <2>1. Lined(Due(k), Shown(k), {}, {}, {}, {})
        BY DueAre, LineEnds DEF OrderOf, Line
    <2>2. QED
        BY <1>5, <1>6, <2>1 DEF Line
<1>8. Reach(k)'
    <2>1. ~FlushPending(k)
        BY <1>2 DEF FlushPending
    <2>2. Known(k)' \subseteq Known(k)
        BY <1>5, <1>6 DEF Known
    <2>3. QED
        BY <1>1, <1>2, <1>6, <2>1, <2>2 DEF OrderOf, Reach
<1>9. QED
    BY <1>5, <1>7, <1>8 DEF OrderOf

-----------------------------------------------------------------------------
(* The reader.                                                             *)

LEMMA QueuePut ==
  ASSUME Inv, ReaderAtWork, NEW k \in Kinds, is.opened[k], Reading, NEW pos \in Positions \cup {Null}
  PROVE  LET e == [serial |-> q[k].serial, pos |-> pos]
         IN  /\ Put(k, pos).packets = Append(q[k].packets, e) /\ Put(k, pos).serial = q[k].serial
             /\ e \in Packet
<1>1. ~q[k].abort
    BY DEF ReaderAtWork, Reading
<1>2. q[k] \in Queue
    BY CodecTypes
<1>3. QED
    BY <1>1, <1>2 DEF Put, Queue, Packet

LEMMA WokenIs ==
  ASSUME NEW d \in Decoder, NEW w, w = Woken(d)
  PROVE  /\ w.serial = d.serial /\ w.codec = d.codec /\ w.draining = d.draining
         /\ w.finished = d.finished /\ w.frame = d.frame
         /\ w.at = d.at \/ (d.at = "asleep" /\ w.at = "get")
BY DEF Woken, Decoder

(* A packet that is queued behind the others.                              *)
LEMMA PutKeepsOrder ==
  ASSUME Inv, PlayedTypes, ReaderAtWork, NEW k \in Kinds, OrderOf(k), is.opened[k], Reading,
         NEW pos \in Positions \cup {Null},
         q'[k] = Put(k, pos), dec'[k] = Woken(dec[k]),
         UNCHANGED <<ring, is, played>>, reader'.at = "loop",
         \/ pos = Null /\ reader.next \notin Positions /\ reader'.next = reader.next
         \/ pos = reader.next /\ Media[pos] = k /\ pos \in Positions /\ reader'.next = pos + 1
  PROVE  OrderOf(k)'
<1> DEFINE s == q[k].packets
           e == [serial |-> q[k].serial, pos |-> pos]
<1>1. /\ q'[k].packets = Append(s, e) /\ q'[k].serial = q[k].serial
      /\ e \in Packet /\ e.pos = pos /\ e.serial = q[k].serial
    BY QueuePut
<1> HIDE DEF e
<1>2. /\ dec'[k].serial = dec[k].serial /\ dec'[k].codec = dec[k].codec
      /\ dec'[k].draining = dec[k].draining /\ dec'[k].finished = dec[k].finished
      /\ dec'[k].frame = dec[k].frame
      /\ dec'[k].at = dec[k].at \/ (dec[k].at = "asleep" /\ dec'[k].at = "get")
    BY CodecTypes, WokenIs
<1>3. /\ Alive(k)' = Alive(k) /\ Fresh(k)' = Fresh(k) /\ Draining(k)' = Draining(k)
      /\ Shown(k)' = Shown(k) /\ Due(k)' = Due(k)
    BY <1>1, <1>2 DEF Alive, Fresh, Draining, Shown, Due
<1>4. Held(k)' = Held(k) /\ Coded(k)' = Coded(k)
    BY <1>2, <1>3 DEF Held, Coded, Holding
<1>5. Ringed(k)' = Ringed(k) /\ RingInLine(k)'
    BY <1>1, RingStays DEF OrderOf, Sorted
<1>6. ~FlushPending(k) /\ ~FlushPending(k)'
    BY DEF FlushPending, Reading
<1>7. /\ reader.next \in Nat /\ Len(Media) \in Nat /\ played[k].from \in Nat
      /\ played[k].from < reader.next /\ \A p \in Due(k) : p \in Positions
    <2>1. played[k].from < reader.next
        BY <1>6 DEF OrderOf, Reach
    <2>2. QED
        BY <2>1, KindsAre, DueAre DEF Inv, Types, ReaderTypes, PlayedTypes
<1>8. s \in Seq(Packet) /\ q[k].serial \in Nat
    BY CodecTypes
<1>9. ASSUME Alive(k)
      PROVE  /\ InLine(s) /\ (Drained(k) => Due(k) \subseteq Known(k) /\ reader.next > Len(Media))
             /\ Queued(k) = QueueOf(s) /\ Queued(k)' = QueueOf(Append(s, e))
             /\ Draining(k) => dec[k].at \notin {"get", "asleep"} /\ Queued(k) = {}
             /\ \A p \in Due(k) : p < reader.next => p \in Known(k)
    BY <1>1, <1>3, <1>6, <1>9 DEF OrderOf, Sorted, Drains, Queued, Reach
<1>10. ASSUME Alive(k), pos = Null
       PROVE  InLine(Append(s, e)) /\ Queued(k)' = Queued(k) /\ Due(k) \subseteq Known(k)
              /\ reader.next > Len(Media)
    <2>1. InLine(Append(s, e)) /\ Queued(k)' = Queued(k)
        BY <1>1, <1>8, <1>9, <1>10, PacketsAppend
    <2>2. reader.next \notin Positions
        BY <1>10 DEF Positions, Null
    <2>3. reader.next > Len(Media)
        BY <1>7, <2>2 DEF Positions
    <2>4. QED
        BY <1>7, <1>9, <1>10, <2>1, <2>3 DEF Positions
<1>11. ASSUME Alive(k), pos # Null
       PROVE  /\ InLine(Append(s, e)) /\ Queued(k)' = Queued(k) \cup {pos} /\ ~Drained(k)'
              /\ pos = reader.next /\ Media[pos] = k /\ pos \in Positions
              /\ pos \in Due(k) /\ (\A y \in Known(k) : y < pos)
    <2>1. pos = reader.next /\ Media[pos] = k /\ pos \in Positions
        BY <1>11
    <2>2. ~Drained(k)
        BY <1>7, <1>9, <1>11, <2>1 DEF Positions
    <2>3. \A y \in Known(k) \cup played[k].dropped : y < pos
        BY <1>6, <2>1 DEF OrderOf, Reach
    <2>4. pos \in Due(k)
        <3>1. pos \notin played[k].dropped
            BY <1>7, <2>1, <2>3
        <3>2. QED
            BY <1>7, <2>1, <3>1 DEF Due
    <2>5. ~DrainsIn(s) /\ \A y \in QueueOf(s) : y < e.pos
        BY <1>1, <1>9, <1>11, <2>2, <2>3 DEF Drained, Known
    <2>6. /\ InLine(Append(s, e)) /\ QueueOf(Append(s, e)) = QueueOf(s) \cup {pos}
          /\ ~DrainsIn(Append(s, e))
        BY <1>1, <1>8, <1>9, <1>11, <2>5, PacketsAppend
    <2>7. ~Drained(k)'
        BY <1>1, <1>3, <2>2, <2>6 DEF Drained
    <2>8. QED
        BY <1>9, <1>11, <2>1, <2>3, <2>4, <2>6, <2>7
<1>12. ~Alive(k) => Queued(k)' = Queued(k)
    BY <1>3 DEF Queued
<1>13. Line(k)'
    <2>1. CASE Queued(k)' = Queued(k)
        BY <1>3, <1>4, <1>5, <2>1 DEF OrderOf, Line
    <2>2. CASE Alive(k) /\ pos # Null
        <3>1. \A p \in Due(k) : p < pos => p \in Known(k)
            BY <1>9, <1>11, <2>2
        <3>2. Lined(Due(k), Shown(k), Ringed(k), Held(k), Coded(k), Queued(k) \cup {pos})
            BY <1>11, <2>2, <3>1, DueAre, LineMoves DEF OrderOf, Line, Known
        <3>3. QED
            BY <1>3, <1>4, <1>5, <1>11, <2>2, <3>2 DEF Line
    <2>3. QED
        BY <1>10, <1>12, <2>1, <2>2
<1>14. Sorted(k)'
    BY <1>1, <1>2, <1>3, <1>5, <1>10, <1>11 DEF OrderOf, Sorted
<1>15. Known(k)' = Known(k) \cup (IF Alive(k) /\ pos # Null THEN {pos} ELSE {})
    BY <1>3, <1>4, <1>5, <1>10, <1>11, <1>12 DEF Known
<1>16. Reach(k)'
    <2>1. \A x \in Known(k) \cup played[k].dropped : x < reader.next
        BY <1>6 DEF OrderOf, Reach
    <2>2. reader.next <= reader'.next /\ (pos # Null => pos < reader'.next)
        BY <1>7 DEF Positions
    <2>3. \A x \in Known(k) \cup played[k].dropped : x \in Int
        BY <1>7, DueAre DEF OrderOf, Line, Lined, Known, PlayedTypes, Positions
    <2>4. \A x \in Known(k)' \cup played'[k].dropped : x < reader'.next
        BY <1>7, <1>15, <2>1, <2>2, <2>3
    <2>5. ASSUME Alive(k), NEW p \in Due(k), p < reader'.next PROVE p \in Known(k)'
        <3>1. p < reader.next \/ (p = pos /\ pos # Null)
            BY <1>7, <2>5 DEF Positions, Null
        <3>2. QED
            BY <1>9, <1>15, <2>5, <3>1
    <2>6. played'[k].from < reader'.next
        BY <1>7, <2>2
    <2>7. QED
        BY <1>3, <2>4, <2>5, <2>6 DEF Reach
<1>17. Drains(k)'
    <2>1. SUFFICES ASSUME Alive(k)
                   PROVE  /\ Draining(k) => dec'[k].at \notin {"get", "asleep"} /\ Queued(k)' = {}
                          /\ Drained(k)' => Due(k) \subseteq Known(k)' /\ reader'.next > Len(Media)
        BY <1>3, <1>6 DEF Drains
    <2>2. CASE pos = Null
        <3>1. reader'.next = reader.next
            BY <2>2 DEF Positions, Null
        <3>2. Draining(k) => dec'[k].at \notin {"get", "asleep"} /\ Queued(k)' = {}
            BY <1>2, <1>9, <1>10, <2>1, <2>2
        <3>3. QED
            BY <1>10, <1>15, <2>1, <2>2, <3>1, <3>2
    <2>3. CASE pos # Null
        BY <1>3, <1>11, <2>1, <2>3 DEF Drained
    <2>4. QED
        BY <2>2, <2>3
<1>18. Decoded(k)'
    BY <1>1, <1>2, <1>3, <1>5 DEF OrderOf, Decoded
<1>19. Serials(k)' /\ Unopened(k)'
    <2>1. \A i \in 1 .. Len(Append(s, e)) : Append(s, e)[i].serial = q[k].serial
        <3>1. \A i \in 1 .. Len(Append(s, e)) :
                (i \in 1 .. Len(s) /\ Append(s, e)[i] = s[i]) \/ Append(s, e)[i] = e
            BY <1>8
        <3>2. \A i \in 1 .. Len(s) : s[i].serial = q[k].serial
            BY DEF OrderOf, Serials
        <3>3. QED
            BY <1>1, <3>1, <3>2
    <2>2. QED
        BY <1>1, <1>2, <2>1 DEF OrderOf, Serials, Unopened
<1>20. QED
    BY <1>13, <1>14, <1>16, <1>17, <1>18, <1>19 DEF OrderOf

(* The reader goes past a packet of another stream.                        *)
LEMMA PassKeepsOrder ==
  ASSUME Inv, PlayedTypes, NEW k \in Kinds, OrderOf(k), is.opened[k], Reading,
         reader.next \in Positions, Media[reader.next] # k,
         q'[k] = q[k], dec'[k] = dec[k], UNCHANGED <<ring, is, played>>,
         reader'.at = "loop", reader'.next = reader.next + 1
  PROVE  OrderOf(k)'
<1>1. /\ Alive(k)' = Alive(k) /\ Fresh(k)' = Fresh(k) /\ Draining(k)' = Draining(k)
      /\ Shown(k)' = Shown(k) /\ Due(k)' = Due(k)
    BY DEF Alive, Fresh, Draining, Shown, Due
<1>2. Held(k)' = Held(k) /\ Coded(k)' = Coded(k) /\ Queued(k)' = Queued(k)
    BY <1>1 DEF Held, Coded, Queued
<1>3. Ringed(k)' = Ringed(k) /\ RingInLine(k)'
    BY RingStays DEF OrderOf, Sorted
<1>4. Known(k)' = Known(k) /\ Drained(k)' = Drained(k)
    BY <1>1, <1>2, <1>3 DEF Known, Drained
<1>5. ~FlushPending(k) /\ ~FlushPending(k)'
    BY DEF FlushPending, Reading
<1>6. Line(k)' /\ Sorted(k)'
    BY <1>1, <1>2, <1>3 DEF OrderOf, Line, Sorted
<1>7. /\ reader.next \in Nat /\ Len(Media) \in Nat /\ played[k].from \in Nat
      /\ \A x \in Known(k) \cup played[k].dropped : x \in Int
    <2>1. reader.next \in Nat /\ Len(Media) \in Nat /\ played[k].from \in Nat
        BY KindsAre DEF Inv, Types, ReaderTypes, PlayedTypes
    <2>2. \A x \in Known(k) \cup played[k].dropped : x \in Int
        BY <2>1, DueAre DEF OrderOf, Line, Lined, Known, PlayedTypes, Positions
    <2>3. QED
        BY <2>1, <2>2
<1>8. Reach(k)'
    <2>1. /\ Alive(k) => \A p \in Due(k) : p < reader.next => p \in Known(k)
          /\ \A x \in Known(k) \cup played[k].dropped : x < reader.next
          /\ played[k].from < reader.next
        BY <1>5 DEF OrderOf, Reach
    <2>2. ASSUME NEW p \in Due(k), p < reader'.next PROVE p < reader.next
        BY <1>7, <2>2 DEF Due, Positions
    <2>3. \A x \in Known(k) \cup played[k].dropped : x < reader'.next
        BY <1>7, <2>1
    <2>4. played[k].from < reader'.next
        BY <1>7, <2>1
    <2>5. QED
        BY <1>1, <1>4, <2>1, <2>2, <2>3, <2>4 DEF Reach
<1>9. Drains(k)'
    <2>1. reader.next > Len(Media) => reader'.next > Len(Media)
        BY <1>7
    <2>2. QED
        BY <1>1, <1>2, <1>4, <1>5, <2>1 DEF OrderOf, Drains
<1>10. Decoded(k)' /\ Serials(k)' /\ Unopened(k)'
    BY <1>1, <1>3 DEF OrderOf, Decoded, Serials, Unopened
<1>11. QED
    BY <1>6, <1>8, <1>9, <1>10 DEF OrderOf

LEMMA ReadPacketKeepsOrder ==
  ASSUME Inv, PlayedTypes, ReaderAtWork, NEW k \in Kinds, OrderOf(k), ReadPacket
  PROVE  OrderOf(k)'
<1>1. /\ Reading /\ reader.next \in Positions /\ UNCHANGED <<ring, is, played>>
      /\ reader' = [reader EXCEPT !.next = @ + 1, !.eof = FALSE, !.at = "loop"]
    BY DEF ReadPacket
<1>2. reader'.at = "loop" /\ reader'.next = reader.next + 1
    BY <1>1 DEF Inv, Types, ReaderTypes
<1>3. dec \in [Kinds -> Decoder] /\ q \in [Kinds -> Queue]
    BY DEF Inv, Types, DecoderTypes, QueueTypes
<1>4. PICK j : j = Media[reader.next]
    OBVIOUS
<1>5. IF is.opened[j]
      THEN q' = [q EXCEPT ![j] = Put(j, reader.next)] /\ dec' = [dec EXCEPT ![j] = Woken(dec[j])]
      ELSE UNCHANGED <<q, dec>>
    BY <1>4 DEF ReadPacket
<1>6. CASE ~is.opened[k]
    <2>1. q'[k] = q[k] /\ dec'[k] = dec[k]
        BY <1>3, <1>5, <1>6
    <2>2. Undisturbed(k)
        BY <1>1, <1>6, <2>1 DEF Undisturbed
    <2>3. QED
        BY <2>2, Stays
<1>7. CASE is.opened[k] /\ j # k
    <2>1. q'[k] = q[k] /\ dec'[k] = dec[k]
        BY <1>3, <1>5, <1>7
    <2>2. QED
        BY <1>1, <1>2, <1>4, <1>7, <2>1, PassKeepsOrder
<1>8. CASE is.opened[k] /\ j = k
    <2>1. q'[k] = Put(k, reader.next) /\ dec'[k] = Woken(dec[k])
        BY <1>3, <1>5, <1>8
    <2>2. PICK pos \in Positions \cup {Null} : pos = reader.next
        BY <1>1
    <2>3. /\ q'[k] = Put(k, pos) /\ Media[pos] = k /\ pos \in Positions /\ reader'.next = pos + 1
        BY <1>1, <1>2, <1>4, <1>8, <2>1, <2>2
    <2>4. QED
        BY <1>1, <1>2, <1>8, <2>1, <2>2, <2>3, PutKeepsOrder
<1>9. QED
    BY <1>6, <1>7, <1>8

LEMMA ReadEofKeepsOrder ==
  ASSUME Inv, PlayedTypes, ReaderAtWork, NEW k \in Kinds, OrderOf(k), ReadEof
  PROVE  OrderOf(k)'
<1>1. /\ Reading /\ reader.next \notin Positions /\ UNCHANGED <<ring, is, played>>
      /\ reader' = [reader EXCEPT !.eof = TRUE, !.at = "loop"]
    BY DEF ReadEof
<1>2. reader'.at = "loop" /\ reader'.next = reader.next
    BY <1>1 DEF Inv, Types, ReaderTypes
<1>3. CASE reader.eof \/ ~is.opened[k]
    <2>1. q'[k] = q[k] /\ dec'[k] = dec[k]
        BY <1>3 DEF ReadEof
    <2>2. Undisturbed(k)
        BY <1>1, <1>2, <2>1 DEF Undisturbed, FlushPending, Reading
    <2>3. QED
        BY <2>2, Stays
<1>4. CASE ~reader.eof /\ is.opened[k]
    <2>1. q'[k] = Put(k, Null) /\ dec'[k] = Woken(dec[k])
        BY <1>4 DEF ReadEof
    <2>2. PICK pos \in Positions \cup {Null} : pos = Null
        OBVIOUS
    <2>3. q'[k] = Put(k, pos)
        BY <2>1, <2>2
    <2>4. QED
        BY <1>1, <1>2, <1>4, <2>1, <2>2, <2>3, PutKeepsOrder
<1>5. QED
    BY <1>3, <1>4

(* stream_component_open and the flush of a seek.                          *)
LEMMA OpenKeepsOrder ==
  ASSUME Inv, PlayedTypes, ReaderAtWork, NEW j \in Kinds, NEW k \in Kinds, OrderOf(k), OpenStream(j)
  PROVE  OrderOf(k)'
<1>1. /\ reader.at = "open" /\ j \in reader.todo /\ UNCHANGED <<ring, main, api, played>>
      /\ reader' = [reader EXCEPT !.todo = reader.todo \ {j}, !.eof = FALSE]
      /\ q' = [q EXCEPT ![j] = Started(q[j])] /\ dec' = [dec EXCEPT ![j].at = "top"]
      /\ is' = [is EXCEPT !.opened[j] = TRUE]
    BY DEF OpenStream, IsNext
<1>2. /\ dec \in [Kinds -> Decoder] /\ q \in [Kinds -> Queue] /\ is.opened \in [Kinds -> BOOLEAN]
      /\ reader.next = 1 /\ ~is.opened[j]
    BY <1>1 DEF Inv, Types, DecoderTypes, QueueTypes, StateTypes, ReaderAtWork
<1>3. /\ reader'.at = "open" /\ reader'.next = 1
      /\ is'.opened = [is.opened EXCEPT ![j] = TRUE]
    BY <1>1, <1>2 DEF Inv, Types, ReaderTypes, StateTypes
<1>4. CASE k # j
    <2>1. q'[k] = q[k] /\ dec'[k] = dec[k] /\ is'.opened[k] = is.opened[k]
        BY <1>1, <1>2, <1>3, <1>4
    <2>2. Undisturbed(k)
        BY <1>1, <1>2, <1>3, <2>1 DEF Undisturbed, FlushPending
    <2>3. QED
        BY <2>2, Stays
<1>5. CASE k = j
    <2>1. /\ q[k].packets = <<>> /\ played[k] = [from |-> 0, frames |-> <<>>, dropped |-> {}]
        BY <1>2, <1>5 DEF OrderOf, Unopened
    <2>2. q'[k].serial = q[k].serial + 1 /\ q'[k].packets = <<>>
        BY <1>1, <1>2, <1>5, <2>1 DEF Started, Queue
    <2>3. /\ dec'[k].serial = dec[k].serial /\ dec'[k].finished = dec[k].finished
          /\ dec'[k].at = "top" /\ is'.opened[k]
        BY <1>1, <1>2, <1>3, <1>5 DEF Decoder
    <2>4. PICK from \in Nat : from = 0
        OBVIOUS
    <2>5. played'[k] = [from |-> from, frames |-> <<>>, dropped |-> {}] /\ reader'.next = from + 1
        BY <1>1, <1>3, <2>1, <2>4
    <2>6. ring'[k] = ring[k]
        BY <1>1
    <2>7. QED
        BY <2>2, <2>3, <2>5, <2>6, Begins
<1>6. QED
    BY <1>4, <1>5

LEMMA FlushKeepsOrder ==
  ASSUME Inv, PlayedTypes, ReaderAtWork, NEW j \in Kinds, NEW k \in Kinds, OrderOf(k), SeekFlushes(j)
  PROVE  OrderOf(k)'
<1>1. /\ reader.at = "flush" /\ j \in reader.todo /\ UNCHANGED <<ring, dec, main, api, is>>
      /\ \/ reader' = [reader EXCEPT !.todo = reader.todo \ {j}] /\ reader.todo # {j}
         \/ reader' = [reader EXCEPT !.todo = reader.todo \ {j}, !.at = "sought"] /\ reader.todo = {j}
      /\ q' = [q EXCEPT ![j] = Flushed(q[j])]
      /\ played' = [played EXCEPT ![j] = [from |-> reader.target, frames |-> <<>>, dropped |-> {}]]
    BY DEF SeekFlushes, IsNext, Inv, Types, ReaderTypes
<1>2. /\ q \in [Kinds -> Queue] /\ reader.next = reader.target + 1 /\ is.opened[j]
      /\ reader.target \in Nat
    BY <1>1, KindsAre DEF Inv, Types, QueueTypes, ReaderAtWork, Streams, ReaderTypes
<1>3. /\ reader'.next = reader.next /\ reader'.todo = reader.todo \ {j}
      /\ reader'.at = "flush" \/ reader.todo = {j}
    BY <1>1 DEF Inv, Types, ReaderTypes
<1>4. CASE k # j
    <2>1. q'[k] = q[k] /\ played'[k] = played[k]
        BY <1>1, <1>2, <1>4 DEF PlayedTypes
    <2>2. FlushPending(k) => FlushPending(k)'
        BY <1>3, <1>4 DEF FlushPending
    <2>3. Undisturbed(k)
        BY <1>1, <1>3, <2>1, <2>2 DEF Undisturbed
    <2>4. QED
        BY <2>3, Stays
<1>5. CASE k = j
    <2>1. q'[k].serial = q[k].serial + 1 /\ q'[k].packets = <<>>
        BY <1>1, <1>2, <1>5 DEF Flushed, Queue
    <2>2. dec'[k].at # "none" /\ is'.opened[k]
        BY <1>1, <1>2, <1>5 DEF OrderOf, Unopened
    <2>3. PICK from \in Nat : from = reader.target
        BY <1>2
    <2>4. played'[k] = [from |-> from, frames |-> <<>>, dropped |-> {}] /\ reader'.next = from + 1
        BY <1>1, <1>2, <1>3, <1>5, <2>3 DEF PlayedTypes
    <2>5. ring'[k] = ring[k] /\ dec'[k] = dec[k]
        BY <1>1
    <2>6. QED
        BY <2>1, <2>2, <2>4, <2>5, Begins
<1>6. QED
    BY <1>4, <1>5

(* What the reader does else.                                              *)
LEMMA ReaderKeepsOrder ==
  ASSUME Inv, PlayedTypes, ReaderAtWork, NEW k \in Kinds, OrderOf(k), Reader
  PROVE  OrderOf(k)'
<1>1. ASSUME UNCHANGED <<q, ring, dec, played>>, is'.opened = is.opened,
             reader'.next = reader.next, reader.at # "flush"
      PROVE  OrderOf(k)'
    <2>1. Undisturbed(k)
        BY <1>1 DEF Undisturbed, FlushPending
    <2>2. QED
        BY <2>1, Stays
<1>2. reader = [reader EXCEPT !.at = reader.at] /\ ReaderTypes /\ StateTypes
    BY DEF Inv, Types, ReaderTypes
<1>3. ASSUME NEW j \in Kinds, OpenFails(j) PROVE OrderOf(k)'
    BY <1>1, <1>2, <1>3 DEF OpenFails, ReaderTypes
<1>4. CASE Opened \/ ReadAborts \/ ReadEnds \/ ReadFails
    <2>1. /\ UNCHANGED <<q, ring, dec, played, is>> /\ reader.at # "flush"
          /\ \E at \in {"done", "loop", "ended"} : reader' = [reader EXCEPT !.at = at]
        BY <1>4 DEF Opened, ReadAborts, ReadEnds, ReadFails, Leave, Reading
    <2>2. reader'.next = reader.next
        BY <1>2, <2>1 DEF ReaderTypes
    <2>3. QED
        BY <1>1, <2>1, <2>2
<1>5. CASE SeekBegins
    <2>1. UNCHANGED <<q, ring, dec, played, is>> /\ reader.at = "loop"
          /\ reader' = [reader EXCEPT !.at = "seek", !.target = is.seekPos]
        BY <1>5 DEF SeekBegins
    <2>2. reader'.next = reader.next
        BY <1>2, <2>1 DEF ReaderTypes
    <2>3. QED
        BY <1>1, <2>1, <2>2
<1>6. ASSUME NEW ok \in BOOLEAN, SeekReturns(ok) PROVE OrderOf(k)'
    <2>1. CASE ok
        <3>1. reader'.at = "flush" /\ reader'.todo = Streams
            BY <1>2, <1>6, <2>1 DEF SeekReturns, ReaderTypes
        <3>2. UNCHANGED <<q, ring, dec, played, is>>
            BY <1>6 DEF SeekReturns
        <3>3. is.opened[k] => FlushPending(k)'
            BY <3>1 DEF FlushPending, Streams
        <3>4. Undisturbed(k)
            BY <3>2, <3>3 DEF Undisturbed
        <3>5. QED
            BY <3>4, Stays
    <2>2. CASE ~ok
        <3>1. UNCHANGED <<q, ring, dec, played, is>> /\ reader.at = "seek"
              /\ reader' = [reader EXCEPT !.at = "sought"]
            BY <1>6, <2>2 DEF SeekReturns
        <3>2. reader'.next = reader.next
            BY <1>2, <3>1 DEF ReaderTypes
        <3>3. QED
            BY <1>1, <3>1, <3>2
    <2>3. QED
        BY <2>1, <2>2
<1>7. CASE SeekEnds \/ StepLooks \/ StepToggles \/ StepMarks
    <2>1. /\ UNCHANGED <<q, ring, dec, played>> /\ reader.at # "flush"
          /\ is'.opened = is.opened
        BY <1>2, <1>7 DEF SeekEnds, StepLooks, StepToggles, StepMarks, StateTypes
    <2>2. reader'.next = reader.next
        BY <1>2, <1>7 DEF SeekEnds, StepLooks, StepToggles, StepMarks, ReaderTypes
    <2>3. QED
        BY <1>1, <2>1, <2>2
<1>8. CASE ReadWaits
    <2>1. UNCHANGED <<q, ring, dec, played, is>> /\ reader.at # "flush"
          /\ reader' = [reader EXCEPT !.at = "loop"]
        BY <1>8 DEF ReadWaits, Reading
    <2>2. reader'.next = reader.next
        BY <1>2, <2>1 DEF ReaderTypes
    <2>3. QED
        BY <1>1, <2>1, <2>2
<1>9. QED
    BY <1>3, <1>4, <1>5, <1>6, <1>7, <1>8, OpenKeepsOrder, FlushKeepsOrder, ReadPacketKeepsOrder,
       ReadEofKeepsOrder DEF Reader

LEMMA DecodeKeepsOrder ==
  ASSUME Inv, PlayedTypes, NEW j \in Kinds, NEW k \in Kinds, OrderOf(k), Decode(j)
  PROVE  OrderOf(k)'
<1>1. CASE k = j
    BY <1>1, ReceiveKeepsOrder, GetPacketKeepsOrder, DropKeepsOrder, ReserveKeepsOrder,
       PushKeepsOrder, FilterKeepsOrder DEF Decode
<1>2. CASE k # j
    <2>1. /\ q \in [Kinds -> Queue] /\ dec \in [Kinds -> Decoder] /\ RingTypes /\ Rings
          /\ Types /\ Places
        BY DEF Inv, Types, QueueTypes, DecoderTypes
    <2>2. UNCHANGED <<reader, is>>
        BY DecodeKeeps
    <2>3. dec'[k] = dec[k]
        BY <1>2, <2>1 DEF Decode, Receive, GetPacket, DropEarly, Reserve, Push, FilterFails, Decoders
    <2>4. q'[k] = q[k]
        BY <1>2, <2>1 DEF Decode, Receive, GetPacket, DropEarly, Reserve, Push, FilterFails
    <2>5. played'[k] = played[k]
        BY <1>2 DEF PlayedTypes, Decode, Receive, GetPacket, DropEarly, Reserve, Push, FilterFails
    <2>6. ring'[k] = ring[k]
        <3>1. CASE Reserve(j)
            BY <1>2, <2>1, <3>1, ReserveHolds
        <3>2. CASE Push(j)
            BY <1>2, <2>1, <3>2, PushHolds
        <3>3. CASE ~Reserve(j) /\ ~Push(j)
            BY <3>3 DEF Decode, Receive, GetPacket, DropEarly, FilterFails
        <3>4. QED
            BY <3>1, <3>2, <3>3
    <2>7. QED
        BY <2>2, <2>3, <2>4, <2>5, <2>6, Elsewhere, Stays
<1>3. QED
    BY <1>1, <1>2

(* Who takes frames: the others are left alone.                            *)
LEMMA TakesKeepOrder ==
  ASSUME Inv, PlayedTypes, NEW j \in Kinds, NEW k \in Kinds, OrderOf(k), Takes(j), q' = q,
         UNCHANGED reader, is'.opened = is.opened,
         NEW x, x = At(j, ring[j].shown), played' = Plays(j, x)
  PROVE  OrderOf(k)'
<1>1. CASE k = j
    BY <1>1, TakeKeepsOrder
<1>2. CASE k # j
    <2>1. RingTypes /\ Rings /\ dec \in [Kinds -> Decoder]
        BY DEF Inv, Types, DecoderTypes
    <2>2. ring'[k] = ring[k]
        BY <1>2, <2>1, TakeHolds
    <2>3. dec'[k] = dec[k]
        BY <1>2, <2>1 DEF Takes
    <2>4. played'[k] = played[k]
        BY <1>2 DEF Plays, PlayedTypes
    <2>5. Undisturbed(k)
        BY <2>2, <2>3, <2>4 DEF Undisturbed, FlushPending
    <2>6. QED
        BY <2>5, Stays
<1>3. QED
    BY <1>1, <1>2

LEMMA DeviceKeepsOrder ==
  ASSUME Inv, PlayedTypes, NEW k \in Kinds, OrderOf(k), Device
  PROVE  OrderOf(k)'
<1>1. UNCHANGED <<q, reader, is>>
    BY DeviceKeeps
<1>2. CASE UNCHANGED <<ring, dec, played>>
    BY <1>1, <1>2, Elsewhere, Stays
<1>3. CASE DeviceTakes /\ ~UNCHANGED <<ring, dec, played>>
    <2>1. "audio" \in Kinds
        BY <1>3 DEF DeviceTakes, Inv, Places
    <2>2. ~(q["audio"].abort \/ Remaining("audio") <= 0)
        BY <1>3 DEF DeviceTakes
    <2>3. RingTypes /\ PeekSlot("audio") = SlotOf("audio", ring["audio"].shown)
        BY <2>1, PeekFrame DEF Inv, Types
    <2>4. ring["audio"].shown < ring["audio"].size
        <3>1. ring["audio"].shown \in {0, 1} /\ ring["audio"].size \in Nat
            BY <2>1, <2>3, RingSpan
        <3>2. QED
            BY <2>2, <3>1 DEF Remaining
    <2>5. Takes("audio")
        BY <1>3, <2>2, <2>4 DEF DeviceTakes, Takes
    <2>6. PICK x : x = At("audio", ring["audio"].shown)
        OBVIOUS
    <2>7. played' = Plays("audio", x)
        BY <1>3, <2>2, <2>3, <2>6 DEF DeviceTakes, At
    <2>8. QED
        BY <1>1, <2>1, <2>5, <2>6, <2>7, TakesKeepOrder
<1>4. CASE DevicePlays
    BY <1>2, <1>4 DEF DevicePlays
<1>5. QED
    BY <1>2, <1>3, <1>4 DEF Device

LEMMA MainKeepsOrder ==
  ASSUME Inv, PlayedTypes, ReaderAtWork, NEW k \in Kinds, OrderOf(k), Main
  PROVE  OrderOf(k)'
<1>0. /\ dec \in [Kinds -> Decoder] /\ q \in [Kinds -> Queue] /\ RingTypes /\ StateTypes
      /\ Types /\ Places /\ InUse
    BY DEF Inv, Types, DecoderTypes, QueueTypes
<1>1. ASSUME UNCHANGED <<q, ring, dec, played, reader>>, is'.opened = is.opened PROVE OrderOf(k)'
    <2>1. Undisturbed(k)
        BY <1>1 DEF Undisturbed, FlushPending
    <2>2. QED
        BY <2>1, Stays
<1>2. CASE HandleEvent \/ Refresh \/ ShowLooks \/ Toggle \/ JoinReader
    <2>1. UNCHANGED <<q, ring, dec, played, reader>>
        BY <1>2 DEF HandleEvent, Refresh, ShowLooks, Toggle, JoinReader
    <2>2. is'.opened = is.opened
        BY <1>0, <1>2 DEF HandleEvent, Refresh, ShowLooks, Toggle, JoinReader, StateTypes
    <2>3. QED
        BY <1>1, <2>1, <2>2
<1>3. ASSUME NEW at \in {"refresh", "events"}, DropStale(at) PROVE OrderOf(k)'
    <2>1. "video" \in Kinds /\ Takes("video")
        BY <1>0, <1>3, TakersAre
    <2>2. PeekSlot("video") = SlotOf("video", ring["video"].shown)
        BY <1>0, <2>1, PeekFrame
    <2>3. PICK x : x = At("video", ring["video"].shown)
        OBVIOUS
    <2>4. UNCHANGED <<q, reader, is>> /\ played' = Plays("video", x)
        BY <1>3, <2>2, <2>3 DEF DropStale, Plays, At
    <2>5. QED
        BY <2>1, <2>3, <2>4, TakesKeepOrder
<1>4. ASSUME NEW late \in BOOLEAN, Show(late) PROVE OrderOf(k)'
    <2>1. "video" \in Kinds /\ Takes("video")
        BY <1>0, <1>4, TakersAre
    <2>2. PICK x : x = main.frame
        OBVIOUS
    <2>3. x = At("video", ring["video"].shown)
        BY <1>0, <1>4, <2>2 DEF InUse, Show, At
    <2>4. UNCHANGED <<q, reader>> /\ played' = Plays("video", x) /\ is'.opened = is.opened
        BY <1>0, <1>4, <2>2 DEF Show, StateTypes
    <2>5. QED
        BY <2>1, <2>3, <2>4, TakesKeepOrder
<1>5. ASSUME NEW j \in Kinds, AbortQueue(j) \/ SignalRing(j) PROVE OrderOf(k)'
    <2>1. UNCHANGED <<ring, reader, is, played>>
        BY <1>5 DEF AbortQueue, SignalRing
    <2>2. q'[k].packets = q[k].packets /\ q'[k].serial = q[k].serial
        <3>1. q'[k] = q[k] \/ q'[k] = [q[k] EXCEPT !.abort = TRUE]
            BY <1>0, <1>5 DEF AbortQueue, SignalRing
        <3>2. QED
            BY <1>0, <3>1 DEF Queue
    <2>3. \/ dec'[k] = dec[k] \/ dec'[k] = Woken(dec[k])
          \/ dec[k].at = "full" /\ dec'[k] = [dec[k] EXCEPT !.at = "frame"]
        BY <1>0, <1>5 DEF AbortQueue, SignalRing
    <2>4. /\ dec'[k].serial = dec[k].serial /\ dec'[k].codec = dec[k].codec
          /\ dec'[k].draining = dec[k].draining /\ dec'[k].finished = dec[k].finished
          /\ dec'[k].frame = dec[k].frame
          /\ \/ dec'[k].at = dec[k].at \/ (dec[k].at = "asleep" /\ dec'[k].at = "get")
             \/ (dec[k].at = "full" /\ dec'[k].at = "frame")
        BY <1>0, <2>3 DEF Woken, Decoder
    <2>5. Undisturbed(k)
        BY <2>1, <2>2, <2>4 DEF Undisturbed, Holding, FlushPending
    <2>6. QED
        BY <2>5, Stays
<1>6. ASSUME NEW j \in Kinds, JoinDecoder(j) PROVE OrderOf(k)'
    <2>1. CASE k = j
        BY <1>6, <2>1, JoinKeepsOrder
    <2>2. CASE k # j
        <3>1. UNCHANGED <<ring, dec, reader, is, played>> /\ q'[k] = q[k]
            BY <1>0, <1>6, <2>2 DEF JoinDecoder
        <3>2. QED
            BY <3>1, Elsewhere, Stays
    <2>3. QED
        BY <2>1, <2>2
<1>7. QED
    BY <1>2, <1>3, <1>4, <1>5, <1>6 DEF Main

-----------------------------------------------------------------------------
(* What was played, who closes, and the reader.                            *)

LEMMA PlayedMoves ==
  ASSUME Inv, PlayedTypes, \A k \in Kinds : OrderOf(k), [Next]_vars
  PROVE  \/ UNCHANGED played
         \/ \E k \in Kinds : SeekFlushes(k)
         \/ \E k \in Kinds, z \in Positions :
              \/ played' = [played EXCEPT ![k].frames = Append(@, z)]
              \/ played' = [played EXCEPT ![k].dropped = @ \cup {z}]
<1> DEFINE Goal ==
         \/ UNCHANGED played
         \/ \E k \in Kinds : SeekFlushes(k)
         \/ \E k \in Kinds, z \in Positions :
              \/ played' = [played EXCEPT ![k].frames = Append(@, z)]
              \/ played' = [played EXCEPT ![k].dropped = @ \cup {z}]
<1>0. Types /\ Places /\ InUse /\ RingTypes
    BY DEF Inv, Types
<1>1. ASSUME NEW k \in Kinds, ring[k].shown < ring[k].size,
             NEW x, x = At(k, ring[k].shown), played' = Plays(k, x)
      PROVE  Goal
    <2>1. CASE x.serial = q[k].serial
        <3>1. ring[k].shown \in Unplayed(k)
            BY <1>0, <1>1, RingSpan DEF Unplayed
        <3>2. x.pos \in Ringed(k)
            BY <1>1, <2>1, <3>1 DEF Ringed, Waiting
        <3>3. x.pos \in Positions
            BY <3>2, DueAre DEF OrderOf, Line, Lined
        <3>4. QED
            BY <1>1, <2>1, <3>3 DEF Plays
    <2>2. CASE x.serial # q[k].serial
        BY <1>1, <2>2 DEF Plays
    <2>3. QED
        BY <2>1, <2>2
<1>2. CASE DeviceTakes
    <2>1. CASE q["audio"].abort \/ Remaining("audio") <= 0
        BY <1>2, <2>1 DEF DeviceTakes
    <2>2. CASE ~(q["audio"].abort \/ Remaining("audio") <= 0)
        <3>1. "audio" \in Kinds
            BY <1>0, <1>2 DEF DeviceTakes, Places
        <3>2. PeekSlot("audio") = SlotOf("audio", ring["audio"].shown)
            BY <1>0, <3>1, PeekFrame
        <3>3. ring["audio"].shown < ring["audio"].size
            BY <1>0, <2>2, <3>1, RingSpan DEF Remaining
        <3>4. PICK x : x = At("audio", ring["audio"].shown)
            OBVIOUS
        <3>5. played' = Plays("audio", x)
            BY <1>2, <2>2, <3>2, <3>4 DEF DeviceTakes, At
        <3>6. QED
            BY <1>1, <3>1, <3>3, <3>4, <3>5
    <2>3. QED
        BY <2>1, <2>2
<1>3. ASSUME NEW late \in BOOLEAN, Show(late) PROVE Goal
    <2>1. "video" \in Kinds /\ ring["video"].shown < ring["video"].size
        BY <1>0, <1>3, TakersAre DEF Takes
    <2>2. PICK x : x = main.frame
        OBVIOUS
    <2>3. x = At("video", ring["video"].shown) /\ played' = Plays("video", x)
        BY <1>0, <1>3, <2>2 DEF InUse, Show, At
    <2>4. QED
        BY <1>1, <2>1, <2>3
<1>4. ASSUME NEW k \in Kinds, Decode(k) PROVE Goal
    <2>1. CASE DropEarly(k)
        <3>1. dec[k].frame \in Positions
            BY <1>0, <2>1 DEF DropEarly, Places, Sound
        <3>2. UNCHANGED played \/ played' = [played EXCEPT ![k].dropped = @ \cup {dec[k].frame}]
            BY <2>1 DEF DropEarly
        <3>3. QED
            BY <3>1, <3>2
    <2>2. CASE ~DropEarly(k)
        BY <1>4, <2>2 DEF Decode, Receive, GetPacket, Reserve, Push, FilterFails
    <2>3. QED
        BY <2>1, <2>2
<1>5. CASE Reader
    BY <1>5 DEF Reader, OpenStream, OpenFails, Opened, ReadAborts, SeekBegins, SeekReturns,
                SeekEnds, StepLooks, StepToggles, StepMarks, ReadWaits, ReadEnds, ReadFails,
                ReadPacket, ReadEof, Leave
<1>6. CASE Main
    <2>1. UNCHANGED played \/ \E late \in BOOLEAN : Show(late)
        BY <1>6 DEF Main, HandleEvent, DropStale, Refresh, ShowLooks, Toggle, JoinReader,
                    AbortQueue, SignalRing, JoinDecoder
    <2>2. QED
        BY <1>3, <2>1
<1>7. CASE DevicePlays \/ Call \/ Finished \/ UNCHANGED vars
    BY <1>7 DEF DevicePlays, Call, Finished, vars
<1>8. QED
    BY <1>2, <1>4, <1>5, <1>6, <1>7 DEF Next, Device

LEMMA StepPlayedTypes ==
  ASSUME Inv, PlayedTypes, \A k \in Kinds : OrderOf(k), [Next]_vars
  PROVE  PlayedTypes'
<1>1. CASE UNCHANGED played
    BY <1>1 DEF PlayedTypes
<1>2. ASSUME NEW k \in Kinds, SeekFlushes(k) PROVE PlayedTypes'
    <2>1. played' = [played EXCEPT ![k] = [from |-> reader.target, frames |-> <<>>, dropped |-> {}]]
        BY <1>2 DEF SeekFlushes
    <2>2. reader.target \in 0 .. Len(Media) /\ <<>> \in Seq(Positions)
        BY DEF Inv, Types, ReaderTypes
    <2>3. PICK none : none = <<>>
        OBVIOUS
    <2>4. QED
        BY <2>1, <2>2, <2>3 DEF PlayedTypes
<1>3. ASSUME NEW k \in Kinds, NEW z \in Positions,
             played' = [played EXCEPT ![k].frames = Append(@, z)]
      PROVE  PlayedTypes'
    <2>1. played[k].frames \in Seq(Positions)
        BY DEF PlayedTypes
    <2>2. PICK g \in Seq(Positions) : g = played[k].frames
        BY <2>1
    <2>3. Append(g, z) \in Seq(Positions)
        OBVIOUS
    <2>4. PICK f \in Seq(Positions) : f = Append(g, z)
        BY <2>3, Zenon
    <2>5. played' = [played EXCEPT ![k].frames = f]
        BY <1>3, <2>2, <2>4 DEF PlayedTypes
    <2>6. QED
        BY <2>5 DEF PlayedTypes
<1>4. ASSUME NEW k \in Kinds, NEW z \in Positions,
             played' = [played EXCEPT ![k].dropped = @ \cup {z}]
      PROVE  PlayedTypes'
    BY <1>4 DEF PlayedTypes
<1>5. QED
    BY <1>1, <1>2, <1>3, <1>4, PlayedMoves

LEMMA OpenedMoves ==
  ASSUME Inv, [Next]_vars
  PROVE  is'.opened = is.opened \/ \E k \in Kinds : OpenStream(k)
<1>0. StateTypes
    BY DEF Inv, Types
<1>1. CASE Reader
    BY <1>0, <1>1 DEF Reader, OpenFails, Opened, ReadAborts, SeekBegins, SeekReturns, SeekFlushes,
                SeekEnds, StepLooks, StepToggles, StepMarks, ReadWaits, ReadEnds, ReadFails,
                ReadPacket, ReadEof, Leave, StateTypes
<1>2. CASE Main
    BY <1>0, <1>2 DEF Main, HandleEvent, DropStale, Refresh, Show, ShowLooks, Toggle, JoinReader,
                AbortQueue, SignalRing, JoinDecoder, StateTypes
<1>3. QED
    BY <1>1, <1>2, DecodeKeeps, DeviceKeeps DEF Next, Call, Finished, vars

LEMMA ReaderRests ==
  ASSUME [Next]_vars, reader.at \in {"done", "ended"}
  PROVE  UNCHANGED <<reader>> /\ ~Reader
<1>1. ~Reader
    BY DEF Reader, OpenStream, OpenFails, Opened, ReadAborts, SeekBegins, SeekReturns, SeekFlushes,
           SeekEnds, StepLooks, StepToggles, StepMarks, ReadWaits, ReadEnds, ReadFails,
           ReadPacket, ReadEof, Reading
<1>2. QED
    BY <1>1, DecodeKeeps, DeviceKeeps, MainKeeps DEF Next, Call, Finished, vars

LEMMA StepReaderAtWork ==
  ASSUME Inv, ReaderAtWork, [Next]_vars
  PROVE  ReaderAtWork'
<1>0. /\ ReaderTypes /\ StateTypes /\ MainTypes /\ DecoderTypes /\ QueueTypes /\ Types
    BY DEF Inv, Types
<1>1. Streams \subseteq Streams'
    <2>1. CASE is'.opened = is.opened
        BY <2>1 DEF Streams
    <2>2. ASSUME NEW j \in Kinds, OpenStream(j) PROVE Streams \subseteq Streams'
        BY <1>0, <2>2 DEF OpenStream, StateTypes, Streams
    <2>3. QED
        BY <2>1, <2>2, OpenedMoves
<1>2. ASSUME NEW j \in Kinds, OpenStream(j)
      PROVE  /\ \A k \in Kinds : is'.opened[k] <=> is.opened[k] \/ k = j
             /\ reader.at = "open" /\ reader'.at = "open" /\ reader'.next = reader.next
             /\ reader'.todo = reader.todo \ {j} /\ ~q'[j].abort
    BY <1>0, <1>2 DEF OpenStream, StateTypes, ReaderTypes, QueueTypes, Queue, Started
<1>3. reader'.at = "open" =>
        reader'.next = 1 /\ \A k \in Kinds : is'.opened[k] => k \notin reader'.todo
    <2>1. SUFFICES ASSUME reader'.at = "open"
                   PROVE  reader'.next = 1 /\ \A k \in Kinds : is'.opened[k] => k \notin reader'.todo
        OBVIOUS
    <2>2. \/ UNCHANGED reader
          \/ \E j \in Kinds : OpenStream(j) \/ OpenFails(j)
        BY <1>0, <2>1, ReaderKeeps, DecodeKeeps, DeviceKeeps, MainKeeps
        DEF Next, Call, Finished, vars, Reader, Opened, ReadAborts, SeekBegins, SeekReturns,
            SeekFlushes, SeekEnds, StepLooks, StepToggles, StepMarks, ReadWaits, ReadEnds, ReadFails,
            ReadPacket, ReadEof, Leave, ReaderTypes
    <2>3. ASSUME NEW j \in Kinds, OpenStream(j)
          PROVE  reader'.next = 1 /\ \A k \in Kinds : is'.opened[k] => k \notin reader'.todo
        BY <1>2, <2>3 DEF ReaderAtWork
    <2>4. ASSUME NEW j \in Kinds, OpenFails(j)
          PROVE  reader'.next = 1 /\ \A k \in Kinds : is'.opened[k] => k \notin reader'.todo
        BY <1>0, <2>4 DEF ReaderAtWork, OpenFails, ReaderTypes
    <2>5. CASE UNCHANGED reader /\ ~\E j \in Kinds : OpenStream(j)
        BY <2>1, <2>5, OpenedMoves DEF ReaderAtWork
    <2>6. QED
        BY <2>2, <2>3, <2>4, <2>5
<1>4. reader'.at = "flush" => reader'.next = reader'.target + 1 /\ reader'.todo \subseteq Streams'
    <2>1. SUFFICES ASSUME reader'.at = "flush"
                   PROVE  reader'.next = reader'.target + 1 /\ reader'.todo \subseteq Streams'
        OBVIOUS
    <2>2. \/ UNCHANGED reader
          \/ \E j \in Kinds : SeekFlushes(j)
          \/ \E ok \in BOOLEAN : SeekReturns(ok)
        <3>1. ASSUME NEW j \in Kinds, OpenStream(j) \/ OpenFails(j) PROVE FALSE
            BY <1>0, <2>1, <3>1 DEF OpenStream, OpenFails, ReaderTypes
        <3>2. ASSUME \/ Opened \/ ReadAborts \/ SeekBegins \/ SeekEnds \/ StepLooks \/ StepToggles
                     \/ StepMarks \/ ReadWaits \/ ReadEnds \/ ReadFails \/ ReadPacket \/ ReadEof
              PROVE  FALSE
            BY <1>0, <2>1, <3>2 DEF Opened, ReadAborts, SeekBegins, SeekEnds, StepLooks,
               StepToggles, StepMarks, ReadWaits, ReadEnds, ReadFails, ReadPacket, ReadEof, Leave,
               ReaderTypes
        <3>3. QED
            BY <3>1, <3>2, DecodeKeeps, DeviceKeeps, MainKeeps DEF Next, Call, Finished, vars, Reader
    <2>3. ASSUME NEW j \in Kinds, SeekFlushes(j)
          PROVE  reader'.next = reader'.target + 1 /\ reader'.todo \subseteq Streams'
        BY <1>0, <1>1, <2>3 DEF ReaderAtWork, SeekFlushes, ReaderTypes
    <2>4. ASSUME NEW ok \in BOOLEAN, SeekReturns(ok)
          PROVE  reader'.next = reader'.target + 1 /\ reader'.todo \subseteq Streams'
        <3>1. ok
            BY <1>0, <2>1, <2>4 DEF SeekReturns, ReaderTypes
        <3>2. QED
            BY <1>0, <1>1, <2>4, <3>1 DEF SeekReturns, ReaderTypes
    <2>5. CASE UNCHANGED reader
        BY <1>1, <2>1, <2>5 DEF ReaderAtWork
    <2>6. QED
        BY <2>2, <2>3, <2>4, <2>5
<1>5. /\ main'.at \in {"abort", "signal", "decoder"} => reader'.at \in {"done", "ended"}
      /\ main'.closing \subseteq Streams'
    <2>1. CASE UNCHANGED main
        BY <1>1, <2>1, ReaderRests DEF ReaderAtWork
    <2>2. CASE JoinReader
        BY <1>0, <1>1, <2>2 DEF JoinReader, MainTypes
    <2>3. ASSUME NEW j \in Kinds, AbortQueue(j) \/ SignalRing(j) \/ JoinDecoder(j)
          PROVE  /\ reader'.at \in {"done", "ended"}
                 /\ main'.closing \subseteq Streams'
        <3>1. /\ main.at \in {"abort", "signal", "decoder"} /\ UNCHANGED reader
              /\ main'.closing \subseteq main.closing
            BY <1>0, <2>3 DEF AbortQueue, SignalRing, JoinDecoder, MainTypes
        <3>2. QED
            BY <1>1, <3>1 DEF ReaderAtWork
    <2>4. ASSUME \/ HandleEvent \/ (\E at \in {"refresh", "events"} : DropStale(at)) \/ Refresh
                 \/ (\E late \in BOOLEAN : Show(late)) \/ ShowLooks \/ Toggle
          PROVE  main'.at \notin {"abort", "signal", "decoder"} /\ main'.closing = main.closing
        BY <1>0, <2>4 DEF HandleEvent, DropStale, Refresh, Show, ShowLooks, Toggle, MainTypes
    <2>5. QED
        BY <1>1, <2>1, <2>2, <2>3, <2>4, ReaderKeeps, DecodeKeeps, DeviceKeeps
        DEF Next, Call, Finished, vars, Main, ReaderAtWork
<1>6. ASSUME NEW k \in Kinds, is'.opened[k], q'[k].abort PROVE reader'.at \in {"done", "ended"}
    <2>1. CASE AbortQueue(k)
        BY <2>1 DEF AbortQueue, ReaderAtWork
    <2>2. CASE ~AbortQueue(k)
        <3>1. q[k].abort
            BY <1>0, <1>6, <2>2, AbortAt
        <3>2. is.opened[k]
            <4>1. ASSUME NEW j \in Kinds, OpenStream(j), j # k PROVE is.opened[k]
                BY <1>2, <1>6, <4>1
            <4>2. ~OpenStream(k)
                BY <1>2, <1>6
            <4>3. QED
                BY <1>6, <4>1, <4>2, OpenedMoves
        <3>3. QED
            BY <3>1, <3>2, ReaderRests DEF ReaderAtWork
    <2>3. QED
        BY <2>1, <2>2
<1>7. QED
    BY <1>3, <1>4, <1>5, <1>6 DEF ReaderAtWork

LEMMA MembersAre ==
  ASSUME NEW s \in Seq(Positions)
  PROVE  Members(s) = Range(s)
BY DEF Members, Range

(* The player quits of itself when the last frame was played; after that   *)
(* the reader does nothing any more.                                       *)
LEMMA EndsPlayed ==
  ASSUME Inv, PlayedTypes, NEW k \in Streams, OrderOf(k), AllPlayed,
         NEW i \in Positions, Media[i] = k, i > played[k].from
  PROVE  i \in Range(played[k].frames) \cup played[k].dropped
<1>1. k \in Kinds /\ is.opened[k] /\ dec[k].finished = q[k].serial /\ Remaining(k) = 0
    BY DEF Streams, AllPlayed
<1>2. Ringed(k) = {}
    <2>1. ring[k].shown \in {0, 1} /\ ring[k].size \in Int
        BY <1>1, RingSpan DEF Inv, Types
    <2>2. Unplayed(k) = {}
        BY <1>1, <2>1 DEF Unplayed, Remaining
    <2>3. QED
        BY <2>2 DEF Ringed, Waiting
<1>3. Due(k) \subseteq Members(played[k].frames)
    BY <1>1, <1>2 DEF OrderOf, Decoded, Shown
<1>4. Members(played[k].frames) = Range(played[k].frames)
    BY <1>1, MembersAre DEF PlayedTypes
<1>5. i \in Due(k) \/ i \in played[k].dropped
    BY DEF Due
<1>6. QED
    BY <1>3, <1>4, <1>5

LEMMA StepQuit ==
  ASSUME Inv, Order, [Next]_vars
  PROVE  QuitMeansPlayed'
<1>0. PlayedTypes /\ PlayedTypes' /\ Types
    BY StepPlayedTypes DEF Order, Inv
<1>1. SUFFICES ASSUME reader'.at = "ended", NEW k \in Streams', NEW i \in Positions, Media[i] = k,
                      i > played'[k].from
               PROVE  i \in Range(played'[k].frames) \cup played'[k].dropped
    BY DEF QuitMeansPlayed
<1>2. CASE reader.at = "ended"
    <2>1. ~Reader
        BY <1>2, ReaderRests
    <2>2. k \in Streams /\ k \in Kinds
        <3>1. is'.opened = is.opened
            BY <2>1, OpenedMoves DEF Reader
        <3>2. QED
            BY <3>1 DEF Streams
    <2>3. UNCHANGED played \/ \E j \in Kinds, z \in Positions :
                                 \/ played' = [played EXCEPT ![j].frames = Append(@, z)]
                                 \/ played' = [played EXCEPT ![j].dropped = @ \cup {z}]
        BY <2>1, PlayedMoves DEF Order, Reader
    <2>4. /\ played'[k].from = played[k].from /\ played[k].dropped \subseteq played'[k].dropped
          /\ \/ played'[k].frames = played[k].frames
             \/ \E z \in Positions : played'[k].frames = Append(played[k].frames, z)
        <3>1. played \in [Kinds -> [from : 0 .. Len(Media), frames : Seq(Positions),
                                    dropped : SUBSET Positions]]
            BY <1>0 DEF PlayedTypes
        <3>2. ASSUME NEW j \in Kinds, NEW z \in Positions,
                     played' = [played EXCEPT ![j].frames = Append(@, z)]
              PROVE  /\ played'[k].from = played[k].from /\ played'[k].dropped = played[k].dropped
                     /\ \/ played'[k].frames = played[k].frames
                        \/ played'[k].frames = Append(played[k].frames, z)
            BY <2>2, <3>1, <3>2
        <3>3. ASSUME NEW j \in Kinds, NEW z \in Positions,
                     played' = [played EXCEPT ![j].dropped = @ \cup {z}]
              PROVE  /\ played'[k].from = played[k].from
                     /\ played[k].dropped \subseteq played'[k].dropped
                     /\ played'[k].frames = played[k].frames
            BY <2>2, <3>1, <3>3
        <3>4. CASE UNCHANGED played
            BY <3>4
        <3>5. QED
            BY <2>3, <3>2, <3>3, <3>4
    <2>5. played[k].frames \in Seq(Positions) /\ played'[k].frames \in Seq(Positions)
        BY <1>0, <2>2 DEF PlayedTypes
    <2>6. Members(played[k].frames) \subseteq Members(played'[k].frames)
        <3>1. ASSUME NEW z \in Positions, played'[k].frames = Append(played[k].frames, z)
              PROVE  Members(played[k].frames) \subseteq Members(played'[k].frames)
            <4>1. Members(Append(played[k].frames, z)) = Members(played[k].frames) \cup {z}
                BY <2>5, IntegerSequences, GrowsAtTheEnd DEF Positions
            <4>2. QED
                BY <3>1, <4>1
        <3>2. QED
            BY <2>4, <3>1
    <2>7. i \in Range(played[k].frames) \cup played[k].dropped
        BY <1>1, <1>2, <2>2, <2>4 DEF Order, QuitMeansPlayed
    <2>8. QED
        BY <2>4, <2>5, <2>6, <2>7, MembersAre
<1>3. CASE reader.at # "ended"
    <2>1. ReadEnds
        BY <1>0, <1>1, <1>3, DecodeKeeps, DeviceKeeps, MainKeeps
        DEF Next, Call, Finished, vars, Reader, OpenStream, OpenFails, Opened, ReadAborts, SeekBegins,
            SeekReturns, SeekFlushes, SeekEnds, StepLooks, StepToggles, StepMarks, ReadWaits,
            ReadFails, ReadPacket, ReadEof, Leave, Types, ReaderTypes
    <2>2. AllPlayed /\ UNCHANGED <<is, played>>
        BY <2>1 DEF ReadEnds, Leave
    <2>3. k \in Streams
        BY <1>1, <2>2 DEF Streams
    <2>4. OrderOf(k)
        BY <2>3 DEF Order, Streams
    <2>5. QED
        BY <1>0, <1>1, <2>2, <2>3, <2>4, EndsPlayed
<1>4. QED
    BY <1>2, <1>3

-----------------------------------------------------------------------------
LEMMA InitOrder == Init => Order
<1> SUFFICES ASSUME Init PROVE Order
    OBVIOUS
<1>1. /\ reader.at = "open" /\ reader.next = 1 /\ reader.todo = Kinds /\ main.at = "events"
      /\ main.closing = {} /\ \A k \in Kinds : ~is.opened[k]
    BY DEF Init
<1>2. PlayedTypes
    <2>1. PICK none : none = <<>>
        OBVIOUS
    <2>2. played = [k \in Kinds |-> [from |-> 0, frames |-> none, dropped |-> {}]]
        BY <2>1 DEF Init
    <2>3. QED
        BY <2>1, <2>2, KindsAre DEF PlayedTypes
<1>3. ReaderAtWork /\ QuitMeansPlayed
    BY <1>1 DEF ReaderAtWork, QuitMeansPlayed
<1>4. ASSUME NEW k \in Kinds PROVE OrderOf(k)
    <2>1. /\ q[k].packets = <<>> /\ q[k].serial = 0
          /\ ring[k].size = 0 /\ ring[k].shown = 0
          /\ dec[k].at = "none" /\ dec[k].serial = -1 /\ dec[k].finished = 0
          /\ played[k] = [from |-> 0, frames |-> <<>>, dropped |-> {}]
        BY DEF Init
    <2>2. ~is.opened[k]
        BY <1>1
    <2>3. Len(q[k].packets) = 0 /\ Len(played[k].frames) = 0
        BY <2>1
    <2>4. Unplayed(k) = {}
        BY <2>1 DEF Unplayed
    <2>5. Ringed(k) = {} /\ RingInLine(k)
        BY <2>4 DEF Ringed, Waiting, RingInLine
    <2>6. ~Fresh(k) /\ Shown(k) = {} /\ Queued(k) = {}
        BY <2>1, <2>3 DEF Fresh, Shown, Members, Queued, QueueOf
    <2>7. Held(k) = {} /\ Coded(k) = {}
        BY <2>6 DEF Held, Coded
    <2>8. Line(k)
        BY <2>5, <2>6, <2>7 DEF Line, Lined, Under
    <2>9. Sorted(k)
        BY <2>3, <2>5, <2>6 DEF Sorted, Increasing, InLine
    <2>10. Serials(k)
        BY <2>1, <2>2, <2>3 DEF Serials
    <2>11. Unopened(k)
        BY <2>1, <2>2, <2>5 DEF Unopened
    <2>12. QED
        BY <2>2, <2>8, <2>9, <2>10, <2>11 DEF OrderOf, Reach, Drains, Decoded
<1>5. QED
    BY <1>2, <1>3, <1>4 DEF Order

LEMMA StepOrder == Inv /\ Order /\ [Next]_vars => Order'
<1> SUFFICES ASSUME Inv, Order, [Next]_vars PROVE Order'
    OBVIOUS
<1>1. PlayedTypes' /\ ReaderAtWork' /\ QuitMeansPlayed'
    BY StepPlayedTypes, StepReaderAtWork, StepQuit DEF Order
<1>2. ASSUME NEW k \in Kinds PROVE OrderOf(k)'
    <2>1. OrderOf(k) /\ PlayedTypes /\ ReaderAtWork
        BY DEF Order
    <2>2. CASE UNCHANGED <<q, ring, dec, reader, is, played>>
        BY <2>1, <2>2, Elsewhere, Stays
    <2>3. CASE Reader
        BY <2>1, <2>3, ReaderKeepsOrder
    <2>4. CASE \E j \in Kinds : Decode(j)
        BY <2>1, <2>4, DecodeKeepsOrder
    <2>5. CASE Device
        BY <2>1, <2>5, DeviceKeepsOrder
    <2>6. CASE Main
        BY <2>1, <2>6, MainKeepsOrder
    <2>7. QED
        BY <2>2, <2>3, <2>4, <2>5, <2>6 DEF Next, Call, Finished, vars
<1>3. QED
    BY <1>1, <1>2 DEF Order

LEMMA OrderHolds == Spec => []Order
<1>1. Inv /\ Order /\ [Next]_vars => (Inv /\ Order)'
    BY StepInv, StepOrder
<1>2. QED
    BY InitInv, InitOrder, <1>1, PTL DEF Spec

(* PlayedInOrder: from the position of the last seek on, the frames of a   *)
(* stream are played in the order of the file, none twice, and none is left*)
(* out but those dropped for being late: for every file, every size of the *)
(* rings and delay of the codecs, and every sequence of calls.             *)
THEOREM InOrder == Spec => []PlayedInOrder
<1>1. Order => PlayedInOrder
    <2> SUFFICES ASSUME Order, NEW k \in Kinds, NEW f, f = played[k].frames
                 PROVE  /\ \A i, j \in 1 .. Len(f) : i < j => f[i] < f[j]
                        /\ \A i \in 1 .. Len(f) : f[i] \in Due(k)
                        /\ \A p \in Due(k), i \in 1 .. Len(f) :
                             p < f[i] => \E j \in 1 .. Len(f) : f[j] = p
        BY DEF PlayedInOrder
    <2>1. OrderOf(k)
        BY DEF Order
    <2>2. Lined(Due(k), Shown(k), {}, {}, {}, {})
        BY <2>1, DueAre, LineEnds DEF OrderOf, Line
    <2>3. Increasing(f) /\ \A i \in 1 .. Len(f) : f[i] \in Shown(k)
        BY <2>1 DEF OrderOf, Sorted, Shown, Members
    <2>4. ASSUME NEW p \in Due(k), NEW i \in 1 .. Len(f), p < f[i]
          PROVE  \E j \in 1 .. Len(f) : f[j] = p
        <3>1. p \in Shown(k)
            BY <2>2, <2>3, <2>4 DEF Lined
        <3>2. QED
            BY <3>1 DEF Shown, Members
    <2>5. QED
        BY <2>2, <2>3, <2>4 DEF Lined, Increasing
<1>2. QED
    BY <1>1, OrderHolds, PTL

(* QuitMeansPlayed: with -autoexit the player quits at the end of the file *)
(* only after the last frame of every stream was played or dropped,        *)
(* whatever was sought and wherever the decoders are.                      *)
THEOREM QuitPlayed == Spec => []QuitMeansPlayed
BY OrderHolds, PTL DEF Order

=============================================================================
