# FFmpegKit, specified in TLA+

FFmpegKit (`src/FFmpegKit`) turns the programs `ffmpeg`, `ffprobe` and `ffplay`
into a library: an application creates *sessions*, runs them on its own threads
or on detached ones, several at a time, reads their log and statistics while
they run, and cancels them. The programs were written to own a process; here
they share one. The specifications in this directory are about what that
sharing can break: the threads that hand packets to one another inside a
transcode and the scheduler that holds some of them back, the messages on their
way out of a run, requests to cancel that meet a run at the wrong moment, the
list of sessions everyone uses, the one screen all players want and the player
behind it, and, in the browser, the memory that all downloads share.

- [The system](#the-system): components, state, interaction, what is hard
- [Modules](#modules): how each one corresponds to the code
- [Runs](#runs): what TLC checks, with which bounds and fairness
- [Theorems](#theorems): what TLAPS proves, from what, and how
- [What the code does otherwise](#what-the-code-does-otherwise)
- [Not modelled, and the plan](#not-modelled-and-the-plan)

Parse with `tlasany M.tla`, check with `tlc -config MCx.cfg MCx`, prove with
`tlapm xProofs.tla`. `PROJECT.json` has, for each definition, the lines it
models, and for each property a mutated definition that breaks it.

## The system

All paths are below `src/FFmpegKit/src`.

| Component | Files | State | Operations | Module |
|---|---|---|---|---|
| Thread queue | `thread_queue.c` | fifo, `finished[]` per stream, `choked`; one mutex, one condition variable | `tq_send`, `tq_receive`, `tq_send_finish`, `tq_receive_finish`, `tq_choke` | `ThreadQueue` |
| Message transit | `FFmpegKitConfig.cpp` | callback data list, counters of messages in transit, the log list of each session, a drain condition | `logCallbackDataAdd`, `callbackThreadFunction`, `waitForSessionMessagesInTransmit`, `resetMessagesInTransmit`, `getAllLogs` | `MessageTransit` |
| Cancellation | `FFmpegKit.cpp`, `FFmpegSession.cpp`, `FFprobeSession.cpp`, `FFmpegKitConfig.cpp`, `ffmpeg_lib.c`, `ffmpeg.c` | `sessionMap`, the request flag and context of a session, the context's cancelled flag and scheduler, `received_nb_signals` | `cancel`, `cancel(id)`, `requestCancel`, `registerSessionId`, `setContext`, `ffmpeg_set_scheduler`, `detachContext` | `Cancellation` |
| Session history | `FFmpegKitConfig.cpp`, `AbstractSession.cpp` | list and map of sessions, their states, the size | create, run, complete, fail, `setSessionHistorySize`, `deleteExpiredSessions`, `clearSessions`, getters | `SessionHistory` |
| FFplay hand-off | `FFmpegKitConfig.cpp`, `FFplaySession.cpp`, `ffplay_lib.c` | `activeFFplaySessionId`, `active_ffplay_ctx`, the SDL event queue | `ffplayExecute`, `ffplay_init`, `ffplay_step`, `ffplay_free`, `close` | `FFplayHandoff` |
| Scheduler | `ffmpeg_sched.c`, the thread functions of `ffmpeg_demux.c`, `ffmpeg_dec.c`, `ffmpeg_filter.c`, `ffmpeg_enc.c`, `ffmpeg_mux.c` | waiters of demuxers and filters, trailing dts, pre-mux queues, `mux_started`, `terminate`, the tasks | `sch_start`, `schedule_update_locked`, `send_to_mux`, `mux_task_start`, `sch_request_stop`, `sch_stop` | `Scheduler` |
| Player | `ffplay.c`, `ffplay_lib.c` | packet queues with serials, decoders, frame rings, pause, step and seek request, the events | `read_thread`, `decoder_decode_frame`, `frame_queue_*`, `sdl_audio_callback`, `ffplay_step`, `video_refresh`, `stream_close` | `Player` |
| Wasm HTTP input | `ffmpegkit_wasm_http_io.c` | requests and their references, fetches, the budget of a session id | install, open, `load_range`, `fetch_range`, the fetch callbacks, close | `HttpFetch` |
| Redirection, timed join | `FFmpegKitConfig.cpp` | `redirectionEnabled`, the callback thread, the log callback, the arguments a join shares with its helper | `enableRedirection`, `disableRedirection`, `pthread_timedjoin_np`, `waiter_routine` | `Redirection` |
| Sync queue | `sync_queue.c` | per-stream fifos, head timestamp | `sq_send`, `sq_receive` | planned |
| Asynchronous execution | `FFmpegKit.cpp` and its siblings | one detached thread per session | `executeAsync` | planned |
| Argument parser | `ffmpegkit_arg_parser.h` | none | splits a command | planned |
| Wasm dispatcher | `WasmCallbackDispatcher.cpp` | events sent to the main thread | dispatch, one retry | planned |

The other parts (options, codecs, filters, probing, rendering, text formats,
JSON, the C wrapper, the build scripts) are listed in `PROJECT.json` with the
reason they are left aside: they are sequential or I/O.

**How they interact.** A session is created into the history and executed on
some thread. Execution takes a word of `sessionMap`, makes a native context and
attaches it to the session, runs the program, takes the context away, waits for
its messages and becomes COMPLETED. Inside a transcode, tasks (demuxers,
decoders, filter graphs, encoders, muxers) run on threads of their own and are
joined by thread queues; the scheduler chokes sources that are ahead. Any of
those threads can log; the log goes to the callback thread by way of a list and
a counter, and from there to the session that `getSession` finds. A client
cancels through the session, its id, or all at once; the request has to travel
to the scheduler of the run, which stops the tasks. FFplay sessions queue up for
SDL by exchanging one atomic id; the one that has it runs a reader, a decoder per
stream and an audio device, and the client's controls reach it as events. In the
Wasm build the input of a session may be a stream over HTTP: the thread that
reads asks the main runtime thread to fetch a range and waits, and all inputs of
a session share one budget of memory and connections.

**What is hard.** Nearly everything here is a matter of order between threads
that share one word, one pointer or one list without one lock:

- a flag that is tested by one thread and set by another, around the moment a
  pointer appears or goes away (cancellation, the player's context);
- a counter that stands for messages in three different places;
- a condition variable whose notifications are sent without the mutex, with a
  timeout as the safety net;
- state that several sessions share by accident: words and counters by id
  modulo 1000, the process-wide signal counter;
- waits that may give up, and what the next in line then believes, or what the
  answer that comes after all may still touch;
- threads held back on purpose, that someone must let go again;
- data that a seek has made stale in five places at once;
- a history that forgets sessions that still run.

The `hazards` of `PROJECT.json` list these with their lines and the properties
that would be violated if they went wrong.

## Modules

Each component has a specification, an `MC` module for TLC and, if it is proved
about, a module `...Proofs` that extends the specification. Specifications use no
recursive operators, and take every bound as a constant, so that the theorems
hold for all values.

### `ThreadQueue` and `PacketChannel`

A critical section of `thread_queue.c` is one action, as one mutex protects the
whole queue. `pthread_cond_wait` splits a call in two: the thread becomes a
member of `waiting`, and a *resume* action (`TqSendResume`, `TqReceiveResume`)
continues the loop once a broadcast, or a spurious wake-up, has removed it. What
the code tests before its loop is tested once: a sender that was waiting when
its stream was finished does not see `FINISHED_SEND` again. The fifo and the
fifo of stream indices are one sequence of records. Packets are numbered per
stream; their contents do not matter.

The callers are those of `ffmpeg_sched.c`. A sender feeds one stream. *Owners*
stop at an error and call `tq_send_finish`; others, such as the subtitle
heartbeat of `sch_mux_sub_heartbeat`, ignore errors and never finish. One task
receives, blocking or not, may finish single streams, and leaves after the last
EOF. The scheduler chokes and unchokes (`Schedule`), and unchokes for good when
it stops (`Unfreeze`). Allocation failures are left out.

`PacketChannel` is what `thread_queue.h` promises: for every stream, a reliable
FIFO channel that ends once, either by EOF after its last packet or because the
receiver closed it. A step of the channel takes a packet, hands one over, or
changes the phase. `ThreadQueue` implements it with the mapping `Channel`: counters
to counters, and the bits of `finished` and the EOFs to the phase.

### `MessageTransit`

The way of one message: a thread increments the counter of its session
(`CountMessage`), appends the message (`PushMessage`); the callback thread
takes the head (`PopMessage`), delivers it to the session if it still passes the log
level and the history has the session (`ProcessMessage`), and the destructor of its
guard decrements and notifies (`DrainHeld`). `waitForSessionMessagesInTransmit` is `WaitStart` (the look
without the mutex), then `WaitCheck`, `WaitBlock` and either a notification or
`WaitTimeout`. Notifications are sent without the drain mutex, so one that comes
between `WaitCheck` and `WaitBlock` is not heard.

`DrainFirst` are the sessions whose thread waits before `complete` (FFmpeg and
media information), the rest wait after. Counters are indexed by id modulo
`SESSION_MAP_SIZE`; the last slot is the one of messages that belong to nobody.
`ResetsCounter` distinguishes the native build, which stores 0 in the counter
when a session starts, from the Wasm build, which does not.

The log level is one for the process (`level`), beside the one clients configured.
It decides twice: whether a message is counted, and later whether it is delivered. A
message either needs the high level (`verbose`) or passes always. The level becomes
the configured one when a run begins and when it ends (`installSharedLogState`, which
is one step with the reset of the counter before it, and `restoreConfiguredLogState`
in `RunReturns`), and another by `-v` during a run (`OptLogLevel`) or by a client
(`SetLogLevel`). A level that falls between the test of a message and its count is
taken to fall after the count: in both cases the message is in the list and below the
level.

A thread without a session (`Strangers`) logs for the FFplay session that plays
(`player`, the code's `globalFFplaySessionId`), or for nobody: it reads the id
(`ReadPlayer`) and counts for it later (`CountForeign`), when that session may have
ended. So a session gets messages that end neither with its threads nor with its run.
`foreign` and `atRisk` are history variables: the messages that came this way, and
those that were on their way when the level fell below them and have not reached the
log. `Own(s)` are the messages of the threads of the session itself.

The model is about the time while redirection is on; `Redirection` is about the rest.

### `Redirection`

A client is at one place of `enableRedirection` or `disableRedirection`
(`client[c].at`). Only the test of the flag with its change is under the lock; the
creation of the thread (`Create`), the log callback (`Install`, `Remove`), the read of
`callbackThread` (`Stop`), the second read whose value is joined (`ReadThread`), the
join, `Detach` and `Forget` are steps that those of other clients can come between. Callback threads are numbered as they are created;
`at` is where each is in its loop and `kept` what the system knows of it (a thread
can be joined or detached once). `fallback` tells which timed join the build has: that of the C
library is one step (`Join`, `JoinFails`); that of this file is `StartHelper`, `WaitEnds`
or `WaitTimesOut`, and `Reap`, beside the helper's `HelperJoins`, `HelperHasJoined`,
`HelperReports` and `HelperFrees`, each a critical section of the mutex in the
arguments. `Execute` stands for a session that is executed, as far as it touches
the log callback. The in-transit counters, which an execution resets in native builds,
are not part of this module: `MessageTransit` has them. A join fails or times out whenever the thread has not ended: the
five seconds are left out. Windows, which waits without looking at the result and
then closes the handle, is not modelled.

### `Cancellation`

The thread of a session goes through `register`, `init`, `attach`, `reset`,
`schedule`, `run`, `unschedule`, `remove`, `detach`, `free`, `complete`, the
order of `executeFFmpeg` and `ffmpeg_run`. A client's call is split wherever
another thread can come between: `requestCancel` tests the state, stores the
request, marks the word of `sessionMap`, takes the context mutex and sets the
flag of the context, and under the scheduler mutex asks the scheduler to
terminate. `FFprobeSession::cancel` has no request and no mutex: it copies the
pointer (`PeekContext`) and uses it (`PokeContext`). `cancel()` raises
`received_nb_signals`, which `ffmpeg_reset_internal_state` of another session
may set to 0. `Interrupted` is what `transcode` and the interrupt callback poll.

A session executes once. Incomplete shutdowns (a task that cannot be joined)
and exceptions out of a run are not modelled.

### `SessionHistory`

All access but two is under the session mutex and is one action. The loop of
`deleteExpiredSessions` is one action per session, since the states it reads
and the size change without the mutex meanwhile: sessions end on their own
threads, and `setSessionHistorySize` writes the size before it locks.
The getters by type search the same list and are not repeated.

### `FFplayHandoff`

`ffplayExecute` exchanges `activeFFplaySessionId` (`ExchangeActive`), marks the
word of the session it found and waits for it to be terminal, for it to be
forgotten, or for the timeout, which fails the session. In `executeFFplay` the
second barrier of `ffplay_init_common` finds `active_ffplay_ctx` set
(`InitFindsActive`), pushes a quit event and waits again. The context is
published (`Publish`), attached to the session (`Attach`), played, detached,
freed and SDL is shut down (`PlayEnds`, `FreeContext`, `QuitSDL`); the id is given
back (`ReleaseActive`) and the session becomes terminal. Clients close or
cancel at any time. Playback and its controls are in `Player`.

### `Scheduler`

What `sch_add_*` and `sch_connect` build is a value of the constant `Graphs`:
nodes, their outputs, each a sequence of destinations as the code keeps them,
what a file holds, and what filters of a graph make or trim. A packet or a frame
is only the time at which it ends. Every node is a thread. What it still has to
do for the packet in its hands is a list of jobs (`task[n].todo`): a call of
`tq_send` (`Send`), opening the encoder with its first frame and so perhaps
starting a muxer (`OpenEncoder`, `Flush`), the end of a stream (`FinishDst`), a
report to the scheduler (`ReportDst`), the exit (`ExitTask`), and for a filter graph
that is about to be configured the choke of its inputs (`ChokeInputs`). Each is one
step, so that the threads interleave wherever the code lets go of a lock.
`Demux`, `Decode`, `Encode`, `Mux` and the `Filter...` actions are the loops of the
threads; `WaiterWait` is a choked source that waits.

`Reschedule` is a section of `schedule_lock`: it changes `sched`, computes with
`Unchoked` which sources may proceed (`unchoke_for_stream`, `unchoke_downstream`
and the fallback), and leaves a decision in `update` that `Apply` carries out, one
waiter after the other, during which a request to stop (`RequestStop`, `RequestWalk`) walks over the same
waiters without the lock. The thread queue is what `PacketChannel` promises, with
its bound and its choke, since `ThreadQueue` is shown to implement that. What
libavfilter does is external: a graph joins its inputs, makes a frame when it
has one of every input that goes on, and has sources of its own. Until each input has
had a frame or ended it is not configured (`Configured`): it asks for its inputs in
their order (`Asked`) and tells nobody that it takes no more.

### `Player`

Positions in the file stand for packets and frames. `q`, `ring` and `dec` are the
packet queue, frame ring and decoder of a stream, by kind. The reader opens the
streams (`OpenStream`), seeks (`SeekBegins` to `SeekEnds`, with one step per flushed
queue), makes the step a paused player takes after a seek (`StepLooks`,
`StepToggles`, `StepMarks`: three accesses without the lock the events are handled
under), reads, or ends. A decoder takes a frame from its codec (`Receive`), waits
for a packet (`GetPacket`) or for room in the ring (`Reserve`), and pushes (`Push`);
between the last two it writes into the ring without a lock. The device and
`ffplay_step` peek (`DeviceTakes`, `Refresh`), use what they found without a lock,
and go on. Closing (`JoinReader`, `AbortQueue`, `SignalRing`, `JoinDecoder`) is in the
order of `stream_close`. Threads that wait for a condition are `asleep` or `full`,
and only the actions that signal that condition take them out of it; the timed
wait of the reader is a loop. Time is left out: any picture may be due or late.

### `HttpFetch`

One action is one critical section of the mutex of a request, with those of the
budget nested in it. A stream is at one place of `load_range` and `fetch_range`
(`io[s].at`); the main thread runs one task (`main`) and inside it perhaps one
callback of a fetch (`callback`), as `emscripten_fetch` and
`emscripten_fetch_close` may call back before they return. `Drop` is
`request_release`: the last holder frees the request, refunds what it still has of
the budget and lets its session go. `Requests` are addresses that are used again.
What the browser does is external: a response can be shown in parts, be too long,
be refused, or never come. Proxying to the main thread may fail, and the copy of a
response may not get its memory.

History variables, which no code reads, are marked as such in each module.

## Runs

| Run | Specification | Checks |
|---|---|---|
| `tq` | `ThreadQueue`, fair | types; no wake-up is lost; an owner alone on its stream is never refused; it implements `PacketChannel`; every task ends |
| `transit` | `MessageTransit`, no reset | types; the counters are exact; a wait that saw zero has the whole output but for a lowered log level; so has a COMPLETED session that drains first |
| `transit_fair` | `MessageTransit`, fair, with reset | a session that runs completes and a client that asks gets an answer, though notifications may be missed and counters reset |
| `cancel` | `Cancellation`, fair | types; a request that returned is known to the scheduler; the context in use is alive; only those named are cancelled; a cancelled session completes |
| `history` | `SessionHistory` | types; live sessions are kept; what exceeds the size has a reason |
| `ffplay` | `FFplayHandoff` | types; one plays at a time unless someone gave up; the published context is alive |
| `ffplay_two` | no forgetting | *violated*: one plays at a time |
| `scheduler` | `Scheduler`, four graphs | types; nobody is stuck; a stop is final; copied outputs stay together; what is written is in order and whole |
| `scheduler_copy` | the fourth graph, outputs in the other order | *violated*: nobody is stuck |
| `player` | `Player`, `-autoexit` | types; a frame in use is kept; frames are played in order and from the right side of a seek; `-autoexit` quits only after the last frame; no wake-up is lost |
| `redirection` | `Redirection`, both joins, fair | no message is lost or delivered twice; what a join shares is freed once; leftovers are delivered when redirection is on again |
| `http_fetch` | `HttpFetch`, fair | types; references and the budget are exact; a fetch outlives its callbacks; a success is whole; loads end; what is left behind is reclaimed |

### Bounds

- `tq`: two streams, a queue of two packets, three senders with two packets each
  and three changes of mind. The queue is full, a sender waits for room while
  its receiver closes the stream, one stream ends before the other, and stream 0
  has a second sender while stream 1 has none. One more packet or stream only
  repeats these situations: the code treats every stream alike and looks at the
  others only for the first half-finished one.
- `transit`: ids 1 and 3 on an array of two, so they share a counter; 1 drains
  first, 3 is an FFplay session. One message of the threads of each, one of a
  thread without a session, two threads inside `logCallbackDataAdd` at once, levels that
  change, and a history that can be cleared at any time. No client asks for output:
  the owner of an FFplay session waits after it completed, in the same way as a
  client does. `transit_fair` has one message each, because the missed notification
  takes one, and a client.
- `cancel`: an FFmpeg session whose input never ends, an FFprobe session, two
  clients with one call each: two requests in any order for one session, or a
  request beside a cancel of all.
- `history`: four sessions, two threads, a size of two that clients can set to
  one, to the maximum of three or (in vain) to zero. Threads are symmetric.
- `ffplay`: three sessions; that is the least with which one that gives up can
  open the way for another.
- `scheduler`: queues of one place, so that every send can meet a full one, and a
  tolerance of one, so that a source is choked after every packet. The graphs are
  four command lines: a transcoding in which any one thread may fail; a copied
  file beside a filter graph with sources of its own, with `-t`, which a client may
  cancel at any time, before the start too; two files joined by a filter graph that
  trims one of them; and a stream that is filtered and copied next to a copied
  one. Between them they have every kind of node and edge, late and early muxers,
  early ends from downstream, several demuxers to be kept together, and choked
  filter graphs inside a chain. `MaxPreMux` is large enough not to be reached: see
  below for what happens when it is.
- `player`: three packets, two of picture and one of sound, rings of two slots (one
  played, one to come), so that a ring is full after one picture more, and a codec
  for video that holds one frame back, so that draining matters. Clients pause and
  seek, pause and resume, or seek and quit, at any moment. Streams may fail to open.
- `redirection`: two clients, one with two calls (off and on again) and one with one
  (off, or on), so that a thread is created while another call still waits for the
  one before, or after that wait timed out; two threads, one message, both kinds of
  build, thread creation that may fail, sessions executed at any time.
- `http_fetch`: two sessions that share a budget, one with a stream that loads two
  ranges, the other only there to keep or to drop the budget; two request objects;
  one fetch at a time. That is the least for a second range to meet what the first
  one, given up, has left behind. A second stream is out of TLC's reach here; the
  theorems hold for any number of them.

Bounds appear only in guards of the environment (`MaxSends`, `MaxChokes`,
`MaxMessages`, `MaxStray`, `MaxThreads`, `MaxCalls` `Turns`, `MaxSessions`, `MaxLoads`,
`MayStop`, `MayFail`, `Scripts`).
Deadlock is checked in every run: where a system may come to rest there is an
action that says so (`Terminated`, `Finished`, `Rest`).

### Fairness

Weak fairness of the steps of each thread, and no more: a thread that can go on
does so at some time.

- `ThreadQueue`: every sender and the receiver (when it makes a blocking call),
  since each has a thread of its own with nothing else to do, and `Unfreeze`,
  because `sch_stop` is called at the end of every run. Wake-ups are not fair; a
  thread that sleeps relies on the broadcasts. Spurious wake-ups, chokes and
  the early closing of streams need not happen.
- `MessageTransit`: the callback thread, the thread between counting and
  appending, the thread of each session, and each wait, which has a timeout.
  Logging is not fair.
- `Cancellation`: the threads of sessions and the call a client has begun. No
  one has to cancel anything.
- `HttpFetch`: the threads of the streams, which look again every 100 ms
  (`LoadsEnd`). The main thread belongs to the page and the browser and may never
  answer; only `Reclaimed` assumes, in its statement (`MainGoesOn`), that it does.
- `Redirection`: a client in a call, the loop of each callback thread, helpers, and
  the thread that has counted a message. A callback of the application may never
  return, so `Deliver` is not fair; `LeftoversAreDelivered` assumes, in its statement,
  that callbacks return.

`Scheduler` and `Player` are checked for safety only; that nobody waits for good is
stated of the states in which all threads wait (`NobodyIsStuck`) or of who may be
asleep (`NoLostWakeup`).

## Theorems

The theorems hold for all values of the constants that satisfy the named
assumptions of the specifications. Those say little more than that ids are
positive and sizes are not zero.

**`ThreadQueueProofs`.** `TypeCorrect`; `WakeupSafety` (`NoLostWakeup` is
inductive given the types: each action that could let a sleeping call return
empties `waiting`); `Contiguity`, `EofSafety` and `Order` from `DeliveryInv`:
for open streams the queue holds exactly the numbers from `delivered + 1` to
`accepted`, ascending, and EOF is only given when there are none. `EofSafety`
alone is not inductive; that no packet is left when the EOF is given follows
from contiguity. `Refinement`: under the same invariant each step is a step of
`PacketChannel` or leaves it unchanged. `ExclusiveOwnerNeverRefused`, from the
invariant that an owner alone on its stream knows when it is finished.

**`MessageTransitProofs`.** `Places`: a message that is counted and not done is
in exactly one place. From it `CountersAreExact`, which is about cardinalities
of sets of messages and so uses the theorems on finite sets, for builds that do
not reset. `LogLists`: the list of a session has only what was sent for it, each
once, and all that is done unless the session was forgotten or the message was on its
way when the level fell below it. It needs `RiskInv`: while the level is low, every
message on its way that needs a high one is `atRisk`, so that what `ProcessMessage`
drops is. `DrainedOutput` and `FinalOutput`, together `WholeOutput`, follow, with the fact
that the threads of a session send nothing after its run: a counter at zero means that
nothing of the sessions that share it is on its way. They speak of `Own(s)`, because a
thread without a session may still log for an FFplay session that has ended.

**`CancellationProofs`.** `RequestsReachTheScheduler` needs to know where a
request is at each stage (`AskedInv`): before the context is attached it is in
the session, then in the flag of the context, then in the scheduler; and
`MutexInv`, that a client between flag and scheduler holds the mutex of an
attached context, so that `detachContext` waits. `ContextsInUseAreAlive`
follows from the same two. `NamedInv` says where a wish to cancel can come from: a
word of `sessionMap` says so only if a client named an id of that word, and flags,
scheduler and `received_nb_signals` only if the word did, or `cancel()` was called
during the run. It gives `CancellationHasACause` for any ids, and
`OnlyTheNamedAreCancelled` for ids that lie within one turn of `sessionMap`
(`first .. first + SESSION_MAP_SIZE - 1`); that hypothesis is the limit of the code,
which tells sessions apart by their id modulo the size of the map.

**`SchedulerProofs`.** The theorems are about every graph of threads that
`GraphsAssumption` allows and every size of the queues. The assumption says of a
graph what the code makes sure of (a destination has one source, an output has a
destination, a decoder and an encoder have one input), and which threads feed which
(`Ways`).

`TypeCorrect`: the invariant `TypeInv` types every job of every thread; one that is to
flush a muxer is there only once the muxer is started. `FlattenSeq`, with which a
filter graph sends to all its outputs, is a recursive function; that every element of
the result is one of an output, and comes from one place only, is shown from its
definition with `Locates`, which names the place.

`StoppedForGood`, what a request does once it has reached the scheduler: `StopInv`
adds to `StopIsFinal` that only queues which demuxers feed are ever choked
(`ChokedAreFed`: `sch_stop` frees just those), that `terminate` is set before the
sources are choked, and that from then on nobody holds a decision to apply
(`Stopping`): `schedule_update_locked` decides nothing once `terminate` is set, and
`sch_stop` takes `schedule_lock`, behind whoever was still applying one.

`InOrder`: every stream is written in order, if the packets of every output of a
demuxer are (`FilesInOrder`; the graphs of the runs meet it). What was sent to a
destination and is not dropped stands in one line: what the muxer has written, what is
in the queue, what waits for the muxer to start, and what the source has still to send.
A place in it is a slot. `Sorted` says that the line is ascending; it is kept because
a packet only moves to the end of an earlier part, or is put behind all others. The
first needs to know that nothing can be put into the queue of a muxer while its pre-mux
queues hold something, the second what the source will send later: `InLine`. That
depends on what is upstream, through decoders, encoders and filter graphs to
the files. Hence `After`, the largest set of destinations that get only what comes
after a given time: a set is `Safe` if what is on its way to each member, and what its
source has or takes from members of the same set, comes after that time. What a
thread passes on is after what it passed on before because its input is in `After`
of it; no induction over the graph is needed. `Holds`, `Overs` and `Sinks` say this of
what a filter graph keeps, of an input that is over and of a frame that is ready.
`Opening` says who opens an encoder: a thread has one packet at a time for a
destination; the empty frame with which a filter graph ends goes only to an encoder
nobody has opened; a muxer that is started has nothing waiting. A step either moves
the entries of every line without changing their order (`Carried`) or
puts one behind a line (`Begun`), and `OrderPrimed` says that this, with the sources
staying after what they were after (`SourcesKept`), keeps the order. There is one
lemma for each action.

**`SessionProofs`.** Of `SessionHistory`: `HistoryTypeCorrect`, `ListAndMapAgree`, `LiveSessionsStay` and
`ExcessHasACause`, from who holds the mutex (`MutexInv`) and from new ids being
fresh (`FreshInv`).

Of `FFplayHandoff`: `TypeCorrect`, `ActiveIsLive` and `PlayingIsAlive`: every way out
returns what it published, whatever gives up. `OnePlays`: tickets number the
exchanges; a session that waits has the ticket after the one it waits for, the
active one has the last, and who has had its turn has everyone before it behind
it (`TurnInv`). That is the argument by which a chain of waits for one's
predecessor is a queue, for any number of sessions. It holds until someone gives up.

**`HttpFetchProofs`.** The inductive invariant is `Inv`: types, `ReferencesAreExact`,
who holds which request at which place (`PlacesInv`: no two streams have the same
one, and who has one is at work), what has happened to its fetch by then
(`FetchInv`), and that a session has as many references as it has live requests,
and one for its owner (`SessionsInv`). None of these is inductive alone: that
the last holder frees a request needs the exact count, the count needs to know that
a start task is queued only before there is a fetch, and that a close is queued at
most once. `References`, `FetchLives` and `SessionsLive` follow, for any number of
sessions, streams and requests, given that requests and sessions are finitely many
(`FiniteAssumption`) and that two of the largest ranges fit into the budget
(`SizesAssumption`, a static assertion of the code). `SessionsLive` uses the theorems
on finite sets.

`BudgetExact` and `SuccessesAreWhole` rest on a second invariant on top of `Inv`: the
counters are sums over requests and streams of what each holds, a request that was
given back to the budget holds nothing, one that is freed or not yet begun holds
nothing either, what is reserved for a request does not exceed its range, and a
success is final (no later callback or refund touches it before its stream does). Each step changes what one
request or one stream holds and its counter by as much. That a sum over a set
changes by the difference of one member is not provable by induction here; the
lemmas `SumOfReservations` and `SumOfCaches` show it from the definition of the fold,
with a smallest set for which it would fail. They need `Streams` to be finite.

**`PlayerProofs`.** The invariant `Inv` is made of types; `Places` (threads work
only on streams the file has, and a frame in hand is a position of the file);
`Rings` (from `rindex` on a ring holds `size` frames, `windex` is behind the last
of them, and a decoder that is about to write has found room); `InUse` (what the
device plays is the frame shown last, what the screen is about to show the one
after it); and `NoLostWakeup`. A slot in use is kept because a decoder writes at
`windex` and there is room, so that the slot is not one of the `size` before it:
that is arithmetic modulo the size of the ring, done once in the lemmas about
`Wraps`. `NoLostWakeup` is inductive given the rest: each action that ends a
reason to sleep wakes who sleeps for it. `TypeCorrect`, `Wakeups` and `FramesKept`
follow, for every file (`MediaAssumption`), rings of two slots or more
(`SizesAssumption`; the code has 3 for pictures and 9 for sound) and any calls.

`InOrder` and `QuitPlayed` need to know where every frame of a stream is on its way
from the file to the screen. The invariant `Order` says it in four parts.
`Line`: what was played, what waits in the ring with the serial of the queue, what
the decoder holds, what is in its codec and what is queued come in this order, one
below the other, and no position that is due is left out below the last of them.
`Sorted`: each of the five is in order by itself. `Reach`: all that is due before the
reader's place is in the line, unless the decoder has ended, and nothing behind
that place is. `Drains` and `Decoded`: a decoder is drained behind the last packet,
so that the serial in `finished` means that all that is due was played or is in the
ring. A seek starts the line of a stream anew, because everything on its way has an
older serial (`Serials`), and the reader seeks all streams before it reads again
(`ReaderAtWork`). `Stays`, `Advances` and `Ends` are what a step owes the line that
leaves a stream alone, moves a frame on or ends a decoder; then there is one lemma
for each action. With `-autoexit` the reader ends when `finished` has the serial of
every queue and the rings are empty, which by `Decoded` leaves only what was played.

**`RedirectionProofs`.** `Inv` is made of types; `NothingLostOrTwice`, inductive
given that a thread holds a message only while it delivers one; `ArgsOf`, the life of the
arguments of one join: as long as the helper has not joined, the caller is either
waiting or has left them to it (`detached`), and after that the one who is still
there frees; and `Fresh`: the arguments of a call that has not begun are untouched.
`TypeCorrect`, `MessagesKept` and `ArgsFreed` follow, for any number of clients,
calls, callback threads and messages, with either timed join.

**Only model-checked.** Liveness (`Termination`, `Completes`,
`CancelledSessionCompletes`, `LoadsEndAndAreReclaimed`,
`LeftoversAreDelivered`): the proof system has no rule
for fairness here. `NobodyIsStuck` and `OutputsStayTogether` of
`Scheduler` hold for the graphs of the runs and not for every graph, as
`scheduler_copy` shows of the first. `WrittenIsWhole` compares what is written with
what is due along every path from a file (`Due`, recursive in the graph): an induction
over data.

## What the code does otherwise

Runs marked *violated* above each show a behaviour that disagrees with a
document or comment of the repository; `PROJECT.json` quotes it.

- `ffplay_two`: a session that times out gives back the active id although the
  one it waited for has not ended; the next one waits for nobody.
- `scheduler_copy`: `unchoke_downstream` looks only at the first destination of a
  stream. When the copy of a stream is mapped before its filtered version, the
  filter graph downstream stays choked, and demuxer, decoder and filter graph wait
  for each other for good.

Seen while modelling, without a run of its own:

- In the native build (`ResetsCounter`) `executeFFmpeg` registers the session, which logs
  at the debug level, and then stores 0 in its counter (`FFmpegKitConfig.cpp:1466`). The
  message of the registration is taken back all the same, so the counter is one too low
  for the rest of the run and the session completes with its last message on its way:
  with `ResetsCounter = TRUE` the run `transit` violates `CounterIsExact` and
  `OutputIsWhole`. Both are therefore checked and proved without the reset, as the Wasm
  build runs; `transit_fair` has it, and the waits end all the same.
- `restoreConfiguredLogState` sets the log level back (`FFmpegKitConfig.cpp:1513`)
  before `ffmpegExecute` waits for its messages, and `process_log` drops what no longer
  passes. Of a run with `-v verbose`, the messages in the list when it ends are counted
  down but not logged, although the comment at 2135 wants the final output ready.
  `OutputIsWhole` therefore excepts what was on its way when the level was lowered
  (`atRisk`); without the exception `transit` violates it. Another session's
  `-v quiet` costs messages in the same way.
- `disableRedirection` reads `callbackThread` again after the join and clears it
  without the lock (`FFmpegKitConfig.cpp:1883`). A client that turns redirection on
  meanwhile has its new thread detached or forgotten, or its log callback
  removed, so that what is on may log nothing. Between its test and its read another
  `disableRedirection` may clear it (`Stop`, `ReadThread`), and thread 0 is joined.
- Every execution installs the log callback, also when redirection is off
  (`FFmpegKitConfig.cpp:374`), where `FFmpegKitConfig.hpp:79` says "logs are printed
  to stderr". They go to the callback list instead, which nobody empties until
  redirection is on again, and their counters make sessions wait in vain (`Execute`).
- `CHANGELOG.md:146` speaks of "a full `pthread_join()`"; `disableRedirection` gives up
  after five seconds and detaches the thread, and a callback of the application may
  run on after it has returned (`JoinFails`, `WaitTimesOut`).
- After a join that timed out, turning redirection on makes a second callback thread
  beside the first, which goes on when its callback returns. Both take messages
  from the list: none is lost or doubled, but callbacks run side by side and in
  any order.

- `tq_send` by a heartbeat thread on a stream that the receiver has closed takes
  the EOF (`thread_queue.c:127`); the demuxer that owns the stream then gets
  `EINVAL` instead. `SendRefuse` has it, `OwnerNeverRefused` excludes it.
- Sessions whose ids have the same remainder share a word of `sessionMap`
  (`FFmpegKitConfig.cpp:1081`), so that cancelling one interrupts the other.
- `getLastCompletedSession` (`FFmpegKitConfig.cpp:2801`) goes by the order of
  creation, not of completion.
- The history grows beyond every limit while its first session is live
  (`FFmpegKitConfig.cpp:683`), also beyond the words of `sessionMap`.
- `getLastSession` returns the front of the list, the oldest.
- `registerSessionId` writes 1 over the 2 a cancel has put into the word of the
  session (`FFmpegKitConfig.cpp:1057`). For FFmpeg sessions the request flag makes
  up for that; an FFprobe session that is cancelled just before it registers runs
  on (`FFprobeSession.hpp:131`: "Cancels the ffprobe session."). In the same way the
  mark that an FFplay session puts into the word of its predecessor is lost when
  that one registers later.
- A run that starts resets the process-wide signal counter (`ffmpeg.c:1102`), so
  that a `cancel()` without an id at that moment reaches some runs and not others.
- A seek while paused makes the reader step to one picture. Its toggle and the one of
  a resume meet (`StepToggles`, `Toggle`), or the step outlasts the resume; either way
  the player is paused in the end (`ffplay.c:1715`).
- A quit event is taken by whoever plays when it arrives, and a seek that comes
  while another is carried out is dropped (`stream_seek`).
- When the pre-mux queue of a stream is full (`MaxPreMux`), `mux_queue_packet` fails
  and the demuxer ends. Its NULL for the same stream does not fit either, which
  `demux_stream_send_to_dst` overlooks; if the muxer then starts, it waits for the
  end of that stream for ever, and `sch_stop` waits in the join, where
  `ffmpeg_sched.h` promises "eventual transcoding failure".

## Not modelled, and the plan

In the order of importance:

1. Incomplete shutdown: a task that cannot be joined quarantines the scheduler and
   refuses later runs. It joins `Scheduler` and `Cancellation`.
2. In `Scheduler`: sync queues, as a module of their own (which stream may be sent,
   by timestamps; order and completeness), subtitle heartbeats, and encoders with
   several outputs.
3. `AsyncExecution` and `WasmDispatcher`: completion callbacks exactly once, and the
   retry of a rejected dispatch.
4. The argument parser as an operator against a reference definition.

To keep the set of runs small, each component has one run for what holds, and
questions about one specification share it.

Of the components that are partly modelled these parts are left out: in
`Scheduler`, `-stream_loop`, filter commands, SDP files, and the three connections
`Ways` leaves out (filter graphs that feed one another, subtitle decoders that feed
encoders, encoders that feed decoders); in `Player`, subtitles,
keys and window events, `-loop`, the clocks and the choice of delays, cover pictures,
speed and volume, and the polling of the device on Windows and Wasm; in `HttpFetch`,
parsing of headers and URLs; in `Cancellation`, the
quarantine and exceptions out of a run.

Left out for good: media processing (codecs, filters, formats, rendering), option
parsing, JSON and text output, the C wrapper, and the build scripts, which hold most
of the lines of this repository (one of them is a header of 20708 lines for a capture
card). They keep no state that threads share, or only perform I/O.
