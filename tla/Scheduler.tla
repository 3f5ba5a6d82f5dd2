------------------------------ MODULE Scheduler ------------------------------
(***************************************************************************)
(* The scheduler of a transcoding (ffmpeg_sched.c) with the loops of the   *)
(* threads it runs (ffmpeg_demux.c, ffmpeg_dec.c, ffmpeg_filter.c,         *)
(* ffmpeg_enc.c, ffmpeg_mux.c).                                            *)
(*                                                                         *)
(* Demuxers, decoders, filter graphs, encoders and muxers are threads that *)
(* pass packets and frames along bounded queues.  The sources, demuxers    *)
(* and filter graphs, are kept together by waiters: whenever an output     *)
(* reports a timestamp, whoever holds schedule_lock decides which sources  *)
(* may go on.  Every other source is choked, with the queues it feeds.     *)
(*                                                                         *)
(* A packet or a frame is the time at which it ends.  One action is a call *)
(* of the thread queue (module ThreadQueue), a section under one lock, or  *)
(* the access to one waiter.  Codecs turn one packet into one frame.  Sync *)
(* queues, subtitle heartbeats, looping and filter commands are left out.  *)
(***************************************************************************)
EXTENDS Integers, SequencesExt, FiniteSets

CONSTANTS
  Graphs,      \* what command lines ask for, by name: see GraphTypeOK
  QueueSize,   \* the places of every thread queue
  Tolerance,   \* SCHEDULE_TOLERANCE
  MaxPreMux,   \* packets a stream may hold before its muxer starts
  MayStop,     \* bound: the graphs whose run clients may cancel
  MayFail      \* bound: the graphs of which a thread may fail

\* A destination is <<node, input>>; an input of a muxer is one of its streams.
\*   kind    what each node is
\*   out     for every node, its outputs: each the sequence of destinations
\*           sch_connect has given it
\*   file    for every demuxer, its packets as <<output, time>>
\*   gen     how many frames the sources inside a filter graph make
\*   trim    the time from which a filter graph takes nothing at an input
\*   limit   recording_time of the output files
Kinds == {"demux", "dec", "filter", "enc", "mux"}

\* Who feeds whom.  sch_connect also lets decoders feed encoders (subtitles), filter graphs feed
\* one another and encoders feed decoders; these threads do more than is modelled here.
Ways == {<<"demux", "dec">>, <<"demux", "mux">>, <<"dec", "filter">>, <<"filter", "enc">>,
         <<"enc", "mux">>}

\* sch_connect gives a destination to one source only, and decoders and encoders have but one;
\* start_prepare refuses an output without a destination.
GraphTypeOK(g) ==
  LET nodes == DOMAIN g.kind
      outputs(n) == 1 .. Len(g.out[n])
      places(n, o) == 1 .. Len(g.out[n][o])
  IN  /\ DOMAIN g = {"kind", "out", "file", "gen", "trim", "limit"}
      /\ IsFiniteSet(nodes) /\ DOMAIN g.out = nodes /\ g.limit \in Nat
      /\ \A n \in nodes :
           /\ g.kind[n] \in Kinds /\ g.out[n] \in Seq(Seq(nodes \X Nat))
           /\ \A o \in outputs(n) :
                /\ g.out[n][o] # <<>>
                /\ \A k \in places(n, o) :
                     LET dst == g.out[n][o][k]
                     IN  /\ <<g.kind[n], g.kind[dst[1]]>> \in Ways
                         /\ g.kind[dst[1]] \in {"dec", "enc"} => dst[2] = 1
                         /\ g.kind[dst[1]] = "filter" => g.trim[dst[1]][dst[2]] \in Nat
           /\ g.kind[n] = "enc" => Len(g.out[n]) = 1
           /\ g.kind[n] = "demux" => g.file[n] \in Seq(outputs(n) \X Nat)
           /\ g.kind[n] = "filter" => g.gen[n] \in Nat
      /\ \A m, n \in nodes : \A o \in outputs(m), p \in outputs(n) :
           \A k \in places(m, o), l \in places(n, p) :
             g.out[m][o][k] = g.out[n][p][l] => m = n /\ o = p /\ k = l

ASSUME GraphsAssumption == \A name \in DOMAIN Graphs : GraphTypeOK(Graphs[name])
ASSUME BoundsAssumption == /\ QueueSize \in Nat \ {0} /\ Tolerance \in Nat \ {0}
                           /\ MaxPreMux \in Nat \ {0}
                           /\ MayStop \cup MayFail \subseteq DOMAIN Graphs

VARIABLES
  graph,      \* what sch_add_* and sch_connect have built; it never changes
  queue,      \* the ThreadQueue of a node
  mux,        \* SchMux: whether it runs, its streams that are ready, what waits, what is written
  choked,     \* SchWaiter.choked of the sources
  sched,      \* what schedule_lock protects
  update,     \* the decision the holder of schedule_lock has yet to apply
  task,       \* the threads
  fgt,        \* FilterGraphThread, and what libavfilter holds for it
  main,       \* the thread in sch_start, sch_wait and sch_stop
  stopper,    \* the thread in sch_request_stop
  terminate   \* Scheduler.terminate

vars == <<graph, queue, mux, choked, sched, update, task, fgt, main, stopper, terminate>>

-----------------------------------------------------------------------------
(* The graph *)

\* what sch_add_* and sch_connect build: every node knows its destinations and its inputs, and
\* every destination where it comes from
Built(name) ==
  LET g == Graphs[name]
      dsts == [n \in DOMAIN g.kind |-> FlattenSeq(g.out[n])]
      all == UNION {Range(dsts[n]) : n \in DOMAIN g.kind}
  IN  [name |-> name, kind |-> g.kind, out |-> g.out, file |-> g.file, gen |-> g.gen,
       trim |-> g.trim, limit |-> g.limit, dsts |-> dsts,
       of |-> [kind \in Kinds |-> {n \in DOMAIN g.kind : g.kind[n] = kind}],
       streams |-> {dst \in all : g.kind[dst[1]] = "mux"},
       inputs |-> [n \in DOMAIN g.kind |-> {dst[2] : dst \in {d \in all : d[1] = n}}],
       src |-> [dst \in all |-> CHOOSE n \in DOMAIN g.kind : dst \in Range(dsts[n])]]

Nodes == DOMAIN graph.kind
OfKind(kind) == graph.of[kind]
Demuxers == OfKind("demux")
Filters == OfKind("filter")
Muxers == OfKind("mux")
Sources == Demuxers \cup Filters
Receivers == Nodes \ Demuxers

Dsts(n) == graph.dsts[n]
Inputs(n) == graph.inputs[n]
SrcOf(dst) == graph.src[dst]
Streams == graph.streams
IsCopy(ms) == SrcOf(ms) \in Demuxers
\* the stream an encoder writes to
StreamOf(e) == Head(Dsts(e))

NoInput == 0      \* best_input = nb_inputs: the sources inside the graph are asked
NoTime == -1      \* AV_NOPTS_VALUE
EofFrame == -2    \* FRAME_OPAQUE_EOF
Nobody == [by |-> "nobody", unchoke |-> {}, choke |-> {}]

Job(do, dst, t) == [do |-> do, dst |-> dst, t |-> t]
Finish(dst) == Job("finish", dst, NoTime)
Report(dst, t) == Job("report", dst, t)
Exit(n) == Job("exit", <<n, 0>>, NoTime)
Choke(n) == Job("choke", <<n, 0>>, NoTime)
SendAll(n, o, t) == [k \in 1 .. Len(graph.out[n][o]) |-> Job("send", graph.out[n][o][k], t)]

Init ==
  /\ \E name \in DOMAIN Graphs : graph = Built(name)
  /\ queue = [n \in Receivers |-> [items |-> <<>>, choked |-> FALSE, sent |-> {}, closed |-> {}]]
  /\ mux = [m \in Muxers |->
       LET ready == {i \in Inputs(m) : IsCopy(<<m, i>>)}
       IN  [state |-> IF ready = Inputs(m) THEN "started" ELSE "unready", ready |-> ready,
            pre |-> [i \in Inputs(m) |-> <<>>], written |-> [i \in Inputs(m) |-> <<>>]]]
  /\ choked = [n \in Sources |-> FALSE]
  /\ sched = [last |-> [ms \in Streams |-> NoTime], done |-> {}, exited |-> {},
              best |-> [f \in Filters |-> IF Inputs(f) = {} THEN NoInput ELSE 1],
              sent |-> {}, received |-> {}]
  /\ update = Nobody
  /\ task = [n \in Nodes |-> [at |-> "run", todo |-> <<>>, pos |-> 1, finished |-> {},
                              failed |-> FALSE]]
  /\ fgt = [f \in Filters |-> [next_in |-> IF Inputs(f) = {} THEN NoInput ELSE 1,
                               held |-> [i \in Inputs(f) |-> <<>>], over |-> {},
                               made |-> 0, sink |-> <<>>, got |-> FALSE]]
  /\ main = "start"
  /\ stopper = [at |-> IF graph.name \in MayStop THEN "idle" ELSE "ended", left |-> {}]
  /\ terminate \in {FALSE, (graph.name \in MayStop)}    \* a request may come before graph_ready

-----------------------------------------------------------------------------
(* schedule_update_locked *)

Unfinished(s) == Streams \ s.done

\* Mutant of Eligible: however far a stream is ahead, it asks for more.
EligibleAll(s) == Unfinished(s)

\* the streams that are not too far ahead of the trailing one (trailing_dts), which are those
\* without a timestamp while there are any
Eligible(s) ==
  LET silent == {ms \in Unfinished(s) : s.last[ms] = NoTime}
  IN  IF silent # {} THEN silent
      ELSE {ms \in Unfinished(s) :
              \A other \in Unfinished(s) : s.last[ms] - s.last[other] < Tolerance}

\* the source that unchoke_for_stream finds upstream of a node
Upstream(s) ==
  LET up[n \in Nodes] ==
        IF n \in Demuxers \/ (n \in Filters /\ s.best[n] = NoInput) THEN n
        ELSE up[SrcOf(<<n, IF n \in Filters THEN s.best[n] ELSE 1>>)]
  IN  up

\* Mutant of Downstream: nothing downstream of a demuxer is unchoked with it.
DownstreamForgotten(s, d) == {}

\* unchoke_downstream: the filter graphs a demuxer feeds, or the sources they wait for.
\* Of every output only the first destination is looked at.
Downstream(s, d) ==
  LET up == Upstream(s)
  IN  {up[dst[1]] : dst \in {Head(graph.out[c][1]) : c \in {Head(o)[1] : o \in Range(graph.out[d])} \ Muxers}}

Seeds(s) ==
  LET up == Upstream(s)
  IN  {up[SrcOf(dst)] : dst \in Eligible(s) \cup (s.received \ s.sent)}

\* the seeds and, from one demuxer to the next, what is downstream of them
Needed(s) ==
  LET reach[k \in Nat] ==
        IF k = 0 THEN Seeds(s)
        ELSE LET set == reach[k - 1]
             IN  set \cup UNION {Downstream(s, d) : d \in set \cap Demuxers}
  IN  reach[Cardinality(Demuxers)]

\* The sources that may proceed; at least one, while there is one.
Unchoked(s) ==
  LET left(kind) == kind \ s.exited
      some == IF left(Demuxers) # {} THEN {CHOOSE d \in left(Demuxers) : TRUE}
              ELSE IF left(Filters) # {} THEN {CHOOSE f \in left(Filters) : TRUE} ELSE {}
  IN  IF Eligible(s) # {} THEN Needed(s) ELSE Needed(s) \cup some

\* n takes schedule_lock, changes what it protects into s, and decides
Reschedule(n, s) ==
  /\ update = Nobody
  /\ sched' = s
  /\ \E next \in {Unchoked(s)} :
       LET unchoke == {x \in next : choked[x]}
           choke == {x \in Sources \ next : ~choked[x]}
       IN  update' = IF terminate \/ unchoke \cup choke = {} THEN Nobody
                     ELSE [by |-> n, unchoke |-> unchoke, choke |-> choke]

\* choke_demux: the first destinations of the demuxers in d
QueuesOf(d) == {Head(o)[1] : o \in UNION {Range(graph.out[x]) : x \in d}} \ Muxers

ChokeQueues(d, value) ==
  [n \in DOMAIN queue |-> IF n \in QueuesOf(d) THEN [queue[n] EXCEPT !.choked = value]
                          ELSE queue[n]]

\* The waiters are set one after the other, each with the queues that depend on it, and then
\* schedule_lock is let go.
Apply ==
  /\ \E x \in update.unchoke \cup update.choke :
       /\ choked' = [choked EXCEPT ![x] = x \in update.choke]
       /\ queue' = ChokeQueues({x} \cap Demuxers, x \in update.choke)
       /\ update' = IF update.unchoke \cup update.choke = {x} THEN Nobody
                    ELSE [update EXCEPT !.unchoke = @ \ {x}, !.choke = @ \ {x}]
  /\ UNCHANGED <<graph, mux, sched, task, fgt, main, stopper, terminate>>

-----------------------------------------------------------------------------
(* The thread queues *)

\* Mutant of HasRoom: one place too many.
HasRoomForOneMore(n) == Len(queue[n].items) <= QueueSize

HasRoom(n) == Len(queue[n].items) < QueueSize

Put(n, i, t) == [queue EXCEPT ![n].items = Append(@, <<i, t>>)]

SendFinished(n, i) == [queue EXCEPT ![n].sent = @ \cup {i}, ![n].choked = FALSE]

\* the places of what a receiver still wants; tq_receive drops what comes before the first
Wanted(n) == {k \in DOMAIN queue[n].items : queue[n].items[k][1] \notin queue[n].closed}
First(n) == CHOOSE k \in Wanted(n) : \A l \in Wanted(n) : k <= l
Item(n) == queue[n].items[First(n)]
HasItem(n) == ~queue[n].choked /\ Wanted(n) # {}

\* Mutant of AtEof: what is still queued when the last sender finishes is not waited for.
AtEofEarly(n) == /\ ~queue[n].choked /\ Inputs(n) # {}
                 /\ Inputs(n) \subseteq queue[n].sent \cup queue[n].closed

AtEof(n) == /\ ~queue[n].choked /\ Wanted(n) = {} /\ Inputs(n) # {}
            /\ Inputs(n) \subseteq queue[n].sent \cup queue[n].closed
Taken(n) == [queue EXCEPT ![n].items = SubSeq(@, First(n) + 1, Len(@))]
Emptied(n) == [queue EXCEPT ![n].items = IF queue[n].choked THEN @ ELSE <<>>]

-----------------------------------------------------------------------------
(* What all threads do *)

\* n does not hold schedule_lock, and is where it looks for something to do
Free(n) == update.by # n
At(n, at) == Free(n) /\ task[n].at = at /\ task[n].todo = <<>>

Become(n, at, todo) == [task EXCEPT ![n].at = at, ![n].todo = todo]

\* the job at the head of the list is done; these come in its place
Done(n, jobs) == task' = [task EXCEPT ![n].todo = jobs \o Tail(@)]

AllFinished(n) == Range(Dsts(n)) \subseteq task[n].finished

\* task_cleanup: demux_done, dec_done, filter_done, enc_done, mux_done
Cleanup(n) ==
  (IF n \in Muxers THEN <<>> ELSE [k \in 1 .. Len(Dsts(n)) |-> Finish(Dsts(n)[k])]) \o <<Exit(n)>>

\* the function of the thread returns; all but muxers close their queues first
End(n, failed) ==
  /\ task' = [task EXCEPT ![n].at = "done", ![n].todo = Cleanup(n), ![n].failed = failed]
  /\ queue' = IF n \in Demuxers \cup Muxers THEN queue
              ELSE [queue EXCEPT ![n].closed = Inputs(n)]

Flushing == \E m \in Muxers : mux[m].state = "flushing"

\* Mutant of Waiting: mux_started is set before the pre-muxing queues are flushed.
WaitingUnflushed(m) == mux[m].state = "unready"

\* mux_started is set only after the pre-muxing queues were flushed
Waiting(m) == mux[m].state # "started"

-----------------------------------------------------------------------------
(* The jobs *)

\* send_to_mux, demux_stream_send_to_dst, send_to_filter, send_to_enc_thread with a packet
\* or a frame
Send(n, dst, t) ==
  LET x == dst[1]
      i == dst[2]
      then == IF x \in Muxers THEN <<Report(dst, t)>> ELSE <<>>
  IN  \/ /\ dst \in task[n].finished
         /\ Done(n, <<>>) /\ UNCHANGED <<queue, mux>>
      \/ /\ dst \notin task[n].finished
         /\ x \in Muxers /\ Waiting(x) /\ ~Flushing
         /\ IF Len(mux[x].pre[i]) < MaxPreMux
            THEN /\ mux' = [mux EXCEPT ![x].pre[i] = Append(@, t)]
                 /\ Done(n, then) /\ UNCHANGED queue
            ELSE End(n, TRUE) /\ UNCHANGED mux    \* mux_queue_packet: too many packets
      \/ /\ dst \notin task[n].finished
         /\ x \in Muxers => ~Waiting(x)
         /\ graph.kind[x] = "enc" => StreamOf(x)[2] \in mux[StreamOf(x)[1]].ready
         /\ \/ i \in queue[x].closed /\ Done(n, <<Finish(dst)>>) /\ UNCHANGED queue
            \/ i \notin queue[x].closed /\ HasRoom(x) /\ queue' = Put(x, i, t) /\ Done(n, then)
         /\ UNCHANGED mux

\* send_to_enc: the first frame opens the encoder, which makes a stream of a muxer ready; the
\* last one to be ready starts the muxer.  An empty frame is only there to open the encoder.
OpenEncoder(n, dst, t) ==
  LET m == StreamOf(dst[1])[1]
      i == StreamOf(dst[1])[2]
      start == mux[m].ready \cup {i} = Inputs(m)
      frame == IF t = NoTime THEN <<>> ELSE <<Job("send", dst, t)>>
  IN  /\ dst \notin task[n].finished
      /\ graph.kind[dst[1]] = "enc" /\ i \notin mux[m].ready
      /\ ~Flushing
      /\ mux' = [mux EXCEPT ![m].ready = @ \cup {i}, ![m].state = IF start THEN "flushing" ELSE @]
      /\ Done(n, (IF start THEN <<Job("flush", <<m, 0>>, NoTime)>> ELSE <<>>) \o frame)
      /\ UNCHANGED queue

\* the end of a stream, or else its earliest packet, of the lowest stream
NextPre(m) ==
  LET heads == {i \in Inputs(m) : mux[m].pre[i] # <<>>}
      head(i) == Head(mux[m].pre[i])
      ends == {i \in heads : head(i) = EofFrame}
      least == IF ends # {} THEN ends ELSE {i \in heads : \A j \in heads : head(i) <= head(j)}
  IN  CHOOSE i \in least : \A j \in least : i <= j

\* mux_task_start, with mux_ready_lock held
Flush(n, m) ==
  LET i == NextPre(m)
      t == Head(mux[m].pre[i])
  IN  IF \A j \in Inputs(m) : mux[m].pre[j] = <<>>
      THEN /\ mux' = [mux EXCEPT ![m].state = "started"]
           /\ Done(n, <<>>) /\ UNCHANGED queue
      ELSE /\ mux' = [mux EXCEPT ![m].pre[i] = Tail(@)]
           /\ queue' = IF t = EofFrame THEN SendFinished(m, i)
                       ELSE IF i \in queue[m].closed THEN queue ELSE Put(m, i, t)
           /\ (t # EofFrame /\ i \notin queue[m].closed) => HasRoom(m)
           /\ UNCHANGED task

\* the same calls with NULL: the destination gets no more
FinishDst(n, dst) ==
  LET x == dst[1]
      i == dst[2]
      jobs(js) == task' = [task EXCEPT ![n].todo = js \o Tail(@), ![n].finished = @ \cup {dst}]
  IN  \/ /\ dst \in task[n].finished
         /\ Done(n, <<>>) /\ UNCHANGED <<queue, mux, sched, update>>
      \/ /\ dst \notin task[n].finished
         /\ x \in Muxers /\ Waiting(x) /\ ~Flushing
         \* when the queue is full its error is overlooked, and the end is lost
         /\ IF Len(mux[x].pre[i]) < MaxPreMux
            THEN /\ mux' = [mux EXCEPT ![x].pre[i] = Append(@, EofFrame)]
                 /\ jobs(<<Report(dst, EofFrame)>>)
            ELSE jobs(<<>>) /\ UNCHANGED mux
         /\ UNCHANGED <<queue, sched, update>>
      \/ /\ dst \notin task[n].finished
         /\ x \in Muxers => ~Waiting(x)
         /\ queue' = SendFinished(x, i)
         /\ jobs(IF x \in Muxers THEN <<Report(dst, EofFrame)>> ELSE <<>>)
         /\ IF x \in Filters
            THEN Reschedule(n, [sched EXCEPT !.sent = @ \cup {dst}])
            ELSE UNCHANGED <<sched, update>>
         /\ UNCHANGED mux

\* sch_filter_receive_finish, sch_mux_receive_finish once the queue is closed, and the end of
\* send_to_mux
ReportDst(n, dst, t) ==
  /\ Reschedule(n, IF dst[1] \in Filters THEN [sched EXCEPT !.received = @ \cup {dst}]
                   ELSE IF t = EofFrame THEN [sched EXCEPT !.done = @ \cup {dst}]
                   ELSE [sched EXCEPT !.last[dst] = t])
  /\ queue' = IF dst[1] \in Filters THEN [queue EXCEPT ![n].closed = @ \cup {dst[2]}] ELSE queue
  /\ Done(n, <<>>)
  /\ UNCHANGED mux

\* the end of task_cleanup: sources have exited, muxers finish their streams
ExitTask(n) ==
  /\ task' = Become(n, "ended", <<>>)
  /\ IF n \in Sources THEN Reschedule(n, [sched EXCEPT !.exited = @ \cup {n}])
     ELSE IF n \in Muxers
     THEN Reschedule(n, [sched EXCEPT !.done = @ \cup {ms \in Streams : ms[1] = n}])
     ELSE UNCHANGED <<sched, update>>
  /\ queue' = IF n \in Muxers THEN [queue EXCEPT ![n].closed = Inputs(n)] ELSE queue
  /\ UNCHANGED mux

\* sch_filter_choke_inputs: the filter graph is not asked for input while it is configured
ChokeInputs(n) ==
  /\ Reschedule(n, [sched EXCEPT !.best[n] = NoInput])
  /\ Done(n, <<>>)
  /\ UNCHANGED <<queue, mux>>

DoJob(n) ==
  /\ Free(n) /\ task[n].todo # <<>>
  /\ LET job == Head(task[n].todo)
     IN  \/ /\ job.do = "send" /\ \/ Send(n, job.dst, job.t)
                                  \/ OpenEncoder(n, job.dst, job.t)
            /\ UNCHANGED <<sched, update>>
         \/ job.do = "flush" /\ Flush(n, job.dst[1]) /\ UNCHANGED <<sched, update>>
         \/ job.do = "finish" /\ FinishDst(n, job.dst)
         \/ job.do = "report" /\ ReportDst(n, job.dst, job.t)
         \/ job.do = "exit" /\ ExitTask(n)
         \/ job.do = "choke" /\ ChokeInputs(n)
  /\ UNCHANGED <<graph, choked, fgt, main, stopper, terminate>>

-----------------------------------------------------------------------------
(* The functions of the threads *)

others == <<graph, mux, choked, update, main, stopper, terminate>>

\* the demuxer has nothing more to read, or its next packet has no consumer left
AtEnd(d) == task[d].pos > Len(graph.file[d]) \/ AllFinished(d)
Packet(d) == graph.file[d][task[d].pos]
Unwanted(d) == Range(graph.out[d][Packet(d)[1]]) \subseteq task[d].finished

\* waiter_wait: 0 when n may go on, 1 when it must end
WaiterWait(n) ==
  /\ At(n, "run") /\ choked[n]
  /\ n \in Filters => fgt[n].next_in = NoInput /\ sched.best[n] = NoInput /\ ~HasItem(n)
  /\ n \in Demuxers => ~AtEnd(n) /\ ~Unwanted(n)
  /\ task' = Become(n, "wait", <<>>)
  /\ queue' = IF n \in Filters THEN Emptied(n) ELSE queue
  /\ UNCHANGED <<others, sched, fgt>>

MustEnd(n) == task[n].at = "wait" /\ terminate
MayProceed(n) == \/ At(n, "run") /\ ~choked[n]
                 \/ At(n, "wait") /\ (~choked[n] \/ terminate)

\* input_thread: a packet of a stream that has consumers left is sent to all of them
Demux(d) ==
  /\ \/ At(d, "run") /\ AtEnd(d) /\ End(d, FALSE)
     \/ /\ At(d, "run") /\ ~AtEnd(d) /\ Unwanted(d)
        /\ task' = [task EXCEPT ![d].pos = @ + 1]
        /\ UNCHANGED queue
     \/ /\ MayProceed(d) /\ ~AtEnd(d) /\ ~Unwanted(d)
        /\ IF MustEnd(d) THEN End(d, FALSE)
           ELSE /\ task' = [task EXCEPT ![d].pos = @ + 1, ![d].at = "run",
                                        ![d].todo = SendAll(d, Packet(d)[1], Packet(d)[2])]
                /\ UNCHANGED queue
  /\ UNCHANGED <<others, sched, fgt>>

\* decoder_thread; the end of its stream goes on as an empty frame
Decode(c) ==
  /\ \/ At(c, "run") /\ AllFinished(c) /\ End(c, FALSE)
     \/ /\ At(c, "run") /\ ~AllFinished(c) /\ HasItem(c)
        /\ queue' = Taken(c)
        /\ task' = Become(c, "run", SendAll(c, 1, Item(c)[2]))
     \/ /\ At(c, "run") /\ ~AllFinished(c) /\ AtEof(c)
        /\ task' = Become(c, "eof", SendAll(c, 1, EofFrame))
        /\ queue' = Emptied(c)
     \/ At(c, "eof") /\ End(c, FALSE)
  /\ UNCHANGED <<others, sched, fgt>>

\* encoder_thread; check_recording_time ends it early
Encode(e) ==
  /\ At(e, "run")
  /\ \/ /\ HasItem(e) /\ Item(e)[2] <= graph.limit
        /\ queue' = Taken(e)
        /\ task' = Become(e, "run", SendAll(e, 1, Item(e)[2]))
     \/ HasItem(e) /\ Item(e)[2] > graph.limit /\ End(e, FALSE)
     \/ AtEof(e) /\ End(e, StreamOf(e)[2] \notin mux[StreamOf(e)[1]].ready)
  /\ UNCHANGED <<others, sched, fgt>>

\* muxer_thread; of_streamcopy ends a stream early
Mux(m) ==
  /\ At(m, "run") /\ mux[m].state # "unready"
  /\ LET ms == <<m, Item(m)[1]>>
         t == Item(m)[2]
     IN  \/ /\ HasItem(m) /\ (IsCopy(ms) => t <= graph.limit)
            /\ mux' = [mux EXCEPT ![m].written[ms[2]] = Append(@, t)]
            /\ queue' = Taken(m) /\ UNCHANGED task
         \/ /\ HasItem(m) /\ IsCopy(ms) /\ t > graph.limit
            /\ queue' = [Taken(m) EXCEPT ![m].closed = @ \cup {ms[2]}]
            /\ task' = Become(m, "run", <<Report(ms, EofFrame)>>)
            /\ UNCHANGED mux
  /\ UNCHANGED <<graph, choked, sched, update, fgt, main, stopper, terminate>>

\* tq_receive drops what is queued for inputs that are closed, and waits for more
Discard(n) ==
  /\ At(n, "run") /\ queue[n].items # <<>> /\ Wanted(n) = {} /\ ~AtEof(n)
  /\ n \in Filters => fgt[n].next_in = sched.best[n] /\ fgt[n].next_in # NoInput
  /\ queue' = Emptied(n)
  /\ UNCHANGED <<others, sched, task, fgt>>

MuxEof(m) ==
  /\ At(m, "run") /\ mux[m].state # "unready" /\ AtEof(m) /\ End(m, FALSE)
  /\ UNCHANGED <<others, sched, fgt>>

-----------------------------------------------------------------------------
(* filter_thread.  What libavfilter does is external: a graph joins its inputs and its own    *)
(* sources, makes a frame at each of their times once it has a frame of all that go on, and   *)
(* asks its own sources only when a frame is requested.                                       *)

Held(f) == {i \in Inputs(f) : fgt[f].held[i] # <<>>}
Lacking(f) == {i \in Inputs(f) \ fgt[f].over : fgt[f].held[i] = <<>>}
OwnLeft(f) == fgt[f].made < graph.gen[f]
CanMake(f) == Lacking(f) = {} /\ (Held(f) # {} \/ OwnLeft(f))

\* The graph is configured once every input has had a frame or ended; until then it asks for the
\* first that has not, and tells nobody that it takes no more.
Configured(f) == fgt[f].got \/ fgt[f].sink # <<>> \/ Lacking(f) = {}
Asked(f) ==
  {i \in Lacking(f) : Configured(f) \/ \A j \in Lacking(f) : i <= j}

NextTime(f) ==
  LET times == {Head(fgt[f].held[i]) : i \in Held(f)}
               \cup (IF OwnLeft(f) THEN {fgt[f].made + 1} ELSE {})
  IN  CHOOSE t \in times : \A u \in times : t <= u

\* the graph after it has made a frame
Made(f) ==
  LET t == NextTime(f)
  IN  [fgt[f] EXCEPT !.held = [i \in Inputs(f) |-> IF i \in Held(f) /\ Head(@[i]) = t
                                                   THEN Tail(@[i]) ELSE @[i]],
                     !.made = IF OwnLeft(f) /\ t = @ + 1 THEN @ + 1 ELSE @]

\* sch_filter_receive: the input it waits for has changed
FilterAsk(f) ==
  /\ At(f, "run") /\ fgt[f].next_in # sched.best[f]
  /\ Reschedule(f, [sched EXCEPT !.best[f] = fgt[f].next_in])
  /\ UNCHANGED <<graph, queue, mux, choked, task, fgt, main, stopper, terminate>>

\* read_frames, when outputs are left; else the thread is at its end
ReadFrames(f) == IF AllFinished(f) THEN "close" ELSE "reap"

\* sch_filter_receive gets a frame, of whatever input, or the end of one; the frame with which
\* the graph can be configured makes it choke its inputs first
FilterReceive(f) ==
  /\ At(f, "run") /\ fgt[f].next_in = sched.best[f] /\ HasItem(f)
  /\ LET i == Item(f)[1]
         t == Item(f)[2]
     IN  /\ fgt' = IF t = EofFrame \/ t >= graph.trim[f][i]
                   THEN [fgt EXCEPT ![f].over = @ \cup {i}]
                   ELSE [fgt EXCEPT ![f].held[i] = Append(@, t)]
         /\ task' = Become(f, ReadFrames(f), IF t # EofFrame /\ ~Configured(f) /\ Lacking(f) = {i}
                                             THEN <<Choke(f)>> ELSE <<>>)
  /\ queue' = Taken(f)
  /\ UNCHANGED <<others, sched>>

\* it gets nothing because it asked for no input, and may go on or must end
FilterProceed(f) ==
  /\ MayProceed(f) /\ fgt[f].next_in = NoInput /\ sched.best[f] = NoInput
  /\ task[f].at = "run" => ~HasItem(f)
  /\ task' = Become(f, IF MustEnd(f) THEN "close" ELSE ReadFrames(f), <<>>)
  /\ queue' = IF task[f].at = "run" THEN Emptied(f) ELSE queue
  /\ UNCHANGED <<others, sched, fgt>>

FilterEof(f) ==
  /\ At(f, "run") /\ fgt[f].next_in = sched.best[f] /\ fgt[f].next_in # NoInput /\ AtEof(f)
  /\ task' = Become(f, "close", <<>>)
  /\ queue' = Emptied(f)
  /\ UNCHANGED <<others, sched, fgt>>

\* read_frames: frames in the sinks are sent; without sources of its own the graph makes them
\* as it gets its input
FilterReap(f) ==
  LET send(t) == FlattenSeq([o \in 1 .. Len(graph.out[f]) |-> SendAll(f, o, t)])
  IN  /\ At(f, "reap")
      /\ \/ /\ fgt[f].sink # <<>>
            /\ task' = Become(f, "reap", send(Head(fgt[f].sink)))
            /\ fgt' = [fgt EXCEPT ![f].sink = <<>>, ![f].got = TRUE]
         \/ /\ fgt[f].sink = <<>> /\ ~OwnLeft(f) /\ CanMake(f)
            /\ task' = Become(f, "reap", send(NextTime(f)))
            /\ fgt' = [fgt EXCEPT ![f] = [Made(f) EXCEPT !.got = TRUE]]
         \/ /\ fgt[f].sink = <<>> /\ (OwnLeft(f) \/ ~CanMake(f))
            /\ task' = Become(f, "request", <<>>)
            /\ UNCHANGED fgt
      /\ UNCHANGED <<others, sched, queue>>

\* avfilter_graph_request_oldest, then close_input for those that take no more
FilterRequest(f) ==
  LET closes == SetToSeq({Report(<<f, i>>, NoTime) :
                            i \in {j \in fgt[f].over : Configured(f) /\ <<f, j>> \notin sched.received}})
  IN  /\ At(f, "request")
      /\ \/ /\ CanMake(f)
            /\ fgt' = [fgt EXCEPT ![f] = [Made(f) EXCEPT !.sink = <<NextTime(f)>>,
                                                         !.next_in = NoInput]]
            /\ task' = Become(f, "run", closes)
         \/ /\ ~CanMake(f) /\ Lacking(f) = {}
            /\ task' = Become(f, "close", <<>>) /\ UNCHANGED fgt
         \/ /\ \E i \in Asked(f) : fgt' = [fgt EXCEPT ![f].next_in = i]
            /\ task' = Become(f, "run", closes)
      /\ UNCHANGED <<others, sched, queue>>

\* outputs that are left are closed; one that has seen no frame still opens its encoder
FilterClose(f) ==
  LET close(dst) == (IF fgt[f].got THEN <<>> ELSE <<Job("send", dst, NoTime)>>) \o <<Finish(dst)>>
  IN  /\ \/ /\ At(f, "close")
            /\ task' = Become(f, "eof", FlattenSeq([k \in 1 .. Len(Dsts(f)) |-> close(Dsts(f)[k])]))
            /\ UNCHANGED queue
         \/ At(f, "eof") /\ End(f, FALSE)
      /\ UNCHANGED <<others, sched, fgt>>

Filter(f) ==
  \/ FilterAsk(f) \/ FilterReceive(f) \/ FilterProceed(f) \/ FilterEof(f)
  \/ FilterReap(f) \/ FilterRequest(f) \/ FilterClose(f)

\* an error of a codec, a filter or a file
Fail(n) ==
  /\ graph.name \in MayFail /\ \A x \in Nodes : ~task[x].failed
  /\ At(n, "run") /\ End(n, TRUE)
  /\ n \in Muxers => mux[n].state # "unready"
  /\ UNCHANGED <<others, sched, fgt>>

-----------------------------------------------------------------------------
(* sch_start, sch_wait, sch_stop and sch_request_stop *)

rest == <<graph, mux, sched, task, fgt>>

\* sch_start, once the threads run
Start ==
  /\ main = "start" /\ Reschedule("main", sched)
  /\ main' = "wait"
  /\ UNCHANGED <<graph, queue, mux, choked, sched, task, fgt, stopper, terminate>>

Ended(n) == task[n].at = "ended"

\* sch_wait tells that all is done, or nothing more will be; sch_stop begins
Stop ==
  /\ main = "wait" /\ update.by # "main"
  /\ (\A m \in Muxers : Ended(m)) \/ (\E n \in Nodes : Ended(n) /\ task[n].failed) \/ terminate
  /\ terminate' = TRUE /\ main' = "stop"
  /\ UNCHANGED <<rest, queue, choked, update, stopper>>

\* Mutant of ChokeAll: schedule_lock is not taken.
ChokeAllUnlocked ==
  /\ main = "stop"
  /\ choked' = [x \in Sources |-> TRUE]
  /\ queue' = ChokeQueues(Demuxers, FALSE)
  /\ main' = "join"
  /\ UNCHANGED <<rest, update, stopper, terminate>>

\* with schedule_lock: sources are choked for good, and the queues let go
ChokeAll ==
  /\ main = "stop" /\ update = Nobody
  /\ choked' = [x \in Sources |-> TRUE]
  /\ queue' = ChokeQueues(Demuxers, FALSE)
  /\ main' = "join"
  /\ UNCHANGED <<rest, update, stopper, terminate>>

\* task_stop joins all threads that were started
Join ==
  /\ main = "join"
  /\ \A n \in Nodes : Ended(n) \/ (n \in Muxers /\ mux[n].state = "unready")
  /\ main' = "stopped"
  /\ UNCHANGED <<rest, queue, choked, update, stopper, terminate>>

RequestStop ==
  /\ stopper.at = "idle" /\ main # "stopped"
  /\ stopper' = [at |-> "walk", left |-> Sources]
  /\ terminate' = TRUE
  /\ UNCHANGED <<rest, queue, choked, update, main>>

\* without schedule_lock: one source after the other, filter graphs first
RequestWalk ==
  /\ stopper.at = "walk"
  /\ \/ \E x \in stopper.left :
          /\ x \in Demuxers => stopper.left \subseteq Demuxers
          /\ choked' = [choked EXCEPT ![x] = TRUE]
          /\ queue' = ChokeQueues({x} \cap Demuxers, FALSE)
          /\ stopper' = [stopper EXCEPT !.left = @ \ {x}]
     \/ /\ stopper.left = {}
        /\ stopper' = [stopper EXCEPT !.at = "ended"]
        /\ UNCHANGED <<choked, queue>>
  /\ UNCHANGED <<rest, update, main, terminate>>

Finished == main = "stopped" /\ UNCHANGED vars

\* the steps no client and no error is needed for
Progress ==
  \/ Apply \/ Start \/ Stop \/ ChokeAll \/ Join \/ RequestWalk
  \/ \E n \in Nodes : DoJob(n)
  \/ \E n \in Sources : WaiterWait(n)
  \/ \E d \in Demuxers : Demux(d)
  \/ \E c \in OfKind("dec") : Decode(c)
  \/ \E f \in Filters : Filter(f)
  \/ \E e \in OfKind("enc") : Encode(e)
  \/ \E m \in Muxers : Mux(m) \/ MuxEof(m)
  \/ \E n \in Filters \cup Muxers : Discard(n)

Next == Progress \/ RequestStop \/ (\E n \in Nodes : Fail(n)) \/ Finished

Spec == Init /\ [][Next]_vars

-----------------------------------------------------------------------------
(* Properties *)

\* The type invariant.
TypeOK ==
  /\ graph.name \in DOMAIN Graphs
  /\ \A n \in Receivers :
       /\ Len(queue[n].items) <= QueueSize
       /\ queue[n].sent \cup queue[n].closed \subseteq Inputs(n)
  /\ \A m \in Muxers : /\ mux[m].state \in {"unready", "flushing", "started"}
                       /\ mux[m].ready \subseteq Inputs(m)
                       /\ mux[m].state = "unready" <=> mux[m].ready # Inputs(m)
  /\ choked \in [Sources -> BOOLEAN]
  /\ sched.done \subseteq Streams /\ sched.exited \subseteq Sources
  /\ update.unchoke \cap update.choke = {}
  /\ \A n \in Nodes : /\ task[n].at \in {"run", "wait", "reap", "request", "close", "eof", "done", "ended"}
                      /\ task[n].finished \subseteq Range(Dsts(n))
  /\ main \in {"start", "wait", "stop", "join", "stopped"}
  /\ terminate \in BOOLEAN

\* the thread waits for room in a queue, or for the muxer another thread starts
WaitsToSend(n) ==
  /\ task[n].todo # <<>>
  /\ LET job == Head(task[n].todo)
         x == job.dst[1]
         full == ~HasRoom(x) /\ job.dst[2] \notin queue[x].closed
         opened == graph.kind[x] = "enc" => StreamOf(x)[2] \in mux[StreamOf(x)[1]].ready
     IN  CASE job.do = "send" /\ job.dst \notin task[n].finished ->
                IF opened /\ (x \in Muxers => ~Waiting(x)) THEN full ELSE Flushing
           [] job.do = "finish" /\ job.dst \notin task[n].finished ->
                x \in Muxers /\ Waiting(x) /\ Flushing
           [] job.do = "flush" ->
                /\ \E i \in Inputs(x) : mux[x].pre[i] # <<>>
                /\ LET i == NextPre(x)
                   IN  ~HasRoom(x) /\ Head(mux[x].pre[i]) # EofFrame /\ i \notin queue[x].closed
           [] OTHER -> FALSE

\* the thread waits for its queue
WaitsToReceive(n) ==
  /\ n \in Receivers /\ At(n, "run") /\ ~HasItem(n) /\ ~AtEof(n)
  /\ n \in Filters => fgt[n].next_in = sched.best[n] /\ fgt[n].next_in # NoInput
  /\ graph.kind[n] = "dec" => ~AllFinished(n)
  /\ queue[n].items = <<>> \/ queue[n].choked

Waits(n) ==
  \/ WaitsToSend(n) \/ WaitsToReceive(n)
  \/ task[n].at = "wait" /\ choked[n] /\ ~terminate
  \/ Ended(n)
  \/ n \in Muxers /\ mux[n].state = "unready"

\* Whatever is choked and however full the queues are, some thread can go on until there is
\* nothing left to do, or sch_stop has joined all that were started: neither the choice of the
\* sources that may proceed nor the end of a thread ever leaves the others waiting for good.
NobodyIsStuck ==
  ((\A n \in Nodes : Waits(n)) /\ update = Nobody) =>
    CASE main = "wait" -> terminate \/ (\A m \in Muxers : Ended(m)) \/ \E n \in Nodes : task[n].failed
      [] main = "join" -> \A n \in Nodes : Ended(n) \/ (n \in Muxers /\ mux[n].state = "unready")
      [] OTHER -> TRUE

\* Once sch_stop has choked the sources they stay choked, and the queues free, although a
\* request to stop walks over the waiters without the lock while a thread applies an older
\* decision to them: no source goes on while sch_stop joins the threads.
StopIsFinal ==
  main \in {"join", "stopped"} =>
    (\A x \in Sources : choked[x]) /\ (\A n \in Receivers : ~queue[n].choked)

\* A demuxer with a single output that is copied gets no further ahead of the trailing stream
\* than the tolerance.
OutputsStayTogether ==
  ~terminate =>
    \A ms \in Unfinished(sched) :
      (IsCopy(ms) /\ Len(Dsts(SrcOf(ms))) = 1) =>
        \A other \in Unfinished(sched) :
          sched.last[ms] - (IF sched.last[other] = NoTime THEN 0 ELSE sched.last[other]) <= Tolerance

\* A stream is written in the order it was sent, though its first packets wait for the muxer to
\* start and the thread that starts it moves them while others go on sending.
WrittenInOrder ==
  \A m \in Muxers : \A i \in Inputs(m) :
    \A j, k \in DOMAIN mux[m].written[i] : j < k => mux[m].written[i][j] < mux[m].written[i][k]

\* the times of what the files and the graphs have for a destination
Due ==
  LET due[dst \in DOMAIN graph.src] ==
        LET n == SrcOf(dst)
        IN  CASE n \in Demuxers -> {p[2] : p \in {q \in Range(graph.file[n]) :
                                                    dst \in Range(graph.out[n][q[1]])}}
              [] n \in Filters -> (1 .. graph.gen[n]) \cup
                    UNION {{t \in due[<<n, i>>] : t < graph.trim[n][i]} : i \in Inputs(n)}
              [] OTHER -> due[<<n, 1>>]
  IN  due

\* When all muxers have ended and nothing has failed or was cancelled, the outputs hold all
\* that was due up to the limit: no packet is lost where a muxer starts late, a source is
\* choked, or a consumer ends before its producer.
WrittenIsWhole ==
  (main = "wait" /\ ~terminate /\ \A n \in Nodes : ~task[n].failed /\ (n \in Muxers => Ended(n))) =>
    \A ms \in Streams :
      Range(mux[ms[1]].written[ms[2]]) = {t \in Due[ms] : t <= graph.limit}

=============================================================================
