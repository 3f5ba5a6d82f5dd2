---------------------------- MODULE MCScheduler ----------------------------
(***************************************************************************)
(* What some command lines build, for TLC.                                 *)
(***************************************************************************)
EXTENDS Scheduler

Never == 99

\* -i in out: decoded, filtered and encoded
Transcode ==
  [kind |-> [d |-> "demux", c |-> "dec", f |-> "filter", e |-> "enc", m |-> "mux"],
   out |-> [d |-> << <<<<"c", 1>>>> >>, c |-> << <<<<"f", 1>>>> >>,
            f |-> << <<<<"e", 1>>>> >>, e |-> << <<<<"m", 1>>>> >>, m |-> <<>>],
   file |-> [d |-> <<<<1, 1>>, <<1, 2>>>>],
   gen |-> [f |-> 0], trim |-> [f |-> <<Never>>], limit |-> Never]

\* -i in -f lavfi -i ... -t 1: a file that is copied beside a source filter graph that is encoded
SourceAndCopy ==
  [kind |-> [d |-> "demux", g |-> "filter", e |-> "enc", m |-> "mux"],
   out |-> [d |-> << <<<<"m", 1>>>> >>, g |-> << <<<<"e", 1>>>> >>, e |-> << <<<<"m", 2>>>> >>,
            m |-> <<>>],
   file |-> [d |-> <<<<1, 1>>, <<1, 2>>>>],
   gen |-> [g |-> 2], trim |-> [g |-> <<>>], limit |-> 1]

\* two files joined by a filter graph that trims the second one
TwoFiles ==
  [kind |-> [d1 |-> "demux", d2 |-> "demux", c1 |-> "dec", c2 |-> "dec", f |-> "filter",
             e |-> "enc", m |-> "mux"],
   out |-> [d1 |-> << <<<<"c1", 1>>>> >>, d2 |-> << <<<<"c2", 1>>>> >>,
            c1 |-> << <<<<"f", 1>>>> >>, c2 |-> << <<<<"f", 2>>>> >>,
            f |-> << <<<<"e", 1>>>> >>, e |-> << <<<<"m", 1>>>> >>, m |-> <<>>],
   file |-> [d1 |-> <<<<1, 2>>>>, d2 |-> <<<<1, 1>>>>],
   gen |-> [f |-> 0], trim |-> [f |-> <<Never, 1>>], limit |-> Never]

\* -i in -map 0:v -vf <with a source of its own> -map 0:v -c copy -map 0:a -c copy: the video
\* is encoded and copied, the audio is copied
FilterThenCopy ==
  [kind |-> [d |-> "demux", c |-> "dec", f |-> "filter", e |-> "enc", m |-> "mux"],
   out |-> [d |-> << <<<<"c", 1>>, <<"m", 3>>>>, <<<<"m", 2>>>> >>, c |-> << <<<<"f", 1>>>> >>,
            f |-> << <<<<"e", 1>>>> >>, e |-> << <<<<"m", 1>>>> >>, m |-> <<>>],
   file |-> [d |-> <<<<1, 1>>, <<1, 2>>, <<1, 3>>, <<1, 4>>, <<1, 5>>, <<1, 6>>, <<2, 1>>>>],
   gen |-> [f |-> 2], trim |-> [f |-> <<Never>>], limit |-> Never]

\* the same outputs, the copied video first
CopyThenFilter ==
  [FilterThenCopy EXCEPT !.out.d = << <<<<"m", 3>>, <<"c", 1>>>>, <<<<"m", 2>>>> >>]

MCGraphs == [transcode |-> Transcode, source |-> SourceAndCopy, two |-> TwoFiles,
             copied |-> FilterThenCopy]
MCCopyGraphs == [copied |-> CopyThenFilter]

=============================================================================
