-------------------------------- MODULE MCLive --------------------------------
(***************************************************************************)
(* Instances of LivePipeline: what a runner may be constructed with.       *)
(***************************************************************************)
EXTENDS LivePipeline

\* Both files are written at every step; queues of one, so the pushes of the
\* simulation thread and of the sentinels wait for the workers.  The pools
\* outlast the run, as 512 buffers outlast the wait for a slow reader.
Files ==
  [pool |-> 5, capacity |-> 1, saved |-> Kinds, wants |-> {Kinds}, copies |-> FALSE, steps |-> 3]

\* More diagnostics snapshots than buffers, and queues as long as the pools
\* are large: the simulation thread waits for the chart and the file.
Pressure ==
  [pool |-> 2, capacity |-> 2, saved |-> {"diagnostics"}, wants |-> {{"diagnostics"}, {}},
   copies |-> FALSE, steps |-> 4]

\* HITS, which copies; some steps retrieve the system and some do not.
Rendering ==
  [pool |-> 5, capacity |-> 5, saved |-> {"system"}, wants |-> {{"system"}, {}},
   copies |-> TRUE, steps |-> 4]

\* A simulator that swaps, with the same steps: what it has published it
\* overwrites.
Swapping ==
  [pool |-> 4, capacity |-> 1, saved |-> {"system"}, wants |-> {{"system"}, {}},
   copies |-> FALSE, steps |-> 4]

LiveConfigurations == {Files, Pressure, Rendering, Swapping}

\* The closures posted for the chart can hold every diagnostics buffer.
HangConfigurations ==
  {[pool |-> 2, capacity |-> 2, saved |-> {}, wants |-> {{"diagnostics"}},
    copies |-> FALSE, steps |-> 3]}

\* The smallest simulation that is aborted.
AbortConfigurations ==
  {[pool |-> 5, capacity |-> 2, saved |-> {}, wants |-> {{"diagnostics"}},
    copies |-> FALSE, steps |-> 1]}
=============================================================================
