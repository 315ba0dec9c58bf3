--------------------------- MODULE SimulatorBuffers ---------------------------
(***************************************************************************)
(* The two system buffers every simulator works on, and what each buffer   *)
(* given to a step holds afterwards.  A state of the simulated system is   *)
(* named by the number of steps that led to it.                            *)
(***************************************************************************)
EXTENDS Integers

CONSTANTS MaxSteps,  \* steps until the simulated duration is over
          None       \* nullptr

SimulatorAssumption == MaxSteps \in Nat /\ None \notin Int

\* A buffer has the number of the step it is acquired for; the two that
\* initialize receives come first.
Steps   == 1 .. MaxSteps
Buffers == -1 .. MaxSteps
InitialSystem == -1
SystemBuffer  == 0

VARIABLES previous,  \* previous_system_ (HITS: system_)
          current,   \* system_ (HITS: temp_system_)
          content    \* which state each buffer holds

simulatorVars == <<previous, current, content>>

SimulatorInit ==
  /\ previous = None /\ current = None
  /\ content = [b \in Buffers |-> 0]

Initialize ==
  /\ previous' = InitialSystem /\ current' = SystemBuffer
  /\ UNCHANGED content

\* Faulty variant: given no buffer, the newest state is advanced in place.
StepInPlace(buffer, state) ==
  LET target == IF buffer = None THEN previous ELSE buffer
  IN  /\ content' = [content EXCEPT ![target] = state]
      /\ previous' = target
      /\ UNCHANGED current

\* Euler, Leapfrog, Hermite and Barnes-Hut compute the next state into the
\* buffer they are given, or into the older of their own, and swap.
SwapStep(buffer, state) ==
  LET target == IF buffer = None THEN current ELSE buffer
  IN  /\ content' = [content EXCEPT ![target] = state]
      /\ previous' = target
      /\ current' = previous

\* HITS advances its own system and copies it into the buffer it is given.
CopyStep(buffer, state) ==
  /\ content' = [b \in Buffers |-> IF b \in {previous, buffer} THEN state ELSE content[b]]
  /\ UNCHANGED <<previous, current>>

\* HITS copies, the other simulators do not.
SimulatorStep(copies, buffer, state) ==
  IF copies THEN CopyStep(buffer, state) ELSE SwapStep(buffer, state)

\* The simulator is destroyed with its worker.
DestroySimulator == previous' = None /\ current' = None /\ UNCHANGED content
=============================================================================
