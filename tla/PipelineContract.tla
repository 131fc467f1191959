-------------------------- MODULE PipelineContract --------------------------
(***************************************************************************)
(* What a SessionPipeline promises to the session that owns it, with the   *)
(* threads, queues and stages left out: one run at a time, a run that only *)
(* reports ok when no cancellation was seen at its conclusion, and an      *)
(* output that a cancellation stops, up to one frame already on its way or *)
(* the padding of an output that was complete before the cancellation.     *)
(* A cancellation is forgotten when a run arms itself, not when it begins. *)
(***************************************************************************)
EXTENDS Naturals

CONSTANT MinFrames  \* the frames to which a complete output is padded

VARIABLES
  phase,    \* "free", "arming", "working", "padding", "closing" or "ending"
  stop,     \* a cancellation is pending
  graced,   \* the one frame a cancellation may let through has been written
  mayBeOk,  \* the run in its ending phase can still report ok
  frames,   \* frames written by the run
  last      \* outcome of the latest run

contractVars == <<phase, stop, graced, mayBeOk, frames, last>>

Init ==
  /\ phase = "free" /\ stop = FALSE /\ graced = FALSE /\ mayBeOk = FALSE
  /\ frames = 0 /\ last = "none"

Begin ==
  /\ phase = "free" /\ phase' = "arming"
  /\ UNCHANGED <<stop, graced, mayBeOk, frames, last>>

Arm ==
  /\ phase = "arming" /\ phase' = "working"
  /\ stop' = FALSE /\ graced' = FALSE /\ frames' = 0
  /\ UNCHANGED <<mayBeOk, last>>

\* Output: freely before a cancellation, one frame at most after it.
Write ==
  /\ phase = "working"
  /\ frames' > frames /\ frames' \in Nat
  /\ IF stop
     THEN ~graced /\ frames' = frames + 1 /\ graced' = TRUE
     ELSE UNCHANGED graced
  /\ UNCHANGED <<phase, stop, mayBeOk, last>>

\* The answer is out and no cancellation is pending: whatever comes now, the padding is
\* not called off.
Pad ==
  /\ phase = "working" /\ ~stop /\ phase' = "padding"
  /\ UNCHANGED <<stop, graced, mayBeOk, frames, last>>

WriteSilence ==
  /\ phase = "padding" /\ frames < MinFrames /\ frames' = frames + 1
  /\ UNCHANGED <<phase, stop, graced, mayBeOk, last>>

\* Past this point nothing is written.
Close ==
  /\ phase \in {"working", "padding"} /\ phase' = "closing"
  /\ UNCHANGED <<stop, graced, mayBeOk, frames, last>>

\* The run looks at the cancellation for the last time, or could not start its output.
Conclude ==
  /\ phase \in {"working", "closing"} /\ phase' = "ending"
  /\ mayBeOk' \in {FALSE, ~stop}
  /\ UNCHANGED <<stop, graced, frames, last>>

GiveUp ==
  /\ phase = "ending" /\ mayBeOk /\ mayBeOk' = FALSE
  /\ UNCHANGED <<phase, stop, graced, frames, last>>

Finish ==
  /\ phase = "ending" /\ phase' = "free"
  /\ last' \in {"cancelled", "failed"} \cup (IF mayBeOk THEN {"ok"} ELSE {})
  /\ mayBeOk' = FALSE
  /\ UNCHANGED <<stop, graced, frames>>

Cancel ==
  /\ stop' = TRUE
  /\ UNCHANGED <<phase, graced, mayBeOk, frames, last>>

Next ==
  \/ Begin \/ Arm \/ Write \/ Pad \/ WriteSilence \/ Close
  \/ Conclude \/ GiveUp \/ Finish \/ Cancel

Spec == Init /\ [][Next]_contractVars

=============================================================================
