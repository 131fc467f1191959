------------------------ MODULE SessionStateMachine ------------------------
(***************************************************************************)
(* The explicit session state machine of libs/session: the orchestration   *)
(* stages of one request and the events that move it between them.         *)
(*                                                                         *)
(* The C++ class guards its state with a mutex, so every dispatch() is one *)
(* atomic step of whichever thread calls it.  A module that uses a machine *)
(* keeps its state in a variable of its own and applies Dispatch to it.    *)
(* The textual trace of transitions is left out.                           *)
(***************************************************************************)

\* SessionStateMachine::State.
SmStates == {"idle", "listening", "routing", "thinking", "speaking", "cancelling"}

\* SessionStateMachine::Event.
SmEvents == {"audio_start", "asr_final", "route_l0_l1", "route_l2_l3",
             "llm_done", "tts_done", "cancel", "cancel_complete"}

\* cancel is accepted in every stage of a request.  In idle it succeeds as a
\* no-op and in cancelling it is rejected: both leave the state alone.
Cancellable(s) == s \in {"listening", "routing", "thinking", "speaking"}

\* dispatch(e) in state s: the state it leaves.  An illegal event returns
\* false and changes nothing.
Dispatch(s, e) ==
  CASE s = "idle"       /\ e = "audio_start"     -> "listening"
    [] s = "listening"  /\ e = "asr_final"       -> "routing"
    [] s = "routing"    /\ e = "route_l0_l1"     -> "speaking"
    [] s = "routing"    /\ e = "route_l2_l3"     -> "thinking"
    [] s = "thinking"   /\ e = "llm_done"        -> "speaking"
    [] s = "speaking"   /\ e = "tts_done"        -> "idle"
    [] s = "cancelling" /\ e = "cancel_complete" -> "idle"
    [] Cancellable(s)   /\ e = "cancel"          -> "cancelling"
    [] OTHER                                     -> s

=============================================================================
