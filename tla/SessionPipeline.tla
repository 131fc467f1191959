-------------------------- MODULE SessionPipeline --------------------------
(***************************************************************************)
(* libs/session SessionPipeline: one request at a time through ASR, the    *)
(* router, the LLM and the synthesiser, into an audio sink.                *)
(*                                                                         *)
(* Threads.  A driver is a thread that calls run(): it holds `running`     *)
(* while it is inside, drives ASR, routing and the LLM itself, then starts *)
(* a TTS worker and a sink worker and joins both.  A canceller is a thread *)
(* that calls cancel() at any moment.  Only one driver is past the         *)
(* compare-and-swap at a time, so the locals of run() are single           *)
(* variables: `run`, the two queues, `out` and the two workers.            *)
(*                                                                         *)
(* Data.  A sentence is its rank among the sentences offered to the text   *)
(* queue, a PCM frame is the pair of its sentence and its rank in it.      *)
(* Every backend call may emit any number of results up to a bound, return *)
(* early or throw: that covers what cancel() does to a backend.  Time is   *)
(* one nondeterministic event per run, the expiry of its deadline, and a   *)
(* push on a full queue may give up at any moment.                         *)
(***************************************************************************)
EXTENDS Naturals, Sequences, FiniteSets, SessionStateMachine, BoundedQueue

CONSTANTS
  Drivers,        \* threads that call run()
  Cancellers,     \* threads that call cancel()
  TextCapacity,   \* PipelineConfig::text_queue_capacity
  PcmCapacity,    \* PipelineConfig::pcm_queue_capacity
  MinFrames,      \* the frames tts_min_duration amounts to, 0 for no padding
  MaxCalls,       \* bound: calls of run() per driver
  MaxCancels,     \* bound: calls of cancel() per canceller
  MaxChunks,      \* bound: audio frames fed to the ASR per request
  MaxTokens,      \* bound: tokens per LLM call
  MaxSentences,   \* bound: sentences one text is split into
  MaxFrames       \* bound: PCM frames per sentence

ASSUME ConstantsAssumption ==
  /\ TextCapacity \in Nat /\ PcmCapacity \in Nat /\ MinFrames \in Nat
  /\ MaxCalls \in Nat     /\ MaxCancels \in Nat  /\ MaxChunks \in Nat
  /\ MaxTokens \in Nat    /\ MaxSentences \in Nat /\ MaxFrames \in Nat

VARIABLES
  running,      \* running_: a run is in flight
  cancelled,    \* cancelled_
  generation,   \* generation_
  activeGen,    \* active_generation_
  sm,           \* state_machine_
  pc,           \* where each driver is; "idle" outside run()
  calls,        \* calls of run() each driver has made
  run,          \* the locals and the result of the run in flight
  textQ,        \* text_queue
  pcmQ,         \* pcm_queue
  out,          \* the sink: whether it is open and the frames written to it
  tts,          \* tts_thread: where it is, its sentence, its output
  sink,         \* sink_thread: where it is and its frame
  cpc,          \* where each canceller is; "idle" outside cancel()
  cancels,      \* calls of cancel() each canceller has made
  last,         \* outcome of the latest completed run
  acct          \* history of the run in flight, read by the properties only

members == <<running, cancelled, generation, activeGen>>
drivers == <<pc, calls, run, last>>
queues  == <<textQ, pcmQ>>
workers == <<tts, sink>>
cancellers == <<cpc, cancels>>
vars == <<members, sm, drivers, queues, out, workers, cancellers, acct>>

-----------------------------------------------------------------------------
(* Types *)

\* Program points of run(), named for what the driver does next.
Labels == {"idle", "clear", "reset", "open", "listen", "asr", "asr_final",
           "route", "l0_l1", "l2_l3", "direct", "llm", "flush", "speak",
           "close_text", "join_tts", "join_sink", "pad", "padding", "close_sink",
           "check", "conclude", "abort", "complete", "leave"}

Outcomes == {"none", "ok", "cancelled", "failed"}

Frames == Nat \X Nat
Silence == <<0, 0>>

\* error: result.error is not empty.  todo: results the backend call in
\* progress may still emit.  pend: sentences still to push.
RunType == [gen : Nat, limited : BOOLEAN, expired : BOOLEAN, error : BOOLEAN,
            query : BOOLEAN, todo : Nat, pend : Nat, sinkOk : BOOLEAN,
            cancelled : BOOLEAN, ok : BOOLEAN,
            droppedText : Nat, droppedPcm : Nat, pcmFrames : Nat]

AcctType == [offered : Nat, synthesised : Nat, produced : Nat, refused : Nat,
             late : Nat, flagged : BOOLEAN]

TypeOK ==
  /\ running \in BOOLEAN /\ cancelled \in BOOLEAN
  /\ generation \in Nat  /\ activeGen \in Nat
  /\ sm \in SmStates
  /\ pc \in [Drivers -> Labels]
  /\ calls \in [Drivers -> Nat]
  /\ run \in RunType
  /\ textQ \in QueueType(Nat)
  /\ pcmQ \in QueueType(Frames)
  /\ out \in [open : BOOLEAN, log : Seq(Frames)]
  /\ tts \in [at : {"none", "take", "check", "synth", "push", "done"},
              sentence : Nat, todo : Nat, k : Nat]
  /\ sink \in [at : {"none", "take", "check", "write", "done"}, frame : Frames]
  /\ cpc \in [Cancellers -> {"idle", "flag", "dispatch"}]
  /\ cancels \in [Cancellers -> Nat]
  /\ last \in Outcomes
  /\ acct \in AcctType

-----------------------------------------------------------------------------
(* Helpers *)

NewRun(gen, limited) ==
  [gen |-> gen, limited |-> limited, expired |-> FALSE, error |-> FALSE,
   query |-> FALSE, todo |-> 0, pend |-> 0, sinkOk |-> FALSE,
   cancelled |-> FALSE, ok |-> FALSE,
   droppedText |-> 0, droppedPcm |-> 0, pcmFrames |-> 0]

NewAcct == [offered |-> 0, synthesised |-> 0, produced |-> 0, refused |-> 0,
            late |-> 0, flagged |-> FALSE]

NoTts == [at |-> "none", sentence |-> 0, todo |-> 0, k |-> 0]
NoSink == [at |-> "none", frame |-> Silence]

At(d, l) == pc[d] = l
Goto(d, l) == pc' = [pc EXCEPT ![d] = l]

\* is_active: the filter every backend callback and both workers apply.  The
\* request id is set together with active_generation_ and adds nothing.
IsActive == ~cancelled /\ run.gen = activeGen

\* The condition on which each stage is entered.
CanGoOn == ~run.error /\ ~cancelled /\ ~run.expired

Outcome == IF run.ok THEN "ok" ELSE IF run.cancelled THEN "cancelled" ELSE "failed"

\* An event the driver submits to the state machine on its way to label l.
Submit(d, e, l) == sm' = Dispatch(sm, e) /\ Goto(d, l)

Init ==
  /\ running = FALSE /\ cancelled = FALSE
  /\ generation = 0  /\ activeGen = 0
  /\ sm = "idle"
  /\ pc = [d \in Drivers |-> "idle"]
  /\ calls = [d \in Drivers |-> 0]
  /\ run = NewRun(0, FALSE)
  /\ textQ = NewQueue /\ pcmQ = NewQueue
  /\ out = [open |-> FALSE, log |-> <<>>]
  /\ tts = NoTts /\ sink = NoSink
  /\ cpc = [c \in Cancellers |-> "idle"]
  /\ cancels = [c \in Cancellers |-> 0]
  /\ last = "none"
  /\ acct = NewAcct

-----------------------------------------------------------------------------
(* The driver: entering run() *)

\* Mutant: the compare-and-swap is a plain store.
EnterUnguarded(d) ==
  /\ At(d, "idle") /\ calls[d] < MaxCalls
  /\ running' = TRUE
  /\ calls' = [calls EXCEPT ![d] = @ + 1]
  /\ Goto(d, "clear")
  /\ UNCHANGED <<cancelled, generation, activeGen, sm, run, last, queues, out,
                 workers, cancellers, acct>>

\* The compare-and-swap on running_ succeeds.
Enter(d) ==
  /\ At(d, "idle") /\ calls[d] < MaxCalls
  /\ ~running /\ running' = TRUE
  /\ calls' = [calls EXCEPT ![d] = @ + 1]
  /\ Goto(d, "clear")
  /\ UNCHANGED <<cancelled, generation, activeGen, sm, run, last, queues, out,
                 workers, cancellers, acct>>

\* It fails: another run is in flight, and the call returns an error.
Reject(d) ==
  /\ At(d, "idle") /\ calls[d] < MaxCalls
  /\ running
  /\ calls' = [calls EXCEPT ![d] = @ + 1]
  /\ UNCHANGED <<members, sm, pc, run, last, queues, out, workers, cancellers, acct>>

ClearCancelled(d) ==
  /\ At(d, "clear")
  /\ cancelled' = FALSE
  /\ Goto(d, "reset")
  /\ UNCHANGED <<running, generation, activeGen, sm, calls, run, last, queues,
                 out, workers, cancellers, acct>>

ResetMachine(d) ==
  /\ At(d, "reset")
  /\ sm' = "idle"
  /\ Goto(d, "open")
  /\ UNCHANGED <<members, calls, run, last, queues, out, workers, cancellers, acct>>

\* The new generation, the fresh queues and the sink.  A sink that does not
\* open ends the run at once, before any event reached the state machine.
Open(d) ==
  /\ At(d, "open")
  /\ generation' = generation + 1
  /\ activeGen' = generation + 1
  /\ textQ' = NewQueue /\ pcmQ' = NewQueue
  /\ tts' = NoTts /\ sink' = NoSink
  /\ acct' = [NewAcct EXCEPT !.flagged = cancelled]
  /\ \E limited \in BOOLEAN :
       LET fresh == NewRun(generation + 1, limited)
       IN  \/ /\ run' = fresh
              /\ out' = [open |-> TRUE, log |-> <<>>]
              /\ Goto(d, "listen")
           \/ /\ run' = [fresh EXCEPT !.error = TRUE]
              /\ out' = [open |-> FALSE, log |-> <<>>]
              /\ Goto(d, "leave")
  /\ UNCHANGED <<running, cancelled, sm, calls, last, cancellers>>

\* What the steps below leave alone: they move the driver and its locals.
DriverOnly == UNCHANGED <<members, calls, last, queues, out, workers, cancellers, acct>>

-----------------------------------------------------------------------------
(* Stage 1: the input and the ASR *)

\* kAudioStart, then the input: a text (error if empty), or samples to feed
\* (error if the file or the recording has none).
Listen(d) ==
  /\ At(d, "listen")
  /\ \/ \E usable \in BOOLEAN :
          /\ run' = [run EXCEPT !.query = usable, !.error = ~usable]
          /\ Submit(d, "audio_start", "asr_final")
     \/ \E n \in 1..MaxChunks :
          /\ run' = [run EXCEPT !.todo = n]
          /\ Submit(d, "audio_start", "asr")
  /\ DriverOnly

\* feed_audio of one chunk; the ASR may answer with its final text.
FeedAudio(d) ==
  /\ At(d, "asr") /\ run.todo > 0
  /\ ~cancelled /\ ~run.expired
  /\ \E heard \in {run.query, TRUE} :
       run' = [run EXCEPT !.todo = @ - 1, !.query = heard]
  /\ DriverOnly /\ UNCHANGED <<sm, pc>>

StopFeeding(d) ==
  /\ At(d, "asr")
  /\ run.todo = 0 \/ cancelled \/ run.expired
  /\ run' = [run EXCEPT !.todo = 0, !.error = ~run.query]
  /\ Goto(d, "asr_final")
  /\ DriverOnly /\ UNCHANGED sm

\* kAsrFinal is dispatched with and without a recognised text.
HearQuery(d) ==
  /\ At(d, "asr_final")
  /\ Submit(d, "asr_final", "route")
  /\ DriverOnly /\ UNCHANGED run

-----------------------------------------------------------------------------
(* Stage 2: routing and the answer *)

Route(d) ==
  /\ At(d, "route")
  /\ IF CanGoOn
     THEN \E level \in {"l0_l1", "l2_l3"} : Goto(d, level)
     ELSE Goto(d, "speak")
  /\ DriverOnly /\ UNCHANGED <<sm, run>>

\* L0 and L1 bypass the LLM: the whole answer is split at once.
AnswerDirectly(d) ==
  /\ At(d, "l0_l1")
  /\ Submit(d, "route_l0_l1", "direct")
  /\ \E n \in 0..MaxSentences : run' = [run EXCEPT !.pend = n]
  /\ DriverOnly

AskLlm(d) ==
  /\ At(d, "l2_l3")
  /\ Submit(d, "route_l2_l3", "llm")
  /\ run' = [run EXCEPT !.todo = MaxTokens]
  /\ DriverOnly

\* The LLM's callback: the token completes some sentences, or it is late.
LlmToken(d) ==
  /\ At(d, "llm") /\ run.pend = 0 /\ run.todo > 0
  /\ \E n \in 0..MaxSentences :
       /\ ~IsActive => n = 0
       /\ run' = [run EXCEPT !.todo = @ - 1, !.pend = n]
  /\ DriverOnly /\ UNCHANGED <<sm, pc>>

\* generate() returns; the chunker may still hold one sentence.
LlmReturns(d) ==
  /\ At(d, "llm") /\ run.pend = 0
  /\ \E n \in 0..1 : run' = [run EXCEPT !.todo = 0, !.pend = n]
  /\ Goto(d, "flush")
  /\ DriverOnly /\ UNCHANGED sm

\* push_text: nothing drains the text queue before stage 3, so a full queue
\* costs the sentence once the push times out.
PushSentence(d) ==
  /\ pc[d] \in {"direct", "llm", "flush"} /\ run.pend > 0
  /\ LET s == acct.offered + 1
     IN  /\ acct' = [acct EXCEPT !.offered = s]
         /\ IF HasRoom(textQ, TextCapacity)
            THEN /\ textQ' = Push(textQ, s)
                 /\ run' = [run EXCEPT !.pend = @ - 1]
            ELSE /\ run' = [run EXCEPT !.pend = @ - 1, !.droppedText = @ + 1]
                 /\ UNCHANGED textQ
  /\ UNCHANGED <<members, sm, pc, calls, last, pcmQ, out, workers, cancellers>>

LlmDone(d) ==
  /\ At(d, "flush") /\ run.pend = 0
  /\ Submit(d, "llm_done", "speak")
  /\ DriverOnly /\ UNCHANGED run

\* The catch around stages 1 to 3: the ASR or the LLM threw.
BackendThrows(d) ==
  /\ pc[d] \in {"asr", "llm"} /\ run.pend = 0
  /\ run' = [run EXCEPT !.error = TRUE]
  /\ Goto(d, "close_text")
  /\ DriverOnly /\ UNCHANGED sm

-----------------------------------------------------------------------------
(* Stage 3 and the common tail *)

\* Starts both workers, unless the run failed, was cancelled or timed out.
Speak(d) ==
  /\ At(d, "speak") \/ (At(d, "direct") /\ run.pend = 0)
  /\ IF CanGoOn
     THEN tts' = [tts EXCEPT !.at = "take"] /\ sink' = [sink EXCEPT !.at = "take"]
     ELSE UNCHANGED workers
  /\ Goto(d, "close_text")
  /\ UNCHANGED <<members, sm, calls, run, last, queues, out, cancellers, acct>>

\* Mutant: the text queue is left open.
CloseTextForgotten(d) ==
  /\ At(d, "close_text")
  /\ Goto(d, "join_tts")
  /\ UNCHANGED <<members, sm, calls, run, last, queues, out, workers, cancellers, acct>>

CloseText(d) ==
  /\ At(d, "close_text")
  /\ textQ' = Close(textQ)
  /\ Goto(d, "join_tts")
  /\ UNCHANGED <<members, sm, calls, run, last, pcmQ, out, workers, cancellers, acct>>

\* Mutant: the PCM queue is closed before its producer is joined.
JoinTtsEarly(d) ==
  /\ At(d, "join_tts")
  /\ pcmQ' = Close(pcmQ)
  /\ Goto(d, "join_sink")
  /\ UNCHANGED <<members, sm, calls, run, last, textQ, out, workers, cancellers, acct>>

\* The PCM queue is closed only once its producer has been joined.
JoinTts(d) ==
  /\ At(d, "join_tts") /\ tts.at \in {"none", "done"}
  /\ pcmQ' = Close(pcmQ)
  /\ Goto(d, "join_sink")
  /\ UNCHANGED <<members, sm, calls, run, last, textQ, out, workers, cancellers, acct>>

\* Mutant: the sink worker is not joined.
JoinSinkEarly(d) ==
  /\ At(d, "join_sink")
  /\ Goto(d, "pad")
  /\ DriverOnly /\ UNCHANGED <<sm, run>>

JoinSink(d) ==
  /\ At(d, "join_sink") /\ sink.at \in {"none", "done"}
  /\ Goto(d, "pad")
  /\ DriverOnly /\ UNCHANGED <<sm, run>>

\* A run that is successful so far may be padded with silence: cancelled_ and the deadline
\* are looked at here, and not again before the padding ends.
Pad(d) ==
  /\ At(d, "pad")
  /\ Goto(d, IF CanGoOn /\ MinFrames > 0 THEN "padding" ELSE "close_sink")
  /\ DriverOnly /\ UNCHANGED <<sm, run>>

\* One frame of silence, while the output is shorter than tts_min_duration.
PadFrame(d) ==
  /\ At(d, "padding") /\ run.pcmFrames < MinFrames
  /\ run' = [run EXCEPT !.pcmFrames = @ + 1]
  /\ out' = [out EXCEPT !.log = Append(@, Silence)]
  /\ UNCHANGED <<members, sm, pc, calls, last, queues, workers, cancellers, acct>>

\* The output is long enough, or the sink refuses a frame.
StopPadding(d) ==
  /\ At(d, "padding")
  /\ Goto(d, "close_sink")
  /\ DriverOnly /\ UNCHANGED <<sm, run>>

CloseSink(d) ==
  /\ At(d, "close_sink")
  /\ \E ok \in BOOLEAN : run' = [run EXCEPT !.sinkOk = ok]
  /\ out' = [out EXCEPT !.open = FALSE]
  /\ Goto(d, "check")
  /\ UNCHANGED <<members, sm, calls, last, queues, workers, cancellers, acct>>

\* Mutant: the final look at cancelled_ is dropped.
CheckCancelledBlind(d) ==
  /\ At(d, "check")
  /\ Goto(d, "conclude")
  /\ DriverOnly /\ UNCHANGED <<sm, run>>

CheckCancelled(d) ==
  /\ At(d, "check")
  /\ run' = [run EXCEPT !.cancelled = cancelled]
  /\ Goto(d, "conclude")
  /\ DriverOnly /\ UNCHANGED sm

\* Nothing went wrong and the sink closed: kTtsDone and ok.
Succeed(d) ==
  /\ At(d, "conclude")
  /\ ~run.error /\ ~run.cancelled /\ ~run.expired /\ run.sinkOk
  /\ run' = [run EXCEPT !.ok = TRUE]
  /\ Submit(d, "tts_done", "leave")
  /\ DriverOnly

\* Anything else is an error, and the error text is never left empty.
Fail(d) ==
  /\ At(d, "conclude")
  /\ run.error \/ run.cancelled \/ run.expired \/ ~run.sinkOk
  /\ run' = [run EXCEPT !.error = TRUE]
  /\ Goto(d, "abort")
  /\ DriverOnly /\ UNCHANGED sm

Abort(d) ==
  /\ At(d, "abort")
  /\ Submit(d, "cancel", "complete")
  /\ DriverOnly /\ UNCHANGED run

\* Mutant: kCancelComplete is not dispatched.
CompleteCancelForgotten(d) ==
  /\ At(d, "complete")
  /\ Goto(d, "leave")
  /\ DriverOnly /\ UNCHANGED <<sm, run>>

CompleteCancel(d) ==
  /\ At(d, "complete")
  /\ Submit(d, "cancel_complete", "leave")
  /\ DriverOnly /\ UNCHANGED run

\* run() returns and RunningGuard clears running_.
Leave(d) ==
  /\ At(d, "leave")
  /\ running' = FALSE
  /\ last' = Outcome
  /\ Goto(d, "idle")
  /\ UNCHANGED <<cancelled, generation, activeGen, sm, calls, run, queues, out,
                 workers, cancellers, acct>>

\* The deadline passes while the run is in flight.
Expire(d) ==
  /\ pc[d] \notin {"idle", "clear", "reset", "open", "leave"}
  /\ run.limited /\ ~run.expired
  /\ run' = [run EXCEPT !.expired = TRUE]
  /\ DriverOnly /\ UNCHANGED <<sm, pc>>

-----------------------------------------------------------------------------
(* The TTS worker *)

\* What its steps never touch.
NotTts == UNCHANGED <<members, sm, pc, calls, last, out, sink, cancellers>>

TtsTake ==
  /\ tts.at = "take" /\ HasItem(textQ)
  /\ tts' = [tts EXCEPT !.at = "check", !.sentence = Head(textQ.items)]
  /\ textQ' = Pop(textQ)
  /\ NotTts /\ UNCHANGED <<run, pcmQ, acct>>

TtsExit ==
  /\ tts.at = "take" /\ Drained(textQ)
  /\ tts' = [tts EXCEPT !.at = "done"]
  /\ NotTts /\ UNCHANGED <<run, queues, acct>>

\* A sentence left over after a cancellation is discarded.
TtsCheck ==
  /\ tts.at = "check"
  /\ IF IsActive
     THEN /\ tts' = [tts EXCEPT !.at = "synth", !.todo = MaxFrames, !.k = 0]
          /\ acct' = [acct EXCEPT !.synthesised = @ + 1]
     ELSE tts' = [tts EXCEPT !.at = "take"] /\ UNCHANGED acct
  /\ NotTts /\ UNCHANGED <<run, queues>>

\* The synthesiser's callback: a frame to queue, or a late one to discard.
TtsFrame ==
  /\ tts.at = "synth" /\ tts.todo > 0
  /\ IF IsActive
     THEN /\ tts' = [tts EXCEPT !.at = "push", !.todo = @ - 1, !.k = @ + 1]
          /\ acct' = [acct EXCEPT !.produced = @ + 1]
     ELSE /\ tts' = [tts EXCEPT !.todo = @ - 1]
          /\ UNCHANGED acct
  /\ NotTts /\ UNCHANGED <<run, queues>>

\* push_timeout: a queue that stays full costs the frame, which is counted;
\* kClosed is ignored by the callback.
TtsPush ==
  /\ tts.at = "push"
  /\ tts' = [tts EXCEPT !.at = "synth"]
  /\ CASE pcmQ.closed -> UNCHANGED <<pcmQ, run>>
       [] ~pcmQ.closed /\ HasRoom(pcmQ, PcmCapacity) ->
            pcmQ' = Push(pcmQ, <<tts.sentence, tts.k>>) /\ UNCHANGED run
       [] OTHER -> run' = [run EXCEPT !.droppedPcm = @ + 1] /\ UNCHANGED pcmQ
  /\ NotTts /\ UNCHANGED <<textQ, acct>>

TtsReturn ==
  /\ tts.at = "synth"
  /\ tts' = [tts EXCEPT !.at = "take", !.todo = 0]
  /\ NotTts /\ UNCHANGED <<run, queues, acct>>

\* The worker's own catch: the error is recorded and the thread ends, leaving
\* what is still in the text queue.
TtsThrow ==
  /\ tts.at = "synth"
  /\ run' = [run EXCEPT !.error = TRUE]
  /\ tts' = [tts EXCEPT !.at = "done", !.todo = 0]
  /\ NotTts /\ UNCHANGED <<queues, acct>>

-----------------------------------------------------------------------------
(* The sink worker *)

NotSink == UNCHANGED <<members, sm, pc, calls, last, textQ, tts, cancellers>>

SinkTake ==
  /\ sink.at = "take" /\ HasItem(pcmQ)
  /\ sink' = [at |-> "check", frame |-> Head(pcmQ.items)]
  /\ pcmQ' = Pop(pcmQ)
  /\ NotSink /\ UNCHANGED <<run, out, acct>>

SinkExit ==
  /\ sink.at = "take" /\ Drained(pcmQ)
  /\ sink' = [sink EXCEPT !.at = "done"]
  /\ NotSink /\ UNCHANGED <<run, pcmQ, out, acct>>

\* A frame left over after a cancellation is not written.
SinkCheck ==
  /\ sink.at = "check"
  /\ sink' = [sink EXCEPT !.at = IF IsActive THEN "write" ELSE "take"]
  /\ NotSink /\ UNCHANGED <<run, pcmQ, out, acct>>

SinkWrite ==
  /\ sink.at = "write"
  /\ out' = [out EXCEPT !.log = Append(@, sink.frame)]
  /\ run' = [run EXCEPT !.pcmFrames = @ + 1]
  /\ acct' = [acct EXCEPT !.late = IF cancelled THEN @ + 1 ELSE @]
  /\ sink' = [sink EXCEPT !.at = "take"]
  /\ NotSink /\ UNCHANGED pcmQ

\* write_pcm returns false: the frame is lost and not counted.
SinkRefuse ==
  /\ sink.at = "write"
  /\ acct' = [acct EXCEPT !.refused = @ + 1]
  /\ sink' = [sink EXCEPT !.at = "take"]
  /\ NotSink /\ UNCHANGED <<run, pcmQ, out>>

-----------------------------------------------------------------------------
(* cancel(), a step for each of its effects *)

NotCancel == UNCHANGED <<running, activeGen, drivers, queues, out, workers>>

CancelGeneration(c) ==
  /\ cpc[c] = "idle" /\ cancels[c] < MaxCancels
  /\ generation' = generation + 1
  /\ cpc' = [cpc EXCEPT ![c] = "flag"]
  /\ cancels' = [cancels EXCEPT ![c] = @ + 1]
  /\ NotCancel /\ UNCHANGED <<cancelled, sm, acct>>

\* The flag, then cancel() on the three backends.
CancelFlag(c) ==
  /\ cpc[c] = "flag"
  /\ cancelled' = TRUE
  /\ cpc' = [cpc EXCEPT ![c] = "dispatch"]
  /\ acct' = [acct EXCEPT !.flagged = @ \/ \E d \in Drivers :
                pc[d] \notin {"idle", "clear", "reset", "open",
                              "conclude", "abort", "complete", "leave"}]
  /\ NotCancel /\ UNCHANGED <<generation, cancels, sm>>

CancelDispatch(c) ==
  /\ cpc[c] = "dispatch"
  /\ sm' = Dispatch(sm, "cancel")
  /\ cpc' = [cpc EXCEPT ![c] = "idle"]
  /\ NotCancel /\ UNCHANGED <<cancelled, generation, cancels, acct>>

-----------------------------------------------------------------------------
(* The specification *)

DriverStep(d) ==
  \/ ClearCancelled(d) \/ ResetMachine(d) \/ Open(d)
  \/ Listen(d) \/ FeedAudio(d) \/ StopFeeding(d) \/ HearQuery(d)
  \/ Route(d) \/ AnswerDirectly(d) \/ AskLlm(d) \/ LlmToken(d) \/ LlmReturns(d)
  \/ PushSentence(d) \/ LlmDone(d) \/ BackendThrows(d)
  \/ Speak(d) \/ CloseText(d) \/ JoinTts(d) \/ JoinSink(d)
  \/ Pad(d) \/ PadFrame(d) \/ StopPadding(d)
  \/ CloseSink(d) \/ CheckCancelled(d) \/ Succeed(d) \/ Fail(d)
  \/ Abort(d) \/ CompleteCancel(d) \/ Leave(d)

TtsStep ==
  \/ TtsTake \/ TtsExit \/ TtsCheck \/ TtsFrame \/ TtsPush \/ TtsReturn \/ TtsThrow

SinkStep == SinkTake \/ SinkExit \/ SinkCheck \/ SinkWrite \/ SinkRefuse

CancelStep(c) == CancelFlag(c) \/ CancelDispatch(c)

Next ==
  \/ \E d \in Drivers : Enter(d) \/ Reject(d) \/ DriverStep(d) \/ Expire(d)
  \/ TtsStep \/ SinkStep
  \/ \E c \in Cancellers : CancelGeneration(c) \/ CancelStep(c)

Spec == Init /\ [][Next]_vars

\* Every thread that has started keeps being scheduled, and backend calls end.
\* Nobody is obliged to call run() or cancel(), nor a deadline to pass.
Fairness ==
  /\ \A d \in Drivers : WF_vars(DriverStep(d))
  /\ WF_vars(TtsStep) /\ WF_vars(SinkStep)
  /\ \A c \in Cancellers : WF_vars(CancelStep(c))

FairSpec == Spec /\ Fairness

-----------------------------------------------------------------------------
(* Safety *)

\* The two queues hold what they were made for and never more than their capacity, however
\* long the answer, and the deepest they have been was no deeper.
QueuesBounded ==
  /\ Len(textQ.items) <= textQ.peak /\ textQ.peak <= EffectiveCapacity(TextCapacity)
  /\ Len(pcmQ.items) <= pcmQ.peak /\ pcmQ.peak <= EffectiveCapacity(PcmCapacity)

WithinBounds == TypeOK /\ QueuesBounded

InFlight(d) == pc[d] # "idle"
Alive(worker) == worker.at \notin {"none", "done"}

\* At most one thread is inside run() past the compare-and-swap, and running_
\* says exactly that: the locals and members of the run have one owner.
RunExclusive ==
  /\ \A d, e \in Drivers : InFlight(d) /\ InFlight(e) => d = e
  /\ running <=> \E d \in Drivers : InFlight(d)

\* The workers capture locals of run() by reference, so neither may outlive
\* the join of its thread; the sink stays open and the PCM queue accepts
\* frames for as long as a worker may use them.
WorkersInsideRun ==
  /\ Alive(tts) => \E d \in Drivers : pc[d] \in {"close_text", "join_tts"}
  /\ Alive(sink) => /\ out.open
                    /\ \E d \in Drivers :
                         pc[d] \in {"close_text", "join_tts", "join_sink"}
  /\ tts.at = "push" => ~pcmQ.closed

\* The workers run only in the speaking stage, or while it is being cancelled.
WorkersOnlyWhileSpeaking ==
  Alive(tts) \/ Alive(sink) => sm \in {"speaking", "cancelling"}

\* The workers have their run and its stage around them, in both senses above.
WorkersConfined == WorkersInsideRun /\ WorkersOnlyWhileSpeaking

\* The frames of silence among those written.
Padding == Cardinality({i \in 1..Len(out.log) : out.log[i] = Silence})

\* A run that reports ok lost nothing silently: every sentence was synthesised
\* or counted as dropped, every frame written, counted as dropped or refused
\* by the sink.  So no filter, close or early exit ate any of them.
OkRunAccountsForAll ==
  run.ok =>
    /\ acct.offered = acct.synthesised + run.droppedText
    /\ acct.produced + Padding = run.pcmFrames + run.droppedPcm + acct.refused
    /\ run.pcmFrames = Len(out.log)

\* The sink receives frames in the order of the answer, drops notwithstanding,
\* and silence only after the last of them.
FramesInOrder ==
  \A i, j \in 1..Len(out.log) :
    LET f == out.log[i]
        g == out.log[j]
    IN  i < j /\ g # Silence =>
          \/ f[1] < g[1] /\ f # Silence
          \/ f[1] = g[1] /\ f[2] < g[2]

Padded == \E i \in 1..Len(out.log) : out.log[i] = Silence

\* What still reaches the sink once cancelled_ is set: either one frame of the answer, the
\* one whose check had passed, or silence, when the padding had begun, and silence only
\* up to the minimum.  Never both: a cancellation that hits the answer is seen before
\* the padding.
LateOutput ==
  /\ acct.late <= 1
  /\ acct.late > 0 => ~Padded
  /\ Padded => Len(out.log) <= MinFrames

\* What the sink hears is the answer, cut short but never shuffled.
SinkHearsTheAnswer == FramesInOrder /\ LateOutput

\* A cancellation flagged between the reset of cancelled_ and the final look
\* at it never ends in ok, whatever stage it hits.
CancelHonoured == acct.flagged => ~run.ok

\* Every run that does not succeed leaves the state machine idle, and it stays
\* idle whatever late cancellations arrive before the next run.
FailedRunEndsIdle ==
  ~running /\ last \in {"cancelled", "failed"} => sm = "idle"

-----------------------------------------------------------------------------
(* What the session relies on *)

DriverAt(labels) == \E d \in Drivers : pc[d] \in labels
Ending == DriverAt({"conclude", "abort", "complete", "leave"})

\* What the variables of the contract stand for here.
Phase == IF DriverAt({"clear"}) THEN "arming"
         ELSE IF DriverAt({"padding"}) THEN "padding"
         ELSE IF DriverAt({"close_sink", "check"}) THEN "closing"
         ELSE IF Ending THEN "ending"
         ELSE IF running THEN "working" ELSE "free"
Graced == ~DriverAt({"reset", "open"}) /\ acct.late > 0
MayBeOk == Ending /\ ~run.error /\ ~run.cancelled
FramesOut == IF DriverAt({"reset", "open"}) THEN 0 ELSE Len(out.log)

\* The threads, the stages and the queues implement the contract of the module
\* PipelineContract, from which the session node is composed.
Contract == INSTANCE PipelineContract WITH
  phase <- Phase, stop <- cancelled, graced <- Graced, mayBeOk <- MayBeOk,
  frames <- FramesOut, last <- last

ImplementsContract == Contract!Spec

-----------------------------------------------------------------------------
(* Liveness *)

\* Every call of run() returns: the workers drain or discard what is queued
\* and both joins end, under cancellation, timeout and exceptions alike.
RunReturns == \A d \in Drivers : InFlight(d) ~> ~InFlight(d)

\* What the documents say of a cancellation: Cancelling leads back to Idle.
CancellingEndsIdle == (sm = "cancelling") ~> (sm = "idle")

=============================================================================
