----------------------------- MODULE RkllmNode -----------------------------
(***************************************************************************)
(* The LLM node's backend: LlmNodeBackend::run_rkllm (apps/llm_node), which *)
(* drives one inference at a time, and backends/rkllm, whose generate()    *)
(* runs in a worker thread and pumps what the vendor's thread puts in a     *)
(* queue.  The vendor's library is external: run k of it emits tokens and  *)
(* then ends, at its own pace, and an abort may or may not stop it.        *)
(*                                                                         *)
(* A token is a piece of text: a word, white space, the end tag of the     *)
(* thinking part, that tag with white space and a word behind it, or half  *)
(* a character (WAITING), whose text the vendor's thread does not copy.    *)
(* Text is a sequence of pieces, each with the run it comes from.  Times   *)
(* are left out: the deadline may pass whenever the node looks at it.      *)
(***************************************************************************)
EXTENDS Naturals, Sequences, FiniteSets

CONSTANTS
  MaxInfers,  \* bound: inferences
  MaxTokens,  \* bound: pieces of text after which a run emits no more, and items
              \* in the queue after which it emits no half characters
  Tokens      \* the kinds of token a run emits

ASSUME RkllmNodeAssumption ==
  /\ MaxInfers \in Nat \ {0} /\ MaxTokens \in Nat
  /\ Tokens \subseteq {"word", "space", "tag", "tagged", "half"}

Infers == 1..MaxInfers

VARIABLES
  main,        \* where infer() is
  k,           \* the number of the current or last inference, and of its run
  stop,        \* the channel's cancel flag, given to infer()
  answer,      \* the code the last inference returned
  worker,      \* where generate() is
  cancelled, running, generation, queue,  \* the members of Impl
  myGen,       \* gen, local to generate
  acc,         \* *accumulated, the text of the run so far
  half,        \* pending_waiting
  think,       \* think_buf and think_done, locals of pump
  streamed,    \* text given to the callback as tokens
  done,        \* the text of kDone, or <<>> before it
  run,         \* per run of the vendor: "off", "live", "ended"
  sent,        \* per run, the text it has emitted; forgotten with its inference
  survivors    \* history: the runs still live when generate() began, and how much
               \* each had emitted by then

impl == <<cancelled, running, generation, queue>>
pump == <<myGen, acc, half, think, streamed, done>>
vendor == <<run, sent>>
vars == <<main, k, stop, answer, worker, impl, pump, vendor, survivors>>

-----------------------------------------------------------------------------
(* Text *)

PieceType == [run : Infers, n : 1..MaxTokens, kind : {"word", "space", "tag"}]

\* The text of the item that a token of run r, the n-th piece of its text, makes.
Pieces(r, n, kind) ==
  LET Piece(c) == [run |-> r, n |-> n, kind |-> c]
  IN CASE kind = "half" -> <<>>
       [] kind = "tagged" -> <<Piece("tag"), Piece("space"), Piece("word")>>
       [] OTHER -> <<Piece(kind)>>

Tags(text) == {i \in DOMAIN text : text[i].kind = "tag"}

\* What follows the last end tag; text must have one.
AfterTag(text) ==
  LET last == CHOOSE i \in Tags(text) : \A j \in Tags(text) : j <= i
  IN SubSeq(text, last + 1, Len(text))

\* The text from its first piece on that is no white space.
Trim(text) ==
  LET Solid == {i \in DOMAIN text : text[i].kind # "space"}
      first == CHOOSE i \in Solid : \A j \in Solid : i <= j
  IN IF Solid = {} THEN <<>> ELSE SubSeq(text, first, Len(text))

StripThink(text) == IF Tags(text) = {} THEN text ELSE Trim(AfterTag(text))

Unread == [buf |-> <<>>, over |-> FALSE]

TypeOK ==
  /\ main \in {"idle", "entered", "polling", "cancelling", "joining"}
  /\ k \in 0..MaxInfers /\ stop \in BOOLEAN
  /\ answer \in {"none", "ok", "cancelled", "timeout"}
  /\ worker \in {"off", "start", "check", "run", "pump", "ended", "done"}
  /\ cancelled \in BOOLEAN /\ running \in BOOLEAN /\ generation \in 0..MaxInfers
  /\ queue \in Seq([gen : 0..MaxInfers, text : Seq(PieceType), state : Tokens \cup {"finish"}])
  /\ myGen \in 0..MaxInfers
  /\ acc \in Seq(PieceType) /\ half \in Seq(PieceType)
  /\ think.buf \in Seq(PieceType) /\ think.over \in BOOLEAN
  /\ streamed \in Seq(PieceType) /\ done \in Seq(PieceType)
  /\ run \in [Infers -> {"off", "live", "ended"}]
  /\ sent \in [Infers -> Seq(PieceType)]
  /\ DOMAIN survivors \subseteq Infers /\ survivors \in [DOMAIN survivors -> Nat]

Init ==
  /\ main = "idle" /\ k = 0 /\ stop = FALSE /\ answer = "none" /\ worker = "off"
  /\ cancelled = FALSE /\ running = FALSE /\ generation = 0 /\ queue = <<>>
  /\ myGen = 0 /\ acc = <<>> /\ half = <<>>
  /\ think = Unread
  /\ streamed = <<>> /\ done = <<>>
  /\ run = [r \in Infers |-> "off"] /\ sent = [r \in Infers |-> <<>>]
  /\ survivors = [r \in {} |-> 0]

-----------------------------------------------------------------------------
(* LlmNodeBackend::infer *)

\* TaskChannel::inference clears the flag and calls the backend.
Infer ==
  /\ main = "idle" /\ k < MaxInfers
  /\ main' = "entered" /\ k' = k + 1 /\ stop' = FALSE /\ answer' = "none"
  /\ UNCHANGED <<worker, impl, pump, vendor, survivors>>

\* A cancel or an exit of the channel while the inference runs.
Ask ==
  /\ main # "idle" /\ ~stop /\ stop' = TRUE
  /\ UNCHANGED <<main, k, answer, worker, impl, pump, vendor, survivors>>

ReturnAtOnce ==
  /\ main = "entered" /\ stop
  /\ cancelled' = TRUE
  /\ main' = "idle" /\ answer' = "cancelled"
  /\ UNCHANGED <<k, stop, worker, running, generation, queue, pump, vendor, survivors>>

\* set_event_callback, which starts anew, and the worker.
Begin ==
  /\ main = "entered" /\ ~stop
  /\ cancelled' = FALSE /\ queue' = <<>>
  /\ main' = "polling" /\ worker' = "start"
  /\ UNCHANGED <<k, stop, answer, running, generation, pump, vendor, survivors>>

\* The loop of run_rkllm: the worker is through, or the flag or the deadline says stop,
\* and cancel() raises the backend's own flag.
SeeDone ==
  /\ main = "polling" /\ worker = "done"
  /\ main' = "joining" /\ answer' = "ok"
  /\ UNCHANGED <<k, stop, worker, impl, pump, vendor, survivors>>

\* Mutant: the node does not ask the backend to stop.
SeeStopOnly(why) ==
  /\ main = "polling"
  /\ why = "cancelled" => stop
  /\ main' = "cancelling" /\ answer' = why
  /\ UNCHANGED <<k, stop, worker, impl, pump, vendor, survivors>>

SeeStop(why) ==
  /\ main = "polling"
  /\ why = "cancelled" => stop
  /\ cancelled' = TRUE
  /\ main' = "cancelling" /\ answer' = why
  /\ UNCHANGED <<k, stop, worker, running, generation, queue, pump, vendor, survivors>>

\* The second half of cancel(): an abort, whatever it does, if a run is under way.
Abort ==
  /\ main = "cancelling" /\ main' = "joining"
  /\ \/ UNCHANGED run
     \/ running /\ run' = [run EXCEPT ![k] = IF @ = "live" THEN "ended" ELSE @]
  /\ UNCHANGED <<k, stop, answer, worker, impl, pump, sent, survivors>>

\* The locals of generate, pump and run_rkllm go with the return.
Return ==
  /\ main' = "idle" /\ worker' = "off"
  /\ acc' = <<>> /\ half' = <<>> /\ think' = Unread /\ streamed' = <<>> /\ done' = <<>>
  /\ sent' = [r \in Infers |-> IF run[r] = "ended" THEN <<>> ELSE sent[r]]
  /\ UNCHANGED <<k, stop, answer, impl, myGen, run, survivors>>

\* Mutant: the node returns without waiting for the worker.
JoinNobody ==
  /\ main = "joining" /\ main' = "idle"
  /\ UNCHANGED <<k, stop, answer, worker, impl, pump, vendor, survivors>>

Join == main = "joining" /\ worker = "done" /\ Return

-----------------------------------------------------------------------------
(* RkllmBackend::generate and pump, in the worker *)

Start ==
  /\ worker = "start" /\ worker' = "check"
  /\ generation' = generation + 1 /\ myGen' = generation'
  /\ survivors' = [r \in {p \in Infers : run[p] = "live"} |-> Len(sent[r])]
  /\ UNCHANGED <<main, k, stop, answer, cancelled, running, queue,
                 acc, half, think, streamed, done, vendor>>

Check ==
  /\ worker = "check"
  /\ IF cancelled THEN worker' = "done" /\ UNCHANGED running
                  ELSE worker' = "run" /\ running' = TRUE
  /\ UNCHANGED <<main, k, stop, answer, cancelled, generation, queue, pump, vendor, survivors>>

\* rkllm_run_async, which may fail: then generate returns and no event is given.
RunAsync ==
  /\ worker = "run"
  /\ \/ run' = [run EXCEPT ![k] = "live"] /\ worker' = "pump" /\ UNCHANGED running
     \/ worker' = "done" /\ running' = FALSE /\ UNCHANGED run
  /\ UNCHANGED <<main, k, stop, answer, cancelled, generation, queue, pump, sent, survivors>>

StopPumping ==
  /\ worker = "pump" /\ cancelled
  /\ worker' = "done" /\ running' = FALSE
  /\ UNCHANGED <<main, k, stop, answer, cancelled, generation, queue, pump, vendor, survivors>>

\* What the callback is given of a text: nothing of the thinking part but what follows
\* its end tag.
Filtered(text) ==
  LET buf == think.buf \o text
  IN IF think.over THEN text ELSE IF Tags(buf) = {} THEN <<>> ELSE AfterTag(buf)

\* An item that is dropped, half a character, which waits for the rest with no text
\* of its own, a text, the end.
Skip == UNCHANGED <<worker, acc, half, think, streamed>>

Wait(it) ==
  /\ it.state = "half" /\ half' = half \o it.text
  /\ UNCHANGED <<worker, acc, think, streamed>>

Take(it) ==
  LET text == half \o it.text
  IN /\ it.state \notin {"half", "finish"}
     /\ half' = <<>> /\ acc' = acc \o text
     /\ think' = IF think.over THEN think
                 ELSE [buf |-> think.buf \o text, over |-> Tags(think.buf \o text) # {}]
     /\ streamed' = streamed \o Filtered(text)
     /\ UNCHANGED worker

\* Mutant: an unclosed thinking part is not given to the callback at the end.
EndSilent(it) ==
  /\ it.state = "finish" /\ worker' = "ended"
  /\ acc' = acc \o half
  /\ UNCHANGED <<half, think, streamed>>

\* FINISH or ERROR: an unclosed thinking part is text for the callback after all.
End(it) ==
  /\ it.state = "finish" /\ worker' = "ended"
  /\ acc' = acc \o half
  /\ streamed' = IF think.over THEN streamed ELSE streamed \o think.buf
  /\ UNCHANGED <<half, think>>

\* Mutant: pump takes items of any generation.
PumpItemAny ==
  /\ worker = "pump" /\ ~cancelled /\ queue # <<>> /\ queue' = Tail(queue)
  /\ Wait(Head(queue)) \/ Take(Head(queue)) \/ End(Head(queue))
  /\ UNCHANGED <<main, k, stop, answer, cancelled, running, generation, myGen, done,
                 vendor, survivors>>

\* One round of the inner loop of pump, the callback included: both are under the mutex.
PumpItem ==
  /\ worker = "pump" /\ ~cancelled /\ queue # <<>> /\ queue' = Tail(queue)
  /\ LET it == Head(queue)
     IN IF it.gen # myGen THEN Skip ELSE Wait(it) \/ Take(it) \/ End(it)
  /\ UNCHANGED <<main, k, stop, answer, cancelled, running, generation, myGen, done,
                 vendor, survivors>>

\* A normal end: kDone, with the answer stripped of the thinking part.
Finish ==
  /\ worker = "ended" /\ worker' = "done"
  /\ running' = FALSE /\ done' = StripThink(acc)
  /\ UNCHANGED <<main, k, stop, answer, cancelled, generation, queue,
                 myGen, acc, half, think, streamed, vendor, survivors>>

-----------------------------------------------------------------------------
(* on_vendor_result, in the vendor's thread: the label is the generation of the moment *)

Enqueue(state, text) ==
  queue' = Append(queue, [gen |-> generation, state |-> state, text |-> text])

VendorToken(r, kind) ==
  /\ run[r] = "live" /\ Len(sent[r]) < MaxTokens
  /\ kind = "half" => Len(queue) < MaxTokens
  /\ LET text == Pieces(r, Len(sent[r]) + 1, kind)
     IN sent' = [sent EXCEPT ![r] = @ \o text] /\ Enqueue(kind, text)
  /\ UNCHANGED <<main, k, stop, answer, worker, cancelled, running, generation,
                 pump, run, survivors>>

\* FINISH or ERROR: pump treats them alike.
VendorEnd(r) ==
  /\ run[r] = "live"
  /\ run' = [run EXCEPT ![r] = "ended"]
  /\ Enqueue("finish", <<>>)
  /\ UNCHANGED <<main, k, stop, answer, worker, cancelled, running, generation,
                 pump, sent, survivors>>

Vendor(r) == VendorEnd(r) \/ \E kind \in Tokens : VendorToken(r, kind)
Worker ==
  Start \/ Check \/ RunAsync \/ StopPumping \/ PumpItem \/ Finish
Node == ReturnAtOnce \/ Begin \/ SeeDone \/ SeeStop("timeout") \/ Abort \/ Join

Next ==
  \/ Infer \/ Ask \/ Node \/ SeeStop("cancelled") \/ Worker
  \/ \E r \in Infers : Vendor(r)

Spec == Init /\ [][Next]_vars

\* Both threads are scheduled and the deadline passes; nothing is assumed of the vendor.
FairSpec == Spec /\ WF_vars(Node) /\ WF_vars(Worker)

-----------------------------------------------------------------------------
(* Properties *)

\* Every inference returns, even if the vendor never calls back or goes on for ever:
\* the deadline raises the flag, the pump leaves within its 20 ms, the join ends.
InferReturns == (main # "idle") ~> (main = "idle")

\* The worker, whose callback refers to locals of infer(), lives exactly while infer()
\* polls, cancels and joins, and the running flag, which lets cancel() abort the vendor,
\* exactly from before the vendor's start to the end of generate().
WorkerInsideInfer ==
  /\ TypeOK
  /\ worker # "off" <=> main \in {"polling", "cancelling", "joining"}
  /\ worker \in {"run", "pump", "ended"} <=> running

\* The text of an answer acknowledged by the node is what was streamed as tokens, with
\* one end tag at most, but for the white space between the tag and the answer, which
\* is streamed: the session speaks the stream, and logs the acknowledgement.
DoneMatchesStream ==
  worker = "done" /\ done # <<>> /\ Cardinality(Tags(acc)) <= 1
    => done = IF Tags(acc) = {} THEN streamed ELSE Trim(streamed)

\* A piece an inference may take for its own: of its own run, or emitted after
\* generate() began by a run that was live by then and is not told from it.
Fresh(p) ==
  \/ p.run = k
  \/ p.run \in DOMAIN survivors /\ p.n > survivors[p.run]

\* Nothing that was emitted before generate() began reaches the answer, and with no
\* other run live at that time the answer is all of its own run, in order.
AnswerIsFresh ==
  /\ \A i \in DOMAIN acc : Fresh(acc[i])
  /\ DOMAIN survivors = {} /\ worker = "ended" => acc = sent[k]
=============================================================================
