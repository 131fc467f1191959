----------------------- MODULE SessionPipelineProofs -----------------------
(***************************************************************************)
(* Theorems about SessionPipeline, for every number of drivers and         *)
(* cancellers, every capacity and every bound.                             *)
(***************************************************************************)
EXTENDS SessionPipeline, SequenceTheorems, FiniteSetTheorems, TLAPS

-----------------------------------------------------------------------------
(* Lemmas about the operators *)

\* dispatch() never leaves the six states.
LEMMA DispatchType ==
  ASSUME NEW s \in SmStates, NEW e
  PROVE  Dispatch(s, e) \in SmStates
BY DEF Dispatch, SmStates, Cancellable

\* push_locked, pop_locked and close keep a queue a queue.
LEMMA QueueOps ==
  ASSUME NEW Item, NEW q \in QueueType(Item)
  PROVE  /\ \A x \in Item : Push(q, x) \in QueueType(Item)
         /\ HasItem(q) => Head(q.items) \in Item /\ Pop(q) \in QueueType(Item)
         /\ Close(q) \in QueueType(Item)
<1>1. q.items \in Seq(Item) /\ q.peak \in Nat /\ q.closed \in BOOLEAN
  BY DEF QueueType
<1>2. ASSUME NEW x \in Item PROVE Push(q, x) \in QueueType(Item)
  <2>1. Append(q.items, x) \in Seq(Item) BY <1>1, AppendProperties
  <2>2. Len(Append(q.items, x)) \in Nat BY <2>1, LenProperties
  <2> QED BY <1>1, <2>1, <2>2 DEF Push, QueueType
<1>3. HasItem(q) => Head(q.items) \in Item /\ Pop(q) \in QueueType(Item)
  <2> SUFFICES ASSUME q.items # <<>> PROVE Head(q.items) \in Item /\ Pop(q) \in QueueType(Item)
    BY DEF HasItem
  <2>1. Head(q.items) \in Item /\ Tail(q.items) \in Seq(Item)
    BY <1>1, HeadTailProperties
  <2> QED BY <1>1, <2>1 DEF Pop, QueueType
<1>4. Close(q) \in QueueType(Item) BY <1>1 DEF Close, QueueType
<1> QED BY <1>2, <1>3, <1>4

LEMMA NewQueueType == ASSUME NEW Item PROVE NewQueue \in QueueType(Item)
BY EmptySeq DEF NewQueue, QueueType

-----------------------------------------------------------------------------
(* Type correctness *)

LEMMA InitType == Init => TypeOK
<1> SUFFICES ASSUME Init PROVE TypeOK OBVIOUS
<1>1. textQ \in QueueType(Nat) /\ pcmQ \in QueueType(Frames)
  BY NewQueueType DEF Init
<1>2. out \in [open : BOOLEAN, log : Seq(Frames)]
  BY EmptySeq DEF Init
<1> QED
  BY <1>1, <1>2
  DEF Init, TypeOK, SmStates, Labels, NewRun, RunType, NoTts, NoSink, Silence,
      Frames, Outcomes, NewAcct, AcctType

\* A driver that moves to a program point of run() keeps the type of pc.
LEMMA GotoType ==
  ASSUME TypeOK, NEW d \in Drivers, NEW l \in Labels, Goto(d, l)
  PROVE  pc' \in [Drivers -> Labels]
BY DEF TypeOK, Goto

\* What a step confined to the driver has to establish.
LEMMA DriverOnlyType ==
  ASSUME TypeOK, DriverOnly,
         sm' \in SmStates, pc' \in [Drivers -> Labels], run' \in RunType
  PROVE  TypeOK'
BY DEF TypeOK, DriverOnly, members, queues, workers, cancellers

LEMMA DriverOnlySteps ==
  ASSUME TypeOK, NEW d \in Drivers,
         \/ Listen(d) \/ FeedAudio(d) \/ StopFeeding(d) \/ HearQuery(d)
         \/ Route(d) \/ AnswerDirectly(d) \/ AskLlm(d) \/ LlmToken(d) \/ LlmReturns(d)
         \/ LlmDone(d) \/ BackendThrows(d) \/ JoinSink(d) \/ Pad(d) \/ StopPadding(d)
         \/ CheckCancelled(d) \/ Succeed(d) \/ Fail(d)
         \/ Abort(d) \/ CompleteCancel(d) \/ Expire(d)
  PROVE  TypeOK'
<1> USE DEF Submit
<1>1. run \in RunType /\ sm \in SmStates /\ pc \in [Drivers -> Labels] /\ cancelled \in BOOLEAN
  BY DEF TypeOK
<1>0. run.todo \in Nat /\ run.pend \in Nat /\ run.query \in BOOLEAN
  BY <1>1 DEF RunType
<1>2. \A e : Dispatch(sm, e) \in SmStates BY <1>1, DispatchType
<1>3. \A l \in Labels : Goto(d, l) => pc' \in [Drivers -> Labels] BY GotoType
<1>4. CASE Listen(d)
  <2>1. DriverOnly BY <1>4 DEF Listen
  <2>2. run' \in RunType
    <3>1. CASE \E usable \in BOOLEAN : run' = [run EXCEPT !.query = usable, !.error = ~usable]
      BY <1>1, <3>1 DEF RunType
    <3>2. CASE \E n \in 1..MaxChunks : run' = [run EXCEPT !.todo = n]
      BY <1>1, <3>2, ConstantsAssumption DEF RunType
    <3> QED BY <1>4, <3>1, <3>2 DEF Listen
  <2>3. sm' \in SmStates BY <1>1, <1>2, <1>4 DEF Listen
  <2>4. pc' \in [Drivers -> Labels] BY <1>1, <1>3, <1>4 DEF Listen, Labels
  <2> QED BY <2>1, <2>2, <2>3, <2>4, DriverOnlyType
<1>5. CASE FeedAudio(d)
  <2>1. DriverOnly BY <1>5 DEF FeedAudio
  <2>2. run' \in RunType
    <3>1. PICK heard \in {run.query, TRUE} :
            run' = [run EXCEPT !.todo = @ - 1, !.query = heard]
      BY <1>5 DEF FeedAudio
    <3>2. heard \in BOOLEAN BY <1>0
    <3>3. run.todo > 0 BY <1>5 DEF FeedAudio
    <3>4. run.todo - 1 \in Nat BY <1>0, <3>3
    <3> QED BY <1>1, <3>1, <3>2, <3>4 DEF RunType
  <2>3. sm' \in SmStates BY <1>1, <1>2, <1>5 DEF FeedAudio
  <2>4. pc' \in [Drivers -> Labels] BY <1>1, <1>3, <1>5 DEF FeedAudio, Labels
  <2> QED BY <2>1, <2>2, <2>3, <2>4, DriverOnlyType
<1>6. CASE StopFeeding(d)
  <2>1. DriverOnly BY <1>6 DEF StopFeeding
  <2>2. run' \in RunType BY <1>1, <1>6, ConstantsAssumption DEF StopFeeding, RunType
  <2>3. sm' \in SmStates BY <1>1, <1>2, <1>6 DEF StopFeeding
  <2>4. pc' \in [Drivers -> Labels] BY <1>1, <1>3, <1>6 DEF StopFeeding, Labels
  <2> QED BY <2>1, <2>2, <2>3, <2>4, DriverOnlyType
<1>7. CASE HearQuery(d)
  <2>1. DriverOnly BY <1>7 DEF HearQuery
  <2>2. run' \in RunType BY <1>1, <1>7, ConstantsAssumption DEF HearQuery, RunType
  <2>3. sm' \in SmStates BY <1>1, <1>2, <1>7 DEF HearQuery
  <2>4. pc' \in [Drivers -> Labels] BY <1>1, <1>3, <1>7 DEF HearQuery, Labels
  <2> QED BY <2>1, <2>2, <2>3, <2>4, DriverOnlyType
<1>8. CASE Route(d)
  <2>1. DriverOnly BY <1>8 DEF Route
  <2>2. run' \in RunType BY <1>1, <1>8, ConstantsAssumption DEF Route, RunType
  <2>3. sm' \in SmStates BY <1>1, <1>2, <1>8 DEF Route
  <2>4. pc' \in [Drivers -> Labels] BY <1>1, <1>3, <1>8 DEF Route, Labels
  <2> QED BY <2>1, <2>2, <2>3, <2>4, DriverOnlyType
<1>9. CASE AnswerDirectly(d)
  <2>1. DriverOnly BY <1>9 DEF AnswerDirectly
  <2>2. run' \in RunType BY <1>1, <1>9, ConstantsAssumption DEF AnswerDirectly, RunType
  <2>3. sm' \in SmStates BY <1>1, <1>2, <1>9 DEF AnswerDirectly
  <2>4. pc' \in [Drivers -> Labels] BY <1>1, <1>3, <1>9 DEF AnswerDirectly, Labels
  <2> QED BY <2>1, <2>2, <2>3, <2>4, DriverOnlyType
<1>10. CASE AskLlm(d)
  <2>1. DriverOnly BY <1>10 DEF AskLlm
  <2>2. run' \in RunType BY <1>1, <1>10, ConstantsAssumption DEF AskLlm, RunType
  <2>3. sm' \in SmStates BY <1>1, <1>2, <1>10 DEF AskLlm
  <2>4. pc' \in [Drivers -> Labels] BY <1>1, <1>3, <1>10 DEF AskLlm, Labels
  <2> QED BY <2>1, <2>2, <2>3, <2>4, DriverOnlyType
<1>11. CASE LlmToken(d)
  <2>1. DriverOnly BY <1>11 DEF LlmToken
  <2>2. run' \in RunType
    <3>1. PICK n \in 0..MaxSentences : run' = [run EXCEPT !.todo = @ - 1, !.pend = n]
      BY <1>11 DEF LlmToken
    <3>2. n \in Nat BY ConstantsAssumption
    <3>3. run.todo > 0 BY <1>11 DEF LlmToken
    <3>4. run.todo - 1 \in Nat BY <1>0, <3>3
    <3> QED BY <1>1, <3>1, <3>2, <3>4 DEF RunType
  <2>3. sm' \in SmStates BY <1>1, <1>2, <1>11 DEF LlmToken
  <2>4. pc' \in [Drivers -> Labels] BY <1>1, <1>3, <1>11 DEF LlmToken, Labels
  <2> QED BY <2>1, <2>2, <2>3, <2>4, DriverOnlyType
<1>12. CASE LlmReturns(d)
  <2>1. DriverOnly BY <1>12 DEF LlmReturns
  <2>2. run' \in RunType
    <3>1. PICK n \in 0..1 : run' = [run EXCEPT !.todo = 0, !.pend = n]
      BY <1>12 DEF LlmReturns
    <3>2. n \in Nat OBVIOUS
    <3> QED BY <1>1, <3>1, <3>2 DEF RunType
  <2>3. sm' \in SmStates BY <1>1, <1>2, <1>12 DEF LlmReturns
  <2>4. pc' \in [Drivers -> Labels] BY <1>1, <1>3, <1>12 DEF LlmReturns, Labels
  <2> QED BY <2>1, <2>2, <2>3, <2>4, DriverOnlyType
<1>13. CASE LlmDone(d)
  <2>1. DriverOnly BY <1>13 DEF LlmDone
  <2>2. run' \in RunType BY <1>1, <1>13, ConstantsAssumption DEF LlmDone, RunType
  <2>3. sm' \in SmStates BY <1>1, <1>2, <1>13 DEF LlmDone
  <2>4. pc' \in [Drivers -> Labels] BY <1>1, <1>3, <1>13 DEF LlmDone, Labels
  <2> QED BY <2>1, <2>2, <2>3, <2>4, DriverOnlyType
<1>14. CASE BackendThrows(d)
  <2>1. DriverOnly BY <1>14 DEF BackendThrows
  <2>2. run' \in RunType BY <1>1, <1>14, ConstantsAssumption DEF BackendThrows, RunType
  <2>3. sm' \in SmStates BY <1>1, <1>2, <1>14 DEF BackendThrows
  <2>4. pc' \in [Drivers -> Labels] BY <1>1, <1>3, <1>14 DEF BackendThrows, Labels
  <2> QED BY <2>1, <2>2, <2>3, <2>4, DriverOnlyType
<1>15. CASE JoinSink(d)
  <2>1. DriverOnly BY <1>15 DEF JoinSink
  <2>2. run' \in RunType BY <1>1, <1>15, ConstantsAssumption DEF JoinSink, RunType
  <2>3. sm' \in SmStates BY <1>1, <1>2, <1>15 DEF JoinSink
  <2>4. pc' \in [Drivers -> Labels] BY <1>1, <1>3, <1>15 DEF JoinSink, Labels
  <2> QED BY <2>1, <2>2, <2>3, <2>4, DriverOnlyType
<1>16. CASE CheckCancelled(d)
  <2>1. DriverOnly BY <1>16 DEF CheckCancelled
  <2>2. run' \in RunType BY <1>1, <1>16, ConstantsAssumption DEF CheckCancelled, RunType
  <2>3. sm' \in SmStates BY <1>1, <1>2, <1>16 DEF CheckCancelled
  <2>4. pc' \in [Drivers -> Labels] BY <1>1, <1>3, <1>16 DEF CheckCancelled, Labels
  <2> QED BY <2>1, <2>2, <2>3, <2>4, DriverOnlyType
<1>17. CASE Succeed(d)
  <2>1. DriverOnly BY <1>17 DEF Succeed
  <2>2. run' \in RunType BY <1>1, <1>17, ConstantsAssumption DEF Succeed, RunType
  <2>3. sm' \in SmStates BY <1>1, <1>2, <1>17 DEF Succeed
  <2>4. pc' \in [Drivers -> Labels] BY <1>1, <1>3, <1>17 DEF Succeed, Labels
  <2> QED BY <2>1, <2>2, <2>3, <2>4, DriverOnlyType
<1>18. CASE Fail(d)
  <2>1. DriverOnly BY <1>18 DEF Fail
  <2>2. run' \in RunType BY <1>1, <1>18, ConstantsAssumption DEF Fail, RunType
  <2>3. sm' \in SmStates BY <1>1, <1>2, <1>18 DEF Fail
  <2>4. pc' \in [Drivers -> Labels] BY <1>1, <1>3, <1>18 DEF Fail, Labels
  <2> QED BY <2>1, <2>2, <2>3, <2>4, DriverOnlyType
<1>19. CASE Abort(d)
  <2>1. DriverOnly BY <1>19 DEF Abort
  <2>2. run' \in RunType BY <1>1, <1>19, ConstantsAssumption DEF Abort, RunType
  <2>3. sm' \in SmStates BY <1>1, <1>2, <1>19 DEF Abort
  <2>4. pc' \in [Drivers -> Labels] BY <1>1, <1>3, <1>19 DEF Abort, Labels
  <2> QED BY <2>1, <2>2, <2>3, <2>4, DriverOnlyType
<1>20. CASE CompleteCancel(d)
  <2>1. DriverOnly BY <1>20 DEF CompleteCancel
  <2>2. run' \in RunType BY <1>1, <1>20, ConstantsAssumption DEF CompleteCancel, RunType
  <2>3. sm' \in SmStates BY <1>1, <1>2, <1>20 DEF CompleteCancel
  <2>4. pc' \in [Drivers -> Labels] BY <1>1, <1>3, <1>20 DEF CompleteCancel, Labels
  <2> QED BY <2>1, <2>2, <2>3, <2>4, DriverOnlyType
<1>21. CASE Expire(d)
  <2>1. DriverOnly BY <1>21 DEF Expire
  <2>2. run' \in RunType BY <1>1, <1>21, ConstantsAssumption DEF Expire, RunType
  <2>3. sm' \in SmStates BY <1>1, <1>2, <1>21 DEF Expire
  <2>4. pc' \in [Drivers -> Labels] BY <1>1, <1>3, <1>21 DEF Expire, Labels
  <2> QED BY <2>1, <2>2, <2>3, <2>4, DriverOnlyType
<1>22. CASE Pad(d)
  <2>1. DriverOnly /\ UNCHANGED <<sm, run>> BY <1>22 DEF Pad
  <2>2. Goto(d, "padding") \/ Goto(d, "close_sink") BY <1>22 DEF Pad
  <2>3. pc' \in [Drivers -> Labels] BY <1>3, <2>2 DEF Labels
  <2> QED BY <1>1, <2>1, <2>3, DriverOnlyType
<1>23. CASE StopPadding(d)
  <2>1. DriverOnly /\ UNCHANGED <<sm, run>> BY <1>23 DEF StopPadding
  <2>2. pc' \in [Drivers -> Labels] BY <1>3, <1>23 DEF StopPadding, Labels
  <2> QED BY <1>1, <2>1, <2>2, DriverOnlyType
<1> QED BY <1>4, <1>5, <1>6, <1>7, <1>8, <1>9, <1>10, <1>11, <1>12, <1>13, <1>14, <1>15, <1>16, <1>17, <1>18, <1>19, <1>20, <1>21, <1>22, <1>23

LEMMA DriverSharedSteps ==
  ASSUME TypeOK, NEW d \in Drivers,
         \/ Enter(d) \/ Reject(d) \/ ClearCancelled(d) \/ ResetMachine(d)
         \/ Open(d) \/ PushSentence(d) \/ Speak(d) \/ CloseText(d)
         \/ JoinTts(d) \/ PadFrame(d) \/ CloseSink(d) \/ Leave(d)
  PROVE  TypeOK'
<1> USE DEF members, drivers, queues, workers, cancellers
<1>1. \A l \in Labels : Goto(d, l) => pc' \in [Drivers -> Labels] BY GotoType
<1>2. Push(textQ, acct.offered + 1) \in QueueType(Nat) /\ Close(textQ) \in QueueType(Nat)
      /\ Close(pcmQ) \in QueueType(Frames)
  <2>1. textQ \in QueueType(Nat) /\ pcmQ \in QueueType(Frames) /\ acct \in AcctType
    BY DEF TypeOK
  <2>2. acct.offered + 1 \in Nat BY <2>1 DEF AcctType
  <2> QED BY <2>1, <2>2, QueueOps
<1>3. CASE Enter(d)
  <2>1. pc' \in [Drivers -> Labels] BY <1>1, <1>3 DEF Enter, Labels
  <2>2. calls' \in [Drivers -> Nat] BY <1>3 DEF TypeOK, Enter
  <2> QED BY <1>3, <2>1, <2>2 DEF TypeOK, Enter
<1>4. CASE Reject(d)
  <2>1. calls' \in [Drivers -> Nat] BY <1>4 DEF TypeOK, Reject
  <2> QED BY <1>4, <2>1 DEF TypeOK, Reject
<1>5. CASE ClearCancelled(d)
  <2>1. pc' \in [Drivers -> Labels] BY <1>1, <1>5 DEF ClearCancelled, Labels
  <2> QED BY <1>5, <2>1 DEF TypeOK, ClearCancelled
<1>6. CASE ResetMachine(d)
  <2>1. pc' \in [Drivers -> Labels] BY <1>1, <1>6 DEF ResetMachine, Labels
  <2> QED BY <1>6, <2>1 DEF TypeOK, ResetMachine, SmStates
<1>7. CASE Open(d)
  <2>1. pc' \in [Drivers -> Labels] BY <1>1, <1>7 DEF Open, Labels
  <2>2. PICK limited \in BOOLEAN :
          \/ /\ run' = NewRun(generation + 1, limited)
             /\ out' = [open |-> TRUE, log |-> <<>>]
          \/ /\ run' = [NewRun(generation + 1, limited) EXCEPT !.error = TRUE]
             /\ out' = [open |-> FALSE, log |-> <<>>]
    BY <1>7 DEF Open
  <2>3. generation + 1 \in Nat BY DEF TypeOK
  <2>4. run' \in RunType
    <3>1. NewRun(generation + 1, limited) \in RunType BY <2>3 DEF NewRun, RunType
    <3>2. [NewRun(generation + 1, limited) EXCEPT !.error = TRUE] \in RunType
      BY <3>1 DEF RunType
    <3> QED BY <2>2, <3>1, <3>2
  <2>5. out' \in [open : BOOLEAN, log : Seq(Frames)]
    <3>1. <<>> \in Seq(Frames) BY EmptySeq
    <3>2. out' = [open |-> TRUE, log |-> <<>>] \/ out' = [open |-> FALSE, log |-> <<>>]
      BY <2>2
    <3>3. \A open \in BOOLEAN : [open |-> open, log |-> <<>>] \in [open : BOOLEAN, log : Seq(Frames)]
      BY <3>1
    <3> QED BY <3>2, <3>3
  <2>6. textQ' \in QueueType(Nat) /\ pcmQ' \in QueueType(Frames)
    BY <1>7, NewQueueType DEF Open
  <2>7. tts' \in [at : {"none", "take", "check", "synth", "push", "done"},
                  sentence : Nat, todo : Nat, k : Nat]
    BY <1>7 DEF Open, NoTts
  <2>8. sink' \in [at : {"none", "take", "check", "write", "done"}, frame : Frames]
    BY <1>7 DEF Open, NoSink, Silence, Frames
  <2>9. acct' \in AcctType BY <1>7 DEF Open, TypeOK, NewAcct, AcctType
  <2> QED BY <1>7, <2>1, <2>3, <2>4, <2>5, <2>6, <2>7, <2>8, <2>9 DEF TypeOK, Open
<1>8. CASE PushSentence(d)
  <2>1. acct \in AcctType /\ run \in RunType /\ textQ \in QueueType(Nat) BY DEF TypeOK
  <2>2. acct' \in AcctType BY <1>8, <2>1 DEF PushSentence, AcctType
  <2>3. run.pend \in Nat /\ run.droppedText + 1 \in Nat BY <2>1 DEF RunType
  <2>4. run.pend - 1 \in Nat BY <1>8, <2>3 DEF PushSentence
  <2>5. run' \in RunType BY SMTT(20), ZenonT(30), <1>8, <2>1, <2>3, <2>4 DEF PushSentence, RunType
  <2>6. textQ' \in QueueType(Nat) BY <1>2, <1>8, <2>1 DEF PushSentence
  <2> QED BY <1>8, <2>2, <2>5, <2>6 DEF TypeOK, PushSentence
<1>9. CASE Speak(d)
  <2>1. pc' \in [Drivers -> Labels] BY <1>1, <1>9 DEF Speak, Labels
  <2>2. tts' \in [at : {"none", "take", "check", "synth", "push", "done"},
                  sentence : Nat, todo : Nat, k : Nat]
    BY <1>9 DEF TypeOK, Speak
  <2>3. sink' \in [at : {"none", "take", "check", "write", "done"}, frame : Frames]
    BY <1>9 DEF TypeOK, Speak
  <2> QED BY <1>9, <2>1, <2>2, <2>3 DEF TypeOK, Speak
<1>10. CASE CloseText(d)
  <2>1. pc' \in [Drivers -> Labels] BY <1>1, <1>10 DEF CloseText, Labels
  <2>2. textQ' \in QueueType(Nat) BY <1>2, <1>10 DEF CloseText
  <2> QED BY <1>10, <2>1, <2>2 DEF TypeOK, CloseText
<1>11. CASE JoinTts(d)
  <2>1. pc' \in [Drivers -> Labels] BY <1>1, <1>11 DEF JoinTts, Labels
  <2>2. pcmQ' \in QueueType(Frames) BY <1>2, <1>11 DEF JoinTts
  <2> QED BY <1>11, <2>1, <2>2 DEF TypeOK, JoinTts
<1>12. CASE PadFrame(d)
  <2>1. run' = [run EXCEPT !.pcmFrames = @ + 1]
        /\ out' = [out EXCEPT !.log = Append(@, Silence)]
    BY <1>12 DEF PadFrame
  <2>2. run' \in RunType
    <3>1. run \in RunType BY DEF TypeOK
    <3>2. run.pcmFrames + 1 \in Nat BY <3>1 DEF RunType
    <3> QED BY <2>1, <3>1, <3>2 DEF RunType
  <2>3. Silence \in Frames BY DEF Silence, Frames
  <2>4. out' \in [open : BOOLEAN, log : Seq(Frames)]
    BY <2>1, <2>3, AppendProperties DEF TypeOK
  <2> QED BY <1>12, <2>2, <2>4 DEF TypeOK, PadFrame
<1>13. CASE CloseSink(d)
  <2>1. pc' \in [Drivers -> Labels] BY <1>1, <1>13 DEF CloseSink, Labels
  <2>2. run' \in RunType BY SMTT(20), ZenonT(30), <1>13 DEF TypeOK, RunType, CloseSink
  <2>3. out' \in [open : BOOLEAN, log : Seq(Frames)] BY <1>13 DEF TypeOK, CloseSink
  <2> QED BY <1>13, <2>1, <2>2, <2>3 DEF TypeOK, CloseSink
<1>14. CASE Leave(d)
  <2>1. pc' \in [Drivers -> Labels] BY <1>1, <1>14 DEF Leave, Labels
  <2>2. last' \in Outcomes BY <1>14 DEF Leave, Outcome, Outcomes
  <2> QED BY <1>14, <2>1, <2>2 DEF TypeOK, Leave
<1> QED BY <1>3, <1>4, <1>5, <1>6, <1>7, <1>8, <1>9, <1>10, <1>11, <1>12, <1>13, <1>14

LEMMA TtsSteps == ASSUME TypeOK, TtsStep PROVE TypeOK'
<1> DEFINE T == [at : {"none", "take", "check", "synth", "push", "done"},
                 sentence : Nat, todo : Nat, k : Nat]
<1>1. /\ tts \in T /\ run \in RunType /\ acct \in AcctType
      /\ textQ \in QueueType(Nat) /\ pcmQ \in QueueType(Frames)
  BY DEF TypeOK
\* What a step of this worker has to establish.
<1>2. ASSUME NotTts, tts' \in T, run' \in RunType, acct' \in AcctType,
             textQ' \in QueueType(Nat), pcmQ' \in QueueType(Frames)
      PROVE  TypeOK'
  BY <1>2 DEF TypeOK, NotTts, members, cancellers
<1>3. CASE TtsTake
  <2>1. Head(textQ.items) \in Nat /\ Pop(textQ) \in QueueType(Nat)
    BY <1>1, <1>3, QueueOps DEF TtsTake
  <2>2. NotTts /\ run' \in RunType /\ acct' \in AcctType /\ pcmQ' \in QueueType(Frames)
    BY <1>1, <1>3 DEF TtsTake
  <2>3. tts' \in T BY <1>1, <1>3, <2>1 DEF TtsTake
  <2>4. textQ' \in QueueType(Nat) BY <1>3, <2>1 DEF TtsTake
  <2> QED BY <1>2, <2>2, <2>3, <2>4
<1>4. CASE TtsExit
  <2>1. tts' \in T BY <1>1, <1>4 DEF TtsExit
  <2> QED BY <1>1, <1>2, <1>4, <2>1 DEF TtsExit, queues
<1>5. CASE TtsCheck
  <2>1. tts' \in T
    <3>1. \/ tts' = [tts EXCEPT !.at = "synth", !.todo = MaxFrames, !.k = 0]
          \/ tts' = [tts EXCEPT !.at = "take"]
      BY <1>5 DEF TtsCheck
    <3>2. MaxFrames \in Nat BY ConstantsAssumption
    <3>3. [tts EXCEPT !.at = "take"] \in T BY <1>1
    <3>4. [tts EXCEPT !.at = "synth", !.todo = MaxFrames, !.k = 0] \in T BY <1>1, <3>2
    <3> QED BY <3>1, <3>3, <3>4
  <2>2. acct' \in AcctType BY <1>1, <1>5 DEF TtsCheck, AcctType
  <2> QED BY <1>1, <1>2, <1>5, <2>1, <2>2 DEF TtsCheck, queues
<1>6. CASE TtsFrame
  <2>1. tts.todo - 1 \in Nat BY <1>1, <1>6 DEF TtsFrame
  <2>2. tts.k + 1 \in Nat BY <1>1
  <2>3. tts' \in T
    <3>1. \/ tts' = [tts EXCEPT !.at = "push", !.todo = @ - 1, !.k = @ + 1]
          \/ tts' = [tts EXCEPT !.todo = @ - 1]
      BY <1>6 DEF TtsFrame
    <3> QED BY <1>1, <2>1, <2>2, <3>1
  <2>4. acct' \in AcctType BY <1>1, <1>6 DEF TtsFrame, AcctType
  <2> QED BY <1>1, <1>2, <1>6, <2>3, <2>4 DEF TtsFrame, queues
<1>7. CASE TtsPush
  <2>1. tts' \in T BY <1>1, <1>7 DEF TtsPush
  <2>2. <<tts.sentence, tts.k>> \in Frames BY <1>1 DEF Frames
  <2>3. Push(pcmQ, <<tts.sentence, tts.k>>) \in QueueType(Frames)
    BY <1>1, <2>2, QueueOps
  <2>4. pcmQ' \in QueueType(Frames) BY <1>1, <1>7, <2>3 DEF TtsPush
  <2>5. run' = run \/ run' = [run EXCEPT !.droppedPcm = @ + 1] BY <1>7 DEF TtsPush
  <2>6. run' \in RunType BY <1>1, <2>5 DEF RunType
  <2> QED BY <1>1, <1>2, <1>7, <2>1, <2>4, <2>6 DEF TtsPush
<1>8. CASE TtsReturn
  <2>1. tts' \in T BY <1>1, <1>8 DEF TtsReturn
  <2> QED BY <1>1, <1>2, <1>8, <2>1 DEF TtsReturn, queues
<1>9. CASE TtsThrow
  <2>1. tts' \in T BY <1>1, <1>9 DEF TtsThrow
  <2>2. run' \in RunType BY <1>1, <1>9 DEF TtsThrow, RunType
  <2> QED BY <1>1, <1>2, <1>9, <2>1, <2>2 DEF TtsThrow, queues
<1> QED BY <1>3, <1>4, <1>5, <1>6, <1>7, <1>8, <1>9 DEF TtsStep

LEMMA SinkSteps == ASSUME TypeOK, SinkStep PROVE TypeOK'
<1> DEFINE T == [at : {"none", "take", "check", "write", "done"}, frame : Frames]
           O == [open : BOOLEAN, log : Seq(Frames)]
<1>1. /\ sink \in T /\ run \in RunType /\ acct \in AcctType
      /\ pcmQ \in QueueType(Frames) /\ out \in O
  BY DEF TypeOK
\* What a step of this worker has to establish.
<1>2. ASSUME NotSink, sink' \in T, run' \in RunType, acct' \in AcctType,
             pcmQ' \in QueueType(Frames), out' \in O
      PROVE  TypeOK'
  BY <1>2 DEF TypeOK, NotSink, members, cancellers
<1>3. CASE SinkTake
  <2>1. Head(pcmQ.items) \in Frames /\ Pop(pcmQ) \in QueueType(Frames)
    BY <1>1, <1>3, QueueOps DEF SinkTake
  <2>2. sink' \in T BY <1>3, <2>1 DEF SinkTake
  <2> QED BY <1>1, <1>2, <1>3, <2>1, <2>2 DEF SinkTake
<1>4. CASE SinkExit
  <2>1. sink' \in T BY <1>1, <1>4 DEF SinkExit
  <2> QED BY <1>1, <1>2, <1>4, <2>1 DEF SinkExit
<1>5. CASE SinkCheck
  <2>1. sink' \in T BY <1>1, <1>5 DEF SinkCheck
  <2> QED BY <1>1, <1>2, <1>5, <2>1 DEF SinkCheck
<1>6. CASE SinkWrite
  <2>1. sink' \in T BY <1>1, <1>6 DEF SinkWrite
  <2>2. out' \in O BY <1>1, <1>6, AppendProperties DEF SinkWrite
  <2>3. run' \in RunType
    <3>1. run' = [run EXCEPT !.pcmFrames = @ + 1] BY <1>6 DEF SinkWrite
    <3> QED BY <1>1, <3>1 DEF RunType
  <2>4. acct' \in AcctType
    <3>1. acct' = [acct EXCEPT !.late = IF cancelled THEN @ + 1 ELSE @]
      BY <1>6 DEF SinkWrite
    <3> QED BY <1>1, <3>1 DEF AcctType
  <2> QED BY <1>1, <1>2, <1>6, <2>1, <2>2, <2>3, <2>4 DEF SinkWrite
<1>7. CASE SinkRefuse
  <2>1. sink' \in T BY <1>1, <1>7 DEF SinkRefuse
  <2>2. acct' \in AcctType BY <1>1, <1>7 DEF SinkRefuse, AcctType
  <2> QED BY <1>1, <1>2, <1>7, <2>1, <2>2 DEF SinkRefuse
<1> QED BY <1>3, <1>4, <1>5, <1>6, <1>7 DEF SinkStep

LEMMA CancelSteps ==
  ASSUME TypeOK, NEW c \in Cancellers, CancelGeneration(c) \/ CancelStep(c)
  PROVE  TypeOK'
<1> USE DEF TypeOK, NotCancel, drivers, queues, workers
<1>1. CASE CancelGeneration(c) BY <1>1 DEF CancelGeneration
<1>2. CASE CancelFlag(c)
  <2>1. acct' \in AcctType
    <3> DEFINE hit == \E d \in Drivers :
                 pc[d] \notin {"idle", "clear", "reset", "open",
                               "conclude", "abort", "complete", "leave"}
    <3>1. acct' = [acct EXCEPT !.flagged = @ \/ hit] BY <1>2 DEF CancelFlag
    <3> HIDE DEF hit
    <3> QED BY <3>1 DEF AcctType
  <2> QED BY <1>2, <2>1 DEF CancelFlag
<1>3. CASE CancelDispatch(c) BY <1>3, DispatchType DEF CancelDispatch
<1> QED BY <1>1, <1>2, <1>3 DEF CancelStep

\* Every step of every thread keeps the type invariant.
LEMMA NextType == TypeOK /\ [Next]_vars => TypeOK'
<1> SUFFICES ASSUME TypeOK, [Next]_vars PROVE TypeOK'
  OBVIOUS
<1>1. ASSUME NEW d \in Drivers, Enter(d) \/ Reject(d) \/ DriverStep(d) \/ Expire(d)
      PROVE  TypeOK'
  BY <1>1, DriverOnlySteps, DriverSharedSteps DEF DriverStep
<1>2. CASE UNCHANGED vars
  BY <1>2 DEF TypeOK, vars, members, drivers, queues, workers, cancellers
<1> QED BY <1>1, <1>2, TtsSteps, SinkSteps, CancelSteps DEF Next

\* Every variable keeps its type: the counters stay natural numbers, every
\* driver is at a program point of run(), the queues hold sentences and frames.
THEOREM TypeCorrect == Spec => []TypeOK
<1>1. Init => TypeOK BY InitType
<1>2. TypeOK /\ [Next]_vars => TypeOK' BY NextType
<1> QED BY <1>1, <1>2, PTL DEF Spec

-----------------------------------------------------------------------------
(* The bounds of the two queues *)

Within(q, capacity) ==
  Len(q.items) <= q.peak /\ q.peak <= EffectiveCapacity(capacity)

\* push_locked after a look at the room, pop_locked and close stay within the capacity.
LEMMA WithinOps ==
  ASSUME NEW Item, NEW q \in QueueType(Item), NEW capacity \in Nat, Within(q, capacity)
  PROVE  /\ \A x \in Item : HasRoom(q, capacity) => Within(Push(q, x), capacity)
         /\ HasItem(q) => Within(Pop(q), capacity)
         /\ Within(Close(q), capacity)
<1>1. q.items \in Seq(Item) /\ q.peak \in Nat /\ Len(q.items) \in Nat
  BY LenProperties DEF QueueType
<1>2. EffectiveCapacity(capacity) \in Nat BY DEF EffectiveCapacity
<1>3. ASSUME NEW x \in Item, HasRoom(q, capacity) PROVE Within(Push(q, x), capacity)
  <2>1. Len(Append(q.items, x)) = Len(q.items) + 1 BY <1>1, AppendProperties
  <2>2. /\ Push(q, x).items = Append(q.items, x)
        /\ Push(q, x).peak = IF Len(Append(q.items, x)) > q.peak
                             THEN Len(Append(q.items, x)) ELSE q.peak
    BY DEF Push, QueueType
  <2> QED BY <1>1, <1>2, <1>3, <2>1, <2>2 DEF Within, HasRoom
<1>4. ASSUME HasItem(q) PROVE Within(Pop(q), capacity)
  <2>1. Len(Tail(q.items)) = Len(q.items) - 1 BY <1>1, <1>4, HeadTailProperties DEF HasItem
  <2>2. Pop(q).items = Tail(q.items) /\ Pop(q).peak = q.peak BY DEF Pop, QueueType
  <2> QED BY <1>1, <1>2, <2>1, <2>2 DEF Within
<1>5. Within(Close(q), capacity) BY DEF Close, Within, QueueType
<1> QED BY <1>3, <1>4, <1>5

LEMMA BoundsInit == Init => QueuesBounded
BY ConstantsAssumption DEF Init, QueuesBounded, NewQueue, EffectiveCapacity

LEMMA BoundsDriver ==
  ASSUME TypeOK, QueuesBounded, NEW d \in Drivers,
         Enter(d) \/ Reject(d) \/ DriverStep(d) \/ Expire(d)
  PROVE  QueuesBounded'
<1> USE DEF DriverOnly, queues
<1>1. /\ textQ \in QueueType(Nat) /\ pcmQ \in QueueType(Frames) /\ acct \in AcctType
      /\ TextCapacity \in Nat /\ PcmCapacity \in Nat
  BY ConstantsAssumption DEF TypeOK
<1>2. Within(textQ, TextCapacity) /\ Within(pcmQ, PcmCapacity)
  BY DEF QueuesBounded, Within
<1>3. ASSUME Within(textQ', TextCapacity), Within(pcmQ', PcmCapacity) PROVE QueuesBounded'
  BY <1>3 DEF QueuesBounded, Within
<1>4. ASSUME UNCHANGED <<textQ, pcmQ>> PROVE QueuesBounded'
  BY <1>2, <1>3, <1>4
<1>5. CASE Open(d)
  <2>1. Within(NewQueue, TextCapacity) /\ Within(NewQueue, PcmCapacity)
    BY <1>1 DEF Within, NewQueue, EffectiveCapacity
  <2> QED BY <1>3, <1>5, <2>1 DEF Open
<1>6. CASE PushSentence(d)
  <2>1. acct.offered + 1 \in Nat BY <1>1 DEF AcctType
  <2>2. \/ HasRoom(textQ, TextCapacity) /\ textQ' = Push(textQ, acct.offered + 1)
        \/ textQ' = textQ
    BY <1>6 DEF PushSentence
  <2>3. Within(textQ', TextCapacity) BY <1>1, <1>2, <2>1, <2>2, WithinOps
  <2>4. pcmQ' = pcmQ BY <1>6 DEF PushSentence
  <2> QED BY <1>2, <1>3, <2>3, <2>4
<1>7. CASE CloseText(d)
  <2>1. textQ' = Close(textQ) /\ pcmQ' = pcmQ BY <1>7 DEF CloseText
  <2> QED BY <1>1, <1>2, <1>3, <2>1, WithinOps
<1>8. CASE JoinTts(d)
  <2>1. pcmQ' = Close(pcmQ) /\ textQ' = textQ BY <1>8 DEF JoinTts
  <2> QED BY <1>1, <1>2, <1>3, <2>1, WithinOps
<1>9. CASE Listen(d) BY <1>4, <1>9 DEF Listen
<1>10. CASE FeedAudio(d) BY <1>4, <1>10 DEF FeedAudio
<1>11. CASE StopFeeding(d) BY <1>4, <1>11 DEF StopFeeding
<1>12. CASE HearQuery(d) BY <1>4, <1>12 DEF HearQuery
<1>13. CASE Route(d) BY <1>4, <1>13 DEF Route
<1>14. CASE AnswerDirectly(d) BY <1>4, <1>14 DEF AnswerDirectly
<1>15. CASE AskLlm(d) BY <1>4, <1>15 DEF AskLlm
<1>16. CASE LlmToken(d) BY <1>4, <1>16 DEF LlmToken
<1>17. CASE LlmReturns(d) BY <1>4, <1>17 DEF LlmReturns
<1>18. CASE LlmDone(d) BY <1>4, <1>18 DEF LlmDone
<1>19. CASE BackendThrows(d) BY <1>4, <1>19 DEF BackendThrows
<1>20. CASE Speak(d) BY <1>4, <1>20 DEF Speak
<1>21. CASE JoinSink(d) BY <1>4, <1>21 DEF JoinSink
<1>22. CASE Pad(d) BY <1>4, <1>22 DEF Pad
<1>23. CASE PadFrame(d) BY <1>4, <1>23 DEF PadFrame
<1>24. CASE StopPadding(d) BY <1>4, <1>24 DEF StopPadding
<1>25. CASE CloseSink(d) BY <1>4, <1>25 DEF CloseSink
<1>26. CASE CheckCancelled(d) BY <1>4, <1>26 DEF CheckCancelled
<1>27. CASE Succeed(d) BY <1>4, <1>27 DEF Succeed
<1>28. CASE Fail(d) BY <1>4, <1>28 DEF Fail
<1>29. CASE Abort(d) BY <1>4, <1>29 DEF Abort
<1>30. CASE CompleteCancel(d) BY <1>4, <1>30 DEF CompleteCancel
<1>31. CASE Leave(d) BY <1>4, <1>31 DEF Leave
<1>32. CASE Enter(d) BY <1>4, <1>32 DEF Enter
<1>33. CASE Reject(d) BY <1>4, <1>33 DEF Reject
<1>34. CASE ClearCancelled(d) BY <1>4, <1>34 DEF ClearCancelled
<1>35. CASE ResetMachine(d) BY <1>4, <1>35 DEF ResetMachine
<1>36. CASE Expire(d) BY <1>4, <1>36 DEF Expire
<1> QED BY <1>5, <1>6, <1>7, <1>8, <1>9, <1>10, <1>11, <1>12, <1>13, <1>14, <1>15, <1>16, <1>17, <1>18, <1>19, <1>20, <1>21, <1>22, <1>23, <1>24, <1>25, <1>26, <1>27, <1>28, <1>29, <1>30, <1>31, <1>32, <1>33, <1>34, <1>35, <1>36 DEF DriverStep

LEMMA BoundsStep == TypeOK /\ QueuesBounded /\ [Next]_vars => QueuesBounded'
<1> SUFFICES ASSUME TypeOK, QueuesBounded, [Next]_vars PROVE QueuesBounded'
  OBVIOUS
<1> USE DEF queues
<1>1. /\ textQ \in QueueType(Nat) /\ pcmQ \in QueueType(Frames)
      /\ TextCapacity \in Nat /\ PcmCapacity \in Nat
      /\ tts.sentence \in Nat /\ tts.k \in Nat
  BY ConstantsAssumption DEF TypeOK
<1>2. Within(textQ, TextCapacity) /\ Within(pcmQ, PcmCapacity)
  BY DEF QueuesBounded, Within
<1>3. ASSUME Within(textQ', TextCapacity), Within(pcmQ', PcmCapacity) PROVE QueuesBounded'
  BY <1>3 DEF QueuesBounded, Within
<1>4. ASSUME UNCHANGED <<textQ, pcmQ>> PROVE QueuesBounded'
  BY <1>2, <1>3, <1>4
<1>5. CASE TtsTake
  <2>1. HasItem(textQ) /\ textQ' = Pop(textQ) /\ pcmQ' = pcmQ BY <1>5 DEF TtsTake
  <2> QED BY <1>1, <1>2, <1>3, <2>1, WithinOps
<1>6. CASE TtsPush
  <2>1. <<tts.sentence, tts.k>> \in Frames BY <1>1 DEF Frames
  <2>2. \/ HasRoom(pcmQ, PcmCapacity) /\ pcmQ' = Push(pcmQ, <<tts.sentence, tts.k>>)
        \/ pcmQ' = pcmQ
    BY <1>6 DEF TtsPush
  <2>3. Within(pcmQ', PcmCapacity) BY <1>1, <1>2, <2>1, <2>2, WithinOps
  <2>4. textQ' = textQ BY <1>6 DEF TtsPush
  <2> QED BY <1>2, <1>3, <2>3, <2>4
<1>7. CASE SinkTake
  <2>1. HasItem(pcmQ) /\ pcmQ' = Pop(pcmQ) /\ textQ' = textQ BY <1>7 DEF SinkTake, NotSink
  <2> QED BY <1>1, <1>2, <1>3, <2>1, WithinOps
<1>8. CASE TtsExit \/ TtsCheck \/ TtsFrame \/ TtsReturn \/ TtsThrow
  BY <1>4, <1>8 DEF TtsExit, TtsCheck, TtsFrame, TtsReturn, TtsThrow
<1>9. CASE SinkExit \/ SinkCheck \/ SinkWrite \/ SinkRefuse
  BY <1>4, <1>9 DEF SinkExit, SinkCheck, SinkWrite, SinkRefuse, NotSink
<1>10. ASSUME NEW c \in Cancellers, CancelGeneration(c) \/ CancelStep(c) PROVE QueuesBounded'
  BY <1>4, <1>10 DEF CancelStep, CancelGeneration, CancelFlag, CancelDispatch, NotCancel
<1>11. CASE UNCHANGED vars BY <1>4, <1>11 DEF vars
<1> QED BY <1>5, <1>6, <1>7, <1>8, <1>9, <1>10, <1>11, BoundsDriver DEF Next, TtsStep, SinkStep

\* However long the answer and however slow its consumers, neither queue outgrows the
\* capacity it was configured with, and the depth it reports is one it had room for.
THEOREM QueuesStayBounded == Spec => []WithinBounds
<1>1. Init => QueuesBounded BY BoundsInit
<1>2. TypeOK /\ QueuesBounded /\ [Next]_vars => QueuesBounded' BY BoundsStep
<1> QED BY <1>1, <1>2, TypeCorrect, PTL DEF Spec, WithinBounds

-----------------------------------------------------------------------------
(* The inductive invariant *)

\* Program points at which the sink is open.
Opened == {"listen", "asr", "asr_final", "route", "l0_l1", "l2_l3", "direct",
           "llm", "flush", "speak", "close_text", "join_tts", "join_sink",
           "pad", "padding", "close_sink"}

\* The driver has spawned the workers, if ever, and not yet joined them.
Joining == {"close_text", "join_tts", "join_sink"}

\* The resources of a run last as long as the thread that may use them.
ResourceInv ==
  /\ \A d \in Drivers : pc[d] \in Opened => out.open
  /\ \A d \in Drivers :
       pc[d] \in Opened \ {"join_sink", "pad", "padding", "close_sink"} => ~pcmQ.closed
  /\ Alive(tts) => \E d \in Drivers : pc[d] \in {"close_text", "join_tts"}
  /\ Alive(sink) => \E d \in Drivers : pc[d] \in Joining

\* The states the machine can be in at a program point of run(): the one the
\* run has brought it to, or the one a cancellation has.
StageStates(l) ==
  CASE l \in {"open", "listen"}          -> {"idle"}
    [] l \in {"asr", "asr_final"}        -> {"listening", "cancelling"}
    [] l \in {"route", "l0_l1", "l2_l3"} -> {"routing", "cancelling"}
    [] l = "direct"                      -> {"speaking", "cancelling"}
    [] l \in {"llm", "flush"}            -> {"thinking", "cancelling"}
    [] l = "complete"                    -> {"idle", "cancelling"}
    [] OTHER                             -> SmStates

StageInv ==
  /\ \A d \in Drivers :
       /\ sm \in StageStates(pc[d])
       /\ pc[d] = "speak" /\ CanGoOn => sm \in {"speaking", "cancelling"}
       /\ pc[d] = "leave" /\ ~run.ok => sm = "idle"
  /\ WorkersOnlyWhileSpeaking
  /\ FailedRunEndsIdle

\* A flagged cancellation stays visible up to the final look at it, which
\* remembers it for the verdict.
CancelInv ==
  /\ \A d \in Drivers :
       /\ pc[d] \in Opened \cup {"check", "conclude"} => ~run.ok
       /\ pc[d] \in Opened \cup {"check"} => (acct.flagged => cancelled)
       /\ pc[d] = "conclude" => (acct.flagged => run.cancelled)
  /\ CancelHonoured

Inv == TypeOK /\ RunExclusive /\ ResourceInv /\ StageInv /\ CancelInv

-----------------------------------------------------------------------------
(* Mutual exclusion and the resources of a run *)

\* A step inside run() keeps the driver inside and touches no other driver.
Inner(d) ==
  /\ pc[d] # "idle" /\ running' = running
  /\ \E l \in Labels \ {"idle"} : pc' = [pc EXCEPT ![d] = l]

LEMMA InnerSteps ==
  ASSUME TypeOK, NEW d \in Drivers, (DriverStep(d) /\ ~Leave(d)) \/ Expire(d)
  PROVE  Inner(d)
<1> USE DEF Inner, At, Goto, Submit, members
<1>1. pc \in [Drivers -> Labels] BY DEF TypeOK
<1>2. pc[d] \in Labels /\ pc = [pc EXCEPT ![d] = pc[d]] BY <1>1
<1>3. CASE ClearCancelled(d) BY <1>2, <1>3 DEF ClearCancelled, DriverOnly, Labels
<1>4. CASE ResetMachine(d) BY <1>2, <1>4 DEF ResetMachine, DriverOnly, Labels
<1>5. CASE Open(d) BY <1>2, <1>5 DEF Open, DriverOnly, Labels
<1>6. CASE Listen(d) BY <1>2, <1>6 DEF Listen, DriverOnly, Labels
<1>7. CASE FeedAudio(d) BY <1>2, <1>7 DEF FeedAudio, DriverOnly, Labels
<1>8. CASE StopFeeding(d) BY <1>2, <1>8 DEF StopFeeding, DriverOnly, Labels
<1>9. CASE HearQuery(d) BY <1>2, <1>9 DEF HearQuery, DriverOnly, Labels
<1>10. CASE Route(d) BY <1>2, <1>10 DEF Route, DriverOnly, Labels
<1>11. CASE AnswerDirectly(d) BY <1>2, <1>11 DEF AnswerDirectly, DriverOnly, Labels
<1>12. CASE AskLlm(d) BY <1>2, <1>12 DEF AskLlm, DriverOnly, Labels
<1>13. CASE LlmToken(d) BY <1>2, <1>13 DEF LlmToken, DriverOnly, Labels
<1>14. CASE LlmReturns(d) BY <1>2, <1>14 DEF LlmReturns, DriverOnly, Labels
<1>15. CASE PushSentence(d) BY <1>2, <1>15 DEF PushSentence, DriverOnly, Labels
<1>16. CASE LlmDone(d) BY <1>2, <1>16 DEF LlmDone, DriverOnly, Labels
<1>17. CASE BackendThrows(d) BY <1>2, <1>17 DEF BackendThrows, DriverOnly, Labels
<1>18. CASE Speak(d) BY <1>2, <1>18 DEF Speak, DriverOnly, Labels
<1>19. CASE CloseText(d) BY <1>2, <1>19 DEF CloseText, DriverOnly, Labels
<1>20. CASE JoinTts(d) BY <1>2, <1>20 DEF JoinTts, DriverOnly, Labels
<1>21. CASE JoinSink(d) BY <1>2, <1>21 DEF JoinSink, DriverOnly, Labels
<1>22. CASE Pad(d) BY <1>2, <1>22 DEF Pad, DriverOnly, Labels
<1>23. CASE CloseSink(d) BY <1>2, <1>23 DEF CloseSink, DriverOnly, Labels
<1>24. CASE CheckCancelled(d) BY <1>2, <1>24 DEF CheckCancelled, DriverOnly, Labels
<1>25. CASE Succeed(d) BY <1>2, <1>25 DEF Succeed, DriverOnly, Labels
<1>26. CASE Fail(d) BY <1>2, <1>26 DEF Fail, DriverOnly, Labels
<1>27. CASE Abort(d) BY <1>2, <1>27 DEF Abort, DriverOnly, Labels
<1>28. CASE CompleteCancel(d) BY <1>2, <1>28 DEF CompleteCancel, DriverOnly, Labels
<1>29. CASE Expire(d) BY <1>2, <1>29 DEF Expire, DriverOnly, Labels
<1>30. CASE PadFrame(d) BY <1>2, <1>30 DEF PadFrame, DriverOnly, Labels
<1>31. CASE StopPadding(d) BY <1>2, <1>31 DEF StopPadding, DriverOnly, Labels
<1> QED BY <1>3, <1>4, <1>5, <1>6, <1>7, <1>8, <1>9, <1>10, <1>11, <1>12, <1>13, <1>14, <1>15, <1>16, <1>17, <1>18, <1>19, <1>20, <1>21, <1>22, <1>23, <1>24, <1>25, <1>26, <1>27, <1>28, <1>29, <1>30, <1>31 DEF DriverStep

LEMMA ExclusiveInit == Init => RunExclusive
BY DEF Init, RunExclusive, InFlight

LEMMA ExclusiveStep == TypeOK /\ RunExclusive /\ [Next]_vars => RunExclusive'
<1> SUFFICES ASSUME TypeOK, RunExclusive, [Next]_vars PROVE RunExclusive'
  OBVIOUS
<1> USE DEF RunExclusive, InFlight, Goto, At, TypeOK
<1>1. ASSUME NEW d \in Drivers, Enter(d) PROVE RunExclusive'
  BY <1>1 DEF Enter
<1>2. ASSUME NEW d \in Drivers, Leave(d) PROVE RunExclusive'
  BY <1>2 DEF Leave
<1>3. ASSUME NEW d \in Drivers, Inner(d) PROVE RunExclusive'
  BY <1>3 DEF Inner
<1>4. ASSUME UNCHANGED <<running, pc>> PROVE RunExclusive'
  BY <1>4
<1>5. ASSUME NEW d \in Drivers, Enter(d) \/ Reject(d) \/ DriverStep(d) \/ Expire(d)
      PROVE  RunExclusive'
  BY <1>1, <1>2, <1>3, <1>4, <1>5, InnerSteps DEF Reject, members
<1>6. TtsStep => UNCHANGED <<running, pc>>
  BY DEF TtsStep, TtsTake, TtsExit, TtsCheck, TtsFrame, TtsPush, TtsReturn, TtsThrow,
         NotTts, members
<1>7. SinkStep => UNCHANGED <<running, pc>>
  BY DEF SinkStep, SinkTake, SinkExit, SinkCheck, SinkWrite, SinkRefuse, NotSink, members
<1>8. ASSUME NEW c \in Cancellers, CancelGeneration(c) \/ CancelStep(c)
      PROVE  UNCHANGED <<running, pc>>
  BY <1>8 DEF CancelStep, CancelGeneration, CancelFlag, CancelDispatch, NotCancel, drivers
<1>9. UNCHANGED vars => UNCHANGED <<running, pc>> BY DEF vars, members, drivers
<1> QED BY <1>4, <1>5, <1>6, <1>7, <1>8, <1>9 DEF Next

\* A driver inside run() is alone there.
LEMMA Alone ==
  ASSUME RunExclusive, NEW d \in Drivers, pc[d] # "idle"
  PROVE  \A e \in Drivers : e # d => pc[e] = "idle"
BY DEF RunExclusive, InFlight

LEMMA ResourceDriver ==
  ASSUME TypeOK, RunExclusive, ResourceInv, NEW d \in Drivers,
         Enter(d) \/ Reject(d) \/ DriverStep(d) \/ Expire(d)
  PROVE  ResourceInv'
<1> USE DEF ResourceInv, Opened, Joining, Alive, At, Goto, Submit, DriverOnly,
            members, queues, workers
<1>1. pc[d] # "idle" => \A e \in Drivers : e # d => pc[e] = "idle" BY Alone
<1>2. pc \in [Drivers -> Labels] /\ out \in [open : BOOLEAN, log : Seq(Frames)]
      /\ pcmQ \in QueueType(Frames)
  BY DEF TypeOK
<1>3. CASE ClearCancelled(d) BY <1>1, <1>2, <1>3 DEF ClearCancelled
<1>4. CASE ResetMachine(d) BY <1>1, <1>2, <1>4 DEF ResetMachine
<1>5. CASE Open(d)
  <2>1. ~pcmQ'.closed /\ tts'.at = "none" /\ sink'.at = "none"
    BY <1>5 DEF Open, NewQueue, NoTts, NoSink
  <2>2. \/ out'.open /\ pc' = [pc EXCEPT ![d] = "listen"]
        \/ pc' = [pc EXCEPT ![d] = "leave"]
    BY <1>5 DEF Open
  <2>3. pc[d] = "open" BY <1>5 DEF Open
  <2> QED BY <1>1, <1>2, <2>1, <2>2, <2>3
<1>6. CASE Listen(d) BY <1>1, <1>2, <1>6 DEF Listen
<1>7. CASE FeedAudio(d) BY <1>1, <1>2, <1>7 DEF FeedAudio
<1>8. CASE StopFeeding(d) BY <1>1, <1>2, <1>8 DEF StopFeeding
<1>9. CASE HearQuery(d) BY <1>1, <1>2, <1>9 DEF HearQuery
<1>10. CASE Route(d) BY <1>1, <1>2, <1>10 DEF Route
<1>11. CASE AnswerDirectly(d) BY <1>1, <1>2, <1>11 DEF AnswerDirectly
<1>12. CASE AskLlm(d) BY <1>1, <1>2, <1>12 DEF AskLlm
<1>13. CASE LlmToken(d) BY <1>1, <1>2, <1>13 DEF LlmToken
<1>14. CASE LlmReturns(d) BY <1>1, <1>2, <1>14 DEF LlmReturns
<1>15. CASE PushSentence(d) BY <1>1, <1>2, <1>15 DEF PushSentence
<1>16. CASE LlmDone(d) BY <1>1, <1>2, <1>16 DEF LlmDone
<1>17. CASE BackendThrows(d) BY <1>1, <1>2, <1>17 DEF BackendThrows
<1>18. CASE Speak(d) BY <1>1, <1>2, <1>18 DEF Speak
<1>19. CASE CloseText(d) BY <1>1, <1>2, <1>19 DEF CloseText
<1>20. CASE JoinTts(d) BY <1>1, <1>2, <1>20 DEF JoinTts
<1>21. CASE JoinSink(d) BY <1>1, <1>2, <1>21 DEF JoinSink
<1>22. CASE Pad(d) BY <1>1, <1>2, <1>22 DEF Pad
<1>23. CASE CloseSink(d) BY <1>1, <1>2, <1>23 DEF CloseSink
<1>24. CASE CheckCancelled(d) BY <1>1, <1>2, <1>24 DEF CheckCancelled
<1>25. CASE Succeed(d) BY <1>1, <1>2, <1>25 DEF Succeed
<1>26. CASE Fail(d) BY <1>1, <1>2, <1>26 DEF Fail
<1>27. CASE Abort(d) BY <1>1, <1>2, <1>27 DEF Abort
<1>28. CASE CompleteCancel(d) BY <1>1, <1>2, <1>28 DEF CompleteCancel
<1>29. CASE Leave(d) BY <1>1, <1>2, <1>29 DEF Leave
<1>30. CASE Enter(d) BY <1>1, <1>2, <1>30 DEF Enter
<1>31. CASE Reject(d) BY <1>1, <1>2, <1>31 DEF Reject
<1>32. CASE Expire(d) BY <1>1, <1>2, <1>32 DEF Expire
<1>33. CASE PadFrame(d) BY <1>1, <1>2, <1>33 DEF PadFrame
<1>34. CASE StopPadding(d) BY <1>1, <1>2, <1>34 DEF StopPadding
<1> QED BY <1>3, <1>4, <1>5, <1>6, <1>7, <1>8, <1>9, <1>10, <1>11, <1>12, <1>13, <1>14, <1>15, <1>16, <1>17, <1>18, <1>19, <1>20, <1>21, <1>22, <1>23, <1>24, <1>25, <1>26, <1>27, <1>28, <1>29, <1>30, <1>31, <1>32, <1>33, <1>34 DEF DriverStep

\* What a step of a worker cannot do to the run it works for.
LEMMA WorkerFrame ==
  ASSUME TypeOK, TtsStep \/ SinkStep
  PROVE  /\ UNCHANGED <<running, cancelled, sm, pc, last>>
         /\ out'.open = out.open /\ pcmQ'.closed = pcmQ.closed
         /\ Alive(tts)' => Alive(tts)
         /\ Alive(sink)' => Alive(sink)
         /\ run'.ok = run.ok /\ run'.cancelled = run.cancelled
         /\ run'.expired = run.expired /\ (run.error => run'.error)
         /\ acct'.flagged = acct.flagged
<1> USE DEF Alive, NotTts, NotSink, members, queues
<1>1. /\ run \in RunType /\ acct \in AcctType
      /\ pcmQ \in QueueType(Frames) /\ out \in [open : BOOLEAN, log : Seq(Frames)]
      /\ tts \in [at : {"none", "take", "check", "synth", "push", "done"},
                  sentence : Nat, todo : Nat, k : Nat]
      /\ sink \in [at : {"none", "take", "check", "write", "done"}, frame : Frames]
  BY DEF TypeOK
<1> USE DEF RunType, AcctType, QueueType
<1>2. CASE TtsTake BY <1>1, <1>2 DEF TtsTake, Pop
<1>3. CASE TtsExit BY <1>1, <1>3 DEF TtsExit
<1>4. CASE TtsCheck BY <1>1, <1>4 DEF TtsCheck
<1>5. CASE TtsFrame BY <1>1, <1>5 DEF TtsFrame
<1>6. CASE TtsPush BY <1>1, <1>6 DEF TtsPush, Push
<1>7. CASE TtsReturn BY <1>1, <1>7 DEF TtsReturn
<1>8. CASE TtsThrow BY <1>1, <1>8 DEF TtsThrow
<1>9. CASE SinkTake BY <1>1, <1>9 DEF SinkTake, Pop
<1>10. CASE SinkExit BY <1>1, <1>10 DEF SinkExit
<1>11. CASE SinkCheck BY <1>1, <1>11 DEF SinkCheck
<1>12. CASE SinkWrite BY <1>1, <1>12 DEF SinkWrite
<1>13. CASE SinkRefuse BY <1>1, <1>13 DEF SinkRefuse
<1> QED BY <1>2, <1>3, <1>4, <1>5, <1>6, <1>7, <1>8, <1>9, <1>10, <1>11, <1>12, <1>13 DEF TtsStep, SinkStep

LEMMA ResourceStep ==
  TypeOK /\ RunExclusive /\ ResourceInv /\ [Next]_vars => ResourceInv'
<1> SUFFICES ASSUME TypeOK, RunExclusive, ResourceInv, [Next]_vars PROVE ResourceInv'
  OBVIOUS
<1>1. CASE TtsStep \/ SinkStep
  BY <1>1, WorkerFrame DEF ResourceInv
<1>2. CASE \E c \in Cancellers : CancelGeneration(c) \/ CancelStep(c)
  BY <1>2 DEF ResourceInv, Alive, CancelStep, CancelGeneration, CancelFlag,
              CancelDispatch, NotCancel, drivers, queues, workers
<1>3. CASE UNCHANGED vars
  BY <1>3 DEF ResourceInv, Alive, vars, drivers, queues, workers
<1> QED BY <1>1, <1>2, <1>3, ResourceDriver DEF Next

LEMMA ResourceInit == Init => ResourceInv
BY DEF Init, ResourceInv, Alive, Opened, NoTts, NoSink

-----------------------------------------------------------------------------
(* The stages of the state machine *)

LEMMA StageInit == Init => StageInv
BY DEF Init, StageInv, StageStates, SmStates, Alive, NoTts, NoSink,
       WorkersOnlyWhileSpeaking, FailedRunEndsIdle

LEMMA StageDriver ==
  ASSUME TypeOK, RunExclusive, ResourceInv, StageInv, NEW d \in Drivers,
         Enter(d) \/ Reject(d) \/ DriverStep(d) \/ Expire(d)
  PROVE  StageInv'
<1> USE DEF StageInv, StageStates, SmStates, WorkersOnlyWhileSpeaking, FailedRunEndsIdle,
            Alive, CanGoOn, At, Goto, Submit, DriverOnly, members, queues, workers
<1>1. pc[d] # "idle" => \A e \in Drivers : e # d => pc[e] = "idle" BY Alone
<1>2. pc \in [Drivers -> Labels] /\ sm \in SmStates /\ run \in RunType
      /\ running \in BOOLEAN /\ cancelled \in BOOLEAN
  BY DEF TypeOK
<1>3. pc[d] \notin Joining \cup {"idle"} => ~Alive(tts) /\ ~Alive(sink)
  BY <1>1 DEF ResourceInv, Joining
<1>4. running <=> \E e \in Drivers : pc[e] # "idle" BY DEF RunExclusive, InFlight
<1>5. CASE ClearCancelled(d) BY <1>1, <1>2, <1>3, <1>4, <1>5 DEF ClearCancelled, Dispatch, Cancellable, Joining, RunType
<1>6. CASE ResetMachine(d) BY <1>1, <1>2, <1>3, <1>4, <1>6 DEF ResetMachine, Dispatch, Cancellable, Joining, RunType
<1>7. CASE Open(d)
  <2>1. pc[d] = "open" /\ sm = "idle" /\ sm' = sm BY <1>7 DEF Open
  <2>2. pc' = [pc EXCEPT ![d] = "listen"] \/ pc' = [pc EXCEPT ![d] = "leave"]
    BY <1>7 DEF Open
  <2>3. tts'.at = "none" /\ sink'.at = "none" BY <1>7 DEF Open, NoTts, NoSink
  <2>4. UNCHANGED <<running, last>> BY <1>7 DEF Open
  <2> QED BY <1>1, <1>2, <2>1, <2>2, <2>3, <2>4
<1>8. CASE Listen(d)
  <2>1. pc[d] = "listen" /\ sm = "idle" /\ ~Alive(tts) /\ ~Alive(sink)
    BY <1>3, <1>8 DEF Listen, Joining
  <2>2. sm' = "listening" BY <2>1, <1>8 DEF Listen, Dispatch
  <2>3. pc' = [pc EXCEPT ![d] = "asr_final"] \/ pc' = [pc EXCEPT ![d] = "asr"]
    BY <1>8 DEF Listen
  <2>4. running /\ UNCHANGED <<running, tts, sink>> BY <1>4, <2>1, <1>8 DEF Listen
  <2> QED BY <1>1, <1>2, <2>1, <2>2, <2>3, <2>4
<1>9. CASE FeedAudio(d) BY <1>1, <1>2, <1>3, <1>4, <1>9 DEF FeedAudio, Dispatch, Cancellable, Joining, RunType
<1>10. CASE StopFeeding(d) BY <1>1, <1>2, <1>3, <1>4, <1>10 DEF StopFeeding, Dispatch, Cancellable, Joining, RunType
<1>11. CASE HearQuery(d) BY <1>1, <1>2, <1>3, <1>4, <1>11 DEF HearQuery, Dispatch, Cancellable, Joining, RunType
<1>12. CASE Route(d) BY <1>1, <1>2, <1>3, <1>4, <1>12 DEF Route, Dispatch, Cancellable, Joining, RunType
<1>13. CASE AnswerDirectly(d) BY <1>1, <1>2, <1>3, <1>4, <1>13 DEF AnswerDirectly, Dispatch, Cancellable, Joining, RunType
<1>14. CASE AskLlm(d) BY <1>1, <1>2, <1>3, <1>4, <1>14 DEF AskLlm, Dispatch, Cancellable, Joining, RunType
<1>15. CASE LlmToken(d) BY <1>1, <1>2, <1>3, <1>4, <1>15 DEF LlmToken, Dispatch, Cancellable, Joining, RunType
<1>16. CASE LlmReturns(d) BY <1>1, <1>2, <1>3, <1>4, <1>16 DEF LlmReturns, Dispatch, Cancellable, Joining, RunType
<1>17. CASE PushSentence(d) BY <1>1, <1>2, <1>3, <1>4, <1>17 DEF PushSentence, Dispatch, Cancellable, Joining, RunType
<1>18. CASE LlmDone(d) BY <1>1, <1>2, <1>3, <1>4, <1>18 DEF LlmDone, Dispatch, Cancellable, Joining, RunType
<1>19. CASE BackendThrows(d) BY <1>1, <1>2, <1>3, <1>4, <1>19 DEF BackendThrows, Dispatch, Cancellable, Joining, RunType
<1>20. CASE Speak(d) BY <1>1, <1>2, <1>3, <1>4, <1>20 DEF Speak, Dispatch, Cancellable, Joining, RunType
<1>21. CASE CloseText(d) BY <1>1, <1>2, <1>3, <1>4, <1>21 DEF CloseText, Dispatch, Cancellable, Joining, RunType
<1>22. CASE JoinTts(d) BY <1>1, <1>2, <1>3, <1>4, <1>22 DEF JoinTts, Dispatch, Cancellable, Joining, RunType
<1>23. CASE JoinSink(d) BY <1>1, <1>2, <1>3, <1>4, <1>23 DEF JoinSink, Dispatch, Cancellable, Joining, RunType
<1>24. CASE Pad(d) BY <1>1, <1>2, <1>3, <1>4, <1>24 DEF Pad, Dispatch, Cancellable, Joining, RunType
<1>25. CASE CloseSink(d) BY <1>1, <1>2, <1>3, <1>4, <1>25 DEF CloseSink, Dispatch, Cancellable, Joining, RunType
<1>26. CASE CheckCancelled(d) BY <1>1, <1>2, <1>3, <1>4, <1>26 DEF CheckCancelled, Dispatch, Cancellable, Joining, RunType
<1>27. CASE Succeed(d) BY <1>1, <1>2, <1>3, <1>4, <1>27 DEF Succeed, Dispatch, Cancellable, Joining, RunType
<1>28. CASE Fail(d) BY <1>1, <1>2, <1>3, <1>4, <1>28 DEF Fail, Dispatch, Cancellable, Joining, RunType
<1>29. CASE Abort(d) BY <1>1, <1>2, <1>3, <1>4, <1>29 DEF Abort, Dispatch, Cancellable, Joining, RunType
<1>30. CASE CompleteCancel(d) BY <1>1, <1>2, <1>3, <1>4, <1>30 DEF CompleteCancel, Dispatch, Cancellable, Joining, RunType
<1>31. CASE Leave(d)
  <2>1. pc[d] = "leave" /\ sm' = sm /\ last' = Outcome /\ UNCHANGED <<tts, sink>>
        /\ pc' = [pc EXCEPT ![d] = "idle"]
    BY <1>31 DEF Leave
  <2>2. last' \in {"cancelled", "failed"} => ~run.ok BY <2>1 DEF Outcome
  <2>3. ~Alive(tts) /\ ~Alive(sink) BY <1>3, <2>1 DEF Joining
  <2> QED BY <1>1, <1>2, <2>1, <2>2, <2>3
<1>32. CASE Enter(d) BY <1>1, <1>2, <1>3, <1>4, <1>32 DEF Enter, Dispatch, Cancellable, Joining, RunType
<1>33. CASE Reject(d) BY <1>1, <1>2, <1>3, <1>4, <1>33 DEF Reject, Dispatch, Cancellable, Joining, RunType
<1>34. CASE Expire(d) BY <1>1, <1>2, <1>3, <1>4, <1>34 DEF Expire, Dispatch, Cancellable, Joining, RunType
<1>35. CASE PadFrame(d) BY <1>1, <1>2, <1>3, <1>4, <1>35 DEF PadFrame, Dispatch, Cancellable, Joining, RunType
<1>36. CASE StopPadding(d) BY <1>1, <1>2, <1>3, <1>4, <1>36 DEF StopPadding, Dispatch, Cancellable, Joining, RunType
<1> QED BY <1>5, <1>6, <1>7, <1>8, <1>9, <1>10, <1>11, <1>12, <1>13, <1>14, <1>15, <1>16, <1>17, <1>18, <1>19, <1>20, <1>21, <1>22, <1>23, <1>24, <1>25, <1>26, <1>27, <1>28, <1>29, <1>30, <1>31, <1>32, <1>33, <1>34, <1>35, <1>36 DEF DriverStep

LEMMA StageStep ==
  TypeOK /\ RunExclusive /\ ResourceInv /\ StageInv /\ [Next]_vars => StageInv'
<1> SUFFICES ASSUME TypeOK, RunExclusive, ResourceInv, StageInv, [Next]_vars
             PROVE  StageInv'
  OBVIOUS
<1>1. CASE TtsStep \/ SinkStep
  BY <1>1, WorkerFrame DEF StageInv, WorkersOnlyWhileSpeaking, FailedRunEndsIdle, CanGoOn
<1>2. ASSUME NEW c \in Cancellers, CancelGeneration(c) \/ CancelStep(c)
      PROVE  StageInv'
  <2>1. UNCHANGED <<running, pc, run, last, tts, sink>>
    BY <1>2 DEF CancelStep, CancelGeneration, CancelFlag, CancelDispatch, NotCancel,
                drivers, workers
  <2>2. sm' = sm \/ sm' = Dispatch(sm, "cancel")
    BY <1>2 DEF CancelStep, CancelGeneration, CancelFlag, CancelDispatch
  <2>3. cancelled' = cancelled \/ cancelled'
    BY <1>2 DEF CancelStep, CancelGeneration, CancelFlag, CancelDispatch
  <2>4. sm \in SmStates BY DEF TypeOK
  <2> QED
    BY <2>1, <2>2, <2>3, <2>4
    DEF StageInv, StageStates, SmStates, WorkersOnlyWhileSpeaking, FailedRunEndsIdle,
        CanGoOn, Alive, Dispatch, Cancellable
<1>3. CASE UNCHANGED vars
  BY <1>3 DEF StageInv, WorkersOnlyWhileSpeaking, FailedRunEndsIdle, CanGoOn, Alive,
              vars, members, drivers, workers
<1> QED BY <1>1, <1>2, <1>3, StageDriver DEF Next

-----------------------------------------------------------------------------
(* Cancellation reaches the verdict *)

LEMMA CancelInit == Init => CancelInv
BY DEF Init, CancelInv, CancelHonoured, Opened, NewAcct

LEMMA CancelDriver ==
  ASSUME TypeOK, RunExclusive, CancelInv, NEW d \in Drivers,
         Enter(d) \/ Reject(d) \/ DriverStep(d) \/ Expire(d)
  PROVE  CancelInv'
<1> USE DEF CancelInv, CancelHonoured, Opened, At, Goto, Submit, DriverOnly, members,
            RunType, AcctType
<1>1. pc[d] # "idle" => \A e \in Drivers : e # d => pc[e] = "idle" BY Alone
<1>2. pc \in [Drivers -> Labels] /\ run \in RunType /\ acct \in AcctType
      /\ running \in BOOLEAN /\ cancelled \in BOOLEAN
  BY DEF TypeOK
<1>3. running <=> \E e \in Drivers : pc[e] # "idle" BY DEF RunExclusive, InFlight
<1>4. CASE ClearCancelled(d) BY <1>1, <1>2, <1>3, <1>4 DEF ClearCancelled
<1>5. CASE ResetMachine(d) BY <1>1, <1>2, <1>3, <1>5 DEF ResetMachine
<1>6. CASE Open(d)
  <2>1. acct'.flagged = cancelled /\ cancelled' = cancelled
    BY <1>6 DEF Open, NewAcct
  <2>2. run'.ok = FALSE BY <1>6 DEF Open, NewRun
  <2>3. pc[d] = "open" /\ (\/ pc' = [pc EXCEPT ![d] = "listen"]
                          \/ pc' = [pc EXCEPT ![d] = "leave"])
    BY <1>6 DEF Open
  <2> QED BY <1>1, <1>2, <2>1, <2>2, <2>3
<1>7. CASE Listen(d) BY SMTT(20), ZenonT(30), <1>1, <1>2, <1>3, <1>7 DEF Listen
<1>8. CASE FeedAudio(d) BY <1>1, <1>2, <1>3, <1>8 DEF FeedAudio
<1>9. CASE StopFeeding(d) BY <1>1, <1>2, <1>3, <1>9 DEF StopFeeding
<1>10. CASE HearQuery(d) BY <1>1, <1>2, <1>3, <1>10 DEF HearQuery
<1>11. CASE Route(d) BY <1>1, <1>2, <1>3, <1>11 DEF Route
<1>12. CASE AnswerDirectly(d) BY <1>1, <1>2, <1>3, <1>12 DEF AnswerDirectly
<1>13. CASE AskLlm(d) BY <1>1, <1>2, <1>3, <1>13 DEF AskLlm
<1>14. CASE LlmToken(d) BY <1>1, <1>2, <1>3, <1>14 DEF LlmToken
<1>15. CASE LlmReturns(d) BY <1>1, <1>2, <1>3, <1>15 DEF LlmReturns
<1>16. CASE PushSentence(d) BY <1>1, <1>2, <1>3, <1>16 DEF PushSentence
<1>17. CASE LlmDone(d) BY <1>1, <1>2, <1>3, <1>17 DEF LlmDone
<1>18. CASE BackendThrows(d) BY <1>1, <1>2, <1>3, <1>18 DEF BackendThrows
<1>19. CASE Speak(d) BY <1>1, <1>2, <1>3, <1>19 DEF Speak
<1>20. CASE CloseText(d) BY <1>1, <1>2, <1>3, <1>20 DEF CloseText
<1>21. CASE JoinTts(d) BY <1>1, <1>2, <1>3, <1>21 DEF JoinTts
<1>22. CASE JoinSink(d) BY <1>1, <1>2, <1>3, <1>22 DEF JoinSink
<1>23. CASE Pad(d) BY <1>1, <1>2, <1>3, <1>23 DEF Pad
<1>24. CASE CloseSink(d) BY <1>1, <1>2, <1>3, <1>24 DEF CloseSink
<1>25. CASE CheckCancelled(d) BY <1>1, <1>2, <1>3, <1>25 DEF CheckCancelled
<1>26. CASE Succeed(d) BY <1>1, <1>2, <1>3, <1>26 DEF Succeed
<1>27. CASE Fail(d) BY <1>1, <1>2, <1>3, <1>27 DEF Fail
<1>28. CASE Abort(d) BY <1>1, <1>2, <1>3, <1>28 DEF Abort
<1>29. CASE CompleteCancel(d) BY <1>1, <1>2, <1>3, <1>29 DEF CompleteCancel
<1>30. CASE Leave(d) BY <1>1, <1>2, <1>3, <1>30 DEF Leave
<1>31. CASE Enter(d) BY <1>1, <1>2, <1>3, <1>31 DEF Enter
<1>32. CASE Reject(d) BY <1>1, <1>2, <1>3, <1>32 DEF Reject
<1>33. CASE Expire(d) BY <1>1, <1>2, <1>3, <1>33 DEF Expire
<1>34. CASE PadFrame(d) BY <1>1, <1>2, <1>3, <1>34 DEF PadFrame
<1>35. CASE StopPadding(d) BY <1>1, <1>2, <1>3, <1>35 DEF StopPadding
<1> QED BY <1>4, <1>5, <1>6, <1>7, <1>8, <1>9, <1>10, <1>11, <1>12, <1>13, <1>14, <1>15, <1>16, <1>17, <1>18, <1>19, <1>20, <1>21, <1>22, <1>23, <1>24, <1>25, <1>26, <1>27, <1>28, <1>29, <1>30, <1>31, <1>32, <1>33, <1>34, <1>35 DEF DriverStep

LEMMA CancelStepInv ==
  TypeOK /\ RunExclusive /\ CancelInv /\ [Next]_vars => CancelInv'
<1> SUFFICES ASSUME TypeOK, RunExclusive, CancelInv, [Next]_vars PROVE CancelInv'
  OBVIOUS
<1>1. CASE TtsStep \/ SinkStep
  BY <1>1, WorkerFrame DEF CancelInv, CancelHonoured
<1>2. ASSUME NEW c \in Cancellers, CancelGeneration(c) \/ CancelStep(c)
      PROVE  CancelInv'
  <2>1. UNCHANGED <<pc, run>>
    BY <1>2 DEF CancelStep, CancelGeneration, CancelFlag, CancelDispatch, NotCancel, drivers
  <2>2. CASE UNCHANGED <<cancelled, acct>>
    BY <2>1, <2>2 DEF CancelInv, CancelHonoured
  <2>3. CASE CancelFlag(c)
    <3> DEFINE mid == \E d \in Drivers :
                 pc[d] \notin {"idle", "clear", "reset", "open",
                               "conclude", "abort", "complete", "leave"}
    <3>1. cancelled' /\ acct'.flagged = (acct.flagged \/ mid)
      BY <2>3 DEF CancelFlag, TypeOK, AcctType
    <3>2. mid => ~run.ok /\ \A d \in Drivers : pc[d] # "conclude"
      <4> SUFFICES ASSUME mid PROVE ~run.ok /\ \A d \in Drivers : pc[d] # "conclude"
        OBVIOUS
      <4>1. PICK d \in Drivers :
              pc[d] \notin {"idle", "clear", "reset", "open",
                            "conclude", "abort", "complete", "leave"}
        OBVIOUS
      <4>2. pc[d] \in Opened \cup {"check"} BY <4>1 DEF TypeOK, Labels, Opened
      <4>3. \A e \in Drivers : e # d => pc[e] = "idle" BY <4>1, Alone
      <4> QED BY <4>1, <4>2, <4>3 DEF CancelInv
    <3> QED BY <2>1, <3>1, <3>2 DEF CancelInv, CancelHonoured
  <2> QED BY <1>2, <2>2, <2>3 DEF CancelStep, CancelGeneration, CancelDispatch
<1>3. CASE UNCHANGED vars
  BY <1>3 DEF CancelInv, CancelHonoured, vars, members, drivers
<1> QED BY <1>1, <1>2, <1>3, CancelDriver DEF Next

-----------------------------------------------------------------------------
(* The theorems *)

LEMMA InvStep == Inv /\ [Next]_vars => Inv'
BY NextType, ExclusiveStep, ResourceStep, StageStep, CancelStepInv DEF Inv

\* The conjunction of the invariants holds in every reachable state.
THEOREM Invariance == Spec => []Inv
<1>1. Init => Inv
  BY InitType, ExclusiveInit, ResourceInit, StageInit, CancelInit DEF Inv
<1> QED BY <1>1, InvStep, PTL DEF Spec

\* running_ and the position of the drivers agree, and one driver at most is
\* inside run(): the compare-and-swap and RunningGuard make runs exclusive.
THEOREM Exclusive == Spec => []RunExclusive
BY Invariance, PTL DEF Inv

\* No worker outlives the queues, the sink and the locals of its run, nor the
\* speaking stage of the state machine or a cancellation of it.
THEOREM WorkersStayInRun == Spec => []WorkersConfined
<1>1. Inv => WorkersInsideRun
  <2> SUFFICES ASSUME Inv PROVE WorkersInsideRun
    OBVIOUS
  <2>1. tts.at = "push" => Alive(tts) BY DEF Alive
  <2> QED BY <2>1 DEF Inv, ResourceInv, WorkersInsideRun, Joining, Opened
<1>2. Inv => WorkersOnlyWhileSpeaking BY DEF Inv, StageInv
<1>3. Inv => WorkersConfined BY <1>1, <1>2 DEF WorkersConfined
<1> QED BY <1>3, Invariance, PTL

\* A run that fails, is cancelled or times out leaves the machine idle, and no
\* late cancellation moves it before the next run.
THEOREM FailureEndsIdle == Spec => []FailedRunEndsIdle
<1>1. Inv => FailedRunEndsIdle BY DEF Inv, StageInv
<1> QED BY <1>1, Invariance, PTL

\* A cancellation that lands between the reset of cancelled_ and the final
\* look at it is never answered with ok.
THEOREM CancellationHonoured == Spec => []CancelHonoured
<1>1. Inv => CancelHonoured BY DEF Inv, CancelInv
<1> QED BY <1>1, Invariance, PTL

-----------------------------------------------------------------------------
(* SessionPipeline implements PipelineContract.  The contract's phase is   *)
(* where the one driver in flight is; its Write is a frame of the sink     *)
(* worker or the padding; what the stages, the queues and the workers do   *)
(* besides is a stutter.                                                   *)

-----------------------------------------------------------------------------
(* What the mapping needs of the reachable states, besides Inv *)

\* Once a frame went out after the cancellation, the flag stays up for the rest of
\* the run, and so no further frame passes the check of the sink worker, nor does the
\* padding begin.
LateInv ==
  /\ acct.late <= 1
  /\ acct.late > 0 /\ DriverAt(Opened) => cancelled /\ sink.at # "write"
  /\ DriverAt({"padding"}) => acct.late = 0

\* The frames written are the frames counted, for as long as the sink is open.
CountInv == DriverAt(Opened) => run.pcmFrames = Len(out.log)

\* A run on its way out reports ok only if nothing speaks against it.
VerdictInv ==
  \A d \in Drivers :
    /\ pc[d] \in {"abort", "complete"} => ~run.ok
    /\ pc[d] = "leave" /\ run.ok => ~run.error /\ ~run.cancelled

RefInv == Inv /\ LateInv /\ CountInv /\ VerdictInv

LEMMA RefInit == Init => LateInv /\ CountInv /\ VerdictInv
BY DEF Init, LateInv, CountInv, VerdictInv, NewAcct, Opened, DriverAt

\* The steps of a driver that leave the counters, the flag and the sink worker alone.
LEMMA LateDriver ==
  ASSUME RefInv, NEW d \in Drivers,
         Enter(d) \/ Reject(d) \/ DriverStep(d) \/ Expire(d)
  PROVE  LateInv'
<1> USE DEF LateInv, DriverAt, Opened, At, Goto, Submit, DriverOnly, members, queues,
            workers, cancellers
<1>1. pc[d] # "idle" => \A e \in Drivers : e # d => pc[e] = "idle"
  BY Alone DEF RefInv, Inv
<1>2. pc \in [Drivers -> Labels] /\ acct \in AcctType /\ cancelled \in BOOLEAN
      /\ sink \in [at : {"none", "take", "check", "write", "done"}, frame : Frames]
  BY DEF RefInv, Inv, TypeOK
<1>3. LateInv BY DEF RefInv
<1>4. CASE ClearCancelled(d) BY <1>1, <1>2, <1>3, <1>4 DEF ClearCancelled
<1>5. CASE ResetMachine(d) BY <1>1, <1>2, <1>3, <1>5 DEF ResetMachine
<1>6. CASE Open(d)
  <2>1. acct'.late = 0 BY <1>6 DEF Open, NewAcct
  <2> QED BY <2>1
<1>7. ASSUME UNCHANGED <<acct, cancelled, sink>>, pc[d] \in Opened,
             \A e \in Drivers : e # d => pc'[e] = pc[e], pc'[d] \in {"padding"} => pc[d] = "padding"
      PROVE  LateInv'
  BY <1>3, <1>7
<1>8. ASSUME UNCHANGED <<acct, cancelled, sink>>,
             \A e \in Drivers : pc'[e] = pc[e] \/ pc'[e] \notin Opened
      PROVE  LateInv'
  BY <1>3, <1>8
<1>9. CASE Listen(d) BY <1>2, <1>7, <1>9 DEF Listen
<1>10. CASE FeedAudio(d) BY <1>2, <1>7, <1>10 DEF FeedAudio
<1>11. CASE StopFeeding(d) BY <1>2, <1>7, <1>11 DEF StopFeeding
<1>12. CASE HearQuery(d) BY <1>2, <1>7, <1>12 DEF HearQuery
<1>13. CASE Route(d) BY <1>2, <1>7, <1>13 DEF Route
<1>14. CASE AnswerDirectly(d) BY <1>2, <1>7, <1>14 DEF AnswerDirectly
<1>15. CASE AskLlm(d) BY <1>2, <1>7, <1>15 DEF AskLlm
<1>16. CASE LlmToken(d) BY <1>2, <1>7, <1>16 DEF LlmToken
<1>17. CASE LlmReturns(d) BY <1>2, <1>7, <1>17 DEF LlmReturns
<1>18. CASE PushSentence(d)
  <2>1. acct'.late = acct.late BY <1>2, <1>18 DEF PushSentence, AcctType
  <2>2. UNCHANGED <<cancelled, sink, pc>> BY <1>18 DEF PushSentence
  <2> QED BY <1>3, <2>1, <2>2
<1>19. CASE LlmDone(d) BY <1>2, <1>7, <1>19 DEF LlmDone
<1>20. CASE BackendThrows(d) BY <1>2, <1>7, <1>20 DEF BackendThrows
<1>21. CASE Speak(d)
  <2>1. sink'.at = "take" \/ sink' = sink BY <1>2, <1>21 DEF Speak
  <2>2. pc[d] \in Opened /\ UNCHANGED <<acct, cancelled>> BY <1>21 DEF Speak
  <2>3. \A e \in Drivers : pc'[e] = "padding" => pc[e] = "padding" BY <1>2, <1>21 DEF Speak
  <2> QED BY <1>3, <2>1, <2>2, <2>3
<1>22. CASE CloseText(d) BY <1>2, <1>7, <1>22 DEF CloseText
<1>23. CASE JoinTts(d) BY <1>2, <1>7, <1>23 DEF JoinTts
<1>24. CASE JoinSink(d) BY <1>2, <1>7, <1>24 DEF JoinSink
<1>25. CASE Pad(d)
  <2>1. pc[d] \in Opened /\ UNCHANGED <<acct, cancelled, sink>> /\ (cancelled => ~CanGoOn)
    BY <1>25 DEF Pad, CanGoOn
  <2>2. pc' = [pc EXCEPT ![d] = IF CanGoOn /\ MinFrames > 0 THEN "padding" ELSE "close_sink"]
    BY <1>25 DEF Pad
  <2>3. CASE cancelled
    <3>1. pc' = [pc EXCEPT ![d] = "close_sink"] BY <2>1, <2>2, <2>3
    <3> QED BY <1>2, <1>7, <2>1, <3>1
  <2>4. CASE ~cancelled
    <3>1. acct.late = 0 BY <1>2, <1>3, <2>1, <2>4 DEF AcctType
    <3> QED BY <2>1, <3>1
  <2> QED BY <1>2, <2>3, <2>4
<1>26. CASE CloseSink(d) BY <1>2, <1>7, <1>26 DEF CloseSink
<1>27. CASE CheckCancelled(d) BY <1>2, <1>8, <1>27 DEF CheckCancelled
<1>28. CASE Succeed(d) BY <1>2, <1>8, <1>28 DEF Succeed
<1>29. CASE Fail(d) BY <1>2, <1>8, <1>29 DEF Fail
<1>30. CASE Abort(d) BY <1>2, <1>8, <1>30 DEF Abort
<1>31. CASE CompleteCancel(d) BY <1>2, <1>8, <1>31 DEF CompleteCancel
<1>32. CASE Leave(d) BY <1>2, <1>8, <1>32 DEF Leave
<1>33. CASE Enter(d) BY <1>2, <1>8, <1>33 DEF Enter
<1>34. CASE Reject(d) BY <1>2, <1>8, <1>34 DEF Reject
<1>35. CASE Expire(d) BY <1>2, <1>8, <1>35 DEF Expire
<1>36. CASE PadFrame(d) BY <1>2, <1>7, <1>36 DEF PadFrame
<1>37. CASE StopPadding(d) BY <1>2, <1>7, <1>37 DEF StopPadding
<1> QED BY <1>4, <1>5, <1>6, <1>9, <1>10, <1>11, <1>12, <1>13, <1>14, <1>15, <1>16, <1>17, <1>18, <1>19, <1>20, <1>21, <1>22, <1>23, <1>24, <1>25, <1>26, <1>27, <1>28, <1>29, <1>30, <1>31, <1>32, <1>33, <1>34, <1>35, <1>36, <1>37 DEF DriverStep

\* A worker that moves has its run around it, on the way to the joins.
LEMMA WorkerAt ==
  ASSUME Inv, TtsStep \/ SinkStep
  PROVE  \E d \in Drivers : pc[d] \in Joining
<1>1. TtsStep => Alive(tts)
  BY DEF TtsStep, TtsTake, TtsExit, TtsCheck, TtsFrame, TtsPush, TtsReturn, TtsThrow, Alive
<1>2. SinkStep => Alive(sink)
  BY DEF SinkStep, SinkTake, SinkExit, SinkCheck, SinkWrite, SinkRefuse, Alive
<1> QED BY <1>1, <1>2 DEF Inv, ResourceInv, Joining

LEMMA LateWorkers ==
  ASSUME RefInv, TtsStep \/ SinkStep
  PROVE  LateInv'
<1> USE DEF LateInv, DriverAt
<1>1. /\ run \in RunType /\ acct \in AcctType
      /\ sink \in [at : {"none", "take", "check", "write", "done"}, frame : Frames]
  BY DEF RefInv, Inv, TypeOK
<1>2. LateInv /\ DriverAt(Opened)
  BY WorkerAt DEF RefInv, Joining, Opened
<1>3. UNCHANGED <<cancelled, pc>> BY WorkerFrame DEF RefInv, Inv
<1>4. CASE TtsStep
  <2>1. sink' = sink
    BY <1>4 DEF TtsStep, TtsTake, TtsExit, TtsCheck, TtsFrame, TtsPush, TtsReturn, TtsThrow, NotTts
  <2>2. acct'.late = acct.late
    BY <1>1, <1>4 DEF TtsStep, TtsTake, TtsExit, TtsCheck, TtsFrame, TtsPush, TtsReturn, TtsThrow, AcctType
  <2> QED BY <1>2, <1>3, <2>1, <2>2
<1>5. CASE SinkTake \/ SinkExit
  BY <1>1, <1>2, <1>3, <1>5 DEF SinkTake, SinkExit
<1>6. CASE SinkCheck
  BY <1>1, <1>2, <1>3, <1>6 DEF SinkCheck, IsActive
<1>7. CASE SinkWrite
  <2>1. sink.at = "write" /\ sink'.at = "take" BY <1>1, <1>7 DEF SinkWrite
  <2>2. acct.late = 0 BY <1>1, <1>2, <2>1 DEF AcctType
  <2>3. acct' = [acct EXCEPT !.late = IF cancelled THEN @ + 1 ELSE @]
    BY <1>7 DEF SinkWrite
  <2>4. acct'.late = IF cancelled THEN 1 ELSE 0 BY <1>1, <2>2, <2>3 DEF AcctType
  <2>5. ~DriverAt({"padding"})'
    <3>1. PICK d \in Drivers : pc[d] \in Joining BY <1>7, WorkerAt DEF RefInv, SinkStep
    <3>2. \A e \in Drivers : e # d => pc[e] = "idle" BY <3>1, Alone DEF RefInv, Inv, Joining
    <3> QED BY <1>3, <3>1, <3>2 DEF Joining
  <2> QED BY <1>3, <2>1, <2>4, <2>5
<1>8. CASE SinkRefuse
  <2>1. acct'.late = acct.late BY <1>1, <1>8 DEF SinkRefuse, AcctType
  <2>2. sink'.at = "take" BY <1>1, <1>8 DEF SinkRefuse
  <2> QED BY <1>2, <1>3, <2>1, <2>2
<1> QED BY <1>4, <1>5, <1>6, <1>7, <1>8 DEF SinkStep

LEMMA LateStep == RefInv /\ [Next]_vars => LateInv'
<1> SUFFICES ASSUME RefInv, [Next]_vars PROVE LateInv'
  OBVIOUS
<1>1. LateInv BY DEF RefInv
<1>2. ASSUME NEW c \in Cancellers, CancelGeneration(c) \/ CancelStep(c) PROVE LateInv'
  <2>1. UNCHANGED <<pc, sink>> /\ (cancelled' \/ cancelled' = cancelled)
    BY <1>2 DEF CancelStep, CancelGeneration, CancelFlag, CancelDispatch, NotCancel, drivers, workers
  <2>2. acct'.late = acct.late
    BY <1>2 DEF CancelStep, CancelGeneration, CancelFlag, CancelDispatch, RefInv, Inv, TypeOK, AcctType
  <2> QED BY <1>1, <2>1, <2>2 DEF LateInv, DriverAt
<1>3. CASE UNCHANGED vars
  BY <1>1, <1>3 DEF LateInv, DriverAt, vars, members, drivers, workers
<1> QED BY <1>2, <1>3, LateDriver, LateWorkers DEF Next

LEMMA CountDriver ==
  ASSUME RefInv, NEW d \in Drivers,
         Enter(d) \/ Reject(d) \/ DriverStep(d) \/ Expire(d)
  PROVE  CountInv'
<1> USE DEF CountInv, DriverAt, Opened, At, Goto, Submit, DriverOnly, RunType
<1>1. pc \in [Drivers -> Labels] /\ run \in RunType
      /\ out \in [open : BOOLEAN, log : Seq(Frames)]
  BY DEF RefInv, Inv, TypeOK
<1>2. CountInv BY DEF RefInv
\* A driver that comes to hold the open sink does so by Open.
<1>3. ASSUME out'.log = out.log, run'.pcmFrames = run.pcmFrames,
             \A e \in Drivers : pc'[e] \in Opened => DriverAt(Opened)
      PROVE  CountInv'
  BY <1>2, <1>3
<1>4. CASE Open(d)
  <2>1. out'.log = <<>> /\ run'.pcmFrames = 0 BY <1>4 DEF Open, NewRun
  <2> QED BY <2>1
<1>5. CASE PadFrame(d)
  <2>1. out'.log = Append(out.log, Silence) /\ run'.pcmFrames = run.pcmFrames + 1
        /\ pc[d] = "padding"
    BY <1>1, <1>5 DEF PadFrame
  <2>2. Len(out'.log) = Len(out.log) + 1
    BY <1>1, <2>1, AppendProperties DEF Silence, Frames
  <2> QED BY <1>2, <2>1, <2>2
<1>6. CASE ClearCancelled(d) BY <1>1, <1>3, <1>6 DEF ClearCancelled
<1>7. CASE ResetMachine(d) BY <1>1, <1>3, <1>7 DEF ResetMachine
<1>8. CASE Listen(d) BY <1>1, <1>3, <1>8 DEF Listen
<1>9. CASE FeedAudio(d) BY <1>1, <1>3, <1>9 DEF FeedAudio
<1>10. CASE StopFeeding(d) BY <1>1, <1>3, <1>10 DEF StopFeeding
<1>11. CASE HearQuery(d) BY <1>1, <1>3, <1>11 DEF HearQuery
<1>12. CASE Route(d) BY <1>1, <1>3, <1>12 DEF Route
<1>13. CASE AnswerDirectly(d) BY <1>1, <1>3, <1>13 DEF AnswerDirectly
<1>14. CASE AskLlm(d) BY <1>1, <1>3, <1>14 DEF AskLlm
<1>15. CASE LlmToken(d) BY <1>1, <1>3, <1>15 DEF LlmToken
<1>16. CASE LlmReturns(d) BY <1>1, <1>3, <1>16 DEF LlmReturns
<1>17. CASE PushSentence(d) BY <1>1, <1>3, <1>17 DEF PushSentence
<1>18. CASE LlmDone(d) BY <1>1, <1>3, <1>18 DEF LlmDone
<1>19. CASE BackendThrows(d) BY <1>1, <1>3, <1>19 DEF BackendThrows
<1>20. CASE Speak(d) BY <1>1, <1>3, <1>20 DEF Speak
<1>21. CASE CloseText(d) BY <1>1, <1>3, <1>21 DEF CloseText
<1>22. CASE JoinTts(d) BY <1>1, <1>3, <1>22 DEF JoinTts
<1>23. CASE JoinSink(d) BY <1>1, <1>3, <1>23 DEF JoinSink
<1>24. CASE Pad(d) BY <1>1, <1>3, <1>24 DEF Pad
<1>25. CASE StopPadding(d) BY <1>1, <1>3, <1>25 DEF StopPadding
<1>26. CASE CloseSink(d) BY <1>1, <1>3, <1>26 DEF CloseSink
<1>27. CASE CheckCancelled(d) BY <1>1, <1>3, <1>27 DEF CheckCancelled
<1>28. CASE Succeed(d) BY <1>1, <1>3, <1>28 DEF Succeed
<1>29. CASE Fail(d) BY <1>1, <1>3, <1>29 DEF Fail
<1>30. CASE Abort(d) BY <1>1, <1>3, <1>30 DEF Abort
<1>31. CASE CompleteCancel(d) BY <1>1, <1>3, <1>31 DEF CompleteCancel
<1>32. CASE Leave(d) BY <1>1, <1>3, <1>32 DEF Leave
<1>33. CASE Enter(d) BY <1>1, <1>3, <1>33 DEF Enter
<1>34. CASE Reject(d) BY <1>1, <1>3, <1>34 DEF Reject
<1>35. CASE Expire(d) BY <1>1, <1>3, <1>35 DEF Expire
<1> QED BY <1>4, <1>5, <1>6, <1>7, <1>8, <1>9, <1>10, <1>11, <1>12, <1>13, <1>14, <1>15, <1>16, <1>17, <1>18, <1>19, <1>20, <1>21, <1>22, <1>23, <1>24, <1>25, <1>26, <1>27, <1>28, <1>29, <1>30, <1>31, <1>32, <1>33, <1>34, <1>35 DEF DriverStep

LEMMA CountStep == RefInv /\ [Next]_vars => CountInv'
<1> SUFFICES ASSUME RefInv, [Next]_vars PROVE CountInv'
  OBVIOUS
<1> USE DEF CountInv, DriverAt
<1>1. CountInv /\ run \in RunType /\ out \in [open : BOOLEAN, log : Seq(Frames)]
      /\ sink \in [at : {"none", "take", "check", "write", "done"}, frame : Frames]
  BY DEF RefInv, Inv, TypeOK
<1>2. ASSUME UNCHANGED <<pc, out>>, run'.pcmFrames = run.pcmFrames PROVE CountInv'
  BY <1>1, <1>2
<1>3. CASE TtsStep
  BY <1>1, <1>2, <1>3 DEF TtsStep, TtsTake, TtsExit, TtsCheck, TtsFrame, TtsPush, TtsReturn,
                          TtsThrow, NotTts, RunType
<1>4. CASE SinkTake \/ SinkExit \/ SinkCheck \/ SinkRefuse
  BY <1>2, <1>4 DEF SinkTake, SinkExit, SinkCheck, SinkRefuse, NotSink
<1>5. CASE SinkWrite
  <2>1. out'.log = Append(out.log, sink.frame) /\ run'.pcmFrames = run.pcmFrames + 1
        /\ pc' = pc /\ sink.frame \in Frames
    BY <1>1, <1>5 DEF SinkWrite, NotSink, RunType
  <2>2. Len(out'.log) = Len(out.log) + 1 BY <1>1, <2>1, AppendProperties
  <2> QED BY <1>1, <2>1, <2>2
<1>6. ASSUME NEW c \in Cancellers, CancelGeneration(c) \/ CancelStep(c) PROVE CountInv'
  BY <1>2, <1>6 DEF CancelStep, CancelGeneration, CancelFlag, CancelDispatch, NotCancel, drivers
<1>7. CASE UNCHANGED vars BY <1>2, <1>7 DEF vars, drivers
<1> QED BY <1>3, <1>4, <1>5, <1>6, <1>7, CountDriver DEF Next, SinkStep

LEMMA VerdictDriver ==
  ASSUME RefInv, NEW d \in Drivers,
         Enter(d) \/ Reject(d) \/ DriverStep(d) \/ Expire(d)
  PROVE  VerdictInv'
<1> USE DEF VerdictInv, At, Goto, Submit, DriverOnly, members
<1>1. pc[d] # "idle" => \A e \in Drivers : e # d => pc[e] = "idle"
  BY Alone DEF RefInv, Inv
<1>2. pc \in [Drivers -> Labels] /\ run \in RunType BY DEF RefInv, Inv, TypeOK
<1>3. VerdictInv BY DEF RefInv
\* What moves a driver to a point before the verdict, or leaves it there.
<1>4. ASSUME pc[d] # "idle", pc'[d] \notin {"abort", "complete", "leave"},
             \A e \in Drivers : e # d => pc'[e] = pc[e]
      PROVE  VerdictInv'
  BY <1>1, <1>4
<1>5. CASE ResetMachine(d) BY <1>2, <1>4, <1>5 DEF ResetMachine
<1>6. CASE Listen(d) BY <1>2, <1>4, <1>6 DEF Listen
<1>7. CASE FeedAudio(d) BY <1>2, <1>4, <1>7 DEF FeedAudio
<1>8. CASE StopFeeding(d) BY <1>2, <1>4, <1>8 DEF StopFeeding
<1>9. CASE HearQuery(d) BY <1>2, <1>4, <1>9 DEF HearQuery
<1>10. CASE Route(d) BY <1>2, <1>4, <1>10 DEF Route
<1>11. CASE AnswerDirectly(d) BY <1>2, <1>4, <1>11 DEF AnswerDirectly
<1>12. CASE AskLlm(d) BY <1>2, <1>4, <1>12 DEF AskLlm
<1>13. CASE LlmToken(d) BY <1>2, <1>4, <1>13 DEF LlmToken
<1>14. CASE LlmReturns(d) BY <1>2, <1>4, <1>14 DEF LlmReturns
<1>15. CASE PushSentence(d) BY <1>2, <1>4, <1>15 DEF PushSentence
<1>16. CASE LlmDone(d) BY <1>2, <1>4, <1>16 DEF LlmDone
<1>17. CASE BackendThrows(d) BY <1>2, <1>4, <1>17 DEF BackendThrows
<1>18. CASE Speak(d) BY <1>2, <1>4, <1>18 DEF Speak
<1>19. CASE CloseText(d) BY <1>2, <1>4, <1>19 DEF CloseText
<1>20. CASE JoinTts(d) BY <1>2, <1>4, <1>20 DEF JoinTts
<1>21. CASE JoinSink(d) BY <1>2, <1>4, <1>21 DEF JoinSink
<1>22. CASE CloseSink(d) BY <1>2, <1>4, <1>22 DEF CloseSink
<1>23. CASE ClearCancelled(d) BY <1>2, <1>4, <1>23 DEF ClearCancelled
<1>24. CASE Pad(d) BY <1>2, <1>4, <1>24 DEF Pad
<1>25. CASE CheckCancelled(d) BY <1>2, <1>4, <1>25 DEF CheckCancelled
<1>26. CASE Open(d)
  <2>1. run'.ok = FALSE BY <1>26 DEF Open, NewRun
  <2>2. pc[d] = "open" /\ (\/ pc' = [pc EXCEPT ![d] = "listen"]
                          \/ pc' = [pc EXCEPT ![d] = "leave"])
    BY <1>26 DEF Open
  <2> QED BY <1>1, <1>2, <2>1, <2>2
<1>27. CASE Succeed(d)
  <2>1. pc[d] = "conclude" /\ ~run'.error /\ ~run'.cancelled
    BY <1>2, <1>27 DEF Succeed, RunType
  <2>2. pc' = [pc EXCEPT ![d] = "leave"] BY <1>27 DEF Succeed
  <2> QED BY <1>1, <1>2, <2>1, <2>2
<1>28. CASE Fail(d)
  <2>1. ~run'.ok BY <1>2, <1>28 DEF Fail, RunType, RefInv, Inv, CancelInv
  <2> QED BY <1>1, <1>2, <1>28, <2>1 DEF Fail
<1>29. CASE Abort(d) BY <1>1, <1>2, <1>3, <1>29 DEF Abort
<1>30. CASE CompleteCancel(d) BY <1>1, <1>2, <1>3, <1>30 DEF CompleteCancel
<1>31. CASE Leave(d) BY <1>1, <1>2, <1>31 DEF Leave
<1>32. CASE Enter(d)
  <2>1. pc' = [pc EXCEPT ![d] = "clear"] /\ run' = run BY <1>32 DEF Enter
  <2> QED BY <1>2, <1>3, <2>1
<1>33. CASE Reject(d) BY <1>3, <1>33 DEF Reject
<1>34. CASE Expire(d) BY <1>2, <1>3, <1>34 DEF Expire, RunType
<1>35. CASE PadFrame(d) BY <1>2, <1>4, <1>35 DEF PadFrame
<1>36. CASE StopPadding(d) BY <1>2, <1>4, <1>36 DEF StopPadding
<1> QED BY <1>5, <1>6, <1>7, <1>8, <1>9, <1>10, <1>11, <1>12, <1>13, <1>14, <1>15, <1>16, <1>17, <1>18, <1>19, <1>20, <1>21, <1>22, <1>23, <1>24, <1>25, <1>26, <1>27, <1>28, <1>29, <1>30, <1>31, <1>32, <1>33, <1>34, <1>35, <1>36 DEF DriverStep

LEMMA VerdictStep == RefInv /\ [Next]_vars => VerdictInv'
<1> SUFFICES ASSUME RefInv, [Next]_vars PROVE VerdictInv'
  OBVIOUS
<1>1. VerdictInv BY DEF RefInv
<1>2. CASE TtsStep \/ SinkStep
  <2>1. PICK d \in Drivers : pc[d] \in Joining BY <1>2, WorkerAt DEF RefInv
  <2>2. \A e \in Drivers : e # d => pc[e] = "idle" BY <2>1, Alone DEF RefInv, Inv, Joining
  <2>3. pc' = pc BY <1>2, WorkerFrame DEF RefInv, Inv
  <2> QED BY <2>1, <2>2, <2>3 DEF VerdictInv, Joining
<1>3. ASSUME NEW c \in Cancellers, CancelGeneration(c) \/ CancelStep(c) PROVE VerdictInv'
  BY <1>1, <1>3 DEF VerdictInv, CancelStep, CancelGeneration, CancelFlag, CancelDispatch,
                    NotCancel, drivers
<1>4. CASE UNCHANGED vars BY <1>1, <1>4 DEF VerdictInv, vars, drivers
<1> QED BY <1>2, <1>3, <1>4, VerdictDriver DEF Next

\* The strengthened invariant holds in every reachable state.
THEOREM RefInvariance == Spec => []RefInv
<1>1. Init => RefInv
  BY InitType, ExclusiveInit, ResourceInit, StageInit, CancelInit, RefInit DEF Inv, RefInv
<1>2. RefInv /\ [Next]_vars => RefInv'
  BY InvStep, LateStep, CountStep, VerdictStep DEF RefInv
<1> QED BY <1>1, <1>2, PTL DEF Spec

-----------------------------------------------------------------------------
(* The mapping, seen from the one driver in flight *)

EndingLabels == {"conclude", "abort", "complete", "leave"}

PhaseAt(l) == CASE l = "idle" -> "free"
                [] l = "clear" -> "arming"
                [] l = "padding" -> "padding"
                [] l \in {"close_sink", "check"} -> "closing"
                [] l \in EndingLabels -> "ending"
                [] OTHER -> "working"

\* While driver d is inside run(), the mapped values are read off its position.
LEMMA MappedNow ==
  ASSUME RunExclusive, NEW d \in Drivers, pc[d] # "idle"
  PROVE  /\ Phase = PhaseAt(pc[d])
         /\ Graced = (pc[d] \notin {"reset", "open"} /\ acct.late > 0)
         /\ MayBeOk = (pc[d] \in EndingLabels /\ ~run.error /\ ~run.cancelled)
         /\ FramesOut = IF pc[d] \in {"reset", "open"} THEN 0 ELSE Len(out.log)
<1>1. \A e \in Drivers : e # d => pc[e] = "idle" BY Alone
<1>2. running BY DEF RunExclusive, InFlight
<1>3. \A L : "idle" \notin L => (DriverAt(L) <=> pc[d] \in L) BY <1>1 DEF DriverAt
<1>4. DriverAt({"clear"}) <=> pc[d] \in {"clear"} BY <1>3
<1>5. DriverAt({"reset", "open"}) <=> pc[d] \in {"reset", "open"} BY <1>3
<1>7. DriverAt({"padding"}) <=> pc[d] \in {"padding"} BY <1>3
<1>8. DriverAt({"close_sink", "check"}) <=> pc[d] \in {"close_sink", "check"} BY <1>3
<1>6. Ending <=> pc[d] \in EndingLabels BY <1>3 DEF Ending, EndingLabels
<1> QED BY <1>2, <1>4, <1>5, <1>6, <1>7, <1>8 DEF Phase, PhaseAt, Graced, MayBeOk, FramesOut, EndingLabels

\* The same of the state after a step.
LEMMA MappedNext ==
  ASSUME RunExclusive', NEW d \in Drivers, pc'[d] # "idle"
  PROVE  /\ Phase' = PhaseAt(pc'[d])
         /\ Graced' = (pc'[d] \notin {"reset", "open"} /\ acct'.late > 0)
         /\ MayBeOk' = (pc'[d] \in EndingLabels /\ ~run'.error /\ ~run'.cancelled)
         /\ FramesOut' = IF pc'[d] \in {"reset", "open"} THEN 0 ELSE Len(out'.log)
<1>1. \A e \in Drivers : e # d => pc'[e] = "idle" BY DEF RunExclusive, InFlight
<1>2. running' BY DEF RunExclusive, InFlight
<1>3. \A L : "idle" \notin L => ((\E e \in Drivers : pc'[e] \in L) <=> pc'[d] \in L)
  BY <1>1
<1>4. DriverAt({"clear"})' <=> pc'[d] \in {"clear"} BY <1>3 DEF DriverAt
<1>5. DriverAt({"reset", "open"})' <=> pc'[d] \in {"reset", "open"} BY <1>3 DEF DriverAt
<1>7. DriverAt({"padding"})' <=> pc'[d] \in {"padding"} BY <1>3 DEF DriverAt
<1>8. DriverAt({"close_sink", "check"})' <=> pc'[d] \in {"close_sink", "check"}
  BY <1>3 DEF DriverAt
<1>6. Ending' <=> pc'[d] \in EndingLabels BY <1>3 DEF Ending, EndingLabels, DriverAt
<1> QED BY <1>2, <1>4, <1>5, <1>6, <1>7, <1>8 DEF Phase, PhaseAt, Graced, MayBeOk, FramesOut, EndingLabels

\* Between two runs.
LEMMA MappedIdle ==
  ASSUME RunExclusive, ~running
  PROVE  Phase = "free" /\ Graced = (acct.late > 0) /\ MayBeOk = FALSE /\ FramesOut = Len(out.log)
<1>1. \A e \in Drivers : pc[e] = "idle" BY DEF RunExclusive, InFlight
<1>2. \A L : "idle" \notin L => ~DriverAt(L) BY <1>1 DEF DriverAt
<1>3. ~DriverAt({"clear"}) /\ ~DriverAt({"reset", "open"}) /\ ~Ending
      /\ ~DriverAt({"padding"}) /\ ~DriverAt({"close_sink", "check"})
  BY <1>2 DEF Ending
<1> QED BY <1>3 DEF Phase, Graced, MayBeOk, FramesOut

LEMMA MappedIdleNext ==
  ASSUME RunExclusive', ~running'
  PROVE  Phase' = "free" /\ Graced' = (acct'.late > 0) /\ MayBeOk' = FALSE /\ FramesOut' = Len(out'.log)
<1>1. \A e \in Drivers : pc'[e] = "idle" BY DEF RunExclusive, InFlight
<1>2. ~DriverAt({"clear"})' /\ ~DriverAt({"reset", "open"})' /\ ~Ending'
      /\ ~DriverAt({"padding"})' /\ ~DriverAt({"close_sink", "check"})'
  BY <1>1 DEF Ending, DriverAt
<1> QED BY <1>2 DEF Phase, Graced, MayBeOk, FramesOut

-----------------------------------------------------------------------------
(* Every step is a step of the contract or a stutter *)

mapped == <<Phase, cancelled, Graced, MayBeOk, FramesOut, last>>

ContractNext == Contract!Next

LEMMA Same ==
  ASSUME UNCHANGED <<running, cancelled, pc, last>>, out'.log = out.log,
         acct'.late = acct.late, run'.error = run.error, run'.cancelled = run.cancelled
  PROVE  UNCHANGED mapped
BY DEF mapped, Phase, Graced, MayBeOk, FramesOut, Ending, DriverAt

\* A driver that moves within a phase, and neither writes nor starts the output anew.
LEMMA Quiet ==
  ASSUME RunExclusive, RunExclusive', NEW d \in Drivers, pc[d] # "idle", pc'[d] # "idle",
         PhaseAt(pc'[d]) = PhaseAt(pc[d]), UNCHANGED <<cancelled, last>>,
         pc[d] \in {"reset", "open"} <=> pc'[d] \in {"reset", "open"},
         out'.log = out.log, acct'.late = acct.late,
         pc[d] \in EndingLabels =>
           pc'[d] \in EndingLabels /\ run'.error = run.error /\ run'.cancelled = run.cancelled,
         pc'[d] \in EndingLabels => pc[d] \in EndingLabels
  PROVE  UNCHANGED mapped
<1>1. Phase' = Phase BY MappedNow, MappedNext
<1>2. Graced' = Graced BY MappedNow, MappedNext
<1>3. MayBeOk' = MayBeOk BY MappedNow, MappedNext
<1>4. FramesOut' = FramesOut BY MappedNow, MappedNext
<1> QED BY <1>1, <1>2, <1>3, <1>4 DEF mapped

LEMMA DriverSimulates ==
  ASSUME RefInv, RefInv', NEW d \in Drivers,
         Enter(d) \/ Reject(d) \/ DriverStep(d) \/ Expire(d)
  PROVE  ContractNext \/ UNCHANGED mapped
<1> USE DEF At, Goto, Submit, DriverOnly, members, drivers
<1>1. RunExclusive /\ RunExclusive' BY DEF RefInv, Inv
<1>2. /\ pc \in [Drivers -> Labels] /\ run \in RunType /\ acct \in AcctType
      /\ out \in [open : BOOLEAN, log : Seq(Frames)] /\ cancelled \in BOOLEAN
  BY DEF RefInv, Inv, TypeOK
\* A step from one point of a phase to another.
<1>3. ASSUME NEW l \in Labels \ {"idle"}, pc[d] # "idle", pc' = [pc EXCEPT ![d] = l],
             PhaseAt(l) = PhaseAt(pc[d]), l \in EndingLabels <=> pc[d] \in EndingLabels,
             pc[d] \in {"reset", "open"} <=> l \in {"reset", "open"},
             UNCHANGED <<cancelled, last, out, acct>>,
             pc[d] \in EndingLabels => run'.error = run.error /\ run'.cancelled = run.cancelled
      PROVE  UNCHANGED mapped
  <2>1. pc'[d] = l BY <1>2, <1>3
  <2> QED BY <1>1, <1>3, <2>1, Quiet
<1>4. CASE ResetMachine(d) BY <1>3, <1>4 DEF ResetMachine, Labels, PhaseAt, EndingLabels
<1>5. CASE Listen(d) BY <1>3, <1>5 DEF Listen, Labels, PhaseAt, EndingLabels
<1>6. CASE StopFeeding(d) BY <1>3, <1>6 DEF StopFeeding, Labels, PhaseAt, EndingLabels
<1>7. CASE HearQuery(d) BY <1>3, <1>7 DEF HearQuery, Labels, PhaseAt, EndingLabels
<1>8. CASE Route(d) BY <1>3, <1>8 DEF Route, Labels, PhaseAt, EndingLabels
<1>9. CASE AnswerDirectly(d) BY <1>3, <1>9 DEF AnswerDirectly, Labels, PhaseAt, EndingLabels
<1>10. CASE AskLlm(d) BY <1>3, <1>10 DEF AskLlm, Labels, PhaseAt, EndingLabels
<1>11. CASE LlmReturns(d) BY <1>3, <1>11 DEF LlmReturns, Labels, PhaseAt, EndingLabels
<1>12. CASE LlmDone(d) BY <1>3, <1>12 DEF LlmDone, Labels, PhaseAt, EndingLabels
<1>13. CASE BackendThrows(d) BY <1>3, <1>13 DEF BackendThrows, Labels, PhaseAt, EndingLabels
<1>14. CASE Speak(d) BY <1>3, <1>14 DEF Speak, Labels, PhaseAt, EndingLabels
<1>15. CASE CloseText(d) BY <1>3, <1>15 DEF CloseText, Labels, PhaseAt, EndingLabels
<1>16. CASE JoinTts(d) BY <1>3, <1>16 DEF JoinTts, Labels, PhaseAt, EndingLabels
<1>17. CASE JoinSink(d) BY <1>3, <1>17 DEF JoinSink, Labels, PhaseAt, EndingLabels
<1>18. CASE Abort(d) BY <1>3, <1>18 DEF Abort, Labels, PhaseAt, EndingLabels
<1>19. CASE CompleteCancel(d) BY <1>3, <1>19 DEF CompleteCancel, Labels, PhaseAt, EndingLabels
<1>20. CASE FeedAudio(d) \/ LlmToken(d) \/ Expire(d)
  <2>1. run'.error = run.error /\ run'.cancelled = run.cancelled
    BY <1>2, <1>20 DEF FeedAudio, LlmToken, Expire, RunType
  <2>2. UNCHANGED <<running, cancelled, pc, last, out, acct>>
    BY <1>20 DEF FeedAudio, LlmToken, Expire
  <2> QED BY <2>1, <2>2, Same
<1>21. CASE PushSentence(d)
  <2>1. run'.error = run.error /\ run'.cancelled = run.cancelled
    BY <1>2, <1>21 DEF PushSentence, RunType
  <2>2. acct'.late = acct.late BY <1>2, <1>21 DEF PushSentence, AcctType
  <2>3. UNCHANGED <<running, cancelled, pc, last, out>> BY <1>21 DEF PushSentence
  <2> QED BY <2>1, <2>2, <2>3, Same
<1>22. CASE Reject(d)
  <2>1. UNCHANGED <<running, cancelled, pc, last, out, acct, run>> BY <1>22 DEF Reject
  <2> QED BY <2>1, Same
<1>23. CASE CloseSink(d)
  <2>1. pc[d] = "close_sink" /\ pc'[d] = "check" BY <1>2, <1>23 DEF CloseSink
  <2>2. out'.log = out.log /\ UNCHANGED <<cancelled, last, acct>>
    BY <1>2, <1>23 DEF CloseSink
  <2> QED BY <1>1, <2>1, <2>2, Quiet DEF PhaseAt, EndingLabels
<1>24. CASE Succeed(d)
  <2>1. pc[d] = "conclude" /\ pc'[d] = "leave" BY <1>2, <1>24 DEF Succeed
  <2>2. run'.error = run.error /\ run'.cancelled = run.cancelled
    BY <1>2, <1>24 DEF Succeed, RunType
  <2>3. UNCHANGED <<cancelled, last, acct, out>> BY <1>24 DEF Succeed
  <2> QED BY <1>1, <2>1, <2>2, <2>3, Quiet DEF PhaseAt, EndingLabels
<1>25. CASE Enter(d)
  <2>1. ~running /\ pc'[d] = "clear" /\ UNCHANGED <<cancelled, last, acct, out>>
    BY <1>2, <1>25 DEF Enter
  <2>2. Phase = "free" /\ Phase' = "arming"
    BY <1>1, <2>1, MappedIdle, MappedNext DEF PhaseAt, EndingLabels
  <2>3. Graced' = Graced
    <3>1. Graced = (acct.late > 0) BY <1>1, <2>1, MappedIdle
    <3>2. Graced' = (acct.late > 0) BY <1>1, <2>1, MappedNext
    <3> QED BY <3>1, <3>2
  <2>4. MayBeOk' = MayBeOk /\ FramesOut' = FramesOut
    BY <1>1, <2>1, MappedIdle, MappedNext DEF EndingLabels
  <2> QED BY <2>1, <2>2, <2>3, <2>4 DEF ContractNext, Contract!Next, Contract!Begin
<1>26. CASE ClearCancelled(d)
  <2>1. pc[d] = "clear" /\ pc'[d] = "reset" /\ cancelled' = FALSE /\ UNCHANGED last
    BY <1>2, <1>26 DEF ClearCancelled
  <2>2. Phase = "arming" /\ Phase' = "working"
    BY <1>1, <2>1, MappedNow, MappedNext DEF PhaseAt, EndingLabels
  <2>3. Graced' = FALSE /\ MayBeOk' = MayBeOk /\ FramesOut' = 0
    BY <1>1, <2>1, MappedNow, MappedNext DEF EndingLabels
  <2> QED BY <2>1, <2>2, <2>3 DEF ContractNext, Contract!Next, Contract!Arm
<1>27. CASE Open(d)
  <2>1. /\ pc[d] = "open" /\ acct'.late = 0 /\ out'.log = <<>>
        /\ UNCHANGED <<cancelled, last>>
    BY <1>27 DEF Open, NewAcct
  <2>2. \/ pc'[d] = "listen"
        \/ pc'[d] = "leave" /\ run'.error
    BY <1>2, <1>27 DEF Open, NewRun
  <2>3. Graced = FALSE /\ MayBeOk = FALSE /\ FramesOut = 0 /\ Phase = "working"
    BY <1>1, <2>1, MappedNow DEF PhaseAt, EndingLabels
  <2>4. Graced' = FALSE /\ MayBeOk' = FALSE /\ FramesOut' = 0
    <3>1. Len(out'.log) = 0 BY <2>1
    <3>2. (acct'.late > 0) = FALSE BY <2>1
    <3>3. pc'[d] \notin {"idle", "reset", "open"} BY <2>2
    <3>4. Graced' = FALSE BY <1>1, <3>2, <3>3, MappedNext
    <3>5. MayBeOk' = FALSE BY <1>1, <2>2, MappedNext DEF EndingLabels
    <3>6. FramesOut' = 0 BY <1>1, <3>1, <3>3, MappedNext
    <3> QED BY <3>4, <3>5, <3>6
  <2>5. CASE pc'[d] = "listen"
    <3>1. Phase' = "working" BY <1>1, <2>5, MappedNext DEF PhaseAt, EndingLabels
    <3> QED BY <2>1, <2>3, <2>4, <3>1 DEF mapped
  <2>6. CASE pc'[d] = "leave"
    <3>1. Phase' = "ending" BY <1>1, <2>6, MappedNext DEF PhaseAt, EndingLabels
    <3> QED BY <2>1, <2>3, <2>4, <3>1 DEF ContractNext, Contract!Next, Contract!Conclude
  <2> QED BY <2>2, <2>5, <2>6
<1>28. CASE CheckCancelled(d)
  <2>1. /\ pc[d] = "check" /\ pc'[d] = "conclude" /\ run'.cancelled = cancelled
        /\ UNCHANGED <<cancelled, last, out, acct>>
    BY <1>2, <1>28 DEF CheckCancelled, RunType
  <2>2. Phase = "closing" /\ Phase' = "ending"
    BY <1>1, <2>1, MappedNow, MappedNext DEF PhaseAt, EndingLabels
  <2>3. Graced' = Graced /\ FramesOut' = FramesOut
    BY <1>1, <2>1, MappedNow, MappedNext
  <2>4. MayBeOk' = (~run'.error /\ ~cancelled)
    BY <1>1, <2>1, MappedNext DEF EndingLabels
  <2>5. MayBeOk' \in {FALSE, ~cancelled} BY <2>4
  <2> QED BY <2>1, <2>2, <2>3, <2>5 DEF ContractNext, Contract!Next, Contract!Conclude
<1>29. CASE Fail(d)
  <2>1. /\ pc[d] = "conclude" /\ pc'[d] = "abort" /\ run'.error
        /\ UNCHANGED <<cancelled, last, out, acct>>
    BY <1>2, <1>29 DEF Fail, RunType
  <2>2. Phase = "ending" /\ Phase' = "ending"
    BY <1>1, <2>1, MappedNow, MappedNext DEF PhaseAt, EndingLabels
  <2>3. Graced' = Graced /\ FramesOut' = FramesOut
    BY <1>1, <2>1, MappedNow, MappedNext
  <2>4. MayBeOk' = FALSE BY <1>1, <2>1, MappedNext
  <2>5. MayBeOk \in BOOLEAN BY DEF MayBeOk
  <2>6. CASE MayBeOk
    BY <2>1, <2>2, <2>3, <2>4, <2>6 DEF ContractNext, Contract!Next, Contract!GiveUp
  <2>7. CASE MayBeOk = FALSE
    BY <2>1, <2>2, <2>3, <2>4, <2>7 DEF mapped
  <2> QED BY <2>5, <2>6, <2>7
<1>30. CASE Leave(d)
  <2>1. /\ pc[d] = "leave" /\ ~running' /\ last' = Outcome
        /\ UNCHANGED <<cancelled, out, acct>>
    BY <1>30 DEF Leave
  <2>2. Phase = "ending" /\ Phase' = "free"
    BY <1>1, <2>1, MappedNow, MappedIdleNext DEF PhaseAt, EndingLabels
  <2>3. Graced' = Graced /\ FramesOut' = FramesOut /\ MayBeOk' = FALSE
    BY <1>1, <2>1, MappedNow, MappedIdleNext
  <2>4. run.ok => MayBeOk
    BY <1>1, <2>1, MappedNow DEF RefInv, VerdictInv, EndingLabels
  <2>5. last' \in {"cancelled", "failed"} \cup (IF MayBeOk THEN {"ok"} ELSE {})
    BY <2>1, <2>4 DEF Outcome
  <2> QED BY <2>1, <2>2, <2>3, <2>5 DEF ContractNext, Contract!Next, Contract!Finish
<1>31. CASE Pad(d)
  <2>1. /\ pc[d] = "pad" /\ UNCHANGED <<cancelled, last, out, acct, run>>
        /\ (pc'[d] = "padding" /\ ~cancelled) \/ pc'[d] = "close_sink"
    BY <1>2, <1>31 DEF Pad, CanGoOn
  <2>2. Phase = "working" BY <1>1, <2>1, MappedNow DEF PhaseAt, EndingLabels
  <2>3. Graced' = Graced /\ MayBeOk' = MayBeOk /\ FramesOut' = FramesOut
    BY <1>1, <2>1, MappedNow, MappedNext DEF EndingLabels
  <2>4. CASE pc'[d] = "padding"
    <3>1. Phase' = "padding" /\ ~cancelled BY <1>1, <2>1, <2>4, MappedNext DEF PhaseAt, EndingLabels
    <3> QED BY <2>1, <2>2, <2>3, <3>1 DEF ContractNext, Contract!Next, Contract!Pad
  <2>5. CASE pc'[d] = "close_sink"
    <3>1. Phase' = "closing" BY <1>1, <2>5, MappedNext DEF PhaseAt, EndingLabels
    <3> QED BY <2>1, <2>2, <2>3, <3>1 DEF ContractNext, Contract!Next, Contract!Close
  <2> QED BY <2>1, <2>4, <2>5
<1>32. CASE PadFrame(d)
  <2>1. /\ pc[d] = "padding" /\ pc'[d] = "padding" /\ UNCHANGED <<cancelled, last, acct>>
        /\ run.pcmFrames < MinFrames /\ out'.log = Append(out.log, Silence)
        /\ run'.error = run.error /\ run'.cancelled = run.cancelled
    BY <1>2, <1>32 DEF PadFrame, RunType
  <2>2. Phase = "padding" /\ Phase' = "padding"
    BY <1>1, <2>1, MappedNow, MappedNext DEF PhaseAt, EndingLabels
  <2>3. Graced' = Graced /\ MayBeOk' = MayBeOk
    BY <1>1, <2>1, MappedNow, MappedNext DEF EndingLabels
  <2>4. FramesOut = Len(out.log) /\ FramesOut' = Len(out'.log)
    BY <1>1, <2>1, MappedNow, MappedNext
  <2>5. Len(out'.log) = Len(out.log) + 1
    BY <1>2, <2>1, AppendProperties DEF Silence, Frames
  <2>6. run.pcmFrames = Len(out.log) BY <2>1 DEF RefInv, CountInv, DriverAt, Opened
  <2>7. FramesOut < MinFrames /\ FramesOut' = FramesOut + 1 BY <2>1, <2>4, <2>5, <2>6
  <2> QED BY <2>1, <2>2, <2>3, <2>7 DEF ContractNext, Contract!Next, Contract!WriteSilence
<1>33. CASE StopPadding(d)
  <2>1. /\ pc[d] = "padding" /\ pc'[d] = "close_sink" /\ UNCHANGED <<cancelled, last, out, acct, run>>
    BY <1>2, <1>33 DEF StopPadding
  <2>2. Phase = "padding" /\ Phase' = "closing"
    BY <1>1, <2>1, MappedNow, MappedNext DEF PhaseAt, EndingLabels
  <2>3. Graced' = Graced /\ MayBeOk' = MayBeOk /\ FramesOut' = FramesOut
    BY <1>1, <2>1, MappedNow, MappedNext DEF EndingLabels
  <2> QED BY <2>1, <2>2, <2>3 DEF ContractNext, Contract!Next, Contract!Close
<1> QED BY <1>4, <1>5, <1>6, <1>7, <1>8, <1>9, <1>10, <1>11, <1>12, <1>13, <1>14, <1>15, <1>16, <1>17, <1>18, <1>19, <1>20, <1>21, <1>22, <1>23, <1>24, <1>25, <1>26, <1>27, <1>28, <1>29, <1>30, <1>31, <1>32, <1>33 DEF DriverStep

LEMMA WorkersSimulate ==
  ASSUME RefInv, RefInv', TtsStep \/ SinkStep
  PROVE  ContractNext \/ UNCHANGED mapped
<1>1. RunExclusive /\ RunExclusive' BY DEF RefInv, Inv
<1>2. /\ run \in RunType /\ acct \in AcctType
      /\ out \in [open : BOOLEAN, log : Seq(Frames)]
      /\ sink \in [at : {"none", "take", "check", "write", "done"}, frame : Frames]
  BY DEF RefInv, Inv, TypeOK
<1>3. PICK d \in Drivers : pc[d] \in Joining BY WorkerAt DEF RefInv
<1>4. UNCHANGED <<running, cancelled, pc, last>> BY WorkerFrame DEF RefInv, Inv
\* Whatever the workers record of errors is past the contract's sight.
<1>5. Phase = "working" /\ Phase' = "working" /\ MayBeOk = FALSE /\ MayBeOk' = FALSE
  BY <1>1, <1>3, <1>4, MappedNow, MappedNext DEF Joining, PhaseAt, EndingLabels
<1>6. /\ Graced = (acct.late > 0) /\ Graced' = (acct'.late > 0)
      /\ FramesOut = Len(out.log) /\ FramesOut' = Len(out'.log)
  BY <1>1, <1>3, <1>4, MappedNow, MappedNext DEF Joining
<1>7. ASSUME out' = out, acct'.late = acct.late PROVE UNCHANGED mapped
  BY <1>4, <1>5, <1>6, <1>7 DEF mapped
<1>8. CASE TtsStep
  <2>1. out' = out
    BY <1>8 DEF TtsStep, TtsTake, TtsExit, TtsCheck, TtsFrame, TtsPush, TtsReturn, TtsThrow, NotTts
  <2>2. acct'.late = acct.late
    BY <1>2, <1>8 DEF TtsStep, TtsTake, TtsExit, TtsCheck, TtsFrame, TtsPush, TtsReturn, TtsThrow, AcctType
  <2> QED BY <1>7, <2>1, <2>2
<1>9. CASE SinkTake \/ SinkExit \/ SinkCheck
  BY <1>7, <1>9 DEF SinkTake, SinkExit, SinkCheck
<1>10. CASE SinkRefuse
  BY <1>2, <1>7, <1>10 DEF SinkRefuse, AcctType
<1>11. CASE SinkWrite
  <2>1. sink.at = "write" BY <1>11 DEF SinkWrite
  <2>2. acct.late = 0
    <3>1. DriverAt(Opened) BY <1>3 DEF DriverAt, Opened, Joining
    <3> QED BY <1>2, <2>1, <3>1 DEF RefInv, LateInv, AcctType
  <2>3. acct'.late = IF cancelled THEN 1 ELSE 0
    <3>1. acct' = [acct EXCEPT !.late = IF cancelled THEN @ + 1 ELSE @]
      BY <1>11 DEF SinkWrite
    <3> QED BY <1>2, <2>2, <3>1 DEF AcctType
  <2>4. out'.log = Append(out.log, sink.frame) BY <1>2, <1>11 DEF SinkWrite
  <2>5. Len(out'.log) = Len(out.log) + 1 /\ Len(out.log) \in Nat
    BY <1>2, <2>4, AppendProperties, LenProperties
  <2>6. FramesOut' = FramesOut + 1 /\ FramesOut' > FramesOut /\ FramesOut' \in Nat
    BY <1>6, <2>5
  <2>7. CASE cancelled
    <3>1. (acct.late > 0) = FALSE /\ (acct'.late > 0) = TRUE BY <2>2, <2>3, <2>7
    <3>2. Graced = FALSE /\ Graced' = TRUE BY <1>6, <3>1
    <3> QED BY <1>4, <1>5, <2>6, <2>7, <3>2 DEF ContractNext, Contract!Next, Contract!Write
  <2>8. CASE ~cancelled
    <3>1. (acct.late > 0) = FALSE /\ (acct'.late > 0) = FALSE BY <2>2, <2>3, <2>8
    <3>2. Graced = FALSE /\ Graced' = FALSE BY <1>6, <3>1
    <3> QED BY <1>4, <1>5, <2>6, <2>8, <3>2 DEF ContractNext, Contract!Next, Contract!Write
  <2> QED BY <2>7, <2>8
<1> QED BY <1>8, <1>9, <1>10, <1>11 DEF SinkStep

LEMMA CancelSimulates ==
  ASSUME RefInv, NEW c \in Cancellers, CancelGeneration(c) \/ CancelStep(c)
  PROVE  ContractNext \/ UNCHANGED mapped
<1>1. UNCHANGED <<running, pc, last, run, out>>
  BY DEF CancelStep, CancelGeneration, CancelFlag, CancelDispatch, NotCancel, drivers
<1>2. acct'.late = acct.late
  BY DEF CancelStep, CancelGeneration, CancelFlag, CancelDispatch, RefInv, Inv, TypeOK, AcctType
<1>3. UNCHANGED <<Phase, Graced, MayBeOk, FramesOut>>
  BY <1>1, <1>2 DEF Phase, Graced, MayBeOk, FramesOut, Ending, DriverAt
<1>4. cancelled' = cancelled \/ cancelled' = TRUE
  BY DEF CancelStep, CancelGeneration, CancelFlag, CancelDispatch
<1> QED BY <1>1, <1>3, <1>4 DEF mapped, ContractNext, Contract!Next, Contract!Cancel

LEMMA Simulation == RefInv /\ RefInv' /\ [Next]_vars => [Contract!Next]_Contract!contractVars
<1> SUFFICES ASSUME RefInv, RefInv', [Next]_vars PROVE ContractNext \/ UNCHANGED mapped
  BY DEF ContractNext, mapped, Contract!contractVars
<1>1. CASE UNCHANGED vars
  BY <1>1, Same DEF vars, members, drivers
<1> QED BY <1>1, DriverSimulates, WorkersSimulate, CancelSimulates DEF Next

LEMMA InitSimulates == Init => Contract!Init
<1> SUFFICES ASSUME Init PROVE Contract!Init
  OBVIOUS
<1>1. RunExclusive BY ExclusiveInit
<1>2. ~running /\ acct.late = 0 /\ out.log = <<>> /\ cancelled = FALSE /\ last = "none"
  BY DEF Init, NewAcct
<1>3. Phase = "free" /\ MayBeOk = FALSE BY <1>1, <1>2, MappedIdle
<1>4. Graced = FALSE
  <2>1. Graced = (acct.late > 0) BY <1>1, <1>2, MappedIdle
  <2>2. (acct.late > 0) = FALSE BY <1>2
  <2> QED BY <2>1, <2>2
<1>5. FramesOut = 0
  <2>1. FramesOut = Len(out.log) BY <1>1, <1>2, MappedIdle
  <2> QED BY <1>2, <2>1
<1> QED BY <1>2, <1>3, <1>4, <1>5 DEF Contract!Init

\* The pipeline implements its contract: what the session node assumes of a run and
\* of its cancellation holds of the threads, the queues and the stages.
THEOREM Refinement == Spec => ImplementsContract
<1>1. Init => Contract!Init BY InitSimulates
<1>2. RefInv /\ RefInv' /\ [Next]_vars => [Contract!Next]_Contract!contractVars
  BY Simulation
<1> QED BY <1>1, <1>2, RefInvariance, PTL DEF Spec, ImplementsContract, Contract!Spec

-----------------------------------------------------------------------------
(* What the sink hears.  The inductive invariant: sentences and frames     *)
(* queue up in one line                                                    *)

\* The place of a frame in the answer: its sentence, then its rank there.
Before(f, g) == f[1] < g[1] \/ (f[1] = g[1] /\ f[2] < g[2])

SinkBusy == sink.at \in {"check", "write"}
TtsBusy == tts.at \in {"check", "synth", "push"}

\* The sentences ahead of the TTS worker: in order, and after the one it is at.
TextInv ==
  /\ \A n \in 1..Len(textQ.items) :
       /\ textQ.items[n] >= 1 /\ textQ.items[n] <= acct.offered
       /\ \A m \in 1..Len(textQ.items) : m < n => textQ.items[m] < textQ.items[n]
  /\ TtsBusy =>
       /\ tts.sentence >= 1 /\ tts.sentence <= acct.offered
       /\ \A n \in 1..Len(textQ.items) : tts.sentence < textQ.items[n]

\* Frame f comes before all that a TTS worker at t has yet to make, with these
\* sentences queued and so many offered.
Ahead(f, t, items, offered) ==
  /\ f[1] <= offered
  /\ \A n \in 1..Len(items) : f[1] < items[n]
  /\ t.at = "check" => f[1] < t.sentence
  /\ t.at = "synth" => f[1] < t.sentence \/ (f[1] = t.sentence /\ f[2] <= t.k)
  /\ t.at = "push"  => Before(f, <<t.sentence, t.k>>)

Passed(f) == Ahead(f, tts, textQ.items, acct.offered)
StillPassed(f) == Ahead(f, tts', textQ'.items, acct'.offered)

\* So are the frames written, then the one the sink worker holds, then the queued.
LineInv ==
  /\ \A i \in 1..Len(out.log) : Passed(out.log[i])
  /\ SinkBusy => /\ sink.frame[1] >= 1 /\ Passed(sink.frame)
                 /\ \A i \in 1..Len(out.log) : Before(out.log[i], sink.frame)
  /\ \A j \in 1..Len(pcmQ.items) :
       /\ pcmQ.items[j][1] >= 1 /\ Passed(pcmQ.items[j])
       /\ \A i \in 1..Len(out.log) : Before(out.log[i], pcmQ.items[j])
       /\ SinkBusy => Before(sink.frame, pcmQ.items[j])
       /\ \A i \in 1..Len(pcmQ.items) : i < j => Before(pcmQ.items[i], pcmQ.items[j])

\* The silence of the padding is written once no worker is left, and only up to the
\* minimum.
SpokenInv ==
  /\ DriverAt(Opened \ {"padding", "close_sink"}) => ~Padded
  /\ Padded => acct.late = 0 /\ Len(out.log) <= MinFrames

OrderInv == TextInv /\ LineInv /\ SpokenInv /\ FramesInOrder

LEMMA OrderInit == Init => OrderInv
<1> SUFFICES ASSUME Init PROVE OrderInv
  OBVIOUS
<1>1. /\ textQ.items = <<>> /\ pcmQ.items = <<>> /\ out.log = <<>>
      /\ sink.at = "none" /\ tts.at = "none"
  BY DEF Init, NewQueue, NoTts, NoSink
<1> QED BY <1>1 DEF OrderInv, TextInv, LineInv, SpokenInv, Padded, FramesInOrder, SinkBusy, TtsBusy

\* The numbers in the line.
LEMMA LineTypes ==
  ASSUME TypeOK
  PROVE  /\ Len(out.log) \in Nat /\ Len(pcmQ.items) \in Nat /\ Len(textQ.items) \in Nat
         /\ \A i \in 1..Len(out.log) : out.log[i] \in Frames
         /\ \A i \in 1..Len(pcmQ.items) : pcmQ.items[i] \in Frames
         /\ \A i \in 1..Len(textQ.items) : textQ.items[i] \in Nat
         /\ sink.frame \in Frames /\ tts.sentence \in Nat /\ tts.k \in Nat
         /\ acct.offered \in Nat
<1>1. out.log \in Seq(Frames) /\ pcmQ.items \in Seq(Frames) /\ textQ.items \in Seq(Nat)
  BY DEF TypeOK, QueueType
<1>2. sink.frame \in Frames /\ tts.sentence \in Nat /\ tts.k \in Nat /\ acct.offered \in Nat
  BY DEF TypeOK, AcctType
<1> QED BY <1>1, <1>2, LenProperties, ElementOfSeq

\* A step that leaves the line alone.
LEMMA LineFrame ==
  ASSUME OrderInv, out'.log = out.log, sink' = sink, pcmQ'.items = pcmQ.items,
         textQ'.items = textQ.items, tts' = tts, acct'.offered = acct.offered
  PROVE  TextInv' /\ LineInv' /\ FramesInOrder'
<1>1. TextInv' BY DEF OrderInv, TextInv, TtsBusy
<1>2. \A f : StillPassed(f) <=> Passed(f) BY DEF Passed, StillPassed, Ahead, Before
<1>3. LineInv'
  <2> USE DEF OrderInv, LineInv, SinkBusy, Before
  <2>1. \A i \in 1..Len(out'.log) : StillPassed(out.log[i]) BY <1>2
  <2>2. SinkBusy => StillPassed(sink.frame) BY <1>2
  <2>3. \A j \in 1..Len(pcmQ'.items) : StillPassed(pcmQ.items[j]) BY <1>2
  <2> QED BY <2>1, <2>2, <2>3 DEF Passed, StillPassed
<1>4. FramesInOrder' BY DEF OrderInv, FramesInOrder
<1> QED BY <1>1, <1>3, <1>4

\* A step of the TTS worker that neither takes a sentence nor queues a frame: what
\* came before its output so far comes before its output to be.
LEMMA LineTts ==
  ASSUME OrderInv, out'.log = out.log, sink' = sink, pcmQ'.items = pcmQ.items,
         textQ'.items = textQ.items, acct'.offered = acct.offered,
         TtsBusy' => TtsBusy /\ tts'.sentence = tts.sentence,
         \A f \in Frames : Passed(f) => StillPassed(f),
         TypeOK
  PROVE  TextInv' /\ LineInv' /\ FramesInOrder'
<1>1. TextInv' BY DEF OrderInv, TextInv
<1>2. LineInv'
  <2> USE DEF OrderInv, LineInv, SinkBusy
  <2>1. \A i \in 1..Len(out'.log) : StillPassed(out'.log[i])
    BY LineTypes
  <2>2. SinkBusy' => StillPassed(sink'.frame)
    BY LineTypes
  <2>3. \A j \in 1..Len(pcmQ'.items) : StillPassed(pcmQ'.items[j])
    BY LineTypes
  <2>4. SinkBusy' => sink'.frame[1] >= 1 /\ \A i \in 1..Len(out'.log) : Before(out'.log[i], sink'.frame)
    OBVIOUS
  <2>5. \A j \in 1..Len(pcmQ'.items) :
          /\ pcmQ'.items[j][1] >= 1
          /\ \A i \in 1..Len(out'.log) : Before(out'.log[i], pcmQ'.items[j])
          /\ SinkBusy' => Before(sink'.frame, pcmQ'.items[j])
          /\ \A i \in 1..Len(pcmQ'.items) : i < j => Before(pcmQ'.items[i], pcmQ'.items[j])
    OBVIOUS
  <2> QED BY <2>1, <2>2, <2>3, <2>4, <2>5 DEF Passed, StillPassed
<1>3. FramesInOrder' BY DEF OrderInv, FramesInOrder
<1> QED BY <1>1, <1>2, <1>3

LEMMA TtsKeepsLine ==
  ASSUME TypeOK, OrderInv, TtsStep
  PROVE  TextInv' /\ LineInv' /\ FramesInOrder'
<1> USE DEF NotTts, queues
<1>1. /\ tts \in [at : {"none", "take", "check", "synth", "push", "done"},
                  sentence : Nat, todo : Nat, k : Nat]
      /\ acct \in AcctType /\ pcmQ \in QueueType(Frames) /\ textQ \in QueueType(Nat)
  BY DEF TypeOK
<1>2. CASE TtsExit \/ TtsReturn \/ TtsThrow
  <2>1. tts'.at \in {"done", "take"} /\ UNCHANGED <<out, sink, queues, acct>>
    BY <1>1, <1>2 DEF TtsExit, TtsReturn, TtsThrow
  <2>2. \A f \in Frames : Passed(f) => StillPassed(f) BY <2>1 DEF Passed, StillPassed, Ahead
  <2> QED BY <2>1, <2>2, LineTts DEF TtsBusy
<1>3. CASE TtsCheck
  <2>1. /\ tts.at = "check" /\ UNCHANGED <<out, sink, queues>>
        /\ tts'.at = "take" \/ (tts'.at = "synth" /\ tts'.sentence = tts.sentence)
    BY <1>1, <1>3 DEF TtsCheck
  <2>2. acct'.offered = acct.offered BY <1>1, <1>3 DEF TtsCheck, AcctType
  <2>3. \A f \in Frames : Passed(f) => StillPassed(f) BY <2>1, <2>2 DEF Passed, StillPassed, Ahead
  <2> QED BY <2>1, <2>2, <2>3, LineTts DEF TtsBusy
<1>4. CASE TtsFrame
  <2>1. /\ tts.at = "synth" /\ tts'.sentence = tts.sentence /\ UNCHANGED <<out, sink, queues>>
        /\ \/ tts'.at = "synth" /\ tts'.k = tts.k
           \/ tts'.at = "push" /\ tts'.k = tts.k + 1
    BY <1>1, <1>4 DEF TtsFrame
  <2>2. acct'.offered = acct.offered BY <1>1, <1>4 DEF TtsFrame, AcctType
  <2>3. ASSUME NEW f \in Frames, Passed(f) PROVE StillPassed(f)
    <3>1. f[1] \in Nat /\ f[2] \in Nat /\ tts.k \in Nat /\ tts.sentence \in Nat
      BY LineTypes DEF Frames
    <3> QED BY <2>1, <2>2, <2>3, <3>1 DEF Passed, StillPassed, Ahead, Before
  <2> QED BY <2>1, <2>2, <2>3, LineTts DEF TtsBusy
<1>5. CASE TtsTake
  <2>1. /\ tts'.at = "check" /\ tts'.sentence = Head(textQ.items)
        /\ textQ'.items = Tail(textQ.items) /\ textQ.items # <<>>
        /\ UNCHANGED <<out, sink, pcmQ, acct>>
    BY <1>1, <1>5 DEF TtsTake, Pop, HasItem, QueueType
  <2>2. textQ.items \in Seq(Nat) BY <1>1 DEF QueueType
  <2>3. /\ Len(textQ.items) \in Nat /\ Len(textQ.items) >= 1
        /\ Len(textQ'.items) = Len(textQ.items) - 1
        /\ tts'.sentence = textQ.items[1]
        /\ \A i \in 1..Len(textQ'.items) : textQ'.items[i] = textQ.items[i + 1]
    BY <2>1, <2>2, HeadTailProperties, LenProperties, EmptySeq
  <2>4. TextInv' BY <2>1, <2>3 DEF OrderInv, TextInv
  <2>5. \A f \in Frames : Passed(f) => StillPassed(f) BY <2>1, <2>3 DEF Passed, StillPassed, Ahead
  <2>6. LineInv'
    <3> USE DEF OrderInv, LineInv, SinkBusy
    <3>1. \A i \in 1..Len(out'.log) : StillPassed(out'.log[i]) BY <2>1, <2>5, LineTypes
    <3>2. SinkBusy' => StillPassed(sink'.frame) BY <2>1, <2>5, LineTypes
    <3>3. \A j \in 1..Len(pcmQ'.items) : StillPassed(pcmQ'.items[j]) BY <2>1, <2>5, LineTypes
    <3> QED BY <2>1, <3>1, <3>2, <3>3 DEF Passed, StillPassed
  <2> QED BY <2>1, <2>4, <2>6 DEF OrderInv, FramesInOrder
<1>6. CASE TtsPush
  <2>1. /\ tts.at = "push" /\ tts'.at = "synth" /\ tts'.sentence = tts.sentence
        /\ tts'.k = tts.k /\ UNCHANGED <<out, sink, textQ, acct>>
    BY <1>1, <1>6 DEF TtsPush
  <2>2. ASSUME NEW f \in Frames, Passed(f) PROVE StillPassed(f)
    <3>1. f[1] \in Nat /\ f[2] \in Nat /\ tts.k \in Nat /\ tts.sentence \in Nat
      BY LineTypes DEF Frames
    <3> QED BY <2>1, <2>2, <3>1 DEF Passed, StillPassed, Ahead, Before
  <2>3. CASE pcmQ'.items = pcmQ.items
    BY <2>1, <2>2, <2>3, LineTts DEF TtsBusy
  <2>4. CASE pcmQ'.items = Append(pcmQ.items, <<tts.sentence, tts.k>>)
    <3> DEFINE new == <<tts.sentence, tts.k>>
    <3>1. pcmQ.items \in Seq(Frames) /\ new \in Frames
      BY <1>1 DEF QueueType, Frames
    <3>2. /\ Len(pcmQ'.items) = Len(pcmQ.items) + 1 /\ Len(pcmQ.items) \in Nat
          /\ \A i \in 1..Len(pcmQ.items) : pcmQ'.items[i] = pcmQ.items[i]
          /\ pcmQ'.items[Len(pcmQ.items) + 1] = new
      BY <2>4, <3>1, AppendProperties, LenProperties
    <3>3. new[1] = tts.sentence /\ new[2] = tts.k OBVIOUS
    <3>4. /\ \A i \in 1..Len(out.log) : Before(out.log[i], new)
          /\ SinkBusy => Before(sink.frame, new)
          /\ \A i \in 1..Len(pcmQ.items) : Before(pcmQ.items[i], new)
      BY <2>1 DEF OrderInv, LineInv, Passed, Ahead
    <3>5. new[1] >= 1 /\ StillPassed(new)
      <4>1. tts.sentence \in Nat /\ tts.k \in Nat BY <1>1
      <4> QED BY <2>1, <3>3, <4>1 DEF OrderInv, TextInv, TtsBusy, Passed, StillPassed, Ahead
    <3> HIDE DEF new
    <3>6. TextInv' BY <2>1 DEF OrderInv, TextInv, TtsBusy
    <3>7. LineInv'
      <4> USE DEF OrderInv, LineInv, SinkBusy
      <4>1. \A i \in 1..Len(out'.log) : StillPassed(out'.log[i]) BY <2>1, <2>2, LineTypes
      <4>2. SinkBusy' => StillPassed(sink'.frame) BY <2>1, <2>2, LineTypes
      <4>3. \A j \in 1..Len(pcmQ'.items) : StillPassed(pcmQ'.items[j])
        <5>1. \A j \in 1..Len(pcmQ.items) : StillPassed(pcmQ.items[j]) BY <2>2, LineTypes
        <5> QED BY <3>2, <3>5, <5>1
      <4>4. SinkBusy' => sink'.frame[1] >= 1 /\ \A i \in 1..Len(out'.log) : Before(out'.log[i], sink'.frame)
        BY <2>1
      <4>5. \A j \in 1..Len(pcmQ'.items) :
              /\ pcmQ'.items[j][1] >= 1
              /\ \A i \in 1..Len(out'.log) : Before(out'.log[i], pcmQ'.items[j])
              /\ SinkBusy' => Before(sink'.frame, pcmQ'.items[j])
              /\ \A i \in 1..Len(pcmQ'.items) : i < j => Before(pcmQ'.items[i], pcmQ'.items[j])
        BY SMTT(20), ZenonT(30), <2>1, <3>2, <3>4, <3>5
      <4> QED BY <4>1, <4>2, <4>3, <4>4, <4>5 DEF Passed, StillPassed
    <3> QED BY <2>1, <3>6, <3>7 DEF OrderInv, FramesInOrder
  <2>5. pcmQ'.items = pcmQ.items \/ pcmQ'.items = Append(pcmQ.items, <<tts.sentence, tts.k>>)
    BY <1>1, <1>6 DEF TtsPush, Push, QueueType
  <2> QED BY <2>3, <2>4, <2>5
<1> QED BY <1>2, <1>3, <1>4, <1>5, <1>6 DEF TtsStep

LEMMA SinkKeepsLine ==
  ASSUME RefInv, OrderInv, SinkStep
  PROVE  TextInv' /\ LineInv' /\ FramesInOrder'
<1> USE DEF NotSink
<1>1. /\ sink \in [at : {"none", "take", "check", "write", "done"}, frame : Frames]
      /\ acct \in AcctType /\ pcmQ \in QueueType(Frames)
      /\ out \in [open : BOOLEAN, log : Seq(Frames)] /\ TypeOK
  BY DEF RefInv, Inv, TypeOK
<1>2. UNCHANGED <<textQ, tts>> /\ acct'.offered = acct.offered
  BY <1>1 DEF SinkStep, SinkTake, SinkExit, SinkCheck, SinkWrite, SinkRefuse, AcctType
<1>3. \A f : StillPassed(f) <=> Passed(f) BY <1>2 DEF Passed, StillPassed, Ahead, Before
<1>4. TextInv' BY <1>2 DEF OrderInv, TextInv, TtsBusy
\* A step after which the sink worker holds no frame, or the one it held.
<1>5. ASSUME UNCHANGED <<out, pcmQ>>, SinkBusy' => SinkBusy /\ sink'.frame = sink.frame
      PROVE  LineInv' /\ FramesInOrder'
  <2>1. FramesInOrder' BY <1>5 DEF OrderInv, FramesInOrder
  <2>2. \A i \in 1..Len(out'.log) : StillPassed(out.log[i]) BY <1>3, <1>5 DEF OrderInv, LineInv
  <2>3. SinkBusy' => /\ sink'.frame[1] >= 1 /\ StillPassed(sink.frame)
                     /\ \A i \in 1..Len(out'.log) : Before(out'.log[i], sink'.frame)
    BY <1>3, <1>5 DEF OrderInv, LineInv
  <2>4. \A j \in 1..Len(pcmQ'.items) :
          /\ pcmQ'.items[j][1] >= 1 /\ StillPassed(pcmQ.items[j])
          /\ \A i \in 1..Len(out'.log) : Before(out'.log[i], pcmQ'.items[j])
          /\ SinkBusy' => Before(sink'.frame, pcmQ'.items[j])
          /\ \A i \in 1..Len(pcmQ'.items) : i < j => Before(pcmQ'.items[i], pcmQ'.items[j])
    BY <1>3, <1>5 DEF OrderInv, LineInv
  <2> QED BY <1>5, <2>1, <2>2, <2>3, <2>4 DEF LineInv, Passed, StillPassed
<1>6. CASE SinkExit \/ SinkCheck \/ SinkRefuse
  <2>1. UNCHANGED <<out, pcmQ>> BY <1>6 DEF SinkExit, SinkCheck, SinkRefuse
  <2>2. SinkBusy' => SinkBusy /\ sink'.frame = sink.frame
    BY <1>1, <1>6 DEF SinkExit, SinkCheck, SinkRefuse, SinkBusy
  <2> QED BY <1>4, <1>5, <2>1, <2>2
<1>7. CASE SinkTake
  <2>1. /\ sink.at = "take" /\ sink' = [at |-> "check", frame |-> Head(pcmQ.items)]
        /\ pcmQ'.items = Tail(pcmQ.items) /\ pcmQ.items # <<>> /\ UNCHANGED out
    BY <1>1, <1>7 DEF SinkTake, Pop, HasItem, QueueType
  <2>2. pcmQ.items \in Seq(Frames) BY <1>1 DEF QueueType
  <2>3. /\ Len(pcmQ.items) \in Nat /\ Len(pcmQ.items) >= 1
        /\ Len(pcmQ'.items) = Len(pcmQ.items) - 1
        /\ sink'.frame = pcmQ.items[1]
        /\ \A i \in 1..Len(pcmQ'.items) : pcmQ'.items[i] = pcmQ.items[i + 1]
    BY <2>1, <2>2, HeadTailProperties, LenProperties, EmptySeq
  <2>4. \A i \in 1..Len(out'.log) : StillPassed(out'.log[i])
    BY <1>3, <2>1 DEF OrderInv, LineInv
  <2>5. /\ sink'.frame[1] >= 1 /\ StillPassed(sink'.frame)
        /\ \A i \in 1..Len(out'.log) : Before(out'.log[i], sink'.frame)
    BY <1>3, <2>1, <2>3 DEF OrderInv, LineInv
  <2>6. ASSUME NEW j \in 1..Len(pcmQ'.items)
        PROVE  /\ pcmQ'.items[j][1] >= 1 /\ StillPassed(pcmQ'.items[j])
               /\ \A i \in 1..Len(out'.log) : Before(out'.log[i], pcmQ'.items[j])
               /\ Before(sink'.frame, pcmQ'.items[j])
               /\ \A i \in 1..Len(pcmQ'.items) : i < j => Before(pcmQ'.items[i], pcmQ'.items[j])
    <3>1. j + 1 \in 1..Len(pcmQ.items) /\ pcmQ'.items[j] = pcmQ.items[j + 1] BY <2>3
    <3>2. Before(pcmQ.items[1], pcmQ.items[j + 1]) BY <2>3, <3>1 DEF OrderInv, LineInv
    <3>3. \A i \in 1..Len(pcmQ'.items) : i < j => Before(pcmQ.items[i + 1], pcmQ.items[j + 1])
      BY <2>3, <3>1 DEF OrderInv, LineInv
    <3> QED BY <1>3, <2>1, <2>3, <3>1, <3>2, <3>3 DEF OrderInv, LineInv
  <2>7. FramesInOrder' BY <2>1 DEF OrderInv, FramesInOrder
  <2> QED BY <1>4, <2>4, <2>5, <2>6, <2>7 DEF LineInv, Passed, StillPassed
<1>8. CASE SinkWrite
  <2>1. /\ sink.at = "write" /\ sink'.at = "take" /\ out'.log = Append(out.log, sink.frame)
        /\ UNCHANGED pcmQ
    BY <1>1, <1>8 DEF SinkWrite
  <2>2. /\ Len(out'.log) = Len(out.log) + 1 /\ Len(out.log) \in Nat
        /\ \A i \in 1..Len(out.log) : out'.log[i] = out.log[i]
        /\ out'.log[Len(out.log) + 1] = sink.frame
    BY <1>1, <2>1, AppendProperties, LenProperties
  <2>3. /\ sink.frame[1] >= 1 /\ Passed(sink.frame)
        /\ \A i \in 1..Len(out.log) : Before(out.log[i], sink.frame)
        /\ \A j \in 1..Len(pcmQ.items) : Before(sink.frame, pcmQ.items[j])
    BY <2>1 DEF OrderInv, LineInv, SinkBusy
  <2>4. \A i \in 1..Len(out'.log) : StillPassed(out'.log[i])
    BY <1>3, <2>2, <2>3 DEF OrderInv, LineInv
  <2>5. ~SinkBusy' BY <2>1 DEF SinkBusy
  <2>6. \A j \in 1..Len(pcmQ'.items) :
          /\ pcmQ'.items[j][1] >= 1 /\ StillPassed(pcmQ'.items[j])
          /\ \A i \in 1..Len(out'.log) : Before(out'.log[i], pcmQ'.items[j])
          /\ \A i \in 1..Len(pcmQ'.items) : i < j => Before(pcmQ'.items[i], pcmQ'.items[j])
    BY <1>3, <2>1, <2>2, <2>3 DEF OrderInv, LineInv
  <2>7. FramesInOrder'
    <3>1. \A i \in 1..Len(out.log) : out.log[i] # Silence
      <4>1. DriverAt(Opened \ {"padding", "close_sink"})
        BY WorkerAt DEF RefInv, Joining, Opened, DriverAt
      <4> QED BY <4>1 DEF OrderInv, SpokenInv, Padded
    <3> SUFFICES ASSUME NEW i \in 1..Len(out'.log), NEW j \in 1..Len(out'.log), i < j,
                        out'.log[j] # Silence
                 PROVE  \/ out'.log[i][1] < out'.log[j][1] /\ out'.log[i] # Silence
                        \/ out'.log[i][1] = out'.log[j][1] /\ out'.log[i][2] < out'.log[j][2]
      BY DEF FramesInOrder
    <3>2. i \in 1..Len(out.log) /\ out'.log[i] = out.log[i] BY <2>2
    <3>3. CASE j = Len(out.log) + 1 BY <2>2, <2>3, <3>1, <3>2, <3>3 DEF Before
    <3>4. CASE j # Len(out.log) + 1
      <4>1. j \in 1..Len(out.log) /\ out'.log[j] = out.log[j] BY <2>2, <3>4
      <4> QED BY <3>2, <4>1 DEF OrderInv, FramesInOrder
    <3> QED BY <3>3, <3>4
  <2> QED BY <1>4, <2>4, <2>5, <2>6, <2>7 DEF LineInv, Passed, StillPassed
<1> QED BY <1>4, <1>6, <1>7, <1>8 DEF SinkStep

\* A driver touches the line when it opens a run, queues a sentence, starts the
\* workers or pads; it closes queues and the sink, which moves no frame.
LEMMA DriverKeepsLine ==
  ASSUME RefInv, OrderInv, NEW d \in Drivers,
         Enter(d) \/ Reject(d) \/ DriverStep(d) \/ Expire(d)
  PROVE  TextInv' /\ LineInv' /\ FramesInOrder'
<1> USE DEF At, Goto, Submit, DriverOnly, queues, workers
<1>1. /\ TypeOK /\ acct \in AcctType /\ pcmQ \in QueueType(Frames)
      /\ textQ \in QueueType(Nat) /\ out \in [open : BOOLEAN, log : Seq(Frames)]
      /\ tts \in [at : {"none", "take", "check", "synth", "push", "done"},
                  sentence : Nat, todo : Nat, k : Nat]
      /\ sink \in [at : {"none", "take", "check", "write", "done"}, frame : Frames]
  BY DEF RefInv, Inv, TypeOK
<1>2. CASE UNCHANGED <<textQ, pcmQ, out, tts, sink, acct>>
  BY <1>2, LineFrame
<1>3. CASE Enter(d) BY <1>2, <1>3 DEF Enter
<1>4. CASE Reject(d) BY <1>2, <1>4 DEF Reject
<1>5. CASE ClearCancelled(d) BY <1>2, <1>5 DEF ClearCancelled
<1>6. CASE ResetMachine(d) BY <1>2, <1>6 DEF ResetMachine
<1>7. CASE Listen(d) BY <1>2, <1>7 DEF Listen
<1>8. CASE FeedAudio(d) BY <1>2, <1>8 DEF FeedAudio
<1>9. CASE StopFeeding(d) BY <1>2, <1>9 DEF StopFeeding
<1>10. CASE HearQuery(d) BY <1>2, <1>10 DEF HearQuery
<1>11. CASE Route(d) BY <1>2, <1>11 DEF Route
<1>12. CASE AnswerDirectly(d) BY <1>2, <1>12 DEF AnswerDirectly
<1>13. CASE AskLlm(d) BY <1>2, <1>13 DEF AskLlm
<1>14. CASE LlmToken(d) BY <1>2, <1>14 DEF LlmToken
<1>15. CASE LlmReturns(d) BY <1>2, <1>15 DEF LlmReturns
<1>16. CASE LlmDone(d) BY <1>2, <1>16 DEF LlmDone
<1>17. CASE BackendThrows(d) BY <1>2, <1>17 DEF BackendThrows
<1>18. CASE JoinSink(d) BY <1>2, <1>18 DEF JoinSink
<1>19. CASE CheckCancelled(d) BY <1>2, <1>19 DEF CheckCancelled
<1>20. CASE Succeed(d) BY <1>2, <1>20 DEF Succeed
<1>21. CASE Fail(d) BY <1>2, <1>21 DEF Fail
<1>22. CASE Abort(d) BY <1>2, <1>22 DEF Abort
<1>23. CASE CompleteCancel(d) BY <1>2, <1>23 DEF CompleteCancel
<1>24. CASE Leave(d) BY <1>2, <1>24 DEF Leave
<1>25. CASE Expire(d) BY <1>2, <1>25 DEF Expire
<1>26. CASE CloseText(d) \/ JoinTts(d) \/ CloseSink(d)
  <2>1. /\ textQ'.items = textQ.items /\ pcmQ'.items = pcmQ.items /\ out'.log = out.log
        /\ UNCHANGED <<tts, sink, acct>>
    BY <1>1, <1>26 DEF CloseText, JoinTts, CloseSink, Close, QueueType
  <2> QED BY <2>1, LineFrame
<1>27. CASE Open(d)
  <2>1. /\ textQ'.items = <<>> /\ pcmQ'.items = <<>> /\ out'.log = <<>>
        /\ sink'.at = "none" /\ tts'.at = "none"
    BY <1>27 DEF Open, NewQueue, NoTts, NoSink
  <2> QED BY <2>1 DEF TextInv, LineInv, FramesInOrder, SinkBusy, TtsBusy
<1>28. CASE Speak(d)
  <2>1. UNCHANGED <<textQ, pcmQ, out, acct>> BY <1>28 DEF Speak
  <2>2. CASE UNCHANGED <<tts, sink>> BY <2>1, <2>2, LineFrame
  <2>3. CASE tts'.at = "take" /\ sink'.at = "take"
    <3>1. \A f : Passed(f) => StillPassed(f) BY <2>1, <2>3 DEF Passed, StillPassed, Ahead
    <3>2. ~SinkBusy' /\ ~TtsBusy' BY <2>3 DEF SinkBusy, TtsBusy
    <3>3. TextInv' BY <2>1, <3>2 DEF OrderInv, TextInv
    <3>4. LineInv'
      <4>1. \A i \in 1..Len(out'.log) : StillPassed(out'.log[i])
        BY <2>1, <3>1 DEF OrderInv, LineInv
      <4>2. \A j \in 1..Len(pcmQ'.items) :
              /\ pcmQ'.items[j][1] >= 1 /\ StillPassed(pcmQ'.items[j])
              /\ \A i \in 1..Len(out'.log) : Before(out'.log[i], pcmQ'.items[j])
              /\ \A i \in 1..Len(pcmQ'.items) : i < j => Before(pcmQ'.items[i], pcmQ'.items[j])
        BY <2>1, <3>1 DEF OrderInv, LineInv
      <4> QED BY <3>2, <4>1, <4>2 DEF LineInv, Passed, StillPassed
    <3> QED BY <2>1, <3>3, <3>4 DEF OrderInv, FramesInOrder
  <2>4. UNCHANGED <<tts, sink>> \/ (tts'.at = "take" /\ sink'.at = "take")
    BY <1>1, <1>28 DEF Speak
  <2> QED BY <2>2, <2>3, <2>4
<1>29. CASE PushSentence(d)
  <2>1. /\ UNCHANGED <<pcmQ, out, tts, sink>> /\ acct'.offered = acct.offered + 1
        /\ \/ textQ' = textQ
           \/ textQ'.items = Append(textQ.items, acct.offered + 1)
    BY <1>1, <1>29 DEF PushSentence, Push, AcctType, QueueType
  <2>2. textQ.items \in Seq(Nat) /\ acct.offered \in Nat BY <1>1 DEF QueueType, AcctType
  <2>3. \/ textQ'.items = textQ.items
        \/ /\ Len(textQ'.items) = Len(textQ.items) + 1 /\ Len(textQ.items) \in Nat
           /\ \A n \in 1..Len(textQ.items) : textQ'.items[n] = textQ.items[n]
           /\ textQ'.items[Len(textQ.items) + 1] = acct.offered + 1
    BY SMTT(20), ZenonT(30), <2>1, <2>2, AppendProperties, LenProperties
  <2>4. \A n \in 1..Len(textQ.items) : textQ.items[n] \in Nat BY <1>1, LineTypes
  <2>5. ASSUME NEW f \in Frames, Passed(f) PROVE StillPassed(f)
    <3>1. f[1] \in Nat /\ f[1] <= acct.offered BY <2>5 DEF Frames, Passed, Ahead
    <3>2. \A n \in 1..Len(textQ.items) : f[1] < textQ.items[n] BY <2>5 DEF Passed, Ahead
    <3>3. \A n \in 1..Len(textQ'.items) : f[1] < textQ'.items[n]
      <4>1. CASE textQ'.items = textQ.items BY <3>2, <4>1
      <4>2. CASE textQ'.items # textQ.items
        <5> SUFFICES ASSUME NEW n \in 1..Len(textQ'.items) PROVE f[1] < textQ'.items[n]
          OBVIOUS
        <5>1. CASE n = Len(textQ.items) + 1
          <6>1. textQ'.items[n] = acct.offered + 1 BY <2>3, <4>2, <5>1
          <6> QED BY <2>2, <3>1, <6>1
        <5>2. CASE n # Len(textQ.items) + 1
          <6>1. n \in 1..Len(textQ.items) BY <2>3, <4>2, <5>2
          <6>2. textQ'.items[n] = textQ.items[n] BY <2>3, <4>2, <6>1
          <6> QED BY <3>2, <6>1, <6>2
        <5> QED BY <5>1, <5>2
      <4> QED BY <4>1, <4>2
    <3>4. f[1] <= acct'.offered BY <2>1, <2>2, <3>1
    <3> QED BY <2>1, <2>5, <3>3, <3>4 DEF Passed, StillPassed, Ahead
  <2>6. TextInv'
    <3>1. tts.sentence \in Nat BY <1>1
    <3>2. CASE textQ'.items = textQ.items
      BY <2>1, <2>2, <2>4, <3>1, <3>2 DEF OrderInv, TextInv, TtsBusy
    <3>3. CASE textQ'.items # textQ.items
      <4>1. ASSUME NEW n \in 1..Len(textQ'.items)
            PROVE  /\ textQ'.items[n] >= 1 /\ textQ'.items[n] <= acct'.offered
                   /\ TtsBusy => tts.sentence < textQ'.items[n]
                   /\ \A m \in 1..Len(textQ'.items) : m < n => textQ'.items[m] < textQ'.items[n]
        <5>1. \A m \in 1..Len(textQ.items) :
                /\ textQ'.items[m] = textQ.items[m] /\ textQ.items[m] \in Nat
                /\ textQ.items[m] <= acct.offered
          BY <2>3, <2>4, <3>3 DEF OrderInv, TextInv
        <5>2. \A m \in 1..Len(textQ'.items) : m < n => m \in 1..Len(textQ.items)
          BY <2>3, <3>3
        <5>3. CASE n = Len(textQ.items) + 1
          <6>1. textQ'.items[n] = acct.offered + 1 BY <2>3, <3>3, <5>3
          <6>2. TtsBusy => tts.sentence <= acct.offered BY DEF OrderInv, TextInv
          <6>3. TtsBusy => tts.sentence < acct.offered + 1 BY <2>2, <3>1, <6>2
          <6>4. \A m \in 1..Len(textQ'.items) : m < n => textQ'.items[m] < acct.offered + 1
            BY SMTT(20), ZenonT(30), <2>2, <5>1, <5>2
          <6>5. acct.offered + 1 >= 1 /\ acct.offered + 1 <= acct'.offered BY <2>1, <2>2
          <6> QED BY <6>1, <6>3, <6>4, <6>5
        <5>4. CASE n # Len(textQ.items) + 1
          <6>1. n \in 1..Len(textQ.items) BY <2>3, <3>3, <5>4
          <6>2. /\ textQ.items[n] >= 1 /\ (TtsBusy => tts.sentence < textQ.items[n])
                /\ \A m \in 1..Len(textQ.items) : m < n => textQ.items[m] < textQ.items[n]
            BY <6>1 DEF OrderInv, TextInv
          <6>3. textQ'.items[n] <= acct'.offered BY SMTT(20), ZenonT(30), <2>1, <2>2, <5>1, <6>1
          <6> QED BY <5>1, <5>2, <6>1, <6>2, <6>3
        <5> QED BY <5>3, <5>4
      <4> QED BY <2>1, <2>2, <3>1, <4>1 DEF OrderInv, TextInv, TtsBusy
    <3> QED BY <3>2, <3>3
  <2>7. LineInv'
    <3> USE DEF OrderInv, LineInv, SinkBusy
    <3>1. \A i \in 1..Len(out'.log) : StillPassed(out'.log[i]) BY <1>1, <2>1, <2>5, LineTypes
    <3>2. SinkBusy' => StillPassed(sink'.frame) BY <1>1, <2>1, <2>5, LineTypes
    <3>3. \A j \in 1..Len(pcmQ'.items) : StillPassed(pcmQ'.items[j]) BY <1>1, <2>1, <2>5, LineTypes
    <3> QED BY <2>1, <3>1, <3>2, <3>3 DEF Passed, StillPassed
  <2> QED BY <2>1, <2>6, <2>7 DEF OrderInv, FramesInOrder
<1>30. CASE PadFrame(d)
  <2>1. out'.log = Append(out.log, Silence) BY <1>1, <1>30 DEF PadFrame
  <2>2. pc[d] = "padding" /\ UNCHANGED <<textQ, pcmQ, tts, sink, acct>> BY <1>30 DEF PadFrame
  <2>3. /\ Len(out.log) \in Nat /\ Len(out'.log) = Len(out.log) + 1
        /\ \A i \in 1..Len(out.log) : out'.log[i] = out.log[i]
        /\ \A i \in 1..Len(out'.log) : i > Len(out.log) => out'.log[i] = Silence
    <3>1. out.log \in Seq(Frames) /\ Silence \in Frames BY <1>1 DEF Silence, Frames
    <3>2. /\ Len(out'.log) = Len(out.log) + 1
          /\ \A i \in 1..Len(out.log) : out'.log[i] = out.log[i]
          /\ out'.log[Len(out.log) + 1] = Silence
      BY <2>1, <3>1, AppendProperties
    <3>3. Len(out.log) \in Nat BY <1>1, LineTypes
    <3> QED BY <3>2, <3>3
  <2>4. \A f : StillPassed(f) <=> Passed(f) BY <2>2 DEF Passed, StillPassed
  <2>5. ~SinkBusy /\ ~TtsBusy
    <3>1. \A e \in Drivers : pc[e] \notin Joining
      BY <2>2, Alone DEF RefInv, Inv, Joining
    <3>2. ~Alive(sink) /\ ~Alive(tts) BY <3>1 DEF RefInv, Inv, ResourceInv, Joining
    <3> QED BY <3>2 DEF Alive, SinkBusy, TtsBusy
  <2>6. Passed(Silence)
    <3>1. \A n \in 1..Len(textQ.items) : 0 < textQ.items[n]
      BY <1>1, LineTypes DEF OrderInv, TextInv
    <3>2. acct.offered \in Nat /\ Silence[1] = 0 BY <1>1 DEF AcctType, Silence
    <3> QED BY <2>5, <3>1, <3>2 DEF Passed, Ahead, TtsBusy
  <2>7. TextInv' BY <2>2 DEF OrderInv, TextInv, TtsBusy
  <2>8. LineInv'
    <3>1. \A i \in 1..Len(out'.log) : StillPassed(out'.log[i])
      <4>1. \A i \in 1..Len(out.log) : StillPassed(out.log[i]) BY <2>4 DEF OrderInv, LineInv
      <4>2. StillPassed(Silence) BY <2>4, <2>6
      <4>3. ASSUME NEW i \in 1..Len(out'.log) PROVE StillPassed(out'.log[i])
        <5>1. CASE i <= Len(out.log)
          <6>1. i \in 1..Len(out.log) /\ out'.log[i] = out.log[i] BY <2>3, <5>1
          <6> QED BY <4>1, <6>1
        <5>2. CASE ~(i <= Len(out.log))
          <6>1. out'.log[i] = Silence BY <2>3, <5>2
          <6> QED BY <4>2, <6>1
        <5> QED BY <5>1, <5>2
      <4> QED BY <4>3
    <3>2. ~SinkBusy' BY <2>2, <2>5 DEF SinkBusy
    <3>3. ASSUME NEW j \in 1..Len(pcmQ'.items)
          PROVE  /\ pcmQ'.items[j][1] >= 1 /\ StillPassed(pcmQ'.items[j])
                 /\ \A i \in 1..Len(out'.log) : Before(out'.log[i], pcmQ'.items[j])
                 /\ \A i \in 1..Len(pcmQ'.items) : i < j => Before(pcmQ'.items[i], pcmQ'.items[j])
      <4>1. pcmQ.items[j] \in Frames /\ pcmQ'.items[j] = pcmQ.items[j] BY <1>1, <2>2, LineTypes
      <4>2. pcmQ.items[j][1] >= 1 /\ pcmQ.items[j][1] \in Nat
        BY <2>2, <4>1 DEF OrderInv, LineInv, Frames
      <4>3. Before(Silence, pcmQ.items[j]) BY <4>2 DEF Before, Silence
      <4>4. \A i \in 1..Len(out'.log) : Before(out'.log[i], pcmQ.items[j])
        <5>1. \A i \in 1..Len(out.log) : Before(out.log[i], pcmQ.items[j])
          BY <2>2 DEF OrderInv, LineInv
        <5> QED BY <2>3, <4>3, <5>1
      <4> QED BY <2>2, <2>4, <4>1, <4>2, <4>4 DEF OrderInv, LineInv
    <3> QED BY <3>1, <3>2, <3>3 DEF LineInv, Passed, StillPassed
  <2>9. FramesInOrder'
    <3> SUFFICES ASSUME NEW i \in 1..Len(out'.log), NEW j \in 1..Len(out'.log), i < j,
                        out'.log[j] # Silence
                 PROVE  \/ out'.log[i][1] < out'.log[j][1] /\ out'.log[i] # Silence
                        \/ out'.log[i][1] = out'.log[j][1] /\ out'.log[i][2] < out'.log[j][2]
      BY DEF FramesInOrder
    <3>1. i \in 1..Len(out.log) /\ j \in 1..Len(out.log) BY <2>3
    <3>2. out'.log[i] = out.log[i] /\ out'.log[j] = out.log[j] BY <2>3, <3>1
    <3> QED BY <3>1, <3>2 DEF OrderInv, FramesInOrder
  <2> QED BY <2>7, <2>8, <2>9
<1>31. CASE Pad(d) BY <1>2, <1>31 DEF Pad
<1>32. CASE StopPadding(d) BY <1>2, <1>32 DEF StopPadding
<1> QED BY <1>3, <1>4, <1>5, <1>6, <1>7, <1>8, <1>9, <1>10, <1>11, <1>12, <1>13, <1>14, <1>15, <1>16, <1>17, <1>18, <1>19, <1>20, <1>21, <1>22, <1>23, <1>24, <1>25, <1>26, <1>27, <1>28, <1>29, <1>30, <1>31, <1>32 DEF DriverStep

LEMMA LineStep == RefInv /\ OrderInv /\ [Next]_vars => TextInv' /\ LineInv' /\ FramesInOrder'
<1> SUFFICES ASSUME RefInv, OrderInv, [Next]_vars PROVE TextInv' /\ LineInv' /\ FramesInOrder'
  OBVIOUS
<1>1. TypeOK BY DEF RefInv, Inv
<1>2. ASSUME NEW c \in Cancellers, CancelGeneration(c) \/ CancelStep(c)
      PROVE  TextInv' /\ LineInv' /\ FramesInOrder'
  <2>1. UNCHANGED <<textQ, pcmQ, out, tts, sink>>
    BY <1>2 DEF CancelStep, CancelGeneration, CancelFlag, CancelDispatch, NotCancel, queues, workers
  <2>2. acct'.offered = acct.offered
    BY <1>1, <1>2 DEF CancelStep, CancelGeneration, CancelFlag, CancelDispatch, TypeOK, AcctType
  <2> QED BY <2>1, <2>2, LineFrame
<1>3. CASE UNCHANGED vars
  BY <1>3, LineFrame DEF vars, queues, workers
<1> QED BY <1>1, <1>2, <1>3, DriverKeepsLine, TtsKeepsLine, SinkKeepsLine DEF Next

\* Until the padding, what is written was spoken.
LEMMA SpokenStep == RefInv /\ OrderInv /\ [Next]_vars => SpokenInv'
<1> SUFFICES ASSUME RefInv, OrderInv, [Next]_vars PROVE SpokenInv'
  OBVIOUS
<1> DEFINE Speaking == Opened \ {"padding", "close_sink"}
<1> USE DEF At, Goto, Submit, DriverOnly
<1>1. /\ TypeOK /\ RunExclusive /\ pc \in [Drivers -> Labels] /\ acct \in AcctType
      /\ out \in [open : BOOLEAN, log : Seq(Frames)]
  BY DEF RefInv, Inv, TypeOK
<1>2. /\ DriverAt(Speaking) => ~Padded
      /\ Padded => acct.late = 0 /\ Len(out.log) <= MinFrames
  BY DEF OrderInv, SpokenInv
\* The log stays and no driver comes to speak: at the latest by Open.
<1>3. ASSUME out'.log = out.log, acct'.late = acct.late, DriverAt(Speaking)' => DriverAt(Speaking)
      PROVE  SpokenInv'
  BY <1>2, <1>3 DEF SpokenInv, Padded
<1>4. ASSUME NEW d \in Drivers, Enter(d) \/ Reject(d) \/ DriverStep(d) \/ Expire(d)
      PROVE  SpokenInv'
  <2>1. ASSUME out'.log = out.log, acct' = acct, pc[d] \in Speaking \/ pc'[d] \notin Speaking,
               \A e \in Drivers : e # d => pc'[e] = pc[e]
        PROVE  SpokenInv'
    BY <1>3, <2>1 DEF DriverAt
  <2>2. CASE Enter(d) BY <1>1, <2>1, <2>2 DEF Enter, Opened
  <2>3. CASE Reject(d) BY <1>1, <2>1, <2>3 DEF Reject, Opened
  <2>4. CASE ClearCancelled(d) BY <1>1, <2>1, <2>4 DEF ClearCancelled, Opened
  <2>5. CASE ResetMachine(d) BY <1>1, <2>1, <2>5 DEF ResetMachine, Opened
  <2>6. CASE Listen(d) BY <1>1, <2>1, <2>6 DEF Listen, Opened
  <2>7. CASE FeedAudio(d) BY <1>1, <2>1, <2>7 DEF FeedAudio, Opened
  <2>8. CASE StopFeeding(d) BY <1>1, <2>1, <2>8 DEF StopFeeding, Opened
  <2>9. CASE HearQuery(d) BY <1>1, <2>1, <2>9 DEF HearQuery, Opened
  <2>10. CASE Route(d) BY <1>1, <2>1, <2>10 DEF Route, Opened
  <2>11. CASE AnswerDirectly(d) BY <1>1, <2>1, <2>11 DEF AnswerDirectly, Opened
  <2>12. CASE AskLlm(d) BY <1>1, <2>1, <2>12 DEF AskLlm, Opened
  <2>13. CASE LlmToken(d) BY <1>1, <2>1, <2>13 DEF LlmToken, Opened
  <2>14. CASE LlmReturns(d) BY <1>1, <2>1, <2>14 DEF LlmReturns, Opened
  <2>16. CASE LlmDone(d) BY <1>1, <2>1, <2>16 DEF LlmDone, Opened
  <2>17. CASE BackendThrows(d) BY <1>1, <2>1, <2>17 DEF BackendThrows, Opened
  <2>18. CASE Speak(d) BY <1>1, <2>1, <2>18 DEF Speak, Opened
  <2>19. CASE CloseText(d) BY <1>1, <2>1, <2>19 DEF CloseText, Opened
  <2>20. CASE JoinTts(d) BY <1>1, <2>1, <2>20 DEF JoinTts, Opened
  <2>21. CASE JoinSink(d) BY <1>1, <2>1, <2>21 DEF JoinSink, Opened
  <2>22. CASE Pad(d) BY <1>1, <2>1, <2>22 DEF Pad, Opened
  <2>23. CASE StopPadding(d) BY <1>1, <2>1, <2>23 DEF StopPadding, Opened
  <2>24. CASE CloseSink(d) BY <1>1, <2>1, <2>24 DEF CloseSink, Opened
  <2>25. CASE CheckCancelled(d) BY <1>1, <2>1, <2>25 DEF CheckCancelled, Opened
  <2>26. CASE Succeed(d) BY <1>1, <2>1, <2>26 DEF Succeed, Opened
  <2>27. CASE Fail(d) BY <1>1, <2>1, <2>27 DEF Fail, Opened
  <2>28. CASE Abort(d) BY <1>1, <2>1, <2>28 DEF Abort, Opened
  <2>29. CASE CompleteCancel(d) BY <1>1, <2>1, <2>29 DEF CompleteCancel, Opened
  <2>30. CASE Leave(d) BY <1>1, <2>1, <2>30 DEF Leave, Opened
  <2>31. CASE Expire(d) BY <1>1, <2>1, <2>31 DEF Expire, Opened
  <2>15. CASE PushSentence(d)
    <3>1. UNCHANGED <<pc, out>> /\ acct'.late = acct.late BY <1>1, <2>15 DEF PushSentence, AcctType
    <3> QED BY <1>3, <3>1 DEF DriverAt
  <2>32. CASE Open(d)
    <3>1. out'.log = <<>> BY <2>32 DEF Open
    <3> QED BY <3>1 DEF SpokenInv, Padded
  <2>33. CASE PadFrame(d)
    <3>1. /\ pc[d] = "padding" /\ pc' = pc /\ acct' = acct
          /\ run.pcmFrames < MinFrames /\ out'.log = Append(out.log, Silence)
      BY <1>1, <2>33 DEF PadFrame
    <3>2. Len(out'.log) = Len(out.log) + 1 /\ Len(out.log) \in Nat
      BY <1>1, <3>1, AppendProperties, LineTypes DEF Silence, Frames
    <3>3. run.pcmFrames = Len(out.log) /\ acct.late = 0
      BY <3>1 DEF RefInv, CountInv, LateInv, DriverAt, Opened
    <3>4. acct'.late = 0 /\ Len(out'.log) <= MinFrames
      BY <3>1, <3>2, <3>3, ConstantsAssumption
    <3>5. \A e \in Drivers : e # d => pc[e] = "idle" BY <1>1, <3>1, Alone
    <3>6. ~DriverAt(Speaking)' BY <3>1, <3>5 DEF DriverAt, Opened
    <3> QED BY <3>4, <3>6 DEF SpokenInv
  <2> QED BY <1>4, <2>2, <2>3, <2>4, <2>5, <2>6, <2>7, <2>8, <2>9, <2>10, <2>11, <2>12, <2>13, <2>14, <2>15, <2>16, <2>17, <2>18, <2>19, <2>20, <2>21, <2>22, <2>23, <2>24, <2>25, <2>26, <2>27, <2>28, <2>29, <2>30, <2>31, <2>32, <2>33 DEF DriverStep
<1>5. CASE TtsStep
  <2>1. out' = out /\ pc' = pc /\ acct'.late = acct.late
    BY <1>1, <1>5 DEF TtsStep, TtsTake, TtsExit, TtsCheck, TtsFrame, TtsPush, TtsReturn, TtsThrow,
                      NotTts, AcctType
  <2> QED BY <1>3, <2>1 DEF DriverAt
<1>6. CASE SinkTake \/ SinkExit \/ SinkCheck \/ SinkRefuse
  <2>1. out' = out /\ pc' = pc /\ acct'.late = acct.late
    BY <1>1, <1>6 DEF SinkTake, SinkExit, SinkCheck, SinkRefuse, NotSink, AcctType
  <2> QED BY <1>3, <2>1 DEF DriverAt
<1>7. CASE SinkWrite
  <2>1. sink.at = "write" /\ out'.log = Append(out.log, sink.frame) /\ pc' = pc
    BY <1>1, <1>7 DEF SinkWrite, NotSink
  <2>2. /\ Len(out'.log) = Len(out.log) + 1 /\ Len(out.log) \in Nat
        /\ \A i \in 1..Len(out.log) : out'.log[i] = out.log[i]
        /\ out'.log[Len(out.log) + 1] = sink.frame
    BY <1>1, <2>1, AppendProperties, LenProperties, LineTypes
  <2>3. sink.frame # Silence
    BY <2>1 DEF OrderInv, LineInv, SinkBusy, Silence
  <2>4. ~Padded
    <3>1. DriverAt(Speaking)
      BY <1>7, WorkerAt DEF RefInv, Joining, Opened, DriverAt, SinkStep
    <3> QED BY <1>2, <3>1
  <2>5. ~Padded' BY <2>2, <2>3, <2>4 DEF Padded
  <2> QED BY <2>5 DEF SpokenInv
<1>8. ASSUME NEW c \in Cancellers, CancelGeneration(c) \/ CancelStep(c) PROVE SpokenInv'
  <2>1. UNCHANGED <<out, pc>> /\ acct'.late = acct.late
    BY <1>1, <1>8 DEF CancelStep, CancelGeneration, CancelFlag, CancelDispatch, NotCancel, drivers, AcctType
  <2> QED BY <1>3, <2>1 DEF DriverAt
<1>9. CASE UNCHANGED vars BY <1>3, <1>9 DEF vars, drivers, DriverAt
<1> QED BY <1>4, <1>5, <1>6, <1>7, <1>8, <1>9 DEF Next, SinkStep

-----------------------------------------------------------------------------
(* The books of a run *)

\* The sentence and the frames that the workers hold.
InCheck == IF tts.at = "check" THEN 1 ELSE 0
InPush == IF tts.at = "push" THEN 1 ELSE 0
InSink == IF SinkBusy THEN 1 ELSE 0

\* Every sentence and every frame is somewhere, for as long as the run may still
\* succeed: a filter discards only what a cancellation or an error gives up.
Books ==
  /\ acct.offered = acct.synthesised + run.droppedText + Len(textQ.items) + InCheck
  /\ acct.produced + Padding = run.pcmFrames + run.droppedPcm + acct.refused
                                 + Len(pcmQ.items) + InSink + InPush
  /\ run.pcmFrames = Len(out.log)

\* The program points at which the workers have been started, or never will be.
Started == {"close_text", "join_tts", "join_sink", "pad", "padding", "close_sink", "check"}

\* A worker of such a run ends only when there is nothing left for it to do.
EmptyHanded ==
  /\ tts.at # "none" /\ sink.at # "none"
  /\ tts.at = "done" => textQ.items = <<>>
  /\ sink.at = "done" => pcmQ.items = <<>> /\ pcmQ.closed

Balanced ==
  /\ acct.offered = acct.synthesised + run.droppedText
  /\ acct.produced + Padding = run.pcmFrames + run.droppedPcm + acct.refused
  /\ run.pcmFrames = Len(out.log)

BooksInv ==
  /\ run.gen = activeGen
  /\ \A d \in Drivers :
       /\ pc[d] \in Opened \ Started => Books
       /\ pc[d] \in Started /\ CanGoOn => Books /\ EmptyHanded
       /\ pc[d] = "conclude" /\ ~run.error /\ ~run.cancelled /\ ~run.expired => Balanced
  /\ run.ok => Balanced

LEMMA NoPadding ==
  ASSUME ~Padded
  PROVE  Padding = 0
<1>1. {i \in 1..Len(out.log) : out.log[i] = Silence} = {} BY DEF Padded
<1> QED BY <1>1, FS_EmptySet DEF Padding

\* There is none while a worker moves.
LEMMA Unpadded ==
  ASSUME RefInv, OrderInv, TtsStep \/ SinkStep
  PROVE  Padding = 0
<1>1. DriverAt(Opened \ {"padding", "close_sink"})
  BY WorkerAt DEF RefInv, DriverAt, Opened, Joining
<1>2. ~Padded BY <1>1 DEF OrderInv, SpokenInv
<1> QED BY <1>2, NoPadding

LEMMA BooksInit == Init => BooksInv
<1> SUFFICES ASSUME Init PROVE BooksInv
  OBVIOUS
<1>1. \A d \in Drivers : pc[d] = "idle" BY DEF Init
<1>2. run.gen = activeGen /\ ~run.ok BY DEF Init, NewRun
<1> QED BY <1>1, <1>2 DEF BooksInv, Opened, Started

LEMMA BooksTypes ==
  ASSUME TypeOK
  PROVE  /\ acct.offered \in Nat /\ acct.synthesised \in Nat /\ acct.produced \in Nat
         /\ acct.refused \in Nat /\ run.droppedText \in Nat /\ run.droppedPcm \in Nat
         /\ run.pcmFrames \in Nat
         /\ Len(textQ.items) \in Nat /\ Len(pcmQ.items) \in Nat /\ Len(out.log) \in Nat
         /\ InCheck \in Nat /\ InPush \in Nat /\ InSink \in Nat
<1>1. acct \in AcctType /\ run \in RunType BY DEF TypeOK
<1>2. InCheck \in Nat /\ InPush \in Nat /\ InSink \in Nat BY DEF InCheck, InPush, InSink
<1> QED BY <1>1, <1>2, LineTypes DEF AcctType, RunType

\* A step that books nothing.
LEMMA BooksFrame ==
  ASSUME out'.log = out.log, acct' = acct, textQ'.items = textQ.items,
         pcmQ'.items = pcmQ.items, pcmQ.closed => pcmQ'.closed, tts'.at = tts.at,
         sink'.at = sink.at,
         run'.droppedText = run.droppedText, run'.droppedPcm = run.droppedPcm,
         run'.pcmFrames = run.pcmFrames
  PROVE  /\ Books => Books'
         /\ Balanced => Balanced'
         /\ EmptyHanded => EmptyHanded'
<1>1. Padding' = Padding BY DEF Padding
<1>2. SinkBusy' = SinkBusy BY DEF SinkBusy
<1>3. InSink' = InSink BY <1>2 DEF InCheck, InPush, InSink
<1>4. InCheck' = InCheck /\ InPush' = InPush
  BY DEF InCheck, InPush, InSink
<1>5. Books => Books' BY <1>1, <1>3, <1>4 DEF Books
<1>6. Balanced => Balanced' BY <1>1 DEF Balanced
<1>7. EmptyHanded => EmptyHanded' BY DEF EmptyHanded
<1> QED BY <1>5, <1>6, <1>7

LEMMA DriverKeepsBooks ==
  ASSUME RefInv, OrderInv, BooksInv, NEW d \in Drivers,
         Enter(d) \/ Reject(d) \/ DriverStep(d) \/ Expire(d)
  PROVE  BooksInv'
<1> USE DEF At, Goto, Submit, DriverOnly, members, queues, workers
<1>1. /\ TypeOK /\ acct \in AcctType /\ pcmQ \in QueueType(Frames) /\ run \in RunType
      /\ textQ \in QueueType(Nat) /\ out \in [open : BOOLEAN, log : Seq(Frames)]
      /\ pc \in [Drivers -> Labels] /\ cancelled \in BOOLEAN
      /\ tts \in [at : {"none", "take", "check", "synth", "push", "done"},
                  sentence : Nat, todo : Nat, k : Nat]
      /\ sink \in [at : {"none", "take", "check", "write", "done"}, frame : Frames]
  BY DEF RefInv, Inv, TypeOK
<1>2. pc[d] # "idle" => \A e \in Drivers : e # d => pc[e] = "idle"
  BY Alone DEF RefInv, Inv
<1>3. pc[d] \notin Joining \cup {"idle"} => ~Alive(tts) /\ ~Alive(sink)
  BY <1>2 DEF RefInv, Inv, ResourceInv, Joining
<1>4. pc[d] \in Opened \cup {"check", "conclude"} => ~run.ok
  BY DEF RefInv, Inv, CancelInv
<1> DEFINE Kept == /\ out'.log = out.log /\ acct' = acct /\ textQ'.items = textQ.items
                   /\ pcmQ'.items = pcmQ.items /\ (pcmQ.closed => pcmQ'.closed)
                   /\ tts'.at = tts.at /\ sink'.at = sink.at
                   /\ run'.droppedText = run.droppedText /\ run'.droppedPcm = run.droppedPcm
                   /\ run'.pcmFrames = run.pcmFrames
                   /\ run'.gen = run.gen /\ activeGen' = activeGen
           Others == \A e \in Drivers : e # d => pc'[e] = pc[e]
           Watched == Opened \cup {"check", "conclude"}
<1>5. Kept => (Books => Books') /\ (Balanced => Balanced') /\ (EmptyHanded => EmptyHanded')
  BY BooksFrame
\* To a point of which the invariant says nothing.
<1>6. ASSUME Kept, Others, pc[d] # "idle" \/ (run' = run /\ cancelled' = cancelled),
             pc'[d] \notin Watched, run'.ok = run.ok
      PROVE  BooksInv'
  BY <1>2, <1>5, <1>6 DEF BooksInv, CanGoOn, Opened, Started
\* Between two points before the workers.
<1>7. ASSUME Kept, Others, pc[d] \in Opened \ Started, pc'[d] \in Opened \ Started,
             run'.ok = run.ok
      PROVE  BooksInv'
  BY <1>2, <1>5, <1>7 DEF BooksInv, Opened, Started
\* Between two points from there on.
<1>8. ASSUME Kept, Others, pc[d] \in Started, pc'[d] \in Started, CanGoOn' => CanGoOn,
             run'.ok = run.ok
      PROVE  BooksInv'
  BY <1>2, <1>5, <1>8 DEF BooksInv, Opened, Started
<1> HIDE DEF Kept, Others, Watched
<1> USE DEF RunType
<1>9. CASE ClearCancelled(d) BY <1>1, <1>6, <1>9 DEF ClearCancelled, Kept, Others, Watched, Opened
<1>10. CASE ResetMachine(d) BY <1>1, <1>6, <1>10 DEF ResetMachine, Kept, Others, Watched, Opened
<1>11. CASE Fail(d)
  <2>1. pc[d] = "conclude" /\ pc' = [pc EXCEPT ![d] = "abort"] /\ DriverOnly
    BY <1>11 DEF Fail
  <2>2. /\ run'.droppedText = run.droppedText /\ run'.droppedPcm = run.droppedPcm
        /\ run'.pcmFrames = run.pcmFrames /\ run'.gen = run.gen /\ run'.ok = run.ok
    BY <1>1, <1>11 DEF Fail
  <2> QED BY <1>1, <1>6, <2>1, <2>2 DEF Kept, Others, Watched, Opened
<1>12. CASE Abort(d) BY <1>1, <1>6, <1>12 DEF Abort, Kept, Others, Watched, Opened
<1>13. CASE CompleteCancel(d) BY <1>1, <1>6, <1>13 DEF CompleteCancel, Kept, Others, Watched, Opened
<1>14. CASE Leave(d) BY <1>1, <1>6, <1>14 DEF Leave, Kept, Others, Watched, Opened
<1>15. CASE Listen(d)
  <2>1. /\ pc[d] = "listen" /\ DriverOnly
        /\ pc' = [pc EXCEPT ![d] = "asr_final"] \/ pc' = [pc EXCEPT ![d] = "asr"]
    BY <1>15 DEF Listen
  <2>2. /\ run'.droppedText = run.droppedText /\ run'.droppedPcm = run.droppedPcm
        /\ run'.pcmFrames = run.pcmFrames /\ run'.gen = run.gen /\ run'.ok = run.ok
    BY SMTT(20), ZenonT(30), <1>1, <1>15 DEF Listen
  <2> QED BY <1>1, <1>7, <2>1, <2>2 DEF Kept, Others, Opened, Started
<1>16. CASE FeedAudio(d) BY <1>1, <1>7, <1>16 DEF FeedAudio, Kept, Others, Opened, Started
<1>17. CASE StopFeeding(d) BY <1>1, <1>7, <1>17 DEF StopFeeding, Kept, Others, Opened, Started
<1>18. CASE HearQuery(d) BY <1>1, <1>7, <1>18 DEF HearQuery, Kept, Others, Opened, Started
<1>19. CASE Route(d) BY <1>1, <1>7, <1>19 DEF Route, Kept, Others, Opened, Started
<1>20. CASE AnswerDirectly(d) BY <1>1, <1>7, <1>20 DEF AnswerDirectly, Kept, Others, Opened, Started
<1>21. CASE AskLlm(d) BY <1>1, <1>7, <1>21 DEF AskLlm, Kept, Others, Opened, Started
<1>22. CASE LlmToken(d) BY <1>1, <1>7, <1>22 DEF LlmToken, Kept, Others, Opened, Started
<1>23. CASE LlmReturns(d) BY <1>1, <1>7, <1>23 DEF LlmReturns, Kept, Others, Opened, Started
<1>24. CASE LlmDone(d) BY <1>1, <1>7, <1>24 DEF LlmDone, Kept, Others, Opened, Started
<1>25. CASE CloseText(d) BY <1>1, <1>8, <1>25 DEF CloseText, Kept, Others, Started, Close, QueueType, CanGoOn
<1>26. CASE JoinTts(d) BY <1>1, <1>8, <1>26 DEF JoinTts, Kept, Others, Started, Close, QueueType, CanGoOn
<1>27. CASE JoinSink(d) BY <1>1, <1>8, <1>27 DEF JoinSink, Kept, Others, Started, Close, QueueType, CanGoOn
<1>28. CASE CloseSink(d) BY <1>1, <1>8, <1>28 DEF CloseSink, Kept, Others, Started, Close, QueueType, CanGoOn
<1>29. CASE Enter(d)
  <2>1. Kept /\ Others /\ run' = run /\ cancelled' = cancelled /\ pc'[d] = "clear"
    BY <1>1, <1>29 DEF Enter, Kept, Others
  <2> QED BY <1>6, <2>1 DEF CanGoOn, Watched, Opened
<1>30. CASE Reject(d)
  <2>1. Kept /\ run' = run /\ cancelled' = cancelled /\ pc' = pc
    BY <1>30 DEF Reject, Kept
  <2> QED BY <1>5, <2>1 DEF BooksInv, CanGoOn, Kept
<1>31. CASE Expire(d)
  <2>1. Kept /\ run'.ok = run.ok /\ run'.error = run.error /\ run'.cancelled = run.cancelled
        /\ (~run'.expired => ~run.expired) /\ cancelled' = cancelled /\ pc' = pc
    BY <1>1, <1>31 DEF Expire, Kept
  <2> QED BY <1>5, <2>1 DEF BooksInv, CanGoOn, Kept
<1>32. CASE BackendThrows(d)
  <2>1. /\ Kept /\ run'.ok = run.ok /\ run'.error /\ pc[d] \in {"asr", "llm"}
        /\ pc' = [pc EXCEPT ![d] = "close_text"]
    BY <1>1, <1>32 DEF BackendThrows, Kept
  <2> QED BY <1>1, <1>2, <1>5, <2>1 DEF BooksInv, CanGoOn, Kept, Opened, Started
<1>33. CASE Open(d)
  <2>1. pc[d] = "open" /\ run'.ok = FALSE /\ run'.gen = activeGen'
        /\ (pc' = [pc EXCEPT ![d] = "listen"] \/ pc' = [pc EXCEPT ![d] = "leave"])
    BY <1>33 DEF Open, NewRun
  <2>2. Books'
    <3>1. /\ out'.log = <<>> /\ textQ'.items = <<>> /\ pcmQ'.items = <<>>
          /\ tts'.at = "none" /\ sink'.at = "none"
      BY <1>33 DEF Open, NewQueue, NoTts, NoSink
    <3>2. /\ acct'.offered = 0 /\ acct'.synthesised = 0 /\ acct'.produced = 0 /\ acct'.refused = 0
      BY <1>33 DEF Open, NewAcct
    <3>3. run'.droppedText = 0 /\ run'.droppedPcm = 0 /\ run'.pcmFrames = 0
      BY <1>33 DEF Open, NewRun
    <3>4. Padding' = 0
      <4>1. {i \in 1..Len(out'.log) : out'.log[i] = Silence} = {} BY <3>1
      <4> QED BY <4>1, FS_EmptySet DEF Padding
    <3>5. Len(out'.log) = 0 /\ Len(textQ'.items) = 0 /\ Len(pcmQ'.items) = 0 BY <3>1
    <3>6. ~SinkBusy' BY <3>1 DEF SinkBusy
    <3> QED BY <3>1, <3>2, <3>3, <3>4, <3>5, <3>6 DEF Books, InCheck, InPush, InSink
  <2> QED BY <1>1, <1>2, <2>1, <2>2 DEF BooksInv, Opened, Started
<1>34. CASE PushSentence(d)
  <2>1. /\ pc[d] \in {"direct", "llm", "flush"} /\ pc' = pc /\ UNCHANGED <<pcmQ, out, tts, sink, activeGen>>
        /\ acct' = [acct EXCEPT !.offered = @ + 1]
        /\ run'.ok = run.ok /\ run'.gen = run.gen /\ run'.pcmFrames = run.pcmFrames
        /\ run'.droppedPcm = run.droppedPcm
        /\ \/ textQ'.items = Append(textQ.items, acct.offered + 1) /\ run'.droppedText = run.droppedText
           \/ textQ' = textQ /\ run'.droppedText = run.droppedText + 1
    BY <1>1, <1>34 DEF PushSentence, Push, QueueType
  <2>2. acct'.offered = acct.offered + 1 /\ acct'.synthesised = acct.synthesised
        /\ acct'.produced = acct.produced /\ acct'.refused = acct.refused
    BY <1>1, <2>1 DEF AcctType
  <2>3. \/ Len(textQ'.items) = Len(textQ.items) + 1 /\ run'.droppedText = run.droppedText
        \/ Len(textQ'.items) = Len(textQ.items) /\ run'.droppedText = run.droppedText + 1
    <3>1. textQ.items \in Seq(Nat) /\ acct.offered + 1 \in Nat
      <4>1. textQ.items \in Seq(Nat) BY <1>1 DEF QueueType
      <4>2. acct.offered \in Nat BY <1>1 DEF AcctType
      <4> QED BY <4>1, <4>2
    <3>2. Len(Append(textQ.items, acct.offered + 1)) = Len(textQ.items) + 1
      BY <3>1, AppendProperties
    <3> QED BY <2>1, <3>2
  <2>4. Books BY <2>1 DEF BooksInv, Opened, Started
  <2>5. Padding' = Padding BY <2>1 DEF Padding
  <2>6. InCheck \in Nat /\ InPush \in Nat /\ InSink \in Nat BY DEF InCheck, InPush, InSink
  <2>7. InCheck' = InCheck /\ InPush' = InPush
        /\ InSink' = InSink
    BY <2>1 DEF InCheck, InPush, InSink, SinkBusy
  <2>8. acct'.offered = acct'.synthesised + run'.droppedText + Len(textQ'.items) + InCheck'
    <3>1. acct.offered = acct.synthesised + run.droppedText + Len(textQ.items) + InCheck
      BY <2>4 DEF Books
    <3>2. \A a, b, c, e, f, b2, c2 \in Nat :
            /\ a = e + b + c + f
            /\ (b2 = b + 1 /\ c2 = c) \/ (b2 = b /\ c2 = c + 1)
            => a + 1 = e + b2 + c2 + f
      OBVIOUS
    <3>3. acct.offered + 1 = acct.synthesised + run'.droppedText + Len(textQ'.items) + InCheck
      <4>1. /\ acct.offered \in Nat /\ acct.synthesised \in Nat /\ run.droppedText \in Nat
            /\ Len(textQ.items) \in Nat /\ InCheck \in Nat
        BY <1>1, BooksTypes
      <4>2. run'.droppedText \in Nat /\ Len(textQ'.items) \in Nat BY <2>3, <4>1
      <4> QED BY <2>3, <3>1, <3>2, <4>1, <4>2, SMTT(60)
    <3> QED BY <2>2, <2>7, <3>3
  <2>9. Books' BY <2>1, <2>2, <2>4, <2>5, <2>7, <2>8 DEF Books
  <2> QED BY <1>2, <1>4, <2>1, <2>9 DEF BooksInv, Opened, Started
<1>35. CASE Speak(d)
  <2>1. /\ pc[d] \in {"speak", "direct"} /\ pc' = [pc EXCEPT ![d] = "close_text"]
        /\ UNCHANGED <<textQ, pcmQ, out, acct, run, cancelled, activeGen>>
    BY <1>35 DEF Speak
  <2>2. ~Alive(tts) /\ ~Alive(sink) BY <1>3, <2>1 DEF Joining
  <2>3. CanGoOn => tts'.at = "take" /\ sink'.at = "take"
    BY <1>1, <1>35 DEF Speak
  <2>4. CanGoOn' = CanGoOn BY <2>1 DEF CanGoOn
  <2>5. CanGoOn => EmptyHanded' BY <2>3 DEF EmptyHanded
  <2>6. CanGoOn => Books'
    <3>1. Books BY <2>1 DEF BooksInv, Opened, Started
    <3>2. Padding' = Padding BY <2>1 DEF Padding
    <3>3. InCheck = 0 /\ InPush = 0 /\ InSink = 0
      BY <2>2 DEF InCheck, InPush, InSink, SinkBusy, Alive
    <3>4. CanGoOn => InCheck' = 0 /\ InPush' = 0 /\ InSink' = 0
      BY <2>3 DEF InCheck, InPush, InSink, SinkBusy
    <3> QED BY <2>1, <3>1, <3>2, <3>3, <3>4 DEF Books
  <2> QED BY <1>1, <1>2, <1>4, <2>1, <2>4, <2>5, <2>6 DEF BooksInv, Opened, Started
<1>36. CASE CheckCancelled(d)
  <2>1. /\ pc[d] = "check" /\ pc' = [pc EXCEPT ![d] = "conclude"]
        /\ UNCHANGED <<textQ, pcmQ, out, acct, activeGen, tts, sink>>
        /\ run'.cancelled = cancelled /\ run'.error = run.error /\ run'.expired = run.expired
        /\ run'.ok = run.ok /\ run'.gen = run.gen /\ run'.droppedText = run.droppedText
        /\ run'.droppedPcm = run.droppedPcm /\ run'.pcmFrames = run.pcmFrames
    BY <1>1, <1>36 DEF CheckCancelled
  <2>2. ASSUME CanGoOn PROVE Balanced
    <3>1. Books /\ EmptyHanded BY <2>1, <2>2 DEF BooksInv, Started
    <3>2. tts.at = "done" /\ sink.at = "done"
      BY <1>3, <2>1, <3>1 DEF EmptyHanded, Alive, Joining
    <3>3. Len(textQ.items) = 0 /\ Len(pcmQ.items) = 0 BY <3>1, <3>2 DEF EmptyHanded
    <3>4. InCheck = 0 /\ InPush = 0 /\ InSink = 0
      BY <3>2 DEF InCheck, InPush, InSink, SinkBusy
    <3>5. acct.offered = acct.synthesised + run.droppedText
      BY <1>1, <3>1, <3>3, <3>4, BooksTypes DEF Books
    <3>6. acct.produced + Padding = run.pcmFrames + run.droppedPcm + acct.refused
      BY <1>1, <3>1, <3>3, <3>4, BooksTypes DEF Books
    <3> QED BY <3>1, <3>5, <3>6 DEF Balanced, Books
  <2>3. ~run'.error /\ ~run'.cancelled /\ ~run'.expired => Balanced'
    BY <1>5, <2>1, <2>2 DEF CanGoOn, Kept
  <2> QED BY <1>1, <1>2, <1>4, <2>1, <2>3 DEF BooksInv, Opened, Started
<1>37. CASE Succeed(d)
  <2>1. /\ pc[d] = "conclude" /\ pc' = [pc EXCEPT ![d] = "leave"] /\ Kept
        /\ ~run.error /\ ~run.cancelled /\ ~run.expired
    BY <1>1, <1>37 DEF Succeed, Kept
  <2>2. Balanced BY <2>1 DEF BooksInv
  <2> QED BY <1>1, <1>2, <1>5, <2>1, <2>2 DEF BooksInv, Opened, Started, Kept
<1>38. CASE PadFrame(d)
  <2>1. /\ pc[d] = "padding" /\ pc' = pc /\ out'.log = Append(out.log, Silence)
        /\ UNCHANGED <<textQ, pcmQ, tts, sink, acct, cancelled, activeGen>>
    BY <1>1, <1>38 DEF PadFrame
  <2>2. /\ run'.pcmFrames = run.pcmFrames + 1 /\ run'.ok = run.ok /\ run'.gen = run.gen
        /\ run'.error = run.error /\ run'.expired = run.expired
        /\ run'.droppedText = run.droppedText /\ run'.droppedPcm = run.droppedPcm
    BY <1>1, <1>38 DEF PadFrame
  <2>3. Len(out'.log) = Len(out.log) + 1 /\ Padding' = Padding + 1 /\ Padding \in Nat
    <3>1. out.log \in Seq(Frames) /\ Silence \in Frames BY <1>1 DEF Silence, Frames
    <3>2. /\ Len(out'.log) = Len(out.log) + 1
          /\ \A i \in 1..Len(out.log) : out'.log[i] = out.log[i]
          /\ out'.log[Len(out.log) + 1] = Silence
      BY <2>1, <3>1, AppendProperties
    <3>3. Len(out.log) \in Nat BY <1>1, LineTypes
    <3> DEFINE quiet == {i \in 1..Len(out.log) : out.log[i] = Silence}
    <3>4. {i \in 1..Len(out'.log) : out'.log[i] = Silence} = quiet \cup {Len(out.log) + 1}
      BY <3>2, <3>3
    <3>5. IsFiniteSet(quiet)
      <4>1. IsFiniteSet(1..Len(out.log)) BY <3>3, FS_Interval
      <4> QED BY <4>1, FS_Subset
    <3>6. Len(out.log) + 1 \notin quiet BY <3>3
    <3>7. Padding = Cardinality(quiet) /\ Padding' = Cardinality(quiet \cup {Len(out.log) + 1})
      BY <3>4 DEF Padding
    <3> HIDE DEF quiet
    <3>8. Cardinality(quiet \cup {Len(out.log) + 1}) = Cardinality(quiet) + 1
      BY <3>5, <3>6, FS_AddElement
    <3>9. Cardinality(quiet) \in Nat BY <3>5, FS_CardinalityType
    <3> QED BY <3>2, <3>7, <3>8, <3>9
  <2>4. CanGoOn' => CanGoOn BY <2>1, <2>2 DEF CanGoOn
  <2>5. CanGoOn => Books' /\ EmptyHanded'
    <3> SUFFICES ASSUME CanGoOn PROVE Books' /\ EmptyHanded'
      OBVIOUS
    <3>1. Books /\ EmptyHanded BY <2>1 DEF BooksInv, Started
    <3>2. EmptyHanded' BY <2>1, <3>1 DEF EmptyHanded
    <3>3. InCheck' = InCheck /\ InPush' = InPush /\ InSink' = InSink
      BY <2>1 DEF InCheck, InPush, InSink, SinkBusy
    <3>4. acct.produced + (Padding + 1) = run.pcmFrames + 1 + run.droppedPcm + acct.refused
                               + Len(pcmQ.items) + InSink + InPush
      <4>1. acct.produced + Padding = run.pcmFrames + run.droppedPcm + acct.refused
                               + Len(pcmQ.items) + InSink + InPush
        BY <3>1, Zenon DEF Books
      <4>2. /\ acct.produced \in Nat /\ run.pcmFrames \in Nat /\ run.droppedPcm \in Nat
            /\ acct.refused \in Nat /\ Len(pcmQ.items) \in Nat /\ InSink \in Nat /\ InPush \in Nat
        BY <1>1, BooksTypes
      <4> DEFINE a == acct.produced
                 p == Padding
                 b == run.pcmFrames
                 c == run.droppedPcm
                 e == acct.refused
                 f == Len(pcmQ.items)
                 g == InSink
                 h == InPush
      <4>3. a \in Nat /\ p \in Nat /\ b \in Nat /\ c \in Nat /\ e \in Nat /\ f \in Nat
            /\ g \in Nat /\ h \in Nat /\ a + p = b + c + e + f + g + h
        BY <2>3, <4>1, <4>2
      <4>4. a + (p + 1) = b + 1 + c + e + f + g + h
        <5> HIDE DEF a, p, b, c, e, f, g, h
        <5> QED BY <4>3
      <4> QED BY <4>4
    <3> QED BY <2>1, <2>2, <2>3, <3>1, <3>2, <3>3, <3>4 DEF Books
  <2> QED BY <1>1, <1>2, <1>4, <2>1, <2>2, <2>4, <2>5 DEF BooksInv, Opened, Started
<1>39. CASE Pad(d)
  <2>1. /\ pc[d] = "pad" /\ Kept /\ Others /\ run' = run /\ cancelled' = cancelled
        /\ pc'[d] \in {"padding", "close_sink"}
    BY <1>1, <1>39 DEF Pad, Kept, Others
  <2> QED BY <1>8, <2>1 DEF Started, CanGoOn
<1>40. CASE StopPadding(d) BY <1>1, <1>8, <1>40 DEF StopPadding, Kept, Others, Started, CanGoOn
<1> QED BY <1>9, <1>10, <1>11, <1>12, <1>13, <1>14, <1>15, <1>16, <1>17, <1>18, <1>19, <1>20, <1>21, <1>22, <1>23, <1>24, <1>25, <1>26, <1>27, <1>28, <1>29, <1>30, <1>31, <1>32, <1>33, <1>34, <1>35, <1>36, <1>37, <1>38, <1>39, <1>40 DEF DriverStep

\* What a step of a worker has to keep, while the run may still succeed.
LEMMA WorkerBooks ==
  ASSUME RefInv, BooksInv, TtsStep \/ SinkStep, pc' = pc, activeGen' = activeGen,
         run'.gen = run.gen, run'.ok = run.ok, CanGoOn' => CanGoOn,
         CanGoOn' /\ Books /\ EmptyHanded => Books' /\ EmptyHanded'
  PROVE  BooksInv'
<1>1. PICK e \in Drivers : pc[e] \in Joining BY WorkerAt DEF RefInv
<1>2. \A d \in Drivers : d # e => pc[d] = "idle"
  BY <1>1, Alone DEF RefInv, Inv, Joining
<1>3. ~run.ok BY <1>1 DEF RefInv, Inv, CancelInv, Opened, Joining
<1> QED BY <1>1, <1>2, <1>3 DEF BooksInv, Started, Opened, Joining

LEMMA TtsKeepsBooks ==
  ASSUME RefInv, OrderInv, BooksInv, TtsStep
  PROVE  BooksInv'
<1> USE DEF NotTts, queues, members
<1>1. /\ TypeOK /\ acct \in AcctType /\ pcmQ \in QueueType(Frames) /\ run \in RunType
      /\ textQ \in QueueType(Nat)
      /\ tts \in [at : {"none", "take", "check", "synth", "push", "done"},
                  sentence : Nat, todo : Nat, k : Nat]
  BY DEF RefInv, Inv, TypeOK
<1>2. UNCHANGED <<pc, activeGen, cancelled, sink, out>>
  BY DEF TtsStep, TtsTake, TtsExit, TtsCheck, TtsFrame, TtsPush, TtsReturn, TtsThrow
<1>3. Padding' = Padding /\ InSink' = InSink BY <1>2 DEF Padding, InSink, SinkBusy
<1>4. /\ acct.offered \in Nat /\ acct.synthesised \in Nat /\ run.droppedText \in Nat
      /\ Len(textQ.items) \in Nat /\ Padding = Padding
      /\ acct.produced \in Nat /\ run.pcmFrames \in Nat /\ run.droppedPcm \in Nat
      /\ acct.refused \in Nat /\ Len(pcmQ.items) \in Nat /\ InSink \in Nat
  BY <1>1, BooksTypes
<1> DEFINE Going == CanGoOn' /\ Books /\ EmptyHanded
           RunKept == run'.gen = run.gen /\ run'.ok = run.ok /\ (CanGoOn' => CanGoOn)
<1>5. ASSUME RunKept, Going => Books' /\ EmptyHanded' PROVE BooksInv'
  BY <1>2, <1>5, WorkerBooks
<1>6. ASSUME run' = run PROVE RunKept BY <1>2, <1>6 DEF CanGoOn
\* The part of the books that a step leaves alone.
<1>7. ASSUME UNCHANGED <<run, pcmQ>>, acct'.produced = acct.produced, acct'.refused = acct.refused,
             InPush' = InPush, Books
      PROVE  /\ acct'.produced + Padding' = run'.pcmFrames + run'.droppedPcm + acct'.refused
                                             + Len(pcmQ'.items) + InSink' + InPush'
             /\ run'.pcmFrames = Len(out'.log)
  BY <1>2, <1>3, <1>7 DEF Books
<1>8. ASSUME textQ'.items = textQ.items, acct'.offered = acct.offered, acct'.synthesised = acct.synthesised,
             run'.droppedText = run.droppedText, InCheck' = InCheck, Books
      PROVE  acct'.offered = acct'.synthesised + run'.droppedText + Len(textQ'.items) + InCheck'
  BY <1>8 DEF Books
<1> HIDE DEF RunKept
<1>9. CASE TtsTake
  <2>1. /\ tts.at = "take" /\ tts'.at = "check" /\ textQ.items # <<>>
        /\ textQ'.items = Tail(textQ.items) /\ UNCHANGED <<run, pcmQ, acct>>
    BY <1>1, <1>9 DEF TtsTake, HasItem, Pop, QueueType
  <2>2. Len(textQ'.items) = Len(textQ.items) - 1
    <3>1. textQ.items \in Seq(Nat) BY <1>1 DEF QueueType
    <3> QED BY <2>1, <3>1, HeadTailProperties
  <2>3. InCheck = 0 /\ InCheck' = 1 /\ InPush' = InPush BY <2>1 DEF InCheck, InPush
  <2>4. ASSUME Books PROVE Books'
    <3>1. acct.offered = acct.synthesised + run.droppedText + Len(textQ.items) + 0
      BY <2>3, <2>4 DEF Books
    <3>2. acct.offered = acct.synthesised + run.droppedText + (Len(textQ.items) - 1) + 1
      BY <1>4, <3>1, SMTT(60)
    <3>3. acct'.offered = acct'.synthesised + run'.droppedText + Len(textQ'.items) + InCheck'
      BY <2>1, <2>2, <2>3, <3>2
    <3> QED BY <1>7, <2>1, <2>3, <2>4, <3>3 DEF Books
  <2>5. EmptyHanded => EmptyHanded' BY <1>2, <2>1 DEF EmptyHanded
  <2> QED BY <1>5, <1>6, <2>1, <2>4, <2>5
<1>10. CASE TtsExit
  <2>1. /\ tts.at = "take" /\ tts'.at = "done" /\ textQ.items = <<>>
        /\ UNCHANGED <<run, pcmQ, textQ, acct>>
    BY <1>1, <1>10 DEF TtsExit, Drained
  <2>2. InCheck' = InCheck /\ InPush' = InPush BY <2>1 DEF InCheck, InPush
  <2>3. Books => Books' BY <1>7, <1>8, <2>1, <2>2 DEF Books
  <2>4. EmptyHanded => EmptyHanded' BY <1>2, <2>1 DEF EmptyHanded
  <2> QED BY <1>5, <1>6, <2>1, <2>3, <2>4
<1>11. CASE TtsCheck
  <2>1. tts.at = "check" /\ tts'.at \in {"synth", "take"} /\ UNCHANGED <<run, pcmQ, textQ>>
    BY <1>1, <1>11 DEF TtsCheck
  <2>2. CanGoOn' => IsActive BY <1>2, <2>1 DEF CanGoOn, IsActive, BooksInv
  <2>3. IsActive => /\ acct'.synthesised = acct.synthesised + 1 /\ acct'.offered = acct.offered
                    /\ acct'.produced = acct.produced /\ acct'.refused = acct.refused
    BY <1>1, <1>11 DEF TtsCheck, AcctType
  <2>4. InCheck = 1 /\ InCheck' = 0 /\ InPush' = InPush BY <2>1 DEF InCheck, InPush
  <2>5. ASSUME Books, IsActive PROVE Books'
    <3>1. acct.offered = acct.synthesised + run.droppedText + Len(textQ.items) + 1
      BY <2>4, <2>5 DEF Books
    <3>2. acct.offered = acct.synthesised + 1 + run.droppedText + Len(textQ.items) + 0
      BY <1>4, <3>1, SMTT(60)
    <3>3. acct'.offered = acct'.synthesised + run'.droppedText + Len(textQ'.items) + InCheck'
      BY <2>1, <2>3, <2>4, <2>5, <3>2
    <3> QED BY <1>7, <2>1, <2>3, <2>4, <2>5, <3>3 DEF Books
  <2>6. EmptyHanded => EmptyHanded' BY <1>2, <2>1 DEF EmptyHanded
  <2> QED BY <1>5, <1>6, <2>1, <2>2, <2>5, <2>6
<1>12. CASE TtsFrame
  <2>1. tts.at = "synth" /\ tts'.at \in {"synth", "push"} /\ UNCHANGED <<run, pcmQ, textQ>>
    BY <1>1, <1>12 DEF TtsFrame
  <2>2. CanGoOn' => IsActive BY <1>2, <2>1 DEF CanGoOn, IsActive, BooksInv
  <2>3. IsActive => /\ acct'.synthesised = acct.synthesised /\ acct'.offered = acct.offered
                    /\ acct'.produced = acct.produced + 1 /\ acct'.refused = acct.refused
                    /\ tts'.at = "push"
    BY <1>1, <1>12 DEF TtsFrame, AcctType
  <2>4. InCheck' = InCheck /\ InPush = 0 /\ (IsActive => InPush' = 1)
    BY <2>1, <2>3 DEF InCheck, InPush
  <2>5. ASSUME Books, IsActive PROVE Books'
    <3>1. acct.produced + Padding = run.pcmFrames + run.droppedPcm + acct.refused
                                     + Len(pcmQ.items) + InSink + 0
      BY <2>4, <2>5 DEF Books
    <3>2. Padding = 0 BY Unpadded
    <3>3. acct.produced + 1 + Padding = run.pcmFrames + run.droppedPcm + acct.refused
                                     + Len(pcmQ.items) + InSink + 1
      BY <1>4, <3>1, <3>2, SMTT(60)
    <3> QED BY <1>2, <1>3, <1>8, <2>1, <2>3, <2>4, <2>5, <3>3 DEF Books
  <2>6. EmptyHanded => EmptyHanded' BY <1>2, <2>1 DEF EmptyHanded
  <2> QED BY <1>5, <1>6, <2>1, <2>2, <2>5, <2>6
<1>13. CASE TtsPush
  <2>1. tts.at = "push" /\ tts'.at = "synth" /\ UNCHANGED <<acct, textQ>>
    BY <1>1, <1>13 DEF TtsPush
  <2>2. ~pcmQ.closed
    <3>1. PICK e \in Drivers : pc[e] \in {"close_text", "join_tts"}
      BY <2>1 DEF RefInv, Inv, ResourceInv, Alive
    <3> QED BY <3>1 DEF RefInv, Inv, ResourceInv, Opened
  <2>3. /\ run'.gen = run.gen /\ run'.ok = run.ok /\ run'.error = run.error
        /\ run'.expired = run.expired /\ run'.pcmFrames = run.pcmFrames
        /\ run'.droppedText = run.droppedText
    BY <1>1, <1>13 DEF TtsPush, RunType
  <2>4. \/ Len(pcmQ'.items) = Len(pcmQ.items) + 1 /\ run'.droppedPcm = run.droppedPcm
        \/ Len(pcmQ'.items) = Len(pcmQ.items) /\ run'.droppedPcm = run.droppedPcm + 1
    <3>1. pcmQ.items \in Seq(Frames) /\ <<tts.sentence, tts.k>> \in Frames
      BY <1>1 DEF QueueType, Frames
    <3>2. Len(Append(pcmQ.items, <<tts.sentence, tts.k>>)) = Len(pcmQ.items) + 1
      BY <3>1, AppendProperties
    <3>3. CASE HasRoom(pcmQ, PcmCapacity)
      <4>1. pcmQ' = Push(pcmQ, <<tts.sentence, tts.k>>) /\ run' = run
        BY <1>13, <2>2, <3>3 DEF TtsPush
      <4>2. pcmQ'.items = Append(pcmQ.items, <<tts.sentence, tts.k>>)
        BY <1>1, <4>1 DEF Push, QueueType
      <4> QED BY <3>2, <4>1, <4>2
    <3>4. CASE ~HasRoom(pcmQ, PcmCapacity)
      <4>1. run' = [run EXCEPT !.droppedPcm = @ + 1] /\ pcmQ' = pcmQ
        BY <1>13, <2>2, <3>4 DEF TtsPush
      <4> QED BY <1>1, <4>1 DEF RunType
    <3> QED BY <3>3, <3>4
  <2>5. InCheck' = InCheck /\ InPush = 1 /\ InPush' = 0 BY <2>1 DEF InCheck, InPush
  <2>6. ASSUME Books PROVE Books'
    <3>1. acct.produced + Padding = run.pcmFrames + run.droppedPcm + acct.refused
                                     + Len(pcmQ.items) + InSink + 1
      BY <2>5, <2>6 DEF Books
    <3>2. acct.produced + Padding = run.pcmFrames + run'.droppedPcm + acct.refused
                                     + Len(pcmQ'.items) + InSink + 0
      <4>1. CASE Len(pcmQ'.items) = Len(pcmQ.items) + 1 /\ run'.droppedPcm = run.droppedPcm
        <5>1. run.pcmFrames + run.droppedPcm + acct.refused + Len(pcmQ.items) + InSink + 1
                = run.pcmFrames + run.droppedPcm + acct.refused + (Len(pcmQ.items) + 1) + InSink + 0
          BY <1>4, SMTT(60)
        <5> QED BY <3>1, <4>1, <5>1
      <4>2. CASE Len(pcmQ'.items) = Len(pcmQ.items) /\ run'.droppedPcm = run.droppedPcm + 1
        <5>1. run.pcmFrames + run.droppedPcm + acct.refused + Len(pcmQ.items) + InSink + 1
                = run.pcmFrames + (run.droppedPcm + 1) + acct.refused + Len(pcmQ.items) + InSink + 0
          BY <1>4, SMTT(60)
        <5> QED BY <3>1, <4>2, <5>1
      <4> QED BY <2>4, <4>1, <4>2
    <3> QED BY <1>2, <1>3, <1>8, <2>1, <2>3, <2>5, <2>6, <3>2 DEF Books
  <2>7. EmptyHanded => EmptyHanded' BY <1>2, <2>1, <2>2 DEF EmptyHanded
  <2>8. RunKept BY <1>2, <2>3 DEF RunKept, CanGoOn
  <2> QED BY <1>5, <2>6, <2>7, <2>8
<1>14. CASE TtsReturn
  <2>1. /\ tts.at = "synth" /\ tts'.at = "take" /\ UNCHANGED <<run, pcmQ, textQ, acct>>
    BY <1>1, <1>14 DEF TtsReturn
  <2>2. InCheck' = InCheck /\ InPush' = InPush BY <2>1 DEF InCheck, InPush
  <2>3. Books => Books' BY <1>7, <1>8, <2>1, <2>2 DEF Books
  <2>4. EmptyHanded => EmptyHanded' BY <1>2, <2>1 DEF EmptyHanded
  <2> QED BY <1>5, <1>6, <2>1, <2>3, <2>4
<1>15. CASE TtsThrow
  <2>1. run'.error /\ run'.gen = run.gen /\ run'.ok = run.ok
    BY <1>1, <1>15 DEF TtsThrow, RunType
  <2>2. ~CanGoOn' BY <2>1 DEF CanGoOn
  <2> QED BY <1>5, <2>1, <2>2 DEF RunKept
<1> QED BY <1>9, <1>10, <1>11, <1>12, <1>13, <1>14, <1>15 DEF TtsStep

LEMMA SinkKeepsBooks ==
  ASSUME RefInv, OrderInv, OrderInv', BooksInv, SinkStep
  PROVE  BooksInv'
<1> USE DEF NotSink, members
<1>1. /\ TypeOK /\ acct \in AcctType /\ pcmQ \in QueueType(Frames) /\ run \in RunType
      /\ out \in [open : BOOLEAN, log : Seq(Frames)]
      /\ sink \in [at : {"none", "take", "check", "write", "done"}, frame : Frames]
  BY DEF RefInv, Inv, TypeOK
<1>2. UNCHANGED <<pc, activeGen, cancelled, textQ, tts>>
  BY DEF SinkStep, SinkTake, SinkExit, SinkCheck, SinkWrite, SinkRefuse
<1>3. InCheck' = InCheck /\ InPush' = InPush BY <1>2 DEF InCheck, InPush
<1>4. /\ acct.produced \in Nat /\ run.pcmFrames \in Nat /\ run.droppedPcm \in Nat
      /\ acct.refused \in Nat /\ Len(pcmQ.items) \in Nat /\ InPush \in Nat /\ Len(out.log) \in Nat
  BY <1>1, BooksTypes
<1>5. Padding = 0
  BY Unpadded
<1>6. Padding' = 0
  <2>1. DriverAt(Opened \ {"padding", "close_sink"})'
    BY <1>2, WorkerAt DEF RefInv, DriverAt, Opened, Joining
  <2>2. \A i \in 1..Len(out'.log) : out'.log[i] # Silence
    BY <2>1 DEF OrderInv, SpokenInv, Padded
  <2>3. {i \in 1..Len(out'.log) : out'.log[i] = Silence} = {} BY <2>2
  <2> QED BY <2>3, FS_EmptySet DEF Padding
<1>7. ASSUME UNCHANGED run, CanGoOn' /\ Books /\ EmptyHanded => Books' /\ EmptyHanded'
      PROVE  BooksInv'
  BY <1>2, <1>7, WorkerBooks DEF CanGoOn
\* The sentences are none of the sink worker's business.
<1>8. ASSUME acct'.offered = acct.offered, acct'.synthesised = acct.synthesised,
             run'.droppedText = run.droppedText, Books
      PROVE  acct'.offered = acct'.synthesised + run'.droppedText + Len(textQ'.items) + InCheck'
  BY <1>2, <1>3, <1>8 DEF Books
<1>9. CASE SinkTake
  <2>1. /\ sink.at = "take" /\ sink'.at = "check" /\ pcmQ.items # <<>>
        /\ pcmQ'.items = Tail(pcmQ.items) /\ UNCHANGED <<run, out, acct>>
    BY <1>1, <1>9 DEF SinkTake, HasItem, Pop, QueueType
  <2>2. Len(pcmQ'.items) = Len(pcmQ.items) - 1
    <3>1. pcmQ.items \in Seq(Frames) BY <1>1 DEF QueueType
    <3> QED BY <2>1, <3>1, HeadTailProperties
  <2>3. InSink = 0 /\ InSink' = 1 BY <2>1 DEF InSink, SinkBusy
  <2>4. ASSUME Books PROVE Books'
    <3>1. acct.produced + Padding = run.pcmFrames + run.droppedPcm + acct.refused
                                     + Len(pcmQ.items) + 0 + InPush
      BY <2>3, <2>4 DEF Books
    <3>2. run.pcmFrames + run.droppedPcm + acct.refused + Len(pcmQ.items) + 0 + InPush
            = run.pcmFrames + run.droppedPcm + acct.refused + (Len(pcmQ.items) - 1) + 1 + InPush
      BY <1>4, SMTT(60)
    <3> QED BY <1>3, <1>5, <1>6, <1>8, <2>1, <2>2, <2>3, <2>4, <3>1, <3>2 DEF Books
  <2>5. EmptyHanded => EmptyHanded' BY <1>2, <2>1 DEF EmptyHanded
  <2> QED BY <1>7, <2>1, <2>4, <2>5
<1>10. CASE SinkExit
  <2>1. /\ sink.at = "take" /\ sink'.at = "done" /\ pcmQ.items = <<>> /\ pcmQ.closed
        /\ UNCHANGED <<run, pcmQ, out, acct>>
    BY <1>1, <1>10 DEF SinkExit, Drained
  <2>2. InSink' = InSink BY <2>1 DEF InSink, SinkBusy
  <2>3. Books => Books' BY <1>3, <1>5, <1>6, <1>8, <2>1, <2>2 DEF Books
  <2>4. EmptyHanded => EmptyHanded' BY <1>2, <2>1 DEF EmptyHanded
  <2> QED BY <1>7, <2>1, <2>3, <2>4
<1>11. CASE SinkCheck
  <2>1. /\ sink.at = "check" /\ UNCHANGED <<run, pcmQ, out, acct>>
        /\ sink'.at = IF IsActive THEN "write" ELSE "take"
    BY <1>1, <1>11 DEF SinkCheck
  <2>2. CanGoOn' => IsActive BY <1>2, <2>1 DEF CanGoOn, IsActive, BooksInv
  <2>3. IsActive => InSink' = InSink BY <2>1 DEF InSink, SinkBusy
  <2>4. IsActive /\ Books => Books' BY <1>3, <1>5, <1>6, <1>8, <2>1, <2>3 DEF Books
  <2>5. EmptyHanded => EmptyHanded' BY <1>2, <2>1 DEF EmptyHanded
  <2> QED BY <1>7, <2>1, <2>2, <2>4, <2>5
<1>12. CASE SinkWrite
  <2>1. /\ sink.at = "write" /\ sink'.at = "take" /\ pcmQ' = pcmQ
        /\ out'.log = Append(out.log, sink.frame)
    BY <1>1, <1>12 DEF SinkWrite
  <2>2. /\ acct'.offered = acct.offered /\ acct'.synthesised = acct.synthesised
        /\ acct'.produced = acct.produced /\ acct'.refused = acct.refused
    BY <1>1, <1>12 DEF SinkWrite, AcctType
  <2>3. /\ run'.pcmFrames = run.pcmFrames + 1 /\ run'.droppedPcm = run.droppedPcm
        /\ run'.droppedText = run.droppedText /\ run'.gen = run.gen /\ run'.ok = run.ok
        /\ run'.error = run.error /\ run'.expired = run.expired
    BY <1>1, <1>12 DEF SinkWrite, RunType
  <2>4. Len(out'.log) = Len(out.log) + 1 BY <1>1, <2>1, AppendProperties
  <2>5. InSink = 1 /\ InSink' = 0 BY <2>1 DEF InSink, SinkBusy
  <2>6. ASSUME Books PROVE Books'
    <3>1. acct.produced + Padding = run.pcmFrames + run.droppedPcm + acct.refused
                                     + Len(pcmQ.items) + 1 + InPush
      BY <2>5, <2>6 DEF Books
    <3>2. run.pcmFrames + run.droppedPcm + acct.refused + Len(pcmQ.items) + 1 + InPush
            = run.pcmFrames + 1 + run.droppedPcm + acct.refused + Len(pcmQ.items) + 0 + InPush
      BY <1>4, SMTT(60)
    <3>3. run'.pcmFrames = Len(out'.log) BY <2>3, <2>4, <2>6 DEF Books
    <3> QED BY <1>3, <1>5, <1>6, <1>8, <2>1, <2>2, <2>3, <2>5, <2>6, <3>1, <3>2, <3>3 DEF Books
  <2>7. EmptyHanded => EmptyHanded' BY <1>2, <2>1 DEF EmptyHanded
  <2> QED BY <1>2, <2>3, <2>6, <2>7, WorkerBooks DEF CanGoOn
<1>13. CASE SinkRefuse
  <2>1. /\ sink.at = "write" /\ sink'.at = "take" /\ UNCHANGED <<run, pcmQ, out>>
    BY <1>1, <1>13 DEF SinkRefuse
  <2>2. /\ acct'.offered = acct.offered /\ acct'.synthesised = acct.synthesised
        /\ acct'.produced = acct.produced /\ acct'.refused = acct.refused + 1
    BY <1>1, <1>13 DEF SinkRefuse, AcctType
  <2>3. InSink = 1 /\ InSink' = 0 BY <2>1 DEF InSink, SinkBusy
  <2>4. ASSUME Books PROVE Books'
    <3>1. acct.produced + Padding = run.pcmFrames + run.droppedPcm + acct.refused
                                     + Len(pcmQ.items) + 1 + InPush
      BY <2>3, <2>4 DEF Books
    <3>2. run.pcmFrames + run.droppedPcm + acct.refused + Len(pcmQ.items) + 1 + InPush
            = run.pcmFrames + run.droppedPcm + (acct.refused + 1) + Len(pcmQ.items) + 0 + InPush
      BY <1>4, SMTT(60)
    <3> QED BY <1>3, <1>5, <1>6, <1>8, <2>1, <2>2, <2>3, <2>4, <3>1, <3>2 DEF Books
  <2>5. EmptyHanded => EmptyHanded' BY <1>2, <2>1 DEF EmptyHanded
  <2> QED BY <1>7, <2>1, <2>4, <2>5
<1> QED BY <1>9, <1>10, <1>11, <1>12, <1>13 DEF SinkStep

LEMMA BooksStep == RefInv /\ OrderInv /\ OrderInv' /\ BooksInv /\ [Next]_vars => BooksInv'
<1> SUFFICES ASSUME RefInv, OrderInv, OrderInv', BooksInv, [Next]_vars PROVE BooksInv'
  OBVIOUS
\* A cancellation books nothing, and a run it flags does not go on.
<1>1. ASSUME UNCHANGED <<drivers, queues, out, workers, activeGen>>,
             acct'.offered = acct.offered, acct'.synthesised = acct.synthesised,
             acct'.produced = acct.produced, acct'.refused = acct.refused,
             cancelled => cancelled', cancelled \in BOOLEAN
      PROVE  BooksInv'
  <2> USE DEF drivers, queues, workers
  <2>1. Padding' = Padding /\ InCheck' = InCheck /\ InPush' = InPush /\ InSink' = InSink
    BY <1>1 DEF Padding, InCheck, InPush, InSink, SinkBusy
  <2>2. Books => Books' BY <1>1, <2>1 DEF Books
  <2>3. Balanced => Balanced' BY <1>1, <2>1 DEF Balanced
  <2>4. EmptyHanded => EmptyHanded' BY <1>1 DEF EmptyHanded
  <2>5. CanGoOn' => CanGoOn BY <1>1 DEF CanGoOn
  <2> QED BY <1>1, <2>2, <2>3, <2>4, <2>5 DEF BooksInv
<1>2. cancelled \in BOOLEAN /\ acct \in AcctType BY DEF RefInv, Inv, TypeOK
<1>3. ASSUME NEW c \in Cancellers, CancelGeneration(c) \/ CancelStep(c) PROVE BooksInv'
  <2>1. UNCHANGED <<drivers, queues, out, workers, activeGen>>
    BY <1>3 DEF CancelStep, CancelGeneration, CancelFlag, CancelDispatch, NotCancel
  <2>2. /\ acct'.offered = acct.offered /\ acct'.synthesised = acct.synthesised
        /\ acct'.produced = acct.produced /\ acct'.refused = acct.refused
        /\ (cancelled => cancelled')
    BY <1>2, <1>3 DEF CancelStep, CancelGeneration, CancelFlag, CancelDispatch, AcctType
  <2> QED BY <1>1, <1>2, <2>1, <2>2
<1>4. CASE UNCHANGED vars BY <1>1, <1>2, <1>4 DEF vars, members
<1> QED BY <1>3, <1>4, DriverKeepsBooks, TtsKeepsBooks, SinkKeepsBooks DEF Next

-----------------------------------------------------------------------------
(* The theorems *)

\* Written, held and queued frames form one line in the order of the answer.
THEOREM OrderInvariance == Spec => []OrderInv
<1>1. Init => OrderInv BY OrderInit
<1>2. RefInv /\ OrderInv /\ [Next]_vars => OrderInv'
  BY LineStep, SpokenStep DEF OrderInv
<1> QED BY <1>1, <1>2, RefInvariance, PTL DEF Spec

\* Once the cancellation flag is up, one frame of the answer at most still reaches the
\* sink, or what is left of a padding that had begun, never both; and the silence ends at
\* the minimum.
THEOREM OutputStops == Spec => []LateOutput
<1>1. LateInv /\ SpokenInv /\ acct \in AcctType => LateOutput
  BY DEF LateInv, SpokenInv, LateOutput, AcctType
<1>2. RefInv /\ OrderInv => LateOutput BY <1>1 DEF RefInv, Inv, TypeOK, OrderInv
<1> QED BY <1>2, RefInvariance, OrderInvariance, PTL

\* The sink hears the answer in its order across two threads and two lossy queues,
\* silence only at the end, and after a cancellation no more than LateOutput allows.
THEOREM AnswerHeard == Spec => []SinkHearsTheAnswer
<1>1. OrderInv => FramesInOrder BY DEF OrderInv
<1> QED BY <1>1, OrderInvariance, OutputStops, PTL DEF SinkHearsTheAnswer

\* While a run may still succeed, its books are kept to the frame.
THEOREM BooksInvariance == Spec => []BooksInv
<1>1. Init => BooksInv BY BooksInit
<1>2. RefInv /\ OrderInv /\ OrderInv' /\ BooksInv /\ [Next]_vars => BooksInv'
  BY BooksStep
<1> QED BY <1>1, <1>2, RefInvariance, OrderInvariance, PTL DEF Spec

\* A run that reports ok lost nothing silently, between four threads, two lossy
\* queues and the filters that a cancellation trips.
THEOREM AllAccounted == Spec => []OkRunAccountsForAll
<1>1. BooksInv => OkRunAccountsForAll BY DEF BooksInv, Balanced, OkRunAccountsForAll
<1> QED BY <1>1, BooksInvariance, PTL

=============================================================================
