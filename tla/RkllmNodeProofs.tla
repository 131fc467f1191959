-------------------------- MODULE RkllmNodeProofs --------------------------
(***************************************************************************)
(* Theorems about RkllmNode, for every number of inferences, every length  *)
(* of the runs and every choice of the kinds of token.                     *)
(***************************************************************************)
EXTENDS RkllmNode, SequenceTheorems, FiniteSetTheorems, TLAPS

-----------------------------------------------------------------------------
(* The inductive invariant *)

\* The worker lives while infer() waits for it, and the flag follows it.
InferInv ==
  /\ worker # "off" <=> main \in {"polling", "cancelling", "joining"}
  /\ worker \in {"run", "pump", "ended"} <=> running
  /\ main # "idle" => k \in Infers

\* One generation per inference at most, and no queued item is of a later one.
GenerationInv ==
  /\ generation <= k
  /\ main = "entered" \/ worker = "start" => generation < k
  /\ worker \notin {"off", "start"} => myGen = generation
  /\ \A i \in 1..Len(queue) : queue[i].gen <= generation

\* A run that has not begun is silent, and that of the inference begins in RunAsync.
RunInv ==
  /\ \A r \in Infers :
       /\ r > k => run[r] = "off"
       /\ run[r] = "off" => sent[r] = <<>>
  /\ main = "entered" \/ worker \in {"start", "check", "run"} => run[k] = "off"

\* The locals of pump are fresh up to the first item.
FreshInv ==
  /\ worker \in {"off", "start", "check", "run"} =>
       acc = <<>> /\ half = <<>> /\ streamed = <<>> /\ think = Unread
  /\ worker # "done" => done = <<>>

OneTag(text) == \A i, j \in Tags(text) : i = j

\* Half a character has no text of its own.
HalfInv ==
  /\ half = <<>>
  /\ \A i \in 1..Len(queue) : queue[i].state = "half" => queue[i].text = <<>>

\* The part of a text that is streamed, with one end tag at most.
Shown(text) == IF Tags(text) = {} THEN text ELSE AfterTag(text)

\* What was streamed, as a function of the text so far.
StreamInv ==
  /\ worker = "pump" =>
       IF think.over
       THEN Tags(acc) # {} /\ (OneTag(acc) => streamed = AfterTag(acc))
       ELSE think.buf = acc /\ Tags(acc) = {} /\ streamed = <<>>
  /\ worker = "ended" /\ OneTag(acc) => streamed = Shown(acc)
  /\ worker = "done" /\ done # <<>> /\ OneTag(acc) =>
       streamed = Shown(acc) /\ done = StripThink(acc)

\* The texts of the items of generation gen continue what was read, piece after piece,
\* up to the text the run has emitted: item i holds the pieces behind cut[i - 1], up to
\* cut[i].  The end comes last, from a run in state "ended".
Continues(cut, read, text, items, gen, state) ==
  /\ cut[0] = Len(read) /\ cut[Len(items)] = Len(text)
  /\ read = SubSeq(text, 1, cut[0])
  /\ \A i \in 1..Len(items) :
       /\ cut[i - 1] <= cut[i]
       /\ IF items[i].gen = gen
          THEN /\ items[i].text = SubSeq(text, cut[i - 1] + 1, cut[i])
               /\ items[i].state = "finish" =>
                    state = "ended" /\ i = Len(items) /\ cut[i - 1] = cut[i]
          ELSE cut[i - 1] = cut[i]

Continued(read, text, items, gen, state) ==
  \E cut \in [0..Len(items) -> Nat] : Continues(cut, read, text, items, gen, state)

\* Alone in the vendor, all that carries the present generation is of the run of the
\* inference.
AloneInv ==
  DOMAIN survivors = {} =>
    /\ worker \in {"check", "run", "pump", "ended"} =>
         \A r \in Infers : run[r] = "live" => r = k
    /\ worker \in {"check", "run"} =>
         \A i \in 1..Len(queue) : queue[i].gen # myGen
    /\ worker = "pump" => Continued(acc \o half, sent[k], queue, myGen, run[k])
    /\ worker = "ended" => acc = sent[k] /\ run[k] = "ended"

FreshText(text) == \A i \in DOMAIN text : Fresh(text[i])

\* What carries the present generation was emitted since it began: by the run of the
\* inference, or by a survivor, whose pieces are counted on from there.
SurvivorInv ==
  /\ FreshText(acc)
  /\ worker \in {"check", "run", "pump"} =>
       /\ \A i \in 1..Len(queue) : queue[i].gen = myGen => FreshText(queue[i].text)
       /\ \A r \in Infers : run[r] = "live" /\ r # k =>
            r \in DOMAIN survivors /\ survivors[r] <= Len(sent[r])

Inv ==
  /\ TypeOK /\ InferInv /\ GenerationInv /\ RunInv /\ FreshInv /\ HalfInv /\ StreamInv
  /\ AloneInv /\ SurvivorInv

-----------------------------------------------------------------------------
(* Lemmas about text *)

Text == Seq(PieceType)

\* A token is some text of its run.
LEMMA PiecesType ==
  ASSUME NEW r \in Infers, NEW n \in 1..MaxTokens, NEW kind \in Tokens
  PROVE  Pieces(r, n, kind) \in Text
<1>1. Tokens \subseteq {"word", "space", "tag", "tagged", "half"} BY RkllmNodeAssumption
<1>2. \A c \in {"word", "space", "tag"} : [run |-> r, n |-> n, kind |-> c] \in PieceType
  BY DEF PieceType
<1>3. CASE kind = "tagged"
  <2>1. [run |-> r, n |-> n, kind |-> "tag"] \in PieceType BY <1>2
  <2>2. [run |-> r, n |-> n, kind |-> "space"] \in PieceType BY <1>2
  <2>3. [run |-> r, n |-> n, kind |-> "word"] \in PieceType BY <1>2
  <2> QED BY <1>3, <2>1, <2>2, <2>3 DEF Pieces, Text
<1>4. CASE kind \in {"word", "space", "tag"}
  <2>1. [run |-> r, n |-> n, kind |-> kind] \in PieceType BY <1>2, <1>4
  <2> QED BY <1>4, <2>1 DEF Pieces, Text
<1>5. CASE kind = "half" BY <1>5 DEF Pieces, Text
<1> QED BY <1>1, <1>3, <1>4, <1>5

\* A set of numbers has a least one.
LEMMA LeastNatural ==
  ASSUME NEW T, T \subseteq Nat, T # {}
  PROVE  \E n \in T : \A m \in T : n <= m
<1>1. PICK n \in T : \A m \in T : ~(<<m, n>> \in OpToRel(<, Nat))
  BY NatLessThanWellFounded, WFMin
<1>2. \A m \in T : ~(m < n) BY <1>1 DEF OpToRel
<1> QED BY <1>2

\* Of several end tags, one is the last.
LEMMA LastTag ==
  ASSUME NEW text \in Text, Tags(text) # {}
  PROVE  \E i \in Tags(text) : \A j \in Tags(text) : j <= i
<1> DEFINE N == Len(text)
           T == {n \in 0..N : \E j \in Tags(text) : n = N - j}
<1>1. N \in Nat /\ DOMAIN text = 1..N BY LenProperties DEF Text
<1>2. \A j \in Tags(text) : j \in 1..N BY <1>1 DEF Tags
<1>3. PICK j0 \in Tags(text) : TRUE OBVIOUS
<1>4. N - j0 \in T BY <1>1, <1>2
<1>5. T \subseteq Nat BY <1>1
<1>6. PICK n \in T : \A m \in T : n <= m BY <1>4, <1>5, LeastNatural
<1>7. PICK i \in Tags(text) : n = N - i BY <1>6
<1>8. \A j \in Tags(text) : j <= i
  <2> TAKE j \in Tags(text)
  <2>1. j \in 1..N /\ i \in 1..N BY <1>2
  <2>2. N - j \in 0..N
    <3>1. N \in Nat BY <1>1
    <3> HIDE DEF N
    <3> QED BY <2>1, <3>1
  <2>3. N - j \in T BY <2>2
  <2>4. n <= N - j BY <1>6, <2>3
  <2> HIDE DEF T, N
  <2> QED BY <1>1, <1>7, <2>1, <2>4
<1> QED BY <1>7, <1>8

\* What is left of a text without the white space it begins with is text.
LEMMA TrimType ==
  ASSUME NEW text \in Text
  PROVE  Trim(text) \in Text
<1> DEFINE Solid == {i \in DOMAIN text : text[i].kind # "space"}
           first == CHOOSE i \in Solid : \A j \in Solid : i <= j
<1>1. Len(text) \in Nat /\ DOMAIN text = 1..Len(text) BY LenProperties DEF Text
<1>2. CASE Solid = {} BY <1>2 DEF Trim, Text
<1>3. CASE Solid # {}
  <2>1. Solid \subseteq Nat BY <1>1
  <2>2. first \in Solid BY <1>3, <2>1, LeastNatural
  <2>3. first \in 1..Len(text) BY <1>1, <2>2
  <2>4. Trim(text) = SubSeq(text, first, Len(text)) BY <1>3 DEF Trim
  <2> HIDE DEF first
  <2>5. \A i \in first..Len(text) : text[i] \in PieceType
    BY <1>1, <2>3, ElementOfSeq DEF Text
  <2>6. SubSeq(text, first, Len(text)) \in Text
    BY <1>1, <2>3, <2>5, SubSeqProperties DEF Text
  <2> QED BY <2>4, <2>6
<1> QED BY <1>2, <1>3

\* What follows the end tag is text, and so is an answer without its thinking part.
LEMMA AfterTagType ==
  ASSUME NEW text \in Text
  PROVE  /\ Tags(text) # {} => AfterTag(text) \in Text
         /\ StripThink(text) \in Text
<1>1. ASSUME Tags(text) # {} PROVE AfterTag(text) \in Text
  <2> DEFINE last == CHOOSE i \in Tags(text) : \A j \in Tags(text) : j <= i
  <2>1. last \in Tags(text) BY <1>1, LastTag
  <2>2. Len(text) \in Nat /\ DOMAIN text = 1..Len(text) BY LenProperties DEF Text
  <2>3. last \in 1..Len(text) BY <2>1, <2>2 DEF Tags
  <2>4. \A i \in (last + 1)..Len(text) : text[i] \in PieceType
    BY <2>2, <2>3, ElementOfSeq DEF Text
  <2> HIDE DEF last
  <2>5. SubSeq(text, last + 1, Len(text)) \in Text
    BY <2>2, <2>3, <2>4, SubSeqProperties DEF Text
  <2> QED BY <2>5 DEF AfterTag, last
<1> QED BY <1>1, TrimType DEF StripThink

\* The tags of a text that is continued.
LEMMA TagsOfConcat ==
  ASSUME NEW s \in Text, NEW t \in Text
  PROVE  /\ \A i \in Tags(s) : i \in Tags(s \o t)
         /\ \A i \in Tags(t) : Len(s) + i \in Tags(s \o t)
         /\ \A i \in Tags(s \o t) : i \in Tags(s) \/ (i - Len(s)) \in Tags(t)
         /\ \A i \in Tags(s) : i \in 1..Len(s)
         /\ \A i \in Tags(t) : i \in 1..Len(t)
<1>1. /\ Len(s) \in Nat /\ DOMAIN s = 1..Len(s)
      /\ Len(t) \in Nat /\ DOMAIN t = 1..Len(t)
  BY LenProperties DEF Text
<1>2. /\ s \o t \in Seq(PieceType) /\ Len(s \o t) = Len(s) + Len(t)
      /\ \A i \in 1..(Len(s) + Len(t)) :
           (s \o t)[i] = IF i <= Len(s) THEN s[i] ELSE t[i - Len(s)]
  BY ConcatProperties DEF Text
<1>3. DOMAIN (s \o t) = 1..(Len(s) + Len(t)) BY <1>2, LenProperties
<1>4. ASSUME NEW i \in Tags(s) PROVE i \in Tags(s \o t)
  <2>1. i \in 1..Len(s) /\ s[i].kind = "tag" BY <1>1 DEF Tags
  <2>2. i \in 1..(Len(s) + Len(t)) /\ i <= Len(s) BY <1>1, <2>1
  <2>3. (s \o t)[i] = s[i] BY <1>2, <2>2
  <2> QED BY <1>3, <2>1, <2>2, <2>3 DEF Tags
<1>5. ASSUME NEW i \in Tags(t) PROVE Len(s) + i \in Tags(s \o t)
  <2>1. i \in 1..Len(t) /\ t[i].kind = "tag" BY <1>1 DEF Tags
  <2>2. /\ Len(s) + i \in 1..(Len(s) + Len(t)) /\ ~(Len(s) + i <= Len(s))
        /\ (Len(s) + i) - Len(s) = i
    BY <1>1, <2>1
  <2>3. (s \o t)[Len(s) + i] = t[i] BY <1>2, <2>2
  <2> QED BY <1>3, <2>1, <2>2, <2>3 DEF Tags
<1>6. ASSUME NEW i \in Tags(s \o t) PROVE i \in Tags(s) \/ (i - Len(s)) \in Tags(t)
  <2>1. i \in 1..(Len(s) + Len(t)) /\ (s \o t)[i].kind = "tag" BY <1>3 DEF Tags
  <2>2. CASE i <= Len(s)
    <3>1. i \in 1..Len(s) /\ (s \o t)[i] = s[i] BY <1>1, <1>2, <2>1, <2>2
    <3> QED BY <1>1, <2>1, <3>1 DEF Tags
  <2>3. CASE ~(i <= Len(s))
    <3>1. i - Len(s) \in 1..Len(t) /\ (s \o t)[i] = t[i - Len(s)] BY <1>1, <1>2, <2>1, <2>3
    <3> QED BY <1>1, <2>1, <3>1 DEF Tags
  <2> QED BY <2>2, <2>3
<1> QED BY <1>1, <1>4, <1>5, <1>6 DEF Tags

\* Behind the one end tag of a text, the rest of it is what follows the tag.
LEMMA AfterOneTag ==
  ASSUME NEW s \in Text, NEW t \in Text, Tags(s) # {}, OneTag(s \o t)
  PROVE  OneTag(s) /\ AfterTag(s \o t) = AfterTag(s) \o t
<1>1. PICK m \in Tags(s) : TRUE OBVIOUS
<1>2. Len(s) \in Nat /\ Len(t) \in Nat BY LenProperties DEF Text
<1>3. m \in Tags(s \o t) /\ m \in 1..Len(s) BY TagsOfConcat, <1>1
<1>4. Tags(s \o t) = {m} BY <1>3 DEF OneTag
<1>5. Tags(s) = {m} BY <1>1, <1>4, TagsOfConcat
<1>6. (CHOOSE i \in {m} : \A j \in {m} : j <= i) = m BY <1>2, <1>3
<1>7. AfterTag(s \o t) = SubSeq(s \o t, m + 1, Len(s \o t)) BY <1>4, <1>6 DEF AfterTag
<1>8. AfterTag(s) = SubSeq(s, m + 1, Len(s)) BY <1>5, <1>6 DEF AfterTag
<1>9. SubSeq(s \o t, m + 1, Len(s \o t)) = SubSeq(s, m + 1, Len(s)) \o t
  <2> DEFINE g == s \o t
             a == SubSeq(g, m + 1, Len(g))
             b == SubSeq(s, m + 1, Len(s))
  <2>1. /\ g \in Seq(PieceType) /\ Len(g) = Len(s) + Len(t)
        /\ \A i \in 1..(Len(s) + Len(t)) : g[i] = IF i <= Len(s) THEN s[i] ELSE t[i - Len(s)]
    BY ConcatProperties DEF Text
  <2> HIDE DEF g
  <2>2. \A i \in (m + 1)..Len(g) : g[i] \in PieceType BY <1>2, <1>3, <2>1, ElementOfSeq
  <2>3. \A i \in (m + 1)..Len(s) : s[i] \in PieceType BY <1>2, <1>3, ElementOfSeq DEF Text
  <2>4. /\ a \in Seq(PieceType) /\ Len(a) = Len(s) + Len(t) - m
        /\ \A i \in 1..(Len(s) + Len(t) - m) : a[i] = g[m + i]
    <3>1. m + 1 \in Int /\ Len(g) \in Int BY <1>2, <1>3, <2>1
    <3>2. /\ a \in Seq(PieceType)
          /\ Len(a) = IF m + 1 <= Len(g) THEN Len(g) - (m + 1) + 1 ELSE 0
          /\ \A i \in 1..(Len(g) - (m + 1) + 1) : a[i] = g[(m + 1) + i - 1]
      BY <2>2, <3>1, SubSeqProperties
    <3> QED BY <1>2, <1>3, <2>1, <3>2
  <2>5. /\ b \in Seq(PieceType) /\ Len(b) = Len(s) - m
        /\ \A i \in 1..(Len(s) - m) : b[i] = s[m + i]
    <3>1. m + 1 \in Int /\ Len(s) \in Int BY <1>2, <1>3
    <3>2. /\ b \in Seq(PieceType)
          /\ Len(b) = IF m + 1 <= Len(s) THEN Len(s) - (m + 1) + 1 ELSE 0
          /\ \A i \in 1..(Len(s) - (m + 1) + 1) : b[i] = s[(m + 1) + i - 1]
      BY <2>3, <3>1, SubSeqProperties
    <3> QED BY <1>2, <1>3, <3>2
  <2> HIDE DEF a, b
  <2>6. /\ b \o t \in Seq(PieceType) /\ Len(b \o t) = Len(b) + Len(t)
        /\ \A i \in 1..(Len(b) + Len(t)) : (b \o t)[i] = IF i <= Len(b) THEN b[i] ELSE t[i - Len(b)]
    BY <2>5, ConcatProperties DEF Text
  <2>7. ASSUME NEW i \in 1..Len(a) PROVE a[i] = (b \o t)[i]
    BY SMTT(20), ZenonT(30), <1>2, <1>3, <2>1, <2>4, <2>5, <2>6
  <2>8. Len(a) = Len(b \o t) BY <1>2, <1>3, <2>4, <2>5, <2>6
  <2>9. a = b \o t BY <2>4, <2>6, <2>7, <2>8, SeqEqual
  <2> QED BY <2>9 DEF a, b, g
<1>10. OneTag(s) BY <1>5 DEF OneTag
<1> QED BY <1>7, <1>8, <1>9, <1>10

-----------------------------------------------------------------------------
(* The invariant holds at first and its type is kept *)

LEMMA InitInv == Init => Inv
<1> SUFFICES ASSUME Init PROVE Inv OBVIOUS
<1>1. <<>> \in Text /\ Len(<<>>) = 0 BY EmptySeq DEF Text
<1>2. Tags(<<>>) = {} BY DEF Tags
<1>3. 1..0 = {} OBVIOUS
<1>4. TypeOK
  <2>1. <<>> \in Seq([gen : 0..MaxInfers, text : Seq(PieceType),
                     state : Tokens \cup {"finish"}])
    OBVIOUS
  <2>2. /\ run \in [Infers -> {"off", "live", "ended"}]
        /\ sent \in [Infers -> Seq(PieceType)]
    BY <1>1 DEF Init, Text
  <2>3. 0 \in 0..MaxInfers BY RkllmNodeAssumption
  <2>4. think.buf = <<>> /\ think.over = FALSE BY DEF Init, Unread
  <2>5. DOMAIN survivors \subseteq Infers /\ survivors \in [DOMAIN survivors -> Nat]
    <3>1. survivors = [r \in {} |-> 0] BY DEF Init
    <3>2. DOMAIN survivors = {} BY <3>1
    <3>3. [r \in {} |-> 0] \in [{} -> Nat] OBVIOUS
    <3> QED BY <3>1, <3>2, <3>3
  <2> QED BY <1>1, <2>1, <2>2, <2>3, <2>4, <2>5 DEF Init, TypeOK, Text
<1>5. InferInv /\ GenerationInv /\ RunInv /\ FreshInv
  BY <1>1, <1>3 DEF Init, InferInv, GenerationInv, RunInv, FreshInv, Infers
<1>6. StreamInv BY <1>2 DEF Init, StreamInv
<1>7. AloneInv BY DEF Init, AloneInv
<1>8. HalfInv BY <1>1, <1>3 DEF Init, HalfInv
<1>9. SurvivorInv
  <2>1. DOMAIN acc = {} BY DEF Init
  <2> QED BY <2>1 DEF Init, SurvivorInv, FreshText
<1> QED BY <1>4, <1>5, <1>6, <1>7, <1>8, <1>9 DEF Inv

ItemType == [gen : 0..MaxInfers, text : Text, state : Tokens \cup {"finish"}]

\* The queue holds items, whatever a thread does to it.
LEMMA QueueType ==
  ASSUME TypeOK
  PROVE  /\ queue \in Seq(ItemType)
         /\ \A state \in Tokens \cup {"finish"}, text \in Text :
              Enqueue(state, text) => queue' \in Seq(ItemType)
         /\ queue # <<>> => Head(queue) \in ItemType /\ Tail(queue) \in Seq(ItemType)
<1>1. queue \in Seq(ItemType) /\ generation \in 0..MaxInfers BY DEF TypeOK, ItemType, Text
<1>2. ASSUME NEW state \in Tokens \cup {"finish"}, NEW text \in Text, Enqueue(state, text)
      PROVE  queue' \in Seq(ItemType)
  <2> DEFINE it == [gen |-> generation, state |-> state, text |-> text]
  <2>1. it \in ItemType BY <1>1 DEF ItemType
  <2> HIDE DEF it
  <2>2. Append(queue, it) \in Seq(ItemType) BY <1>1, <2>1, AppendProperties
  <2> QED BY <1>2, <2>2 DEF Enqueue, it
<1>3. queue # <<>> => Head(queue) \in ItemType /\ Tail(queue) \in Seq(ItemType)
  BY <1>1, HeadTailProperties
<1> QED BY <1>1, <1>2, <1>3

\* Every text of the pump is text.
LEMMA TakeType ==
  ASSUME TypeOK, NEW it \in ItemType, Wait(it) \/ Take(it) \/ End(it) \/ Skip
  PROVE  /\ acc' \in Text /\ half' \in Text /\ streamed' \in Text
         /\ think'.buf \in Text /\ think'.over \in BOOLEAN
         /\ worker' \in {worker, "ended"}
<1>1. /\ acc \in Text /\ half \in Text /\ streamed \in Text
      /\ think.buf \in Text /\ think.over \in BOOLEAN /\ it.text \in Text
  BY DEF TypeOK, Text, ItemType
<1>2. CASE Skip BY <1>1, <1>2 DEF Skip
<1>3. CASE Wait(it)
  <2>1. half \o it.text \in Text BY <1>1, ConcatProperties DEF Text
  <2> QED BY <1>1, <1>3, <2>1 DEF Wait
<1>4. CASE Take(it)
  <2> DEFINE text == half \o it.text
             buf == think.buf \o text
  <2>1. text \in Text BY <1>1, ConcatProperties DEF Text
  <2>2. buf \in Text BY <1>1, <2>1, ConcatProperties DEF Text
  <2>3. acc' \in Text
    <3>1. acc' = acc \o text BY <1>4 DEF Take
    <3> HIDE DEF text
    <3> QED BY <1>1, <2>1, <3>1, ConcatProperties DEF Text
  <2>4. Filtered(text) \in Text
    <3>1. <<>> \in Text BY DEF Text
    <3> QED BY <1>1, <2>1, <2>2, <3>1, AfterTagType DEF Filtered
  <2>5. streamed' \in Text
    <3>1. streamed' = streamed \o Filtered(text) BY <1>4 DEF Take
    <3> QED BY <1>1, <2>4, <3>1, ConcatProperties DEF Text
  <2>6. think'.buf \in Text /\ think'.over \in BOOLEAN
    <3>1. think' = IF think.over THEN think ELSE [buf |-> buf, over |-> Tags(buf) # {}]
      BY <1>4 DEF Take
    <3> HIDE DEF buf
    <3> QED BY <1>1, <2>2, <3>1
  <2>7. half' \in Text /\ worker' = worker BY <1>4 DEF Take, Text
  <2> QED BY <2>3, <2>5, <2>6, <2>7
<1>5. CASE End(it)
  <2>1. acc \o half \in Text /\ streamed \o think.buf \in Text
    BY <1>1, ConcatProperties DEF Text
  <2> QED BY <1>1, <1>5, <2>1 DEF End
<1> QED BY <1>2, <1>3, <1>4, <1>5

\* Every step keeps the types.
LEMMA TypeStep ==
  ASSUME Inv, [Next]_vars
  PROVE  TypeOK'
<1>1. TypeOK /\ queue \in Seq(ItemType) BY QueueType DEF Inv
<1>2. /\ main \in {"idle", "entered", "polling", "cancelling", "joining"}
      /\ k \in 0..MaxInfers /\ stop \in BOOLEAN
      /\ answer \in {"none", "ok", "cancelled", "timeout"}
      /\ worker \in {"off", "start", "check", "run", "pump", "ended", "done"}
      /\ cancelled \in BOOLEAN /\ running \in BOOLEAN /\ generation \in 0..MaxInfers
      /\ myGen \in 0..MaxInfers /\ acc \in Text /\ half \in Text
      /\ think.buf \in Text /\ think.over \in BOOLEAN
      /\ streamed \in Text /\ done \in Text
      /\ run \in [Infers -> {"off", "live", "ended"}]
      /\ sent \in [Infers -> Text]
      /\ DOMAIN survivors \subseteq Infers /\ survivors \in [DOMAIN survivors -> Nat]
  BY <1>1 DEF TypeOK, Text
<1>3. <<>> \in Text /\ <<>> \in Seq(ItemType) BY DEF Text
<1> DEFINE T == /\ main' \in {"idle", "entered", "polling", "cancelling", "joining"}
                /\ k' \in 0..MaxInfers /\ stop' \in BOOLEAN
                /\ answer' \in {"none", "ok", "cancelled", "timeout"}
                /\ worker' \in {"off", "start", "check", "run", "pump", "ended", "done"}
                /\ cancelled' \in BOOLEAN /\ running' \in BOOLEAN
                /\ generation' \in 0..MaxInfers /\ queue' \in Seq(ItemType)
                /\ myGen' \in 0..MaxInfers /\ acc' \in Text /\ half' \in Text
                /\ think'.buf \in Text /\ think'.over \in BOOLEAN
                /\ streamed' \in Text /\ done' \in Text
                /\ run' \in [Infers -> {"off", "live", "ended"}]
                /\ sent' \in [Infers -> Text]
                /\ DOMAIN survivors' \subseteq Infers
                /\ survivors' \in [DOMAIN survivors' -> Nat]
<1> USE DEF impl, pump, vendor
<1>4. CASE UNCHANGED vars
  <2>1. T BY <1>1, <1>2, <1>4 DEF vars
  <2> QED BY <2>1 DEF TypeOK, Text, ItemType
<1>5. CASE Infer
  <2>1. k' \in 0..MaxInfers BY <1>2, <1>5, RkllmNodeAssumption DEF Infer
  <2>2. T BY <1>1, <1>2, <1>5, <2>1 DEF Infer
  <2> QED BY <2>2 DEF TypeOK, Text, ItemType
<1>13. CASE Ask \/ ReturnAtOnce \/ Begin \/ SeeDone
  <2>1. T BY SMTT(20), ZenonT(30), <1>1, <1>2, <1>3, <1>13 DEF Ask, ReturnAtOnce, Begin, SeeDone
  <2> QED BY <2>1 DEF TypeOK, Text, ItemType
<1>6. CASE SeeStop("timeout") \/ SeeStop("cancelled") \/ Abort
  <2>1. T BY SMTT(20), ZenonT(30), <1>1, <1>2, <1>3, <1>6 DEF SeeStop, Abort
  <2> QED BY <2>1 DEF TypeOK, Text, ItemType
<1>7. CASE Join
  <2>1. T BY <1>1, <1>2, <1>3, <1>7 DEF Join, Return, Unread
  <2> QED BY <2>1 DEF TypeOK, Text, ItemType
<1>8. CASE Start
  <2>1. generation < k BY <1>8 DEF Start, Inv, GenerationInv
  <2>2. generation' \in 0..MaxInfers /\ myGen' = generation'
    BY <1>2, <1>8, <2>1, RkllmNodeAssumption DEF Start
  <2>3. DOMAIN survivors' \subseteq Infers /\ survivors' \in [DOMAIN survivors' -> Nat]
    <3>1. \A r \in Infers : Len(sent[r]) \in Nat BY <1>2, LenProperties DEF Text
    <3>2. survivors' = [r \in {p \in Infers : run[p] = "live"} |-> Len(sent[r])]
      BY <1>8 DEF Start
    <3> QED BY <3>1, <3>2
  <2>4. T BY <1>1, <1>2, <1>8, <2>2, <2>3 DEF Start
  <2> QED BY <2>4 DEF TypeOK, Text, ItemType
<1>9. CASE Check \/ RunAsync \/ StopPumping
  <2>1. T BY <1>1, <1>2, <1>9 DEF Check, RunAsync, StopPumping
  <2> QED BY <2>1 DEF TypeOK, Text, ItemType
<1>10. CASE PumpItem
  <2>1. Head(queue) \in ItemType /\ Tail(queue) \in Seq(ItemType)
    BY <1>1, <1>10, QueueType DEF PumpItem
  <2>2. Skip \/ Wait(Head(queue)) \/ Take(Head(queue)) \/ End(Head(queue))
    BY <1>10 DEF PumpItem
  <2>3. /\ acc' \in Text /\ half' \in Text /\ streamed' \in Text
        /\ think'.buf \in Text /\ think'.over \in BOOLEAN
        /\ worker' \in {worker, "ended"}
    BY <1>1, <2>1, <2>2, TakeType
  <2>4. T BY <1>2, <1>10, <2>1, <2>3 DEF PumpItem
  <2> QED BY <2>4 DEF TypeOK, Text, ItemType
<1>11. CASE Finish
  <2>1. StripThink(acc) \in Text BY <1>2, AfterTagType
  <2>2. T BY <1>1, <1>2, <1>11, <2>1 DEF Finish
  <2> QED BY <2>2 DEF TypeOK, Text, ItemType
<1>12. ASSUME NEW r \in Infers, Vendor(r) PROVE TypeOK'
  <2>1. CASE VendorEnd(r)
    <3>1. queue' \in Seq(ItemType) BY <1>1, <1>3, <2>1, QueueType DEF VendorEnd
    <3>2. T BY <1>2, <2>1, <3>1 DEF VendorEnd
    <3> QED BY <3>2 DEF TypeOK, Text, ItemType
  <2>2. ASSUME NEW kind \in Tokens, VendorToken(r, kind) PROVE TypeOK'
    <3> DEFINE text == Pieces(r, Len(sent[r]) + 1, kind)
    <3>1. sent[r] \in Text /\ Len(sent[r]) \in Nat BY <1>2, LenProperties DEF Text
    <3>2. Len(sent[r]) + 1 \in 1..MaxTokens
      BY <2>2, <3>1, RkllmNodeAssumption DEF VendorToken
    <3>3. text \in Text BY <3>2, PiecesType
    <3>4. sent[r] \o text \in Text BY <3>1, <3>3, ConcatProperties DEF Text
    <3>5. sent' = [sent EXCEPT ![r] = @ \o text] /\ Enqueue(kind, text)
      BY <2>2 DEF VendorToken
    <3> HIDE DEF text
    <3>6. queue' \in Seq(ItemType) BY <1>1, <3>3, <3>5, QueueType
    <3>7. sent' \in [Infers -> Text] BY <1>2, <3>4, <3>5
    <3>8. T BY <1>2, <2>2, <3>6, <3>7 DEF VendorToken
    <3> QED BY <3>8 DEF TypeOK, Text, ItemType
  <2> QED BY <1>12, <2>1, <2>2 DEF Vendor
<1> QED
  BY <1>4, <1>5, <1>6, <1>7, <1>8, <1>9, <1>10, <1>11, <1>12,
     <1>13
  DEF Next, Node, Worker

-----------------------------------------------------------------------------
(* The control of the two threads *)

\* What an item does to the place of the worker: it goes on, or the end ends it.
LEMMA PumpItemMoves ==
  ASSUME PumpItem
  PROVE  worker = "pump" /\ worker' \in {"pump", "ended"}
BY DEF PumpItem, Skip, Wait, Take, End

\* Infer waits for its worker, whatever step is taken.
LEMMA InferStep ==
  ASSUME Inv, [Next]_vars
  PROVE  InferInv'
<1>1. InferInv /\ k \in 0..MaxInfers
      /\ worker \in {"off", "start", "check", "run", "pump", "ended", "done"}
      /\ main \in {"idle", "entered", "polling", "cancelling", "joining"}
  BY DEF Inv, TypeOK
<1> USE DEF InferInv, impl, pump, vendor
<1>2. CASE UNCHANGED vars BY <1>1, <1>2 DEF vars
<1>3. CASE Infer
  <2>1. k' \in Infers BY <1>1, <1>3, RkllmNodeAssumption DEF Infer, Infers
  <2>2. worker = "off" /\ main' = "entered" /\ UNCHANGED <<worker, running>>
    BY <1>1, <1>3 DEF Infer
  <2>3. ~running BY <1>1, <2>2
  <2>4. (worker \in {"run", "pump", "ended"} <=> running)' BY <2>2, <2>3
  <2> QED BY <2>1, <2>2, <2>4
<1>4. CASE Ask \/ ReturnAtOnce \/ Begin \/ SeeDone
  BY <1>1, <1>4 DEF Ask, ReturnAtOnce, Begin, SeeDone
<1>5. CASE SeeStop("timeout") \/ SeeStop("cancelled") \/ Abort \/ Join
  BY <1>1, <1>5 DEF SeeStop, Abort, Join, Return
<1>6. CASE Start \/ Check \/ RunAsync \/ StopPumping \/ Finish
  BY <1>1, <1>6 DEF Start, Check, RunAsync, StopPumping, Finish
<1>7. CASE PumpItem BY <1>1, <1>7, PumpItemMoves DEF PumpItem
<1>8. ASSUME NEW r \in Infers, Vendor(r) PROVE InferInv'
  <2>1. UNCHANGED <<main, k, worker, running>> BY <1>8 DEF Vendor, VendorEnd, VendorToken
  <2> QED BY <1>1, <2>1
<1> QED BY <1>2, <1>3, <1>4, <1>5, <1>6, <1>7, <1>8 DEF Next, Node, Worker

\* An item taken or put leaves the labels of the queue within the generation.
LEMMA Labels ==
  ASSUME Inv
  PROVE  /\ queue # <<>> =>
              /\ Len(Tail(queue)) \in Nat
              /\ \A i \in 1..Len(Tail(queue)) : Tail(queue)[i].gen <= generation
         /\ \A state \in Tokens \cup {"finish"}, text \in Text :
              Enqueue(state, text) =>
                /\ Len(queue') \in Nat
                /\ \A i \in 1..Len(queue') : queue'[i].gen <= generation
<1>1. /\ queue \in Seq(ItemType) /\ Len(queue) \in Nat /\ generation \in Nat
      /\ \A i \in 1..Len(queue) : queue[i].gen <= generation
  BY QueueType, LenProperties DEF Inv, TypeOK, GenerationInv
<1>2. ASSUME queue # <<>>
      PROVE  /\ Len(Tail(queue)) \in Nat
             /\ \A i \in 1..Len(Tail(queue)) : Tail(queue)[i].gen <= generation
  <2>1. /\ Tail(queue) \in Seq(ItemType) /\ Len(Tail(queue)) = Len(queue) - 1
        /\ \A i \in 1..Len(Tail(queue)) : Tail(queue)[i] = queue[i + 1]
    BY <1>1, <1>2, HeadTailProperties
  <2>2. \A i \in 1..Len(Tail(queue)) : i + 1 \in 1..Len(queue) BY <1>1, <2>1
  <2>3. Len(Tail(queue)) \in Nat BY <2>1, LenProperties
  <2> QED BY <1>1, <2>1, <2>2, <2>3
<1>3. ASSUME NEW state \in Tokens \cup {"finish"}, NEW text \in Text, Enqueue(state, text)
      PROVE  /\ Len(queue') \in Nat
             /\ \A i \in 1..Len(queue') : queue'[i].gen <= generation
  <2> DEFINE it == [gen |-> generation, state |-> state, text |-> text]
  <2>1. it \in ItemType /\ it.gen = generation
    BY DEF ItemType, Inv, TypeOK
  <2>2. queue' = Append(queue, it) BY <1>3 DEF Enqueue
  <2> HIDE DEF it
  <2>3. /\ Len(queue') = Len(queue) + 1
        /\ \A i \in 1..Len(queue) : queue'[i] = queue[i]
        /\ queue'[Len(queue) + 1] = it
    BY <1>1, <2>1, <2>2, AppendProperties
  <2>4. ASSUME NEW i \in 1..Len(queue') PROVE queue'[i].gen <= generation
    <3>1. i \in 1..Len(queue) \/ i = Len(queue) + 1 BY <1>1, <2>3
    <3> QED BY <1>1, <2>1, <2>3, <3>1
  <2> QED BY <1>1, <2>3, <2>4
<1> QED BY <1>2, <1>3

LEMMA GenerationStep ==
  ASSUME Inv, [Next]_vars
  PROVE  GenerationInv'
<1>1. /\ InferInv /\ GenerationInv /\ k \in Nat /\ generation \in Nat /\ myGen \in Nat
      /\ worker \in {"off", "start", "check", "run", "pump", "ended", "done"}
      /\ main \in {"idle", "entered", "polling", "cancelling", "joining"}
      /\ \A i \in 1..Len(queue) : queue[i].gen \in Nat
  <2>1. queue \in Seq(ItemType) BY QueueType DEF Inv
  <2>2. \A i \in 1..Len(queue) : queue[i] \in ItemType BY <2>1, ElementOfSeq
  <2>3. \A i \in 1..Len(queue) : queue[i].gen \in Nat BY <2>2 DEF ItemType
  <2>4. k \in Nat /\ generation \in Nat /\ myGen \in Nat
    BY RkllmNodeAssumption DEF Inv, TypeOK
  <2> QED BY <2>3, <2>4 DEF Inv, TypeOK
<1> USE DEF GenerationInv, impl, pump, vendor
<1>2. CASE UNCHANGED vars BY <1>1, <1>2 DEF vars
<1>3. CASE Infer BY <1>1, <1>3 DEF Infer, InferInv
<1>4. CASE Ask \/ ReturnAtOnce \/ SeeDone
  BY <1>1, <1>4 DEF Ask, ReturnAtOnce, SeeDone
<1>5. CASE Begin
  <2>1. 1..Len(queue') = {} BY <1>5 DEF Begin
  <2> QED BY <1>1, <1>5, <2>1 DEF Begin
<1>6. CASE SeeStop("timeout") \/ SeeStop("cancelled") \/ Abort \/ Join
  BY <1>1, <1>6 DEF SeeStop, Abort, Join, Return
<1>7. CASE Start BY <1>1, <1>7 DEF Start, InferInv
<1>8. CASE Check \/ RunAsync \/ StopPumping \/ Finish
  BY <1>1, <1>8 DEF Check, RunAsync, StopPumping, Finish
<1>9. CASE PumpItem
  <2>1. \A i \in 1..Len(queue') : queue'[i].gen <= generation
    BY <1>9, Labels DEF PumpItem
  <2> QED BY <1>1, <1>9, <2>1, PumpItemMoves DEF PumpItem
<1>10. ASSUME NEW r \in Infers, Vendor(r) PROVE GenerationInv'
  <2>1. PICK state \in Tokens \cup {"finish"}, text \in Text : Enqueue(state, text)
    <3>1. CASE VendorEnd(r)
      <4>1. <<>> \in Text BY DEF Text
      <4> QED BY <3>1, <4>1 DEF VendorEnd
    <3>2. ASSUME NEW kind \in Tokens, VendorToken(r, kind)
          PROVE  \E state \in Tokens \cup {"finish"}, text \in Text : Enqueue(state, text)
      <4>1. sent[r] \in Text BY DEF Inv, TypeOK, Text
      <4>2. Len(sent[r]) \in Nat BY <4>1, LenProperties DEF Text
      <4>3. Len(sent[r]) + 1 \in 1..MaxTokens
        BY <3>2, <4>2, RkllmNodeAssumption DEF VendorToken
      <4>4. Pieces(r, Len(sent[r]) + 1, kind) \in Text BY <4>3, PiecesType
      <4>5. Enqueue(kind, Pieces(r, Len(sent[r]) + 1, kind)) BY <3>2 DEF VendorToken
      <4> QED BY <4>4, <4>5, Zenon
    <3> QED BY <1>10, <3>1, <3>2 DEF Vendor
  <2>2. \A i \in 1..Len(queue') : queue'[i].gen <= generation BY <2>1, Labels
  <2>3. UNCHANGED <<main, k, worker, generation, myGen>>
    BY <1>10 DEF Vendor, VendorEnd, VendorToken
  <2> QED BY <1>1, <2>2, <2>3
<1> QED BY <1>2, <1>3, <1>4, <1>5, <1>6, <1>7, <1>8, <1>9, <1>10 DEF Next, Node, Worker

LEMMA RunStep ==
  ASSUME Inv, [Next]_vars
  PROVE  RunInv'
<1>1. /\ InferInv /\ RunInv /\ k \in Nat /\ Infers \subseteq Nat
      /\ worker \in {"off", "start", "check", "run", "pump", "ended", "done"}
      /\ main \in {"idle", "entered", "polling", "cancelling", "joining"}
      /\ run \in [Infers -> {"off", "live", "ended"}] /\ sent \in [Infers -> Text]
  BY DEF Inv, TypeOK, Infers, Text
<1> USE DEF RunInv, impl, pump, vendor
<1>2. CASE UNCHANGED vars BY <1>1, <1>2 DEF vars
<1>3. CASE Infer
  <2>1. k' \in Infers /\ k' > k BY <1>1, <1>3, RkllmNodeAssumption DEF Infer, Infers
  <2>2. \A r \in Infers : r > k' => r > k BY <1>1, <2>1, RkllmNodeAssumption DEF Infers
  <2> QED BY <1>1, <1>3, <2>1, <2>2 DEF Infer, InferInv
<1>4. CASE Ask \/ ReturnAtOnce \/ Begin \/ SeeDone
  BY <1>1, <1>4 DEF Ask, ReturnAtOnce, Begin, SeeDone, InferInv
<1>5. CASE SeeStop("timeout") \/ SeeStop("cancelled")
  BY <1>1, <1>5 DEF SeeStop
<1>6. CASE Abort
  <2>1. run' = run \/ (running /\ run' = [run EXCEPT ![k] = IF @ = "live" THEN "ended" ELSE @])
    BY <1>6 DEF Abort
  <2>2. k \in Infers BY <1>1, <1>6 DEF Abort, InferInv
  <2>3. \A r \in Infers : run[r] = "off" <=> run'[r] = "off" BY <1>1, <2>1, <2>2
  <2> QED BY <1>1, <1>6, <2>2, <2>3 DEF Abort
<1>7. CASE Join
  <2>1. \A r \in Infers : sent'[r] = IF run[r] = "ended" THEN <<>> ELSE sent[r]
    BY <1>7 DEF Join, Return
  <2> QED BY <1>1, <1>7, <2>1 DEF Join, Return
<1>8. CASE Start \/ Check \/ StopPumping \/ Finish
  BY <1>1, <1>8 DEF Start, Check, StopPumping, Finish, InferInv
<1>9. CASE RunAsync
  <2>1. k \in Infers /\ main # "entered" BY <1>1, <1>9 DEF RunAsync, InferInv
  <2>2. /\ worker' \in {"pump", "done"} /\ UNCHANGED <<main, k, sent>>
        /\ \A r \in Infers : run'[r] = run[r] \/ (r = k /\ run'[r] = "live")
    BY <1>1, <1>9 DEF RunAsync
  <2> QED BY <1>1, <2>1, <2>2
<1>10. CASE PumpItem
  <2>1. worker' \in {"pump", "ended"} /\ main # "entered"
    BY <1>1, <1>10, PumpItemMoves DEF InferInv
  <2> QED BY <1>1, <1>10, <2>1 DEF PumpItem
<1>11. ASSUME NEW r \in Infers, Vendor(r) PROVE RunInv'
  <2>1. run[r] = "live" /\ UNCHANGED <<main, k, worker>>
    BY <1>11 DEF Vendor, VendorEnd, VendorToken
  <2>2. \A p \in Infers : p # r => run'[p] = run[p] /\ sent'[p] = sent[p]
    BY <1>1, <1>11 DEF Vendor, VendorEnd, VendorToken
  <2>3. run'[r] # "off" BY <1>1, <1>11, <2>1 DEF Vendor, VendorEnd, VendorToken
  <2>4. main = "entered" \/ worker \in {"start", "check", "run"} => k \in Infers
    BY <1>1 DEF InferInv
  <2> QED BY <1>1, <2>1, <2>2, <2>3, <2>4
<1> QED
  BY <1>2, <1>3, <1>4, <1>5, <1>6, <1>7, <1>8, <1>9, <1>10, <1>11 DEF Next, Node, Worker

LEMMA FreshStep ==
  ASSUME Inv, [Next]_vars
  PROVE  FreshInv'
<1>1. InferInv /\ FreshInv
      /\ worker \in {"off", "start", "check", "run", "pump", "ended", "done"}
      /\ main \in {"idle", "entered", "polling", "cancelling", "joining"}
  BY DEF Inv, TypeOK
<1> USE DEF FreshInv, impl, pump, vendor
<1>2. CASE UNCHANGED vars BY <1>1, <1>2 DEF vars
<1>3. CASE Infer \/ Ask \/ ReturnAtOnce \/ Begin \/ SeeDone
  BY <1>1, <1>3 DEF Infer, Ask, ReturnAtOnce, Begin, SeeDone, InferInv
<1>4. CASE SeeStop("timeout") \/ SeeStop("cancelled") \/ Abort \/ Join
  BY <1>1, <1>4 DEF SeeStop, Abort, Join, Return
<1>5. CASE Start \/ Check \/ RunAsync \/ StopPumping \/ Finish
  BY <1>1, <1>5 DEF Start, Check, RunAsync, StopPumping, Finish
<1>6. CASE PumpItem BY <1>1, <1>6, PumpItemMoves DEF PumpItem
<1>7. ASSUME NEW r \in Infers, Vendor(r) PROVE FreshInv'
  BY <1>1, <1>7 DEF Vendor, VendorEnd, VendorToken
<1> QED BY <1>2, <1>3, <1>4, <1>5, <1>6, <1>7 DEF Next, Node, Worker

-----------------------------------------------------------------------------
(* What was streamed *)

\* An item of the own generation keeps the stream in step with the text.
LEMMA StreamItem ==
  ASSUME Inv, worker = "pump", NEW it \in ItemType, Wait(it) \/ Take(it) \/ End(it),
         done' = done
  PROVE  StreamInv'
<1>1. /\ acc \in Text /\ half \in Text /\ streamed \in Text
      /\ think.buf \in Text /\ think.over \in BOOLEAN /\ it.text \in Text
      /\ done = <<>>
      /\ IF think.over
         THEN Tags(acc) # {} /\ (OneTag(acc) => streamed = AfterTag(acc))
         ELSE think.buf = acc /\ Tags(acc) = {} /\ streamed = <<>>
  BY DEF Inv, TypeOK, Text, ItemType, StreamInv, FreshInv
<1>2. CASE Wait(it)
  BY <1>1, <1>2 DEF Wait, StreamInv
<1>3. CASE Take(it)
  <2> DEFINE text == half \o it.text
  <2>1. text \in Text BY <1>1, ConcatProperties DEF Text
  <2>2. /\ half' = <<>> /\ acc' = acc \o text /\ worker' = "pump"
        /\ think' = IF think.over THEN think
                    ELSE [buf |-> think.buf \o text, over |-> Tags(think.buf \o text) # {}]
        /\ streamed' = streamed \o Filtered(text)
    BY <1>3 DEF Take
  <2> HIDE DEF text
  <2>3. acc \o text \in Text BY <1>1, <2>1, ConcatProperties DEF Text
  <2>4. CASE think.over
    <3>1. streamed' = streamed \o text /\ think' = think BY <2>2, <2>4 DEF Filtered
    <3>2. Tags(acc') # {} BY <1>1, <2>1, <2>2, <2>4, TagsOfConcat
    <3>3. ASSUME OneTag(acc') PROVE streamed' = AfterTag(acc')
      <4>1. OneTag(acc) /\ AfterTag(acc') = AfterTag(acc) \o text
        <5>1. OneTag(acc \o text) BY <2>2, <3>3
        <5>2. OneTag(acc) /\ AfterTag(acc \o text) = AfterTag(acc) \o text
          BY <1>1, <2>1, <2>4, <5>1, AfterOneTag
        <5> QED BY <2>2, <5>2
      <4> QED BY <1>1, <2>4, <3>1, <4>1
    <3> QED BY <2>2, <2>4, <3>1, <3>2, <3>3 DEF StreamInv
  <2>5. CASE ~think.over
    <3>1. think'.buf = acc' /\ think'.over = (Tags(acc') # {}) BY <1>1, <2>2, <2>5
    <3>2. streamed' = <<>> \o Filtered(text) BY <1>1, <2>2, <2>5
    <3>3. CASE Tags(acc') = {}
      <4>1. Filtered(text) = <<>> BY <1>1, <2>2, <2>5, <3>3 DEF Filtered
      <4>2. streamed' = <<>> BY <3>2, <4>1
      <4> QED BY <2>2, <3>1, <3>3, <4>2 DEF StreamInv
    <3>4. CASE Tags(acc') # {}
      <4>1. Filtered(text) = AfterTag(acc') BY <1>1, <2>2, <2>5, <3>4 DEF Filtered
      <4>2. AfterTag(acc') \in Seq(PieceType) BY <2>2, <2>3, <3>4, AfterTagType DEF Text
      <4>3. streamed' = AfterTag(acc') BY <3>2, <4>1, <4>2, ConcatEmptySeq
      <4> QED BY <2>2, <3>1, <3>4, <4>3 DEF StreamInv
    <3> QED BY <3>3, <3>4
  <2> QED BY <1>1, <2>4, <2>5
<1>4. CASE End(it)
  <2>1. /\ worker' = "ended" /\ acc' = acc \o half /\ half' = half
        /\ streamed' = IF think.over THEN streamed ELSE streamed \o think.buf
    BY <1>4 DEF End
  <2>2. ASSUME OneTag(acc') PROVE streamed' = Shown(acc')
    <3>1. half = <<>> BY DEF Inv, HalfInv
    <3>2. acc' = acc BY <1>1, <2>1, <3>1, ConcatEmptySeq DEF Text
    <3>3. <<>> \o acc = acc BY <1>1, ConcatEmptySeq DEF Text
    <3> QED BY <1>1, <2>1, <2>2, <3>2, <3>3 DEF Shown
  <2> QED BY <2>1, <2>2 DEF StreamInv
<1> QED BY <1>2, <1>3, <1>4

LEMMA StreamStep ==
  ASSUME Inv, [Next]_vars
  PROVE  StreamInv'
<1>1. StreamInv /\ FreshInv BY DEF Inv
<1> USE DEF impl, pump, vendor
<1> DEFINE Kept == UNCHANGED <<acc, half, think, streamed, done, worker>>
<1>2. Kept => StreamInv' BY <1>1 DEF StreamInv
<1>3. CASE UNCHANGED vars
  <2>1. Kept BY <1>3 DEF vars
  <2> QED BY <1>2, <2>1
<1>4. CASE Infer \/ Ask \/ ReturnAtOnce \/ SeeDone
  <2>1. Kept BY <1>4 DEF Infer, Ask, ReturnAtOnce, SeeDone
  <2> QED BY <1>2, <2>1
<1>5. CASE SeeStop("timeout") \/ SeeStop("cancelled") \/ Abort
  <2>1. Kept BY <1>5 DEF SeeStop, Abort
  <2> QED BY <1>2, <2>1
<1>6. CASE Begin \/ Join \/ Start \/ Check
  <2>1. worker' \in {"start", "off", "check", "run", "done"} /\ (worker' = "done" => done' = <<>>)
    BY <1>1, <1>6 DEF Begin, Join, Return, Start, Check, FreshInv
  <2> QED BY <2>1 DEF StreamInv
<1>7. CASE RunAsync \/ StopPumping
  <2>1. /\ worker' \in {"pump", "done"} /\ done' = <<>>
        /\ worker' = "pump" =>
             acc' = <<>> /\ think'.buf = <<>> /\ think'.over = FALSE /\ streamed' = <<>>
    BY <1>1, <1>7 DEF RunAsync, StopPumping, FreshInv, Unread
  <2>2. Tags(<<>>) = {} BY DEF Tags
  <2> QED BY <2>1, <2>2 DEF StreamInv
<1>8. CASE PumpItem
  <2>1. worker = "pump" /\ done' = done /\ queue # <<>> BY <1>8 DEF PumpItem
  <2>2. Head(queue) \in ItemType BY <2>1, QueueType DEF Inv
  <2>3. CASE Skip
    <3>1. Kept BY <2>1, <2>3 DEF Skip
    <3> QED BY <1>2, <3>1
  <2>4. CASE Wait(Head(queue)) \/ Take(Head(queue)) \/ End(Head(queue))
    BY <2>1, <2>2, <2>4, StreamItem
  <2> QED BY <1>8, <2>3, <2>4 DEF PumpItem
<1>9. CASE Finish
  <2>1. /\ worker = "ended" /\ worker' = "done" /\ done' = StripThink(acc)
        /\ UNCHANGED <<acc, half, streamed>>
    BY <1>9 DEF Finish
  <2> QED BY <1>1, <2>1 DEF StreamInv
<1>10. ASSUME NEW r \in Infers, Vendor(r) PROVE StreamInv'
  <2>1. Kept BY <1>10 DEF Vendor, VendorEnd, VendorToken
  <2> QED BY <1>2, <2>1
<1> QED BY <1>3, <1>4, <1>5, <1>6, <1>7, <1>8, <1>9, <1>10 DEF Next, Node, Worker

-----------------------------------------------------------------------------
(* What the present generation carries, alone in the vendor *)

\* The cuts grow, and none is past the end of the text.
LEMMA CutsGrow ==
  ASSUME NEW n \in Nat, NEW cut \in [0..n -> Nat], NEW last \in Nat, cut[n] = last,
         \A i \in 1..n : cut[i - 1] <= cut[i]
  PROVE  \A i \in 0..n : cut[i] <= last
<1> DEFINE Bad == {j \in 0..n : ~(cut[n - j] <= last)}
<1>1. SUFFICES ASSUME Bad # {} PROVE FALSE
  <2>1. \A i \in 0..n : n - i \in 0..n /\ n - (n - i) = i OBVIOUS
  <2> QED BY <2>1
<1>2. Bad \subseteq Nat OBVIOUS
<1>3. PICK j \in Bad : \A m \in Bad : j <= m BY <1>1, <1>2, LeastNatural
<1>4. j \in 0..n /\ ~(cut[n - j] <= last) OBVIOUS
<1>5. j # 0
  <2>1. n - 0 = n OBVIOUS
  <2> QED BY <1>4, <2>1
<1>6. /\ j - 1 \in 0..n /\ ~(j <= j - 1) /\ n - (j - 1) \in 1..n
      /\ (n - (j - 1)) - 1 = n - j /\ n - j \in 0..n /\ n - (j - 1) \in 0..n
  BY <1>4, <1>5
<1>7. j - 1 \notin Bad BY <1>3, <1>6
<1>8. cut[n - (j - 1)] <= last BY <1>6, <1>7
<1>9. cut[n - j] <= cut[n - (j - 1)] BY <1>6
<1>10. cut[n - j] \in Nat /\ cut[n - (j - 1)] \in Nat BY <1>6
<1> QED BY <1>4, <1>8, <1>9, <1>10

\* An item put at the end, with the text its run emits at that moment, continues it.
LEMMA ContinuesAppend ==
  ASSUME NEW read \in Text, NEW s \in Text, NEW t \in Text,
         NEW items \in Seq(ItemType), NEW it \in ItemType, NEW gen, NEW was, NEW is,
         Continued(read, s, items, gen, was),
         it.gen = gen, it.text = t,
         \A i \in 1..Len(items) : items[i].gen = gen => items[i].state # "finish",
         it.state = "finish" => is = "ended" /\ t = <<>>
  PROVE  Continued(read, s \o t, Append(items, it), gen, is)
<1> DEFINE queued == Append(items, it)
<1>0. PICK cut \in [0..Len(items) -> Nat] : Continues(cut, read, s, items, gen, was)
  BY DEF Continued
<1>1. Len(items) \in Nat /\ Len(s) \in Nat /\ Len(t) \in Nat /\ Len(read) \in Nat
  BY LenProperties DEF Text
<1> DEFINE n == Len(items)
           g == s \o t
           new == [i \in 0..(n + 1) |-> IF i <= n THEN cut[i] ELSE Len(g)]
<1>2. g \in Text /\ Len(g) = Len(s) + Len(t)
  BY ConcatProperties DEF Text
<1>3. /\ Len(queued) = n + 1
      /\ \A i \in 1..n : queued[i] = items[i]
      /\ queued[n + 1] = it
  BY <1>1, AppendProperties
<1>4. new \in [0..Len(queued) -> Nat]
  <2>1. \A i \in 0..(n + 1) : i <= n => i \in 0..n BY <1>1
  <2>2. Len(g) \in Nat BY <1>1, <1>2
  <2> HIDE DEF g
  <2>3. \A i \in 0..(n + 1) : (IF i <= n THEN cut[i] ELSE Len(g)) \in Nat BY <2>1, <2>2
  <2> QED BY <1>3, <2>3
<1>5. /\ \A i \in 0..n : new[i] = cut[i] /\ cut[i] \in Nat
      /\ new[n + 1] = Len(g)
  <2>1. n \in Nat /\ cut \in [0..n -> Nat] BY <1>1
  <2> HIDE DEF n, g
  <2>2. \A i \in 0..n : i \in 0..(n + 1) /\ i <= n BY <2>1
  <2>3. n + 1 \in 0..(n + 1) /\ ~(n + 1 <= n) BY <2>1
  <2> QED BY <2>1, <2>2, <2>3
<1>6. /\ cut[0] = Len(read) /\ cut[n] = Len(s)
      /\ read = SubSeq(s, 1, cut[0])
      /\ \A i \in 1..n :
           /\ cut[i - 1] <= cut[i]
           /\ IF items[i].gen = gen
              THEN items[i].text = SubSeq(s, cut[i - 1] + 1, cut[i])
              ELSE cut[i - 1] = cut[i]
  BY <1>0 DEF Continues
<1> HIDE DEF new, g, n, queued
<1>7. \A i \in 0..n : cut[i] <= Len(s)
  <2>1. n \in Nat /\ cut \in [0..n -> Nat] BY <1>1 DEF n
  <2> QED BY <1>1, <1>6, <2>1, CutsGrow
<1>8. \A a, b \in Nat : a >= 1 /\ b <= Len(s) => SubSeq(g, a, b) = SubSeq(s, a, b)
  <2> TAKE a, b \in Nat
  <2> HAVE a >= 1 /\ b <= Len(s)
  <2>1. CASE a <= b
    <3>1. a \in 1..Len(s) /\ b \in 1..Len(s) BY <1>1, <2>1
    <3> QED BY <3>1, SubSeqOfConcat1 DEF Text, g
  <2>2. CASE ~(a <= b)
    <3>1. a \in Int /\ b \in Int /\ b < a BY <2>2
    <3> QED BY <3>1, SubSeqEmpty
  <2> QED BY <2>1, <2>2
<1>9. t = SubSeq(g, Len(s) + 1, Len(g))
  <2>1. CASE Len(t) = 0
    <3>1. t = <<>> BY <2>1, EmptySeq DEF Text
    <3>2. Len(s) + 1 \in Int /\ Len(g) \in Int /\ Len(g) < Len(s) + 1 BY <1>1, <1>2, <2>1
    <3> QED BY <3>1, <3>2, SubSeqEmpty
  <2>2. CASE Len(t) # 0
    <3>1. /\ Len(s) + 1 \in Len(s) + 1..Len(s) + Len(t)
          /\ Len(g) \in Len(s) + 1..Len(s) + Len(t)
          /\ (Len(s) + 1) - Len(s) = 1 /\ Len(g) - Len(s) = Len(t)
      BY <1>1, <1>2, <2>2
    <3>2. SubSeq(g, Len(s) + 1, Len(g)) = SubSeq(t, (Len(s) + 1) - Len(s), Len(g) - Len(s))
      BY <3>1, SubSeqOfConcat2 DEF Text, g
    <3>3. SubSeq(t, 1, Len(t)) = t BY SubSeqFull DEF Text
    <3> QED BY <3>1, <3>2, <3>3
  <2> QED BY <2>1, <2>2
<1>10. n \in Nat BY <1>1 DEF n
<1>11. /\ new[0] = Len(read) /\ new[Len(queued)] = Len(g)
       /\ read = SubSeq(g, 1, new[0])
  <2>1. new[0] = cut[0] /\ cut[0] \in Nat /\ cut[0] <= Len(s) BY <1>5, <1>7, <1>10
  <2>2. SubSeq(g, 1, cut[0]) = SubSeq(s, 1, cut[0])
    <3>1. 1 \in Nat /\ 1 >= 1 OBVIOUS
    <3> QED BY <1>8, <2>1, <3>1
  <2> QED BY <1>3, <1>5, <1>6, <2>1, <2>2
<1>12. ASSUME NEW i \in 1..Len(queued)
       PROVE  /\ new[i - 1] <= new[i]
              /\ IF queued[i].gen = gen
                 THEN /\ queued[i].text = SubSeq(g, new[i - 1] + 1, new[i])
                      /\ queued[i].state = "finish" =>
                           is = "ended" /\ i = Len(queued) /\ new[i - 1] = new[i]
                 ELSE new[i - 1] = new[i]
  <2>1. CASE i = n + 1
    <3>1. new[i - 1] = Len(s) /\ new[i] = Len(g) /\ queued[i] = it
      <4>1. i - 1 = n /\ n \in 0..n BY <1>10, <2>1
      <4> QED BY <1>3, <1>5, <1>6, <2>1, <4>1
    <3>2. Len(s) <= Len(g) BY <1>1, <1>2
    <3>3. t = <<>> => Len(g) = Len(s)
      <4>1. t = <<>> => Len(t) = 0 OBVIOUS
      <4> QED BY <1>1, <1>2, <4>1
    <3> QED BY <1>3, <1>9, <2>1, <3>1, <3>2, <3>3
  <2>2. CASE i # n + 1
    <3>1. i \in 1..n /\ i - 1 \in 0..n /\ i \in 0..n BY <1>3, <1>10, <2>2
    <3>2. /\ new[i - 1] = cut[i - 1] /\ new[i] = cut[i] /\ queued[i] = items[i]
          /\ cut[i - 1] \in Nat /\ cut[i] \in Nat /\ cut[i] <= Len(s)
      BY <1>3, <1>5, <1>7, <3>1
    <3>3. SubSeq(g, cut[i - 1] + 1, cut[i]) = SubSeq(s, cut[i - 1] + 1, cut[i])
      <4>1. cut[i - 1] + 1 \in Nat /\ cut[i - 1] + 1 >= 1 BY <3>2
      <4> QED BY <1>8, <3>2, <4>1
    <3>4. items[i].gen = gen => items[i].state # "finish" BY <3>1 DEF n
    <3> QED BY <1>6, <3>1, <3>2, <3>3, <3>4
  <2> QED BY <2>1, <2>2
<1>13. Continues(new, read, g, queued, gen, is) BY <1>11, <1>12 DEF Continues
<1> QED BY <1>4, <1>13 DEF g, queued, Continued

\* An item taken from the front is read or, with another label, dropped; at the end
\* all has been read.
LEMMA ContinuesTail ==
  ASSUME NEW read \in Text, NEW text \in Text, NEW items \in Seq(ItemType), items # <<>>,
         NEW gen, NEW state, Continued(read, text, items, gen, state)
  PROVE  /\ Head(items).gen # gen => Continued(read, text, Tail(items), gen, state)
         /\ Head(items).gen = gen =>
              /\ Continued(read \o Head(items).text, text, Tail(items), gen, state)
              /\ Head(items).state = "finish" => state = "ended" /\ read = text
<1>0. PICK cut \in [0..Len(items) -> Nat] : Continues(cut, read, text, items, gen, state)
  BY DEF Continued
<1> DEFINE n == Len(items)
           rest == Tail(items)
           it == Head(items)
           new == [i \in 0..Len(rest) |-> cut[i + 1]]
<1>1. n \in Nat /\ n >= 1 /\ Len(text) \in Nat /\ Len(read) \in Nat
  BY EmptySeq, LenProperties DEF Text
<1>2. /\ rest \in Seq(ItemType) /\ Len(rest) = n - 1
      /\ \A i \in 1..Len(rest) : rest[i] = items[i + 1]
      /\ it = items[1] /\ it \in ItemType
  BY HeadTailProperties
<1>3. /\ cut[0] = Len(read) /\ cut[n] = Len(text)
      /\ read = SubSeq(text, 1, cut[0])
      /\ \A i \in 1..n :
           /\ cut[i - 1] <= cut[i]
           /\ IF items[i].gen = gen
              THEN /\ items[i].text = SubSeq(text, cut[i - 1] + 1, cut[i])
                   /\ items[i].state = "finish" =>
                        state = "ended" /\ i = n /\ cut[i - 1] = cut[i]
              ELSE cut[i - 1] = cut[i]
  BY <1>0 DEF Continues
<1>4. \A i \in 0..n : cut[i] \in Nat /\ cut[i] <= Len(text)
  BY <1>1, <1>3, CutsGrow
<1> HIDE DEF n, rest, it
<1>5. \A i \in 0..Len(rest) : i + 1 \in 0..n /\ i + 1 \in 1..n BY <1>1, <1>2
<1>6. new \in [0..Len(rest) -> Nat] /\ \A i \in 0..Len(rest) : new[i] = cut[i + 1]
  BY <1>4, <1>5
<1> HIDE DEF new
<1>7. /\ cut[0] <= cut[1]
      /\ IF it.gen = gen
         THEN /\ it.text = SubSeq(text, cut[0] + 1, cut[1])
              /\ it.state = "finish" => state = "ended" /\ 1 = n /\ cut[0] = cut[1]
         ELSE cut[0] = cut[1]
  <2>1. 1 \in 1..n /\ 1 - 1 = 0 BY <1>1
  <2> QED BY <1>2, <1>3, <2>1
<1>8. 0 \in 0..Len(rest) /\ Len(rest) \in 0..Len(rest) /\ Len(rest) + 1 = n BY <1>1, <1>2
<1>9. new[0] = cut[1] /\ new[Len(rest)] = Len(text)
  <2>1. new[0] = cut[0 + 1] /\ new[Len(rest)] = cut[Len(rest) + 1] BY <1>6, <1>8
  <2>2. 0 + 1 = 1 OBVIOUS
  <2> QED BY <1>3, <1>8, <2>1, <2>2
<1>10. ASSUME NEW i \in 1..Len(rest)
       PROVE  /\ new[i - 1] <= new[i]
              /\ IF rest[i].gen = gen
                 THEN /\ rest[i].text = SubSeq(text, new[i - 1] + 1, new[i])
                      /\ rest[i].state = "finish" =>
                           state = "ended" /\ i = Len(rest) /\ new[i - 1] = new[i]
                 ELSE new[i - 1] = new[i]
  <2>1. /\ i + 1 \in 1..n /\ (i + 1) - 1 = i /\ i - 1 \in 0..Len(rest) /\ i \in 0..Len(rest)
        /\ (i - 1) + 1 = i /\ (i + 1 = n => i = Len(rest))
    BY <1>1, <1>2
  <2>2. new[i - 1] = cut[i] /\ new[i] = cut[i + 1] /\ rest[i] = items[i + 1]
    <3>1. new[i - 1] = cut[(i - 1) + 1] /\ new[i] = cut[i + 1] BY <1>6, <2>1
    <3> QED BY <1>2, <2>1, <3>1
  <2>3. /\ cut[i] <= cut[i + 1]
        /\ IF items[i + 1].gen = gen
           THEN /\ items[i + 1].text = SubSeq(text, cut[i] + 1, cut[i + 1])
                /\ items[i + 1].state = "finish" =>
                     state = "ended" /\ i + 1 = n /\ cut[i] = cut[i + 1]
           ELSE cut[i] = cut[i + 1]
    BY <1>3, <2>1
  <2> QED BY <2>1, <2>2, <2>3
<1>11. ASSUME NEW more, Len(more) = cut[1], more = SubSeq(text, 1, cut[1])
       PROVE  Continued(more, text, rest, gen, state)
  <2>1. Continues(new, more, text, rest, gen, state)
    BY <1>9, <1>10, <1>11 DEF Continues
  <2> QED BY <1>6, <2>1 DEF Continued
<1>12. CASE it.gen # gen
  <2>1. Continued(read, text, rest, gen, state) BY <1>3, <1>7, <1>11, <1>12
  <2> QED BY <1>12, <2>1 DEF it, rest
<1>13. CASE it.gen = gen
  <2>1. /\ 0 \in 0..n /\ 1 \in 0..n BY <1>1
  <2>2. cut[0] \in 0..Len(text) /\ cut[1] \in cut[0]..Len(text) BY <1>1, <1>4, <1>7, <2>1
  <2>3. read \o it.text = SubSeq(text, 1, cut[1])
    <3>1. /\ 1 \in 1..(Len(text) + 1) /\ cut[0] \in (1 - 1)..Len(text) BY <1>1, <2>2
    <3>2. SubSeq(text, 1, cut[0]) \o SubSeq(text, cut[0] + 1, cut[1]) = SubSeq(text, 1, cut[1])
      BY <2>2, <3>1, ConcatAdjacentSubSeq DEF Text
    <3> QED BY <1>3, <1>7, <1>13, <3>2
  <2>4. Len(read \o it.text) = cut[1]
    <3>1. 1 \in Int /\ cut[1] \in Int /\ \A i \in 1..cut[1] : text[i] \in PieceType
      BY <1>1, <2>2, ElementOfSeq DEF Text
    <3>2. Len(SubSeq(text, 1, cut[1])) = IF 1 <= cut[1] THEN cut[1] - 1 + 1 ELSE 0
      BY <3>1, SubSeqProperties
    <3> QED BY <1>1, <2>2, <2>3, <3>2
  <2>5. Continued(read \o it.text, text, rest, gen, state) BY <1>11, <2>3, <2>4
  <2>6. it.state = "finish" => state = "ended" /\ read = text
    <3>1. SubSeq(text, 1, Len(text)) = text BY SubSeqFull DEF Text
    <3> QED BY <1>3, <1>7, <1>13, <3>1
  <2> QED BY <1>13, <2>5, <2>6 DEF it, rest
<1> QED BY <1>12, <1>13

\* A generation that nothing carries yet continues the empty text of a run not begun.
LEMMA ContinuesFresh ==
  ASSUME NEW items \in Seq(ItemType), NEW gen, NEW state,
         \A i \in 1..Len(items) : items[i].gen # gen
  PROVE  Continued(<<>>, <<>>, items, gen, state)
<1> DEFINE cut == [i \in 0..Len(items) |-> 0]
<1>1. Len(items) \in Nat /\ Len(<<>>) = 0 BY LenProperties, EmptySeq
<1>2. SubSeq(<<>>, 1, 0) = <<>> BY SubSeqEmpty
<1>3. cut \in [0..Len(items) -> Nat] /\ \A i \in 0..Len(items) : cut[i] = 0 OBVIOUS
<1> HIDE DEF cut
<1>4. \A i \in 1..Len(items) : i \in 0..Len(items) /\ i - 1 \in 0..Len(items) BY <1>1
<1>5. Continues(cut, <<>>, <<>>, items, gen, state)
  <2>1. cut[0] = 0 /\ cut[Len(items)] = 0 BY <1>1, <1>3
  <2> QED BY <1>1, <1>2, <1>3, <1>4, <2>1 DEF Continues
<1> QED BY <1>3, <1>5 DEF Continued

\* The state of the run matters for the end alone.
LEMMA ContinuesEnded ==
  ASSUME NEW read, NEW text, NEW items, NEW gen, NEW was, NEW is,
         Continued(read, text, items, gen, was), was = "ended" => is = "ended"
  PROVE  Continued(read, text, items, gen, is)
<1>1. PICK cut \in [0..Len(items) -> Nat] : Continues(cut, read, text, items, gen, was)
  BY DEF Continued
<1>2. Continues(cut, read, text, items, gen, is) BY <1>1 DEF Continues
<1> QED BY <1>2 DEF Continued

\* An item of the own generation is read where the text goes on.
LEMMA AloneItem ==
  ASSUME Inv, NEW read \in Text, read = acc \o half, NEW it \in ItemType,
         Wait(it) \/ Take(it) \/ End(it)
  PROVE  /\ it.state # "finish" => worker' = worker /\ acc' \o half' = read \o it.text
         /\ it.state = "finish" => worker' = "ended" /\ acc' = read
<1>1. acc \in Seq(PieceType) /\ half \in Seq(PieceType) /\ it.text \in Seq(PieceType)
  BY DEF Inv, TypeOK, ItemType, Text
<1>2. acc \o (half \o it.text) = (acc \o half) \o it.text
  <2> DEFINE t == it.text
  <2>1. t \in Seq(PieceType) BY <1>1
  <2> HIDE DEF t
  <2>2. (acc \o half) \o t = acc \o (half \o t) BY <1>1, <2>1, ConcatAssociative
  <2> QED BY <2>2 DEF t
<1>3. CASE Wait(it) BY <1>2, <1>3 DEF Wait
<1>4. CASE Take(it)
  <2>1. /\ acc' = acc \o (half \o it.text) /\ half' = <<>> /\ worker' = worker
        /\ it.state # "finish"
    BY <1>4 DEF Take
  <2>2. acc \o (half \o it.text) \in Seq(PieceType) BY <1>1, ConcatProperties
  <2>3. acc' \o half' = acc' BY <2>1, <2>2, ConcatEmptySeq
  <2> QED BY <1>2, <2>1, <2>3
<1>5. CASE End(it) BY <1>5 DEF End
<1> QED BY <1>3, <1>4, <1>5

\* The vendor's thread enqueues under the generation of the moment, and alone that is
\* the inference's own run.
LEMMA AloneVendor ==
  ASSUME Inv, NEW r \in Infers, Vendor(r)
  PROVE  AloneInv'
<1>1. /\ TypeOK /\ InferInv /\ GenerationInv /\ RunInv /\ AloneInv
      /\ queue \in Seq(ItemType) /\ run \in [Infers -> {"off", "live", "ended"}]
      /\ sent \in [Infers -> Text]
  BY QueueType DEF Inv, TypeOK, Text
<1>2. run[r] = "live"
      /\ UNCHANGED <<main, k, worker, myGen, acc, half, survivors, generation>>
  BY <1>1 DEF Vendor, VendorEnd, VendorToken, pump
<1>3. SUFFICES ASSUME DOMAIN survivors = {}, worker \in {"check", "run", "pump", "ended"}
               PROVE  AloneInv'
  BY <1>2 DEF AloneInv
<1>4. r = k BY <1>1, <1>2, <1>3 DEF AloneInv
<1>5. worker = "pump"
  BY <1>1, <1>2, <1>3, <1>4 DEF AloneInv, RunInv
<1>6. /\ myGen = generation /\ Continued(acc \o half, sent[k], queue, myGen, run[k])
      /\ \A p \in Infers : run[p] = "live" => p = k
  BY <1>1, <1>3, <1>5 DEF AloneInv, GenerationInv
<1>7. PICK it \in ItemType, t \in Text :
        /\ it.gen = myGen /\ it.text = t /\ queue' = Append(queue, it)
        /\ sent'[k] = sent[k] \o t
        /\ it.state = "finish" => run'[k] = "ended" /\ t = <<>>
  <2>1. CASE VendorEnd(r)
    <3> DEFINE it == [gen |-> generation, state |-> "finish", text |-> <<>>]
    <3>1. it \in ItemType BY <1>1 DEF ItemType, TypeOK, Text
    <3>2. queue' = Append(queue, it) BY <2>1 DEF VendorEnd, Enqueue
    <3>3. run'[k] = "ended" /\ sent'[k] = sent[k] BY <1>1, <1>4, <2>1 DEF VendorEnd
    <3>4. sent[k] \o <<>> = sent[k] /\ <<>> \in Text
      BY <1>1, <1>4, ConcatEmptySeq DEF Text
    <3>5. it.gen = generation /\ it.text = <<>> OBVIOUS
    <3> HIDE DEF it
    <3> QED BY <1>6, <3>1, <3>2, <3>3, <3>4, <3>5
  <2>2. ASSUME NEW kind \in Tokens, VendorToken(r, kind)
        PROVE  \E it \in ItemType, t \in Text :
                 /\ it.gen = myGen /\ it.text = t /\ queue' = Append(queue, it)
                 /\ sent'[k] = sent[k] \o t
                 /\ it.state = "finish" => run'[k] = "ended" /\ t = <<>>
    <3> DEFINE t == Pieces(r, Len(sent[r]) + 1, kind)
               it == [gen |-> generation, state |-> kind, text |-> t]
    <3>1. sent' = [sent EXCEPT ![r] = @ \o t] /\ queue' = Append(queue, it)
      BY <2>2 DEF VendorToken, Enqueue
    <3>2. t \in Text
      <4>1. Len(sent[r]) \in Nat BY <1>1, LenProperties DEF Text
      <4>2. Len(sent[r]) + 1 \in 1..MaxTokens
        BY <2>2, <4>1, RkllmNodeAssumption DEF VendorToken
      <4> QED BY <4>2, PiecesType
    <3> HIDE DEF t
    <3>3. it \in ItemType BY <1>1, <3>2 DEF ItemType, TypeOK
    <3>4. it.gen = generation /\ it.text = t /\ it.state = kind OBVIOUS
    <3>5. kind # "finish" BY RkllmNodeAssumption
    <3>6. sent'[k] = sent[k] \o t BY <1>1, <1>4, <3>1
    <3> HIDE DEF it
    <3> QED BY <1>6, <3>1, <3>2, <3>3, <3>4, <3>5, <3>6
  <2> QED BY <2>1, <2>2 DEF Vendor
<1>8. \A i \in 1..Len(queue) : queue[i].gen = myGen => queue[i].state # "finish"
  <2>1. PICK cut \in [0..Len(queue) -> Nat] :
          Continues(cut, acc \o half, sent[k], queue, myGen, run[k])
    BY <1>6 DEF Continued
  <2>2. run[k] # "ended" BY <1>2, <1>4
  <2> QED BY <2>1, <2>2 DEF Continues
<1>9. Continued(acc \o half, sent[k] \o it.text, queue', myGen, run'[k])
  <2>1. acc \o half \in Text BY <1>1, ConcatProperties DEF TypeOK, Text
  <2>2. sent[k] \in Text BY <1>1, <1>4
  <2> DEFINE read == acc \o half
  <2>3. read \in Text /\ Continued(read, sent[k], queue, myGen, run[k]) BY <1>6, <2>1
  <2> HIDE DEF read
  <2>4. Continued(read, sent[k] \o it.text, Append(queue, it), myGen, run'[k])
    BY <1>1, <1>7, <1>8, <2>2, <2>3, ContinuesAppend
  <2> QED BY <1>7, <2>4 DEF read
<1>10. \A p \in Infers : run'[p] = "live" => p = k
  BY <1>1, <1>4, <1>6 DEF Vendor, VendorEnd, VendorToken
<1>11. Continued(acc' \o half', sent'[k'], queue', myGen', run'[k'])
  BY <1>2, <1>7, <1>9
<1> QED BY <1>2, <1>5, <1>10, <1>11 DEF AloneInv

LEMMA AloneStep ==
  ASSUME Inv, [Next]_vars
  PROVE  AloneInv'
<1>1. /\ TypeOK /\ InferInv /\ GenerationInv /\ RunInv /\ FreshInv /\ AloneInv
      /\ queue \in Seq(ItemType) /\ run \in [Infers -> {"off", "live", "ended"}]
      /\ sent \in [Infers -> Text]
      /\ worker \in {"off", "start", "check", "run", "pump", "ended", "done"}
  BY QueueType DEF Inv, TypeOK, Text
<1> USE DEF impl, pump, vendor
<1> DEFINE Kept == UNCHANGED <<k, worker, queue, myGen, acc, half, run, sent, survivors>>
<1>2. Kept => AloneInv' BY <1>1 DEF AloneInv
<1>3. CASE UNCHANGED vars
  <2>1. Kept BY <1>3 DEF vars
  <2> QED BY <1>2, <2>1
<1>4. CASE Ask \/ ReturnAtOnce \/ SeeDone \/ SeeStop("timeout") \/ SeeStop("cancelled")
  <2>1. Kept BY <1>4 DEF Ask, ReturnAtOnce, SeeDone, SeeStop
  <2> QED BY <1>2, <2>1
<1>5. CASE Infer \/ Begin \/ Join \/ StopPumping \/ Finish
  <2>1. worker' \in {"off", "start", "done"}
    BY <1>1, <1>5 DEF Infer, Begin, Join, Return, StopPumping, Finish, InferInv
  <2> QED BY <2>1 DEF AloneInv
<1>6. CASE Abort
  <2>1. UNCHANGED <<k, worker, queue, myGen, acc, half, sent, survivors>> /\ k \in Infers
    BY <1>1, <1>6 DEF Abort, InferInv
  <2>2. run' = run \/ run' = [run EXCEPT ![k] = IF @ = "live" THEN "ended" ELSE @]
    BY <1>6 DEF Abort
  <2>3. /\ \A r \in Infers : run'[r] = "live" => run[r] = "live"
        /\ run[k] = "ended" => run'[k] = "ended"
    BY <1>1, <2>1, <2>2
  <2>4. Continued(acc \o half, sent[k], queue, myGen, run[k])
          => Continued(acc \o half, sent[k], queue, myGen, run'[k])
    <3> DEFINE read == acc \o half
               was == run[k]
               is == run'[k]
    <3>1. was = "ended" => is = "ended" BY <2>3
    <3> HIDE DEF read, was, is
    <3>2. Continued(read, sent[k], queue, myGen, was)
            => Continued(read, sent[k], queue, myGen, is)
      BY <3>1, ContinuesEnded
    <3> QED BY <3>2 DEF read, was, is
  <2>5. Continued(acc \o half, sent[k], queue, myGen, run'[k])
          => Continued(acc' \o half', sent'[k'], queue', myGen', run'[k'])
    BY <2>1
  <2> QED BY <1>1, <2>1, <2>3, <2>4, <2>5 DEF AloneInv
<1>7. CASE Start
  <2>1. /\ worker' = "check" /\ myGen' = generation + 1 /\ UNCHANGED <<queue, run>>
        /\ DOMAIN survivors' = {p \in Infers : run[p] = "live"}
    BY <1>7 DEF Start
  <2>2. \A i \in 1..Len(queue) : queue[i].gen # generation + 1
    <3>1. \A i \in 1..Len(queue) : queue[i] \in ItemType BY <1>1, ElementOfSeq
    <3>2. \A i \in 1..Len(queue) : queue[i].gen \in Nat BY <3>1 DEF ItemType
    <3>3. generation \in Nat BY <1>1 DEF TypeOK
    <3> QED BY <1>1, <3>2, <3>3 DEF GenerationInv
  <2> QED BY <2>1, <2>2 DEF AloneInv
<1>8. CASE Check
  <2>1. /\ worker = "check" /\ worker' \in {"run", "done"}
        /\ UNCHANGED <<k, queue, myGen, run, survivors>>
    BY <1>8 DEF Check
  <2> QED BY <1>1, <2>1 DEF AloneInv
<1>9. CASE RunAsync
  <2>1. /\ worker = "run" /\ UNCHANGED <<k, queue, myGen, acc, half, sent, survivors>>
        /\ worker' = "done" \/ (worker' = "pump" /\ run' = [run EXCEPT ![k] = "live"])
    BY <1>9 DEF RunAsync
  <2>2. SUFFICES ASSUME DOMAIN survivors = {}, worker' = "pump" PROVE AloneInv'
    BY <2>1 DEF AloneInv
  <2>3. k \in Infers /\ run[k] = "off" /\ sent[k] = <<>> /\ acc = <<>> /\ half = <<>>
    BY <1>1, <2>1 DEF InferInv, RunInv, FreshInv
  <2>4. \A r \in Infers : run'[r] = "live" => r = k
    BY <1>1, <2>1, <2>2 DEF AloneInv
  <2>5. \A i \in 1..Len(queue) : queue[i].gen # myGen
    BY <1>1, <2>1, <2>2 DEF AloneInv
  <2>6. Continued(<<>>, <<>>, queue, myGen, run'[k'])
    <3> DEFINE is == run'[k']
    <3> HIDE DEF is
    <3>1. Continued(<<>>, <<>>, queue, myGen, is) BY <1>1, <2>5, ContinuesFresh
    <3> QED BY <3>1 DEF is
  <2>7. acc' \o half' = <<>>
    <3>1. <<>> \in Text BY DEF Text
    <3> QED BY <2>1, <2>3, <3>1, ConcatEmptySeq DEF Text
  <2>8. Continued(acc' \o half', sent'[k'], queue', myGen', run'[k'])
    BY <2>1, <2>3, <2>6, <2>7
  <2> QED BY <2>1, <2>2, <2>4, <2>8 DEF AloneInv
<1>10. CASE PumpItem
  <2>1. /\ worker = "pump" /\ queue # <<>> /\ queue' = Tail(queue)
        /\ UNCHANGED <<k, myGen, run, sent, survivors, main>>
        /\ IF Head(queue).gen # myGen THEN Skip
           ELSE Wait(Head(queue)) \/ Take(Head(queue)) \/ End(Head(queue))
    BY <1>10 DEF PumpItem
  <2>2. SUFFICES ASSUME DOMAIN survivors = {} PROVE AloneInv' BY <2>1 DEF AloneInv
  <2> DEFINE read == acc \o half
             it == Head(queue)
  <2>3. /\ it \in ItemType /\ k \in Infers
        /\ \A r \in Infers : run[r] = "live" => r = k
        /\ Continued(read, sent[k], queue, myGen, run[k])
    BY <1>1, <2>1, <2>2, QueueType DEF InferInv, AloneInv
  <2>4. read \in Text BY <1>1, ConcatProperties DEF TypeOK, Text
  <2>5. sent[k] \in Text BY <1>1, <2>3
  <2>6. /\ it.gen # myGen => Continued(read, sent[k], Tail(queue), myGen, run[k])
        /\ it.gen = myGen =>
             /\ Continued(read \o it.text, sent[k], Tail(queue), myGen, run[k])
             /\ it.state = "finish" => run[k] = "ended" /\ read = sent[k]
    <3> HIDE DEF read
    <3> QED BY <1>1, <2>1, <2>3, <2>4, <2>5, ContinuesTail
  <2>7. CASE it.gen # myGen
    <3>1. worker' = "pump" /\ acc' = acc /\ half' = half BY <2>1, <2>7 DEF Skip
    <3>2. Continued(acc' \o half', sent'[k'], queue', myGen', run'[k'])
      BY <2>1, <2>6, <2>7, <3>1
    <3> QED BY <2>1, <2>2, <2>3, <3>1, <3>2 DEF AloneInv
  <2>8. CASE it.gen = myGen
    <3>1. /\ it.state # "finish" => worker' = worker /\ acc' \o half' = read \o it.text
          /\ it.state = "finish" => worker' = "ended" /\ acc' = read
      BY <2>1, <2>3, <2>4, <2>8, AloneItem
    <3>2. CASE it.state = "finish"
      <4>1. worker' = "ended" /\ acc' = sent'[k'] /\ run'[k'] = "ended"
        BY <2>1, <2>6, <2>8, <3>1, <3>2
      <4> QED BY <2>1, <2>3, <4>1 DEF AloneInv
    <3>3. CASE it.state # "finish"
      <4>1. worker' = "pump" BY <2>1, <3>1, <3>3
      <4>2. Continued(acc' \o half', sent'[k'], queue', myGen', run'[k'])
        BY <2>1, <2>6, <2>8, <3>1, <3>3
      <4> QED BY <2>1, <2>3, <4>1, <4>2 DEF AloneInv
    <3> QED BY <3>2, <3>3
  <2> QED BY <2>7, <2>8
<1>11. ASSUME NEW r \in Infers, Vendor(r) PROVE AloneInv'
  BY <1>11, AloneVendor
<1> QED
  BY <1>3, <1>4, <1>5, <1>6, <1>7, <1>8, <1>9, <1>10, <1>11 DEF Next, Node, Worker

-----------------------------------------------------------------------------
(* Half characters, and what runs that outlived their inference emit *)

\* An item taken or put leaves the halves in the queue without text.
LEMMA HalfStep ==
  ASSUME Inv, [Next]_vars
  PROVE  HalfInv'
<1>1. /\ HalfInv /\ FreshInv /\ queue \in Seq(ItemType) /\ Len(queue) \in Nat
      /\ generation \in 0..MaxInfers /\ sent \in [Infers -> Text]
      /\ <<>> \o <<>> = <<>>
  <2>1. queue \in Seq(ItemType) /\ Len(queue) \in Nat
    BY QueueType, LenProperties DEF Inv
  <2>2. <<>> \o <<>> = <<>>
    <3>1. <<>> \in Text BY DEF Text
    <3> QED BY <3>1, ConcatEmptySeq DEF Text
  <2> QED BY <2>1, <2>2 DEF Inv, TypeOK, Text
<1> USE DEF impl, pump, vendor
<1>2. half' = half /\ queue' = queue => HalfInv' BY <1>1 DEF HalfInv
<1>3. CASE \/ UNCHANGED vars \/ Infer \/ Ask \/ ReturnAtOnce \/ SeeDone \/ Abort
           \/ SeeStop("timeout") \/ SeeStop("cancelled")
  <2>1. half' = half /\ queue' = queue
    BY <1>3 DEF vars, Infer, Ask, ReturnAtOnce, SeeDone, Abort, SeeStop
  <2> QED BY <1>2, <2>1
<1>4. CASE Begin
  <2>1. 1..Len(queue') = {} BY <1>4 DEF Begin
  <2> QED BY <1>1, <1>4, <2>1 DEF Begin, HalfInv
<1>5. CASE Join
  <2>1. half' = <<>> /\ queue' = queue BY <1>5 DEF Join, Return
  <2> QED BY <1>1, <2>1 DEF HalfInv
<1>6. CASE Start \/ Check \/ RunAsync \/ StopPumping \/ Finish
  <2>1. half' = half /\ queue' = queue
    BY <1>6 DEF Start, Check, RunAsync, StopPumping, Finish
  <2> QED BY <1>2, <2>1
<1>7. CASE PumpItem
  <2>1. /\ queue # <<>> /\ queue' = Tail(queue)
        /\ Skip \/ Wait(Head(queue)) \/ Take(Head(queue)) \/ End(Head(queue))
    BY <1>7 DEF PumpItem
  <2>2. /\ Len(Tail(queue)) = Len(queue) - 1 /\ Len(queue) >= 1 /\ Head(queue) = queue[1]
        /\ \A i \in 1..Len(Tail(queue)) : Tail(queue)[i] = queue[i + 1]
    BY <1>1, <2>1, HeadTailProperties, EmptySeq
  <2>3. \A i \in 1..Len(Tail(queue)) : i + 1 \in 1..Len(queue) BY <1>1, <2>2
  <2>4. Head(queue).state = "half" => Head(queue).text = <<>>
    <3>1. 1 \in 1..Len(queue) BY <1>1, <2>2
    <3> QED BY <1>1, <2>2, <3>1 DEF HalfInv
  <2>5. half' = <<>> BY <1>1, <2>1, <2>4 DEF HalfInv, Skip, Wait, Take, End
  <2> QED BY <1>1, <2>1, <2>2, <2>3, <2>5 DEF HalfInv
<1>8. ASSUME NEW r \in Infers, Vendor(r) PROVE HalfInv'
  <2>1. PICK it \in ItemType :
          queue' = Append(queue, it) /\ (it.state = "half" => it.text = <<>>)
    <3>1. CASE VendorEnd(r)
      <4> DEFINE it == [gen |-> generation, state |-> "finish", text |-> <<>>]
      <4>1. it \in ItemType BY <1>1 DEF ItemType, Text
      <4>2. queue' = Append(queue, it) BY <3>1 DEF VendorEnd, Enqueue
      <4> QED BY <4>1, <4>2
    <3>2. ASSUME NEW kind \in Tokens, VendorToken(r, kind)
          PROVE  \E it \in ItemType :
                   queue' = Append(queue, it) /\ (it.state = "half" => it.text = <<>>)
      <4> DEFINE t == Pieces(r, Len(sent[r]) + 1, kind)
                 it == [gen |-> generation, state |-> kind, text |-> t]
      <4>1. queue' = Append(queue, it) BY <3>2 DEF VendorToken, Enqueue
      <4>2. t \in Text
        <5>1. Len(sent[r]) \in Nat BY <1>1, LenProperties DEF Text
        <5>2. Len(sent[r]) + 1 \in 1..MaxTokens
          BY <3>2, <5>1, RkllmNodeAssumption DEF VendorToken
        <5> QED BY <5>2, PiecesType
      <4>3. kind = "half" => t = <<>> BY DEF Pieces
      <4> HIDE DEF t
      <4>4. it \in ItemType BY <1>1, <4>2 DEF ItemType
      <4>5. it.state = kind /\ it.text = t OBVIOUS
      <4> HIDE DEF it
      <4> QED BY <4>1, <4>3, <4>4, <4>5
    <3> QED BY <1>8, <3>1, <3>2 DEF Vendor
  <2>2. /\ Len(queue') = Len(queue) + 1
        /\ \A i \in 1..Len(queue) : queue'[i] = queue[i]
        /\ queue'[Len(queue) + 1] = it
    BY <1>1, <2>1, AppendProperties
  <2>3. ASSUME NEW i \in 1..Len(queue'), queue'[i].state = "half" PROVE queue'[i].text = <<>>
    <3>1. i \in 1..Len(queue) \/ i = Len(queue) + 1 BY <1>1, <2>2
    <3> QED BY <1>1, <2>1, <2>2, <2>3, <3>1 DEF HalfInv
  <2>4. half' = half BY <1>8 DEF Vendor, VendorEnd, VendorToken
  <2> QED BY <1>1, <2>3, <2>4 DEF HalfInv
<1> QED BY <1>3, <1>4, <1>5, <1>6, <1>7, <1>8 DEF Next, Node, Worker

\* A text made of fresh ones is fresh.
LEMMA FreshConcat ==
  ASSUME NEW s \in Text, NEW t \in Text, FreshText(s), FreshText(t)
  PROVE  FreshText(s \o t)
<1>1. /\ Len(s) \in Nat /\ DOMAIN s = 1..Len(s)
      /\ Len(t) \in Nat /\ DOMAIN t = 1..Len(t)
  BY LenProperties DEF Text
<1>2. /\ s \o t \in Seq(PieceType) /\ Len(s \o t) = Len(s) + Len(t)
      /\ \A i \in 1..(Len(s) + Len(t)) :
           (s \o t)[i] = IF i <= Len(s) THEN s[i] ELSE t[i - Len(s)]
  BY ConcatProperties DEF Text
<1>3. DOMAIN (s \o t) = 1..(Len(s) + Len(t)) BY <1>2, LenProperties
<1>4. ASSUME NEW i \in 1..(Len(s) + Len(t)) PROVE Fresh((s \o t)[i])
  <2>1. CASE i <= Len(s)
    <3>1. i \in DOMAIN s /\ (s \o t)[i] = s[i] BY <1>1, <1>2, <2>1
    <3> QED BY <3>1 DEF FreshText
  <2>2. CASE ~(i <= Len(s))
    <3>1. i - Len(s) \in DOMAIN t /\ (s \o t)[i] = t[i - Len(s)] BY <1>1, <1>2, <2>2
    <3> QED BY <3>1 DEF FreshText
  <2> QED BY <2>1, <2>2
<1> QED BY <1>3, <1>4 DEF FreshText

\* What a run emits now is fresh.
LEMMA FreshPieces ==
  ASSUME Inv, NEW r \in Infers, NEW kind \in Tokens, run[r] = "live",
         worker \in {"check", "run", "pump"}
  PROVE  FreshText(Pieces(r, Len(sent[r]) + 1, kind))
<1> DEFINE n == Len(sent[r]) + 1
           text == Pieces(r, n, kind)
<1>1. r = k \/ (r \in DOMAIN survivors /\ n > survivors[r])
  <2>1. Len(sent[r]) \in Nat
    <3>1. sent[r] \in Text BY DEF Inv, TypeOK, Text
    <3> QED BY <3>1, LenProperties DEF Text
  <2>2. survivors \in [DOMAIN survivors -> Nat] BY DEF Inv, TypeOK
  <2>3. r # k => r \in DOMAIN survivors /\ survivors[r] <= Len(sent[r])
    BY DEF Inv, SurvivorInv
  <2> QED BY <2>1, <2>2, <2>3
<1>2. \A i \in DOMAIN text : text[i].run = r /\ text[i].n = n
  <2> HIDE DEF n
  <2> QED BY RkllmNodeAssumption DEF Pieces
<1>3. FreshText(text)
  <2> HIDE DEF text, n
  <2> QED BY <1>1, <1>2 DEF FreshText, Fresh
<1> QED BY <1>3

LEMMA SurvivorStep ==
  ASSUME Inv, [Next]_vars
  PROVE  SurvivorInv'
<1>1. /\ InferInv /\ GenerationInv /\ FreshInv /\ HalfInv /\ SurvivorInv
      /\ queue \in Seq(ItemType) /\ Len(queue) \in Nat /\ generation \in Nat
      /\ run \in [Infers -> {"off", "live", "ended"}] /\ sent \in [Infers -> Text]
      /\ acc \in Text
      /\ worker \in {"off", "start", "check", "run", "pump", "ended", "done"}
  BY QueueType, LenProperties DEF Inv, TypeOK, Text
<1> USE DEF impl, pump, vendor
<1>2. \A text : k' = k /\ survivors' = survivors /\ FreshText(text) => FreshText(text)'
  BY DEF FreshText, Fresh
<1>3. acc' = <<>> => FreshText(acc)' BY DEF FreshText
<1> DEFINE Kept == UNCHANGED <<k, queue, myGen, acc, sent, survivors>>
<1>4. /\ Kept /\ worker' \in {worker, "off", "start", "ended", "done"}
      /\ \A r \in Infers : run'[r] = "live" /\ r # k => run[r] = "live"
      => SurvivorInv'
  BY <1>1 DEF SurvivorInv, FreshText, Fresh
<1>5. CASE \/ UNCHANGED vars \/ Ask \/ ReturnAtOnce \/ SeeDone \/ StopPumping \/ Finish
           \/ SeeStop("timeout") \/ SeeStop("cancelled")
  <2>1. Kept /\ run' = run /\ worker' \in {worker, "done"}
    BY <1>5 DEF vars, Ask, ReturnAtOnce, SeeDone, StopPumping, Finish, SeeStop
  <2> QED BY <1>4, <2>1
<1>6. CASE Abort
  <2>1. Kept /\ worker' = worker BY <1>6 DEF Abort
  <2>2. run' = run \/ run' = [run EXCEPT ![k] = IF @ = "live" THEN "ended" ELSE @]
    BY <1>6 DEF Abort
  <2>3. \A r \in Infers : run'[r] = "live" /\ r # k => run[r] = "live" BY <1>1, <2>2
  <2> QED BY <1>4, <2>1, <2>3
<1>7. CASE Infer \/ Begin \/ Join
  <2>1. acc' = <<>> /\ worker' \in {"off", "start"}
    BY <1>1, <1>7 DEF Infer, Begin, Join, Return, InferInv, FreshInv
  <2> QED BY <1>3, <2>1 DEF SurvivorInv
<1>8. CASE Start
  <2>1. /\ myGen' = generation + 1 /\ UNCHANGED <<k, queue, run, sent>> /\ acc' = <<>>
        /\ survivors' = [r \in {p \in Infers : run[p] = "live"} |-> Len(sent[r])]
    BY <1>1, <1>8 DEF Start, FreshInv
  <2>2. \A i \in 1..Len(queue) : queue[i].gen # generation + 1
    <3>1. \A i \in 1..Len(queue) : queue[i] \in ItemType BY <1>1, ElementOfSeq
    <3>2. \A i \in 1..Len(queue) : queue[i].gen \in Nat BY <3>1 DEF ItemType
    <3> QED BY <1>1, <3>2 DEF GenerationInv
  <2>3. \A i \in 1..Len(queue') : queue'[i].gen # myGen' BY <2>1, <2>2
  <2>4. \A r \in Infers : Len(sent[r]) \in Nat BY <1>1, LenProperties DEF Text
  <2>5. \A r \in Infers : run'[r] = "live" =>
          r \in DOMAIN survivors' /\ survivors'[r] <= Len(sent'[r])
    BY <2>1, <2>4
  <2> QED BY <1>3, <2>1, <2>3, <2>5 DEF SurvivorInv
<1>9. CASE Check
  <2>1. Kept /\ run' = run /\ worker = "check" /\ worker' \in {"run", "done"}
    BY <1>9 DEF Check
  <2> QED BY <1>1, <2>1 DEF SurvivorInv, FreshText, Fresh
<1>10. CASE RunAsync
  <2>1. /\ Kept /\ worker = "run" /\ worker' \in {"pump", "done"}
        /\ run' = run \/ run' = [run EXCEPT ![k] = "live"]
    BY <1>10 DEF RunAsync
  <2>2. \A r \in Infers : run'[r] = "live" /\ r # k => run[r] = "live" BY <1>1, <2>1
  <2> QED BY <1>1, <2>1, <2>2 DEF SurvivorInv, FreshText, Fresh
<1>11. CASE PumpItem
  <2>1. /\ worker = "pump" /\ queue # <<>> /\ queue' = Tail(queue)
        /\ UNCHANGED <<k, myGen, run, sent, survivors>>
        /\ IF Head(queue).gen # myGen THEN Skip
           ELSE Wait(Head(queue)) \/ Take(Head(queue)) \/ End(Head(queue))
    BY <1>11 DEF PumpItem
  <2>2. /\ Len(Tail(queue)) = Len(queue) - 1 /\ Len(queue) >= 1 /\ Head(queue) = queue[1]
        /\ \A i \in 1..Len(Tail(queue)) : Tail(queue)[i] = queue[i + 1]
        /\ Head(queue) \in ItemType
    BY <1>1, <2>1, HeadTailProperties, EmptySeq
  <2>3. \A i \in 1..Len(Tail(queue)) : i + 1 \in 1..Len(queue) BY <1>1, <2>2
  <2>4. Head(queue).gen = myGen => FreshText(Head(queue).text)
    <3>1. 1 \in 1..Len(queue) BY <1>1, <2>2
    <3> QED BY <1>1, <2>1, <2>2, <3>1 DEF SurvivorInv
  <2>5. half = <<>> /\ Head(queue).text \in Text /\ acc \o <<>> = acc
        /\ <<>> \o Head(queue).text = Head(queue).text
    BY <1>1, <2>2, ConcatEmptySeq DEF HalfInv, ItemType, Text
  <2>6. \/ acc' = acc
        \/ Head(queue).gen = myGen /\ acc' = acc \o Head(queue).text
    BY <2>1, <2>5 DEF Skip, Wait, Take, End
  <2>7. FreshText(acc') BY <1>1, <2>4, <2>5, <2>6, FreshConcat DEF SurvivorInv
  <2>8. FreshText(acc)' BY <2>1, <2>7 DEF FreshText, Fresh
  <2>9. worker' \in {"pump", "ended"} BY <1>11, PumpItemMoves
  <2>10. \A i \in 1..Len(queue') : queue'[i].gen = myGen' => FreshText(queue'[i].text)
    BY <1>1, <2>1, <2>2, <2>3 DEF SurvivorInv
  <2>11. \A i \in 1..Len(queue') : queue'[i].gen = myGen' => FreshText(queue[i].text)'
    BY <2>1, <2>10 DEF FreshText, Fresh
  <2>12. \A r \in Infers : run'[r] = "live" /\ r # k' =>
           r \in DOMAIN survivors' /\ survivors'[r] <= Len(sent'[r])
    BY <1>1, <2>1 DEF SurvivorInv
  <2> QED BY <2>8, <2>9, <2>11, <2>12 DEF SurvivorInv
<1>12. ASSUME NEW r \in Infers, Vendor(r) PROVE SurvivorInv'
  <2>1. run[r] = "live" /\ UNCHANGED <<k, worker, myGen, acc, survivors>>
    BY <1>12 DEF Vendor, VendorEnd, VendorToken
  <2>2. FreshText(acc)' BY <1>1, <2>1 DEF SurvivorInv, FreshText, Fresh
  <2>3. SUFFICES ASSUME worker \in {"check", "run", "pump"} PROVE SurvivorInv'
    BY <2>1, <2>2 DEF SurvivorInv
  <2>4. PICK it \in ItemType : queue' = Append(queue, it) /\ FreshText(it.text)
    <3>1. CASE VendorEnd(r)
      <4> DEFINE it == [gen |-> generation, state |-> "finish", text |-> <<>>]
      <4>1. it \in ItemType
        <5>1. generation \in 0..MaxInfers BY DEF Inv, TypeOK
        <5> QED BY <5>1 DEF ItemType, Text
      <4>2. queue' = Append(queue, it) BY <3>1 DEF VendorEnd, Enqueue
      <4>3. FreshText(it.text) BY DEF FreshText
      <4> HIDE DEF it
      <4> QED BY <4>1, <4>2, <4>3
    <3>2. ASSUME NEW kind \in Tokens, VendorToken(r, kind)
          PROVE  \E it \in ItemType : queue' = Append(queue, it) /\ FreshText(it.text)
      <4> DEFINE t == Pieces(r, Len(sent[r]) + 1, kind)
                 it == [gen |-> generation, state |-> kind, text |-> t]
      <4>1. queue' = Append(queue, it) BY <3>2 DEF VendorToken, Enqueue
      <4>2. t \in Text
        <5>1. Len(sent[r]) \in Nat BY <1>1, LenProperties DEF Text
        <5>2. Len(sent[r]) + 1 \in 1..MaxTokens
          BY <3>2, <5>1, RkllmNodeAssumption DEF VendorToken
        <5> QED BY <5>2, PiecesType
      <4>3. FreshText(t) BY <2>1, <2>3, FreshPieces
      <4> HIDE DEF t
      <4>4. it \in ItemType
        <5>1. generation \in 0..MaxInfers BY DEF Inv, TypeOK
        <5> QED BY <4>2, <5>1 DEF ItemType
      <4>5. it.text = t OBVIOUS
      <4> HIDE DEF it
      <4> QED BY <4>1, <4>3, <4>4, <4>5
    <3> QED BY <1>12, <3>1, <3>2 DEF Vendor
  <2>5. /\ Len(queue') = Len(queue) + 1
        /\ \A i \in 1..Len(queue) : queue'[i] = queue[i]
        /\ queue'[Len(queue) + 1] = it
    BY <1>1, <2>4, AppendProperties
  <2>6. ASSUME NEW i \in 1..Len(queue'), queue'[i].gen = myGen
        PROVE  FreshText(queue'[i].text)
    <3>1. i \in 1..Len(queue) \/ i = Len(queue) + 1 BY <1>1, <2>5
    <3> QED BY <1>1, <2>3, <2>4, <2>5, <2>6, <3>1 DEF SurvivorInv
  <2>7. \A i \in 1..Len(queue') : queue'[i].gen = myGen' => FreshText(queue[i].text)'
    BY <2>1, <2>6 DEF FreshText, Fresh
  <2>8. \A p \in Infers : Len(sent[p]) \in Nat /\ Len(sent'[p]) \in Nat
                          /\ Len(sent[p]) <= Len(sent'[p])
    <3> TAKE p \in Infers
    <3>1. sent[p] \in Text /\ Len(sent[p]) \in Nat BY <1>1, LenProperties DEF Text
    <3>2. sent'[p] = sent[p] \/ \E t \in Text : sent'[p] = sent[p] \o t
      <4>1. CASE VendorEnd(r) BY <4>1 DEF VendorEnd
      <4>2. ASSUME NEW kind \in Tokens, VendorToken(r, kind)
            PROVE  sent'[p] = sent[p] \/ \E t \in Text : sent'[p] = sent[p] \o t
        <5> DEFINE t == Pieces(r, Len(sent[r]) + 1, kind)
        <5>1. sent' = [sent EXCEPT ![r] = @ \o t] BY <4>2 DEF VendorToken
        <5>2. t \in Text
          <6>1. Len(sent[r]) \in Nat BY <1>1, LenProperties DEF Text
          <6>2. Len(sent[r]) + 1 \in 1..MaxTokens
            BY <4>2, <6>1, RkllmNodeAssumption DEF VendorToken
          <6> QED BY <6>2, PiecesType
        <5> HIDE DEF t
        <5> QED BY <1>1, <5>1, <5>2
      <4> QED BY <1>12, <4>1, <4>2 DEF Vendor
    <3>3. \A t \in Text : Len(sent[p] \o t) = Len(sent[p]) + Len(t) /\ Len(t) \in Nat
      BY <3>1, ConcatProperties, LenProperties DEF Text
    <3> QED BY <3>1, <3>2, <3>3
  <2>9. \A p \in Infers : run'[p] = "live" => run[p] = "live"
    BY <1>1, <1>12, <2>1 DEF Vendor, VendorEnd, VendorToken
  <2>10. \A p \in Infers : run'[p] = "live" /\ p # k' =>
           p \in DOMAIN survivors' /\ survivors'[p] <= Len(sent'[p])
    <3>1. survivors \in [DOMAIN survivors -> Nat] BY DEF Inv, TypeOK
    <3> QED BY <1>1, <2>1, <2>3, <2>8, <2>9, <3>1 DEF SurvivorInv
  <2> QED BY <2>2, <2>7, <2>10 DEF SurvivorInv
<1> QED
  BY <1>5, <1>6, <1>7, <1>8, <1>9, <1>10, <1>11, <1>12 DEF Next, Node, Worker

-----------------------------------------------------------------------------
(* Theorems *)

\* The invariant of the LLM node: the two threads, the generations and runs, the
\* stream and what the queue carries.
THEOREM Invariance == Spec => []Inv
<1>1. Init => Inv BY InitInv
<1>2. Inv /\ [Next]_vars => Inv'
  BY TypeStep, InferStep, GenerationStep, RunStep, FreshStep, HalfStep, StreamStep,
     AloneStep, SurvivorStep
  DEF Inv
<1> QED BY <1>1, <1>2, PTL DEF Spec

\* The worker of run_rkllm lives inside infer() and the backend's running flag covers
\* the vendor's run.
THEOREM WorkerStaysInside == Spec => []WorkerInsideInfer
<1>1. Inv => WorkerInsideInfer BY DEF Inv, InferInv, WorkerInsideInfer
<1> QED BY <1>1, Invariance, PTL

\* The answer acknowledged is the one streamed, but for the white space behind the end
\* tag, whatever tokens the vendor sent.
THEOREM AnswerIsStream == Spec => []DoneMatchesStream
<1>1. Inv => DoneMatchesStream
  <2> SUFFICES ASSUME Inv, worker = "done", done # <<>>, Cardinality(Tags(acc)) <= 1
               PROVE  done = IF Tags(acc) = {} THEN streamed ELSE Trim(streamed)
    BY DEF DoneMatchesStream
  <2>1. acc \in Seq(PieceType) BY DEF Inv, TypeOK
  <2>2. DOMAIN acc = 1..Len(acc) /\ Len(acc) \in Nat BY <2>1, LenProperties
  <2>3. IsFiniteSet(Tags(acc))
    <3>1. IsFiniteSet(1..Len(acc)) BY <2>2, FS_Interval
    <3>2. Tags(acc) \in SUBSET (1..Len(acc)) BY <2>2 DEF Tags
    <3> QED BY <3>1, <3>2, FS_Subset
  <2>4. OneTag(acc)
    <3> SUFFICES ASSUME NEW i \in Tags(acc), NEW j \in Tags(acc), i # j PROVE FALSE
      BY DEF OneTag
    <3>1. IsFiniteSet({i}) /\ Cardinality({i}) = 1 BY FS_Singleton
    <3>2. Cardinality({i} \cup {j}) = Cardinality({i}) + 1 BY <3>1, FS_AddElement
    <3>3. {i} \cup {j} \in SUBSET Tags(acc) OBVIOUS
    <3>4. Cardinality({i} \cup {j}) <= Cardinality(Tags(acc)) BY <2>3, <3>3, FS_Subset
    <3>5. Cardinality(Tags(acc)) \in Nat BY <2>3, FS_CardinalityType
    <3> DEFINE two == Cardinality({i} \cup {j})
               all == Cardinality(Tags(acc))
    <3>6. two = 1 + 1 /\ two <= all /\ all <= 1 /\ all \in Nat BY <3>1, <3>2, <3>4, <3>5
    <3> HIDE DEF two, all
    <3> QED BY <3>6
  <2> QED BY <2>4 DEF Inv, StreamInv, Shown, StripThink
<1> QED BY <1>1, Invariance, PTL

\* An answer holds nothing emitted before its generate() began, and, with no other run
\* live at that time, its own run whole.
THEOREM AnswersAreFresh == Spec => []AnswerIsFresh
<1>1. Inv => AnswerIsFresh
  BY DEF Inv, AloneInv, SurvivorInv, FreshText, AnswerIsFresh
<1> QED BY <1>1, Invariance, PTL

=============================================================================
