----------------------------- MODULE Retrieval -----------------------------
(***************************************************************************)
(* libs/rag: text normalisation and tokens, the knowledge file, the BM25    *)
(* index, the L0-L3 router, and the adapter of rag_node over them.  Texts   *)
(* are sequences of bytes, characters are code points.  Scores are natural  *)
(* numbers, positive for a token that a document has: the code's are        *)
(* doubles, of which only the order and the sign matter here.               *)
(***************************************************************************)
EXTENDS Integers, Sequences, SequencesExt

CONSTANTS
  Weight(_, _, _),   \* a token's score: documents having it, its count, document's length
  Keywords,          \* l0_keywords: texts
  Direct, Context,   \* direct_threshold, context_threshold
  TopK               \* top_k

ASSUME RetrievalAssumption ==
  /\ \A d, f \in 1..3, n \in 1..4 : Weight(d, f, n) \in Nat \ {0}
  /\ Direct \in Int /\ Context \in Int /\ TopK \in Nat

-----------------------------------------------------------------------------
(* text_normalizer.cpp *)

Space == 32

\* decode_utf8 at position i: the code point and the next position.  A byte that cannot
\* begin a character stands for itself; a sequence that is cut short ends the text.
DecodeUtf8(s, i) ==
  LET lead == s[i]
      extra == CASE lead \in 192..223 -> 1 [] lead \in 224..239 -> 2
                 [] lead \in 240..247 -> 3 [] OTHER -> 0
      bits == CASE extra = 1 -> lead % 32 [] extra = 2 -> lead % 16 [] OTHER -> lead % 8
      more == SubSeq(s, i + 1, i + extra)
  IN CASE extra = 0 -> [cp |-> lead, next |-> i + 1]
       [] extra > 0 /\ i + extra > Len(s) -> [cp |-> 0, next |-> Len(s) + 1]
       [] OTHER -> IF \E k \in 1..extra : more[k] \notin 128..191
                     THEN [cp |-> lead, next |-> i + 1]
                     ELSE [cp |-> FoldLeft(LAMBDA cp, b : cp * 64 + (b % 64), bits, more),
                           next |-> i + 1 + extra]

AppendUtf8(cp) ==
  CASE cp < 128 -> <<cp>>
    [] cp \in 128..2047 -> <<192 + (cp \div 64), 128 + (cp % 64)>>
    [] cp \in 2048..65535 -> <<224 + (cp \div 4096), 128 + ((cp \div 64) % 64), 128 + (cp % 64)>>
    [] OTHER -> <<240 + (cp \div 262144), 128 + ((cp \div 4096) % 64),
                  128 + ((cp \div 64) % 64), 128 + (cp % 64)>>

FoldWidth(c) == IF c \in 65281..65374 THEN c - 65248 ELSE IF c = 12288 THEN Space ELSE c

IsSpace(c) == c \in {32, 9, 10, 13}
IsAlnum(c) == c \in (48..57) \cup (65..90) \cup (97..122)
IsCjk(c) == c \in 19968..40959
IsTokenChar(c) == IsAlnum(c) \/ IsCjk(c)
ToLower(c) == IF c \in 65..90 THEN c + 32 ELSE c

\* The loops over a text: decoded one after the other, folded.
CodePoints(s) ==
  LET At(st, i) == IF i < st.next THEN st
                   ELSE LET d == DecodeUtf8(s, i)
                        IN [next |-> d.next, cps |-> Append(st.cps, FoldWidth(d.cp))]
  IN FoldLeftDomain(At, [next |-> 1, cps |-> <<>>], s).cps

Encode(cps) == FlattenSeq([i \in DOMAIN cps |-> AppendUtf8(cps[i])])

\* A space is written when a character follows it; other symbols are dropped.
NormalizeText(s) ==
  LET Char(st, c) ==
        CASE IsSpace(c) -> [st EXCEPT !.space = st.out # <<>>]
          [] IsTokenChar(c) ->
               [out |-> st.out \o (IF st.space THEN <<Space>> ELSE <<>>) \o <<ToLower(c)>>,
                space |-> FALSE]
          [] OTHER -> st
  IN Encode(FoldLeft(Char, [out |-> <<>>, space |-> FALSE], CodePoints(s)).out)

\* Runs of letters and digits, and single Chinese characters.
Tokenize(s) ==
  LET Flush(st) == IF st.run = <<>> THEN st.tokens ELSE Append(st.tokens, st.run)
      Char(st, c) ==
        CASE IsAlnum(c) -> [st EXCEPT !.run = Append(@, ToLower(c))]
          [] IsCjk(c) -> [run |-> <<>>, tokens |-> Append(Flush(st), AppendUtf8(c))]
          [] OTHER -> [run |-> <<>>, tokens |-> Flush(st)]
  IN Flush(FoldLeft(Char, [run |-> <<>>, tokens |-> <<>>], CodePoints(s)))

-----------------------------------------------------------------------------
(* knowledge_store.cpp: a line is "blank", "comment", "broken", or an entry, *)
(* with an id of its own or none *)

\* The identifier of the n-th entry: its own, or k and its number.
EntryId(l, n) == IF l.id = <<>> THEN <<"k", n>> ELSE l.id

\* Comments and empty lines do not count; an error anywhere refuses the whole file.
LoadKnowledge(lines) ==
  LET Line(st, l) ==
        IF ~st.ok \/ l.what \in {"blank", "comment"} THEN st
        ELSE LET id == EntryId(l, Len(st.entries) + 1)
             IN IF l.what = "broken" \/ \E e \in Range(st.entries) : e.id = id
                  THEN [st EXCEPT !.ok = FALSE]
                  ELSE [st EXCEPT !.entries = Append(@, [id |-> id, text |-> l.text])]
  IN FoldLeft(Line, [ok |-> TRUE, entries |-> <<>>], lines)

-----------------------------------------------------------------------------
(* bm25.cpp: an index is the sequence of the documents' tokens *)

AddDocument(index, text) == Append(index, Tokenize(text))

\* build: the documents that have a token, from which its idf is computed.
DocumentFrequency(index) ==
  [t \in UNION {Range(index[d]) : d \in DOMAIN index} |->
     Cardinality({d \in DOMAIN index : t \in Range(index[d])})]

\* score_tokens: each token of the query once, if the document has it.
ScoreTokens(index, query, d) ==
  LET df == DocumentFrequency(index)
      Count(t) == Cardinality({i \in DOMAIN index[d] : index[d][i] = t})
  IN FoldSet(LAMBDA t, sum : sum + Weight(df[t], Count(t), Len(index[d])), 0,
             Range(query) \cap Range(index[d]))

\* Mutant: equal scores are left in any order, here the last document first.
RankUnstable(index, text) ==
  LET query == Tokenize(text)
      hits == {[doc |-> d, score |-> ScoreTokens(index, query, d)] : d \in DOMAIN index}
  IN SetToSortSeq({h \in hits : h.score > 0},
       LAMBDA a, b : a.score > b.score \/ (a.score = b.score /\ a.doc > b.doc))

\* rank: the documents with a score, the best first and then in their order.
Rank(index, text) ==
  LET query == Tokenize(text)
      hits == {[doc |-> d, score |-> ScoreTokens(index, query, d)] : d \in DOMAIN index}
  IN SetToSortSeq({h \in hits : h.score > 0},
       LAMBDA a, b : a.score > b.score \/ (a.score = b.score /\ a.doc < b.doc))

Best(hits) == SubSeq(hits, 1, IF Len(hits) > TopK THEN TopK ELSE Len(hits))
TopKHits(index, text) == Best(Rank(index, text))

-----------------------------------------------------------------------------
(* router.cpp and rag_node *)

\* make_chunks: hits are document indices, entries are in the same order.
MakeChunks(hits, entries) ==
  [i \in DOMAIN hits |-> entries[hits[i].doc] @@ [score |-> hits[i].score]]

FoundIn(part, text) ==
  \E i \in 0..Len(text) : IsPrefix(part, SubSeq(text, i + 1, Len(text)))

\* L1 answers with the text of the first chunk: of no chunk, that is undefined.
ByScore(chunks, top1) ==
  IF top1 < Direct
    THEN [level |-> IF top1 >= Context THEN "l2" ELSE "l3", chunks |-> chunks,
          answer |-> "none", text |-> <<>>]
    ELSE [level |-> "l1", chunks |-> chunks,
          answer |-> IF chunks = <<>> THEN "undefined" ELSE "chunk",
          text |-> IF chunks = <<>> THEN <<>> ELSE Head(chunks).text]

Level(text, hits, entries) ==
  IF \E kw \in Keywords : FoundIn(NormalizeText(kw), text)
    THEN [level |-> "l0", chunks |-> <<>>, answer |-> "stopped", text |-> <<>>]
    ELSE ByScore(MakeChunks(hits, entries), IF hits = <<>> THEN 0 ELSE Head(hits).score)

\* route: the keywords, then the scores, of the normal form of the query.
Route(index, entries, query) ==
  Level(NormalizeText(query), TopKHits(index, NormalizeText(query)), entries)

\* main of rag_node loads the file and builds the index, or ends.
LoadIndex(lines) ==
  LET store == LoadKnowledge(lines)
  IN [ok |-> store.ok, entries |-> store.entries,
      index |-> FoldLeft(LAMBDA x, e : AddDocument(x, e.text), <<>>, store.entries)]

\* infer of rag_node.
RagInfer(node, payload, cancelled) ==
  IF cancelled THEN [code |-> "cancelled"]
  ELSE [code |-> "ok"] @@ Route(node.index, node.entries, payload)

-----------------------------------------------------------------------------
(* What they promise *)

\* Normalising twice changes nothing; the result is valid UTF-8 whatever the bytes were,
\* without a space at an end or two in a row; and a text whose symbols are all spaces has
\* the tokens of its normal form.  (Else a symbol that keeps two words apart in a document
\* joins them in a query.)
SpacedSingly(cps) ==
  \A i \in DOMAIN cps : IsSpace(cps[i]) => i # 1 /\ i # Len(cps) /\ ~IsSpace(cps[i - 1])

IsNormalFormOf(n, s) ==
  /\ NormalizeText(n) = n /\ Encode(CodePoints(n)) = n
  /\ SpacedSingly(CodePoints(n))
  /\ (\A c \in Range(CodePoints(s)) : IsTokenChar(c) \/ IsSpace(c)) => Tokenize(n) = Tokenize(s)

NormalFormIsStable(s) == IsNormalFormOf(NormalizeText(s), s)

\* Identifiers are unique, entries keep their order, and comments and empty lines change
\* nothing; a file that is refused has a broken line or the same identifier twice.
KnowledgeIsSound(lines) ==
  LET store == LoadKnowledge(lines)
      real == SelectSeq(lines, LAMBDA l : l.what \notin {"blank", "comment"})
      Id(i) == EntryId(real[i], i)
      clash == \E i, j \in DOMAIN real : i # j /\ Id(i) = Id(j)
  IN IF store.ok
       THEN /\ ~clash
            /\ store.entries = [i \in DOMAIN real |-> [id |-> Id(i), text |-> real[i].text]]
       ELSE clash \/ \E i \in DOMAIN real : real[i].what = "broken"

\* For an answer or a prompt, the chunks are the best documents that share a token with the
\* query, at most TopK, each once, the best and then the earliest first; a direct answer is
\* the best of them; and a query goes without knowledge only if no document is good enough
\* for a prompt.
AnswersBest(node, tokens, r) ==
  LET Score(d) == ScoreTokens(node.index, tokens, d)
      found == {d \in DOMAIN node.index : Range(tokens) \cap Range(node.index[d]) # {}}
      Better(d, e) == Score(d) > Score(e) \/ (Score(d) = Score(e) /\ d < e)
      Chunk(d) == node.entries[d] @@ [score |-> Score(d)]
  IN /\ r.level \in {"l1", "l2"} =>
          /\ Len(r.chunks) = IF Cardinality(found) < TopK THEN Cardinality(found) ELSE TopK
          /\ \A i \in DOMAIN r.chunks : \E d \in found :
               /\ r.chunks[i] = Chunk(d)
               /\ Cardinality({e \in found : Better(e, d)}) = i - 1
     /\ r.level = "l3" /\ TopK > 0 => \A d \in found : Score(d) < Direct /\ Score(d) < Context
     /\ Direct > 0 => r.answer # "undefined"
     /\ r.level = "l1" /\ found # {} /\ TopK > 0 =>
          \E d \in found : r.text = node.entries[d].text /\ \A e \in found : Score(e) <= Score(d)

RouteIsSound(node, query) ==
  AnswersBest(node, Tokenize(NormalizeText(query)), RagInfer(node, query, FALSE))
=============================================================================
