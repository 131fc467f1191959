---------------------------- MODULE TextStreams ----------------------------
(***************************************************************************)
(* The two decoders that are fed a stream in pieces: NdjsonFrameDecoder     *)
(* (libs/network), which cuts bytes into frames, and SentenceChunker        *)
(* (libs/common), which cuts the tokens of a model into sentences.          *)
(*                                                                         *)
(* A byte is "n" (newline), "r" (carriage return), "!" (one of ! ? ;), one  *)
(* of the three bytes of a Chinese terminator, or "x", any other byte.      *)
(***************************************************************************)
EXTENDS Naturals, Sequences, SequencesExt

CONSTANT MaxFrame  \* max_frame_bytes_

ASSUME TextStreamsAssumption == MaxFrame \in Nat

Cjk == <<"c1", "c2", "c3">>

\* The pieces of a sequence between the elements in Seps; the last may be unfinished.
Pieces(s, Seps) ==
  FoldLeft(LAMBDA ps, e : IF e \in Seps THEN Append(ps, <<>>)
                          ELSE [ps EXCEPT ![Len(ps)] = Append(@, e)], << <<>> >>, s)

-----------------------------------------------------------------------------
(* NdjsonFrameDecoder *)

NewDecoder == [rest |-> <<>>, frames |-> <<>>, over |-> FALSE]

StripCr(line) == IF line # <<>> /\ Last(line) = "r" THEN Front(line) ELSE line

\* The frames of complete lines: an empty line is none.
NonEmpty(lines) ==
  FlattenSeq([i \in DOMAIN lines |-> IF StripCr(lines[i]) = <<>> THEN <<>> ELSE <<StripCr(lines[i])>>])

\* Mutant: the limit is checked only while a line is unfinished.
FrameFeedUnchecked(d, chunk) ==
  LET lines == Pieces(d.rest \o chunk, {"n"})
  IN IF d.over THEN d
     ELSE [rest |-> Last(lines), over |-> Len(Last(lines)) > MaxFrame,
           frames |-> d.frames \o NonEmpty(Front(lines))]

\* feed: complete lines up to one that is too long; then the rest may be too long.  The
\* connection does not feed a decoder that returned kOversized again.
FrameFeed(d, chunk) ==
  LET lines == Pieces(d.rest \o chunk, {"n"})
      long == {i \in 1..(Len(lines) - 1) : Len(StripCr(lines[i])) > MaxFrame}
      whole == IF long = {} THEN Front(lines) ELSE SubSeq(lines, 1, Min(long) - 1)
      over == long # {} \/ Len(Last(lines)) > MaxFrame
  IN IF d.over THEN d
     ELSE [rest |-> IF over THEN <<>> ELSE Last(lines), over |-> over,
           frames |-> d.frames \o NonEmpty(whole)]

-----------------------------------------------------------------------------
(* SentenceChunker *)

NewChunker == [cur |-> <<>>, pending |-> FALSE, out |-> <<>>, skip |-> 0]

\* is_cjk_terminator: all three bytes are in the text of this feed.
IsCjkTerminator(s, i) == i + 2 <= Len(s) /\ \A k \in 0..2 : s[i + k] = Cjk[k + 1]

\* on_terminator: nothing after a terminator, and no sentence begins with one.
OnTerminator(c, punct) ==
  IF c.pending \/ c.cur = <<>> THEN c
  ELSE [c EXCEPT !.out = Append(@, c.cur \o punct), !.cur = <<>>, !.pending = TRUE]

\* feed, of the byte at i of the text s.
FeedByte(c, s, i) ==
  IF c.skip > 0 THEN [c EXCEPT !.skip = @ - 1]
  ELSE IF IsCjkTerminator(s, i) THEN [OnTerminator(c, Cjk) EXCEPT !.skip = 2]
  ELSE IF s[i] = "!" THEN OnTerminator(c, <<"!">>)
  ELSE IF s[i] = "n" THEN OnTerminator(c, <<>>)
  ELSE IF s[i] = "r" THEN c
  ELSE [c EXCEPT !.cur = Append(@, s[i]), !.pending = FALSE]

ChunkerFeed(c, s) == FoldLeftDomain(LAMBDA st, i : FeedByte(st, s, i), c, s)

\* flush: what is left is a sentence, unless one has just ended.
ChunkerFlush(c) == IF c.pending \/ c.cur = <<>> THEN c.out ELSE Append(c.out, c.cur)

-----------------------------------------------------------------------------
(* What they promise of a stream that is given as its pieces *)

Whole(chunks) == FlattenSeq(chunks)

\* The frames are those of the whole text, up to the first line that is too long; until
\* then what waits for its newline is bounded, and no line of the text is too long.
FramesOfTheStream(chunks) ==
  LET d == FoldLeft(FrameFeed, NewDecoder, chunks)
      lines == Pieces(Whole(chunks), {"n"})
  IN IF d.over
       THEN \E i \in DOMAIN lines : /\ Len(lines[i]) > MaxFrame
                                    /\ \A j \in 1..(i - 1) : Len(StripCr(lines[j])) <= MaxFrame
                                    /\ d.frames = NonEmpty(SubSeq(lines, 1, i - 1))
       ELSE /\ d.frames = NonEmpty(Front(lines))
            /\ \A i \in 1..(Len(lines) - 1) : Len(StripCr(lines[i])) <= MaxFrame
            /\ d.rest = Last(lines) /\ Len(d.rest) <= MaxFrame

\* A text as characters: "T" is a Chinese terminator, "Tcut" one whose bytes are fed apart,
\* and "cut" is where one feed ends and the next begins.
Bytes(c) == IF c \in {"T", "Tcut"} THEN Cjk ELSE <<c>>

Terminators == {"T", "!", "n"}

TextOf(chars) ==
  FlattenSeq([i \in DOMAIN chars |-> IF chars[i] \in {"r", "cut"} THEN <<>> ELSE Bytes(chars[i])])

\* The sentence of what lies between two terminators, if there is anything, with the second.
Sentence(chars, terminator) ==
  IF TextOf(chars) = <<>> THEN <<>>
  ELSE <<TextOf(chars) \o (IF terminator = "n" THEN <<>> ELSE Bytes(terminator))>>

TerminatorsIn(chars) ==
  FlattenSeq([i \in DOMAIN chars |-> IF chars[i] \in Terminators THEN <<chars[i]>> ELSE <<>>])

\* The sentences of a text given as characters: it ends as if with a newline.
SentencesOf(chars) ==
  LET pieces == Pieces(chars, Terminators)
      ends == Append(TerminatorsIn(chars), "n")
  IN FlattenSeq([k \in DOMAIN pieces |-> Sentence(pieces[k], ends[k])])
=============================================================================
