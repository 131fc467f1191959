---------------------------- MODULE WireFormats ----------------------------
(***************************************************************************)
(* What travels between the processes, and into them: MessageEnvelope       *)
(* (libs/protocol), DataplaneEvent and its base64 (libs/dataplane, twice),  *)
(* its conversions from and to a BackendEvent, and WavReader (libs/common). *)
(*                                                                         *)
(* JSON text is its value, [t |-> type, v |-> content]; a string is "",     *)
(* "a", a type's name, or "bad", which is not UTF-8, and a number is       *)
(* written as a string.  A base64 character is its value, Pad, or a larger  *)
(* number if it is none.                                                   *)
(***************************************************************************)
EXTENDS Integers, Sequences, FiniteSets, SequencesExt

CONSTANTS
  IntBits,  \* width of the accumulator, an int: 32 in the code
  MaxSize   \* how long a message may be: kMaxSerializedBytes

ASSUME WireFormatsAssumption == IntBits \in {16, 32} /\ MaxSize \in Nat

-----------------------------------------------------------------------------
(* message_envelope.cpp *)

TypeNames == {"setup", "inference", "cancel", "taskinfo", "exit", "event", "ack", "error"}

Version == "1"

Str(s) == [t |-> "str", v |-> s]
Num(n) == [t |-> "int", v |-> n]
Bool(b) == [t |-> "bool", v |-> b]

\* The length of a whole text, as the number of its values; "huge" is a payload that fits
\* in no message, "long" one that leaves room for twelve other values.
Length(content) ==
  CASE content = "huge" -> MaxSize + 1
    [] content = "long" -> MaxSize - 12
    [] OTHER            -> 1

Size(obj) ==
  Cardinality(DOMAIN obj)
    + (IF "error" \in DOMAIN obj THEN Cardinality(DOMAIN obj.error) ELSE 0)
    + (IF "payload" \in DOMAIN obj THEN Length(obj.payload.v) ELSE 0)

Fits(obj) == Size(obj) <= MaxSize

\* Serialising replaces what is not UTF-8 instead of throwing, in the payload as well.
Replace(s) == IF s = "bad" THEN "?" ELSE s
Written(payload) == IF payload.v = "bad" THEN [payload EXCEPT !.v = "?"] ELSE payload

NoError(error) == error.code = "0" /\ error.message = ""

\* to_json: the fields, or the error that the message is too long.
ToJson(env) ==
  LET error == IF NoError(env.error) THEN [t |-> "obj", v |-> ""]
               ELSE [t |-> "obj", v |-> "", code |-> Num(env.error.code),
                     message |-> Str(Replace(env.error.message))]
      obj == [version |-> Num(env.version), type |-> Str(env.type), finish |-> Bool(env.finish),
              work_id |-> Str(Replace(env.work_id)), request_id |-> Str(Replace(env.request_id)),
              session_id |-> Str(Replace(env.session_id)),
              index |-> Num(env.index), timestamp_ms |-> Num(env.timestamp_ms),
              payload |-> Written(env.payload), error |-> error]
  IN [ok |-> Fits(obj), code |-> "oversized", obj |-> obj]

\* json.value(): the types that convert to the one asked for, and what they become.  An
\* int is taken from a Boolean too, and keeps 32 bits of a wider integer: Wide is 2^32 + 1.
Converts == [str |-> {"str"}, int |-> {"int", "float", "bool"}, int64 |-> {"int", "float"},
             bool |-> {"bool"}]

Wide == "4294967297"
Narrow(n) == IF n = Wide THEN "1" ELSE n

Convert(j, as) ==
  CASE as = "int" /\ j.t = "bool" -> IF j.v = "true" THEN "1" ELSE "0"
    [] j.t = "float" -> "1"
    [] as = "int" /\ j.t # "bool" /\ j.t # "float" -> Narrow(j.v)
    [] OTHER -> j.v

Value(obj, field, as, default) == IF field \in DOMAIN obj THEN Convert(obj[field], as) ELSE default

Mistyped(obj, fields) ==
  \E f \in DOMAIN fields : f \in DOMAIN obj /\ obj[f].t \notin Converts[fields[f]]

Refuse(code) == [ok |-> FALSE, code |-> code]

Fields == [work_id |-> "str", request_id |-> "str", session_id |-> "str",
           index |-> "int64", timestamp_ms |-> "int64", finish |-> "bool"]

ErrorFields == [code |-> "int", message |-> "str"]

\* from_json, in the order of its checks; whatever a typed access throws is an invalid_json.
FromJson(obj) ==
  LET hasError == "error" \in DOMAIN obj /\ obj.error.t = "obj"
  IN CASE ~Fits(obj) -> Refuse("oversized")
       [] OTHER ->
          IF Mistyped(obj, [version |-> "int"]) THEN Refuse("invalid_json")
          ELSE IF Value(obj, "version", "int", "0") # Version THEN Refuse("unknown_version")
          ELSE IF "type" \notin DOMAIN obj THEN Refuse("missing_field")
          ELSE IF obj.type.t # "str" THEN Refuse("invalid_json")
          ELSE IF obj.type.v \notin TypeNames THEN Refuse("invalid_type")
          ELSE IF Mistyped(obj, Fields) \/ (hasError /\ Mistyped(obj.error, ErrorFields))
            THEN Refuse("invalid_json")
          ELSE [ok |-> TRUE,
                env |-> [version |-> Version, type |-> obj.type.v,
                         work_id |-> Value(obj, "work_id", "str", ""),
                         request_id |-> Value(obj, "request_id", "str", ""),
                         session_id |-> Value(obj, "session_id", "str", ""),
                         index |-> Value(obj, "index", "int64", "-1"),
                         timestamp_ms |-> Value(obj, "timestamp_ms", "int64", "-1"),
                         finish |-> Value(obj, "finish", "bool", "false"),
                         payload |-> IF "payload" \in DOMAIN obj THEN obj.payload
                                     ELSE [t |-> "obj", v |-> ""],
                         error |-> IF hasError
                                     THEN [code |-> Value(obj.error, "code", "int", "0"),
                                           message |-> Value(obj.error, "message", "str", "")]
                                     ELSE [code |-> "0", message |-> ""]]]

-----------------------------------------------------------------------------
(* base64, of dataplane_event.cpp and of common/base64.hpp *)

Pad == 64

\* Mutant: two bytes at the end are padded like one.
Base64EncodeShort(bytes) ==
  LET B(i) == IF i <= Len(bytes) THEN bytes[i] ELSE 0
      Quad(i) == <<B(i) \div 4, (B(i) % 4) * 16 + B(i + 1) \div 16,
                   IF i + 2 <= Len(bytes) THEN (B(i + 1) % 16) * 4 + B(i + 2) \div 64 ELSE Pad,
                   IF i + 2 <= Len(bytes) THEN B(i + 2) % 64 ELSE Pad>>
  IN FlattenSeq([k \in 1..((Len(bytes) + 2) \div 3) |-> Quad(3 * k - 2)])

Base64Encode(bytes) ==
  LET B(i) == IF i <= Len(bytes) THEN bytes[i] ELSE 0
      Quad(i) == <<B(i) \div 4, (B(i) % 4) * 16 + B(i + 1) \div 16,
                   IF i + 1 <= Len(bytes) THEN (B(i + 1) % 16) * 4 + B(i + 2) \div 64 ELSE Pad,
                   IF i + 2 <= Len(bytes) THEN B(i + 2) % 64 ELSE Pad>>
  IN FlattenSeq([k \in 1..((Len(bytes) + 2) \div 3) |-> Quad(3 * k - 2)])

\* The accumulator is never reset: it keeps IntBits bits, of which the last ones are read.
DecodeChar(st, c) ==
  IF st.end \/ c = Pad THEN [st EXCEPT !.end = TRUE]
  ELSE IF c > Pad THEN [st EXCEPT !.ok = FALSE, !.end = TRUE]
  ELSE LET accum == (st.accum * 64 + c) % 2^IntBits
       IN IF st.bits + 6 >= 8
            THEN [st EXCEPT !.accum = accum, !.bits = @ - 2,
                            !.out = Append(@, (accum \div 2^(st.bits - 2)) % 256)]
            ELSE [st EXCEPT !.accum = accum, !.bits = @ + 6]

NothingDecoded == [accum |-> 0, bits |-> 0, out |-> <<>>, ok |-> TRUE, end |-> FALSE]

Base64Decode(chars) ==
  LET last == FoldLeft(DecodeChar, NothingDecoded, chars)
  IN [ok |-> last.ok, bytes |-> last.out]

-----------------------------------------------------------------------------
(* dataplane_event.cpp and to_backend_event: in a payload, <<>> is an absent field *)

ToPayload(e) ==
  [kind |-> <<e.kind>>, text |-> IF e.text = "" THEN <<>> ELSE <<e.text>>,
   pcm |-> IF e.pcm = <<>> THEN <<>> ELSE <<Base64Encode(e.pcm)>>]

FromPayload(j) ==
  LET pcm == IF j.pcm = <<>> THEN [ok |-> TRUE, bytes |-> <<>>] ELSE Base64Decode(Head(j.pcm))
  IN CASE j.kind = <<>> -> Refuse("missing_field")
       [] j.kind # <<>> /\ ~pcm.ok -> Refuse("invalid_json")
       [] OTHER -> [ok |-> TRUE, kind |-> Head(j.kind), pcm |-> pcm.bytes,
                    text |-> IF j.text = <<>> THEN "" ELSE Head(j.text)]

ToEnvelope(e, work_id, request_id) ==
  [type |-> "event", work_id |-> work_id, request_id |-> request_id,
   index |-> e.index, finish |-> e.finish, payload |-> ToPayload(e)]

FromEnvelope(env) ==
  LET e == FromPayload(env.payload)
  IN CASE env.type # "event" -> Refuse("invalid_type")
       [] env.type = "event" /\ ~e.ok -> e
       [] OTHER -> [ok |-> TRUE, event |-> [kind |-> e.kind, text |-> e.text, pcm |-> e.pcm,
                                            index |-> env.index, finish |-> env.finish]]

\* A sample is its two bytes, the low one first.
FromBackend(b) ==
  [kind |-> b.kind, text |-> b.text, pcm |-> FlattenSeq(b.pcm),
   index |-> "-1", finish |-> IF b.kind \in {"final", "done"} THEN "true" ELSE "false"]

\* memcpy is given the number of samples for the number of bytes.
ToBackend(e) ==
  LET samples == Len(e.pcm) \div 2
      Byte(i) == IF i <= samples THEN e.pcm[i] ELSE 0
  IN [ok |-> e.kind \in {"partial", "final", "token", "pcm", "done"},
      kind |-> e.kind, text |-> e.text,
      pcm |-> [i \in 1..samples |-> <<Byte(2 * i - 1), Byte(2 * i)>>]]

-----------------------------------------------------------------------------
(* wav_reader.cpp: a file is the 12 bytes of its head and chunks, each padded to an even *)
(* length, of which the last Cut bytes are missing *)

ChunkSize(c) == 8 + c.len + (c.len % 2)
Extent(chunks) == FoldLeft(LAMBDA n, c : n + ChunkSize(c), 0, chunks)
FileSize(f) == 12 + Extent(f.chunks) - f.cut

Fail(st, why) == [st EXCEPT !.end = TRUE, !.error = why]

ReadFmt(st, c) ==
  IF st.fmt THEN Fail(st, "two fmt")
  ELSE IF c.len < 16 THEN Fail(st, "short fmt")
  ELSE IF c.format # "pcm16" THEN Fail(st, c.format)
  ELSE [st EXCEPT !.fmt = TRUE, !.pos = @ + ChunkSize(c)]

ReadChunk(st, c, size) ==
  IF st.end \/ st.pos + 8 > size THEN [st EXCEPT !.end = TRUE]
  ELSE IF st.pos + 8 + c.len > size THEN Fail(st, "truncated")
  ELSE IF c.tag = "fmt" THEN ReadFmt(st, c)
  ELSE IF c.tag = "other" THEN [st EXCEPT !.pos = @ + ChunkSize(c)]
  ELSE IF ~st.fmt THEN Fail(st, "data before fmt")
  ELSE [st EXCEPT !.end = TRUE, !.data = TRUE, !.off = st.pos + 8, !.samples = c.len \div 2]

NothingRead ==
  [pos |-> 12, fmt |-> FALSE, data |-> FALSE, off |-> 0, samples |-> 0, error |-> "", end |-> FALSE]

ReadWav(f) ==
  LET size == FileSize(f)
      r == FoldLeft(LAMBDA st, c : ReadChunk(st, c, size), NothingRead, f.chunks)
  IN CASE size < 12 -> [ok |-> FALSE, error |-> "too short"]
       [] size >= 12 /\ f.head # "riff wave" -> [ok |-> FALSE, error |-> f.head]
       [] OTHER -> IF r.error = "" /\ r.data
                     THEN [ok |-> TRUE, off |-> r.off, samples |-> r.samples]
                     ELSE [ok |-> FALSE,
                           error |-> IF r.error # "" THEN r.error
                                     ELSE IF ~r.fmt THEN "no fmt" ELSE "no data"]

-----------------------------------------------------------------------------
(* What they promise *)

\* A message that is not accepted is refused by a ProtocolError.  One that is accepted may be
\* too long to be written again, for all its fields are written, those it lacked as well;
\* if it can be written, it comes back as it was taken.
EnvelopeRoundTrips(obj) ==
  LET r == FromJson(obj)
  IN IF r.ok THEN ToJson(r.env).ok => FromJson(ToJson(r.env).obj) = r
     ELSE r.code \in {"oversized", "invalid_json", "unknown_version", "missing_field", "invalid_type"}

\* An envelope of the program that can be written arrives with what is not UTF-8 replaced.
BuiltEnvelopeArrives(env) ==
  LET j == ToJson(env)
      r == FromJson(j.obj)
  IN j.ok /\ env.version = Version =>
       /\ r.ok
       /\ r.env = [env EXCEPT !.work_id = Replace(@), !.request_id = Replace(@),
                              !.session_id = Replace(@), !.error.message = Replace(@),
                              !.payload = Written(@)]

\* Bytes come back from their base64, of a length that is a multiple of four; an event comes
\* back from its envelope.  Of a backend's event, what a remote session hears has the kind,
\* the text and as many samples; that they are the same is not so, see ToBackend.
EventsArrive(bytes) ==
  LET chars == Base64Encode(bytes)
  IN /\ Len(chars) % 4 = 0 /\ Base64Decode(chars) = [ok |-> TRUE, bytes |-> bytes]
     /\ \A kind \in {"partial", "final", "token", "pcm", "done"}, text \in {"", "a"} :
          LET pcm == [i \in 1..(Len(bytes) \div 2) |-> <<bytes[2 * i - 1], bytes[2 * i]>>]
              b == [kind |-> kind, text |-> text, pcm |-> pcm]
              e == FromBackend(b)
              heard == ToBackend(e)
          IN /\ FromEnvelope(ToEnvelope(e, "w", "r")) = [ok |-> TRUE, event |-> e]
             /\ heard.ok /\ heard.kind = kind /\ heard.text = text /\ Len(heard.pcm) = Len(pcm)

\* A file is read if and only if its first data chunk is there completely, after exactly
\* one fmt chunk, which is of the one format; the samples are that chunk's.
WavIsRead(f) ==
  LET Off(d) == 20 + Extent(SubSeq(f.chunks, 1, d - 1))
      IsData(d) == f.chunks[d].tag = "data" /\ \A i \in 1..(d - 1) : f.chunks[i].tag # "data"
      HasFmt(d) == \E i \in 1..(d - 1) :
                     /\ \A j \in 1..(d - 1) : f.chunks[j].tag = "fmt" <=> j = i
                     /\ f.chunks[i].len >= 16 /\ f.chunks[i].format = "pcm16"
      Sound(d) == /\ f.head = "riff wave" /\ IsData(d) /\ HasFmt(d)
                  /\ Off(d) + f.chunks[d].len <= FileSize(f)
  IN /\ ReadWav(f).ok <=> \E d \in DOMAIN f.chunks : Sound(d)
     /\ \A d \in DOMAIN f.chunks : Sound(d) =>
          ReadWav(f).off = Off(d) /\ ReadWav(f).samples = f.chunks[d].len \div 2
=============================================================================
