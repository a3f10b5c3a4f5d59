------------------------------ MODULE YunqWire ------------------------------
(***************************************************************************)
(* The Yunq wire format: how the generated C++ and Rust code of a message  *)
(* writes it to a buffer, and how it is read back.                         *)
(*                                                                         *)
(* A message is the sequence of its field values, its type the sequence of *)
(* its field types.  The six methods generated for a message class differ  *)
(* from those of another only in its fields, so the class is its type and  *)
(* the methods are the operators CppSerialize and CppParse.  A buffer maps *)
(* the offsets where something was written to its length and value; to     *)
(* write over part of an older value destroys it.  A string is a length    *)
(* and a name for its contents.                                            *)
(***************************************************************************)
EXTENDS Integers, Sequences, TLC
LOCAL INSTANCE SequencesExt

Junk == -1                    \* bytes that are not a value anyone wrote
Invalid == <<>>               \* no message: the parse failed

----------------------------------------------------------------------------
(* ByteBuffer and CapBuffer.                                               *)

EmptyBuffer == [o \in {} |-> [len |-> 0, val |-> 0]]

WriteAt(buf, o, n, v) ==
  LET kept == {x \in DOMAIN buf : x + buf[x].len <= o \/ x >= o + n}
  IN  IF n = 0 THEN buf
      ELSE (o :> [len |-> n, val |-> v]) @@ [x \in kept |-> buf[x]]

At(buf, o, n) ==
  IF o \in DOMAIN buf /\ buf[o].len = n THEN buf[o].val ELSE Junk

StringAt(buf, o, n) ==
  [len |-> n, id |-> IF n = 0 THEN 0 ELSE At(buf, o, n)]

\* The first n bytes of src, copied over buf.
Overlay(buf, src, n) ==
  LET new == {x \in DOMAIN src : x + src[x].len <= n}
      old == {x \in DOMAIN buf : x >= n}
  IN  [x \in new |-> src[x]] @@ [x \in old |-> buf[x]]

\* A CapBuffer holds used_slots_ ids; one is written over, or behind them.
CapWriteAt(caps, i, v) ==
  IF i < Len(caps) THEN [caps EXCEPT ![i + 1] = v] ELSE Append(caps, v)

CapAt(caps, i) == IF i + 1 \in DOMAIN caps THEN caps[i + 1] ELSE Junk

----------------------------------------------------------------------------
(* Field types.                                                            *)

U64 == [t |-> "u64", of |-> <<>>]
Capab == [t |-> "cap", of |-> <<>>]
Str == [t |-> "string", of |-> <<>>]
RepU64 == [t |-> "repu64", of |-> <<>>]
Msg(type) == [t |-> "msg", of |-> type]
Rep(type) == [t |-> "rep", of |-> type]

kHeaderSize == 24
kIdentByte == 858001698       \* 0x33441122

FieldOffset(off, i) == off + kHeaderSize + 8 * (i - 1)

CoreSize(type) == kHeaderSize + 8 * Len(type)

ExtensionPointer(buf, at, ext, n) == WriteAt(WriteAt(buf, at, 4, ext), at + 4, 4, n)

WriteHeader(buf, off, core, ext) ==
  WriteAt(WriteAt(WriteAt(WriteAt(buf, off, 4, kIdentByte),
    off + 4, 4, core), off + 8, 4, ext), off + 12, 4, 0)

CheckHeader(buf, off) == At(buf, off, 4) = kIdentByte

----------------------------------------------------------------------------
(* The C++ serializer.  w is the Serializer: its buffer, next_extension_,  *)
(* next_cap_ and capability buffer.                                        *)

RECURSIVE CppSerialize(_, _, _, _, _)

WriteCapability(w, at, v) ==
  [w EXCEPT !.buf = WriteAt(@, at, 8, w.cap),
            !.caps = CapWriteAt(@, w.cap, v), !.cap = @ + 1]

\* Mutant: next_extension_ is not moved past the string.
WriteStringKeepsExtension(w, at, off, v) ==
  [w EXCEPT !.buf = ExtensionPointer(WriteAt(@, off + w.ext, v.len, v.id),
                                     at, w.ext, v.len)]

WriteString(w, at, off, v) ==
  [w EXCEPT !.buf = ExtensionPointer(WriteAt(@, off + w.ext, v.len, v.id),
                                     at, w.ext, v.len),
            !.ext = @ + v.len]

WriteRepeated(w, at, off, v) ==
  [w EXCEPT !.buf = FoldLeftDomain(
                      LAMBDA b, i : WriteAt(b, off + w.ext + 8 * (i - 1), 8, v[i]),
                      ExtensionPointer(@, at, w.ext, 8 * Len(v)), v),
            !.ext = @ + 8 * Len(v)]

\* A nested message gets a Serializer of its own on the same buffers.
WriteMessage(w, at, off, type, v) ==
  LET s == CppSerialize(type, v, w.buf, w.caps, off + w.ext)
  IN  [w EXCEPT !.buf = ExtensionPointer(s.buf, at, w.ext, s.len),
                !.caps = s.caps, !.ext = @ + s.len]

WriteRepeatedMessage(w, at, off, type, v) ==
  LET Add(a, x) == LET s == CppSerialize(type, x, a.buf, a.caps, off + a.ext)
                   IN  [a EXCEPT !.buf = s.buf, !.caps = s.caps, !.ext = @ + s.len]
      all == FoldLeft(Add, w, v)
  IN  [all EXCEPT !.buf = ExtensionPointer(@, at, w.ext, all.ext - w.ext)]

CppWriteField(w, off, i, f, v) ==
  LET at == FieldOffset(off, i)
  IN  CASE f.t = "u64" -> [w EXCEPT !.buf = WriteAt(@, at, 8, v)]
        [] f.t = "cap" -> WriteCapability(w, at, v)
        [] f.t = "string" -> WriteString(w, at, off, v)
        [] f.t = "repu64" -> WriteRepeated(w, at, off, v)
        [] f.t = "msg" -> WriteMessage(w, at, off, f.of, v)
        [] f.t = "rep" -> WriteRepeatedMessage(w, at, off, f.of, v)

\* SerializeToBytes: every field in order, the header last.
CppSerialize(type, m, buf, caps, off) ==
  LET new == [buf |-> buf, ext |-> CoreSize(type), cap |-> 0, caps |-> caps]
      w == FoldLeftDomain(LAMBDA a, i : CppWriteField(a, off, i, type[i], m[i]), new, type)
  IN  [buf |-> WriteHeader(w.buf, off, CoreSize(type), w.ext),
       caps |-> w.caps, len |-> w.ext]

----------------------------------------------------------------------------
(* The C++ MessageView.  A nested message is parsed without the            *)
(* capability buffer, and its parse error is not looked at.                *)

RECURSIVE Unparsed(_), CppParse(_, _, _, _, _), ReadRepeatedMessage(_, _, _, _, _)

\* A message as its constructor leaves it: integers are not initialized.
Unparsed(type) ==
  [i \in DOMAIN type |->
     CASE type[i].t \in {"u64", "cap"} -> Junk
       [] type[i].t = "string" -> [len |-> 0, id |-> 0]
       [] type[i].t \in {"repu64", "rep"} -> <<>>
       [] type[i].t = "msg" -> Unparsed(type[i].of)]

ReadCapability(buf, at, caps, inline) ==
  IF inline THEN At(buf, at, 8) ELSE CapAt(caps, At(buf, at, 8))

ReadRepeated(buf, o, n) == [i \in 1..(n \div 8) |-> At(buf, o + 8 * (i - 1), 8)]

ReadMessage(type, buf, o, caps) ==
  IF CheckHeader(buf, o) THEN CppParse(type, buf, o, caps, TRUE) ELSE Unparsed(type)

\* The first element that is not a message ends the list.
ReadRepeatedMessage(type, buf, o, end, caps) ==
  IF o >= end THEN <<>>
  ELSE <<ReadMessage(type, buf, o, caps)>>
       \o IF CheckHeader(buf, o)
          THEN ReadRepeatedMessage(type, buf, o + At(buf, o + 8, 4), end, caps) ELSE <<>>

CppReadField(buf, off, i, f, caps, inline) ==
  LET at == FieldOffset(off, i)
      o == off + At(buf, at, 4)
      n == At(buf, at + 4, 4)
  IN  CASE f.t = "u64" -> At(buf, at, 8)
        [] f.t = "cap" -> ReadCapability(buf, at, caps, inline)
        [] f.t = "string" -> StringAt(buf, o, n)
        [] f.t = "repu64" -> ReadRepeated(buf, o, n)
        [] f.t = "msg" -> ReadMessage(f.of, buf, o, caps)
        [] f.t = "rep" -> ReadRepeatedMessage(f.of, buf, o, o + n, caps)

CppParse(type, buf, off, caps, inline) ==
  IF CheckHeader(buf, off)
  THEN [i \in DOMAIN type |-> CppReadField(buf, off, i, type[i], caps, inline)]
  ELSE Invalid

----------------------------------------------------------------------------
(* The Rust code.  Capabilities of nested messages share one list; the     *)
(* length of a repeated field is its number of elements, and its elements  *)
(* are at next_extension from the start of the buffer, not of the message. *)

RECURSIVE RustSerialize(_, _, _, _, _)

RustWriteField(w, off, i, f, v) ==
  LET at == FieldOffset(off, i)
      s == RustSerialize(f.of, v, w.buf, w.caps, off + w.ext)
      Add(a, x) == LET r == RustSerialize(f.of, x, a.buf, a.caps, a.ext)
                   IN  [a EXCEPT !.buf = r.buf, !.caps = r.caps, !.ext = @ + r.len]
      all == FoldLeft(Add, w, v)
  IN  CASE f.t = "u64" -> [w EXCEPT !.buf = WriteAt(@, at, 8, v)]
        [] f.t = "cap" -> [w EXCEPT !.buf = WriteAt(@, at, 8, Len(w.caps)),
                                    !.caps = Append(@, v)]
        [] f.t = "string" -> WriteString(w, at, off, v)
        [] f.t = "msg" -> [w EXCEPT !.buf = ExtensionPointer(s.buf, at, w.ext, s.len),
                                    !.caps = s.caps, !.ext = @ + s.len]
        [] f.t = "rep" -> [all EXCEPT !.buf = ExtensionPointer(@, at, w.ext, Len(v))]
        [] f.t = "repu64" ->
             [w EXCEPT !.buf = ExtensionPointer(
                         FoldLeftDomain(LAMBDA b, j : WriteAt(b, w.ext + 8 * (j - 1), 8, v[j]), @, v),
                         at, w.ext, Len(v)),
                       !.ext = @ + 8 * Len(v)]

RustSerialize(type, m, buf, caps, off) ==
  LET new == [buf |-> buf, ext |-> CoreSize(type), caps |-> caps]
      w == FoldLeftDomain(LAMBDA a, i : RustWriteField(a, off, i, type[i], m[i]), new, type)
  IN  [buf |-> WriteHeader(w.buf, off, CoreSize(type), w.ext),
       caps |-> w.caps, len |-> w.ext]

RECURSIVE RustParse(_, _, _, _), ParseRepeatedMessage(_, _, _, _, _)

ParseRepeatedMessage(type, buf, o, n, caps) ==
  IF n = 0 THEN <<>>
  ELSE <<RustParse(type, buf, o, caps)>>
       \o ParseRepeatedMessage(type, buf, o + At(buf, o + 8, 4), n - 1, caps)

RustReadField(buf, off, i, f, caps) ==
  LET at == FieldOffset(off, i)
      o == At(buf, at, 4)
      n == At(buf, at + 4, 4)
  IN  CASE f.t = "u64" -> At(buf, at, 8)
        [] f.t = "cap" -> CapAt(caps, At(buf, at, 8))
        [] f.t = "string" -> StringAt(buf, off + o, n)
        [] f.t = "msg" -> RustParse(f.of, buf, off + o, caps)
        [] f.t = "rep" -> ParseRepeatedMessage(f.of, buf, o, n, caps)
        [] f.t = "repu64" -> [j \in 1..n |-> At(buf, o + 8 * (j - 1), 8)]

\* The error of a nested message is the error of the whole.
RustParse(type, buf, off, caps) ==
  LET m == [i \in DOMAIN type |-> RustReadField(buf, off, i, type[i], caps)]
      parsed == \A i \in DOMAIN type :
        /\ type[i].t = "msg" => m[i] # Invalid
        /\ type[i].t = "rep" => \A j \in DOMAIN m[i] : m[i][j] # Invalid
  IN  IF CheckHeader(buf, off) /\ parsed THEN m ELSE Invalid

Serialize(lang, type, m, buf, off) ==
  IF lang = "cpp" THEN CppSerialize(type, m, buf, <<>>, off)
  ELSE RustSerialize(type, m, buf, <<>>, off)

Parse(lang, type, buf, caps, off) ==
  IF lang = "cpp" THEN CppParse(type, buf, off, caps, FALSE)
  ELSE RustParse(type, buf, off, caps)
=============================================================================
