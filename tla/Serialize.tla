------------------------------- MODULE Serialize -------------------------------
(***************************************************************************)
(* The streams of uclib/serialize.h and uclib/serialize.c: a program writes *)
(* items, the bytes of which go through a buffer, or through an overflow    *)
(* buffer when they do not fit, to memory, to a vector that grows or to a   *)
(* file; later the same items are read, again through both buffers, from    *)
(* memory or from a file that is read in pieces of any size.                *)
(*                                                                         *)
(* Bytes are real for the integers of variable length, whose codes need     *)
(* them: a byte has ByteValues values, 256 in the code, and the limits of   *)
(* the codes follow from it.                                                *)
(***************************************************************************)
EXTENDS Naturals, Integers, Sequences, SequencesExt, FiniteSets, TLC

CONSTANTS ByteValues,      \* 2 ^ 8
          Unsigned, Signed,\* numbers written
          Lengths,         \* lengths of strings and vectors written
          Widths, Counts,  \* bytes and numbers of the data of serialize_multiple
          DiffTypes,       \* serialize_diff_type_t's, each the byte that is its name
          ChunkSize,       \* SERIALIZE_VECTOR_CHUNK_SIZE
          FileBuffer,      \* 4096: the buffer of a file
          DataSize,        \* size of the memory given to serialize_open_data
          FirstVector,     \* 64: the first size of a vector
          MaxItems         \* bound: items written

ASSUME SerializeAssumption ==
    /\ \E k \in 3 .. 8 : ByteValues = 2 ^ k
    /\ DiffTypes \subseteq 0 .. ByteValues - 1
    /\ Widths \subseteq {1, 2, 4} /\ Counts \subseteq Nat
    /\ Unsigned \subseteq Nat /\ Signed \subseteq Int /\ Lengths \subseteq Nat
    /\ {ChunkSize, FileBuffer, DataSize, FirstVector, MaxItems} \subseteq Nat \ {0}

VARIABLES
    stream,     \* serialize_stream_t, the kind of its data function, and its file
    phase,      \* "write", "closed", "read" or "end"
    stored,     \* the bytes after closing
    items,      \* history: the items written
    written,    \* history: their bytes
    got         \* history: the items read back

serializeVars == <<stream, phase, stored, items, written, got>>

Least(a, b) == IF a < b THEN a ELSE b
Room(s, i) == Len(s.buf) - i

\* memset, and what serialize_open_* set.  For a file, out is what was written
\* and in what is left to read.  As history: lost after a write that did not
\* count what it copied, stale after a read with an old index, more after being
\* told wrongly that there is more to read, again after the name of a diff type
\* was written twice.
Stream(kind, buf, in) ==
    [kind |-> kind, buf |-> buf, cur |-> 0, over |-> <<>>, oi |-> 0, eos |-> FALSE, local |-> <<>>,
     in |-> in, out |-> <<>>, lost |-> FALSE, stale |-> FALSE, more |-> FALSE, again |-> FALSE]
Blank(n) == [i \in 1 .. n |-> 0]

\* Bytes stored in a buffer from index i on.
PutAt(buf, i, bytes) == SubSeq(buf, 1, i) \o bytes \o SubSeq(buf, i + Len(bytes) + 1, Len(buf))

\* serialize_integer and its like end the stream when memory is just full or
\* just read.
Ended(s, n) == s.eos \/ (s.cur + n = Len(s.buf) /\ s.kind = "data")

-----------------------------------------------------------------------------
(* Writing *)

\* serialize_vector_write; unix_file_write when write takes everything.
DataWritten(s) ==
    CASE s.kind = "vector" -> IF s.eos THEN s
                              ELSE [s EXCEPT !.buf = @ \o Blank(IF @ = <<>> THEN FirstVector ELSE Len(@))]
      [] s.kind = "file"   -> [s EXCEPT !.out = @ \o SubSeq(s.buf, 1, s.cur), !.cur = 0]

\* The overflow buffer goes to the buffer from index i on, as far as it fits.
Copied(s, i) ==
    LET n == Least(Room(s, i), Len(s.over))
    IN  [s EXCEPT !.buf = PutAt(@, i, SubSeq(s.over, 1, n)), !.over = SubSeq(@, n + 1, Len(@))]

RECURSIVE Flushed(_, _)

\* The loop of serialize_write_not_inline, which keeps its index i in a local
\* variable and stores it only when the data function is called.
Flushed(s, i) ==
    LET s1   == Copied(s, i)
        i1   == i + Least(Room(s, i), Len(s.over))
        full == Room(s1, i1) = 0
        s2   == IF full /\ s1.kind # "data" THEN DataWritten([s1 EXCEPT !.cur = i1]) ELSE s1
        i2   == IF full /\ s1.kind # "data" THEN s2.cur ELSE i1
    IN  IF s2.over = <<>> \/ (full /\ s1.kind = "data") THEN [s |-> s2, i |-> i2]
        ELSE Flushed(s2, i2)

\* serialize_write_not_inline.  What still does not fit goes to the overflow
\* buffer; then what has just been copied from there is not counted, since the
\* index is stored only on the other way out.
WriteNotInline(s, bytes) ==
    LET f == Flushed(s, s.cur)
        t == f.s
    IN  IF t.over # <<>> \/ Room(t, f.i) < Len(bytes)
        THEN [t EXCEPT !.over = @ \o bytes, !.lost = @ \/ f.i # t.cur]
        ELSE [t EXCEPT !.buf = PutAt(@, f.i, bytes), !.cur = f.i + Len(bytes)]

\* serialize_stream_read_write for writing, and the caller that stores its
\* bytes where it is told.
PutBytes(s, bytes) ==
    LET t == [s EXCEPT !.eos = Ended(s, Len(bytes))]
    IN  IF s.over = <<>> /\ s.cur + Len(bytes) <= Len(s.buf)
        THEN [t EXCEPT !.buf = PutAt(@, s.cur, bytes), !.cur = s.cur + Len(bytes)]
        ELSE WriteNotInline(t, bytes)

-----------------------------------------------------------------------------
(* Reading: every outcome, a stream and the bytes or that there are none *)

Outcome(s, bytes) == [s |-> s, ok |-> TRUE, bytes |-> bytes]
PastEnd(s) == [s |-> s, ok |-> FALSE, bytes |-> <<>>]

\* unix_file_read, read taking any number of bytes that are there.  (A read
\* that would block changes nothing and is repeated.)
DataRead(s) ==
    IF s.in = <<>> THEN {[s EXCEPT !.buf = <<>>, !.cur = 0, !.eos = TRUE]}
    ELSE {[s EXCEPT !.buf = SubSeq(s.in, 1, n), !.cur = 0, !.in = SubSeq(@, n + 1, Len(@))] :
              n \in 1 .. Least(FileBuffer, Len(s.in))}

\* A wrong version of the next definition, for a mutation check only.
NotSaved(s) == [s EXCEPT !.cur = Len(s.buf)]

\* What is left in the buffer is saved before the buffer is read anew.
Saved(s) == [s EXCEPT !.over = @ \o SubSeq(s.buf, s.cur + 1, Len(s.buf)), !.cur = Len(s.buf)]

RECURSIVE ReadOn(_, _, _, _, _)

\* The loop of serialize_read_not_inline for n bytes, of which left are still to
\* be had; leftO counts those in the overflow buffer from index oi on.
ReadOn(s, n, left, leftO, oi) ==
    IF left = 0
    THEN IF Len(s.over) < oi + n THEN {PastEnd([s EXCEPT !.stale = @ \/ oi > 0])}
         ELSE {Outcome([s EXCEPT !.oi = oi + n], SubSeq(s.over, oi + 1, oi + n))}
    ELSE LET short == leftO + Room(s, s.cur) < n
             kept  == IF short THEN Room(s, s.cur) ELSE 0
             left1 == left - kept
             left2 == leftO + kept
             next  == IF ~ short THEN {s}
                      ELSE IF s.kind = "data" THEN {[Saved(s) EXCEPT !.eos = TRUE]}
                      ELSE DataRead(Saved(s))
         IN  UNION {
               IF left2 = 0 /\ left1 = n /\ Room(t, t.cur) >= left1
               THEN {Outcome([t EXCEPT !.cur = @ + n, !.eos = Ended(t, n)], SubSeq(t.buf, t.cur + 1, t.cur + n))}
               ELSE IF t.eos THEN {PastEnd(t)}
               ELSE LET m == Least(left1, Room(t, t.cur))
                    IN  ReadOn([t EXCEPT !.over = @ \o SubSeq(t.buf, t.cur + 1, t.cur + m), !.cur = @ + m],
                               n, left1 - m, left2 + m, oi)
               : t \in next}

\* serialize_read_not_inline: an overflow buffer that was read to its end is
\* emptied; the index into it that the rest of the function uses is the old one.
ReadNotInline(s, n) ==
    LET leftO == Len(s.over) - s.oi
    IN  IF leftO >= n
        THEN {Outcome([s EXCEPT !.oi = @ + n], SubSeq(s.over, s.oi + 1, s.oi + n))}
        ELSE ReadOn(IF leftO = 0 THEN [s EXCEPT !.oi = 0, !.over = <<>>] ELSE s, n, n, leftO, s.oi)

\* serialize_stream_read_write for reading.
Get(s, n) ==
    LET t == [s EXCEPT !.eos = Ended(s, n)]
    IN  IF s.over = <<>> /\ s.cur + n <= Len(s.buf)
        THEN {Outcome([t EXCEPT !.cur = @ + n], SubSeq(s.buf, s.cur + 1, s.cur + n))}
        ELSE ReadNotInline(t, n)

-----------------------------------------------------------------------------
(* Items *)

Digits(x, n) == [i \in 1 .. n |-> (x \div ByteValues ^ (i - 1)) % ByteValues]  \* little endian
Fixed(x) == Reverse(Digits(x, 4))               \* serialize_integer of four bytes

\* The numbers of one, two and four bytes.
One  == ByteValues \div 2
Two  == ByteValues ^ 2 \div 4
Four == ByteValues ^ 4 \div 8

\* serialize_likely_small_unsigned_integer
LikelySmall(x) ==
    CASE x < One             -> <<1 + 2 * x>>
      [] x - One < Two       -> Digits(4 * (x - One) + 2, 2)
      [] x - One - Two < Four -> Digits(8 * (x - One - Two) + 4, 4)
      [] OTHER               -> <<0>> \o Digits(x, 8)

\* unserialize_likely_small_unsigned_integer: how many bytes follow y, and the
\* number they make.
BytesAfter(y) == IF y % 2 = 1 THEN 0 ELSE IF (y \div 2) % 2 = 1 THEN 1 ELSE IF (y \div 4) % 2 = 1 THEN 3 ELSE 8
Little(p) == FoldRight(LAMBDA b, x : ByteValues * x + b, p, 0)
Number(y, p) ==
    CASE Len(p) = 0 -> y \div 2
      [] Len(p) = 1 -> One + y \div 4 + (ByteValues \div 4) * Little(p)
      [] Len(p) = 3 -> One + Two + y \div 8 + (ByteValues \div 8) * Little(p)
      [] Len(p) = 8 -> Little(p)

\* serialize_likely_small_signed_integer and back
Folded(s)   == IF s < 0 THEN -(2 * s + 1) ELSE 2 * s
Unfolded(u) == IF u % 2 = 1 THEN -(u \div 2) ELSE u \div 2

Item(type, n) == [type |-> type, n |-> n]
DataType == (1 :> "multiple 1" @@ 2 :> "multiple 2" @@ 4 :> "multiple 4")  \* by the bytes of the data
Items == {Item("unsigned", n) : n \in Unsigned} \cup {Item("signed", n) : n \in Signed}
         \cup {Item(type, n) : type \in {"string", "vector"}, n \in Lengths}
         \cup {Item(DataType[w], n) : w \in Widths, n \in Counts}
         \cup {Item("diff", n) : n \in DiffTypes}

\* What strings, vectors and multiple data hold, in network order, how much of
\* them is passed at a time, and what the reader knows of its length.
DataTypes      == {DataType[w] : w \in Widths}
Width(type)    == IF type \in DataTypes THEN CHOOSE w \in Widths : DataType[w] = type ELSE 1
ByteSize(item) == item.n * Width(item.type)
Payload(item)  == FlattenSeq([i \in 1 .. item.n |-> Reverse(Digits(i, Width(item.type)))])
Piece(item)    == CASE item.type = "string" -> ByteSize(item) [] item.type = "vector" -> ChunkSize
                    [] OTHER -> 4 * Width(item.type)
Chunks(item)   == LET p == Payload(item)
                      m == Piece(item)
                  IN  [k \in 1 .. (IF p = <<>> THEN 0 ELSE (Len(p) + m - 1) \div m) |->
                          SubSeq(p, (k - 1) * m + 1, Least(k * m, Len(p)))]

\* serialize_diff: a type not used before gets the next local index.  The name
\* follows the last index, also when it is not new.
WithType(s, item) ==
    IF item.type # "diff" THEN s
    ELSE IF Contains(s.local, item.n) THEN [s EXCEPT !.again = @ \/ Last(s.local) = item.n]
    ELSE [s EXCEPT !.local = Append(@, item.n)]
LocalIndex(s, type) == CHOOSE i \in 0 .. Len(s.local) - 1 : s.local[i + 1] = type
NamedType(s, type) == IF Last(s.local) = type THEN <<LikelySmall(1), <<type>>>> ELSE <<>>

\* What serialize_get is called for, one after the other: serialize_cstring,
\* serialize_vector with serialize_vec_8, serialize_diff with a type that has
\* nothing to add, and serialize_multiple.
Pieces(s, item) ==
    CASE item.type = "unsigned" -> <<LikelySmall(item.n)>>
      [] item.type = "signed"   -> <<LikelySmall(Folded(item.n))>>
      [] item.type = "string"   -> <<LikelySmall(item.n)>> \o Chunks(item)
      [] item.type = "vector"   -> <<Fixed(item.n)>> \o Chunks(item)
      [] item.type = "diff"     -> <<LikelySmall(LocalIndex(s, item.n))>> \o NamedType(s, item.n)
      [] OTHER                  -> Chunks(item)

\* unserialize_likely_small_unsigned_integer
ReadNumber(s) ==
    UNION {IF ~ o.ok THEN {PastEnd(o.s)}
           ELSE IF BytesAfter(o.bytes[1]) = 0 THEN {[s |-> o.s, ok |-> TRUE, n |-> Number(o.bytes[1], <<>>)]}
           ELSE {IF ~ p.ok THEN PastEnd(p.s) ELSE [s |-> p.s, ok |-> TRUE, n |-> Number(o.bytes[1], p.bytes)] :
                     p \in Get(o.s, BytesAfter(o.bytes[1]))}
           : o \in Get(s, 1)}

RECURSIVE ReadChunks(_, _, _, _)
ReadChunks(s, p, n, m) ==
    IF n = 0 THEN {Outcome(s, p)}
    ELSE UNION {IF o.ok THEN ReadChunks(o.s, p \o o.bytes, n - Len(o.bytes), m) ELSE {o} :
                    o \in Get(s, Least(n, m))}

\* unserialize_cstring and unserialize_vector_ha behind the length, and
\* unserialize_multiple.
ReadBehind(item, s) ==
    {IF o.ok /\ o.bytes = Payload(item) THEN [s |-> o.s, ok |-> TRUE, value |-> item] ELSE PastEnd(o.s) :
         o \in ReadChunks(s, <<>>, ByteSize(item), Piece(item))}

\* unserialize_diff behind the index.
ReadType(s, index) ==
    CASE index < Len(s.local) -> {[s |-> s, ok |-> TRUE, value |-> Item("diff", s.local[index + 1])]}
      [] index > Len(s.local) -> {PastEnd(s)}
      [] OTHER -> UNION {UNION {IF ~ p.ok \/ p.bytes[1] \notin DiffTypes THEN {PastEnd(p.s)}
                                ELSE {[s |-> [p.s EXCEPT !.local = Append(@, p.bytes[1])], ok |-> TRUE,
                                       value |-> Item("diff", p.bytes[1])]}
                                : p \in IF o.ok /\ o.n > 0 THEN Get(o.s, o.n) ELSE {PastEnd(o.s)}}
                         : o \in ReadNumber(s)}

\* The functions that read what Pieces writes.
ReadAs(item, s) ==
    IF item.type \in DataTypes THEN ReadBehind(item, s)
    ELSE IF item.type = "vector"
    THEN UNION {IF o.ok THEN ReadBehind(Item("vector", Little(Reverse(o.bytes))), o.s) ELSE {o} : o \in Get(s, 4)}
    ELSE UNION {IF ~ o.ok THEN {o}
                ELSE CASE item.type = "string"   -> ReadBehind(Item("string", o.n), o.s)
                       [] item.type = "diff"     -> ReadType(o.s, o.n)
                       [] item.type = "signed"   -> {[s |-> o.s, ok |-> TRUE, value |-> Item("signed", Unfolded(o.n))]}
                       [] item.type = "unsigned" -> {[s |-> o.s, ok |-> TRUE, value |-> Item("unsigned", o.n)]}
                : o \in ReadNumber(s)}

-----------------------------------------------------------------------------
(* One stream written and read *)

SerializeInit ==
    /\ \E kind \in {"data", "vector", "file"} :
           stream = Stream(kind, CASE kind = "data" -> Blank(DataSize) [] kind = "file" -> Blank(FileBuffer)
                                   [] kind = "vector" -> <<>>, <<>>)
    /\ phase = "write" /\ stored = <<>> /\ items = <<>> /\ written = <<>> /\ got = <<>>

\* serialize; memory has to be large enough.
Serialize(item) ==
    LET s     == WithType(stream, item)
        bytes == FlattenSeq(Pieces(s, item))
    IN  /\ phase = "write" /\ Len(items) < MaxItems
        /\ stream.kind = "data" => Len(written) + Len(bytes) <= DataSize
        /\ stream' = FoldLeft(PutBytes, s, Pieces(s, item))
        /\ items' = Append(items, item) /\ written' = written \o bytes
        /\ UNCHANGED <<phase, stored, got>>

\* serialize_sync, which calls a data function there has to be.
Sync ==
    /\ phase = "write" /\ stream.kind # "data"
    /\ Len(stream.buf) <= DataSize     \* bound: each time a vector doubles
    /\ stream' = DataWritten(WriteNotInline(stream, <<>>))
    /\ UNCHANGED <<phase, stored, items, written, got>>

\* serialize_read_write_close: memory that was filled to its end is closed.
Closed(s) ==
    LET t == [WriteNotInline(s, <<>>) EXCEPT !.eos = TRUE]
    IN  IF s.eos THEN s
        ELSE [IF t.cur > 0 /\ t.kind # "data" THEN DataWritten(t) ELSE t EXCEPT !.over = <<>>]

\* serialize_close and serialize_close_vector
SerializeClose ==
    /\ phase = "write" /\ phase' = "closed"
    /\ stream' = Closed(stream)
    /\ stored' = IF stream.kind = "file" THEN Closed(stream).out
                 ELSE SubSeq(Closed(stream).buf, 1, Closed(stream).cur)
    /\ UNCHANGED <<items, written, got>>

\* unserialize_open_unix_file and unserialize_open_data
UnserializeOpen ==
    /\ phase = "closed" /\ phase' = "read"
    /\ stored = written /\ ~ stream.again     \* bound: only what was written right is read
    /\ \/ stream' = Stream("data", stored, <<>>)
       \/ stream' = Stream("file", <<>>, stored)
    /\ UNCHANGED <<stored, items, written, got>>

\* unserialize_is_end_of_stream, which counts all of the overflow buffer, also
\* what was read from it.
IsEnd(s) ==
    LET empty == Len(s.over) + Len(s.buf) - s.cur = 0
    IN  IF empty /\ s.kind = "file" THEN {[s |-> t, end |-> t.eos] : t \in DataRead(s)}
        ELSE {[s |-> s, end |-> empty]}

\* A program that reads items until the end of the stream.
Unserialize ==
    /\ phase = "read"
    /\ \E e \in IsEnd(stream) :
           \/ /\ e.end /\ phase' = "end" /\ stream' = e.s /\ UNCHANGED got
           \/ /\ ~ e.end /\ Len(got) = Len(items)
              /\ phase' = "end" /\ stream' = [e.s EXCEPT !.more = TRUE] /\ UNCHANGED got
           \/ /\ ~ e.end /\ Len(got) < Len(items)
              /\ \E o \in ReadAs(items[Len(got) + 1], e.s) :
                     /\ stream' = o.s
                     /\ phase' = IF o.ok THEN "read" ELSE "end"
                     /\ got' = IF o.ok THEN Append(got, o.value) ELSE got
    /\ UNCHANGED <<stored, items, written>>

SerializeNext ==
    \/ \E item \in Items : Serialize(item)
    \/ Sync \/ SerializeClose \/ UnserializeOpen \/ Unserialize

SerializeSpec == SerializeInit /\ [][SerializeNext]_serializeVars

-----------------------------------------------------------------------------
(* Properties *)

\* "Overflow buffer for when there is not enough room at the end of buffer to
\* hold serialized/unserialized data" (serialize.h:49): what was written is in
\* the file, in the buffer or in the overflow buffer, in this order.
WrittenIsKept ==
    phase = "write" => stream.out \o SubSeq(stream.buf, 1, stream.cur) \o stream.over = written

\* A program that reads until the end of the stream gets the items that were
\* written, however their bytes were spread over buffers and reads of the file:
\* until a write loses bytes, the last of the diff types used so far is used
\* again, a read goes on in an overflow buffer that was read before, or the end
\* of the stream is not seen behind an overflow buffer.
ItemsReadBack ==
    /\ ~ stream.lost => WrittenIsKept /\ (phase = "closed" => stored = written)
    /\ IsPrefix(got, items)
    /\ phase = "end" /\ ~ stream.stale => got = items /\ (stream.more => stream.over # <<>>)

=============================================================================
