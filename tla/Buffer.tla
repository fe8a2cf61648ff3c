------------------------------- MODULE Buffer -------------------------------
(***************************************************************************)
(* buzz::Buffer (src/Buffer.h, src/buzz/Buffer.cpp): a vector of cells     *)
(* with m_reader_index <= m_writer_index <= size.  The readable region     *)
(* [reader, writer) is the content; [0, reader) is prependable and         *)
(* [writer, size) writable.  Indices are 0-based as in the code; cell i    *)
(* of the vector is buf[i + 1].                                            *)
(*                                                                         *)
(* A Buffer is owned by one connection and touched only on its loop        *)
(* thread, so every operation is one atomic step.  readv returning -1 or 0 *)
(* leaves the buffer unchanged and is not a step.                          *)
(***************************************************************************)
EXTENDS Naturals, Sequences, SequencesExt

CONSTANTS
    Bytes,        \* byte values that are written into a buffer
    Zero,         \* the value of a value-initialised cell
    CheapPrepend, \* kCheapPrepend
    InitialSize,  \* kInitialSize
    ExtraBuf,     \* sizeof(extrabuf) in ReadFd
    MaxLen,       \* longest append or read
    MaxContent    \* bound on the readable bytes

ASSUME /\ Zero \notin Bytes
       /\ {CheapPrepend, InitialSize, ExtraBuf, MaxLen, MaxContent} \subseteq Nat \ {0}

VARIABLES
    buf,     \* m_buffer
    reader,  \* m_reader_index
    writer   \* m_writer_index

vars == <<buf, reader, writer>>

\* The three members as one record, for the member functions that call
\* each other.
B == [cells |-> buf, r |-> reader, w |-> writer]

ReadableBytes(b) == b.w - b.r
WritableBytes(b) == Len(b.cells) - b.w
PrependableBytes(b) == b.r
Peek(b) == SubSeq(b.cells, b.r + 1, b.w)

\* std::copy of s to Begin() + at.
CopyTo(cells, s, at) ==
    [i \in 1..Len(cells) |-> IF at < i /\ i <= at + Len(s) THEN s[i - at] ELSE cells[i]]

\* std::vector::resize to a larger n: the new cells are value-initialised.
Resize(cells, n) == cells \o [i \in 1..(n - Len(cells)) |-> Zero]

\* Mutant: the readable bytes are copied from the start of the vector.
MakeSpaceFromBegin(b, len) ==
    IF WritableBytes(b) + PrependableBytes(b) < len + CheapPrepend
    THEN [b EXCEPT !.cells = Resize(@, b.w + len)]
    ELSE [cells |-> CopyTo(b.cells, SubSeq(b.cells, 1, ReadableBytes(b)), CheapPrepend),
          r |-> CheapPrepend, w |-> CheapPrepend + ReadableBytes(b)]

\* Grow the vector, or move the readable bytes back to kCheapPrepend.
MakeSpace(b, len) ==
    IF WritableBytes(b) + PrependableBytes(b) < len + CheapPrepend
    THEN [b EXCEPT !.cells = Resize(@, b.w + len)]
    ELSE [cells |-> CopyTo(b.cells, Peek(b), CheapPrepend),
          r |-> CheapPrepend, w |-> CheapPrepend + ReadableBytes(b)]

EnsureWritableBytes(b, len) ==
    IF WritableBytes(b) < len THEN MakeSpace(b, len) ELSE b

\* Buffer::Append(data, len): make room, copy, HasWriten(len).
AppendTo(b, s) ==
    LET e == EnsureWritableBytes(b, Len(s))
    IN  [e EXCEPT !.cells = CopyTo(@, s, e.w), !.w = @ + Len(s)]

\* What one readv can return: the writable space, and extrabuf when that
\* space is smaller than extrabuf (iov_cnt = 2).
ReadCapacity(b) ==
    WritableBytes(b) + (IF WritableBytes(b) < ExtraBuf THEN ExtraBuf ELSE 0)

\* Mutant: the writer index is advanced by n whatever the writable space.
ReadFdIntoOneIov(b, s) == [b EXCEPT !.cells = CopyTo(@, s, b.w), !.w = @ + Len(s)]

\* Buffer::ReadFd after readv returned n = Len(s) > 0 bytes s: the first
\* `writable` of them are in place; the rest, in extrabuf, are appended.
ReadFdInto(b, s) ==
    LET writable == WritableBytes(b)
    IN  IF Len(s) <= writable
        THEN [b EXCEPT !.cells = CopyTo(@, s, b.w), !.w = @ + Len(s)]
        ELSE AppendTo([b EXCEPT !.cells = CopyTo(@, SubSeq(s, 1, writable), b.w),
                                !.w = Len(b.cells)],
                      SubSeq(s, writable + 1, Len(s)))

Set(b) == buf' = b.cells /\ reader' = b.r /\ writer' = b.w

Data == SeqOf(Bytes, MaxLen) \ {<<>>}

-----------------------------------------------------------------------------
\* Buffer::Append (the name Append is taken by Sequences).
AppendBytes(s) ==
    /\ ReadableBytes(B) + Len(s) <= MaxContent
    /\ Set(AppendTo(B, s))

\* Retrieve(len) and RetrieveUntil: callers pass len <= ReadableBytes()
\* (HandleWrite retrieves what ::write accepted); the assert is not compiled.
Retrieve(len) ==
    /\ len \in 1..ReadableBytes(B)
    /\ reader' = reader + len
    /\ UNCHANGED <<buf, writer>>

\* RetrieveAll, and RetrieveAsString which ends with it.
RetrieveAll ==
    /\ reader' = CheapPrepend /\ writer' = CheapPrepend
    /\ UNCHANGED buf

\* Buffer::ReadFd, readv returning the bytes s.
ReadFd(s) ==
    /\ Len(s) <= ReadCapacity(B)
    /\ ReadableBytes(B) + Len(s) <= MaxContent
    /\ Set(ReadFdInto(B, s))

Init ==
    /\ buf = [i \in 1..(CheapPrepend + InitialSize) |-> Zero]
    /\ reader = CheapPrepend
    /\ writer = CheapPrepend

Next ==
    \/ \E s \in Data : AppendBytes(s) \/ ReadFd(s)
    \/ \E len \in 1..MaxContent : Retrieve(len)
    \/ RetrieveAll

Spec == Init /\ [][Next]_vars

-----------------------------------------------------------------------------
\* The index order of the class comment, with the cells' values.
TypeOK ==
    /\ buf \in Seq(Bytes \cup {Zero})
    /\ reader \in Nat /\ writer \in Nat
    /\ reader <= writer /\ writer <= Len(buf)

\* Refinement: the readable region behaves as a byte FIFO through Append,
\* ReadFd (both iovecs), Retrieve and MakeSpace's grow and move branches.
BQ == INSTANCE ByteQueue WITH content <- Peek(B)

Refines == BQ!Spec

=============================================================================
