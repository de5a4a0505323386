------------------------------- MODULE Buffer -------------------------------
(***************************************************************************)
(* muduo::net::Buffer (net/Buffer.h, net/Buffer.cc) as operators on a      *)
(* record: the vector buffer_ with its size, and the two indexes           *)
(*                                                                         *)
(*   | prependable |   readable    |  writable  |                          *)
(*   0        readerIndex     writerIndex     size                         *)
(*                                                                         *)
(* Bytes are integers in the binary protocols and one-character tokens in  *)
(* the text protocols.  A pointer into the readable part is an offset from *)
(* peek(); NULL is -1.  What a method asserts of its caller is a           *)
(* precondition here: the operators that parse streams establish it, and   *)
(* module BufferQueue checks what follows from it.                         *)
(***************************************************************************)
EXTENDS Integers, Sequences

CONSTANTS
  kCheapPrepend,   \* room kept in front of the data
  kInitialSize,    \* writable bytes of a new buffer
  kExtraBuf        \* size of readFd's extrabuf on the stack

ASSUME BufferAssumption ==
  kCheapPrepend \in Nat /\ kInitialSize \in Nat /\ kExtraBuf \in Nat

Zeroed(n) == [i \in 0 .. n - 1 |-> 0]

NewBuffer(n) ==
  [size |-> kCheapPrepend + n, data |-> Zeroed(kCheapPrepend + n),
   reader |-> kCheapPrepend, writer |-> kCheapPrepend]

readableBytes(b) == b.writer - b.reader
writableBytes(b) == b.size - b.writer
prependableBytes(b) == b.reader

\* The readable bytes, as toStringPiece() shows them.
toStringPiece(b) == [i \in 1 .. readableBytes(b) |-> b.data[b.reader + i - 1]]

\* std::copy of the sequence s to index at.
CopyTo(b, s, at) ==
  [b EXCEPT !.data = [i \in 0 .. b.size - 1 |->
     IF at <= i /\ i < at + Len(s) THEN s[i - at + 1] ELSE b.data[i]]]

retrieveAll(b) == [b EXCEPT !.reader = kCheapPrepend, !.writer = kCheapPrepend]

retrieve(b, len) ==
  IF len < readableBytes(b) THEN [b EXCEPT !.reader = @ + len] ELSE retrieveAll(b)

\* The offset one past end, as in retrieveUntil(end).
retrieveUntil(b, end) == retrieve(b, end)

hasWritten(b, len) == [b EXCEPT !.writer = @ + len]
unwrite(b, len) == [b EXCEPT !.writer = @ - len]

Resized(b, n) ==
  [b EXCEPT !.size = n,
            !.data = [i \in 0 .. n - 1 |-> IF i < b.size THEN b.data[i] ELSE 0]]

MovedToFront(b) ==
  [CopyTo(b, toStringPiece(b), kCheapPrepend) EXCEPT
     !.reader = kCheapPrepend, !.writer = kCheapPrepend + readableBytes(b)]

MustGrow(b, len) ==
  writableBytes(b) + prependableBytes(b) < len + kCheapPrepend

makeSpace(b, len) ==
  IF MustGrow(b, len) THEN Resized(b, b.writer + len) ELSE MovedToFront(b)

ensureWritableBytes(b, len) ==
  IF writableBytes(b) < len THEN makeSpace(b, len) ELSE b

append(b, s) ==
  LET e == ensureWritableBytes(b, Len(s))
  IN  hasWritten(CopyTo(e, s, e.writer), Len(s))

prepend(b, s) ==
  CopyTo([b EXCEPT !.reader = @ - Len(s)], s, b.reader - Len(s))

shrink_NoPrepend(b, reserve) ==
  LET s == toStringPiece(b)
  IN  [size |-> Len(s) + reserve, reader |-> 0, writer |-> Len(s),
       data |-> [i \in 0 .. Len(s) + reserve - 1 |-> IF i < Len(s) THEN s[i + 1] ELSE 0]]

shrink(b, reserve) ==
  append(ensureWritableBytes(NewBuffer(kInitialSize), readableBytes(b) + reserve),
         toStringPiece(b))

\* The most that one readv(2) takes: extrabuf is offered only to a buffer with
\* less room than extrabuf itself.
ReadLimit(b) ==
  IF writableBytes(b) < kExtraBuf THEN writableBytes(b) + kExtraBuf
                                  ELSE writableBytes(b)

\* readFd() when readv(2) returned the bytes s: what does not fit went to
\* extrabuf and is appended.
readFd_DropsExtra(b, s) ==
  LET fit == writableBytes(b)
  IN  IF Len(s) <= fit
        THEN hasWritten(CopyTo(b, s, b.writer), Len(s))
        ELSE [CopyTo(b, SubSeq(s, 1, fit), b.writer) EXCEPT !.writer = b.size]

readFd(b, s) ==
  LET fit  == writableBytes(b)
      full == [CopyTo(b, SubSeq(s, 1, fit), b.writer) EXCEPT !.writer = b.size]
  IN  IF Len(s) <= fit
        THEN hasWritten(CopyTo(b, s, b.writer), Len(s))
        ELSE append(full, SubSeq(s, fit + 1, Len(s)))

-----------------------------------------------------------------------------
(* Searching.  std::search and memchr return the first match; the offset   *)
(* of the first byte is 0.                                                 *)

FirstOffset(S) == IF S = {} THEN -1 ELSE CHOOSE i \in S : \A j \in S : i <= j

findCRLF(b) ==
  LET s == toStringPiece(b)
  IN  FirstOffset({i \in 0 .. Len(s) - 2 : s[i + 1] = "\r" /\ s[i + 2] = "\n"})

findEOL(b) ==
  LET s == toStringPiece(b)
  IN  FirstOffset({i \in 0 .. Len(s) - 1 : s[i + 1] = "\n"})

-----------------------------------------------------------------------------
(* Integers of n bytes in network byte order, two's complement.            *)

Shifted(x, k) ==
  LET f[i \in 0 .. k] == IF i = 0 THEN x ELSE f[i - 1] \div 256 IN f[k]

hostToNetwork(x, n) == [i \in 1 .. n |-> Shifted(x, n - i) % 256]

networkToHost(s) ==
  LET f[i \in 1 .. Len(s)] ==
        IF i = 1 THEN IF s[1] < 128 THEN s[1] ELSE s[1] - 256
                 ELSE f[i - 1] * 256 + s[i]
  IN  f[Len(s)]

appendInt(b, x, n) == append(b, hostToNetwork(x, n))
prependInt(b, x, n) == prepend(b, hostToNetwork(x, n))
peekInt(b, n) == networkToHost(SubSeq(toStringPiece(b), 1, n))
=============================================================================
