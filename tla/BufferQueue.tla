----------------------------- MODULE BufferQueue -----------------------------
(***************************************************************************)
(* One Buffer used through its public methods, in any order that their     *)
(* assertions allow.  It implements ByteQueue.                             *)
(***************************************************************************)
EXTENDS Buffer

CONSTANTS
  Bytes,
  Chunks,        \* the byte sequences written in one call
  MaxReadable    \* bound: bytes held at once

ASSUME QueueAssumption == Chunks \subseteq Seq(Bytes) /\ 0 \in Bytes /\ MaxReadable \in Nat

VARIABLES b, op     \* the buffer, and the call that was made

vars == <<b, op>>

Call(kind, data, n) == [kind |-> kind, data |-> data, n |-> n]

Init == b = NewBuffer(kInitialSize) /\ op = Call("none", <<>>, 0)

Fits(s) == readableBytes(b) + Len(s) <= MaxReadable

DoAppend(s) == Fits(s) /\ b' = append(b, s) /\ op' = Call("put", s, 0)

\* beginWrite() and hasWritten(), into the room that is there.
DoWrite(s) ==
  /\ Fits(s) /\ Len(s) <= writableBytes(b)
  /\ b' = hasWritten(CopyTo(b, s, b.writer), Len(s))
  /\ op' = Call("put", s, 0)

DoReadFd(s) ==
  /\ Fits(s) /\ Len(s) <= ReadLimit(b)
  /\ b' = readFd(b, s) /\ op' = Call("put", s, 0)

DoPrepend(s) ==
  /\ Fits(s) /\ Len(s) <= prependableBytes(b)
  /\ b' = prepend(b, s) /\ op' = Call("putFront", s, 0)

DoRetrieve(n) ==
  n <= readableBytes(b) /\ b' = retrieve(b, n) /\ op' = Call("take", <<>>, n)

DoUnwrite(n) ==
  n <= readableBytes(b) /\ b' = unwrite(b, n) /\ op' = Call("takeBack", <<>>, n)

DoEnsureWritable(n) == b' = ensureWritableBytes(b, n) /\ op' = Call("none", <<>>, 0)

DoShrink(n) == b' = shrink(b, n) /\ op' = Call("none", <<>>, 0)

Next ==
  \/ \E s \in Chunks : DoAppend(s) \/ DoWrite(s) \/ DoReadFd(s) \/ DoPrepend(s)
  \/ \E n \in 0 .. MaxReadable :
       DoRetrieve(n) \/ DoUnwrite(n) \/ DoEnsureWritable(n) \/ DoShrink(n)

Spec == Init /\ [][Next]_vars

-----------------------------------------------------------------------------
IsBuffer(x) ==
  /\ x \in [size : Nat, data : [0 .. x.size - 1 -> Bytes], reader : Nat, writer : Nat]
  /\ x.reader <= x.writer /\ x.writer <= x.size /\ kCheapPrepend <= x.size

\* 0 <= readerIndex <= writerIndex <= size, as the comment of Buffer.h draws it,
\* and makeSpace moves the data only when there is something to gain: the
\* assertion kCheapPrepend < readerIndex_ (Buffer.h:418) holds.
IndexesInOrder ==
  /\ IsBuffer(b)
  /\ \A len \in 1 .. MaxReadable :
       writableBytes(b) < len /\ ~MustGrow(b, len) => kCheapPrepend < b.reader

Queue == INSTANCE ByteQueue WITH content <- toStringPiece(b)

\* Through every move, growth, overflow into extrabuf and shrink, a Buffer is
\* the queue of the bytes put into it (Buffer.h, Buffer.cc).
ImplementsByteQueue == Queue!Spec
=============================================================================
