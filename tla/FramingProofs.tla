---------------------------- MODULE FramingProofs ----------------------------
(***************************************************************************)
(* What recv returns and when it gives up, for any stream, any limit and   *)
(* any size of the buffer (module Framing).  The induction rests on what   *)
(* self.frame holds between two rounds of recv's loop: all that has been   *)
(* consumed since the last line it returned, without a newline in it.      *)
(***************************************************************************)
EXTENDS Framing, SequenceTheorems, FiniteSetTheorems, FunctionTheorems, TLAPS

Line == [first : Nat, last : Nat]
lastEnd == LastEnd(Len(lines))
Newline(from, to) == \E k \in newlines : from < k /\ k <= to

TypeInv ==
  /\ newlines \subseteq 1 .. MaxStream
  /\ written \in Nat /\ filled \in Nat /\ consumed \in Nat /\ frame \in Nat
  /\ framing_failed \in BOOLEAN
  /\ receiving \in BOOLEAN
  /\ lines \in Seq(Line)

\* What is read, consumed and returned.
BufferInv == lastEnd <= consumed /\ consumed <= filled /\ filled <= written

\* What self.frame holds.
FrameInv ==
  /\ ~Newline(lastEnd, consumed)
  /\ ~framing_failed => frame = consumed - lastEnd /\ frame <= MaxFrame
  /\ framing_failed => frame = 0 /\ ~receiving

\* A failure is final, and had its reason.
FailedInv ==
  framing_failed =>
    lastEnd + MaxFrame < written /\ ~Newline(lastEnd, lastEnd + MaxFrame)

\* The lines returned.
LinesInv ==
  \A n \in DOMAIN lines :
    /\ lines[n].first = LastEnd(n - 1) + 1
    /\ IsLine(lines[n].first, lines[n].last)
    /\ lines[n].last - lines[n].first < MaxFrame

\* Once the end is told, there is nothing left to read.
ToldInv ==
  told \in {"closed", "closed in frame"} =>
    /\ peer = "closed" /\ consumed = written /\ filled = written
    /\ (told = "closed") <=> (lastEnd = written)
    /\ ~framing_failed

FramingInv ==
  TypeInv /\ BufferInv /\ FrameInv /\ FailedInv /\ LinesInv /\ ToldInv

-----------------------------------------------------------------------------
\* What a round of the loop sees lies between what is consumed and what the
\* peer has written.
LEMMA FillBufBounds ==
  ASSUME TypeInv, BufferInv, NEW n \in 1 .. MaxStream, FillBuf(n)
  PROVE  consumed < n /\ filled <= n /\ n <= written
  BY DEF TypeInv, BufferInv, FillBuf

\* Everything holds before the first byte.
LEMMA InitFraming == Init => FramingInv
  <1> USE FramingAssumption
  <1> SUFFICES ASSUME Init PROVE FramingInv OBVIOUS
  <1>1. TypeInv
    <2>1. lines \in Seq(Line) BY EmptySeq DEF Init
    <2>2. newlines \subseteq 1 .. MaxStream BY DEF Init
    <2> QED BY <2>1, <2>2 DEF Init, TypeInv
  <1>2. Len(lines) = 0 /\ lastEnd = 0 BY DEF Init, lastEnd, LastEnd
  <1>3. BufferInv BY <1>2 DEF Init, BufferInv
  <1>4. FrameInv BY <1>1, <1>2 DEF Init, FrameInv, Newline, TypeInv
  <1>5. FailedInv /\ ToldInv BY DEF Init, FailedInv, ToldInv
  <1>6. LinesInv BY DEF Init, LinesInv
  <1> QED BY <1>1, <1>3, <1>4, <1>5, <1>6 DEF FramingInv

\* A step that returns no line leaves the end of the last one where it is.
LEMMA SameLines ==
  ASSUME UNCHANGED lines
  PROVE  lastEnd' = lastEnd /\ \A n : LastEnd(n)' = LastEnd(n)
  BY DEF lastEnd, LastEnd

\* The lines returned stay what they are while the stream is only extended.
LEMMA LinesStay ==
  ASSUME LinesInv, UNCHANGED <<newlines, lines>>
  PROVE  LinesInv'
  BY SameLines DEF LinesInv, IsLine

\* The end of the last line is a byte of the stream, or 0.
LEMMA LastEndType == ASSUME TypeInv PROVE lastEnd \in Nat
  <1>1. Len(lines) \in Nat /\ (Len(lines) # 0 => lines[Len(lines)] \in Line)
    BY ElementOfSeq, LenProperties DEF TypeInv
  <1> QED BY <1>1 DEF lastEnd, LastEnd, Line

\* A call that still has bytes to read leaves no end told.
LEMMA MoreToRead ==
  ASSUME TypeInv, ToldInv, consumed < written, UNCHANGED told
  PROVE  ToldInv'
  <1>1. consumed # written BY DEF TypeInv
  <1>2. told \notin {"closed", "closed in frame"} BY <1>1 DEF ToldInv
  <1> QED BY <1>2 DEF ToldInv

-----------------------------------------------------------------------------
\* A round that finds no newline: the buffer joins the frame.
LEMMA TakesPartFraming == FramingInv /\ TakesPart => FramingInv'
  <1> USE FramingAssumption
  <1> SUFFICES ASSUME FramingInv, TakesPart PROVE FramingInv'
    OBVIOUS
  <1> USE DEF FramingInv
  <1>1. PICK n \in 1 .. MaxStream :
          /\ FillBuf(n) /\ NoNewline(n) /\ Fits(n - consumed)
          /\ filled' = n /\ consumed' = n /\ frame' = frame + (n - consumed)
    BY DEF TakesPart
  <1>2. UNCHANGED <<newlines, written, peer, framing_failed, receiving, lines, told>>
        /\ receiving
    BY DEF TakesPart, streamVars
  <1>3. consumed < n /\ filled <= n /\ n <= written BY <1>1, FillBufBounds
  <1>4. lastEnd' = lastEnd /\ lastEnd \in Nat BY <1>2, SameLines, LastEndType
  <1>5. TypeInv' BY <1>1, <1>2, <1>3 DEF TypeInv
  <1>6. BufferInv' BY <1>1, <1>2, <1>3, <1>4 DEF BufferInv, TypeInv
  <1>7. FrameInv'
    <2>1. ~Newline(lastEnd, n)
      BY <1>1, <1>3 DEF FrameInv, Newline, NoNewline, TypeInv, BufferInv
    <2>2. ~framing_failed BY <1>2 DEF FrameInv
    <2>3. frame' = n - lastEnd /\ frame' <= MaxFrame
      BY <1>1, <1>3, <1>4, <2>2 DEF FrameInv, Fits, TypeInv, BufferInv
    <2> QED BY <1>1, <1>2, <1>4, <2>1, <2>2, <2>3 DEF FrameInv, Newline
  <1>8. FailedInv' BY <1>2, <1>4 DEF FailedInv, Newline
  <1>9. LinesInv' BY <1>2, LinesStay
  <1>10. ToldInv'
    <2>1. consumed < written BY <1>3 DEF TypeInv
    <2> QED BY <1>2, <2>1, MoreToRead
  <1> QED BY <1>5, <1>6, <1>7, <1>8, <1>9, <1>10

\* A round that finds the end of a line returns the frame and what was read of
\* the line: the next line of the stream.
LEMMA TakesLineFraming == FramingInv /\ TakesLine => FramingInv'
  <1> USE FramingAssumption
  <1> SUFFICES ASSUME FramingInv, TakesLine PROVE FramingInv'
    OBVIOUS
  <1> USE DEF FramingInv
  <1>1. /\ receiving /\ frame' = 0 /\ receiving' = FALSE /\ told' = "line"
        /\ UNCHANGED <<newlines, written, peer, framing_failed>>
    BY DEF TakesLine, Returns, streamVars
  <1>2. PICK n \in 1 .. MaxStream : \E k \in 1 .. n :
          /\ FillBuf(n) /\ FirstNewline(k, n) /\ Fits(k - consumed)
          /\ filled' = n /\ consumed' = k
          /\ lines' = Append(lines, [first |-> consumed - frame + 1, last |-> k])
    BY DEF TakesLine
  <1>3. PICK k \in 1 .. n :
          /\ FillBuf(n) /\ FirstNewline(k, n) /\ Fits(k - consumed)
          /\ filled' = n /\ consumed' = k
          /\ lines' = Append(lines, [first |-> consumed - frame + 1, last |-> k])
    BY <1>2
  <1>4. /\ ~framing_failed /\ frame = consumed - lastEnd
        /\ consumed \in Nat /\ lastEnd \in Nat
        /\ lastEnd <= consumed /\ consumed < k /\ k <= n /\ n <= written
        /\ k \in Nat /\ n \in Nat /\ k \in newlines
    BY <1>1, <1>3, FillBufBounds, LastEndType
       DEF FrameInv, BufferInv, TypeInv, FirstNewline
  <1> DEFINE line == [first |-> lastEnd + 1, last |-> k]
  <1>5. line \in Line /\ lines' = Append(lines, line)
    <2>1. consumed - frame + 1 = lastEnd + 1 BY <1>4
    <2> QED BY <1>3, <1>4, <2>1 DEF Line
  <1>6. /\ lines' \in Seq(Line) /\ Len(lines) \in Nat
        /\ Len(lines') = Len(lines) + 1
        /\ \A i \in 1 .. Len(lines) : lines'[i] = lines[i]
        /\ lines'[Len(lines) + 1] = line
        /\ DOMAIN lines = 1 .. Len(lines)
        /\ DOMAIN lines' = 1 .. Len(lines')
    <2> HIDE DEF line
    <2>1. lines \in Seq(Line) BY DEF TypeInv
    <2>2. lines' \in Seq(Line) BY <1>5, <2>1, AppendProperties
    <2> QED BY <1>5, <2>1, <2>2, AppendProperties, LenProperties
  <1>7. lastEnd' = k BY <1>6 DEF lastEnd, LastEnd
  <1>8. ~Newline(lastEnd, k - 1)
    BY <1>3, <1>4 DEF FrameInv, Newline, FirstNewline, TypeInv
  <1>9. TypeInv' BY <1>1, <1>3, <1>4, <1>6 DEF TypeInv
  <1>10. BufferInv' BY <1>1, <1>3, <1>4, <1>7 DEF BufferInv
  <1>11. FrameInv' BY <1>1, <1>3, <1>4, <1>7 DEF FrameInv, Newline, TypeInv
  <1>12. FailedInv' BY <1>1, <1>4 DEF FailedInv
  <1>13. LinesInv'
    <2> SUFFICES ASSUME NEW i \in 1 .. Len(lines) + 1
                 PROVE  /\ lines'[i].first = (IF i - 1 = 0 THEN 0 ELSE lines'[i - 1].last) + 1
                        /\ lines'[i].last \in newlines
                        /\ \A j \in newlines :
                             ~(lines'[i].first <= j /\ j < lines'[i].last)
                        /\ lines'[i].last - lines'[i].first < MaxFrame
      BY <1>1, <1>6 DEF LinesInv, LastEnd, IsLine
    <2>1. i - 1 # 0 => lines'[i - 1] = lines[i - 1] BY <1>6
    <2>2. CASE i \in 1 .. Len(lines)
      <3>1. lines'[i] = lines[i] BY <1>6, <2>2
      <3> QED BY <1>6, <2>1, <2>2, <3>1 DEF LinesInv, LastEnd, IsLine
    <2>3. CASE i = Len(lines) + 1
      <3>1. lines'[i].first = lastEnd + 1 /\ lines'[i].last = k BY <1>6, <2>3
      <3>2. lastEnd = IF i - 1 = 0 THEN 0 ELSE lines'[i - 1].last
        BY <1>6, <2>1, <2>3 DEF lastEnd, LastEnd
      <3>3. \A j \in newlines : ~(lastEnd + 1 <= j /\ j < k)
        BY <1>4, <1>8 DEF Newline, TypeInv
      <3>4. k - (lastEnd + 1) < MaxFrame BY <1>3, <1>4 DEF Fits, TypeInv
      <3> QED BY <1>4, <3>1, <3>2, <3>3, <3>4
    <2> QED BY <1>6, <2>2, <2>3
  <1>14. ToldInv' BY <1>1 DEF ToldInv
  <1> QED BY <1>9, <1>10, <1>11, <1>12, <1>13, <1>14

\* A round that makes the frame too large: no newline is within the limit.
LEMMA TooLargeFraming == FramingInv /\ TooLarge => FramingInv'
  <1> USE FramingAssumption
  <1> SUFFICES ASSUME FramingInv, TooLarge PROVE FramingInv'
    OBVIOUS
  <1> USE DEF FramingInv
  <1>1. /\ receiving /\ frame' = 0 /\ framing_failed' = TRUE
        /\ receiving' = FALSE /\ told' = "too large"
        /\ UNCHANGED <<newlines, written, peer, consumed, lines>>
    BY DEF TooLarge, Returns, streamVars
  <1>2. PICK n \in 1 .. MaxStream :
          /\ FillBuf(n) /\ filled' = n
          /\ \/ NoNewline(n) /\ ~Fits(n - consumed)
             \/ \E k \in 1 .. n : FirstNewline(k, n) /\ ~Fits(k - consumed)
    BY DEF TooLarge
  <1>3. n \in Nat /\ filled' = n /\ consumed < n /\ n <= written
    BY <1>2, FillBufBounds
  <1>4. /\ ~framing_failed
        /\ frame = consumed - lastEnd /\ ~Newline(lastEnd, consumed)
    BY <1>1 DEF FrameInv
  <1>5. lastEnd' = lastEnd /\ lastEnd \in Nat BY <1>1, SameLines, LastEndType
  <1>6. lastEnd + MaxFrame < written /\ ~Newline(lastEnd, lastEnd + MaxFrame)
    <2>1. CASE NoNewline(n) /\ ~Fits(n - consumed)
      BY <1>3, <1>4, <1>5, <2>1 DEF NoNewline, Fits, Newline, TypeInv
    <2>2. CASE \E k \in 1 .. n : FirstNewline(k, n) /\ ~Fits(k - consumed)
      BY <1>3, <1>4, <1>5, <2>2 DEF FirstNewline, Fits, Newline, TypeInv
    <2> QED BY <1>2, <2>1, <2>2
  <1>7. TypeInv' BY <1>1, <1>3 DEF TypeInv
  <1>8. BufferInv'
    <2>1. consumed' = consumed /\ written' = written BY <1>1
    <2>2. lastEnd <= consumed /\ consumed <= n BY <1>3 DEF BufferInv, TypeInv
    <2> QED BY <1>3, <1>5, <2>1, <2>2 DEF BufferInv
  <1>9. FrameInv' BY <1>1, <1>4, <1>5 DEF FrameInv, Newline
  <1>10. FailedInv' BY <1>1, <1>5, <1>6 DEF FailedInv, Newline
  <1>11. LinesInv' BY <1>1, LinesStay
  <1>12. ToldInv' BY <1>1 DEF ToldInv
  <1> QED BY <1>7, <1>8, <1>9, <1>10, <1>11, <1>12

\* The end of the stream: the frame is empty exactly when all was returned.
LEMMA EndOfStreamFraming == FramingInv /\ EndOfStream => FramingInv'
  <1> SUFFICES ASSUME FramingInv, EndOfStream PROVE FramingInv'
    OBVIOUS
  <1> USE DEF FramingInv
  <1>1. /\ receiving /\ receiving' = FALSE
        /\ UNCHANGED <<streamVars, filled, consumed, frame, framing_failed, lines>>
    BY DEF EndOfStream, Returns
  <1>2. ~framing_failed /\ frame = consumed - lastEnd BY <1>1 DEF FrameInv
  <1>3. lastEnd' = lastEnd /\ lastEnd \in Nat BY <1>1, SameLines, LastEndType
  <1>4. TypeInv' BY <1>1 DEF TypeInv, streamVars
  <1>5. BufferInv' BY <1>1, <1>3 DEF BufferInv, streamVars
  <1>6. FrameInv' BY <1>1, <1>2, <1>3 DEF FrameInv, Newline, streamVars
  <1>7. FailedInv' BY <1>1, <1>2 DEF FailedInv
  <1>8. LinesInv' BY <1>1, LinesStay DEF streamVars
  <1>9. ToldInv'
    <2>1. CASE /\ peer = "closed" /\ consumed = filled /\ filled = written
               /\ told' = EndToldAs
      <3>1. (frame = 0) <=> (lastEnd = written) BY <1>2, <1>3, <2>1 DEF TypeInv
      <3>2. (told' = "closed") <=> (lastEnd = written)
        BY <2>1, <3>1 DEF EndToldAs
      <3> QED BY <1>1, <1>2, <1>3, <2>1, <3>2 DEF ToldInv, streamVars
    <2>2. CASE told' = "read error" BY <2>2 DEF ToldInv
    <2> QED BY <2>1, <2>2 DEF EndOfStream, Returns
  <1> QED BY <1>4, <1>5, <1>6, <1>7, <1>8, <1>9

\* What the peer does, and a call that begins or is dropped.
LEMMA OutsideFraming ==
  FramingInv /\ (PeerWrites \/ PeerCloses \/ RecvCalled \/ RecvCancelled)
    => FramingInv'
  <1> SUFFICES ASSUME FramingInv,
                      PeerWrites \/ PeerCloses \/ RecvCalled \/ RecvCancelled
               PROVE  FramingInv'
    OBVIOUS
  <1> USE DEF FramingInv
  <1>1. UNCHANGED <<newlines, filled, consumed, frame, framing_failed, lines>>
    BY DEF PeerWrites, PeerCloses, RecvCalled, RecvCancelled, streamVars, readerVars
  <1>2. lastEnd' = lastEnd /\ lastEnd \in Nat BY <1>1, SameLines, LastEndType
  <1>3. written' \in Nat /\ written <= written'
    BY DEF PeerWrites, PeerCloses, RecvCalled, RecvCancelled, streamVars, TypeInv
  <1>4. receiving' \in BOOLEAN /\ (framing_failed => ~receiving')
    <2>1. ~(framing_failed /\ receiving) BY DEF FrameInv
    <2>2. CASE PeerWrites \/ PeerCloses
      <3>1. receiving' = receiving
        BY <2>2 DEF PeerWrites, PeerCloses, readerVars
      <3> QED BY <2>1, <3>1 DEF TypeInv
    <2>3. CASE RecvCalled BY <2>1, <2>3 DEF RecvCalled, Returns, TypeInv
    <2>4. CASE RecvCancelled BY <2>4 DEF RecvCancelled
    <2> QED BY <2>2, <2>3, <2>4
  <1>5. TypeInv' BY <1>1, <1>3, <1>4 DEF TypeInv
  <1>6. BufferInv' BY <1>1, <1>2, <1>3 DEF BufferInv, TypeInv
  <1>7. FrameInv' BY <1>1, <1>2, <1>4 DEF FrameInv, Newline
  <1>8. FailedInv'
    BY <1>1, <1>2, <1>3, FramingAssumption DEF FailedInv, Newline, TypeInv
  <1>9. LinesInv' BY <1>1, LinesStay
  <1>10. ToldInv'
    <2>1. CASE PeerWrites \/ PeerCloses
      <3>1. peer = "open" /\ told' = told
        BY <2>1 DEF PeerWrites, PeerCloses, readerVars
      <3> QED BY <3>1 DEF ToldInv
    <2>2. CASE RecvCalled \/ RecvCancelled
      <3>1. UNCHANGED streamVars /\ told' \in {told, "failed"}
        BY <2>2 DEF RecvCalled, RecvCancelled, Returns
      <3> QED BY <1>1, <1>2, <3>1 DEF ToldInv, streamVars
    <2> QED BY <2>1, <2>2
  <1> QED BY <1>5, <1>6, <1>7, <1>8, <1>9, <1>10

\* All of it, in every reachable state.
LEMMA FramingHolds == Spec => []FramingInv
  <1>1. Init => FramingInv BY InitFraming
  <1>2. FramingInv /\ [Next]_vars => FramingInv'
    <2>1. CASE Next
      BY <2>1, TakesLineFraming, TakesPartFraming, TooLargeFraming,
         EndOfStreamFraming, OutsideFraming
         DEF Next, Loop
    <2>2. CASE UNCHANGED vars
      <3>1. UNCHANGED <<newlines, written, peer, filled, consumed, frame,
                        framing_failed, receiving, lines, told>>
        BY <2>2 DEF vars, streamVars, readerVars
      <3>2. lastEnd' = lastEnd BY <3>1, SameLines
      <3> QED BY <3>1, <3>2, LinesStay
              DEF FramingInv, TypeInv, BufferInv, FrameInv, FailedInv, ToldInv,
                  Newline
    <2> QED BY <2>1, <2>2
  <1> QED BY <1>1, <1>2, PTL DEF Spec

-----------------------------------------------------------------------------
\* recv returns the lines of the stream, each whole, in order, none left out,
\* for every stream, chunking and pattern of dropped calls (control/mod.rs
\* recv, and receive_timeout, which drops its future).
THEOREM LinesAreWhole == Spec => []LinesWhole
  <1>1. FramingInv => LinesWhole BY DEF FramingInv, LinesInv, LinesWhole
  <1> QED BY <1>1, FramingHolds, PTL

\* recv gives up on a line that is larger than the limit, and on no other
\* (control/mod.rs MAX_FRAME_BYTES).
THEOREM LimitIsExact == Spec => []LimitExact
  <1>1. FramingInv => LimitExact
    <2> SUFFICES ASSUME FramingInv PROVE LimitExact OBVIOUS
    <2> USE FramingAssumption
    <2>1. frame <= MaxFrame BY DEF FramingInv, FrameInv, TypeInv
    <2>2. \A n \in DOMAIN lines : lines[n].last - lines[n].first < MaxFrame
      BY DEF FramingInv, LinesInv
    <2>3. framing_failed =>
            /\ written > lastEnd + MaxFrame
            /\ \A k \in newlines : ~(lastEnd < k /\ k <= lastEnd + MaxFrame)
      BY LastEndType DEF FramingInv, FailedInv, Newline, TypeInv
    <2> QED BY <2>1, <2>2, <2>3 DEF LimitExact, lastEnd
  <1> QED BY <1>1, FramingHolds, PTL

\* recv says that the connection was closed between two messages exactly when
\* it was, and every message had been returned (control/mod.rs recv).
THEOREM EndIsTold == Spec => []EndTold
  <1>1. FramingInv => EndTold BY DEF FramingInv, ToldInv, EndTold, lastEnd
  <1> QED BY <1>1, FramingHolds, PTL

-----------------------------------------------------------------------------
\* The place of k in a set of bytes, and the byte at a place.
RankIn(E, k) == Cardinality({j \in E : j <= k})
At(E, i) == CHOOSE k \in E : RankIn(E, k) = i

\* The lines that end at the bytes in E, the first of which follows from.
LinesUpTo(from, E) ==
  [i \in 1 .. Cardinality(E) |->
     [first |-> (IF i = 1 THEN from ELSE At(E, i - 1)) + 1, last |-> At(E, i)]]

\* Where lines that were written and not returned end.
Waiting == {k \in newlines : lastEnd < k /\ k <= written}

LEMMA QueueIsWaiting ==
  queue = LinesUpTo(lastEnd, Waiting) /\ queue' = LinesUpTo(lastEnd', Waiting')
  BY DEF queue, LinesUpTo, At, RankIn, Waiting, lastEnd

\* Each place has one byte, and each byte one place.
LEMMA Ranks ==
  ASSUME NEW E \in SUBSET Nat, IsFiniteSet(E)
  PROVE  /\ Cardinality(E) \in Nat
         /\ \A k \in E : RankIn(E, k) \in 1 .. Cardinality(E)
         /\ \A k, l \in E : RankIn(E, k) = RankIn(E, l) => k = l
         /\ \A i \in 1 .. Cardinality(E) : At(E, i) \in E /\ RankIn(E, At(E, i)) = i
         /\ \A k \in E : At(E, RankIn(E, k)) = k
  <1> DEFINE Up(k) == {j \in E : j <= k}
             rank == [k \in E |-> Cardinality(Up(k))]
             n == Cardinality(E)
  <1>1. n \in Nat /\ \A k \in E : k \in Nat BY FS_CardinalityType
  <1>2. ASSUME NEW k \in E
        PROVE  /\ IsFiniteSet(Up(k)) /\ Cardinality(Up(k)) \in 1 .. n
    <2>1. Up(k) \in SUBSET E /\ k \in Up(k) BY <1>1
    <2>2. IsFiniteSet(Up(k)) /\ Cardinality(Up(k)) <= n BY <2>1, FS_Subset
    <2>3. Cardinality(Up(k)) \in Nat BY <2>2, FS_CardinalityType
    <2>4. Cardinality(Up(k)) # 0 BY <2>1, <2>2, FS_EmptySet
    <2> QED BY <1>1, <2>2, <2>3, <2>4
  <1>3. ASSUME NEW k \in E, NEW l \in E, k < l
        PROVE  Cardinality(Up(k)) # Cardinality(Up(l))
    <2>1. k \in Nat /\ l \in Nat BY <1>1
    <2>2. Up(k) \in SUBSET Up(l)
      <3> SUFFICES ASSUME NEW j \in E, j <= k PROVE j <= l OBVIOUS
      <3>1. j \in Nat BY <1>1
      <3> QED BY <1>3, <2>1, <3>1
    <2>3. l \in Up(l) /\ l \notin Up(k) BY <1>3, <2>1
    <2>4. Up(k) # Up(l) BY <2>3
    <2>5. IsFiniteSet(Up(l)) BY <1>2
    <2> HIDE DEF Up
    <2> QED BY <2>2, <2>4, <2>5, FS_Subset
  <1>4. \A k, l \in E : rank[k] = rank[l] => k = l
    <2>1. \A k, l \in E : k # l => k < l \/ l < k BY <1>1
    <2> QED BY <1>3, <2>1
  <1>5. rank \in [E -> 1 .. n] BY <1>2
  <1>6. rank \in Injection(E, 1 .. n) BY <1>4, <1>5, Fun_IsInj
  <1>7. IsFiniteSet(1 .. n) /\ Cardinality(1 .. n) = n BY <1>1, FS_Interval
  <1>8. rank \in Surjection(E, 1 .. n) BY <1>6, <1>7, FS_Injection
  <1>9. \A i \in 1 .. n : \E k \in E : rank[k] = i BY <1>8 DEF Surjection
  <1>10. \A k \in E : RankIn(E, k) = rank[k] BY DEF RankIn
  <1>11. \A i \in 1 .. n : At(E, i) \in E /\ RankIn(E, At(E, i)) = i
    BY <1>9, <1>10 DEF At
  <1> HIDE DEF rank, n
  <1>12. \A k \in E : At(E, RankIn(E, k)) = k
    <2> SUFFICES ASSUME NEW k \in E PROVE At(E, RankIn(E, k)) = k OBVIOUS
    <2>1. PICK i \in 1 .. n : i = RankIn(E, k) BY <1>5, <1>10
    <2>2. At(E, i) \in E /\ rank[At(E, i)] = rank[k] BY <1>10, <1>11, <2>1
    <2> QED BY <1>4, <2>1, <2>2
  <1> QED BY <1>1, <1>4, <1>5, <1>10, <1>11, <1>12 DEF n

LEMMA LinesTyped ==
  ASSUME NEW E \in SUBSET Nat, IsFiniteSet(E), NEW from \in Nat
  PROVE  LinesUpTo(from, E) \in Seq(Line) /\ Len(LinesUpTo(from, E)) = Cardinality(E)
  <1>1. \A i \in 1 .. Cardinality(E) : At(E, i) \in Nat /\ (i # 1 => At(E, i - 1) \in Nat)
    <2> SUFFICES ASSUME NEW i \in 1 .. Cardinality(E)
                 PROVE  At(E, i) \in Nat /\ (i # 1 => At(E, i - 1) \in Nat)
      OBVIOUS
    <2>1. i # 1 => i - 1 \in 1 .. Cardinality(E) BY Ranks
    <2> QED BY <2>1, Ranks
  <1>2. Cardinality(E) \in Nat BY Ranks
  <1>3. LinesUpTo(from, E) \in [1 .. Cardinality(E) -> Line] BY <1>1 DEF LinesUpTo, Line
  <1> QED BY <1>2, <1>3

\* A line that is written last is last.
LEMMA LineAdded ==
  ASSUME NEW E \in SUBSET Nat, IsFiniteSet(E), NEW from \in Nat, NEW n \in Nat,
         \A k \in E : k < n
  PROVE  \E f \in E \cup {from} :
           LinesUpTo(from, E \cup {n})
             = Append(LinesUpTo(from, E), [first |-> f + 1, last |-> n])
  <1> DEFINE F == E \cup {n}
             c == Cardinality(E)
  <1>0. \A k \in F : k \in Nat /\ k <= n
    <2>1. \A k \in E : k \in Nat OBVIOUS
    <2> QED BY <2>1
  <1>1. n \notin E OBVIOUS
  <1>2. IsFiniteSet(F) /\ Cardinality(F) = c + 1 BY <1>1, FS_AddElement
  <1>3. F \in SUBSET Nat OBVIOUS
  <1>4. \A k \in E : RankIn(F, k) = RankIn(E, k)
    <2> SUFFICES ASSUME NEW k \in E PROVE {j \in F : j <= k} = {j \in E : j <= k}
      BY DEF RankIn
    <2>1. k \in Nat /\ k < n OBVIOUS
    <2> QED BY <2>1
  <1>5. RankIn(F, n) = c + 1
    <2>1. {j \in F : j <= n} = F BY <1>0
    <2> QED BY <1>2, <2>1 DEF RankIn
  <1> HIDE DEF F, c
  <1>6. c \in Nat BY Ranks DEF c
  <1>7. \A i \in 1 .. c : At(F, i) = At(E, i) /\ At(E, i) \in E
    <2> SUFFICES ASSUME NEW i \in 1 .. c PROVE At(F, i) = At(E, i) /\ At(E, i) \in E
      OBVIOUS
    <2>1. At(E, i) \in E /\ RankIn(E, At(E, i)) = i BY Ranks DEF c
    <2>2. At(E, i) \in F /\ RankIn(F, At(E, i)) = i BY <1>4, <2>1 DEF F
    <2> QED BY <1>2, <1>3, <2>1, <2>2, Ranks
  <1>8. At(F, c + 1) = n
    <2>1. n \in F BY DEF F
    <2> QED BY <1>2, <1>3, <1>5, <2>1, Ranks
  <1> DEFINE f == IF c = 0 THEN from ELSE At(E, c)
             q == LinesUpTo(from, E)
             r == LinesUpTo(from, F)
             line == [first |-> f + 1, last |-> n]
  <1>9. f \in E \cup {from} BY <1>6, <1>7
  <1>10. q = [i \in 1 .. c |->
               [first |-> (IF i = 1 THEN from ELSE At(E, i - 1)) + 1, last |-> At(E, i)]]
    BY DEF LinesUpTo, c
  <1>11. r = [i \in 1 .. c + 1 |->
               [first |-> (IF i = 1 THEN from ELSE At(F, i - 1)) + 1, last |-> At(F, i)]]
    BY <1>2 DEF LinesUpTo
  <1>12. \A i \in 1 .. c : r[i] = q[i]
    <2> SUFFICES ASSUME NEW i \in 1 .. c PROVE r[i] = q[i] OBVIOUS
    <2>1. i # 1 => i - 1 \in 1 .. c BY <1>6
    <2>2. i \in 1 .. c + 1 BY <1>6
    <2> QED BY <1>7, <1>10, <1>11, <2>1, <2>2
  <1>13. r[c + 1] = line
    <2>1. c + 1 \in 1 .. c + 1 /\ (c + 1) - 1 = c /\ (c + 1 = 1 <=> c = 0) BY <1>6
    <2>2. c # 0 => c \in 1 .. c BY <1>6
    <2> QED BY <1>7, <1>8, <1>11, <2>1, <2>2
  <1>14. f \in Nat /\ line \in Line
    <2>1. \A k \in E \cup {from} : k \in Nat OBVIOUS
    <2> HIDE DEF f
    <2>2. f \in Nat BY <1>9, <2>1
    <2> QED BY <2>2 DEF Line
  <1>15. q \in Seq(Line) /\ Len(q) = c /\ r \in Seq(Line) /\ Len(r) = c + 1
    BY <1>2, <1>3, LinesTyped DEF c
  <1> HIDE DEF q, r, line, f
  <1>16. /\ Append(q, line) \in Seq(Line) /\ Len(Append(q, line)) = c + 1
         /\ \A i \in 1 .. c + 1 : Append(q, line)[i] = IF i = c + 1 THEN line ELSE q[i]
    BY <1>6, <1>14, <1>15, AppendProperties
  <1>17. \A i \in 1 .. c + 1 : r[i] = Append(q, line)[i]
    BY <1>6, <1>12, <1>13, <1>16
  <1>18. r = Append(q, line) BY <1>15, <1>16, <1>17, SeqEqual
  <1> QED BY <1>9, <1>18 DEF q, r, line, f, F

\* The line returned is the first.
LEMMA LineTaken ==
  ASSUME NEW E \in SUBSET Nat, IsFiniteSet(E), NEW from \in Nat, NEW k \in E,
         \A j \in E : k <= j
  PROVE  /\ LinesUpTo(from, E) # <<>>
         /\ LinesUpTo(k, E \ {k}) = Tail(LinesUpTo(from, E))
  <1> DEFINE F == E \ {k}
             c == Cardinality(E)
  <1>0. \A j \in E : j \in Nat OBVIOUS
  <1>1. IsFiniteSet(F) /\ Cardinality(F) = c - 1 BY FS_RemoveElement
  <1>2. F \in SUBSET Nat OBVIOUS
  <1>3. RankIn(E, k) = 1
    <2>1. {j \in E : j <= k} = {k}
      <3> SUFFICES ASSUME NEW j \in E PROVE j <= k <=> j = k OBVIOUS
      <3>1. j \in Nat /\ k \in Nat /\ k <= j BY <1>0
      <3> QED BY <3>1
    <2> QED BY <2>1, FS_Singleton DEF RankIn
  <1>4. \A j \in F : RankIn(F, j) = RankIn(E, j) - 1
    <2> SUFFICES ASSUME NEW j \in F PROVE RankIn(F, j) = RankIn(E, j) - 1 OBVIOUS
    <2> DEFINE U == {i \in E : i <= j}
    <2>1. k \in U /\ {i \in F : i <= j} = U \ {k} OBVIOUS
    <2>4. RankIn(F, j) = Cardinality(U \ {k}) /\ RankIn(E, j) = Cardinality(U)
      BY <2>1 DEF RankIn
    <2>2. IsFiniteSet(U)
      <3>1. U \in SUBSET E OBVIOUS
      <3> QED BY <3>1, FS_Subset
    <2> HIDE DEF U
    <2> QED BY <2>1, <2>2, <2>4, FS_RemoveElement
  <1> HIDE DEF F, c
  <1>5. c \in Nat /\ c >= 1
    <2>1. RankIn(E, k) \in 1 .. c BY Ranks DEF c
    <2>2. c \in Nat BY Ranks DEF c
    <2> QED BY <2>1, <2>2
  <1>6. At(E, 1) = k BY <1>3, Ranks
  <1>7. \A i \in 1 .. c - 1 : At(F, i) = At(E, i + 1)
    <2> SUFFICES ASSUME NEW i \in 1 .. c - 1 PROVE At(F, i) = At(E, i + 1) OBVIOUS
    <2>1. At(F, i) \in F /\ RankIn(F, At(F, i)) = i BY <1>1, <1>2, Ranks
    <2>4. At(F, i) \in E BY <2>1 DEF F
    <2>5. RankIn(E, At(F, i)) \in 1 .. c BY <2>4, Ranks DEF c
    <2>2. At(F, i) \in E /\ RankIn(E, At(F, i)) \in Nat BY <1>5, <2>4, <2>5
    <2>3. RankIn(E, At(F, i)) = i + 1 BY <1>4, <2>1, <2>2
    <2> QED BY <2>2, <2>3, Ranks
  <1> DEFINE q == LinesUpTo(from, E)
             r == LinesUpTo(k, F)
  <1>8. q = [i \in 1 .. c |->
              [first |-> (IF i = 1 THEN from ELSE At(E, i - 1)) + 1, last |-> At(E, i)]]
    BY DEF LinesUpTo, c
  <1>9. r = [i \in 1 .. c - 1 |->
              [first |-> (IF i = 1 THEN k ELSE At(F, i - 1)) + 1, last |-> At(F, i)]]
    BY <1>1 DEF LinesUpTo
  <1>10. /\ q \in Seq(Line) /\ Len(q) = c
         /\ r \in Seq(Line) /\ Len(r) = c - 1
    BY <1>0, <1>1, <1>2, LinesTyped DEF c
  <1>11. \A i \in 1 .. c - 1 : r[i] = q[i + 1]
    <2> SUFFICES ASSUME NEW i \in 1 .. c - 1 PROVE r[i] = q[i + 1] OBVIOUS
    <2>1. i + 1 \in 1 .. c /\ i + 1 # 1 /\ (i + 1) - 1 = i BY <1>5
    <2>2. i # 1 => i - 1 \in 1 .. c - 1 /\ (i - 1) + 1 = i BY <1>5
    <2>3. (IF i = 1 THEN k ELSE At(F, i - 1)) = At(E, i) BY <1>6, <1>7, <2>2
    <2> QED BY <1>7, <1>8, <1>9, <2>1, <2>3
  <1> HIDE DEF q, r
  <1>12. q # <<>> BY <1>5, <1>10
  <1>13. /\ Tail(q) \in Seq(Line) /\ Len(Tail(q)) = c - 1
         /\ \A i \in 1 .. c - 1 : Tail(q)[i] = q[i + 1]
    BY <1>10, <1>12, HeadTailProperties
  <1>14. r = Tail(q) BY <1>10, <1>11, <1>13, SeqEqual
  <1> QED BY <1>12, <1>14 DEF q, r, F

\* The bytes where lines end are finitely many.
LEMMA WaitingFinite ==
  ASSUME TypeInv
  PROVE  /\ Waiting \in SUBSET Nat /\ IsFiniteSet(Waiting)
         /\ Cardinality(Waiting) <= MaxStream
  <1>1. Waiting \in SUBSET (1 .. MaxStream) BY DEF Waiting, TypeInv
  <1>2. IsFiniteSet(1 .. MaxStream) /\ Cardinality(1 .. MaxStream) = MaxStream
    BY FramingAssumption, FS_Interval
  <1> HIDE DEF Waiting
  <1>3. IsFiniteSet(Waiting) /\ Cardinality(Waiting) <= MaxStream BY <1>1, <1>2, FS_Subset
  <1> QED BY <1>1, <1>3

\* Where the stream, and what was returned of it, stay as they are, so does the queue.
LEMMA QueueStays ==
  ASSUME UNCHANGED <<newlines, written, lines>>
  PROVE  queue' = queue
  <1>1. lastEnd' = lastEnd /\ Waiting' = Waiting BY SameLines DEF Waiting
  <1>2. queue' = LinesUpTo(lastEnd', Waiting') BY QueueIsWaiting
  <1> QED BY <1>1, <1>2, QueueIsWaiting

\* A part of a line changes nothing of the queue, the rest of it adds it.
LEMMA WritesOneLine ==
  ASSUME FramingInv, PeerWrites
  PROVE  \/ queue' = queue
         \/ \E line \in [first : 1 .. MaxStream, last : 1 .. MaxStream] :
              Channel!ClientSends(line)
  <1> USE FramingAssumption
  <1>1. PICK n \in written + 1 .. MaxStream :
          written' = n /\ \A k \in newlines : ~(written < k /\ k < n)
    BY DEF PeerWrites
  <1>2. /\ peer = "open" /\ peer' = peer /\ newlines' = newlines /\ lines' = lines
    BY DEF PeerWrites, readerVars
  <1>3. /\ lastEnd' = lastEnd /\ lastEnd \in Nat /\ written \in Nat /\ lastEnd <= written
        /\ newlines \subseteq 1 .. MaxStream
    BY <1>2, SameLines, LastEndType DEF FramingInv, BufferInv, TypeInv
  <1>4. n \in Nat /\ written < n /\ n <= MaxStream BY <1>1, <1>3
  <1>5. Waiting \in SUBSET Nat /\ IsFiniteSet(Waiting) /\ Cardinality(Waiting) <= MaxStream
    BY WaitingFinite DEF FramingInv
  <1>6. CASE n \notin newlines
    <2>1. ASSUME NEW k \in newlines PROVE k <= n <=> k <= written
      <3>1. k \in Nat /\ k # n BY <1>3, <1>6
      <3> QED BY <1>1, <1>3, <1>4, <3>1
    <2>2. Waiting' = Waiting BY <1>1, <1>2, <1>3, <2>1 DEF Waiting
    <2>3. queue' = LinesUpTo(lastEnd', Waiting') BY QueueIsWaiting
    <2> QED BY <1>3, <2>2, <2>3, QueueIsWaiting
  <1>7. CASE n \in newlines
    <2>1. ASSUME NEW k \in newlines PROVE k <= n <=> k <= written \/ k = n
      <3>1. k \in Nat BY <1>3
      <3> QED BY <1>1, <1>3, <1>4, <3>1
    <2>2. Waiting' = Waiting \cup {n}
      <3>1. Waiting' = {k \in newlines : lastEnd < k /\ k <= n}
        BY <1>1, <1>2, <1>3 DEF Waiting
      <3>2. lastEnd < n BY <1>3, <1>4
      <3> QED BY <1>7, <2>1, <3>1, <3>2 DEF Waiting
    <2>3. \A k \in Waiting : k < n
      <3> SUFFICES ASSUME NEW k \in Waiting PROVE k < n OBVIOUS
      <3>1. k \in Nat /\ k <= written BY <1>5 DEF Waiting
      <3> QED BY <1>3, <1>4, <3>1
    <2>4. PICK f \in Waiting \cup {lastEnd} :
            LinesUpTo(lastEnd, Waiting \cup {n})
              = Append(LinesUpTo(lastEnd, Waiting), [first |-> f + 1, last |-> n])
      BY <1>3, <1>4, <1>5, <2>3, LineAdded
    <2>5. f \in Nat /\ f < n
      <3>1. f \in Nat /\ f <= written BY <1>3, <1>5, <2>4 DEF Waiting
      <3> QED BY <1>3, <1>4, <3>1
    <2>6. PICK line : line = [first |-> f + 1, last |-> n] OBVIOUS
    <2>7. line \in [first : 1 .. MaxStream, last : 1 .. MaxStream]
      BY <1>4, <2>5, <2>6
    <2>8. queue' = LinesUpTo(lastEnd', Waiting') BY QueueIsWaiting
    <2>9. queue' = Append(queue, line)
      BY <1>3, <2>2, <2>4, <2>6, <2>8, QueueIsWaiting
    <2>10. Len(queue) < MaxStream + 1
      <3>1. Len(queue) = Cardinality(Waiting) BY <1>3, <1>5, LinesTyped, QueueIsWaiting
      <3>2. Cardinality(Waiting) \in Nat BY <1>5, FS_CardinalityType
      <3> QED BY <1>5, <3>1, <3>2
    <2>11. Channel!ClientSends(line) BY <1>2, <2>9, <2>10 DEF Channel!ClientSends
    <2> QED BY <2>7, <2>11
  <1> QED BY <1>6, <1>7

\* The line a call returns is the oldest of the queue.
LEMMA ReturnsOldest ==
  ASSUME FramingInv, TakesLine
  PROVE  Channel!ServerTakes
  <1> USE FramingAssumption
  <1>1. /\ receiving /\ UNCHANGED <<newlines, written>>
    BY DEF TakesLine, streamVars
  <1>2. PICK n \in 1 .. MaxStream : \E k \in 1 .. n :
          /\ FillBuf(n) /\ FirstNewline(k, n)
          /\ lines' = Append(lines, [first |-> consumed - frame + 1, last |-> k])
    BY DEF TakesLine
  <1>3. PICK k \in 1 .. n :
          /\ FillBuf(n) /\ FirstNewline(k, n)
          /\ lines' = Append(lines, [first |-> consumed - frame + 1, last |-> k])
    BY <1>2
  <1>4. /\ consumed \in Nat /\ lastEnd \in Nat /\ lastEnd <= consumed /\ ~Newline(lastEnd, consumed)
        /\ consumed < k /\ k <= n /\ n <= written /\ k \in newlines
        /\ written \in Nat /\ newlines \subseteq 1 .. MaxStream
    BY <1>1, <1>3, FillBufBounds, LastEndType
       DEF FramingInv, FrameInv, BufferInv, TypeInv, FirstNewline
  <1>5. lastEnd' = k
    <2>1. lines \in Seq(Line) BY DEF FramingInv, TypeInv
    <2>2. PICK line : line = [first |-> consumed - frame + 1, last |-> k] OBVIOUS
    <2>3. /\ Len(lines') = Len(lines) + 1 /\ lines'[Len(lines) + 1] = line
          /\ Len(lines) \in Nat
      <3>1. lines' = Append(lines, line) BY <1>3, <2>2
      <3> QED BY <2>1, <3>1
    <2> QED BY <2>2, <2>3 DEF lastEnd, LastEnd
  <1>6. Waiting \in SUBSET Nat /\ IsFiniteSet(Waiting) BY WaitingFinite DEF FramingInv
  <1>7. k \in Waiting BY <1>4 DEF Waiting
  <1>8. ASSUME NEW j \in newlines, lastEnd < j PROVE k <= j
    <2>1. j \in Nat /\ k \in Nat BY <1>4
    <2>2. ~(j <= consumed) BY <1>4, <1>8 DEF Newline
    <2>3. ~(consumed < j /\ j < k) BY <1>3 DEF FirstNewline
    <2> QED BY <1>4, <2>1, <2>2, <2>3
  <1>9. \A j \in Waiting : k <= j BY <1>8 DEF Waiting
  <1>10. Waiting' = Waiting \ {k}
    <2>1. ASSUME NEW j \in newlines PROVE k < j <=> lastEnd < j /\ j # k
      <3>1. j \in Nat /\ k \in Nat BY <1>4
      <3> QED BY <1>4, <1>8, <3>1
    <2> QED BY <1>1, <1>5, <2>1 DEF Waiting
  <1>11. queue' = LinesUpTo(lastEnd', Waiting') BY QueueIsWaiting
  <1>12. queue # <<>> /\ queue' = Tail(queue)
    BY <1>4, <1>5, <1>6, <1>7, <1>9, <1>10, <1>11, LineTaken, QueueIsWaiting
  <1> QED BY <1>12 DEF Channel!ServerTakes

\* recv hears the end where the channel has it: all lines have been returned.
LEMMA HearsTheEnd ==
  ASSUME FramingInv, EndOfStream
  PROVE  Channel!ServerHearsEnd
  <1>1. CASE peer = "reset"
    BY <1>1 DEF Channel!ServerHearsEnd, Channel!Broken
  <1>2. CASE peer # "reset"
    <2>1. peer = "closed" /\ consumed = written
      BY <1>2 DEF EndOfStream
    <2>2. Waiting = {} BY <2>1 DEF FramingInv, FrameInv, Newline, Waiting
    <2>3. queue = <<>>
      <3>1. Cardinality({}) = 0 BY FS_EmptySet
      <3>2. lastEnd \in Nat BY LastEndType DEF FramingInv
      <3>3. queue \in Seq(Line) /\ Len(queue) = 0
        BY <2>2, <3>1, <3>2, FS_EmptySet, LinesTyped, QueueIsWaiting
      <3> QED BY <3>3, EmptySeq
    <2> QED BY <2>1, <2>3 DEF Channel!ServerHearsEnd
  <1> QED BY <1>1, <1>2

\* Bytes, chunks and dropped calls together are one of the queues of module
\* ControlChannel (control/mod.rs send and recv): a step adds a whole message
\* at its end, takes the oldest, or changes nothing, and the end of the stream
\* is heard only when the queue is empty or the connection broken.
THEOREM FramingIsAQueue == Spec => ImplementsQueue
  <1> DEFINE Step ==
        /\ queue' # queue =>
             \/ Channel!ServerTakes
             \/ \E line \in [first : 1 .. MaxStream, last : 1 .. MaxStream] :
                  Channel!ClientSends(line)
        /\ EndOfStream => Channel!ServerHearsEnd
  <1>1. FramingInv /\ [Next]_vars => Step
    <2> SUFFICES ASSUME FramingInv, [Next]_vars PROVE Step OBVIOUS
    <2>1. EndOfStream => Channel!ServerHearsEnd BY HearsTheEnd
    <2>2. CASE PeerWrites BY <2>1, <2>2, WritesOneLine
    <2>3. CASE TakesLine BY <2>1, <2>3, ReturnsOldest
    <2>4. CASE ~PeerWrites /\ ~TakesLine
      <3>1. UNCHANGED <<newlines, written, lines>>
        BY <2>4 DEF Next, Loop, PeerCloses, RecvCalled, RecvCancelled, TakesPart,
                    TooLarge, EndOfStream, vars, streamVars, readerVars
      <3> QED BY <2>1, <3>1, QueueStays
    <2> QED BY <2>2, <2>3, <2>4
  <1> QED BY <1>1, FramingHolds, PTL DEF Spec, ImplementsQueue
=============================================================================
