------------------------------- MODULE Framing -------------------------------
(***************************************************************************)
(* ControlChannel::recv on bytes.  The peer's messages are lines of one    *)
(* stream; bytes reach the BufReader in chunks of any size, and recv puts  *)
(* a line together in self.frame, across chunks and across calls: a caller *)
(* may drop the future of a call while it waits for bytes, as              *)
(* receive_timeout does.  A byte is its position in the stream, of which   *)
(* only the newlines matter.  What serde makes of a line, a message or an  *)
(* error, changes nothing here.                                            *)
(***************************************************************************)
EXTENDS Integers, Sequences, FiniteSets

CONSTANTS
  MaxStream,  \* bytes the peer writes at most
  MaxFrame,   \* MAX_FRAME_BYTES, the newline included
  BufSize     \* capacity of the BufReader

ASSUME FramingAssumption ==
  /\ MaxStream \in Nat
  /\ MaxFrame \in Nat \ {0}
  /\ BufSize \in Nat \ {0}

VARIABLES
  newlines,   \* where the peer's stream has newlines
  written,    \* bytes the peer has written
  peer,       \* "open", "closed", or "reset" by the network
  filled,     \* bytes read into the BufReader
  consumed,   \* bytes consumed from it
  frame,      \* length of self.frame: the last bytes consumed
  framing_failed,
  receiving,  \* a call of recv waits for bytes
  lines,      \* the lines recv has returned, [first, last] byte of each
  told        \* how the last call of recv ended

streamVars == <<newlines, written, peer>>
readerVars == <<filled, consumed, frame, framing_failed, receiving, lines, told>>
vars == <<streamVars, readerVars>>

Init ==
  /\ newlines \in SUBSET (1 .. MaxStream)
  /\ written = 0
  /\ peer = "open"
  /\ filled = 0 /\ consumed = 0 /\ frame = 0
  /\ framing_failed = FALSE
  /\ receiving = FALSE
  /\ lines = <<>>
  /\ told = "none"

-----------------------------------------------------------------------------
\* The peer writes part of a message, or the rest of it.
PeerWrites ==
  /\ peer = "open"
  /\ \E n \in written + 1 .. MaxStream :
       /\ \A k \in newlines : ~(written < k /\ k < n)
       /\ written' = n
  /\ UNCHANGED <<newlines, peer, readerVars>>

\* It closes the connection, at any byte; or the network resets it.
PeerCloses ==
  /\ peer = "open"
  /\ peer' \in {"closed", "reset"}
  /\ UNCHANGED <<newlines, written, readerVars>>

-----------------------------------------------------------------------------
Returns(outcome) == receiving' = FALSE /\ told' = outcome

\* recv is called; after a framing failure it fails at once.
RecvCalled ==
  /\ ~receiving
  /\ IF framing_failed THEN Returns("failed")
                       ELSE receiving' = TRUE /\ UNCHANGED told
  /\ UNCHANGED <<streamVars, filled, consumed, frame, framing_failed, lines>>

\* The future of the call is dropped; self.frame stays as it is.
RecvCancelled_LosesFrame ==
  /\ receiving
  /\ receiving' = FALSE /\ frame' = 0
  /\ UNCHANGED <<streamVars, filled, consumed, framing_failed, lines, told>>
RecvCancelled ==
  /\ receiving
  /\ receiving' = FALSE
  /\ UNCHANGED <<streamVars, filled, consumed, frame, framing_failed, lines, told>>

\* fill_buf: what is buffered, or else what it can read, up to byte n.
FillBuf_Whole(n) ==
  IF consumed < filled THEN n = filled
  ELSE peer # "reset" /\ n = consumed + BufSize /\ n <= written
FillBuf(n) ==
  IF consumed < filled THEN n = filled
  ELSE /\ peer # "reset"
       /\ consumed < n /\ n <= consumed + BufSize /\ n <= written

\* The newline at byte k is the first one buffered.
FirstNewline_Last(k, n) ==
  /\ k \in newlines /\ consumed < k /\ k <= n
  /\ \A j \in newlines : ~(k < j /\ j <= n)
FirstNewline(k, n) ==
  /\ k \in newlines /\ consumed < k /\ k <= n
  /\ \A j \in newlines : ~(consumed < j /\ j < k)

NoNewline(n) == \A j \in newlines : ~(consumed < j /\ j <= n)

Fits_OffByOne(count) == frame + count < MaxFrame
Fits(count) == frame + count <= MaxFrame

\* One round of recv's loop that finds the end of a line.
TakesLine ==
  /\ receiving
  /\ \E n \in 1 .. MaxStream : \E k \in 1 .. n :
       /\ FillBuf(n) /\ FirstNewline(k, n) /\ Fits(k - consumed)
       /\ filled' = n
       /\ consumed' = k
       /\ lines' = Append(lines, [first |-> consumed - frame + 1, last |-> k])
  /\ frame' = 0
  /\ Returns("line")
  /\ UNCHANGED <<streamVars, framing_failed>>

\* A round that finds none: all of the buffer joins the frame.
TakesPart ==
  /\ receiving
  /\ \E n \in 1 .. MaxStream :
       /\ FillBuf(n) /\ NoNewline(n) /\ Fits(n - consumed)
       /\ filled' = n
       /\ consumed' = n
       /\ frame' = frame + (n - consumed)
  /\ UNCHANGED <<streamVars, framing_failed, receiving, lines, told>>

\* A round that would make the frame too large gives the channel up.
TooLarge ==
  /\ receiving
  /\ \E n \in 1 .. MaxStream :
       /\ FillBuf(n)
       /\ filled' = n
       /\ \/ NoNewline(n) /\ ~Fits(n - consumed)
          \/ \E k \in 1 .. n : FirstNewline(k, n) /\ ~Fits(k - consumed)
  /\ frame' = 0
  /\ framing_failed' = TRUE
  /\ Returns("too large")
  /\ UNCHANGED <<streamVars, consumed, lines>>

\* fill_buf has nothing buffered and nothing to read any more.
EndToldAs_Closed == "closed"
EndToldAs == IF frame = 0 THEN "closed" ELSE "closed in frame"
EndOfStream ==
  /\ receiving /\ consumed = filled
  /\ \/ peer = "closed" /\ filled = written /\ Returns(EndToldAs)
     \/ peer = "reset" /\ Returns("read error")
  /\ UNCHANGED <<streamVars, filled, consumed, frame, framing_failed, lines>>

Loop == TakesLine \/ TakesPart \/ TooLarge \/ EndOfStream

Next == PeerWrites \/ PeerCloses \/ RecvCalled \/ RecvCancelled \/ Loop

Spec == Init /\ [][Next]_vars

\* The caller calls again, and tokio's timeout polls the receive before its
\* own timer: a call that is cancelled has first taken what was there.
FairSpec == Spec /\ WF_vars(RecvCalled) /\ SF_vars(Loop)

-----------------------------------------------------------------------------
LastEnd(n) == IF n = 0 THEN 0 ELSE lines[n].last

IsLine(first, last) ==
  /\ last \in newlines
  /\ \A k \in newlines : ~(first <= k /\ k < last)

\* Whatever the chunks and however many calls were dropped half-way, recv has
\* returned the lines of the stream, each whole, in order, none left out
\* (tests/control_security.rs: "fragmented message survives cancel").
LinesWhole ==
  \A n \in DOMAIN lines :
    /\ lines[n].first = LastEnd(n - 1) + 1
    /\ IsLine(lines[n].first, lines[n].last)

\* "control frame too large (maximum 1048576 bytes)": recv gives up exactly on
\* a line that, with its newline, has more bytes than that, returns none such,
\* holds never more, and returns no line afterwards.
LimitExact ==
  /\ frame <= MaxFrame
  /\ \A n \in DOMAIN lines : lines[n].last - lines[n].first < MaxFrame
  /\ framing_failed =>
       LET start == LastEnd(Len(lines)) IN
         /\ written > start + MaxFrame
         /\ \A k \in newlines : ~(start < k /\ k <= start + MaxFrame)

\* "connection closed" is said when the peer has closed between two messages
\* and all of them have been returned, "connection closed during control
\* frame" when a message was cut short.
EndTold ==
  told \in {"closed", "closed in frame"} =>
    /\ peer = "closed" /\ consumed = written
    /\ (told = "closed") <=> (LastEnd(Len(lines)) = written)

\* The lines written whole and not returned yet, oldest first.
queue ==
  LET from == LastEnd(Len(lines))
      ends == {k \in newlines : from < k /\ k <= written}
      At(i) == CHOOSE k \in ends : Cardinality({j \in ends : j <= k}) = i
  IN [i \in 1 .. Cardinality(ends) |->
        [first |-> (IF i = 1 THEN from ELSE At(i - 1)) + 1, last |-> At(i)]]

Channel == INSTANCE ControlChannel WITH
  CapToServer <- MaxStream + 1, CapToClient <- 1, Versions <- {}, Reasons <- {"error"}, NoReason <- "none",
  toServer <- queue, toClient <- <<>>,
  closed <- CASE peer = "open"   -> {}
              [] peer = "closed" -> {"client"}
              [] peer = "reset"  -> {"client", "wire"}

\* To its caller, bytes, chunks and dropped calls together are one of the
\* queues of module ControlChannel: a step adds a whole message at its end,
\* takes the oldest one, or changes nothing; and an end of the stream is heard
\* only where that module has it.
ImplementsQueue ==
  [][/\ queue' # queue =>
          \/ Channel!ServerTakes
          \/ \E line \in [first : 1 .. MaxStream, last : 1 .. MaxStream] :
               Channel!ClientSends(line)
     /\ EndOfStream => Channel!ServerHearsEnd]_vars

\* A message that is written whole, like those before it within the limit, is
\* returned to a caller that keeps calling, even if it drops every call after
\* a while.
LinesArrive ==
  \A k \in 1 .. MaxStream :
    (/\ k \in newlines /\ k <= written
     /\ \A i \in 1 .. k : \E j \in newlines : i <= j /\ j < i + MaxFrame)
       ~> (peer = "reset" \/ \E n \in DOMAIN lines : lines[n].last = k)
=============================================================================
