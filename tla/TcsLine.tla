------------------------------- MODULE TcsLine -------------------------------
(***************************************************************************)
(* tcs_receive_line over a stream: the receiver looks at what has come     *)
(* (TCS_MSG_PEEK), searches it for the delimiter, and takes only what it   *)
(* has searched, again and again until the delimiter or the end of its     *)
(* buffer.                                                                 *)
(*                                                                         *)
(* The receiver calls it until the stream ends, a timed-out call too.      *)
(* Bytes are numbers, the delimiter is 0.  A peek that succeeds with no    *)
(* byte does not happen on a stream.                                       *)
(***************************************************************************)
EXTENDS TcsStream

CONSTANTS
    BufferLength,       \* buffer_length
    Texts,              \* what may be sent
    CanTimeOut,         \* whether the receiving socket has a timeout
    MaxTimeOuts         \* bound: of the calls that time out

LineAssumption ==
    /\ BufferLength \in Nat \ {0} /\ CanTimeOut \in BOOLEAN /\ MaxTimeOuts \in Nat
    /\ Texts \subseteq Seq(Nat)

Delimiter == 0

VARIABLES
    sent,               \* the text
    pc,                 \* where tcs_receive_line is: peek, search, return; or ended
    buffer,             \* what was peeked or read into the buffer
    bytes_read, bytes_searched,
    results,            \* of the calls: what they returned, and the bytes they say they received
    received,           \* history: these bytes, one call after the other
    timeouts            \* how many of them timed out

vars == <<chunks, wire, open, sent, pc, buffer, bytes_read, bytes_searched, results,
          received, timeouts>>

Init ==
    /\ sent \in Texts
    /\ chunks = <<sent>> /\ wire = << >> /\ open = TRUE
    /\ pc = "peek" /\ buffer = << >> /\ bytes_read = 0 /\ bytes_searched = 0
    /\ results = << >> /\ received = << >> /\ timeouts = 0

Sender ==
    /\ tcs_send \/ SendFails \/ Close
    /\ UNCHANGED <<sent, pc, buffer, bytes_read, bytes_searched, results, received, timeouts>>

Return(sts, bytes) ==
    /\ results' = Append(results, [sts |-> sts, bytes |-> bytes])
    /\ received' = received \o bytes

Room(read) == BufferLength - read

\* bytes_peeked is the length of the buffer: what has been read, and what
\* this peek adds.
Peek ==
    /\ pc = "peek" /\ wire # << >>
    /\ \E n \in 1 .. Len(wire) :
          /\ n <= Room(bytes_read)
          /\ buffer' = SubSeq(buffer, 1, bytes_read) \o SubSeq(wire, 1, n)
    /\ pc' = "search"
    /\ UNCHANGED <<chunks, wire, open, sent, bytes_read, bytes_searched, results, received, timeouts>>

Told(read) == SubSeq(buffer, 1, read)

\* A call that fails says how much it has read.
PeekFails ==
    /\ pc = "peek"
    /\ \/ /\ Ended
          /\ Return("shutdown", Told(bytes_read)) /\ pc' = "ended"
          /\ UNCHANGED timeouts
       \/ /\ CanTimeOut /\ Quiet /\ timeouts < MaxTimeOuts
          /\ Return("timed_out", Told(bytes_read)) /\ pc' = "return"
          /\ timeouts' = timeouts + 1
    /\ UNCHANGED <<chunks, wire, open, sent, buffer, bytes_read, bytes_searched>>

\* Where the search stops: after the first delimiter, or at the end.
Searched(from) ==
    LET hits == {k \in from + 1 .. Len(buffer) : buffer[k] = Delimiter}
    IN  IF hits = {} THEN Len(buffer) ELSE CHOOSE k \in hits : \A j \in hits : k <= j

\* Mutant: all that was peeked is taken.
CatchUpWhole(searched, read) == Len(buffer) - read

CatchUp(searched, read) == searched - read

\* The search, and the read of the bytes searched, which are all there.
Search ==
    /\ pc = "search"
    /\ LET n == CatchUp(Searched(bytes_searched), bytes_read) IN
       /\ bytes_searched' = Searched(bytes_searched)
       /\ bytes_read' = bytes_read + n
       /\ buffer' = SubSeq(buffer, 1, bytes_read) \o SubSeq(wire, 1, n)
       /\ wire' = SubSeq(wire, n + 1, Len(wire))
       /\ IF buffer[bytes_searched'] = Delimiter
          THEN Return("success", buffer') /\ pc' = "return"
          ELSE IF bytes_read' < BufferLength THEN pc' = "peek" /\ UNCHANGED <<results, received>>
          ELSE Return("again", buffer') /\ pc' = "return"
    /\ UNCHANGED <<chunks, open, sent, timeouts>>

CallAgain ==
    /\ pc = "return"
    /\ pc' = "peek" /\ buffer' = << >> /\ bytes_read' = 0 /\ bytes_searched' = 0
    /\ UNCHANGED <<chunks, wire, open, sent, results, received, timeouts>>

Receiver == Peek \/ PeekFails \/ Search \/ CallAgain

Stopped == pc = "ended" /\ UNCHANGED vars

Next == Sender \/ Receiver \/ Stopped

Spec == Init /\ [][Next]_vars

-----------------------------------------------------------------------------
(* Correctness.                                                            *)

\* What the call in progress has read and not yet told.
InHand == IF pc \in {"peek", "search"} THEN SubSeq(buffer, 1, bytes_read) ELSE << >>

\* What the sender still has to send.
Unsent == IF chunks = << >> THEN << >> ELSE Head(chunks)

\* What is received, in hand, on its way and still to be sent is the text.
NothingLost ==
    /\ IsPrefix(received \o InHand \o wire, sent)
    /\ open => received \o InHand \o wire \o Unsent = sent

\* A call that succeeds ends with the one delimiter it received; one that
\* says TCS_AGAIN has filled its buffer and seen none.
LinesAreLines ==
    \A k \in DOMAIN results :
        LET bytes == results[k].bytes
            hits == {i \in DOMAIN bytes : bytes[i] = Delimiter}
        IN  /\ hits = (IF results[k].sts = "success" THEN {Len(bytes)} ELSE {})
            /\ results[k].sts = "again" => Len(bytes) = BufferLength

(* No byte is lost, read twice or taken from beyond the delimiter, also by *)
(* calls that fail (tinycsocket.h:1195), and a call says truly whether it  *)
(* has received a line.                                                    *)
LinesAreWhole == NothingLost /\ LinesAreLines
=============================================================================
