------------------------------ MODULE TcsStream ------------------------------
(***************************************************************************)
(* A stream socket between two users of tinycsocket, seen from the calls   *)
(* that frame messages: the side that sends, with tcs_send and             *)
(* TCS_MSG_SENDALL, and the bytes the two kernels hold.                    *)
(***************************************************************************)
EXTENDS Integers, Sequences, SequencesExt

CONSTANTS
    Capacity,           \* how many bytes the kernels hold
    Fails               \* whether sending may fail half way

StreamAssumption == Capacity \in Nat \ {0} /\ Fails \in BOOLEAN

VARIABLES
    chunks,             \* what the sender still has to send, a tcs_send each
    wire,               \* the bytes that were sent and not received
    open                \* whether the sender's side is open

streamVars == <<chunks, wire, open>>

StreamInit == chunks = << >> /\ wire = << >> /\ open = TRUE

Left(chunk, n) == SubSeq(chunk, n + 1, Len(chunk))

\* One round of the loop that sends everything: the system takes n bytes.
tcs_send ==
    /\ chunks # << >>
    /\ \E n \in 1 .. Len(Head(chunks)) :
          /\ Len(wire) + n <= Capacity
          /\ wire' = wire \o SubSeq(Head(chunks), 1, n)
          /\ chunks' = IF n = Len(Head(chunks)) THEN Tail(chunks)
                       ELSE <<Left(Head(chunks), n)>> \o Tail(chunks)
    /\ UNCHANGED open

\* A send fails; the program closes the socket instead of going on.
SendFails ==
    /\ Fails /\ chunks # << >>
    /\ chunks' = << >> /\ open' = FALSE
    /\ UNCHANGED wire

\* The program has nothing left to send.
Close ==
    /\ open /\ chunks = << >>
    /\ open' = FALSE
    /\ UNCHANGED <<chunks, wire>>

\* A receive finds nothing: the stream has ended, or there is nothing yet.
Ended == wire = << >> /\ ~open
Quiet == wire = << >> /\ open
=============================================================================
