--------------------------- MODULE NmbsRtuServer ---------------------------
(***************************************************************************)
(* A nanoMODBUS server on an RTU line it shares with other servers.  It    *)
(* hears every request and every answer, and nothing tells one from the    *)
(* other: a request for another unit is read like its own and, instead of  *)
(* being answered, followed by reading the answer of that unit (the        *)
(* recv_..._res functions with no place for the data).                     *)
(*                                                                         *)
(* A frame arrives in two parts, its unit and function code and the rest;  *)
(* the rest may be read in pieces when it is not what it is read as.       *)
(* The program calls nmbs_server_poll in a loop.                           *)
(***************************************************************************)
EXTENDS Integers, Sequences, Nmbs

CONSTANTS
    Own,                \* address_rtu
    Units,              \* the units on the line, 0 the broadcast
    Functions,          \* the functions the master uses
    MaxRequests,        \* bound: requests of the master
    MayPause,           \* whether the line may pause for longer than a timeout
    Noise               \* whether frames may arrive damaged

Handled == {3, 6}
Echoed  == {6}          \* the answer has the form of the request

\* nmbs_server_create refuses address 0 on RTU.
RtuServerAssumption ==
    /\ Own \in 1 .. 255 /\ Units \subseteq 0 .. 255
    /\ Functions \subseteq 1 .. 127
    /\ MaxRequests \in Nat
    /\ MayPause \in BOOLEAN /\ Noise \in BOOLEAN

VARIABLES
    pc,
    msg,                \* the frame whose header was read last
    requests,           \* history: the requests of the master
    wire,               \* the parts of frames on the line
    inbox,              \* the parts that wait to be read
    open,               \* whether the last request may still be answered
    served,             \* history: the requests the callbacks were called for
    answers,            \* history: the requests this server answered
    refusals            \* history: the units its refusals of functions name

vars == <<pc, msg, requests, wire, inbox, open, served, answers, refusals>>

\* A frame as it is heard; meant is the unit it was sent to.
NoFrame == [request |-> TRUE, of |-> 0, unit |-> 0, meant |-> 0, function |-> 0, good |-> TRUE]

Init ==
    /\ pc = "poll"
    /\ msg = NoFrame
    /\ requests = << >>
    /\ wire = << >> /\ inbox = << >>
    /\ open = FALSE
    /\ served = << >> /\ answers = << >> /\ refusals = {}

broadcast(frame) == frame.unit = 0

\* Mutant: every unit is this server's.
IgnoredNever(frame) == FALSE

ignored(frame) == frame.unit # 0 /\ frame.unit # Own

Parts(frame) == <<[part |-> "header", frame |-> frame], [part |-> "rest", frame |-> frame]>>

-----------------------------------------------------------------------------
(* The master, the other servers and the line (external).                  *)

\* A master sends when it has its answer or has given up.  What is damaged
\* may be heard as another unit's request.
MasterSends ==
    /\ Len(requests) < MaxRequests /\ wire = << >>
    /\ \E unit, meant \in Units, function \in Functions, good \in IF Noise THEN BOOLEAN ELSE {TRUE} :
          LET frame == [request |-> TRUE, of |-> Len(requests) + 1, unit |-> unit, meant |-> meant,
                        function |-> function, good |-> good]
          IN  /\ good => unit = meant
              /\ requests' = Append(requests, frame)
              /\ wire' = Parts(frame)
    /\ open' = TRUE
    /\ UNCHANGED <<pc, msg, inbox, served, answers, refusals>>

\* The server that was meant answers; its answer may be damaged, and heard as
\* that of any unit and function, or the request may have been, only here.
OtherAnswers ==
    /\ open /\ wire = << >>
    /\ LET asked == requests[Len(requests)]
       IN  /\ asked.meant \notin {0, Own}
           /\ \E unit \in Units, function \in Functions \cup {asked.function + 128},
                 good \in IF Noise THEN BOOLEAN ELSE {TRUE} :
                 /\ good => unit = asked.meant
                 /\ good /\ asked.good => function \in {asked.function, asked.function + 128}
                 /\ wire' = Parts([asked EXCEPT !.request = FALSE, !.unit = unit,
                                                !.function = function, !.good = good])
    /\ open' = FALSE
    /\ UNCHANGED <<pc, msg, requests, inbox, served, answers, refusals>>

Arrive ==
    /\ wire # << >>
    /\ inbox' = Append(inbox, Head(wire))
    /\ wire' = Tail(wire)
    /\ UNCHANGED <<pc, msg, requests, open, served, answers, refusals>>

-----------------------------------------------------------------------------
(* The server.  TimeOut gives up a read; only the first byte of a request  *)
(* is waited for without an error.                                         *)

Take == inbox # << >> /\ inbox' = Tail(inbox)
Part1 == Head(inbox)
Line == <<requests, wire, open>>

TimeOut ==
    /\ pc \in {"rest", "foreign", "foreign_rest"} /\ inbox = << >>
    /\ MayPause \/ pc = "foreign"
    /\ pc' = "poll"
    /\ UNCHANGED <<msg, inbox, served, answers, refusals, Line>>

\* Bytes that are not what they are read as have no good CRC.  They end in
\* an error, with its flush or a time-out; what is left of the frame may
\* arrive after either, and be read as the start of a frame then.
Misread ==
    \/ inbox' = Tail(inbox) /\ pc' \in {"flush", "poll"}
    \/ inbox' = inbox /\ pc' = "poll"

\* From the middle of a frame, two bytes may look like this server's unit and
\* a function that it does not have (0 stands for them all).
OutOfStep ==
    \/ Misread /\ UNCHANGED msg
    \/ /\ inbox' = Tail(inbox) /\ pc' = "unknown"
       /\ msg' = [NoFrame EXCEPT !.unit = Own, !.good = FALSE]

ReadHeader ==
    /\ pc = "poll" /\ inbox # << >>
    /\ \/ Part1.part = "rest" /\ OutOfStep
       \/ /\ Part1.part = "header" /\ Take
          /\ msg' = Part1.frame
          /\ pc' = IF Part1.frame.function \in Handled THEN "rest" ELSE "unknown"
    /\ UNCHANGED <<served, answers, refusals, Line>>

\* What is read as a request may be the answer of another server.  It is in
\* step with one only if both have the same form.
LikeRequest(frame) == frame.request \/ frame.function \in Echoed

\* The rest of a handler's request, with its CRC.
ReadRest ==
    /\ pc = "rest" /\ inbox # << >>
    /\ \/ /\ LikeRequest(msg) /\ msg.good /\ Take
          /\ pc' = IF ignored(msg) THEN "foreign" ELSE "serve"
       \/ ~(LikeRequest(msg) /\ msg.good) /\ Misread
    /\ UNCHANGED <<msg, served, answers, refusals, Line>>

\* The callback, and the answer unless it was a broadcast.
Serve ==
    /\ pc = "serve"
    /\ served' = Append(served, msg.of)
    /\ pc' = IF broadcast(msg) THEN "poll" ELSE "answer"
    /\ UNCHANGED <<msg, inbox, answers, refusals, Line>>

SendAnswer ==
    /\ pc = "answer"
    /\ IF msg.function \in Handled
       THEN answers' = Append(answers, msg.of) /\ UNCHANGED refusals
       ELSE refusals' = refusals \cup {msg.unit} /\ UNCHANGED answers
    /\ pc' = "poll"
    /\ UNCHANGED <<msg, inbox, served, Line>>

\* The default branch of handle_req_fc: the rest is flushed unread, and
\* whether it was a request, or damaged, is not known.
Unknown ==
    /\ pc = "unknown"
    /\ inbox' = << >>
    /\ pc' = IF ignored(msg) \/ broadcast(msg) THEN "poll" ELSE "answer"
    /\ UNCHANGED <<msg, served, answers, refusals, Line>>

\* recv_res_header for another unit's answer.
ReadForeignHeader ==
    /\ pc = "foreign" /\ inbox # << >>
    /\ \/ Part1.part = "rest" /\ Misread /\ UNCHANGED msg
       \/ /\ Part1.part = "header" /\ Take
          /\ msg' = Part1.frame
          /\ pc' = IF Part1.frame.unit = msg.unit
                      /\ Part1.frame.function \in {msg.function, msg.function + 128}
                   THEN "foreign_rest" ELSE "flush"
    /\ UNCHANGED <<served, answers, refusals, Line>>

\* What is read as an answer may be the next request of the master.
LikeAnswer(frame) == ~frame.request \/ frame.function \in Echoed

ReadForeignRest ==
    /\ pc = "foreign_rest" /\ inbox # << >>
    /\ \/ LikeAnswer(msg) /\ msg.good /\ Take /\ pc' = "poll"
       \/ ~(LikeAnswer(msg) /\ msg.good) /\ Misread
    /\ UNCHANGED <<msg, served, answers, refusals, Line>>

Flush ==
    /\ pc = "flush"
    /\ inbox' = << >>
    /\ pc' = "poll"
    /\ UNCHANGED <<msg, served, answers, refusals, Line>>

Poll ==
    \/ ReadHeader \/ ReadRest \/ Serve \/ SendAnswer \/ Unknown
    \/ ReadForeignHeader \/ ReadForeignRest \/ Flush

Next == MasterSends \/ OtherAnswers \/ Arrive \/ Poll \/ TimeOut

Spec == Init /\ [][Next]_vars

-----------------------------------------------------------------------------
(* Correctness.                                                            *)

(* Out of step with the line or not, the server never sends a frame as     *)
(* another unit or for a broadcast; what it sends is the answer to an      *)
(* undamaged request that was meant for it and that its callbacks have     *)
(* been called for, to none twice and in their order, or else a refusal    *)
(* of an unknown function.  Nothing is said of when it refuses: that is    *)
(* done before a CRC is read (nanomodbus.c:1885), so a damaged frame of    *)
(* another unit, or bytes from the middle of one, may be refused as well.  *)
SpeaksForItself ==
    /\ refusals \subseteq {Own}
    /\ \A i \in DOMAIN answers :
          /\ requests[answers[i]].meant = Own /\ requests[answers[i]].good
          /\ \E k \in DOMAIN served : served[k] = answers[i]
          /\ i > 1 => answers[i - 1] < answers[i]

(* The callbacks are called for whole, undamaged requests to this server   *)
(* or to all, each at most once and in the order they were sent.           *)
ServedOnce ==
    \A i \in DOMAIN served :
        LET request == requests[served[i]]
        IN  /\ request.good /\ request.meant \in {0, Own} /\ request.function \in Handled
            /\ i > 1 => served[i - 1] < served[i]

(* A server acts for itself alone: see the two.                            *)
ActsForItself == SpeaksForItself /\ ServedOnce

Good(i) ==
    i \in DOMAIN requests /\ requests[i].good /\ requests[i].unit = Own
        /\ requests[i].function \in Handled

Answered(i) == \E k \in DOMAIN answers : answers[k] = i

(* What nanomodbus.h:322 says: polling in a loop serves any incoming       *)
(* request.                                                                *)
EveryRequestServed == \A i \in 1 .. MaxRequests : Good(i) ~> Answered(i)

=============================================================================
