-------------------------- MODULE NanoModbusProofs --------------------------
(***************************************************************************)
(* nanoMODBUS beyond the server that DriveSim uses, for any calls, frames, *)
(* answers, units and bounds: what the two halves may ask of each other,   *)
(* whose answer a call takes, what it says on a quiet line, for whom a     *)
(* server acts on a line it shares, how it serves a request for file       *)
(* records, and that a list of its objects arrives whole and in order.     *)
(***************************************************************************)
EXTENDS MCNanoModbus, FiniteSetTheorems, SequenceTheorems, TLAPS, WellFoundedInduction

-----------------------------------------------------------------------------
(* Queues                                                                  *)

LEMMA AppendIs ==
    ASSUME NEW S, NEW s \in Seq(S), NEW e \in S
    PROVE  /\ Append(s, e) \in Seq(S) /\ Len(s) \in Nat
           /\ Len(Append(s, e)) = Len(s) + 1
           /\ DOMAIN s = 1 .. Len(s) /\ DOMAIN Append(s, e) = 1 .. Len(s) + 1
           /\ \A i \in 1 .. Len(s) : Append(s, e)[i] = s[i]
           /\ Append(s, e)[Len(s) + 1] = e
BY AppendProperties, LenProperties

LEMMA TailIs ==
    ASSUME NEW S, NEW s \in Seq(S), s # << >>
    PROVE  /\ Tail(s) \in Seq(S) /\ Len(s) \in Nat /\ Len(s) >= 1
           /\ Len(Tail(s)) = Len(s) - 1
           /\ DOMAIN s = 1 .. Len(s) /\ DOMAIN Tail(s) = 1 .. Len(s) - 1
           /\ \A i \in 1 .. Len(s) - 1 : Tail(s)[i] = s[i + 1] /\ i + 1 \in 1 .. Len(s)
           /\ Head(s) = s[1] /\ 1 \in 1 .. Len(s) /\ s[1] \in S
<1>1. Len(s) \in Nat /\ DOMAIN s = 1 .. Len(s)
    BY LenProperties
<1>2. Len(s) >= 1
    BY <1>1, EmptySeq
<1>3. Tail(s) \in Seq(S) /\ Len(Tail(s)) = Len(s) - 1
    BY <1>1, HeadTailProperties
<1>4. DOMAIN Tail(s) = 1 .. Len(s) - 1
    BY <1>3, LenProperties
<1>5. \A i \in 1 .. Len(s) - 1 : Tail(s)[i] = s[i + 1]
    BY <1>1, <1>2
<1>6. Head(s) = s[1] /\ 1 \in 1 .. Len(s) /\ s[1] \in S
    BY <1>1, <1>2, HeadTailProperties
<1> QED
    BY <1>1, <1>2, <1>3, <1>4, <1>5, <1>6

-----------------------------------------------------------------------------
(* The server on a shared line                                             *)

FrameRecord == [request : BOOLEAN, of : Nat, unit : 0 .. 255, meant : 0 .. 255,
                function : Nat, good : BOOLEAN]
PartRecord == [part : {"header", "rest"}, frame : FrameRecord]

LineTypeInv ==
    /\ requests \in Seq(FrameRecord)
    /\ wire \in Seq(PartRecord) /\ lineInbox \in Seq(PartRecord)
    /\ heard \in FrameRecord
    /\ served \in Seq(Nat) /\ answers \in Seq(Nat)

\* What is heard is a request as it was sent, or another unit's answer, which
\* only when it is damaged can name this one.
Heard(frame, sent) ==
    /\ frame.of \in 1 .. Len(sent)
    /\ frame.request => frame = sent[frame.of]
    /\ ~frame.request /\ frame.good => frame.unit \notin {0, Own}

AsSent(sent) ==
    \A i \in 1 .. Len(sent) :
        /\ sent[i].request /\ sent[i].of = i
        /\ sent[i].good => sent[i].unit = sent[i].meant

\* What the server knows of the frame in hand at each point of a poll.
InStep(at, frame) ==
    /\ at \in {"rest", "serve"} => frame.function \in Line!Handled
    /\ at = "unknown" => frame.function \notin Line!Handled
    /\ at = "serve" => frame.request /\ frame.good /\ frame.unit \in {0, Own}
    /\ at = "answer" =>
          /\ frame.unit = Own
          /\ frame.function \in Line!Handled => frame.request /\ frame.good

\* A refusal is for nothing: what is refused may be the middle of a frame.
InHand(at, frame) == at \in {"rest", "serve", "answer"} /\ frame.function \in Line!Handled

\* Requests are read in the order they were sent, and each once.
Asks(part) == part.part = "header" /\ part.frame.request

Behind(said, n) == \A k \in 1 .. Len(said) : said[k] < n

Among(said, n) == \E k \in 1 .. Len(said) : said[k] = n

\* The request in hand, if there is one.
Hand == IF InHand(linePc, heard) /\ heard.request THEN heard.of ELSE 0

Ahead(part, done, said, hand) ==
    Asks(part) => Behind(done, part.frame.of) /\ Behind(said, part.frame.of) /\ hand < part.frame.of

Ascend(first, second) == Asks(first) /\ Asks(second) => first.frame.of < second.frame.of

\* What is still to be read: in the inbox and, behind it, on the wire.
Follow(parts, behind, sent, done, said, hand) ==
    /\ \A i \in 1 .. Len(parts) :
          Heard(parts[i].frame, sent) /\ Ahead(parts[i], done, said, hand)
    /\ \A i \in 1 .. Len(behind) :
          /\ Heard(behind[i].frame, sent) /\ Ahead(behind[i], done, said, hand)
          /\ Asks(behind[i]) => i = 1
    /\ \A i, j \in 1 .. Len(parts) : i < j => Ascend(parts[i], parts[j])
    /\ \A i \in 1 .. Len(parts) : \A j \in 1 .. Len(behind) : Ascend(parts[i], behind[j])

SentInv == AsSent(requests) /\ (open => Len(requests) >= 1)

HandInv ==
    /\ InHand(linePc, heard) => Heard(heard, requests)
    /\ InStep(linePc, heard)
    /\ linePc \in {"rest", "serve"} /\ heard.request => Behind(served, heard.of)
    /\ InHand(linePc, heard) /\ heard.request => Behind(answers, heard.of)
    /\ linePc = "answer" /\ InHand(linePc, heard) => Among(served, heard.of)

Serves(said, sent) ==
    \A i \in 1 .. Len(said) :
        /\ said[i] \in 1 .. Len(sent)
        /\ sent[said[i]].good /\ sent[said[i]].meant \in {0, Own}
        /\ sent[said[i]].function \in Line!Handled
        /\ i > 1 => said[i - 1] < said[i]

Speaks(said, done, sent) ==
    \A i \in 1 .. Len(said) :
        /\ said[i] \in 1 .. Len(sent)
        /\ sent[said[i]].meant = Own /\ sent[said[i]].good /\ Among(done, said[i])
        /\ i > 1 => said[i - 1] < said[i]

LineInv ==
    /\ LineTypeInv /\ SentInv /\ HandInv
    /\ Follow(lineInbox, wire, requests, served, answers, Hand)
    /\ Serves(served, requests) /\ Speaks(answers, served, requests)
    /\ refusals \subseteq {Own}

LEMMA LineInit == Line!Init => LineInv
<1> SUFFICES ASSUME Line!Init PROVE LineInv
    OBVIOUS
<1>1. /\ requests = << >> /\ wire = << >> /\ lineInbox = << >>
      /\ served = << >> /\ answers = << >> /\ linePc = "poll" /\ ~open /\ heard = Line!NoFrame
      /\ refusals = {}
    BY DEF Line!Init
<1>2. /\ Len(requests) = 0 /\ Len(wire) = 0 /\ Len(lineInbox) = 0
      /\ Len(served) = 0 /\ Len(answers) = 0
    BY <1>1, EmptySeq
<1>3. LineTypeInv
    BY <1>1, EmptySeq DEF LineTypeInv, Line!NoFrame, FrameRecord
<1>4. SentInv /\ HandInv
    BY <1>1, <1>2 DEF SentInv, HandInv, AsSent, InHand, InStep
<1>5. Follow(lineInbox, wire, requests, served, answers, Hand)
    BY <1>1, <1>2 DEF Follow
<1>6. Serves(served, requests) /\ Speaks(answers, served, requests)
    BY <1>2 DEF Serves, Speaks
<1> QED
    BY <1>1, <1>3, <1>4, <1>5, <1>6 DEF LineInv

\* A further request changes nothing that was said of the earlier ones.
LEMMA MoreSent ==
    ASSUME NEW sent \in Seq(FrameRecord), NEW frame \in FrameRecord, NEW more,
           more = Append(sent, frame),
           frame.request, frame.of = Len(sent) + 1, frame.good => frame.unit = frame.meant
    PROVE  /\ more \in Seq(FrameRecord) /\ Len(sent) \in Nat /\ Len(more) = Len(sent) + 1
           /\ AsSent(sent) => AsSent(more)
           /\ \A f : Heard(f, sent) => Heard(f, more) /\ f.of < Len(more)
           /\ Heard(frame, more)
           /\ \A said : Serves(said, sent) => Serves(said, more)
           /\ \A said, done : Speaks(said, done, sent) => Speaks(said, done, more)
<1>1. PICK n \in Nat : n = Len(sent)
    BY LenProperties
<1>2. /\ more \in Seq(FrameRecord) /\ Len(sent) = n /\ Len(more) = n + 1
      /\ \A i \in 1 .. n : more[i] = sent[i]
      /\ more[n + 1] = frame /\ frame.of = n + 1
    BY <1>1, AppendIs
<1>3. /\ \A i \in 1 .. n : i \in 1 .. n + 1 /\ i < n + 1
      /\ \A i \in 1 .. n + 1 : i = n + 1 \/ i \in 1 .. n
      /\ n + 1 \in 1 .. n + 1
    OBVIOUS
<1>4. AsSent(sent) => AsSent(more)
    BY <1>2, <1>3 DEF AsSent
<1>5. \A f : Heard(f, sent) => Heard(f, more) /\ f.of < Len(more)
    BY <1>2, <1>3 DEF Heard
<1>6. Heard(frame, more)
    BY <1>2, <1>3 DEF Heard
<1>7. \A said : Serves(said, sent) => Serves(said, more)
    BY <1>2, <1>3 DEF Serves
<1>8. \A said, done : Speaks(said, done, sent) => Speaks(said, done, more)
    BY <1>2, <1>3 DEF Speaks
<1> QED
    BY <1>1, <1>2, <1>4, <1>5, <1>6, <1>7, <1>8

-----------------------------------------------------------------------------
(* What is still to be read, and what a step takes from it.                *)

LEMMA HandIsEarlier ==
    ASSUME NEW q, NEW w, NEW sent, NEW done, NEW said, NEW hand,
           Follow(q, w, sent, done, said, hand)
    PROVE  Follow(q, w, sent, done, said, 0) /\ Follow(<< >>, w, sent, done, said, hand)
<1>1. \A f : Heard(f, sent) => 0 < f.of
    BY DEF Heard
<1>2. Len(<< >>) = 0
    BY EmptySeq
<1> QED
    BY <1>1, <1>2 DEF Follow, Ahead

LEMMA PartTaken ==
    ASSUME NEW q \in Seq(PartRecord), q # << >>, NEW w, NEW sent, NEW done, NEW said, NEW hand,
           Follow(q, w, sent, done, said, hand)
    PROVE  /\ Head(q) \in PartRecord /\ Tail(q) \in Seq(PartRecord)
           /\ Heard(Head(q).frame, sent) /\ Ahead(Head(q), done, said, hand)
           /\ Follow(Tail(q), w, sent, done, said, hand)
           /\ Asks(Head(q)) => Follow(Tail(q), w, sent, done, said, Head(q).frame.of)
<1>1. PICK n \in Nat : n = Len(q) - 1
    BY TailIs
<1>2. /\ Tail(q) \in Seq(PartRecord) /\ Len(Tail(q)) = n /\ Head(q) = q[1] /\ q[1] \in PartRecord
      /\ Len(q) = n + 1
      /\ \A i \in 1 .. n : Tail(q)[i] = q[i + 1]
    BY <1>1, TailIs
<1>3. /\ 1 \in 1 .. n + 1 /\ \A i \in 1 .. n : i + 1 \in 1 .. n + 1 /\ 1 < i + 1
      /\ \A i, j \in 1 .. n : i < j => i + 1 < j + 1
    OBVIOUS
<1>4. Follow(Tail(q), w, sent, done, said, hand)
    BY <1>2, <1>3 DEF Follow
<1>5. ASSUME Asks(Head(q)) PROVE Follow(Tail(q), w, sent, done, said, Head(q).frame.of)
    <2> DEFINE of == Head(q).frame.of
    <2>1. \A i \in 1 .. n : Ahead(Tail(q)[i], done, said, of)
        <3>1. \A i \in 1 .. n : Ascend(q[1], q[i + 1]) /\ Ahead(q[i + 1], done, said, hand)
            BY <1>2, <1>3 DEF Follow
        <3> QED
            BY <3>1, <1>2, <1>5 DEF Ahead, Ascend
    <2>2. \A j \in 1 .. Len(w) : Ahead(w[j], done, said, of)
        <3>1. \A j \in 1 .. Len(w) : Ascend(q[1], w[j]) /\ Ahead(w[j], done, said, hand)
            BY <1>2, <1>3 DEF Follow
        <3> QED
            BY <3>1, <1>2, <1>5 DEF Ahead, Ascend
    <2> QED
        BY <1>2, <1>4, <2>1, <2>2 DEF Follow
<1> QED
    BY <1>2, <1>3, <1>4, <1>5 DEF Follow

\* What is said of the request in hand stays behind what follows.
LEMMA HandIsSaid ==
    ASSUME NEW q, NEW w, NEW sent, NEW done \in Seq(Nat), NEW said \in Seq(Nat), NEW hand \in Nat,
           Follow(q, w, sent, done, said, hand)
    PROVE  /\ Follow(q, w, sent, Append(done, hand), said, hand)
           /\ Follow(q, w, sent, done, Append(said, hand), hand)
<1>1. \A s \in Seq(Nat) : \A m : Behind(s, m) /\ hand < m => Behind(Append(s, hand), m)
    <2> SUFFICES ASSUME NEW s \in Seq(Nat), NEW m, Behind(s, m), hand < m
                 PROVE  Behind(Append(s, hand), m)
        OBVIOUS
    <2>1. PICK n \in Nat : n = Len(s)
        BY LenProperties
    <2>2. /\ Len(Append(s, hand)) = n + 1 /\ Append(s, hand)[n + 1] = hand
          /\ \A i \in 1 .. n : Append(s, hand)[i] = s[i]
        BY <2>1, AppendIs
    <2>3. \A i \in 1 .. n + 1 : i = n + 1 \/ i \in 1 .. n
        OBVIOUS
    <2> QED
        BY <2>1, <2>2, <2>3 DEF Behind
<1>2. \A part : Ahead(part, done, said, hand) =>
         Ahead(part, Append(done, hand), said, hand) /\ Ahead(part, done, Append(said, hand), hand)
    BY <1>1 DEF Ahead
<1> QED
    BY <1>2 DEF Follow

-----------------------------------------------------------------------------
(* The master, the other servers and the line                              *)

LEMMA LineMasterSends == LineInv /\ Line!MasterSends => LineInv'
<1> SUFFICES ASSUME LineInv, Line!MasterSends PROVE LineInv'
    OBVIOUS
<1>0. /\ LineTypeInv /\ SentInv /\ HandInv
      /\ Follow(lineInbox, wire, requests, served, answers, Hand)
      /\ Serves(served, requests) /\ Speaks(answers, served, requests) /\ refusals \subseteq {Own}
    BY DEF LineInv
<1>1. PICK n \in Nat : n = Len(requests)
    BY <1>0, LenProperties DEF LineTypeInv
<1>2. /\ wire = << >> /\ open' = TRUE
      /\ linePc' = linePc /\ heard' = heard /\ lineInbox' = lineInbox
      /\ served' = served /\ answers' = answers /\ refusals' = refusals
    BY DEF Line!MasterSends
<1>3. PICK frame \in FrameRecord :
         /\ frame.request /\ frame.of = n + 1 /\ (frame.good => frame.unit = frame.meant)
         /\ requests' = Append(requests, frame) /\ wire' = Line!Parts(frame)
    <2>2. PICK unit, meant \in Units, function \in Functions,
               good \in IF Noise THEN BOOLEAN ELSE {TRUE} :
             LET frame == [request |-> TRUE, of |-> n + 1, unit |-> unit, meant |-> meant,
                           function |-> function, good |-> good]
             IN  /\ good => unit = meant
                 /\ requests' = Append(requests, frame)
                 /\ wire' = Line!Parts(frame)
        BY <1>1 DEF Line!MasterSends
    <2> DEFINE frame == [request |-> TRUE, of |-> n + 1, unit |-> unit, meant |-> meant,
                         function |-> function, good |-> good]
    <2>3. frame \in FrameRecord
        <3>1. unit \in 0 .. 255 /\ meant \in 0 .. 255 /\ function \in 1 .. 127
            BY MCLineAssumption DEF Line!RtuServerAssumption
        <3>2. function \in Nat
            BY <3>1
        <3>3. good \in BOOLEAN
            BY Zenon
        <3> QED
            BY <3>1, <3>2, <3>3 DEF FrameRecord
    <2>4. frame.request /\ frame.of = n + 1 /\ (frame.good => frame.unit = frame.meant)
        BY <2>2
    <2> QED
        BY <2>2, <2>3, <2>4
<1>4. /\ requests' \in Seq(FrameRecord) /\ Len(requests') = n + 1
      /\ AsSent(requests) => AsSent(requests')
      /\ \A f : Heard(f, requests) => Heard(f, requests') /\ f.of < n + 1
      /\ Heard(frame, requests')
      /\ \A said : Serves(said, requests) => Serves(said, requests')
      /\ \A said, done : Speaks(said, done, requests) => Speaks(said, done, requests')
    <2>1. /\ requests \in Seq(FrameRecord) /\ frame.of = Len(requests) + 1
          /\ frame.request /\ (frame.good => frame.unit = frame.meant)
        BY <1>0, <1>1, <1>3 DEF LineTypeInv
    <2>2. /\ requests' \in Seq(FrameRecord) /\ Len(requests') = Len(requests) + 1
          /\ AsSent(requests) => AsSent(requests')
          /\ \A f : Heard(f, requests) => Heard(f, requests') /\ f.of < Len(requests')
          /\ Heard(frame, requests')
          /\ \A said : Serves(said, requests) => Serves(said, requests')
          /\ \A said, done : Speaks(said, done, requests) => Speaks(said, done, requests')
        BY <2>1, <1>3, MoreSent
    <2> QED
        BY <2>2, <1>1
<1>5. /\ wire' = <<[part |-> "header", frame |-> frame], [part |-> "rest", frame |-> frame]>>
      /\ wire' \in Seq(PartRecord) /\ Len(wire') = 2
    BY <1>3 DEF Line!Parts, PartRecord
<1>6. \A i \in 1 .. Len(wire') : wire'[i].frame = frame /\ (Asks(wire'[i]) <=> i = 1)
    BY <1>5, <1>3 DEF Asks
<1>7. LineTypeInv'
    BY <1>0, <1>2, <1>4, <1>5 DEF LineTypeInv
<1>8. SentInv' /\ HandInv'
    <2>1. n + 1 >= 1
        OBVIOUS
    <2> QED
        BY <1>0, <1>2, <1>4, <2>1 DEF SentInv, HandInv
<1>9. Follow(lineInbox, wire', requests', served, answers, Hand)
    <2>1. Hand < n + 1
        <3>1. Hand = 0 \/ (Hand = heard.of /\ InHand(linePc, heard))
            BY DEF Hand
        <3> QED
            BY <3>1, <1>0, <1>4 DEF HandInv
    <2>2. Behind(served, n + 1) /\ Behind(answers, n + 1)
        BY <1>0, <1>1 DEF Serves, Speaks, Behind
    <2>3. \A i \in 1 .. Len(wire') :
             /\ Heard(wire'[i].frame, requests') /\ Ahead(wire'[i], served, answers, Hand)
             /\ Asks(wire'[i]) => i = 1
        BY <1>3, <1>4, <1>6, <2>1, <2>2 DEF Ahead
    <2>4. \A i \in 1 .. Len(lineInbox) : \A j \in 1 .. Len(wire') : Ascend(lineInbox[i], wire'[j])
        BY <1>0, <1>3, <1>4, <1>6 DEF Ascend, Follow
    <2> QED
        BY <1>0, <1>4, <2>3, <2>4 DEF Follow
<1>10. Hand' = Hand
    BY <1>2 DEF Hand
<1>11. Serves(served, requests)' /\ Speaks(answers, served, requests)'
    BY <1>0, <1>2, <1>4
<1> QED
    BY <1>2, <1>7, <1>8, <1>9, <1>10, <1>11 DEF LineInv

\* Another server answers for its own unit.
LEMMA LineOtherAnswers == LineInv /\ Line!OtherAnswers => LineInv'
<1> SUFFICES ASSUME LineInv, Line!OtherAnswers PROVE LineInv'
    OBVIOUS
<1>0. /\ LineTypeInv /\ SentInv /\ HandInv
      /\ Follow(lineInbox, wire, requests, served, answers, Hand)
      /\ Serves(served, requests) /\ Speaks(answers, served, requests) /\ refusals \subseteq {Own}
    BY DEF LineInv
<1>1. PICK n \in Nat : n = Len(requests)
    BY <1>0, LenProperties DEF LineTypeInv
<1>2. /\ n >= 1 /\ n \in 1 .. n /\ requests[n] \in FrameRecord
      /\ requests[n].of = n /\ requests[n].meant \notin {0, Own}
    <2>1. n >= 1 /\ requests[n].meant \notin {0, Own}
        BY <1>0, <1>1 DEF Line!OtherAnswers, SentInv
    <2>2. n \in 1 .. n /\ n \in 1 .. Len(requests)
        BY <2>1, <1>1
    <2>3. requests[n] \in FrameRecord
        BY <1>0, <2>2, ElementOfSeq DEF LineTypeInv
    <2> QED
        BY <1>0, <2>1, <2>2, <2>3 DEF SentInv, AsSent
<1>3. /\ linePc' = linePc /\ heard' = heard /\ lineInbox' = lineInbox /\ ~open'
      /\ served' = served /\ answers' = answers /\ refusals' = refusals /\ requests' = requests
    BY DEF Line!OtherAnswers
<1>4. PICK theirs \in FrameRecord :
         /\ ~theirs.request /\ theirs.of = n /\ (theirs.good => theirs.unit = requests[n].meant)
         /\ wire' = Line!Parts(theirs)
    <2>1. PICK unit \in Units, function \in Functions \cup {requests[n].function + 128},
               good \in IF Noise THEN BOOLEAN ELSE {TRUE} :
             /\ good => unit = requests[n].meant
             /\ wire' = Line!Parts([requests[n] EXCEPT !.request = FALSE, !.unit = unit,
                                                     !.function = function, !.good = good])
        BY <1>1 DEF Line!OtherAnswers
    <2> DEFINE theirs == [requests[n] EXCEPT !.request = FALSE, !.unit = unit,
                                            !.function = function, !.good = good]
    <2>2. function \in Nat
        <3>1. function \in Functions \/ function = requests[n].function + 128
            BY <2>1
        <3>2. Functions \subseteq 1 .. 127
            BY MCLineAssumption DEF Line!RtuServerAssumption
        <3> QED
            BY <1>2, <3>1, <3>2 DEF FrameRecord
    <2>3. theirs \in FrameRecord
        <3>1. unit \in 0 .. 255
            BY MCLineAssumption DEF Line!RtuServerAssumption
        <3>2. good \in BOOLEAN
            BY Zenon
        <3> QED
            BY <1>2, <2>2, <3>1, <3>2 DEF FrameRecord
    <2>4. ~theirs.request /\ theirs.of = n /\ (theirs.good => theirs.unit = requests[n].meant)
        BY <1>2, <2>1 DEF FrameRecord
    <2> QED
        BY <2>1, <2>3, <2>4
<1>5. /\ wire' = <<[part |-> "header", frame |-> theirs], [part |-> "rest", frame |-> theirs]>>
      /\ wire' \in Seq(PartRecord) /\ Len(wire') = 2
    BY <1>4 DEF Line!Parts, PartRecord
<1>6. \A i \in 1 .. Len(wire') : wire'[i].frame = theirs /\ ~Asks(wire'[i])
    BY <1>5, <1>4 DEF Asks
<1>7. Heard(theirs, requests)
    BY <1>1, <1>2, <1>4 DEF Heard
<1>8. Follow(lineInbox, wire', requests, served, answers, Hand)
    BY <1>0, <1>6, <1>7 DEF Follow, Ahead, Ascend
<1>9. Hand' = Hand
    BY <1>3 DEF Hand
<1>10. LineTypeInv'
    BY <1>0, <1>3, <1>5 DEF LineTypeInv
<1>11. SentInv' /\ HandInv'
    BY <1>0, <1>3 DEF SentInv, HandInv
<1> QED
    BY <1>0, <1>3, <1>8, <1>9, <1>10, <1>11 DEF LineInv

LEMMA LineArrive == LineInv /\ Line!Arrive => LineInv'
<1> SUFFICES ASSUME LineInv, Line!Arrive PROVE LineInv'
    OBVIOUS
<1>0. /\ LineTypeInv /\ SentInv /\ HandInv
      /\ Follow(lineInbox, wire, requests, served, answers, Hand)
      /\ Serves(served, requests) /\ Speaks(answers, served, requests) /\ refusals \subseteq {Own}
    BY DEF LineInv
<1>1. /\ linePc' = linePc /\ heard' = heard /\ open' = open
      /\ served' = served /\ answers' = answers /\ refusals' = refusals /\ requests' = requests
      /\ wire # << >> /\ lineInbox' = Append(lineInbox, Head(wire)) /\ wire' = Tail(wire)
    BY DEF Line!Arrive
<1>2. PICK n, m \in Nat : n = Len(lineInbox) /\ m = Len(wire) - 1
    <2>1. Len(lineInbox) \in Nat
        BY <1>0, LenProperties DEF LineTypeInv
    <2>2. Len(wire) - 1 \in Nat
        BY <1>0, <1>1, TailIs DEF LineTypeInv
    <2> QED
        BY <2>1, <2>2
<1>3. /\ wire' \in Seq(PartRecord) /\ Len(wire') = m /\ Head(wire) = wire[1]
      /\ wire[1] \in PartRecord /\ Len(wire) = m + 1
      /\ \A i \in 1 .. m : wire'[i] = wire[i + 1]
    BY <1>0, <1>1, <1>2, TailIs DEF LineTypeInv
<1>4. /\ lineInbox' \in Seq(PartRecord) /\ Len(lineInbox') = n + 1 /\ lineInbox'[n + 1] = wire[1]
      /\ \A i \in 1 .. n : lineInbox'[i] = lineInbox[i]
    BY <1>0, <1>1, <1>2, <1>3, AppendIs DEF LineTypeInv
<1>5. /\ \A i \in 1 .. n + 1 : i = n + 1 \/ (i \in 1 .. n /\ i < n + 1)
      /\ 1 \in 1 .. m + 1 /\ \A i \in 1 .. m : i + 1 \in 1 .. m + 1 /\ i + 1 # 1
    OBVIOUS
<1>6. Follow(lineInbox', wire', requests, served, answers, Hand)
    <2>1. \A i \in 1 .. n + 1 : /\ Heard(lineInbox'[i].frame, requests)
                                /\ Ahead(lineInbox'[i], served, answers, Hand)
        BY <1>0, <1>2, <1>3, <1>4, <1>5 DEF Follow
    <2>2. \A i \in 1 .. m : /\ Heard(wire'[i].frame, requests)
                            /\ Ahead(wire'[i], served, answers, Hand)
                            /\ ~Asks(wire'[i])
        BY <1>0, <1>3, <1>5 DEF Follow
    <2>3. \A i, j \in 1 .. n + 1 : i < j => Ascend(lineInbox'[i], lineInbox'[j])
        <3>1. \A i, j \in 1 .. n : i < j => Ascend(lineInbox'[i], lineInbox'[j])
            BY <1>0, <1>2, <1>4 DEF Follow
        <3>2. \A i \in 1 .. n : Ascend(lineInbox'[i], lineInbox'[n + 1])
            BY <1>0, <1>2, <1>3, <1>4, <1>5 DEF Follow
        <3>3. \A i, j \in 1 .. n + 1 : i < j => i \in 1 .. n /\ (j = n + 1 \/ j \in 1 .. n)
            OBVIOUS
        <3> QED
            BY <3>1, <3>2, <3>3
    <2>4. \A i \in 1 .. n + 1 : \A j \in 1 .. m : Ascend(lineInbox'[i], wire'[j])
        BY <2>2 DEF Ascend
    <2> QED
        BY <1>3, <1>4, <2>1, <2>2, <2>3, <2>4 DEF Follow
<1>7. Hand' = Hand
    BY <1>1 DEF Hand
<1>8. LineTypeInv'
    BY <1>0, <1>1, <1>3, <1>4 DEF LineTypeInv
<1>9. SentInv' /\ HandInv'
    BY <1>0, <1>1 DEF SentInv, HandInv
<1> QED
    BY <1>0, <1>1, <1>6, <1>7, <1>8, <1>9 DEF LineInv

-----------------------------------------------------------------------------
(* The server's polls                                                      *)

\* A step after which no request is in hand.
LEMMA LineLetsGo ==
    ASSUME LineInv, ~InHand(linePc', heard'), InStep(linePc', heard'), heard' \in FrameRecord,
           requests' = requests, wire' = wire, open' = open,
           served' = served, answers' = answers, refusals' = refusals,
           lineInbox' \in {lineInbox, << >>} \/ (lineInbox # << >> /\ lineInbox' = Tail(lineInbox))
    PROVE  LineInv'
<1>0. /\ LineTypeInv /\ SentInv /\ HandInv
      /\ Follow(lineInbox, wire, requests, served, answers, Hand)
      /\ Serves(served, requests) /\ Speaks(answers, served, requests) /\ refusals \subseteq {Own}
    BY DEF LineInv
<1>1. Hand' = 0
    BY DEF Hand
<1>2. /\ lineInbox' \in Seq(PartRecord)
      /\ Follow(lineInbox', wire, requests, served, answers, 0)
    <2>1. CASE lineInbox' = lineInbox
        BY <1>0, <2>1, HandIsEarlier DEF LineTypeInv
    <2>2. CASE lineInbox' = << >>
        <3>1. Follow(<< >>, wire, requests, served, answers, Hand)
            BY <1>0, HandIsEarlier
        <3> QED
            BY <3>1, <2>2, HandIsEarlier, EmptySeq
    <2>3. CASE lineInbox # << >> /\ lineInbox' = Tail(lineInbox)
        <3>1. /\ Tail(lineInbox) \in Seq(PartRecord)
              /\ Follow(Tail(lineInbox), wire, requests, served, answers, Hand)
            BY <1>0, <2>3, PartTaken DEF LineTypeInv
        <3> QED
            BY <3>1, <2>3, HandIsEarlier
    <2> QED
        BY <2>1, <2>2, <2>3
<1>3. LineTypeInv'
    BY <1>0, <1>2 DEF LineTypeInv
<1>4. SentInv' /\ HandInv'
    BY <1>0 DEF SentInv, HandInv, InHand, InStep
<1> QED
    BY <1>0, <1>1, <1>2, <1>3, <1>4 DEF LineInv

\* A step that keeps the frame in hand.
LEMMA LineHolds ==
    ASSUME LineInv, InHand(linePc, heard), InHand(linePc', heard), heard' = heard,
           InStep(linePc', heard), linePc' \in {"rest", "serve"},
           heard.request => Behind(served, heard.of),
           requests' = requests, wire' = wire, open' = open,
           served' = served, answers' = answers, refusals' = refusals,
           lineInbox' \in {lineInbox, << >>} \/ (lineInbox # << >> /\ lineInbox' = Tail(lineInbox))
    PROVE  LineInv'
<1>0. /\ LineTypeInv /\ SentInv /\ HandInv
      /\ Follow(lineInbox, wire, requests, served, answers, Hand)
      /\ Serves(served, requests) /\ Speaks(answers, served, requests) /\ refusals \subseteq {Own}
    BY DEF LineInv
<1>1. Hand' = Hand
    BY DEF Hand
<1>2. /\ lineInbox' \in Seq(PartRecord)
      /\ Follow(lineInbox', wire, requests, served, answers, Hand)
    <2>1. CASE lineInbox' = lineInbox
        BY <1>0, <2>1 DEF LineTypeInv
    <2>2. CASE lineInbox' = << >>
        BY <1>0, <2>2, HandIsEarlier, EmptySeq
    <2>3. CASE lineInbox # << >> /\ lineInbox' = Tail(lineInbox)
        BY <1>0, <2>3, PartTaken DEF LineTypeInv
    <2> QED
        BY <2>1, <2>2, <2>3
<1>3. LineTypeInv'
    BY <1>0, <1>2 DEF LineTypeInv
<1>4. SentInv' /\ HandInv'
    BY <1>0 DEF SentInv, HandInv
<1> QED
    BY <1>0, <1>1, <1>2, <1>3, <1>4 DEF LineInv

LEMMA LineReadHeader == LineInv /\ Line!ReadHeader => LineInv'
<1> SUFFICES ASSUME LineInv, Line!ReadHeader PROVE LineInv'
    OBVIOUS
<1>0. /\ LineTypeInv /\ SentInv /\ HandInv
      /\ Follow(lineInbox, wire, requests, served, answers, Hand)
      /\ Serves(served, requests) /\ Speaks(answers, served, requests) /\ refusals \subseteq {Own}
    BY DEF LineInv
<1>1. /\ requests' = requests /\ wire' = wire /\ open' = open
      /\ served' = served /\ answers' = answers /\ refusals' = refusals
      /\ lineInbox # << >>
    BY DEF Line!ReadHeader, Line!Line
<1>2. CASE heard' = heard /\ Line!Misread
    <2>1. linePc' \in {"flush", "poll"} /\ lineInbox' \in {lineInbox, Tail(lineInbox)}
        BY <1>2 DEF Line!Misread
    <2>2. ~InHand(linePc', heard') /\ InStep(linePc', heard')
        BY <2>1 DEF InHand, InStep
    <2> QED
        BY <1>0, <1>1, <1>2, <2>1, <2>2, LineLetsGo DEF LineTypeInv
<1>3. CASE /\ lineInbox' = Tail(lineInbox) /\ linePc' = "unknown"
           /\ heard' \in FrameRecord /\ heard'.function \notin Line!Handled
    <2>1. ~InHand(linePc', heard') /\ InStep(linePc', heard')
        BY <1>3 DEF InHand, InStep
    <2> QED
        BY <1>1, <1>3, <2>1, LineLetsGo
<1>4. CASE /\ Head(lineInbox).part = "header" /\ heard' = Head(lineInbox).frame
           /\ lineInbox' = Tail(lineInbox)
           /\ linePc' = IF Head(lineInbox).frame.function \in Line!Handled THEN "rest" ELSE "unknown"
    <2>1. /\ Head(lineInbox) \in PartRecord /\ Tail(lineInbox) \in Seq(PartRecord)
          /\ Heard(Head(lineInbox).frame, requests) /\ Ahead(Head(lineInbox), served, answers, Hand)
          /\ Follow(Tail(lineInbox), wire, requests, served, answers, Hand)
          /\ Asks(Head(lineInbox)) =>
                Follow(Tail(lineInbox), wire, requests, served, answers, Head(lineInbox).frame.of)
        BY <1>0, <1>1, PartTaken DEF LineTypeInv
    <2>2. Follow(Tail(lineInbox), wire, requests, served, answers, 0)
        BY <2>1, HandIsEarlier
    <2>3. heard' \in FrameRecord
        BY <1>4, <2>1 DEF PartRecord
    <2>4. CASE heard'.function \notin Line!Handled
        BY <1>1, <1>3, <1>4, <2>3, <2>4
    <2>5. CASE heard'.function \in Line!Handled
        <3>1. LineTypeInv'
            BY <1>0, <1>1, <1>4, <2>1, <2>3 DEF LineTypeInv
        <3>2. linePc' = "rest" /\ InHand(linePc', heard') /\ InStep(linePc', heard')
            BY <1>4, <2>5 DEF InHand, InStep
        <3>3. Hand' = IF heard'.request THEN heard'.of ELSE 0
            BY <3>2 DEF Hand
        <3>4. heard'.request <=> Asks(Head(lineInbox))
            BY <1>4 DEF Asks
        <3>5. Follow(lineInbox', wire', requests', served', answers', Hand')
            BY <1>1, <1>4, <2>1, <2>2, <3>3, <3>4
        <3>6. HandInv'
            BY <1>1, <1>4, <2>1, <3>2, <3>4 DEF HandInv, Ahead
        <3>7. SentInv'
            BY <1>0, <1>1 DEF SentInv
        <3> QED
            BY <1>0, <1>1, <3>1, <3>5, <3>6, <3>7 DEF LineInv
    <2> QED
        BY <2>4, <2>5
<1>5. Line!OutOfStep => (heard' = heard /\ Line!Misread) \/
         (/\ lineInbox' = Tail(lineInbox) /\ linePc' = "unknown"
          /\ heard' \in FrameRecord /\ heard'.function \notin Line!Handled)
    <2>1. Own \in 0 .. 255
        BY MCLineAssumption DEF Line!RtuServerAssumption
    <2>2. PICK blank \in FrameRecord : blank = Line!NoFrame
        <3>1. Line!NoFrame \in FrameRecord
            BY DEF Line!NoFrame, FrameRecord
        <3> QED
            BY <3>1
    <2> DEFINE frame == [blank EXCEPT !.unit = Own, !.good = FALSE]
    <2>3. frame \in FrameRecord /\ frame.function = 0
        <3>1. blank.function = 0
            BY <2>2 DEF Line!NoFrame
        <3>2. frame \in FrameRecord
            BY <2>1 DEF FrameRecord
        <3>3. frame.function = blank.function
            BY DEF FrameRecord
        <3> QED
            BY <3>1, <3>2, <3>3
    <2>4. 0 \notin Line!Handled
        BY DEF Line!Handled
    <2>5. Line!OutOfStep => (heard' = heard /\ Line!Misread) \/
             (lineInbox' = Tail(lineInbox) /\ linePc' = "unknown" /\ heard' = frame)
        BY <2>2 DEF Line!OutOfStep
    <2> QED
        BY <2>3, <2>4, <2>5
<1>6. \/ Line!OutOfStep
      \/ /\ Head(lineInbox).part = "header" /\ heard' = Head(lineInbox).frame
         /\ lineInbox' = Tail(lineInbox)
         /\ linePc' = IF Head(lineInbox).frame.function \in Line!Handled THEN "rest" ELSE "unknown"
    BY DEF Line!ReadHeader, Line!Part1, Line!Take
<1> QED
    BY <1>2, <1>3, <1>4, <1>5, <1>6

\* Once the rest is read, a handler has a whole request, or it has none.
LEMMA LineReadRest == LineInv /\ Line!ReadRest => LineInv'
<1> SUFFICES ASSUME LineInv, Line!ReadRest PROVE LineInv'
    OBVIOUS
<1>0. LineTypeInv /\ HandInv
    BY DEF LineInv
<1>1. /\ requests' = requests /\ wire' = wire /\ open' = open /\ heard' = heard
      /\ served' = served /\ answers' = answers /\ refusals' = refusals /\ linePc = "rest"
      /\ lineInbox # << >> /\ lineInbox' \in {lineInbox, Tail(lineInbox)}
    BY DEF Line!ReadRest, Line!Take, Line!Misread, Line!Line
<1>2. CASE linePc' \in {"foreign", "flush", "poll"}
    <2>1. ~InHand(linePc', heard') /\ InStep(linePc', heard')
        BY <1>2 DEF InHand, InStep
    <2> QED
        BY <1>0, <1>1, <2>1, LineLetsGo DEF LineTypeInv
<1>3. CASE linePc' = "serve" /\ heard.good /\ ~Line!ignored(heard)
    <2>1. heard.unit \in {0, Own}
        BY <1>3 DEF Line!ignored
    <2>2. InHand(linePc, heard) /\ InHand(linePc', heard)
        BY <1>0, <1>1, <1>3 DEF HandInv, InStep, InHand
    <2>3. heard.request \in BOOLEAN
        BY <1>0 DEF LineTypeInv, FrameRecord
    <2>4. heard.request
        BY <1>0, <1>3, <2>1, <2>2, <2>3 DEF HandInv, Heard
    <2>5. InStep(linePc', heard)
        BY <1>0, <1>1, <1>3, <2>1, <2>4 DEF HandInv, InStep
    <2>6. Behind(served, heard.of)
        BY <1>0, <1>1, <2>4 DEF HandInv
    <2> QED
        BY <1>1, <1>3, <2>2, <2>5, <2>6, LineHolds
<1> QED
    BY <1>2, <1>3 DEF Line!ReadRest, Line!Misread

\* The request in hand, as the master sent it.
LEMMA HandAsSent ==
    ASSUME LineInv, InHand(linePc, heard), heard.request
    PROVE  /\ heard.of \in 1 .. Len(requests) /\ requests[heard.of] = heard /\ Hand = heard.of
           /\ heard.good => heard.unit = heard.meant
           /\ heard.of \in Nat
<1>1. heard.of \in 1 .. Len(requests) /\ requests[heard.of] = heard
    BY DEF LineInv, HandInv, Heard
<1> QED
    BY <1>1 DEF LineInv, LineTypeInv, SentInv, AsSent, FrameRecord, Hand

LEMMA LineServe == LineInv /\ Line!Serve => LineInv'
<1> SUFFICES ASSUME LineInv, Line!Serve PROVE LineInv'
    OBVIOUS
<1>0. /\ LineTypeInv /\ SentInv /\ HandInv
      /\ Follow(lineInbox, wire, requests, served, answers, Hand)
      /\ Serves(served, requests) /\ Speaks(answers, served, requests) /\ refusals \subseteq {Own}
    BY DEF LineInv
<1>1. /\ requests' = requests /\ wire' = wire /\ open' = open /\ heard' = heard
      /\ lineInbox' = lineInbox /\ answers' = answers /\ refusals' = refusals
      /\ linePc = "serve" /\ served' = Append(served, heard.of)
      /\ linePc' = IF heard.unit = 0 THEN "poll" ELSE "answer"
    BY DEF Line!Serve, Line!Line, Line!broadcast
<1>2. /\ InHand(linePc, heard) /\ heard.request /\ heard.good /\ heard.unit \in {0, Own}
      /\ heard.function \in Line!Handled
    BY <1>0, <1>1 DEF HandInv, InStep, InHand
<1>3. /\ heard.of \in 1 .. Len(requests) /\ requests[heard.of] = heard /\ Hand = heard.of
      /\ heard.unit = heard.meant /\ heard.of \in Nat
    BY <1>2, HandAsSent
<1>4. PICK n \in Nat : n = Len(served)
    BY <1>0, LenProperties DEF LineTypeInv
<1>5. /\ served' \in Seq(Nat) /\ Len(served') = n + 1 /\ served'[n + 1] = heard.of
      /\ \A i \in 1 .. n : served'[i] = served[i]
    BY <1>0, <1>1, <1>3, <1>4, AppendIs DEF LineTypeInv
<1>6. Serves(served', requests)
    <2>1. Behind(served, heard.of)
        BY <1>0, <1>1, <1>2 DEF HandInv
    <2>2. /\ \A i \in 1 .. n + 1 : i = n + 1 \/ i \in 1 .. n
          /\ \A i \in 1 .. n : i > 1 => i - 1 \in 1 .. n
          /\ n + 1 > 1 => n + 1 - 1 = n /\ n \in 1 .. n
        OBVIOUS
    <2>3. n + 1 > 1 => served'[n + 1 - 1] < served'[n + 1]
        BY <1>4, <1>5, <2>1, <2>2 DEF Behind
    <2>4. \A i \in 1 .. n :
          /\ served'[i] \in 1 .. Len(requests)
          /\ requests[served'[i]].good /\ requests[served'[i]].meant \in {0, Own}
          /\ requests[served'[i]].function \in Line!Handled
          /\ i > 1 => served'[i - 1] < served'[i]
        BY <1>0, <1>4, <1>5, <2>2 DEF Serves
    <2>5. /\ served'[n + 1] \in 1 .. Len(requests)
          /\ requests[served'[n + 1]].good /\ requests[served'[n + 1]].meant \in {0, Own}
          /\ requests[served'[n + 1]].function \in Line!Handled
        BY <1>2, <1>3, <1>5
    <2> QED
        BY <1>5, <2>2, <2>3, <2>4, <2>5 DEF Serves
<1>7. Follow(lineInbox, wire, requests, served', answers, heard.of)
    BY <1>0, <1>1, <1>3, HandIsSaid DEF LineTypeInv
<1>8. Follow(lineInbox, wire, requests, served', answers, Hand')
    <2>1. Hand' \in {0, heard.of}
        BY <1>1 DEF Hand
    <2> QED
        BY <1>7, <2>1, HandIsEarlier
<1>9. LineTypeInv'
    BY <1>0, <1>1, <1>5 DEF LineTypeInv
<1>10. SentInv'
    BY <1>0, <1>1 DEF SentInv
<1>11. Among(served', heard.of) /\ Speaks(answers, served', requests)
    <2>1. \A i \in 1 .. n : i \in 1 .. n + 1
        OBVIOUS
    <2>2. n + 1 \in 1 .. n + 1
        OBVIOUS
    <2>3. Among(served', heard.of) /\ \A m : Among(served, m) => Among(served', m)
        BY <1>4, <1>5, <2>1, <2>2 DEF Among
    <2> QED
        BY <1>0, <2>3 DEF Speaks
<1>12. HandInv'
    <2>1. InStep(linePc', heard)
        BY <1>1, <1>2 DEF InStep
    <2>2. Heard(heard, requests) /\ Behind(answers, heard.of)
        BY <1>0, <1>2 DEF HandInv
    <2>3. linePc' \notin {"rest", "serve"}
        BY <1>1
    <2> QED
        BY <1>1, <1>11, <2>1, <2>2, <2>3 DEF HandInv
<1> QED
    BY <1>0, <1>1, <1>6, <1>8, <1>9, <1>10, <1>11, <1>12 DEF LineInv

LEMMA LineSendAnswer == LineInv /\ Line!SendAnswer => LineInv'
<1> SUFFICES ASSUME LineInv, Line!SendAnswer PROVE LineInv'
    OBVIOUS
<1>0. /\ LineTypeInv /\ SentInv /\ HandInv
      /\ Follow(lineInbox, wire, requests, served, answers, Hand)
      /\ Serves(served, requests) /\ Speaks(answers, served, requests) /\ refusals \subseteq {Own}
    BY DEF LineInv
<1>1. /\ requests' = requests /\ wire' = wire /\ open' = open /\ heard' = heard
      /\ lineInbox' = lineInbox /\ served' = served /\ linePc = "answer" /\ linePc' = "poll"
      /\ IF heard.function \in Line!Handled
         THEN answers' = Append(answers, heard.of) /\ refusals' = refusals
         ELSE refusals' = refusals \cup {heard.unit} /\ answers' = answers
    BY DEF Line!SendAnswer, Line!Line
<1>2. heard.unit = Own
    BY <1>0, <1>1 DEF HandInv, InStep
<1>3. ~InHand(linePc', heard') /\ InStep(linePc', heard') /\ Hand' = 0
    BY <1>1 DEF InHand, InStep, Hand
<1>4. refusals' \subseteq {Own}
    BY <1>0, <1>1, <1>2
<1>5. SentInv' /\ HandInv'
    BY <1>0, <1>1, <1>3 DEF SentInv, HandInv
<1>6. CASE heard.function \notin Line!Handled
    <2>1. Follow(lineInbox, wire, requests, served, answers, 0)
        BY <1>0, HandIsEarlier
    <2>2. LineTypeInv'
        BY <1>0, <1>1, <1>6 DEF LineTypeInv
    <2> QED
        BY <1>0, <1>1, <1>3, <1>4, <1>5, <1>6, <2>1, <2>2 DEF LineInv
<1>7. CASE heard.function \in Line!Handled
    <2>1. InHand(linePc, heard) /\ heard.request /\ heard.good /\ Among(served, heard.of)
        BY <1>0, <1>1, <1>7 DEF HandInv, InStep, InHand
    <2>2. /\ heard.of \in 1 .. Len(requests) /\ requests[heard.of] = heard /\ Hand = heard.of
          /\ heard.unit = heard.meant /\ heard.of \in Nat
        BY <2>1, HandAsSent
    <2>3. PICK n \in Nat : n = Len(answers)
        BY <1>0, LenProperties DEF LineTypeInv
    <2>4. /\ answers' \in Seq(Nat) /\ Len(answers') = n + 1 /\ answers'[n + 1] = heard.of
          /\ \A i \in 1 .. n : answers'[i] = answers[i]
        <3>1. answers' = Append(answers, heard.of) /\ answers \in Seq(Nat)
            BY <1>0, <1>1, <1>7 DEF LineTypeInv
        <3> QED
            BY <3>1, <2>2, <2>3, AppendIs
    <2>5. Speaks(answers', served, requests)
        <3>1. Behind(answers, heard.of)
            BY <1>0, <2>1 DEF HandInv
        <3>2. /\ \A i \in 1 .. n + 1 : i = n + 1 \/ i \in 1 .. n
              /\ \A i \in 1 .. n : i > 1 => i - 1 \in 1 .. n
              /\ n + 1 > 1 => n + 1 - 1 = n /\ n \in 1 .. n
            OBVIOUS
        <3>3. n + 1 > 1 => answers'[n + 1 - 1] < answers'[n + 1]
            BY <2>3, <2>4, <3>1, <3>2 DEF Behind
        <3>4. \A i \in 1 .. n :
              /\ answers'[i] \in 1 .. Len(requests)
              /\ requests[answers'[i]].meant = Own /\ requests[answers'[i]].good
              /\ Among(served, answers'[i])
              /\ i > 1 => answers'[i - 1] < answers'[i]
            BY <1>0, <2>3, <2>4, <3>2 DEF Speaks
        <3>5. /\ answers'[n + 1] \in 1 .. Len(requests)
              /\ requests[answers'[n + 1]].meant = Own /\ requests[answers'[n + 1]].good
              /\ Among(served, answers'[n + 1])
            BY <1>2, <2>1, <2>2, <2>4
        <3>6. Len(answers') = n + 1
            BY <2>4
        <3> QED
            BY <3>2, <3>3, <3>4, <3>5, <3>6 DEF Speaks
    <2>6. Follow(lineInbox, wire, requests, served, answers', 0)
        <3>1. Follow(lineInbox, wire, requests, served, answers', heard.of)
            BY <1>0, <1>1, <1>7, <2>2, HandIsSaid DEF LineTypeInv
        <3> QED
            BY <3>1, HandIsEarlier
    <2>7. LineTypeInv'
        BY <1>0, <1>1, <2>4 DEF LineTypeInv
    <2> QED
        BY <1>0, <1>1, <1>3, <1>4, <1>5, <2>5, <2>6, <2>7 DEF LineInv
<1> QED
    BY <1>6, <1>7

\* What is read as a request for an unknown function is refused unread.
LEMMA LineUnknown == LineInv /\ Line!Unknown => LineInv'
<1> SUFFICES ASSUME LineInv, Line!Unknown PROVE LineInv'
    OBVIOUS
<1>0. LineTypeInv /\ HandInv
    BY DEF LineInv
<1>1. /\ requests' = requests /\ wire' = wire /\ open' = open /\ heard' = heard
      /\ served' = served /\ answers' = answers /\ refusals' = refusals /\ linePc = "unknown" /\ lineInbox' = << >>
      /\ linePc' = IF heard.unit # Own THEN "poll" ELSE "answer"
    <2>1. Line!ignored(heard) \/ Line!broadcast(heard) <=> heard.unit # Own
        <3>1. Own # 0
            BY MCLineAssumption DEF Line!RtuServerAssumption
        <3> QED
            BY <3>1 DEF Line!ignored, Line!broadcast
    <2> QED
        BY <2>1 DEF Line!Unknown, Line!Line
<1>2. heard.function \notin Line!Handled
    BY <1>0, <1>1 DEF HandInv, InStep
<1>3. ~InHand(linePc', heard') /\ InStep(linePc', heard')
    BY <1>1, <1>2 DEF InHand, InStep
<1> QED
    BY <1>0, <1>1, <1>3, LineLetsGo DEF LineTypeInv

LEMMA LinePoll == LineInv /\ (Line!Poll \/ Line!TimeOut) => LineInv'
<1> SUFFICES ASSUME LineInv PROVE Line!Poll \/ Line!TimeOut => LineInv'
    OBVIOUS
<1>1. LineTypeInv
    BY DEF LineInv
<1>2. ASSUME Line!ReadForeignHeader PROVE LineInv'
    <2>1. /\ requests' = requests /\ wire' = wire /\ open' = open
          /\ served' = served /\ answers' = answers /\ refusals' = refusals
          /\ lineInbox # << >> /\ lineInbox' \in {lineInbox, Tail(lineInbox)}
        BY <1>2 DEF Line!ReadForeignHeader, Line!Take, Line!Misread, Line!Line
    <2>2. linePc' \in {"foreign_rest", "flush", "poll"}
        BY <1>2 DEF Line!ReadForeignHeader, Line!Misread
    <2>3. ~InHand(linePc', heard') /\ InStep(linePc', heard')
        BY <2>2 DEF InHand, InStep
    <2>4. heard' \in FrameRecord
        <3>1. Head(lineInbox) \in PartRecord
            BY <1>1, <2>1, TailIs DEF LineTypeInv
        <3>2. heard' = heard \/ heard' = Head(lineInbox).frame
            BY <1>2 DEF Line!ReadForeignHeader, Line!Part1
        <3> QED
            BY <1>1, <3>1, <3>2 DEF LineTypeInv, PartRecord
    <2> QED
        BY <2>1, <2>3, <2>4, LineLetsGo
<1>3. ASSUME Line!ReadForeignRest PROVE LineInv'
    <2>1. /\ requests' = requests /\ wire' = wire /\ open' = open /\ heard' = heard
          /\ served' = served /\ answers' = answers /\ refusals' = refusals
          /\ lineInbox # << >> /\ lineInbox' \in {lineInbox, Tail(lineInbox)}
        BY <1>3 DEF Line!ReadForeignRest, Line!Take, Line!Misread, Line!Line
    <2>2. ~InHand(linePc', heard') /\ InStep(linePc', heard')
        BY <1>3 DEF Line!ReadForeignRest, Line!Misread, InHand, InStep
    <2> QED
        BY <1>1, <2>1, <2>2, LineLetsGo DEF LineTypeInv
<1>4. ASSUME Line!Flush \/ Line!TimeOut PROVE LineInv'
    <2>1. /\ requests' = requests /\ wire' = wire /\ open' = open /\ heard' = heard
          /\ served' = served /\ answers' = answers /\ refusals' = refusals
          /\ lineInbox' \in {lineInbox, << >>}
        BY <1>4 DEF Line!Flush, Line!TimeOut, Line!Line
    <2>2. ~InHand(linePc', heard') /\ InStep(linePc', heard')
        BY <1>4 DEF Line!Flush, Line!TimeOut, InHand, InStep
    <2> QED
        BY <1>1, <2>1, <2>2, LineLetsGo DEF LineTypeInv
<1> QED
    BY <1>2, <1>3, <1>4, LineReadHeader, LineReadRest, LineServe, LineSendAnswer, LineUnknown
    DEF Line!Poll

LEMMA LineStep == LineInv /\ [Line!Next]_(Line!vars) => LineInv'
<1>1. LineInv /\ UNCHANGED Line!vars => LineInv'
    <2> SUFFICES ASSUME LineInv, UNCHANGED Line!vars PROVE LineInv'
        OBVIOUS
    <2>1. /\ linePc' = linePc /\ heard' = heard /\ open' = open /\ lineInbox' = lineInbox
          /\ served' = served /\ answers' = answers /\ refusals' = refusals /\ requests' = requests /\ wire' = wire
        BY DEF Line!vars
    <2>2. Hand' = Hand
        BY <2>1 DEF Hand
    <2> QED
        BY <2>1, <2>2 DEF LineInv, LineTypeInv, SentInv, HandInv
<1> QED
    BY <1>1, LineMasterSends, LineOtherAnswers, LineArrive, LinePoll DEF Line!Next

(* A server on a shared RTU line acts for itself alone, whatever the other *)
(* servers, the noise and the pauses make of what it hears: it calls its   *)
(* callbacks only for whole, undamaged requests to it or to all, answers   *)
(* only those to it that were served, each at most once and in the order   *)
(* they were sent, and sends nothing else but refusals, in its own name.   *)
THEOREM ActsForItsUnit == Spec => []ActsForItself
<1>1. Init => LineInv
    BY LineInit DEF Init
<1>2. LineInv /\ [Next]_vars => LineInv'
    <2>1. [Next]_vars => [Line!Next]_(Line!vars)
        BY DEF Next, vars, Line!vars, lineVars
    <2> QED
        BY <2>1, LineStep
<1>3. LineInv => ActsForItself
    <2> SUFFICES ASSUME LineInv PROVE ActsForItself
        OBVIOUS
    <2>1. DOMAIN served = 1 .. Len(served) /\ DOMAIN answers = 1 .. Len(answers)
        BY LenProperties DEF LineInv, LineTypeInv
    <2>2. Line!ServedOnce
        BY <2>1 DEF LineInv, Serves, Line!ServedOnce
    <2>3. Line!SpeaksForItself
        BY <2>1 DEF LineInv, Speaks, Among, Line!SpeaksForItself
    <2> QED
        BY <2>2, <2>3 DEF ActsForItself, Line!ActsForItself
<1> QED
    BY <1>1, <1>2, <1>3, PTL DEF Spec

-----------------------------------------------------------------------------
(* The limits of client and server                                         *)

(* There is no fault only where no check fails (nanomodbus.c's handlers).  *)
LEMMA NoFaultMeans ==
    ASSUME NEW n \in 1 .. 8, NEW checks, DOMAIN checks = 1 .. n,
           \A i \in 1 .. n : checks[i].error # Limits!NMBS_ERROR_NONE
    PROVE  Limits!FirstFault(checks) = Limits!NMBS_ERROR_NONE <=> \A i \in 1 .. n : ~checks[i].fails
<1> DEFINE failing == {i \in DOMAIN checks : checks[i].fails}
<1>1. CASE failing = {}
    <2>1. Limits!FirstFault(checks) = Limits!NMBS_ERROR_NONE
        BY <1>1 DEF Limits!FirstFault
    <2>2. \A i \in 1 .. n : i \notin failing
        BY <1>1
    <2>3. \A i \in 1 .. n : ~checks[i].fails
        BY <2>2
    <2> QED
        BY <2>1, <2>3
<1>2. CASE failing # {}
    <2>1. failing \subseteq 1 .. 8
        OBVIOUS
    <2>2. \E i \in failing : \A j \in failing : i <= j
        <3>1. CASE 1 \in failing
            BY <3>1, <2>1
        <3>2. CASE 1 \notin failing /\ 2 \in failing
            BY <3>2, <2>1
        <3>3. CASE 1 \notin failing /\ 2 \notin failing /\ 3 \in failing
            BY <3>3, <2>1
        <3>4. CASE 1 \notin failing /\ 2 \notin failing /\ 3 \notin failing /\ 4 \in failing
            BY <3>4, <2>1
        <3>5. CASE failing \subseteq 5 .. 8
            BY <3>5, <1>2
        <3> QED
            BY <2>1, <3>1, <3>2, <3>3, <3>4, <3>5
    <2> DEFINE first == CHOOSE i \in failing : \A j \in failing : i <= j
    <2>3. first \in failing
        BY <2>2
    <2>4. Limits!FirstFault(checks) = checks[first].error
        BY <1>2 DEF Limits!FirstFault
    <2> QED
        BY <2>3, <2>4
<1> QED
    BY <1>1, <1>2

LEMMA ChecksMean ==
    /\ \A q, n : /\ Limits!QuantityCheck(q, n).error # Limits!NMBS_ERROR_NONE
                 /\ Limits!QuantityCheck(q, n).fails <=> Limits!OutOfLimits(q, n)
    /\ \A a, q : /\ Limits!SpaceCheck(a, q).error # Limits!NMBS_ERROR_NONE
                 /\ Limits!SpaceCheck(a, q).fails <=> Limits!OutOfSpace(a, q)
    /\ \A v : Limits!ValueCheck(v).error # Limits!NMBS_ERROR_NONE /\ (Limits!ValueCheck(v).fails <=> v)
    /\ \A b, n : /\ Limits!SizeCheck(b, n).error # Limits!NMBS_ERROR_NONE
                 /\ Limits!SizeCheck(b, n).fails <=> b > n
    /\ \A b : LET check == Limits!Check(b, Limits!NMBS_EXCEPTION_ILLEGAL_DATA_ADDRESS)
              IN  check.error # Limits!NMBS_ERROR_NONE /\ (check.fails <=> b)
    /\ \A c \in AllCallbacks : /\ Limits!CallbackCheck(c).error # Limits!NMBS_ERROR_NONE
                               /\ ~Limits!CallbackCheck(c).fails
<1>1. /\ Limits!NMBS_EXCEPTION_ILLEGAL_DATA_VALUE # Limits!NMBS_ERROR_NONE
      /\ Limits!NMBS_EXCEPTION_ILLEGAL_DATA_ADDRESS # Limits!NMBS_ERROR_NONE
      /\ Limits!NMBS_EXCEPTION_ILLEGAL_FUNCTION # Limits!NMBS_ERROR_NONE
      /\ Limits!NMBS_ERROR_INVALID_REQUEST # Limits!NMBS_ERROR_NONE
    BY DEF Limits!NMBS_ERROR_NONE, Limits!NMBS_EXCEPTION_ILLEGAL_DATA_VALUE,
           Limits!NMBS_ERROR_INVALID_REQUEST, Limits!NMBS_EXCEPTION_ILLEGAL_DATA_ADDRESS,
           Limits!NMBS_EXCEPTION_ILLEGAL_FUNCTION
<1>2. \A q, n : /\ Limits!QuantityCheck(q, n).error # Limits!NMBS_ERROR_NONE
                /\ Limits!QuantityCheck(q, n).fails <=> Limits!OutOfLimits(q, n)
    BY <1>1, Zenon DEF Limits!QuantityCheck, Limits!OutOfLimits, Limits!Check
<1>3. \A a, q : /\ Limits!SpaceCheck(a, q).error # Limits!NMBS_ERROR_NONE
                /\ Limits!SpaceCheck(a, q).fails <=> Limits!OutOfSpace(a, q)
    BY <1>1, Zenon DEF Limits!SpaceCheck, Limits!Check
<1>4. \A v : Limits!ValueCheck(v).error # Limits!NMBS_ERROR_NONE /\ (Limits!ValueCheck(v).fails <=> v)
    BY <1>1, Zenon DEF Limits!ValueCheck, Limits!Check
<1>5. \A b, n : /\ Limits!SizeCheck(b, n).error # Limits!NMBS_ERROR_NONE
                /\ Limits!SizeCheck(b, n).fails <=> b > n
    BY <1>1, Zenon DEF Limits!SizeCheck, Limits!Check
<1>6. \A b : LET check == Limits!Check(b, Limits!NMBS_EXCEPTION_ILLEGAL_DATA_ADDRESS)
             IN  check.error # Limits!NMBS_ERROR_NONE /\ (check.fails <=> b)
    BY <1>1, Zenon DEF Limits!Check
<1>7. \A c \in AllCallbacks : /\ Limits!CallbackCheck(c).error # Limits!NMBS_ERROR_NONE
                              /\ ~Limits!CallbackCheck(c).fails
    BY <1>1, Zenon DEF Limits!CallbackCheck, Limits!Missing, Limits!Check
<1> QED
    BY <1>2, <1>3, <1>4, <1>5, <1>6, <1>7

(* What each handler takes, of a server that has all callbacks.            *)
LEMMA HandlersTake ==
    ASSUME NEW f
    PROVE  /\ \A c \in AllCallbacks : Limits!handle_read_discrete(f, c) = Limits!NMBS_ERROR_NONE <=>
              /\ ~Limits!OutOfLimits(f.quantity, 2000)
              /\ ~Limits!OutOfSpace(f.address, f.quantity)
           /\ \A c \in AllCallbacks : Limits!handle_read_registers(f, c) = Limits!NMBS_ERROR_NONE <=>
              /\ ~Limits!OutOfLimits(f.quantity, 125)
              /\ ~Limits!OutOfSpace(f.address, f.quantity)
           /\ Limits!handle_write_single_coil(f) = Limits!NMBS_ERROR_NONE <=>
              /\ f.value \in {0, 65280}
           /\ Limits!handle_write_single_register(f) = Limits!NMBS_ERROR_NONE <=>
              /\ TRUE
           /\ Limits!handle_write_multiple_coils(f) = Limits!NMBS_ERROR_NONE <=>
              /\ ~(f.bytes > 246)
              /\ ~Limits!OutOfLimits(f.quantity, 1968)
              /\ ~Limits!OutOfSpace(f.address, f.quantity)
              /\ f.bytes # 0
              /\ f.bytes = (f.quantity + 7) \div 8
           /\ Limits!handle_write_multiple_registers(f) = Limits!NMBS_ERROR_NONE <=>
              /\ ~(f.bytes > 246)
              /\ ~Limits!OutOfLimits(f.quantity, 123)
              /\ ~Limits!OutOfSpace(f.address, f.quantity)
              /\ f.bytes # 0
              /\ f.bytes = 2 * f.quantity
           /\ Limits!handle_read_file_record(f) = Limits!NMBS_ERROR_NONE <=>
              /\ ~(f.bytes > 245)
              /\ f.bytes % 7 = 0
              /\ ~(f.bytes < 7)
              /\ f.legal
           /\ Limits!handle_write_file_record(f) = Limits!NMBS_ERROR_NONE <=>
              /\ ~(f.bytes > 251)
              /\ ~(f.bytes < 7)
              /\ f.legal
              /\ f.value = 0
           /\ Limits!handle_read_write_registers(f) = Limits!NMBS_ERROR_NONE <=>
              /\ ~(f.bytes > 242)
              /\ ~Limits!OutOfLimits(f.quantity, 125)
              /\ ~Limits!OutOfLimits(f.write_quantity, 123)
              /\ f.bytes = 2 * f.write_quantity
              /\ ~Limits!OutOfSpace(f.address, f.quantity)
              /\ ~Limits!OutOfSpace(f.write_address, f.write_quantity)
<1>1. ASSUME NEW c \in AllCallbacks
      PROVE  Limits!handle_read_discrete(f, c) = Limits!NMBS_ERROR_NONE <=>
           /\ ~Limits!OutOfLimits(f.quantity, 2000)
           /\ ~Limits!OutOfSpace(f.address, f.quantity)
    <2> DEFINE checks == <<Limits!QuantityCheck(f.quantity, 2000),
                           Limits!SpaceCheck(f.address, f.quantity),
                           Limits!CallbackCheck(c)>>
    <2>1. DOMAIN checks = 1 .. 3 /\ 3 \in 1 .. 8
        OBVIOUS
    <2>2. \A i \in 1 .. 3 : checks[i].error # Limits!NMBS_ERROR_NONE
        BY ChecksMean DEF AllCallbacks
    <2>3. Limits!handle_read_discrete(f, c) = Limits!FirstFault(checks)
        BY DEF Limits!handle_read_discrete
    <2>4. (\A i \in 1 .. 3 : ~checks[i].fails) <=>
             /\ ~checks[1].fails
             /\ ~checks[2].fails
             /\ ~checks[3].fails
        OBVIOUS
    <2>5. /\ checks[1] = Limits!QuantityCheck(f.quantity, 2000)
          /\ checks[2] = Limits!SpaceCheck(f.address, f.quantity)
          /\ checks[3] = Limits!CallbackCheck(c)
        OBVIOUS
    <2> HIDE DEF checks
    <2>6. /\ checks[1].fails <=> Limits!OutOfLimits(f.quantity, 2000)
          /\ checks[2].fails <=> Limits!OutOfSpace(f.address, f.quantity)
          /\ ~checks[3].fails
        BY <2>5, ChecksMean DEF AllCallbacks
    <2>7. Limits!handle_read_discrete(f, c) = Limits!NMBS_ERROR_NONE <=> \A i \in 1 .. 3 : ~checks[i].fails
        BY <2>1, <2>2, <2>3, NoFaultMeans
    <2> QED
        BY <2>4, <2>6, <2>7
<1>2. ASSUME NEW c \in AllCallbacks
      PROVE  Limits!handle_read_registers(f, c) = Limits!NMBS_ERROR_NONE <=>
           /\ ~Limits!OutOfLimits(f.quantity, 125)
           /\ ~Limits!OutOfSpace(f.address, f.quantity)
    <2> DEFINE checks == <<Limits!QuantityCheck(f.quantity, 125),
                           Limits!SpaceCheck(f.address, f.quantity),
                           Limits!CallbackCheck(c)>>
    <2>1. DOMAIN checks = 1 .. 3 /\ 3 \in 1 .. 8
        OBVIOUS
    <2>2. \A i \in 1 .. 3 : checks[i].error # Limits!NMBS_ERROR_NONE
        BY ChecksMean DEF AllCallbacks
    <2>3. Limits!handle_read_registers(f, c) = Limits!FirstFault(checks)
        BY DEF Limits!handle_read_registers
    <2>4. (\A i \in 1 .. 3 : ~checks[i].fails) <=>
             /\ ~checks[1].fails
             /\ ~checks[2].fails
             /\ ~checks[3].fails
        OBVIOUS
    <2>5. /\ checks[1] = Limits!QuantityCheck(f.quantity, 125)
          /\ checks[2] = Limits!SpaceCheck(f.address, f.quantity)
          /\ checks[3] = Limits!CallbackCheck(c)
        OBVIOUS
    <2> HIDE DEF checks
    <2>6. /\ checks[1].fails <=> Limits!OutOfLimits(f.quantity, 125)
          /\ checks[2].fails <=> Limits!OutOfSpace(f.address, f.quantity)
          /\ ~checks[3].fails
        BY <2>5, ChecksMean DEF AllCallbacks
    <2>7. Limits!handle_read_registers(f, c) = Limits!NMBS_ERROR_NONE <=> \A i \in 1 .. 3 : ~checks[i].fails
        BY <2>1, <2>2, <2>3, NoFaultMeans
    <2> QED
        BY <2>4, <2>6, <2>7
<1>3. Limits!handle_write_single_coil(f) = Limits!NMBS_ERROR_NONE <=>
         /\ f.value \in {0, 65280}
    <2> DEFINE checks == <<Limits!CallbackCheck("write_single_coil"),
                           Limits!ValueCheck(f.value \notin {0, 65280})>>
    <2>1. DOMAIN checks = 1 .. 2 /\ 2 \in 1 .. 8
        OBVIOUS
    <2>2. \A i \in 1 .. 2 : checks[i].error # Limits!NMBS_ERROR_NONE
        BY ChecksMean DEF AllCallbacks
    <2>3. Limits!handle_write_single_coil(f) = Limits!FirstFault(checks)
        BY DEF Limits!handle_write_single_coil
    <2>4. (\A i \in 1 .. 2 : ~checks[i].fails) <=>
             /\ ~checks[1].fails
             /\ ~checks[2].fails
        OBVIOUS
    <2>5. /\ checks[1] = Limits!CallbackCheck("write_single_coil")
          /\ checks[2] = Limits!ValueCheck(f.value \notin {0, 65280})
        OBVIOUS
    <2> HIDE DEF checks
    <2>6. /\ ~checks[1].fails
        BY <2>5, ChecksMean DEF AllCallbacks
    <2>7. checks[2].fails <=> f.value \notin {0, 65280}
        <3> DEFINE bad == f.value \notin {0, 65280}
        <3>1. checks[2] = Limits!ValueCheck(bad)
            BY <2>5
        <3> HIDE DEF bad
        <3>2. Limits!ValueCheck(bad).fails <=> bad
            BY DEF Limits!ValueCheck, Limits!Check
        <3>3. checks[2].fails <=> bad
            BY <3>1, <3>2
        <3> QED
            BY <3>3 DEF bad
    <2>8. Limits!handle_write_single_coil(f) = Limits!NMBS_ERROR_NONE <=> \A i \in 1 .. 2 : ~checks[i].fails
        BY <2>1, <2>2, <2>3, NoFaultMeans
    <2> QED
        BY <2>4, <2>6, <2>7, <2>8
<1>4. Limits!handle_write_single_register(f) = Limits!NMBS_ERROR_NONE <=>
         /\ TRUE
    <2> DEFINE checks == <<Limits!CallbackCheck("write_single_register")>>
    <2>1. DOMAIN checks = 1 .. 1 /\ 1 \in 1 .. 8
        OBVIOUS
    <2>2. \A i \in 1 .. 1 : checks[i].error # Limits!NMBS_ERROR_NONE
        BY ChecksMean DEF AllCallbacks
    <2>3. Limits!handle_write_single_register(f) = Limits!FirstFault(checks)
        BY DEF Limits!handle_write_single_register
    <2>4. (\A i \in 1 .. 1 : ~checks[i].fails) <=>
             /\ ~checks[1].fails
        OBVIOUS
    <2>5. /\ checks[1] = Limits!CallbackCheck("write_single_register")
        OBVIOUS
    <2> HIDE DEF checks
    <2>6. /\ ~checks[1].fails
        BY <2>5, ChecksMean DEF AllCallbacks
    <2>7. Limits!handle_write_single_register(f) = Limits!NMBS_ERROR_NONE <=> \A i \in 1 .. 1 : ~checks[i].fails
        BY <2>1, <2>2, <2>3, NoFaultMeans
    <2> QED
        BY <2>4, <2>6, <2>7
<1>5. Limits!handle_write_multiple_coils(f) = Limits!NMBS_ERROR_NONE <=>
         /\ ~(f.bytes > 246)
         /\ ~Limits!OutOfLimits(f.quantity, 1968)
         /\ ~Limits!OutOfSpace(f.address, f.quantity)
         /\ f.bytes # 0
         /\ f.bytes = (f.quantity + 7) \div 8
    <2> DEFINE checks == <<Limits!SizeCheck(f.bytes, 246),
                           Limits!QuantityCheck(f.quantity, 1968),
                           Limits!SpaceCheck(f.address, f.quantity),
                           Limits!ValueCheck(f.bytes = 0),
                           Limits!ValueCheck((f.quantity + 7) \div 8 # f.bytes),
                           Limits!CallbackCheck("write_multiple_coils")>>
    <2>1. DOMAIN checks = 1 .. 6 /\ 6 \in 1 .. 8
        OBVIOUS
    <2>2. \A i \in 1 .. 6 : checks[i].error # Limits!NMBS_ERROR_NONE
        BY ChecksMean DEF AllCallbacks
    <2>3. Limits!handle_write_multiple_coils(f) = Limits!FirstFault(checks)
        BY DEF Limits!handle_write_multiple_coils
    <2>4. (\A i \in 1 .. 6 : ~checks[i].fails) <=>
             /\ ~checks[1].fails
             /\ ~checks[2].fails
             /\ ~checks[3].fails
             /\ ~checks[4].fails
             /\ ~checks[5].fails
             /\ ~checks[6].fails
        OBVIOUS
    <2>5. /\ checks[1] = Limits!SizeCheck(f.bytes, 246)
          /\ checks[2] = Limits!QuantityCheck(f.quantity, 1968)
          /\ checks[3] = Limits!SpaceCheck(f.address, f.quantity)
          /\ checks[4] = Limits!ValueCheck(f.bytes = 0)
          /\ checks[5] = Limits!ValueCheck((f.quantity + 7) \div 8 # f.bytes)
          /\ checks[6] = Limits!CallbackCheck("write_multiple_coils")
        OBVIOUS
    <2> HIDE DEF checks
    <2>6. /\ checks[1].fails <=> f.bytes > 246
          /\ checks[2].fails <=> Limits!OutOfLimits(f.quantity, 1968)
          /\ checks[3].fails <=> Limits!OutOfSpace(f.address, f.quantity)
          /\ ~checks[6].fails
        BY <2>5, ChecksMean DEF AllCallbacks
    <2>7. checks[4].fails <=> f.bytes = 0
        <3> DEFINE bad == f.bytes = 0
        <3>1. checks[4] = Limits!ValueCheck(bad)
            BY <2>5
        <3> HIDE DEF bad
        <3>2. Limits!ValueCheck(bad).fails <=> bad
            BY DEF Limits!ValueCheck, Limits!Check
        <3>3. checks[4].fails <=> bad
            BY <3>1, <3>2
        <3> QED
            BY <3>3 DEF bad
    <2>8. checks[5].fails <=> (f.quantity + 7) \div 8 # f.bytes
        <3> DEFINE bad == (f.quantity + 7) \div 8 # f.bytes
        <3>1. checks[5] = Limits!ValueCheck(bad)
            BY <2>5
        <3> HIDE DEF bad
        <3>2. Limits!ValueCheck(bad).fails <=> bad
            BY DEF Limits!ValueCheck, Limits!Check
        <3>3. checks[5].fails <=> bad
            BY <3>1, <3>2
        <3> QED
            BY <3>3 DEF bad
    <2>9. Limits!handle_write_multiple_coils(f) = Limits!NMBS_ERROR_NONE <=> \A i \in 1 .. 6 : ~checks[i].fails
        BY <2>1, <2>2, <2>3, NoFaultMeans
    <2> QED
        BY <2>4, <2>6, <2>7, <2>8, <2>9
<1>6. Limits!handle_write_multiple_registers(f) = Limits!NMBS_ERROR_NONE <=>
         /\ ~(f.bytes > 246)
         /\ ~Limits!OutOfLimits(f.quantity, 123)
         /\ ~Limits!OutOfSpace(f.address, f.quantity)
         /\ f.bytes # 0
         /\ f.bytes = 2 * f.quantity
    <2> DEFINE checks == <<Limits!SizeCheck(f.bytes, 246),
                           Limits!QuantityCheck(f.quantity, 123),
                           Limits!SpaceCheck(f.address, f.quantity),
                           Limits!ValueCheck(f.bytes = 0),
                           Limits!ValueCheck(f.bytes # 2 * f.quantity),
                           Limits!CallbackCheck("write_multiple_registers")>>
    <2>1. DOMAIN checks = 1 .. 6 /\ 6 \in 1 .. 8
        OBVIOUS
    <2>2. \A i \in 1 .. 6 : checks[i].error # Limits!NMBS_ERROR_NONE
        BY ChecksMean DEF AllCallbacks
    <2>3. Limits!handle_write_multiple_registers(f) = Limits!FirstFault(checks)
        BY DEF Limits!handle_write_multiple_registers
    <2>4. (\A i \in 1 .. 6 : ~checks[i].fails) <=>
             /\ ~checks[1].fails
             /\ ~checks[2].fails
             /\ ~checks[3].fails
             /\ ~checks[4].fails
             /\ ~checks[5].fails
             /\ ~checks[6].fails
        OBVIOUS
    <2>5. /\ checks[1] = Limits!SizeCheck(f.bytes, 246)
          /\ checks[2] = Limits!QuantityCheck(f.quantity, 123)
          /\ checks[3] = Limits!SpaceCheck(f.address, f.quantity)
          /\ checks[4] = Limits!ValueCheck(f.bytes = 0)
          /\ checks[5] = Limits!ValueCheck(f.bytes # 2 * f.quantity)
          /\ checks[6] = Limits!CallbackCheck("write_multiple_registers")
        OBVIOUS
    <2> HIDE DEF checks
    <2>6. /\ checks[1].fails <=> f.bytes > 246
          /\ checks[2].fails <=> Limits!OutOfLimits(f.quantity, 123)
          /\ checks[3].fails <=> Limits!OutOfSpace(f.address, f.quantity)
          /\ ~checks[6].fails
        BY <2>5, ChecksMean DEF AllCallbacks
    <2>7. checks[4].fails <=> f.bytes = 0
        <3> DEFINE bad == f.bytes = 0
        <3>1. checks[4] = Limits!ValueCheck(bad)
            BY <2>5
        <3> HIDE DEF bad
        <3>2. Limits!ValueCheck(bad).fails <=> bad
            BY DEF Limits!ValueCheck, Limits!Check
        <3>3. checks[4].fails <=> bad
            BY <3>1, <3>2
        <3> QED
            BY <3>3 DEF bad
    <2>8. checks[5].fails <=> f.bytes # 2 * f.quantity
        <3> DEFINE bad == f.bytes # 2 * f.quantity
        <3>1. checks[5] = Limits!ValueCheck(bad)
            BY <2>5
        <3> HIDE DEF bad
        <3>2. Limits!ValueCheck(bad).fails <=> bad
            BY DEF Limits!ValueCheck, Limits!Check
        <3>3. checks[5].fails <=> bad
            BY <3>1, <3>2
        <3> QED
            BY <3>3 DEF bad
    <2>9. Limits!handle_write_multiple_registers(f) = Limits!NMBS_ERROR_NONE <=> \A i \in 1 .. 6 : ~checks[i].fails
        BY <2>1, <2>2, <2>3, NoFaultMeans
    <2> QED
        BY <2>4, <2>6, <2>7, <2>8, <2>9
<1>7. Limits!handle_read_file_record(f) = Limits!NMBS_ERROR_NONE <=>
         /\ ~(f.bytes > 245)
         /\ f.bytes % 7 = 0
         /\ ~(f.bytes < 7)
         /\ f.legal
    <2> DEFINE checks == <<Limits!SizeCheck(f.bytes, 245),
                           Limits!ValueCheck(f.bytes % 7 # 0),
                           Limits!ValueCheck(f.bytes < 7),
                           Limits!Check(~f.legal, Limits!NMBS_EXCEPTION_ILLEGAL_DATA_ADDRESS),
                           Limits!CallbackCheck("read_file_record")>>
    <2>1. DOMAIN checks = 1 .. 5 /\ 5 \in 1 .. 8
        OBVIOUS
    <2>2. \A i \in 1 .. 5 : checks[i].error # Limits!NMBS_ERROR_NONE
        BY ChecksMean DEF AllCallbacks
    <2>3. Limits!handle_read_file_record(f) = Limits!FirstFault(checks)
        BY Zenon DEF Limits!handle_read_file_record
    <2>4. (\A i \in 1 .. 5 : ~checks[i].fails) <=>
             /\ ~checks[1].fails
             /\ ~checks[2].fails
             /\ ~checks[3].fails
             /\ ~checks[4].fails
             /\ ~checks[5].fails
        OBVIOUS
    <2>5. /\ checks[1] = Limits!SizeCheck(f.bytes, 245)
          /\ checks[2] = Limits!ValueCheck(f.bytes % 7 # 0)
          /\ checks[3] = Limits!ValueCheck(f.bytes < 7)
          /\ checks[4] = Limits!Check(~f.legal, Limits!NMBS_EXCEPTION_ILLEGAL_DATA_ADDRESS)
          /\ checks[5] = Limits!CallbackCheck("read_file_record")
        OBVIOUS
    <2> HIDE DEF checks
    <2>6. /\ checks[1].fails <=> f.bytes > 245
          /\ ~checks[5].fails
        BY <2>5, ChecksMean DEF AllCallbacks
    <2>7. checks[2].fails <=> f.bytes % 7 # 0
        <3> DEFINE bad == f.bytes % 7 # 0
        <3>1. checks[2] = Limits!ValueCheck(bad)
            BY <2>5
        <3> HIDE DEF bad
        <3>2. Limits!ValueCheck(bad).fails <=> bad
            BY DEF Limits!ValueCheck, Limits!Check
        <3>3. checks[2].fails <=> bad
            BY <3>1, <3>2
        <3> QED
            BY <3>3 DEF bad
    <2>8. checks[3].fails <=> f.bytes < 7
        <3> DEFINE bad == f.bytes < 7
        <3>1. checks[3] = Limits!ValueCheck(bad)
            BY <2>5
        <3> HIDE DEF bad
        <3>2. Limits!ValueCheck(bad).fails <=> bad
            BY DEF Limits!ValueCheck, Limits!Check
        <3>3. checks[3].fails <=> bad
            BY <3>1, <3>2
        <3> QED
            BY <3>3 DEF bad
    <2>9. checks[4].fails <=> ~f.legal
        <3> DEFINE bad == ~f.legal
        <3>1. checks[4] = Limits!Check(bad, Limits!NMBS_EXCEPTION_ILLEGAL_DATA_ADDRESS)
            BY <2>5
        <3> HIDE DEF bad
        <3>2. Limits!Check(bad, Limits!NMBS_EXCEPTION_ILLEGAL_DATA_ADDRESS).fails <=> bad
            BY DEF Limits!ValueCheck, Limits!Check
        <3>3. checks[4].fails <=> bad
            BY <3>1, <3>2
        <3> QED
            BY <3>3 DEF bad
    <2>10. Limits!handle_read_file_record(f) = Limits!NMBS_ERROR_NONE <=> \A i \in 1 .. 5 : ~checks[i].fails
        BY <2>1, <2>2, <2>3, NoFaultMeans
    <2> QED
        BY <2>4, <2>6, <2>7, <2>8, <2>9, <2>10
<1>8. Limits!handle_write_file_record(f) = Limits!NMBS_ERROR_NONE <=>
         /\ ~(f.bytes > 251)
         /\ ~(f.bytes < 7)
         /\ f.legal
         /\ f.value = 0
    <2> DEFINE checks == <<Limits!SizeCheck(f.bytes, 251),
                           Limits!ValueCheck(f.bytes < 7),
                           Limits!Check(~f.legal, Limits!NMBS_EXCEPTION_ILLEGAL_DATA_ADDRESS),
                           Limits!ValueCheck(f.value # 0),
                           Limits!CallbackCheck("write_file_record")>>
    <2>1. DOMAIN checks = 1 .. 5 /\ 5 \in 1 .. 8
        OBVIOUS
    <2>2. \A i \in 1 .. 5 : checks[i].error # Limits!NMBS_ERROR_NONE
        BY ChecksMean DEF AllCallbacks
    <2>3. Limits!handle_write_file_record(f) = Limits!FirstFault(checks)
        BY Zenon DEF Limits!handle_write_file_record
    <2>4. (\A i \in 1 .. 5 : ~checks[i].fails) <=>
             /\ ~checks[1].fails
             /\ ~checks[2].fails
             /\ ~checks[3].fails
             /\ ~checks[4].fails
             /\ ~checks[5].fails
        OBVIOUS
    <2>5. /\ checks[1] = Limits!SizeCheck(f.bytes, 251)
          /\ checks[2] = Limits!ValueCheck(f.bytes < 7)
          /\ checks[3] = Limits!Check(~f.legal, Limits!NMBS_EXCEPTION_ILLEGAL_DATA_ADDRESS)
          /\ checks[4] = Limits!ValueCheck(f.value # 0)
          /\ checks[5] = Limits!CallbackCheck("write_file_record")
        OBVIOUS
    <2> HIDE DEF checks
    <2>6. /\ checks[1].fails <=> f.bytes > 251
          /\ ~checks[5].fails
        BY <2>5, ChecksMean DEF AllCallbacks
    <2>7. checks[2].fails <=> f.bytes < 7
        <3> DEFINE bad == f.bytes < 7
        <3>1. checks[2] = Limits!ValueCheck(bad)
            BY <2>5
        <3> HIDE DEF bad
        <3>2. Limits!ValueCheck(bad).fails <=> bad
            BY DEF Limits!ValueCheck, Limits!Check
        <3>3. checks[2].fails <=> bad
            BY <3>1, <3>2
        <3> QED
            BY <3>3 DEF bad
    <2>8. checks[3].fails <=> ~f.legal
        <3> DEFINE bad == ~f.legal
        <3>1. checks[3] = Limits!Check(bad, Limits!NMBS_EXCEPTION_ILLEGAL_DATA_ADDRESS)
            BY <2>5
        <3> HIDE DEF bad
        <3>2. Limits!Check(bad, Limits!NMBS_EXCEPTION_ILLEGAL_DATA_ADDRESS).fails <=> bad
            BY DEF Limits!ValueCheck, Limits!Check
        <3>3. checks[3].fails <=> bad
            BY <3>1, <3>2
        <3> QED
            BY <3>3 DEF bad
    <2>9. checks[4].fails <=> f.value # 0
        <3> DEFINE bad == f.value # 0
        <3>1. checks[4] = Limits!ValueCheck(bad)
            BY <2>5
        <3> HIDE DEF bad
        <3>2. Limits!ValueCheck(bad).fails <=> bad
            BY DEF Limits!ValueCheck, Limits!Check
        <3>3. checks[4].fails <=> bad
            BY <3>1, <3>2
        <3> QED
            BY <3>3 DEF bad
    <2>10. Limits!handle_write_file_record(f) = Limits!NMBS_ERROR_NONE <=> \A i \in 1 .. 5 : ~checks[i].fails
        BY <2>1, <2>2, <2>3, NoFaultMeans
    <2> QED
        BY <2>4, <2>6, <2>7, <2>8, <2>9, <2>10
<1>9. Limits!handle_read_write_registers(f) = Limits!NMBS_ERROR_NONE <=>
         /\ ~(f.bytes > 242)
         /\ ~Limits!OutOfLimits(f.quantity, 125)
         /\ ~Limits!OutOfLimits(f.write_quantity, 123)
         /\ f.bytes = 2 * f.write_quantity
         /\ ~Limits!OutOfSpace(f.address, f.quantity)
         /\ ~Limits!OutOfSpace(f.write_address, f.write_quantity)
    <2> DEFINE checks == <<Limits!SizeCheck(f.bytes, 242),
                           Limits!QuantityCheck(f.quantity, 125),
                           Limits!QuantityCheck(f.write_quantity, 123),
                           Limits!ValueCheck(f.bytes # 2 * f.write_quantity),
                           Limits!SpaceCheck(f.address, f.quantity),
                           Limits!SpaceCheck(f.write_address, f.write_quantity),
                           Limits!CallbackCheck("write_multiple_registers"),
                           Limits!CallbackCheck("read_holding_registers")>>
    <2>1. DOMAIN checks = 1 .. 8 /\ 8 \in 1 .. 8
        OBVIOUS
    <2>2. \A i \in 1 .. 8 : checks[i].error # Limits!NMBS_ERROR_NONE
        BY ChecksMean DEF AllCallbacks
    <2>3. Limits!handle_read_write_registers(f) = Limits!FirstFault(checks)
        BY DEF Limits!handle_read_write_registers
    <2>4. (\A i \in 1 .. 8 : ~checks[i].fails) <=>
             /\ ~checks[1].fails
             /\ ~checks[2].fails
             /\ ~checks[3].fails
             /\ ~checks[4].fails
             /\ ~checks[5].fails
             /\ ~checks[6].fails
             /\ ~checks[7].fails
             /\ ~checks[8].fails
        OBVIOUS
    <2>5. /\ checks[1] = Limits!SizeCheck(f.bytes, 242)
          /\ checks[2] = Limits!QuantityCheck(f.quantity, 125)
          /\ checks[3] = Limits!QuantityCheck(f.write_quantity, 123)
          /\ checks[4] = Limits!ValueCheck(f.bytes # 2 * f.write_quantity)
          /\ checks[5] = Limits!SpaceCheck(f.address, f.quantity)
          /\ checks[6] = Limits!SpaceCheck(f.write_address, f.write_quantity)
          /\ checks[7] = Limits!CallbackCheck("write_multiple_registers")
          /\ checks[8] = Limits!CallbackCheck("read_holding_registers")
        OBVIOUS
    <2> HIDE DEF checks
    <2>6. /\ checks[1].fails <=> f.bytes > 242
          /\ checks[2].fails <=> Limits!OutOfLimits(f.quantity, 125)
          /\ checks[3].fails <=> Limits!OutOfLimits(f.write_quantity, 123)
          /\ checks[5].fails <=> Limits!OutOfSpace(f.address, f.quantity)
          /\ checks[6].fails <=> Limits!OutOfSpace(f.write_address, f.write_quantity)
          /\ ~checks[7].fails
          /\ ~checks[8].fails
        BY <2>5, ChecksMean DEF AllCallbacks
    <2>7. checks[4].fails <=> f.bytes # 2 * f.write_quantity
        <3> DEFINE bad == f.bytes # 2 * f.write_quantity
        <3>1. checks[4] = Limits!ValueCheck(bad)
            BY <2>5
        <3> HIDE DEF bad
        <3>2. Limits!ValueCheck(bad).fails <=> bad
            BY DEF Limits!ValueCheck, Limits!Check
        <3>3. checks[4].fails <=> bad
            BY <3>1, <3>2
        <3> QED
            BY <3>3 DEF bad
    <2>8. Limits!handle_read_write_registers(f) = Limits!NMBS_ERROR_NONE <=> \A i \in 1 .. 8 : ~checks[i].fails
        BY <2>1, <2>2, <2>3, NoFaultMeans
    <2> QED
        BY <2>4, <2>6, <2>7, <2>8
<1> QED
    BY <1>1, <1>2, <1>3, <1>4, <1>5, <1>6, <1>7, <1>8, <1>9

LEMMA AcceptsMeans ==
    ASSUME NEW c, NEW f
    PROVE  /\ c.function = 1 \/ c.function = 2 => (Limits!Accepts(c, f) <=> Limits!AcceptsDiscrete(f))
           /\ c.function = 3 \/ c.function = 4 \/ c.function = 23 =>
                 (Limits!Accepts(c, f) <=> Limits!AcceptsRegisters(c, f))
           /\ c.function = 5 \/ c.function = 6 \/ c.function = 15 \/ c.function = 16 =>
                 (Limits!Accepts(c, f) <=> Limits!AcceptsEcho(c, f))
           /\ c.function = 20 => (Limits!Accepts(c, f) <=> Limits!AcceptsFile(c, f))
           /\ c.function = 21 => (Limits!Accepts(c, f) <=> Limits!AcceptsFileEcho(c, f))
<1>1. c.function = 1 => (Limits!Accepts(c, f) <=> Limits!AcceptsDiscrete(f))
    BY DEF Limits!Accepts
<1>2. c.function = 2 => (Limits!Accepts(c, f) <=> Limits!AcceptsDiscrete(f))
    BY DEF Limits!Accepts
<1>3. c.function = 3 => (Limits!Accepts(c, f) <=> Limits!AcceptsRegisters(c, f))
    BY DEF Limits!Accepts
<1>4. c.function = 4 => (Limits!Accepts(c, f) <=> Limits!AcceptsRegisters(c, f))
    BY DEF Limits!Accepts
<1>5. c.function = 23 => (Limits!Accepts(c, f) <=> Limits!AcceptsRegisters(c, f))
    BY DEF Limits!Accepts
<1>6. c.function = 5 => (Limits!Accepts(c, f) <=> Limits!AcceptsEcho(c, f))
    BY DEF Limits!Accepts
<1>7. c.function = 6 => (Limits!Accepts(c, f) <=> Limits!AcceptsEcho(c, f))
    BY DEF Limits!Accepts
<1>8. c.function = 15 => (Limits!Accepts(c, f) <=> Limits!AcceptsEcho(c, f))
    BY DEF Limits!Accepts
<1>9. c.function = 16 => (Limits!Accepts(c, f) <=> Limits!AcceptsEcho(c, f))
    BY DEF Limits!Accepts
<1>10. c.function = 20 => (Limits!Accepts(c, f) <=> Limits!AcceptsFile(c, f))
    BY DEF Limits!Accepts
<1>11. c.function = 21 => (Limits!Accepts(c, f) <=> Limits!AcceptsFileEcho(c, f))
    BY DEF Limits!Accepts
<1> QED
    BY <1>1, <1>2, <1>3, <1>4, <1>5, <1>6, <1>7, <1>8, <1>9, <1>10, <1>11

\* The request put together is as long as its byte count says.
LengthOf(c) ==
    CASE c.function \in {15, 16} -> 5 + Limits!RequestBytes(c)
      [] c.function \in {20, 21} -> 1 + Limits!RequestBytes(c)
      [] c.function = 23         -> 9 + Limits!RequestBytes(c)
      [] OTHER                   -> 4

\* The two halves agree about a call.
Meet(c) ==
    /\ Limits!Refuses(c) <=>
          Limits!RequestFault(Limits!Request(c)) # Limits!NMBS_ERROR_NONE
    /\ ~Limits!Refuses(c) =>
          /\ Limits!RequestLength(c) \in 4 .. 252 /\ Limits!RequestLength(c) = LengthOf(c)
          /\ Limits!Accepts(c, Limits!Request(c))

Word == 0 .. Limits!AddressSpace - 1

\* What the server makes of the sub-request of a file function.
LegalFile(c) == c.address # 0 /\ c.write_address <= 9999 /\ c.quantity <= Limits!FileLimit(c)

LEMMA RequestIs ==
    ASSUME NEW c \in Limits!PduFields, NEW f, f = Limits!Request(c)
    PROVE  /\ c.address \in Word /\ c.quantity \in Word /\ c.write_address \in Word
           /\ c.write_quantity \in Word /\ c.value \in Word
           /\ f.function = c.function /\ f.address = c.address /\ f.quantity = c.quantity
           /\ f.write_address = c.write_address /\ f.write_quantity = c.write_quantity
           /\ f.bytes = Limits!RequestBytes(c)
           /\ f.value = IF c.function = 21 THEN 0 ELSE c.value
           /\ f.legal <=> LegalFile(c)
           /\ c.address \in Nat /\ c.quantity \in Nat /\ c.write_address \in Nat /\ c.write_quantity \in Nat
<1> DEFINE value == IF c.function = 21 THEN 0 ELSE c.value
           bytes == Limits!RequestBytes(c)
<1>1. f = [c EXCEPT !.bytes = bytes, !.legal = LegalFile(c), !.value = value]
    BY DEF Limits!Request, LegalFile
<1>2. c \in [function : 0 .. 127, address : Word, quantity : Word, write_address : Word,
             write_quantity : Word, bytes : 0 .. 255, value : Word, legal : BOOLEAN]
    BY DEF Limits!PduFields, Word
<1>3. c = [function |-> c.function, address |-> c.address, quantity |-> c.quantity,
           write_address |-> c.write_address, write_quantity |-> c.write_quantity,
           bytes |-> c.bytes, value |-> c.value, legal |-> c.legal]
    BY <1>2
<1> HIDE DEF value, bytes
<1>4. f = [function |-> c.function, address |-> c.address, quantity |-> c.quantity,
           write_address |-> c.write_address, write_quantity |-> c.write_quantity,
           bytes |-> bytes, value |-> value, legal |-> LegalFile(c)]
    BY <1>1, <1>3
<1>5. /\ f.function = c.function /\ f.address = c.address /\ f.quantity = c.quantity
      /\ f.write_address = c.write_address /\ f.write_quantity = c.write_quantity
      /\ f.bytes = bytes /\ f.value = value /\ (f.legal <=> LegalFile(c))
    BY <1>4
<1>6. /\ c.address \in Word /\ c.quantity \in Word /\ c.write_address \in Word
      /\ c.write_quantity \in Word /\ c.value \in Word
    BY <1>2
<1>7. \A w \in Word : w \in Nat
    BY SMT DEF Word
<1> QED
    BY <1>5, <1>6, <1>7, Zenon DEF value, bytes

LEMMA MeetDiscrete ==
    ASSUME NEW c \in Limits!PduFields, c.function = 1 \/ c.function = 2
    PROVE  Meet(c)
<1> DEFINE f == Limits!Request(c)
           none == Limits!NMBS_ERROR_NONE
           length == LengthOf(c)
           q == c.quantity
           n == c.write_quantity
           met == /\ Limits!Refuses(c) <=> Limits!RequestFault(f) # none
                  /\ ~Limits!Refuses(c) =>
                        /\ Limits!RequestLength(c) \in 4 .. 252 /\ Limits!RequestLength(c) = length
                        /\ Limits!Accepts(c, f)
<1> SUFFICES met
    BY DEF Meet
<1>1. /\ c.address \in Nat /\ q \in Nat /\ c.write_address \in Nat /\ n \in Nat
      /\ f.function = c.function /\ f.address = c.address /\ f.quantity = q
      /\ f.write_address = c.write_address /\ f.write_quantity = n
      /\ f.bytes = Limits!RequestBytes(c)
      /\ f.value = IF c.function = 21 THEN 0 ELSE c.value
      /\ f.legal <=> LegalFile(c)
    BY RequestIs
<1> HIDE DEF f, q, n, none, length
<1> USE DEF Limits!OutOfLimits
<1>2. met
    <2>1. Limits!RequestFault(f) = none <=>
             ~Limits!OutOfLimits(q, 2000) /\ ~Limits!OutOfSpace(c.address, q)
        BY <1>1, HandlersTake, SMT DEF Limits!RequestFault, none, AllCallbacks
    <2>2. Limits!Refuses(c) <=> Limits!OutOfLimits(q, 2000) \/ Limits!OutOfSpace(c.address, q)
        BY SMT DEF Limits!Refuses, Limits!RefusesDiscrete, q
    <2>3. Limits!RequestLength(c) = 4 /\ length = 4
        BY SMT DEF Limits!RequestLength, length, LengthOf
    <2>4. q \in 1 .. 2000 => ((q + 7) \div 8) % 256 <= 250
        BY SMT
    <2>5. ~Limits!Refuses(c) => Limits!Accepts(c, f)
        BY <1>1, <2>2, <2>4, AcceptsMeans, SMT
        DEF Limits!AcceptsDiscrete, Limits!ByteCount
    <2> QED
        BY <2>1, <2>2, <2>3, <2>5, SMT
<1> QED
    BY <1>2

LEMMA MeetRegisters ==
    ASSUME NEW c \in Limits!PduFields, c.function = 3 \/ c.function = 4
    PROVE  Meet(c)
<1> DEFINE f == Limits!Request(c)
           none == Limits!NMBS_ERROR_NONE
           length == LengthOf(c)
           q == c.quantity
           n == c.write_quantity
           met == /\ Limits!Refuses(c) <=> Limits!RequestFault(f) # none
                  /\ ~Limits!Refuses(c) =>
                        /\ Limits!RequestLength(c) \in 4 .. 252 /\ Limits!RequestLength(c) = length
                        /\ Limits!Accepts(c, f)
<1> SUFFICES met
    BY DEF Meet
<1>1. /\ c.address \in Nat /\ q \in Nat /\ c.write_address \in Nat /\ n \in Nat
      /\ f.function = c.function /\ f.address = c.address /\ f.quantity = q
      /\ f.write_address = c.write_address /\ f.write_quantity = n
      /\ f.bytes = Limits!RequestBytes(c)
      /\ f.value = IF c.function = 21 THEN 0 ELSE c.value
      /\ f.legal <=> LegalFile(c)
    BY RequestIs
<1> HIDE DEF f, q, n, none, length
<1> USE DEF Limits!OutOfLimits
<1>2. met
    <2>1. Limits!RequestFault(f) = none <=>
             ~Limits!OutOfLimits(q, 125) /\ ~Limits!OutOfSpace(c.address, q)
        BY <1>1, HandlersTake, SMT DEF Limits!RequestFault, none, AllCallbacks
    <2>2. Limits!Refuses(c) <=> Limits!OutOfLimits(q, 125) \/ Limits!OutOfSpace(c.address, q)
        BY SMT DEF Limits!Refuses, Limits!RefusesRegisters, q
    <2>3. Limits!RequestLength(c) = 4 /\ length = 4
        BY SMT DEF Limits!RequestLength, length, LengthOf
    <2>4. q \in 1 .. 125 => (2 * q) % 256 = 2 * q /\ 2 * q <= 250
        BY SMT
    <2>5. ~Limits!Refuses(c) => Limits!Accepts(c, f)
        BY <1>1, <2>2, <2>4, AcceptsMeans, SMT
        DEF Limits!AcceptsRegisters, Limits!ByteCount, q
    <2> QED
        BY <2>1, <2>2, <2>3, <2>5, SMT
<1> QED
    BY <1>2

LEMMA MeetSingle ==
    ASSUME NEW c \in Limits!PduFields, c.function = 5 \/ c.function = 6,
           c.function = 5 => c.value \in {0, 65280}
    PROVE  Meet(c)
<1> DEFINE f == Limits!Request(c)
           none == Limits!NMBS_ERROR_NONE
           length == LengthOf(c)
           q == c.quantity
           n == c.write_quantity
           met == /\ Limits!Refuses(c) <=> Limits!RequestFault(f) # none
                  /\ ~Limits!Refuses(c) =>
                        /\ Limits!RequestLength(c) \in 4 .. 252 /\ Limits!RequestLength(c) = length
                        /\ Limits!Accepts(c, f)
<1> SUFFICES met
    BY DEF Meet
<1>1. /\ c.address \in Nat /\ q \in Nat /\ c.write_address \in Nat /\ n \in Nat
      /\ f.function = c.function /\ f.address = c.address /\ f.quantity = q
      /\ f.write_address = c.write_address /\ f.write_quantity = n
      /\ f.bytes = Limits!RequestBytes(c)
      /\ f.value = IF c.function = 21 THEN 0 ELSE c.value
      /\ f.legal <=> LegalFile(c)
    BY RequestIs
<1> HIDE DEF f, q, n, none, length
<1> USE DEF Limits!OutOfLimits
<1>2. met
    <2>1. Limits!RequestFault(f) = none
        BY <1>1, HandlersTake, SMT DEF Limits!RequestFault, none, AllCallbacks
    <2>2. ~Limits!Refuses(c)
        BY SMT DEF Limits!Refuses
    <2>3. Limits!RequestLength(c) = 4 /\ length = 4
        BY SMT DEF Limits!RequestLength, length, LengthOf
    <2>4. Limits!Accepts(c, f)
        BY <1>1, AcceptsMeans, SMT DEF Limits!AcceptsEcho, q
    <2> QED
        BY <2>1, <2>2, <2>3, <2>4, SMT
<1> QED
    BY <1>2

LEMMA MeetCoils ==
    ASSUME NEW c \in Limits!PduFields, c.function = 15
    PROVE  Meet(c)
<1> DEFINE f == Limits!Request(c)
           none == Limits!NMBS_ERROR_NONE
           length == LengthOf(c)
           q == c.quantity
           n == c.write_quantity
           met == /\ Limits!Refuses(c) <=> Limits!RequestFault(f) # none
                  /\ ~Limits!Refuses(c) =>
                        /\ Limits!RequestLength(c) \in 4 .. 252 /\ Limits!RequestLength(c) = length
                        /\ Limits!Accepts(c, f)
<1> SUFFICES met
    BY DEF Meet
<1>1. /\ c.address \in Nat /\ q \in Nat /\ c.write_address \in Nat /\ n \in Nat
      /\ f.function = c.function /\ f.address = c.address /\ f.quantity = q
      /\ f.write_address = c.write_address /\ f.write_quantity = n
      /\ f.bytes = Limits!RequestBytes(c)
      /\ f.value = IF c.function = 21 THEN 0 ELSE c.value
      /\ f.legal <=> LegalFile(c)
    BY RequestIs
<1> HIDE DEF f, q, n, none, length
<1> USE DEF Limits!OutOfLimits
<1>2. met
    <2>1. q \in 1 .. 1968 => (q + 7) \div 8 \in 1 .. 246
        BY SMT
    <2>2. q \in 1 .. 1968 => ((q + 7) \div 8) % 256 = (q + 7) \div 8
        BY <2>1, SMT
    <2>3. Limits!RequestBytes(c) = ((q + 7) \div 8) % 256
        BY SMT DEF Limits!RequestBytes, q
    <2>4. Limits!RequestFault(f) = none <=>
             /\ ~(f.bytes > 246) /\ ~Limits!OutOfLimits(q, 1968)
             /\ ~Limits!OutOfSpace(c.address, q)
             /\ f.bytes # 0 /\ f.bytes = (q + 7) \div 8
        BY <1>1, HandlersTake, SMT DEF Limits!RequestFault, none
    <2>5. Limits!Refuses(c) <=> Limits!OutOfLimits(q, 1968) \/ Limits!OutOfSpace(c.address, q)
        BY SMT DEF Limits!Refuses, Limits!RefusesMultipleCoils, q
    <2>6. Limits!RequestFault(f) = none <=> ~Limits!Refuses(c)
        BY <1>1, <2>1, <2>2, <2>3, <2>4, <2>5, SMT
    <2>7. Limits!RequestLength(c) = 5 + (q + 7) \div 8 /\ length = 5 + Limits!RequestBytes(c)
        BY SMT DEF Limits!RequestLength, length, LengthOf, q
    <2>8. ~Limits!Refuses(c) => Limits!RequestLength(c) \in 4 .. 252 /\ Limits!RequestLength(c) = length
        BY <1>1, <2>1, <2>2, <2>3, <2>5, <2>7, SMT
    <2>9. Limits!Accepts(c, f)
        BY <1>1, AcceptsMeans, SMT DEF Limits!AcceptsEcho, q
    <2> QED
        BY <2>6, <2>8, <2>9, SMT
<1> QED
    BY <1>2

LEMMA MeetMultipleRegisters ==
    ASSUME NEW c \in Limits!PduFields, c.function = 16
    PROVE  Meet(c)
<1> DEFINE f == Limits!Request(c)
           none == Limits!NMBS_ERROR_NONE
           length == LengthOf(c)
           q == c.quantity
           n == c.write_quantity
           met == /\ Limits!Refuses(c) <=> Limits!RequestFault(f) # none
                  /\ ~Limits!Refuses(c) =>
                        /\ Limits!RequestLength(c) \in 4 .. 252 /\ Limits!RequestLength(c) = length
                        /\ Limits!Accepts(c, f)
<1> SUFFICES met
    BY DEF Meet
<1>1. /\ c.address \in Nat /\ q \in Nat /\ c.write_address \in Nat /\ n \in Nat
      /\ f.function = c.function /\ f.address = c.address /\ f.quantity = q
      /\ f.write_address = c.write_address /\ f.write_quantity = n
      /\ f.bytes = Limits!RequestBytes(c)
      /\ f.value = IF c.function = 21 THEN 0 ELSE c.value
      /\ f.legal <=> LegalFile(c)
    BY RequestIs
<1> HIDE DEF f, q, n, none, length
<1> USE DEF Limits!OutOfLimits
<1>2. met
    <2>1. q \in 1 .. 123 => (2 * q) % 256 = 2 * q /\ 2 * q \in 1 .. 246
        BY SMT
    <2>2. Limits!RequestBytes(c) = (2 * q) % 256
        BY SMT DEF Limits!RequestBytes, q
    <2>3. Limits!RequestFault(f) = none <=>
             /\ ~(f.bytes > 246) /\ ~Limits!OutOfLimits(q, 123)
             /\ ~Limits!OutOfSpace(c.address, q)
             /\ f.bytes # 0 /\ f.bytes = 2 * q
        BY <1>1, HandlersTake, SMT DEF Limits!RequestFault, none
    <2>4. Limits!Refuses(c) <=> Limits!OutOfLimits(q, 123) \/ Limits!OutOfSpace(c.address, q)
        BY SMT DEF Limits!Refuses, Limits!RefusesMultipleRegisters, q
    <2>5. Limits!RequestFault(f) = none <=> ~Limits!Refuses(c)
        BY <1>1, <2>1, <2>2, <2>3, <2>4, SMT
    <2>6. Limits!RequestLength(c) = 5 + Limits!RequestBytes(c) /\ length = 5 + Limits!RequestBytes(c)
        BY SMT DEF Limits!RequestLength, length, LengthOf
    <2>7. ~Limits!Refuses(c) => Limits!RequestLength(c) \in 4 .. 252 /\ Limits!RequestLength(c) = length
        BY <1>1, <2>1, <2>2, <2>4, <2>6, SMT
    <2>8. Limits!Accepts(c, f)
        BY <1>1, AcceptsMeans, SMT DEF Limits!AcceptsEcho, q
    <2> QED
        BY <2>5, <2>7, <2>8, SMT
<1> QED
    BY <1>2

LEMMA MeetFileRead ==
    ASSUME NEW c \in Limits!PduFields, c.function = 20
    PROVE  Meet(c)
<1> DEFINE f == Limits!Request(c)
           none == Limits!NMBS_ERROR_NONE
           length == LengthOf(c)
           q == c.quantity
           n == c.write_quantity
           met == /\ Limits!Refuses(c) <=> Limits!RequestFault(f) # none
                  /\ ~Limits!Refuses(c) =>
                        /\ Limits!RequestLength(c) \in 4 .. 252 /\ Limits!RequestLength(c) = length
                        /\ Limits!Accepts(c, f)
<1> SUFFICES met
    BY DEF Meet
<1>1. /\ c.address \in Nat /\ q \in Nat /\ c.write_address \in Nat /\ n \in Nat
      /\ f.function = c.function /\ f.address = c.address /\ f.quantity = q
      /\ f.write_address = c.write_address /\ f.write_quantity = n
      /\ f.bytes = Limits!RequestBytes(c)
      /\ f.value = IF c.function = 21 THEN 0 ELSE c.value
      /\ f.legal <=> LegalFile(c)
    BY RequestIs
<1> HIDE DEF f, q, n, none, length
<1> USE DEF Limits!OutOfLimits
<1>2. met
    <2>1. Limits!RequestBytes(c) = 7
        BY SMT DEF Limits!RequestBytes
    <2>2. Limits!RequestFault(f) = none <=> f.legal
        BY <1>1, <2>1, HandlersTake, SMT DEF Limits!RequestFault, none
    <2>3. Limits!Refuses(c) <=> c.address = 0 \/ c.write_address > 9999 \/ q > 124
        BY SMT DEF Limits!Refuses, Limits!RefusesFileRead, q
    <2>4. f.legal <=> ~Limits!Refuses(c)
        BY <1>1, <2>3, SMT DEF Limits!FileLimit, LegalFile, q
    <2>5. Limits!RequestLength(c) = 8 /\ length = 8
        BY <2>1, SMT DEF Limits!RequestLength, length, LengthOf
    <2>6. q \in 0 .. 124 =>
             /\ (2 + 2 * q) % 256 <= 250
             /\ ((((2 * q + 1) % 256) - 1) % 256) \div 2 = q
        <3>1. q \in 0 .. 124 => (2 + 2 * q) % 256 <= 250 /\ (2 * q + 1) % 256 = 2 * q + 1
            BY SMT
        <3>2. q \in 0 .. 124 => (2 * q + 1 - 1) % 256 = 2 * q /\ (2 * q) \div 2 = q
            BY SMT
        <3> QED
            BY <3>1, <3>2, SMT
    <2>7. ~Limits!Refuses(c) => Limits!Accepts(c, f)
        BY <1>1, <2>3, <2>6, AcceptsMeans, SMT
        DEF Limits!AcceptsFile, Limits!ByteCount, q
    <2> QED
        BY <2>2, <2>4, <2>5, <2>7, SMT
<1> QED
    BY <1>2

LEMMA MeetFileWrite ==
    ASSUME NEW c \in Limits!PduFields, c.function = 21
    PROVE  Meet(c)
<1> DEFINE f == Limits!Request(c)
           none == Limits!NMBS_ERROR_NONE
           length == LengthOf(c)
           q == c.quantity
           n == c.write_quantity
           met == /\ Limits!Refuses(c) <=> Limits!RequestFault(f) # none
                  /\ ~Limits!Refuses(c) =>
                        /\ Limits!RequestLength(c) \in 4 .. 252 /\ Limits!RequestLength(c) = length
                        /\ Limits!Accepts(c, f)
<1> SUFFICES met
    BY DEF Meet
<1>1. /\ c.address \in Nat /\ q \in Nat /\ c.write_address \in Nat /\ n \in Nat
      /\ f.function = c.function /\ f.address = c.address /\ f.quantity = q
      /\ f.write_address = c.write_address /\ f.write_quantity = n
      /\ f.bytes = Limits!RequestBytes(c)
      /\ f.value = IF c.function = 21 THEN 0 ELSE c.value
      /\ f.legal <=> LegalFile(c)
    BY RequestIs
<1> HIDE DEF f, q, n, none, length
<1> USE DEF Limits!OutOfLimits
<1>2. met
    <2>1. q \in 0 .. 122 => (7 + 2 * q) % 256 = 7 + 2 * q /\ 7 + 2 * q \in 7 .. 251
        BY SMT
    <2>2. Limits!RequestBytes(c) = (7 + 2 * q) % 256
        BY SMT DEF Limits!RequestBytes, q
    <2>3. Limits!RequestFault(f) = none <=>
             ~(f.bytes > 251) /\ ~(f.bytes < 7) /\ f.legal /\ f.value = 0
        BY <1>1, HandlersTake, SMT DEF Limits!RequestFault, none
    <2>4. Limits!Refuses(c) <=> c.address = 0 \/ c.write_address > 9999 \/ q > 122
        BY SMT DEF Limits!Refuses, Limits!RefusesFileWrite, q
    <2>5. f.legal <=> ~Limits!Refuses(c)
        BY <1>1, <2>4, SMT DEF Limits!FileLimit, LegalFile, q
    <2>6. ~Limits!Refuses(c) => q \in 0 .. 122
        BY <1>1, <2>4, SMT
    <2>7. Limits!RequestFault(f) = none <=> ~Limits!Refuses(c)
        BY <1>1, <2>1, <2>2, <2>3, <2>5, <2>6, SMT
    <2>8. Limits!RequestLength(c) = 8 + 2 * q /\ length = 1 + Limits!RequestBytes(c)
        BY SMT DEF Limits!RequestLength, length, LengthOf, q
    <2>9. ~Limits!Refuses(c) => Limits!RequestLength(c) \in 4 .. 252 /\ Limits!RequestLength(c) = length
        BY <1>1, <2>1, <2>2, <2>6, <2>8, SMT
    <2>10. ~Limits!Refuses(c) => Limits!Accepts(c, f)
        BY <1>1, <2>1, <2>2, <2>6, AcceptsMeans, SMT DEF Limits!AcceptsFileEcho, q
    <2> QED
        BY <2>7, <2>9, <2>10, SMT
<1> QED
    BY <1>2

LEMMA MeetReadWrite ==
    ASSUME NEW c \in Limits!PduFields, c.function = 23
    PROVE  Meet(c)
<1> DEFINE f == Limits!Request(c)
           none == Limits!NMBS_ERROR_NONE
           length == LengthOf(c)
           q == c.quantity
           n == c.write_quantity
           met == /\ Limits!Refuses(c) <=> Limits!RequestFault(f) # none
                  /\ ~Limits!Refuses(c) =>
                        /\ Limits!RequestLength(c) \in 4 .. 252 /\ Limits!RequestLength(c) = length
                        /\ Limits!Accepts(c, f)
<1> SUFFICES met
    BY DEF Meet
<1>1. /\ c.address \in Nat /\ q \in Nat /\ c.write_address \in Nat /\ n \in Nat
      /\ f.function = c.function /\ f.address = c.address /\ f.quantity = q
      /\ f.write_address = c.write_address /\ f.write_quantity = n
      /\ f.bytes = Limits!RequestBytes(c)
      /\ f.value = IF c.function = 21 THEN 0 ELSE c.value
      /\ f.legal <=> LegalFile(c)
    BY RequestIs
<1> HIDE DEF f, q, n, none, length
<1> USE DEF Limits!OutOfLimits
<1>2. met
    <2>1. n \in 0 .. 121 => (2 * n) % 256 = 2 * n /\ 2 * n \in 0 .. 242
        BY SMT
    <2>2. Limits!RequestBytes(c) = (2 * n) % 256
        BY SMT DEF Limits!RequestBytes, n
    <2>3. Limits!RequestFault(f) = none <=>
             /\ ~(f.bytes > 242) /\ ~Limits!OutOfLimits(q, 125) /\ ~Limits!OutOfLimits(n, 123)
             /\ f.bytes = 2 * n
             /\ ~Limits!OutOfSpace(c.address, q) /\ ~Limits!OutOfSpace(c.write_address, n)
        BY <1>1, HandlersTake, SMT DEF Limits!RequestFault, none
    <2>4. Limits!Refuses(c) <=>
             \/ Limits!OutOfLimits(q, 125) \/ Limits!OutOfSpace(c.address, q)
             \/ Limits!OutOfLimits(n, 121) \/ Limits!OutOfSpace(c.write_address, n)
        BY SMT DEF Limits!Refuses, Limits!RefusesReadWrite, q, n
    <2>5. Limits!RequestFault(f) = none <=> ~Limits!Refuses(c)
        BY <1>1, <2>1, <2>2, <2>3, <2>4, SMT
    <2>6. Limits!RequestLength(c) = 9 + Limits!RequestBytes(c) /\ length = 9 + Limits!RequestBytes(c)
        BY SMT DEF Limits!RequestLength, length, LengthOf
    <2>7. ~Limits!Refuses(c) => Limits!RequestLength(c) \in 4 .. 252 /\ Limits!RequestLength(c) = length
        BY <1>1, <2>1, <2>2, <2>4, <2>6, SMT
    <2>8. q \in 1 .. 125 => (2 * q) % 256 = 2 * q /\ 2 * q <= 250
        BY SMT
    <2>9. ~Limits!Refuses(c) => Limits!Accepts(c, f)
        BY <1>1, <2>4, <2>8, AcceptsMeans, SMT
        DEF Limits!AcceptsRegisters, Limits!ByteCount, q
    <2> QED
        BY <2>5, <2>7, <2>9, SMT
<1> QED
    BY <1>2

\* A call of the eleven functions, as CallsAssumption has them.
Askable(c) ==
    /\ c \in Limits!PduFields /\ c.function \in {1, 2, 3, 4, 5, 6, 15, 16, 20, 21, 23}
    /\ c.function = 5 => c.value \in {0, 65280}

LEMMA HalvesMeet == \A c : Askable(c) => Meet(c)
<1> SUFFICES ASSUME NEW c, Askable(c) PROVE Meet(c)
    OBVIOUS
<1>1. /\ c \in Limits!PduFields /\ c.function \in {1, 2, 3, 4, 5, 6, 15, 16, 20, 21, 23}
      /\ c.function = 5 => c.value \in {0, 65280}
    BY SMT DEF Askable
<1> QED
    BY <1>1, MeetDiscrete, MeetRegisters, MeetSingle, MeetCoils, MeetMultipleRegisters,
       MeetFileRead, MeetFileWrite, MeetReadWrite, SMT

LimitsInv ==
    /\ Askable(limitCall)
    /\ stage \in {"sent", "answered"} => ~Limits!Refuses(limitCall)
    /\ stage \in {"called", "sent", "answered"} => callResult = Limits!NMBS_ERROR_NONE
    /\ stage = "returned" =>
          callResult \in {Limits!NMBS_ERROR_NONE, Limits!NMBS_ERROR_INVALID_ARGUMENT}

LEMMA LimitsInit == Init => LimitsInv
<1> SUFFICES ASSUME Init PROVE LimitsInv
    OBVIOUS
<1>1. CASE matter = "limits"
    <2>1. Limits!Init
        BY <1>1 DEF Init
    <2>2. Askable(limitCall)
        BY <2>1, MCLimitsAssumption, SMT DEF Limits!Init, Limits!CallsAssumption, Askable
    <2> QED
        BY <2>1, <2>2, SMT DEF Limits!Init, LimitsInv
<1>2. CASE matter # "limits"
    <2>1. NoLimits
        BY <1>2 DEF Init
    <2>2. Ask(5, 0, 1) \in Limits!PduFields
        BY SMT DEF Ask, Limits!PduFields, Limits!AddressSpace
    <2>3. Ask(5, 0, 1).function = 5 /\ Ask(5, 0, 1).value = 0
        BY SMT DEF Ask
    <2>4. Askable(limitCall)
        BY <2>1, <2>2, <2>3, SMT DEF NoLimits, Askable
    <2>5. stage = "returned" /\ callResult = Limits!NMBS_ERROR_NONE
        BY <2>1, Zenon DEF NoLimits, NMBS_ERROR_NONE, Limits!NMBS_ERROR_NONE
    <2> QED
        BY <2>4, <2>5, SMT DEF LimitsInv
<1> QED
    BY <1>1, <1>2

LEMMA LimitsStep == LimitsInv /\ [Limits!Next]_(Limits!vars) => LimitsInv'
<1> SUFFICES ASSUME LimitsInv, [Limits!Next]_(Limits!vars) PROVE LimitsInv'
    OBVIOUS
<1> DEFINE none == Limits!NMBS_ERROR_NONE
<1>1. Meet(limitCall)
    BY HalvesMeet, Zenon DEF LimitsInv
<1>2. CASE Limits!Client
    <2>1. limitCall' = limitCall /\ stage = "called"
        BY <1>2 DEF Limits!Client
    <2>2. CASE Limits!Refuses(limitCall)
        <3>1. stage' = "returned" /\ callResult' = Limits!NMBS_ERROR_INVALID_ARGUMENT
            BY <1>2, <2>2 DEF Limits!Client
        <3> QED
            BY <2>1, <3>1, Zenon DEF LimitsInv
    <2>3. CASE ~Limits!Refuses(limitCall)
        <3>1. stage' = "sent" /\ callResult' = callResult
            BY <1>2, <2>3 DEF Limits!Client
        <3> QED
            BY <2>1, <2>3, <3>1, Zenon DEF LimitsInv
    <2> QED
        BY <2>2, <2>3
<1>3. CASE Limits!Server
    <2>1. /\ limitCall' = limitCall /\ stage = "sent" /\ stage' = "answered"
          /\ callResult' = Limits!RequestFault(Limits!Request(limitCall))
        BY <1>3 DEF Limits!Server
    <2>2. callResult' = none /\ ~Limits!Refuses(limitCall)
        BY <1>1, <2>1, Zenon DEF LimitsInv, Meet
    <2> QED
        BY <2>1, <2>2, Zenon DEF LimitsInv
<1>4. CASE Limits!Receive
    <2>1. /\ limitCall' = limitCall /\ stage = "answered" /\ stage' = "returned"
          /\ callResult' = IF /\ callResult = none
                              /\ ~Limits!Accepts(limitCall, Limits!Request(limitCall))
                           THEN Limits!NMBS_ERROR_INVALID_RESPONSE ELSE callResult
        BY <1>4 DEF Limits!Receive
    <2>2. Limits!Accepts(limitCall, Limits!Request(limitCall))
        BY <1>1, <2>1, Zenon DEF LimitsInv, Meet
    <2>3. callResult' = none
        BY <2>1, <2>2, Zenon DEF LimitsInv
    <2> QED
        BY <2>1, <2>3, Zenon DEF LimitsInv
<1>5. CASE Limits!NextCall
    <2>1. limitCall' \in LimitCalls /\ stage' = "called" /\ callResult' = none
        BY <1>5 DEF Limits!NextCall
    <2>2. Askable(limitCall')
        BY <2>1, MCLimitsAssumption, SMT DEF Limits!CallsAssumption, Askable
    <2> QED
        BY <2>1, <2>2, Zenon DEF LimitsInv
<1>6. CASE UNCHANGED Limits!vars
    BY <1>6, Zenon DEF Limits!vars, LimitsInv
<1> QED
    BY <1>2, <1>3, <1>4, <1>5, <1>6 DEF Limits!Next

(* A nanoMODBUS client refuses exactly the calls a nanoMODBUS server with  *)
(* all its callbacks would refuse, whatever the addresses and quantities;  *)
(* what it sends fits the buffers of both transports, with the byte count  *)
(* of its data; and the answer to it is accepted, up to the largest one.   *)
THEOREM HalvesOfTheLibraryAgree == Spec => []HalvesAgree
<1>1. LimitsInv /\ [Next]_vars => LimitsInv'
    <2>1. [Next]_vars => [Limits!Next]_(Limits!vars)
        BY DEF Next, vars, Limits!vars, limitVars
    <2> QED
        BY <2>1, LimitsStep
<1>2. LimitsInv => HalvesAgree
    <2> SUFFICES ASSUME LimitsInv PROVE HalvesAgree
        OBVIOUS
    <2>1. Meet(limitCall)
        BY HalvesMeet, Zenon DEF LimitsInv
    <2>2. Limits!LimitsAgree
        BY <2>1, Zenon DEF Limits!LimitsAgree, Meet
    <2>3. Limits!RequestFits
        <3> SUFFICES ASSUME stage = "sent"
                     PROVE  /\ Limits!HeaderSize + Limits!RequestLength(limitCall) <= Limits!BufferSize
                            /\ 2 + Limits!RequestLength(limitCall) + 2 <= 256
                            /\ 2 + Limits!RequestLength(limitCall) <= 255
                            /\ Limits!RequestLength(limitCall) = LengthOf(limitCall)
            BY Zenon DEF Limits!RequestFits, LengthOf
        <3>1. /\ Limits!RequestLength(limitCall) \in 4 .. 252
              /\ Limits!RequestLength(limitCall) = LengthOf(limitCall)
            BY <2>1, Zenon DEF LimitsInv, Meet
        <3> QED
            BY <3>1, SMT DEF Limits!HeaderSize, Limits!BufferSize
    <2>4. Limits!AnswersAccepted
        BY Zenon DEF Limits!AnswersAccepted, LimitsInv
    <2> QED
        BY <2>2, <2>3, <2>4 DEF HalvesAgree, Limits!HalvesAgree
<1> QED
    BY <1>1, <1>2, LimitsInit, PTL DEF Spec

-----------------------------------------------------------------------------
(* The client: what is still to be read, in the inbox and behind it.       *)

Body == [address : Nat, value : Nat]
AnswerFrame == [of : Nat, tid : Nat, unit : Nat, function : Nat, body : Body,
                whole : BOOLEAN, good : BOOLEAN]
AnswerPart == [part : {"header", "body", "crc"}, frame : AnswerFrame]
HeaderFields == [unit : Nat, function : Nat, tid : Nat]
ClientStates == {"idle", "send", "header", "rest", "body", "exception", "crc", "exception_crc"}

Waiting == inbox \o air

ClientTypeInv ==
    /\ setup \in Setups /\ clientPc \in ClientStates
    /\ call \in Client!CallRecord /\ Client!WithinLimits(call)
    /\ asked \in Seq(Client!CallRecord)
    /\ current_tid \in Nat
    /\ msg \in HeaderFields /\ want \in HeaderFields
    /\ buf \in Body /\ got \in AnswerFrame /\ took \in AnswerFrame
    /\ inbox \in Seq(AnswerPart) /\ air \in Seq(AnswerPart)
    /\ quiet \in BOOLEAN

LEMMA ConcatIs ==
    ASSUME NEW S, NEW s \in Seq(S), NEW t \in Seq(S)
    PROVE  /\ s \o t \in Seq(S) /\ Len(s) \in Nat /\ Len(t) \in Nat
           /\ Len(s \o t) = Len(s) + Len(t) /\ DOMAIN (s \o t) = 1 .. Len(s) + Len(t)
           /\ \A i \in 1 .. Len(s) : (s \o t)[i] = s[i]
           /\ \A i \in 1 .. Len(t) : (s \o t)[Len(s) + i] = t[i]
           /\ \A i \in 1 .. Len(s \o t) :
                 i \in 1 .. Len(s) \/ \E j \in 1 .. Len(t) : i = Len(s) + j
<1>1. /\ s \o t \in Seq(S) /\ Len(s) \in Nat /\ Len(t) \in Nat
      /\ Len(s \o t) = Len(s) + Len(t)
      /\ \A i \in 1 .. Len(s) + Len(t) : (s \o t)[i] = IF i <= Len(s) THEN s[i] ELSE t[i - Len(s)]
    BY ConcatProperties, LenProperties
<1>2. DOMAIN (s \o t) = 1 .. Len(s) + Len(t)
    BY <1>1, LenProperties
<1>3. \A i \in 1 .. Len(s) : (s \o t)[i] = s[i]
    BY <1>1
<1>4. \A i \in 1 .. Len(t) : (s \o t)[Len(s) + i] = t[i]
    BY <1>1
<1>5. \A i \in 1 .. Len(s) + Len(t) : i \notin 1 .. Len(s) => i - Len(s) \in 1 .. Len(t)
    BY <1>1
<1>6. \A i \in 1 .. Len(s) + Len(t) :
         i \in 1 .. Len(s) \/ \E j \in 1 .. Len(t) : i = Len(s) + j
    <2> TAKE i \in 1 .. Len(s) + Len(t)
    <2>1. i = Len(s) + (i - Len(s))
        BY <1>1
    <2> QED
        BY <1>5, <2>1
<1> QED
    BY <1>1, <1>2, <1>3, <1>4, <1>6

LEMMA LineMoves ==
    ASSUME NEW S, NEW s \in Seq(S), NEW t \in Seq(S)
    PROVE  /\ t # << >> => Append(s, Head(t)) \o Tail(t) = s \o t
           /\ s # << >> => /\ Tail(s) \o t \in Seq(S) /\ Len(Tail(s) \o t) = Len(s \o t) - 1
                           /\ \A i \in 1 .. Len(s \o t) - 1 : (Tail(s) \o t)[i] = (s \o t)[i + 1]
                           /\ Len(s \o t) >= 1 /\ Len(s \o t) \in Nat /\ Head(s) = (s \o t)[1]
<1>1. ASSUME t # << >> PROVE Append(s, Head(t)) \o Tail(t) = s \o t
    <2>1. Head(t) \in S /\ Tail(t) \in Seq(S) /\ <<Head(t)>> \in Seq(S) /\ <<Head(t)>> \o Tail(t) = t
        BY <1>1, HeadTailProperties
    <2>2. Append(s, Head(t)) = s \o <<Head(t)>>
        BY <2>1, AppendIsConcat
    <2>3. (s \o <<Head(t)>>) \o Tail(t) = s \o (<<Head(t)>> \o Tail(t))
        BY <2>1, ConcatAssociative
    <2> QED
        BY <2>1, <2>2, <2>3
<1>2. ASSUME s # << >>
      PROVE  /\ Tail(s) \o t \in Seq(S) /\ Len(Tail(s) \o t) = Len(s \o t) - 1
             /\ \A i \in 1 .. Len(s \o t) - 1 : (Tail(s) \o t)[i] = (s \o t)[i + 1]
             /\ Len(s \o t) >= 1 /\ Len(s \o t) \in Nat /\ Head(s) = (s \o t)[1]
    <2>1. /\ Tail(s) \in Seq(S) /\ Len(s) \in Nat /\ Len(s) >= 1 /\ Len(Tail(s)) = Len(s) - 1
          /\ \A i \in 1 .. Len(s) - 1 : Tail(s)[i] = s[i + 1] /\ i + 1 \in 1 .. Len(s)
          /\ Head(s) = s[1] /\ 1 \in 1 .. Len(s)
        BY <1>2, TailIs
    <2>2. /\ Len(t) \in Nat /\ Len(s \o t) = Len(s) + Len(t)
          /\ \A i \in 1 .. Len(s) + Len(t) : (s \o t)[i] = IF i <= Len(s) THEN s[i] ELSE t[i - Len(s)]
        BY ConcatProperties, LenProperties
    <2>3. /\ Tail(s) \o t \in Seq(S) /\ Len(Tail(s) \o t) = Len(s) - 1 + Len(t)
          /\ \A i \in 1 .. Len(s) - 1 + Len(t) :
                (Tail(s) \o t)[i] = IF i <= Len(s) - 1 THEN Tail(s)[i] ELSE t[i - (Len(s) - 1)]
        BY <2>1, ConcatProperties
    <2>4. Len(s \o t) \in Nat /\ Len(s \o t) >= 1 /\ Head(s) = (s \o t)[1]
        BY <2>1, <2>2
    <2>5. \A i \in 1 .. Len(s \o t) - 1 : (Tail(s) \o t)[i] = (s \o t)[i + 1]
        <3> TAKE i \in 1 .. Len(s \o t) - 1
        <3>1. i \in 1 .. Len(s) - 1 + Len(t) /\ i + 1 \in 1 .. Len(s) + Len(t)
            BY <2>1, <2>2
        <3>2. CASE i <= Len(s) - 1
            <4>1. i \in 1 .. Len(s) - 1 /\ i + 1 <= Len(s)
                BY <2>1, <3>1, <3>2
            <4> QED
                BY <2>1, <2>2, <2>3, <3>1, <4>1
        <3>3. CASE ~(i <= Len(s) - 1)
            <4>1. ~(i + 1 <= Len(s)) /\ (i + 1) - Len(s) = i - (Len(s) - 1)
                BY <2>1, <3>1, <3>3
            <4> QED
                BY <2>2, <2>3, <3>1, <3>3, <4>1
        <3> QED
            BY <3>2, <3>3
    <2> QED
        BY <2>2, <2>3, <2>4, <2>5
<1> QED
    BY <1>1, <1>2

-----------------------------------------------------------------------------
(* The client: calls and answers.                                          *)

LEMMA CallIs ==
    ASSUME NEW c \in Client!CallRecord
    PROVE  /\ c.function \in Client!Echoed \cup Client!Registers \cup Client!Coils
           /\ c.function \in 1 .. 16
           /\ c.address \in Nat /\ c.value \in Nat /\ c.unit \in Nat /\ c.raw \in BOOLEAN
<1>1. /\ c.function \in Client!Echoed \cup Client!Registers \cup Client!Coils
      /\ c.address \in 0 .. Client!MaxWord /\ c.value \in 0 .. Client!MaxWord /\ c.unit \in 0 .. 255
      /\ c.raw \in BOOLEAN
    BY DEF Client!CallRecord
<1>2. \A m : \A w \in 0 .. m : w \in Nat
    BY SMT
<1>3. c.function \in 1 .. 16
    BY <1>1, SMT DEF Client!Echoed, Client!Registers, Client!Coils
<1>4. c.address \in Nat /\ c.value \in Nat /\ c.unit \in Nat
    BY <1>1, <1>2, Zenon
<1> QED
    BY <1>1, <1>3, <1>4

LEMMA FirstByte ==
    ASSUME NEW byte \in Nat
    PROVE  Client!Begins(byte) \in Body /\ Client!Byte(Client!Begins(byte)) = byte
<1>1. 256 * byte \in Nat /\ (256 * byte) \div 256 = byte
    BY SMT
<1> QED
    BY <1>1 DEF Client!Begins, Client!Byte, Body

LEMMA BodiesAre ==
    ASSUME NEW c \in Client!CallRecord
    PROVE  Client!RightBody(c) \in Body /\ Client!WrongBody(c) \in Body
<1>1. /\ c.function \in Client!Echoed \cup Client!Registers \cup Client!Coils
      /\ c.address \in Nat /\ c.value \in Nat
    BY CallIs
<1>2. /\ 2 * c.value \in Nat /\ (c.value + 7) \div 8 \in Nat /\ c.value + 1 \in Nat
      /\ 2 * c.value + 2 \in Nat /\ 251 \in Nat
    BY <1>1, SMT
<1>3. \A byte \in Nat : Client!Begins(byte) \in Body
    BY FirstByte
<1>4. /\ [address |-> c.address, value |-> c.value] \in Body
      /\ [address |-> c.address, value |-> c.value + 1] \in Body
    BY <1>1, <1>2 DEF Body
<1>5. Client!RightBody(c) \in Body
    BY <1>2, <1>3, <1>4 DEF Client!RightBody
<1>6. Client!WrongBody(c) \in Body
    BY <1>1, <1>2, <1>3, <1>4, Zenon DEF Client!WrongBody
<1> QED
    BY <1>5, <1>6

LEMMA FrameIs ==
    ASSUME ClientTypeInv, NEW function \in Nat, NEW body \in Body
    PROVE  LET frame == Client!Frame(function, body)
           IN  /\ frame \in AnswerFrame
               /\ frame.of = Len(asked) /\ frame.tid = msg.tid /\ frame.unit = msg.unit
               /\ frame.function = function /\ frame.body = body
               /\ frame.whole /\ frame.good
<1>1. Len(asked) \in Nat /\ msg.tid \in Nat /\ msg.unit \in Nat
    BY LenProperties DEF ClientTypeInv, HeaderFields
<1> QED
    BY <1>1 DEF Client!Frame, AnswerFrame

\* What frame says, as an answer of this kind to a call with this header.
Answers(frame, kind, c, header) ==
    /\ frame.tid = header.tid
    /\ kind # "unit" => frame.unit = header.unit
    /\ kind = "unit" => frame.unit # header.unit
    /\ kind \in {"right", "noise", "unit", "short"} =>
          frame.function = c.function /\ frame.body = Client!RightBody(c)
    /\ kind = "wrong" => frame.function = c.function /\ frame.body = Client!WrongBody(c)
    /\ kind \in {"exception", "odd"} => frame.function = c.function + 128
    /\ kind = "exception" => Client!Byte(frame.body) = 2
    /\ kind = "odd" => Client!Byte(frame.body) = 7
    /\ kind = "function" => frame.function = 7
    /\ kind # "noise" => frame.good
    /\ kind = "noise" => ~frame.good
    /\ kind # "short" => frame.whole

LEMMA AnswerIs ==
    ASSUME ClientTypeInv, NEW kind \in Client!ReplyKinds, kind # "none"
    PROVE  LET frame == Client!Answer(call, kind)
           IN  /\ frame \in AnswerFrame /\ frame.of = Len(asked)
               /\ Answers(frame, kind, call, msg)
<1>1. /\ call.function \in Nat /\ call.function + 128 \in Nat /\ 7 \in Nat
      /\ msg.unit \in Nat /\ msg.unit + 1 \in Nat /\ msg.unit + 1 # msg.unit
    <2>1. \A f \in 1 .. 16 : f \in Nat /\ f + 128 \in Nat
        BY SMT
    <2>2. msg.unit \in Nat
        BY DEF ClientTypeInv, HeaderFields
    <2>3. call.function \in 1 .. 16
        BY CallIs DEF ClientTypeInv
    <2>4. 7 \in Nat /\ msg.unit + 1 \in Nat /\ msg.unit + 1 # msg.unit
        BY <2>2
    <2> QED
        BY <2>1, <2>2, <2>3, <2>4, Zenon
<1>2. /\ Client!RightBody(call) \in Body /\ Client!WrongBody(call) \in Body
      /\ Client!Begins(2) \in Body /\ Client!Byte(Client!Begins(2)) = 2
      /\ Client!Begins(7) \in Body /\ Client!Byte(Client!Begins(7)) = 7
      /\ Client!NoBody \in Body
    BY BodiesAre, FirstByte DEF ClientTypeInv, Client!NoBody, Body
<1>3. PICK right : right = Client!Frame(call.function, Client!RightBody(call))
    OBVIOUS
<1>21. /\ right \in AnswerFrame
       /\ right.of = Len(asked) /\ right.tid = msg.tid /\ right.unit = msg.unit
       /\ right.function = call.function /\ right.body = Client!RightBody(call)
       /\ right.whole /\ right.good
    <2>1. call.function \in Nat /\ Client!RightBody(call) \in Body
        BY <1>1, <1>2, Zenon
    <2>2. right = Client!Frame(call.function, Client!RightBody(call))
        BY <1>3
    <2> QED
        BY <2>1, <2>2, FrameIs
<1>4. PICK frame : frame = Client!Answer(call, kind)
    OBVIOUS
<1> SUFFICES frame \in AnswerFrame /\ frame.of = Len(asked) /\ Answers(frame, kind, call, msg)
    BY <1>4, Zenon
<1>5. CASE kind = "right"
    BY <1>3, <1>21, <1>4, <1>5 DEF Client!Answer, Answers
<1>6. CASE kind = "exception"
    <2>1. frame = Client!Frame(call.function + 128, Client!Begins(2))
        BY <1>4, <1>6 DEF Client!Answer
    <2>2. /\ frame \in AnswerFrame
          /\ frame.of = Len(asked) /\ frame.tid = msg.tid /\ frame.unit = msg.unit
          /\ frame.function = call.function + 128 /\ Client!Byte(frame.body) = 2
          /\ frame.whole /\ frame.good
        BY <1>1, <1>2, <2>1, FrameIs
    <2> QED
        BY <1>6, <2>2, Zenon DEF Answers
<1>7. CASE kind = "odd"
    <2>1. frame = Client!Frame(call.function + 128, Client!Begins(7))
        BY <1>4, <1>7 DEF Client!Answer
    <2>2. /\ frame \in AnswerFrame
          /\ frame.of = Len(asked) /\ frame.tid = msg.tid /\ frame.unit = msg.unit
          /\ frame.function = call.function + 128 /\ Client!Byte(frame.body) = 7
          /\ frame.whole /\ frame.good
        BY <1>1, <1>2, <2>1, FrameIs
    <2> QED
        BY <1>7, <2>2, Zenon DEF Answers
<1>8. CASE kind = "wrong"
    <2>1. frame = Client!Frame(call.function, Client!WrongBody(call))
        BY <1>4, <1>8 DEF Client!Answer
    <2> QED
        BY <1>1, <1>2, <1>8, <2>1, FrameIs DEF Answers
<1>9. CASE kind = "function"
    <2>1. frame = Client!Frame(7, Client!RightBody(call))
        BY <1>4, <1>9 DEF Client!Answer
    <2> QED
        BY <1>1, <1>2, <1>9, <2>1, FrameIs DEF Answers
<1>10. CASE kind = "unit"
    <2>1. frame = [right EXCEPT !.unit = @ + 1]
        BY <1>3, <1>4, <1>10 DEF Client!Answer
    <2>2. /\ frame \in AnswerFrame /\ frame.of = right.of /\ frame.tid = right.tid
          /\ frame.unit = right.unit + 1 /\ frame.function = right.function
          /\ frame.body = right.body /\ frame.whole /\ frame.good
        BY <1>1, <1>21, <2>1 DEF AnswerFrame
    <2> QED
        BY <1>1, <1>21, <1>10, <2>2 DEF Answers
<1>11. CASE kind = "noise"
    <2>1. frame = [right EXCEPT !.good = FALSE]
        BY <1>3, <1>4, <1>11 DEF Client!Answer
    <2>2. /\ frame \in AnswerFrame /\ frame.of = right.of /\ frame.tid = right.tid
          /\ frame.unit = right.unit /\ frame.function = right.function
          /\ frame.body = right.body /\ frame.whole /\ ~frame.good
        BY <1>21, <2>1, Zenon DEF AnswerFrame
    <2> QED
        BY <1>21, <1>11, <2>2 DEF Answers
<1>12. CASE kind = "short"
    <2>1. frame = [right EXCEPT !.whole = FALSE]
        BY <1>3, <1>4, <1>12 DEF Client!Answer
    <2>2. /\ frame \in AnswerFrame /\ frame.of = right.of /\ frame.tid = right.tid
          /\ frame.unit = right.unit /\ frame.function = right.function
          /\ frame.body = right.body /\ ~frame.whole /\ frame.good
        BY <1>21, <2>1, Zenon DEF AnswerFrame
    <2> QED
        BY <1>21, <1>12, <2>2 DEF Answers
<1>13. CASE kind = "fewer"
    <2>1. frame = Client!Frame(call.function, Client!NoBody)
        BY <1>4, <1>13 DEF Client!Answer
    <2> QED
        BY <1>1, <1>2, <1>13, <2>1, FrameIs DEF Answers
<1>14. kind \in {"right", "exception", "odd", "wrong", "function", "unit", "noise", "short", "fewer"}
    BY DEF Client!ReplyKinds
<1> QED
    BY <1>5, <1>6, <1>7, <1>8, <1>9, <1>10, <1>11, <1>12, <1>13, <1>14, Zenon

-----------------------------------------------------------------------------
(* The client: every step keeps the types.                                 *)

LEMMA SetupIs ==
    ASSUME setup \in Setups
    PROVE  /\ setup.transport \in {"TCP", "RTU"} /\ setup.replies \subseteq Client!ReplyKinds
           /\ \A c \in setup.calls : c \in Client!CallRecord /\ Client!WithinLimits(c)
           /\ TidMax \in Nat /\ TidMax >= 1
BY MCClientAssumption DEF Client!NmbsClientAssumption

LEMMA ClientTypeInit == Client!Init => ClientTypeInv
<1> SUFFICES ASSUME Client!Init PROVE ClientTypeInv
    OBVIOUS
<1>1. Client!NoCall \in Client!CallRecord /\ Client!WithinLimits(Client!NoCall)
    <2>1. 5 \in Client!Echoed /\ 5 \notin Client!Registers /\ 5 \notin Client!Coils
        BY DEF Client!Echoed, Client!Registers, Client!Coils
    <2>2. 0 \in 0 .. Client!MaxWord /\ 0 \in 0 .. 255
        BY SMT DEF Client!MaxWord
    <2> QED
        BY <2>1, <2>2, Zenon DEF Client!NoCall, Client!CallRecord, Client!WithinLimits
<1>2. Client!Blank \in HeaderFields /\ Client!NoBody \in Body
    BY DEF Client!Blank, Client!NoBody, HeaderFields, Body
<1>3. Client!NoFrame \in AnswerFrame
    BY <1>2 DEF Client!NoFrame, AnswerFrame
<1>4. << >> \in Seq(AnswerPart) /\ << >> \in Seq(Client!CallRecord)
    BY Zenon, EmptySeq
<1>5. "idle" \in ClientStates /\ 0 \in Nat /\ TRUE \in BOOLEAN
    BY DEF ClientStates
<1> QED
    BY <1>1, <1>2, <1>3, <1>4, <1>5, Zenon DEF Client!Init, ClientTypeInv

LEMMA PartsAre ==
    ASSUME NEW frame \in AnswerFrame
    PROVE  /\ Client!Parts(frame) \in Seq(AnswerPart) /\ Len(Client!Parts(frame)) \in 1 .. 3
           /\ Client!Parts(frame)[1] = Client!Part("header", frame)
           /\ \A i \in 1 .. Len(Client!Parts(frame)) :
                 /\ Client!Parts(frame)[i].frame = frame
                 /\ Client!Parts(frame)[i].part = "header" => i = 1
<1>1. \A name \in {"header", "body", "crc"} :
         /\ Client!Part(name, frame) \in AnswerPart
         /\ Client!Part(name, frame).part = name /\ Client!Part(name, frame).frame = frame
    BY DEF Client!Part, AnswerPart
<1>2. PICK h, b, c \in AnswerPart :
         /\ h = Client!Part("header", frame) /\ b = Client!Part("body", frame) /\ c = Client!Part("crc", frame)
         /\ h.frame = frame /\ b.frame = frame /\ c.frame = frame
         /\ h.part = "header" /\ b.part = "body" /\ c.part = "crc"
    BY <1>1
<1>3. Client!Parts(frame) \in {<<h, b, c>>, <<h, b>>, <<h>>}
    BY <1>2 DEF Client!Parts
<1>4. CASE Client!Parts(frame) = <<h, b, c>>
    BY <1>2, <1>4
<1>5. CASE Client!Parts(frame) = <<h, b>>
    BY <1>2, <1>5
<1>6. CASE Client!Parts(frame) = <<h>>
    BY <1>2, <1>6
<1> QED
    BY <1>3, <1>4, <1>5, <1>6

\* What is to be read stays the same, loses its first part, or is more.
LEMMA WaitingIs ==
    ASSUME ClientTypeInv
    PROVE  /\ Waiting \in Seq(AnswerPart) /\ Len(Waiting) \in Nat
           /\ inbox # << >> => Len(Waiting) >= 1 /\ Waiting[1] = Head(inbox) /\ Head(inbox) \in AnswerPart
           /\ inbox = << >> /\ air = << >> => Waiting = << >>
           /\ \A i \in 1 .. Len(Waiting) : Waiting[i] \in AnswerPart
<1>1. inbox \in Seq(AnswerPart) /\ air \in Seq(AnswerPart)
    BY DEF ClientTypeInv
<1>2. Waiting \in Seq(AnswerPart) /\ Len(Waiting) \in Nat
    BY <1>1, ConcatIs, LenProperties DEF Waiting
<1>3. inbox # << >> => Len(Waiting) >= 1 /\ Waiting[1] = Head(inbox) /\ Head(inbox) \in AnswerPart
    BY <1>1, LineMoves, HeadTailProperties DEF Waiting
<1>4. inbox = << >> /\ air = << >> => Waiting = << >>
    BY <1>1, ConcatEmptySeq DEF Waiting
<1>5. \A i \in 1 .. Len(Waiting) : Waiting[i] \in AnswerPart
    BY <1>2, ElementOfSeq
<1> QED
    BY <1>2, <1>3, <1>4, <1>5

LEMMA ClientArrives ==
    ASSUME ClientTypeInv, Client!Arrive
    PROVE  /\ Waiting' = Waiting /\ inbox' \in Seq(AnswerPart) /\ air' \in Seq(AnswerPart)
           /\ UNCHANGED <<setup, clientPc, call, current_tid, msg, want, buf, got, result,
                          asked, took, quiet, reply>>
<1>1. inbox \in Seq(AnswerPart) /\ air \in Seq(AnswerPart) /\ air # << >>
      /\ inbox' = Append(inbox, Head(air)) /\ air' = Tail(air)
    BY DEF ClientTypeInv, Client!Arrive
<1>2. Head(air) \in AnswerPart /\ Tail(air) \in Seq(AnswerPart)
    BY <1>1, HeadTailProperties
<1>3. inbox' \in Seq(AnswerPart) /\ air' \in Seq(AnswerPart)
    BY <1>1, <1>2, AppendProperties
<1>4. Waiting' = Waiting
    BY <1>1, LineMoves DEF Waiting
<1> QED
    BY <1>3, <1>4 DEF Client!Arrive, Client!history

\* The first part is read.
LEMMA ClientTakes ==
    ASSUME ClientTypeInv, inbox # << >>, inbox' = Tail(inbox), air' = air
    PROVE  /\ inbox' \in Seq(AnswerPart) /\ air' \in Seq(AnswerPart)
           /\ Len(Waiting') = Len(Waiting) - 1
           /\ \A i \in 1 .. Len(Waiting') : i + 1 \in 1 .. Len(Waiting) /\ Waiting'[i] = Waiting[i + 1]
<1>1. inbox \in Seq(AnswerPart) /\ air \in Seq(AnswerPart)
    BY DEF ClientTypeInv
<1>2. /\ Len(Waiting') = Len(Waiting) - 1
      /\ \A i \in 1 .. Len(Waiting) - 1 : Waiting'[i] = Waiting[i + 1]
    BY <1>1, LineMoves DEF Waiting
<1>3. inbox' \in Seq(AnswerPart)
    BY <1>1, HeadTailProperties
<1>4. Len(Waiting) \in Nat
    BY WaitingIs
<1>5. \A i \in 1 .. Len(Waiting) - 1 : i + 1 \in 1 .. Len(Waiting)
    BY <1>4
<1> QED
    BY <1>1, <1>2, <1>3, <1>5

LEMMA BeginTypes ==
    ASSUME ClientTypeInv, NEW c \in setup.calls, Client!Begin(c)
    PROVE  /\ ClientTypeInv' /\ c \in Client!CallRecord
           /\ current_tid' \in 1 .. current_tid + 1 /\ Len(asked') = Len(asked) + 1
           /\ Len(asked') \in Nat /\ asked'[Len(asked')] = c
           /\ \A i \in 1 .. Len(asked) : asked'[i] = asked[i]
           /\ Len(Waiting') \in Nat
           /\ \A i \in 1 .. Len(Waiting') :
                 /\ Len(inbox) + i \in 1 .. Len(Waiting) /\ Waiting'[i] = Waiting[Len(inbox) + i]
                 /\ Len(asked) + 1 - Waiting'[i].frame.of < TidMax
<1>1. c \in Client!CallRecord /\ Client!WithinLimits(c) /\ TidMax \in Nat
    BY SetupIs DEF ClientTypeInv
<1>2. /\ inbox \in Seq(AnswerPart) /\ air \in Seq(AnswerPart) /\ asked \in Seq(Client!CallRecord)
      /\ current_tid \in Nat
    BY DEF ClientTypeInv
<1>3. /\ call' = c /\ current_tid' = Client!NextTid /\ inbox' = << >> /\ air' = air
      /\ msg' = [unit |-> c.unit, function |-> c.function, tid |-> Client!NextTid]
      /\ buf' = [address |-> c.address, value |-> c.value]
      /\ clientPc' = "send" /\ asked' = Append(asked, c) /\ took' = Client!NoFrame
      /\ quiet' = (air = << >>) /\ UNCHANGED <<setup, want, got>>
      /\ \A i \in DOMAIN air : Len(asked) + 1 - air[i].frame.of < TidMax
    BY DEF Client!Begin, Client!Flushed, Client!LineForgets
<1>4. Client!NextTid \in 1 .. current_tid + 1 /\ Client!NextTid \in Nat
    BY <1>2 DEF Client!NextTid
<1>5. /\ Len(asked') = Len(asked) + 1 /\ Len(asked') \in Nat /\ asked' \in Seq(Client!CallRecord)
      /\ asked'[Len(asked')] = c /\ \A i \in 1 .. Len(asked) : asked'[i] = asked[i]
    BY <1>1, <1>2, <1>3, AppendIs
<1>6. ClientTypeInv'
    <2>1. msg' \in HeaderFields /\ buf' \in Body
        <3>1. c.address \in Nat /\ c.value \in Nat /\ c.unit \in Nat /\ c.function \in Nat
            BY <1>1, CallIs
        <3> QED
            BY <1>3, <1>4, <3>1 DEF HeaderFields, Body
    <2>2. took' \in AnswerFrame
        BY <1>3 DEF Client!NoFrame, AnswerFrame, Body, Client!NoBody
    <2>3. inbox' \in Seq(AnswerPart) /\ air' \in Seq(AnswerPart)
        BY <1>2, <1>3, EmptySeq
    <2>4. clientPc' \in ClientStates /\ quiet' \in BOOLEAN
        BY <1>3, Zenon DEF ClientStates
    <2> QED
        BY <1>1, <1>3, <1>4, <1>5, <2>1, <2>2, <2>3, <2>4, Zenon DEF ClientTypeInv
<1>7. Waiting' = air
    BY <1>2, <1>3, ConcatEmptySeq DEF Waiting
<1>8. /\ Len(air) \in Nat /\ DOMAIN air = 1 .. Len(air) /\ Len(inbox) \in Nat
      /\ Len(Waiting) = Len(inbox) + Len(air)
      /\ \A i \in 1 .. Len(air) : Waiting[Len(inbox) + i] = air[i]
    BY <1>2, ConcatIs, LenProperties DEF Waiting
<1>9. \A i \in 1 .. Len(air) : Len(inbox) + i \in 1 .. Len(Waiting)
    BY <1>8
<1> QED
    BY <1>1, <1>3, <1>4, <1>5, <1>6, <1>7, <1>8, <1>9

\* What Send does beside the line.
LEMMA SendIs ==
    ASSUME ClientTypeInv, Client!Send
    PROVE  /\ clientPc = "send" /\ want' = msg /\ clientPc' \in {"idle", "header"}
           /\ UNCHANGED <<setup, call, current_tid, msg, buf, got, inbox, asked, took, quiet>>
           /\ \/ air' = air /\ reply' = "none"
              \/ /\ air' = air /\ clientPc' = "idle"
                 /\ result' \in {Client!NMBS_ERROR_TRANSPORT, Client!NMBS_ERROR_TIMEOUT}
              \/ /\ reply' \in setup.replies /\ reply' # "none"
                 /\ air' = air \o Client!Parts(Client!Answer(call, reply'))
                 /\ reply' = "short" => setup.transport = "TCP"
           /\ clientPc' = "idle" => \/ result' \in {Client!NMBS_ERROR_TRANSPORT, Client!NMBS_ERROR_TIMEOUT}
                                    \/ call.raw \/ (Client!Broadcast /\ call.function \in Client!Echoed)
<1>1. /\ clientPc = "send" /\ want' = msg
      /\ UNCHANGED <<setup, call, current_tid, msg, buf, got, inbox, asked, took, quiet>>
    BY DEF Client!Send
<1>2. CASE \E error \in {Client!NMBS_ERROR_TRANSPORT, Client!NMBS_ERROR_TIMEOUT} :
               clientPc' = "idle" /\ result' = error /\ UNCHANGED <<reply, air>>
    BY <1>1, <1>2
<1>3. CASE /\ \E kind \in setup.replies :
                /\ kind = "short" => Client!Transport = "TCP"
                /\ reply' = kind
                /\ air' = IF kind = "none" THEN air ELSE air \o Client!Parts(Client!Answer(call, kind))
           /\ \/ clientPc' = "idle" /\ (call.raw \/ (Client!Broadcast /\ call.function \in Client!Echoed))
              \/ clientPc' = "header"
    <2>1. PICK kind \in setup.replies :
             /\ kind = "short" => Client!Transport = "TCP"
             /\ reply' = kind
             /\ air' = IF kind = "none" THEN air ELSE air \o Client!Parts(Client!Answer(call, kind))
        BY <1>3
    <2> DEFINE parts == Client!Parts(Client!Answer(call, kind))
    <2>2. CASE kind = "none"
        <3>1. air' = air /\ reply' = "none"
            BY <2>1, <2>2
        <3>2. \/ clientPc' = "idle" /\ (call.raw \/ (Client!Broadcast /\ call.function \in Client!Echoed))
              \/ clientPc' = "header"
            BY <1>3
        <3> QED
            BY <1>1, <3>1, <3>2
    <2>3. CASE kind # "none"
        <3>1. air' = air \o Client!Parts(Client!Answer(call, reply'))
            BY <2>1, <2>3
        <3> QED
            BY <1>1, <1>3, <2>1, <2>3, <3>1, Zenon DEF Client!Transport
    <2> QED
        BY <2>2, <2>3
<1>4. \/ \E error \in {Client!NMBS_ERROR_TRANSPORT, Client!NMBS_ERROR_TIMEOUT} :
               clientPc' = "idle" /\ result' = error /\ UNCHANGED <<reply, air>>
      \/ /\ \E kind \in setup.replies :
                /\ kind = "short" => Client!Transport = "TCP"
                /\ reply' = kind
                /\ air' = IF kind = "none" THEN air ELSE air \o Client!Parts(Client!Answer(call, kind))
         /\ \/ clientPc' = "idle" /\ (call.raw \/ (Client!Broadcast /\ call.function \in Client!Echoed))
            \/ clientPc' = "header"
    BY DEF Client!Send, Client!Return
<1> QED
    BY <1>2, <1>3, <1>4

LEMMA SendTypes ==
    ASSUME ClientTypeInv, Client!Send
    PROVE  /\ ClientTypeInv'
           /\ \/ Waiting' = Waiting /\ (reply' = "none" \/ clientPc' = "idle")
              \/ \E frame \in AnswerFrame :
                    /\ reply' \in setup.replies /\ reply' # "none"
                    /\ frame.of = Len(asked) /\ Answers(frame, reply', call, msg)
                    /\ Waiting' = Waiting \o Client!Parts(frame)
<1>1. inbox \in Seq(AnswerPart) /\ air \in Seq(AnswerPart)
    BY DEF ClientTypeInv
<1>2. ASSUME air' \in Seq(AnswerPart) PROVE ClientTypeInv'
    <2>1. clientPc' \in ClientStates
        BY SendIs DEF ClientStates
    <2> QED
        BY <1>2, <2>1, SendIs, Zenon DEF ClientTypeInv
<1>3. CASE air' = air /\ (reply' = "none" \/ clientPc' = "idle")
    <2>1. Waiting' = Waiting
        BY <1>3, SendIs DEF Waiting
    <2> QED
        BY <1>1, <1>2, <1>3, <2>1
<1>4. CASE /\ reply' \in setup.replies /\ reply' # "none"
           /\ air' = air \o Client!Parts(Client!Answer(call, reply'))
    <2>1. reply' \in Client!ReplyKinds
        BY <1>4, SetupIs DEF ClientTypeInv
    <2>2. PICK frame \in AnswerFrame :
             /\ frame.of = Len(asked) /\ Answers(frame, reply', call, msg)
             /\ frame = Client!Answer(call, reply')
        BY <1>4, <2>1, AnswerIs
    <2>3. Client!Parts(frame) \in Seq(AnswerPart)
        BY PartsAre
    <2>4. air' \in Seq(AnswerPart)
        BY <1>1, <1>4, <2>2, <2>3, ConcatProperties
    <2>5. Waiting' = Waiting \o Client!Parts(frame)
        <3>1. inbox' = inbox /\ air' = air \o Client!Parts(frame)
            BY <1>4, <2>2, SendIs
        <3>2. (inbox \o air) \o Client!Parts(frame) = inbox \o (air \o Client!Parts(frame))
            BY <1>1, <2>3, ConcatAssociative
        <3> QED
            BY <3>1, <3>2 DEF Waiting
    <2> QED
        BY <1>2, <1>4, <2>2, <2>4, <2>5
<1> QED
    BY <1>3, <1>4, SendIs

LEMMA ReceiveRawTypes ==
    ASSUME ClientTypeInv, Client!ReceiveRaw
    PROVE  ClientTypeInv' /\ Waiting' = Waiting
<1>1. took' \in AnswerFrame
    BY DEF Client!ReceiveRaw, Client!NoFrame, AnswerFrame, Body, Client!NoBody
<1>2. clientPc' \in ClientStates
    BY DEF Client!ReceiveRaw, ClientStates
<1> QED
    BY <1>1, <1>2, Zenon DEF Client!ReceiveRaw, ClientTypeInv, Waiting

\* The parts are those of the line from the one after d on.
After(parts, line, d) ==
    \A i \in 1 .. Len(parts) : i + d \in 1 .. Len(line) /\ parts[i] = line[i + d]

LEMMA JudgeIs ==
    ASSUME NEW frame, Client!Judge(frame)
    PROVE  \/ clientPc' \in {"body", "exception"} /\ clientPc' = Client!Verdict(frame)
           \/ /\ clientPc' = "idle" /\ result' = Client!Verdict(frame)
              /\ Client!Verdict(frame) \notin {"body", "exception"}
BY DEF Client!Judge, Client!Return

LEMMA ReadHeaderIs ==
    ASSUME ClientTypeInv, Client!ReadHeader
    PROVE  /\ clientPc = "header" /\ After(Waiting', Waiting, 1)
           /\ Len(Waiting) >= 1 /\ Waiting[1] \in AnswerPart
           /\ inbox' \in Seq(AnswerPart) /\ air' \in Seq(AnswerPart)
           /\ UNCHANGED <<setup, call, current_tid, want, buf, asked, took, quiet, reply>>
           /\ \/ /\ Waiting[1].part = "header" /\ got' = Waiting[1].frame
                 /\ msg' = Client!HeaderOf(got')
                 /\ \/ Client!Transport = "TCP" /\ clientPc' = "rest"
                    \/ Client!Transport # "TCP" /\ Client!Judge(got')
              \/ /\ Waiting[1].part # "header" /\ got' = got /\ msg' = Client!Blank
                 /\ clientPc' = "idle"
<1>1. /\ clientPc = "header" /\ inbox # << >> /\ inbox' = Tail(inbox) /\ air' = air
      /\ UNCHANGED <<setup, call, current_tid, want, buf, asked, took, quiet, reply>>
    BY DEF Client!ReadHeader, Client!history
<1>2. /\ inbox' \in Seq(AnswerPart) /\ air' \in Seq(AnswerPart) /\ After(Waiting', Waiting, 1)
    BY <1>1, ClientTakes DEF After
<1>3. /\ Len(Waiting) >= 1 /\ Waiting[1] \in AnswerPart /\ Waiting[1] = Head(inbox)
    BY <1>1, WaitingIs
<1>4. \/ /\ Waiting[1].part = "header" /\ got' = Waiting[1].frame
         /\ msg' = Client!HeaderOf(got')
         /\ \/ Client!Transport = "TCP" /\ clientPc' = "rest"
            \/ Client!Transport # "TCP" /\ Client!Judge(got')
      \/ /\ Waiting[1].part # "header" /\ got' = got /\ msg' = Client!Blank
         /\ clientPc' = "idle"
    BY <1>3 DEF Client!ReadHeader, Client!Next1, Client!Return
<1> QED
    BY <1>1, <1>2, <1>3, <1>4

LEMMA ReadRestIs ==
    ASSUME ClientTypeInv, Client!ReadRest
    PROVE  /\ clientPc = "rest"
           /\ \/ After(Waiting', Waiting, 1) /\ got.whole /\ buf' = got.body
              \/ Waiting' = Waiting /\ ~got.whole /\ buf' = buf
           /\ Client!Judge(got)
           /\ inbox' \in Seq(AnswerPart) /\ air' \in Seq(AnswerPart)
           /\ UNCHANGED <<setup, call, current_tid, msg, want, got, asked, took, quiet, reply>>
<1>1. /\ clientPc = "rest" /\ Client!Judge(got) /\ air' = air
      /\ UNCHANGED <<setup, call, current_tid, msg, want, got, asked, took, quiet, reply>>
    BY DEF Client!ReadRest, Client!history
<1>2. CASE got.whole
    <2>1. inbox # << >> /\ inbox' = Tail(inbox) /\ buf' = got.body
        BY <1>2 DEF Client!ReadRest
    <2>2. inbox' \in Seq(AnswerPart) /\ air' \in Seq(AnswerPart) /\ After(Waiting', Waiting, 1)
        BY <1>1, <2>1, ClientTakes DEF After
    <2> QED
        BY <1>1, <1>2, <2>1, <2>2
<1>3. CASE ~got.whole
    <2>1. inbox' = inbox /\ buf' = buf
        BY <1>3 DEF Client!ReadRest
    <2> QED
        BY <1>1, <1>3, <2>1 DEF ClientTypeInv, Waiting
<1> QED
    BY <1>2, <1>3

LEMMA EndBodyIs ==
    ASSUME NEW body, Client!EndBody(body)
    PROVE  /\ clientPc' = "idle" /\ UNCHANGED <<setup, asked, quiet, reply>>
           /\ \/ /\ Client!EchoFits(body) /\ took' = got /\ result' = Client!NMBS_ERROR_NONE
              \/ /\ ~Client!EchoFits(body) /\ took' = took
                 /\ result' = Client!NMBS_ERROR_INVALID_RESPONSE
BY DEF Client!EndBody, Client!Accept, Client!Reject, Client!Return, Client!history

LEMMA EndExceptionIs ==
    ASSUME NEW body, Client!EndException(body)
    PROVE  /\ clientPc' = "idle" /\ UNCHANGED <<setup, asked, quiet, reply>>
           /\ \/ /\ Client!Byte(body) \in 1 .. 4 /\ took' = got
                 /\ result' = Client!ExceptionNames[Client!Byte(body)]
              \/ /\ Client!Byte(body) \notin 1 .. 4 /\ took' = took
                 /\ result' = Client!NMBS_ERROR_INVALID_RESPONSE
BY DEF Client!EndException, Client!Accept, Client!Reject, Client!Return, Client!history

LEMMA ReadBodyTcpIs ==
    ASSUME Client!ReadBodyTcp
    PROVE  /\ Client!Transport = "TCP" /\ clientPc' = "idle" /\ Waiting' = Waiting
           /\ \/ clientPc = "body" /\ Client!BodyFits(buf) /\ Client!EndBody(buf)
              \/ /\ clientPc = "body" /\ ~Client!BodyFits(buf) /\ took' = took
                 /\ result' = Client!NMBS_ERROR_INVALID_RESPONSE
              \/ clientPc = "exception" /\ Client!EndException(buf)
           /\ UNCHANGED <<call, current_tid, msg, want, buf, got, air, inbox, setup, asked, quiet, reply>>
<1>1. /\ Client!Transport = "TCP"
      /\ UNCHANGED <<call, current_tid, msg, want, buf, got, air, inbox>> /\ Waiting' = Waiting
    BY DEF Client!ReadBodyTcp, Waiting
<1>2. CASE clientPc = "body" /\ Client!BodyFits(buf) /\ Client!EndBody(buf)
    BY <1>1, <1>2, EndBodyIs
<1>3. CASE clientPc = "body" /\ ~Client!BodyFits(buf) /\ Client!Reject(Client!NMBS_ERROR_INVALID_RESPONSE)
    BY <1>1, <1>3 DEF Client!Reject, Client!Return, Client!history
<1>4. CASE clientPc = "exception" /\ Client!EndException(buf)
    BY <1>1, <1>4, EndExceptionIs
<1> QED
    BY <1>2, <1>3, <1>4 DEF Client!ReadBodyTcp

LEMMA ReadBodyRtuIs ==
    ASSUME ClientTypeInv, Client!ReadBodyRtu
    PROVE  /\ Client!Transport = "RTU" /\ After(Waiting', Waiting, 1) /\ buf' = got.body
           /\ inbox' \in Seq(AnswerPart) /\ air' \in Seq(AnswerPart)
           /\ \/ clientPc = "body" /\ Client!BodyFits(got.body) /\ clientPc' = "crc"
              \/ /\ clientPc = "body" /\ ~Client!BodyFits(got.body) /\ clientPc' = "idle"
                 /\ result' = Client!NMBS_ERROR_INVALID_RESPONSE
              \/ clientPc = "exception" /\ clientPc' = "exception_crc"
           /\ UNCHANGED <<call, current_tid, msg, want, got, setup, asked, took, quiet, reply>>
<1>1. /\ Client!Transport = "RTU" /\ buf' = got.body
      /\ inbox # << >> /\ inbox' = Tail(inbox) /\ air' = air
      /\ UNCHANGED <<call, current_tid, msg, want, got, setup, asked, took, quiet, reply>>
    BY DEF Client!ReadBodyRtu, Client!history
<1>2. inbox' \in Seq(AnswerPart) /\ air' \in Seq(AnswerPart) /\ After(Waiting', Waiting, 1)
    BY <1>1, ClientTakes DEF After
<1>3. \/ clientPc = "body" /\ Client!BodyFits(got.body) /\ clientPc' = "crc"
      \/ /\ clientPc = "body" /\ ~Client!BodyFits(got.body) /\ clientPc' = "idle"
         /\ result' = Client!NMBS_ERROR_INVALID_RESPONSE
      \/ clientPc = "exception" /\ clientPc' = "exception_crc"
    BY DEF Client!ReadBodyRtu, Client!Return
<1> QED
    BY <1>1, <1>2, <1>3

LEMMA ReadFooterIs ==
    ASSUME ClientTypeInv, Client!ReadFooter
    PROVE  /\ clientPc' = "idle" /\ After(Waiting', Waiting, 1)
           /\ inbox' \in Seq(AnswerPart) /\ air' \in Seq(AnswerPart)
           /\ \/ /\ clientPc \in {"crc", "exception_crc"} /\ ~got.good /\ took' = took
                 /\ result' = Client!NMBS_ERROR_CRC
              \/ clientPc = "crc" /\ got.good /\ Client!EndBody(buf)
              \/ clientPc = "exception_crc" /\ got.good /\ Client!EndException(buf)
           /\ UNCHANGED <<call, current_tid, msg, want, buf, got, setup, asked, quiet, reply>>
<1>1. /\ clientPc \in {"crc", "exception_crc"} /\ inbox # << >> /\ inbox' = Tail(inbox)
      /\ UNCHANGED <<call, current_tid, msg, want, buf, got, air>>
    BY DEF Client!ReadFooter
<1>2. inbox' \in Seq(AnswerPart) /\ air' \in Seq(AnswerPart) /\ After(Waiting', Waiting, 1)
    BY <1>1, ClientTakes DEF After
<1>3. CASE ~got.good /\ Client!Reject(Client!NMBS_ERROR_CRC)
    BY <1>1, <1>2, <1>3 DEF Client!Reject, Client!Return, Client!history
<1>4. CASE clientPc = "crc" /\ got.good /\ Client!EndBody(buf)
    BY <1>1, <1>2, <1>4, EndBodyIs
<1>5. CASE clientPc = "exception_crc" /\ got.good /\ Client!EndException(buf)
    BY <1>1, <1>2, <1>5, EndExceptionIs
<1> QED
    BY <1>1, <1>3, <1>4, <1>5 DEF Client!ReadFooter

LEMMA TimeOutIs ==
    ASSUME Client!TimeOut
    PROVE  /\ clientPc \notin {"idle", "send"} /\ clientPc' = "idle" /\ Waiting' = Waiting
           /\ result' = Client!NMBS_ERROR_TIMEOUT
           /\ msg' = msg \/ (clientPc = "header" /\ msg' = Client!Blank)
           /\ UNCHANGED <<call, current_tid, want, buf, got, air, inbox, setup, asked, took, quiet, reply>>
BY DEF Client!TimeOut, Client!Return, Client!history, Waiting

LEMMA ReceiveTypes == ASSUME ClientTypeInv, Client!Receive PROVE ClientTypeInv'
<1>1. /\ \A frame \in AnswerFrame : frame.body \in Body /\ Client!HeaderOf(frame) \in HeaderFields
      /\ Client!Blank \in HeaderFields /\ \A part \in AnswerPart : part.frame \in AnswerFrame
    BY DEF AnswerFrame, AnswerPart, Client!HeaderOf, Client!Blank, HeaderFields
<1>2. {"idle", "rest", "body", "exception", "crc", "exception_crc"} \subseteq ClientStates
    BY DEF ClientStates
<1>3. CASE Client!ReadHeader
    <2>1. clientPc' \in ClientStates
        BY <1>2, <1>3, ReadHeaderIs, JudgeIs
    <2>2. got' \in AnswerFrame /\ msg' \in HeaderFields
        BY <1>1, <1>3, ReadHeaderIs DEF ClientTypeInv
    <2> QED
        BY <1>3, <2>1, <2>2, ReadHeaderIs DEF ClientTypeInv
<1>4. CASE Client!ReadRest
    <2>1. clientPc' \in ClientStates
        BY <1>2, <1>4, ReadRestIs, JudgeIs
    <2>2. buf' \in Body
        BY <1>1, <1>4, ReadRestIs DEF ClientTypeInv
    <2> QED
        BY <1>4, <2>1, <2>2, ReadRestIs DEF ClientTypeInv
<1>5. CASE Client!ReadBodyTcp
    <2>1. took' \in AnswerFrame
        BY <1>5, ReadBodyTcpIs, EndBodyIs, EndExceptionIs DEF ClientTypeInv
    <2> QED
        BY <1>2, <1>5, <2>1, ReadBodyTcpIs DEF ClientTypeInv
<1>6. CASE Client!ReadBodyRtu
    <2>1. clientPc' \in ClientStates /\ buf' \in Body
        BY <1>1, <1>2, <1>6, ReadBodyRtuIs DEF ClientTypeInv
    <2> QED
        BY <1>6, <2>1, ReadBodyRtuIs DEF ClientTypeInv
<1>7. CASE Client!ReadFooter
    <2>1. took' \in AnswerFrame
        BY <1>7, ReadFooterIs, EndBodyIs, EndExceptionIs DEF ClientTypeInv
    <2> QED
        BY <1>2, <1>7, <2>1, ReadFooterIs DEF ClientTypeInv
<1>8. CASE Client!TimeOut
    BY <1>1, <1>2, <1>8, TimeOutIs DEF ClientTypeInv
<1> QED
    BY <1>3, <1>4, <1>5, <1>6, <1>7, <1>8 DEF Client!Receive

LEMMA ClientStutters ==
    ASSUME UNCHANGED Client!vars
    PROVE  /\ Waiting' = Waiting
           /\ UNCHANGED <<setup, clientPc, call, current_tid, msg, want, buf, got, result,
                          air, inbox, asked, took, quiet, reply>>
BY DEF Client!vars, Waiting

LEMMA ClientTypeStep == ClientTypeInv /\ [Client!Next]_(Client!vars) => ClientTypeInv'
<1> SUFFICES ASSUME ClientTypeInv, [Client!Next]_(Client!vars) PROVE ClientTypeInv'
    OBVIOUS
<1>1. CASE UNCHANGED Client!vars
    BY <1>1, ClientStutters DEF ClientTypeInv
<1>2. CASE Client!Arrive
    BY <1>2, ClientArrives DEF ClientTypeInv
<1>3. CASE Client!Next /\ ~Client!Arrive
    BY <1>3, BeginTypes, SendTypes, ReceiveRawTypes, ReceiveTypes DEF Client!Next
<1> QED
    BY <1>1, <1>2, <1>3

-----------------------------------------------------------------------------
(* Over TCP: whose answers wait to be read.                                *)

\* An answer is that of an earlier call whose transaction id is not in use
\* again, if it is of the n-th call at the latest, which has this id.
Fresh(frame, n, id) ==
    /\ frame.of \in 1 .. n /\ n - frame.of < TidMax
    /\ frame.tid \in 1 .. TidMax
    /\ frame.tid + (n - frame.of) \in {id, id + TidMax}

Starts(line, i) == line[i].part = "header"

\* The answers are fresh, and in the order of their calls.
FreshLine(line, n, id) ==
    /\ \A i \in 1 .. Len(line) : Fresh(line[i].frame, n, id)
    /\ \A i, j \in 1 .. Len(line) :
          i < j /\ Starts(line, i) /\ Starts(line, j) => line[i].frame.of < line[j].frame.of

\* An answer with this transaction id is that of the n-th call.
Names(line, id, n) ==
    \A i \in 1 .. Len(line) : Starts(line, i) /\ line[i].frame.tid = id => line[i].frame.of = n

Before(line, n) == \A i \in 1 .. Len(line) : line[i].frame.of < n

TcpInv ==
    setup.transport = "TCP" =>
        /\ FreshLine(Waiting, Len(asked), current_tid)
        /\ Names(Waiting, msg.tid, Len(asked))
        /\ clientPc = "send" => msg.tid = current_tid /\ Before(Waiting, Len(asked))
                                /\ current_tid \in 1 .. TidMax /\ Len(asked) >= 1
        /\ clientPc \notin {"idle", "send"} => Names(Waiting, want.tid, Len(asked))
        /\ clientPc = "rest" /\ got.tid = want.tid => got.of = Len(asked)
        /\ clientPc \in {"body", "exception"} => got.of = Len(asked)
        /\ clientPc \notin {"crc", "exception_crc"}
        /\ took # Client!NoFrame => took.of = Len(asked)
        /\ current_tid \in 0 .. TidMax

LEMMA LaterLine ==
    ASSUME NEW line \in Seq(AnswerPart), NEW parts \in Seq(AnswerPart), NEW d \in Nat,
           After(parts, line, d), NEW n, NEW id, NEW number
    PROVE  /\ FreshLine(line, n, id) => FreshLine(parts, n, id)
           /\ Names(line, number, n) => Names(parts, number, n)
           /\ Before(line, n) => Before(parts, n)
<1>1. Len(line) \in Nat /\ Len(parts) \in Nat
    BY LenProperties
<1>2. ASSUME FreshLine(line, n, id) PROVE FreshLine(parts, n, id)
    <2>1. ASSUME NEW i \in 1 .. Len(parts), NEW j \in 1 .. Len(parts), i < j,
                 Starts(parts, i), Starts(parts, j)
          PROVE  parts[i].frame.of < parts[j].frame.of
        <3>1. /\ i + d \in 1 .. Len(line) /\ parts[i] = line[i + d]
              /\ j + d \in 1 .. Len(line) /\ parts[j] = line[j + d]
            BY DEF After
        <3>2. i + d < j + d
            BY <1>1, <2>1
        <3> QED
            BY <1>2, <2>1, <3>1, <3>2 DEF FreshLine, Starts
    <2>2. \A i \in 1 .. Len(parts) : Fresh(parts[i].frame, n, id)
        BY <1>2 DEF After, FreshLine
    <2> QED
        BY <2>1, <2>2 DEF FreshLine
<1>3. Names(line, number, n) => Names(parts, number, n)
    BY DEF After, Names, Starts
<1>4. Before(line, n) => Before(parts, n)
    BY DEF After, Before
<1> QED
    BY <1>2, <1>3, <1>4

\* One more call: the answers are of earlier ones, and its id is its own.
LEMMA FreshBegin ==
    ASSUME NEW frame \in AnswerFrame, NEW n \in Nat, NEW id \in 0 .. TidMax,
           TidMax \in Nat, TidMax >= 1,
           Fresh(frame, n, id), n + 1 - frame.of < TidMax
    PROVE  LET next == IF id = TidMax THEN 1 ELSE id + 1
           IN  Fresh(frame, n + 1, next) /\ frame.tid # next /\ frame.of < n + 1
<1>1. PICK k \in Nat, t \in 1 .. TidMax, of \in 1 .. n :
         k = n - of /\ t = frame.tid /\ of = frame.of /\ k + 1 < TidMax /\ t + k \in {id, id + TidMax}
    BY DEF Fresh
<1> DEFINE next == IF id = TidMax THEN 1 ELSE id + 1
<1>2. next \in 1 .. TidMax
    OBVIOUS
<1>3. t + (k + 1) \in {next, next + TidMax}
    BY <1>1
<1>4. t # next
    BY <1>1, <1>2, <1>3
<1>5. of \in 1 .. n + 1 /\ (n + 1) - of = k + 1 /\ of < n + 1
    BY <1>1
<1> QED
    BY <1>1, <1>3, <1>4, <1>5 DEF Fresh

LEMMA SameId ==
    ASSUME NEW one \in AnswerFrame, NEW two \in AnswerFrame, NEW n \in Nat, NEW id \in 0 .. TidMax,
           TidMax \in Nat, Fresh(one, n, id), Fresh(two, n, id), one.tid = two.tid
    PROVE  one.of = two.of
<1>1. PICK k \in Nat, l \in Nat, t \in Nat :
         /\ k = n - one.of /\ l = n - two.of /\ t = one.tid /\ k < TidMax /\ l < TidMax
         /\ t + k \in {id, id + TidMax} /\ t + l \in {id, id + TidMax}
    BY DEF Fresh
<1>2. k = l
    BY <1>1
<1> QED
    BY <1>1, <1>2 DEF AnswerFrame

LEMMA MoreLine ==
    ASSUME NEW line \in Seq(AnswerPart), NEW frame \in AnswerFrame, NEW n \in Nat, NEW id \in Nat,
           FreshLine(line, n, id), Fresh(frame, n, id), Before(line, n), frame.of = n,
           NEW number, Names(line, number, n)
    PROVE  /\ FreshLine(line \o Client!Parts(frame), n, id)
           /\ Names(line \o Client!Parts(frame), number, n)
<1>1. /\ Client!Parts(frame) \in Seq(AnswerPart)
      /\ \A j \in 1 .. Len(Client!Parts(frame)) :
            /\ Client!Parts(frame)[j].frame = frame
            /\ Client!Parts(frame)[j].part = "header" => j = 1
    BY PartsAre
<1> DEFINE more == line \o Client!Parts(frame)
<1>2. /\ Len(line) \in Nat /\ Len(Client!Parts(frame)) \in Nat
      /\ \A i \in 1 .. Len(line) : more[i] = line[i]
      /\ \A j \in 1 .. Len(Client!Parts(frame)) : more[Len(line) + j] = Client!Parts(frame)[j]
      /\ \A i \in 1 .. Len(more) :
            i \in 1 .. Len(line) \/ \E j \in 1 .. Len(Client!Parts(frame)) : i = Len(line) + j
    BY <1>1, ConcatIs
<1> HIDE DEF more
<1>3. \A i \in 1 .. Len(more) :
         \/ i \in 1 .. Len(line) /\ more[i] = line[i]
         \/ /\ more[i].frame = frame /\ i > Len(line)
            /\ more[i].part = "header" => i = Len(line) + 1
    <2> TAKE i \in 1 .. Len(more)
    <2>1. CASE i \in 1 .. Len(line)
        BY <1>2, <2>1
    <2>2. ASSUME NEW j \in 1 .. Len(Client!Parts(frame)), i = Len(line) + j
          PROVE  /\ more[i].frame = frame /\ i > Len(line)
                 /\ more[i].part = "header" => i = Len(line) + 1
        <3>1. more[i] = Client!Parts(frame)[j] /\ i > Len(line)
            BY <1>2, <2>2
        <3> QED
            BY <1>1, <2>2, <3>1
    <2> QED
        BY <1>2, <2>1, <2>2
<1>4. ASSUME NEW i \in 1 .. Len(more), NEW j \in 1 .. Len(more), i < j,
             Starts(more, i), Starts(more, j)
      PROVE  more[i].frame.of < more[j].frame.of
    <2>1. CASE j \in 1 .. Len(line) /\ more[j] = line[j]
        <3>1. i \in 1 .. Len(line) /\ more[i] = line[i]
            BY <1>2, <1>4, <2>1
        <3> QED
            BY <1>4, <2>1, <3>1 DEF FreshLine, Starts
    <2>2. CASE more[j].frame = frame /\ j = Len(line) + 1
        <3>1. i \in 1 .. Len(line) /\ more[i] = line[i]
            BY <1>2, <1>4, <2>2
        <3> QED
            BY <2>2, <3>1 DEF Before
    <2> QED
        BY <1>3, <1>4, <2>1, <2>2 DEF Starts
<1>5. \A i \in 1 .. Len(more) : Fresh(more[i].frame, n, id)
    BY <1>3 DEF FreshLine
<1>6. \A i \in 1 .. Len(more) : Starts(more, i) /\ more[i].frame.tid = number => more[i].frame.of = n
    BY <1>3 DEF Names, Starts
<1> QED
    BY <1>4, <1>5, <1>6 DEF FreshLine, Names, more

LEMMA TcpInit == Client!Init => TcpInv
<1> SUFFICES ASSUME Client!Init PROVE TcpInv
    OBVIOUS
<1>1. Waiting = << >> /\ Len(Waiting) = 0
    <2>1. inbox = << >> /\ air = << >>
        BY DEF Client!Init
    <2> QED
        BY <2>1 DEF Waiting
<1>2. /\ clientPc = "idle" /\ took = Client!NoFrame /\ current_tid = 0
    BY DEF Client!Init
<1>3. 0 \in 0 .. TidMax
    BY MCClientAssumption DEF Client!NmbsClientAssumption
<1> QED
    BY <1>1, <1>2, <1>3 DEF TcpInv, FreshLine, Names

LEMMA TcpBegin ==
    ASSUME ClientTypeInv, TcpInv, NEW c \in setup.calls, Client!Begin(c)
    PROVE  TcpInv'
<1> SUFFICES ASSUME setup.transport = "TCP" PROVE TcpInv'
    BY DEF TcpInv, Client!Begin
<1>1. TidMax \in Nat /\ TidMax >= 1
    BY SetupIs DEF ClientTypeInv
<1>2. PICK n \in Nat : n = Len(asked)
    BY LenProperties DEF ClientTypeInv
<1>3. /\ FreshLine(Waiting, n, current_tid) /\ current_tid \in 0 .. TidMax
    BY <1>2 DEF TcpInv
<1>4. /\ clientPc' = "send" /\ took' = Client!NoFrame /\ setup' = setup
      /\ current_tid' = Client!NextTid /\ msg'.tid = current_tid'
    BY DEF Client!Begin
<1>5. current_tid' = IF current_tid = TidMax THEN 1 ELSE current_tid + 1
    BY <1>4 DEF Client!NextTid
<1>6. current_tid' \in 1 .. TidMax
    BY <1>1, <1>3, <1>5
<1>7. Len(asked') = n + 1 /\ n + 1 >= 1
    BY <1>2, BeginTypes
<1>8. \A i \in 1 .. Len(Waiting') :
         /\ Len(inbox) + i \in 1 .. Len(Waiting) /\ Waiting'[i] = Waiting[Len(inbox) + i]
         /\ n + 1 - Waiting'[i].frame.of < TidMax /\ Waiting'[i].frame \in AnswerFrame
    BY <1>2, BeginTypes, WaitingIs DEF AnswerPart
<1>9. \A i \in 1 .. Len(Waiting') :
         /\ Fresh(Waiting'[i].frame, n + 1, current_tid')
         /\ Waiting'[i].frame.tid # current_tid' /\ Waiting'[i].frame.of < n + 1
    <2> TAKE i \in 1 .. Len(Waiting')
    <2>1. Fresh(Waiting'[i].frame, n, current_tid)
        BY <1>3, <1>8 DEF FreshLine
    <2> QED
        BY <1>1, <1>2, <1>3, <1>5, <1>8, <2>1, FreshBegin
<1>10. ASSUME NEW i \in 1 .. Len(Waiting'), NEW j \in 1 .. Len(Waiting'), i < j,
              Starts(Waiting', i), Starts(Waiting', j)
       PROVE  Waiting'[i].frame.of < Waiting'[j].frame.of
    <2>1. Len(inbox) \in Nat
        BY LenProperties DEF ClientTypeInv
    <2>2. Len(inbox) + i < Len(inbox) + j
        BY <1>10, <2>1
    <2> QED
        BY <1>3, <1>8, <1>10, <2>2 DEF FreshLine, Starts
<1>11. /\ FreshLine(Waiting', Len(asked'), current_tid') /\ Before(Waiting', Len(asked'))
       /\ Names(Waiting', msg'.tid, Len(asked'))
    BY <1>4, <1>7, <1>9, <1>10 DEF FreshLine, Before, Names
<1> QED
    BY <1>4, <1>6, <1>7, <1>11 DEF TcpInv

LEMMA TcpSend == ASSUME ClientTypeInv, TcpInv, Client!Send PROVE TcpInv'
<1> SUFFICES ASSUME setup.transport = "TCP" PROVE TcpInv'
    BY SendIs DEF TcpInv
<1>1. /\ clientPc = "send" /\ clientPc' \in {"idle", "header"} /\ want' = msg
      /\ UNCHANGED <<setup, current_tid, msg, got, asked, took>>
    BY SendIs
<1>2. /\ FreshLine(Waiting, Len(asked), current_tid) /\ Names(Waiting, msg.tid, Len(asked))
      /\ Before(Waiting, Len(asked)) /\ msg.tid = current_tid /\ current_tid \in 1 .. TidMax
      /\ Len(asked) >= 1 /\ TidMax \in Nat /\ current_tid \in 0 .. TidMax
      /\ took # Client!NoFrame => took.of = Len(asked)
    BY <1>1, SetupIs DEF TcpInv, ClientTypeInv
<1>3. Len(asked) \in Nat /\ Waiting \in Seq(AnswerPart) /\ current_tid \in Nat
    BY WaitingIs, LenProperties DEF ClientTypeInv
<1>4. FreshLine(Waiting', Len(asked), current_tid) /\ Names(Waiting', msg.tid, Len(asked))
    <2>1. CASE Waiting' = Waiting
        BY <1>2, <2>1
    <2>2. CASE \E frame \in AnswerFrame :
                  /\ frame.of = Len(asked) /\ Answers(frame, reply', call, msg)
                  /\ Waiting' = Waiting \o Client!Parts(frame)
        <3>1. PICK frame \in AnswerFrame :
                 /\ frame.of = Len(asked) /\ frame.tid = msg.tid
                 /\ Waiting' = Waiting \o Client!Parts(frame)
            BY <2>2, Zenon DEF Answers
        <3>2. Fresh(frame, Len(asked), current_tid)
            BY <1>2, <1>3, <3>1 DEF Fresh
        <3> QED
            BY <1>2, <1>3, <3>1, <3>2, MoreLine
    <2> QED
        BY <2>1, <2>2, SendTypes
<1> QED
    BY <1>1, <1>2, <1>4 DEF TcpInv

LEMMA TcpReceive == ASSUME ClientTypeInv, TcpInv, Client!Receive PROVE TcpInv'
<1> SUFFICES ASSUME setup.transport = "TCP" PROVE TcpInv'
    BY ReadHeaderIs, ReadRestIs, ReadBodyTcpIs, ReadBodyRtuIs, ReadFooterIs, TimeOutIs
    DEF TcpInv, Client!Receive
<1>1. /\ FreshLine(Waiting, Len(asked), current_tid) /\ Names(Waiting, msg.tid, Len(asked))
      /\ clientPc \notin {"idle", "send"} => Names(Waiting, want.tid, Len(asked))
      /\ clientPc = "rest" /\ got.tid = want.tid => got.of = Len(asked)
      /\ clientPc \in {"body", "exception"} => got.of = Len(asked)
      /\ clientPc \notin {"crc", "exception_crc"}
      /\ took # Client!NoFrame => took.of = Len(asked)
      /\ current_tid \in 0 .. TidMax
    BY DEF TcpInv
<1>2. Client!Transport = "TCP" /\ "TCP" # "RTU"
    BY DEF Client!Transport
<1>3. /\ Waiting \in Seq(AnswerPart) /\ Len(asked) \in Nat /\ TidMax \in Nat
      /\ \A i \in 1 .. Len(Waiting) : Waiting[i] \in AnswerPart
    BY WaitingIs, SetupIs, LenProperties DEF ClientTypeInv
<1>4. ASSUME Waiting' \in Seq(AnswerPart), NEW d \in Nat, After(Waiting', Waiting, d)
      PROVE  /\ FreshLine(Waiting', Len(asked), current_tid) /\ Names(Waiting', msg.tid, Len(asked))
             /\ Names(Waiting, want.tid, Len(asked)) => Names(Waiting', want.tid, Len(asked))
    BY <1>1, <1>3, <1>4, LaterLine
<1>5. ClientTypeInv' /\ Waiting' \in Seq(AnswerPart)
    <2>1. ClientTypeInv'
        BY ReceiveTypes
    <2> QED
        BY <2>1, ConcatProperties DEF ClientTypeInv, Waiting
<1>6. CASE Client!ReadHeader
    <2>1. FreshLine(Waiting', Len(asked), current_tid) /\ Names(Waiting', want.tid, Len(asked))
        BY <1>1, <1>4, <1>5, <1>6, ReadHeaderIs
    <2>2. CASE /\ Waiting[1].part = "header" /\ got' = Waiting[1].frame
               /\ msg' = Client!HeaderOf(got') /\ clientPc' = "rest"
        <3>1. got' \in AnswerFrame /\ 1 \in 1 .. Len(Waiting) /\ msg'.tid = got'.tid
            BY <1>3, <1>6, <2>2, ReadHeaderIs, WaitingIs DEF AnswerPart, Client!HeaderOf
        <3>2. got'.tid = want.tid => got'.of = Len(asked)
            BY <1>1, <1>6, <2>2, <3>1, ReadHeaderIs DEF Names, Starts
        <3>3. Names(Waiting', got'.tid, Len(asked))
            <4> SUFFICES ASSUME NEW i \in 1 .. Len(Waiting'), Starts(Waiting', i),
                                Waiting'[i].frame.tid = got'.tid
                         PROVE  FALSE
                BY DEF Names
            <4>1. i + 1 \in 1 .. Len(Waiting) /\ Waiting'[i] = Waiting[i + 1] /\ 1 < i + 1
                BY <1>6, ReadHeaderIs DEF After
            <4>2. /\ Waiting[1].frame.of < Waiting[i + 1].frame.of
                  /\ Fresh(Waiting[1].frame, Len(asked), current_tid)
                  /\ Fresh(Waiting[i + 1].frame, Len(asked), current_tid)
                BY <1>1, <2>2, <3>1, <4>1 DEF FreshLine, Starts
            <4>3. Waiting[i + 1].frame \in AnswerFrame
                BY <1>3, <4>1 DEF AnswerPart
            <4>4. Waiting[1].frame.of = Waiting[i + 1].frame.of
                BY <1>1, <1>3, <2>2, <3>1, <4>1, <4>2, <4>3, SameId
            <4> QED
                BY <3>1, <2>2, <4>2, <4>4 DEF AnswerFrame
        <3> QED
            BY <1>1, <1>6, <2>1, <2>2, <3>1, <3>2, <3>3, ReadHeaderIs DEF TcpInv
    <2>3. CASE got' = got /\ msg' = Client!Blank /\ clientPc' = "idle"
        <3>1. Names(Waiting', 0, Len(asked))
            BY <2>1 DEF Names, FreshLine, Fresh
        <3> QED
            BY <1>1, <1>6, <2>1, <2>3, <3>1, ReadHeaderIs DEF TcpInv, Client!Blank
    <2> QED
        BY <1>2, <1>6, <2>2, <2>3, ReadHeaderIs
<1>7. CASE Client!ReadRest
    <2>1. /\ FreshLine(Waiting', Len(asked), current_tid) /\ Names(Waiting', msg.tid, Len(asked))
          /\ Names(Waiting', want.tid, Len(asked))
        BY <1>1, <1>4, <1>5, <1>7, ReadRestIs
    <2>2. clientPc' \in {"body", "exception"} => got.of = Len(asked)
        <3>1. clientPc' \in {"body", "exception"} => Client!Verdict(got) \in {"body", "exception"}
            BY <1>7, ReadRestIs, JudgeIs
        <3>2. Client!Verdict(got) \in {"body", "exception"} => got.tid = want.tid
            BY <1>2 DEF Client!Verdict, Client!NMBS_ERROR_INVALID_TCP_MBAP
        <3> QED
            BY <1>1, <1>7, <3>1, <3>2, ReadRestIs
    <2>3. clientPc' \in {"body", "exception", "idle"}
        BY <1>7, ReadRestIs, JudgeIs
    <2> QED
        BY <1>1, <1>7, <2>1, <2>2, <2>3, ReadRestIs DEF TcpInv
<1>8. CASE Client!ReadBodyTcp
    <2>1. took' # Client!NoFrame => took'.of = Len(asked)
        BY <1>1, <1>8, ReadBodyTcpIs, EndBodyIs, EndExceptionIs
    <2> QED
        BY <1>1, <1>8, <2>1, ReadBodyTcpIs DEF TcpInv
<1>9. CASE Client!TimeOut
    <2>1. Names(Waiting', 0, Len(asked))
        BY <1>1, <1>9, TimeOutIs DEF Names, FreshLine, Fresh
    <2>2. Names(Waiting', msg'.tid, Len(asked))
        BY <1>1, <1>9, <2>1, TimeOutIs DEF Client!Blank
    <2> QED
        BY <1>1, <1>9, <2>2, TimeOutIs DEF TcpInv
<1>10. ~Client!ReadBodyRtu
    BY <1>2, ReadBodyRtuIs
<1>11. ~Client!ReadFooter
    BY <1>1 DEF Client!ReadFooter
<1> QED
    BY <1>6, <1>7, <1>8, <1>9, <1>10, <1>11 DEF Client!Receive

LEMMA TcpStep == ClientTypeInv /\ TcpInv /\ [Client!Next]_(Client!vars) => TcpInv'
<1> SUFFICES ASSUME ClientTypeInv, TcpInv, [Client!Next]_(Client!vars) PROVE TcpInv'
    OBVIOUS
<1>1. CASE UNCHANGED Client!vars
    BY <1>1, ClientStutters DEF TcpInv
<1>2. CASE Client!Arrive
    BY <1>2, ClientArrives DEF TcpInv
<1>3. CASE Client!ReceiveRaw
    <2>1. /\ clientPc = "idle" /\ clientPc' = "header" /\ want' = msg /\ took' = Client!NoFrame
          /\ UNCHANGED <<setup, current_tid, msg, got, asked>> /\ Waiting' = Waiting
        BY <1>3, ReceiveRawTypes DEF Client!ReceiveRaw
    <2> QED
        BY <2>1 DEF TcpInv
<1> QED
    BY <1>1, <1>2, <1>3, TcpBegin, TcpSend, TcpReceive DEF Client!Next

-----------------------------------------------------------------------------
(* Over RTU: what the answers say that wait to be read.                    *)

\* A faithful server's answer to one of these calls.
Genuine(frame, sent) ==
    /\ frame.of \in 1 .. Len(sent)
    /\ frame.unit = sent[frame.of].unit
    /\ \/ frame.function = sent[frame.of].function /\ frame.body = Client!RightBody(sent[frame.of])
       \/ frame.function = sent[frame.of].function + 128

\* What recv_res_header has made sure of.
Suits(state, frame, header) ==
    /\ frame.unit = header.unit
    /\ state \in {"body", "crc"} => frame.function = header.function
    /\ state \in {"exception", "exception_crc"} => frame.function - 128 = header.function

SameAsked(frame, then, c) ==
    /\ frame.good /\ then.function = c.function /\ then.unit = c.unit
    /\ frame.function = c.function =>
          /\ c.function \in Client!Echoed => then.address = c.address
          /\ c.function \in Client!Echoed \cup Client!Registers => then.value = c.value

RtuInv ==
    setup.transport = "RTU" /\ Client!Faithful =>
        /\ \A i \in 1 .. Len(Waiting) : Genuine(Waiting[i].frame, asked)
        /\ clientPc = "send" => /\ msg.unit = call.unit /\ msg.function = call.function
                                /\ Len(asked) >= 1 /\ call = asked[Len(asked)]
        /\ clientPc \notin {"idle", "send"} /\ ~call.raw =>
              want.unit = call.unit /\ want.function = call.function
        /\ clientPc \notin {"idle", "send", "header"} =>
              Genuine(got, asked) /\ Suits(clientPc, got, want)
        /\ clientPc # "rest"
        /\ clientPc = "crc" => buf = got.body /\ Client!BodyFits(buf)
        /\ clientPc # "idle" => took = Client!NoFrame
        /\ clientPc = "idle" /\ took # Client!NoFrame /\ ~call.raw =>
              SameAsked(took, asked[took.of], call)

LEMMA GenuineMeans ==
    ASSUME NEW frame \in AnswerFrame, NEW sent \in Seq(Client!CallRecord), Genuine(frame, sent),
           NEW c \in Client!CallRecord
    PROVE  /\ frame.function = c.function =>
                 /\ sent[frame.of].function = c.function
                 /\ frame.body = Client!RightBody(sent[frame.of])
           /\ frame.function - 128 = c.function =>
                 sent[frame.of].function = c.function /\ frame.function # c.function
           /\ sent[frame.of] \in Client!CallRecord
<1>1. sent[frame.of] \in Client!CallRecord
    BY ElementOfSeq DEF Genuine
<1>2. sent[frame.of].function \in 1 .. 16 /\ c.function \in 1 .. 16
    BY <1>1, CallIs
<1>3. PICK f \in Nat, g \in 1 .. 16, h \in 1 .. 16 :
         f = frame.function /\ g = sent[frame.of].function /\ h = c.function
    BY <1>2 DEF AnswerFrame
<1>4. f = h => f # g + 128
    BY SMT
<1>5. f - 128 = h => f # g /\ f # h /\ (f = g + 128 => g = h)
    BY SMT
<1> QED
    BY <1>1, <1>3, <1>4, <1>5 DEF Genuine

\* The echo or the byte count that was accepted is the one that was meant.
LEMMA EchoMeans ==
    ASSUME NEW then \in Client!CallRecord, call \in Client!CallRecord, ~call.raw,
           then.function = call.function,
           Client!BodyFits(Client!RightBody(then)), Client!EchoFits(Client!RightBody(then))
    PROVE  /\ call.function \in Client!Echoed => then.address = call.address
           /\ call.function \in Client!Echoed \cup Client!Registers => then.value = call.value
<1>1. CASE call.function \in Client!Echoed
    BY <1>1 DEF Client!EchoFits, Client!RightBody
<1>2. CASE call.function \in Client!Registers /\ call.function \notin Client!Echoed
    <2>1. then.value \in Nat /\ call.value \in Nat /\ 2 * then.value \in Nat
        BY CallIs
    <2>2. Client!RightBody(then) = Client!Begins(2 * then.value)
        BY <1>2 DEF Client!RightBody
    <2>3. Client!Byte(Client!RightBody(then)) = 2 * then.value
        BY <2>1, <2>2, FirstByte
    <2>4. Client!Byte(Client!RightBody(then)) = 2 * call.value
        BY <1>2 DEF Client!BodyFits
    <2>5. then.value = call.value
        BY <2>1, <2>3, <2>4
    <2> QED
        BY <1>2, <2>5
<1> QED
    BY <1>1, <1>2

LEMMA RtuInit == Client!Init => RtuInv
<1> SUFFICES ASSUME Client!Init PROVE RtuInv
    OBVIOUS
<1>1. Len(Waiting) = 0
    <2>1. inbox = << >> /\ air = << >>
        BY DEF Client!Init
    <2> QED
        BY <2>1 DEF Waiting
<1>2. clientPc = "idle" /\ took = Client!NoFrame
    BY DEF Client!Init
<1> QED
    BY <1>1, <1>2 DEF RtuInv

LEMMA RtuBegin ==
    ASSUME ClientTypeInv, RtuInv, NEW c \in setup.calls, Client!Begin(c)
    PROVE  RtuInv'
<1>1. /\ setup' = setup /\ clientPc' = "send" /\ took' = Client!NoFrame /\ call' = c
      /\ msg'.unit = c.unit /\ msg'.function = c.function
    BY DEF Client!Begin
<1>2. /\ Len(asked') = Len(asked) + 1 /\ Len(asked) \in Nat /\ asked'[Len(asked')] = c
      /\ \A i \in 1 .. Len(asked) : asked'[i] = asked[i]
    BY BeginTypes, LenProperties DEF ClientTypeInv
<1> SUFFICES ASSUME setup.transport = "RTU", Client!Faithful PROVE RtuInv'
    BY <1>1 DEF RtuInv, Client!Faithful
<1>3. ASSUME NEW i \in 1 .. Len(Waiting') PROVE Genuine(Waiting'[i].frame, asked')
    <2>1. PICK j \in 1 .. Len(Waiting) : Waiting'[i] = Waiting[j]
        BY BeginTypes
    <2>2. Genuine(Waiting[j].frame, asked)
        BY DEF RtuInv
    <2> QED
        BY <1>2, <2>1, <2>2 DEF Genuine
<1>4. Len(asked') >= 1
    BY <1>2
<1> QED
    BY <1>1, <1>2, <1>3, <1>4 DEF RtuInv

LEMMA RtuSend == ASSUME ClientTypeInv, RtuInv, Client!Send PROVE RtuInv'
<1> SUFFICES ASSUME setup.transport = "RTU", Client!Faithful PROVE RtuInv'
    BY SendIs DEF RtuInv, Client!Faithful
<1>1. /\ clientPc = "send" /\ clientPc' \in {"idle", "header"} /\ want' = msg
      /\ UNCHANGED <<setup, call, msg, got, asked, took>>
    BY SendIs
<1>2. /\ msg.unit = call.unit /\ msg.function = call.function /\ took = Client!NoFrame
      /\ Len(asked) >= 1 /\ call = asked[Len(asked)] /\ Len(asked) \in Nat
      /\ \A i \in 1 .. Len(Waiting) : Genuine(Waiting[i].frame, asked)
    BY <1>1, LenProperties DEF RtuInv, ClientTypeInv
<1>3. \A i \in 1 .. Len(Waiting') : Genuine(Waiting'[i].frame, asked)
    <2>1. CASE Waiting' = Waiting
        BY <1>2, <2>1
    <2>2. CASE \E frame \in AnswerFrame :
                  /\ reply' \in setup.replies /\ reply' # "none"
                  /\ frame.of = Len(asked) /\ Answers(frame, reply', call, msg)
                  /\ Waiting' = Waiting \o Client!Parts(frame)
        <3>1. PICK frame \in AnswerFrame :
                 /\ reply' \in setup.replies /\ reply' # "none"
                 /\ frame.of = Len(asked) /\ Answers(frame, reply', call, msg)
                 /\ Waiting' = Waiting \o Client!Parts(frame)
            BY <2>2
        <3>2. reply' \in {"right", "exception", "noise"}
            BY <3>1 DEF Client!Faithful
        <3>3. Genuine(frame, asked)
            <4>1. frame.of \in 1 .. Len(asked) /\ asked[frame.of] = call
                BY <1>2, <3>1
            <4>2. /\ frame.unit = msg.unit
                  /\ \/ frame.function = call.function /\ frame.body = Client!RightBody(call)
                     \/ frame.function = call.function + 128
                BY <3>1, <3>2, Zenon DEF Answers
            <4> QED
                BY <1>2, <4>1, <4>2 DEF Genuine
        <3>4. /\ Client!Parts(frame) \in Seq(AnswerPart) /\ Waiting \in Seq(AnswerPart)
              /\ \A j \in 1 .. Len(Client!Parts(frame)) : Client!Parts(frame)[j].frame = frame
            BY PartsAre, WaitingIs
        <3>5. \A i \in 1 .. Len(Waiting') :
                 (\E j \in 1 .. Len(Waiting) : Waiting'[i] = Waiting[j]) \/ Waiting'[i].frame = frame
            BY <3>1, <3>4, ConcatIs
        <3> QED
            BY <1>2, <3>3, <3>5
    <2> QED
        BY <2>1, <2>2, SendTypes
<1> QED
    BY <1>1, <1>2, <1>3 DEF RtuInv

LEMMA RtuJudge ==
    ASSUME NEW frame, Client!Transport = "RTU",
           clientPc' \in {"body", "exception"}, clientPc' = Client!Verdict(frame)
    PROVE  Suits(clientPc', frame, want)
BY DEF Client!Verdict, Suits, Client!NMBS_ERROR_INVALID_TCP_MBAP, Client!NMBS_ERROR_INVALID_UNIT_ID,
       Client!NMBS_ERROR_INVALID_RESPONSE

LEMMA RtuReceive == ASSUME ClientTypeInv, RtuInv, Client!Receive PROVE RtuInv'
<1>1. setup' = setup
    BY ReadHeaderIs, ReadRestIs, ReadBodyTcpIs, ReadBodyRtuIs, ReadFooterIs, TimeOutIs
    DEF Client!Receive
<1> SUFFICES ASSUME setup.transport = "RTU", Client!Faithful PROVE RtuInv'
    BY <1>1 DEF RtuInv, Client!Faithful
<1>2. /\ \A i \in 1 .. Len(Waiting) : Genuine(Waiting[i].frame, asked)
      /\ clientPc \notin {"idle", "send"} /\ ~call.raw =>
            want.unit = call.unit /\ want.function = call.function
      /\ clientPc \notin {"idle", "send", "header"} =>
            Genuine(got, asked) /\ Suits(clientPc, got, want)
      /\ clientPc # "rest"
      /\ clientPc = "crc" => buf = got.body /\ Client!BodyFits(buf)
      /\ clientPc # "idle" => took = Client!NoFrame
    BY DEF RtuInv
<1>3. Client!Transport = "RTU" /\ Client!Transport # "TCP"
    BY DEF Client!Transport
<1>4. Waiting' = Waiting \/ After(Waiting', Waiting, 1) => \A i \in 1 .. Len(Waiting') : Genuine(Waiting'[i].frame, asked)
    BY <1>2 DEF After
<1>5. /\ asked \in Seq(Client!CallRecord) /\ got \in AnswerFrame /\ call \in Client!CallRecord
    BY DEF ClientTypeInv
<1>6. CASE Client!ReadHeader
    <2>1. \A i \in 1 .. Len(Waiting') : Genuine(Waiting'[i].frame, asked)
        BY <1>4, <1>6, ReadHeaderIs
    <2>2. CASE clientPc' = "idle"
        BY <1>2, <1>6, <2>1, <2>2, ReadHeaderIs DEF RtuInv
    <2>3. CASE clientPc' # "idle"
        <3>1. got' = Waiting[1].frame /\ Client!Judge(got') /\ 1 \in 1 .. Len(Waiting)
            BY <1>3, <1>6, <2>3, ReadHeaderIs, WaitingIs
        <3>2. clientPc' \in {"body", "exception"} /\ clientPc' = Client!Verdict(got')
            BY <2>3, <3>1, JudgeIs
        <3>3. Genuine(got', asked) /\ Suits(clientPc', got', want)
            BY <1>2, <1>3, <3>1, <3>2, RtuJudge
        <3> QED
            BY <1>2, <1>6, <2>1, <3>2, <3>3, ReadHeaderIs DEF RtuInv
    <2> QED
        BY <2>2, <2>3
<1>7. CASE Client!ReadBodyRtu
    <2>1. \A i \in 1 .. Len(Waiting') : Genuine(Waiting'[i].frame, asked)
        BY <1>4, <1>7, ReadBodyRtuIs
    <2>2. /\ clientPc \in {"body", "exception"} /\ clientPc' \in {"crc", "exception_crc", "idle"}
          /\ clientPc' # "idle" => Suits(clientPc', got, want)
          /\ clientPc' = "crc" => Client!BodyFits(got.body)
        BY <1>2, <1>7, ReadBodyRtuIs DEF Suits
    <2>3. buf' = got.body /\ UNCHANGED <<call, got, want, asked>>
        BY <1>7, ReadBodyRtuIs
    <2>4. clientPc' = "crc" => Client!BodyFits(buf)'
        BY <2>2, <2>3 DEF Client!BodyFits
    <2> QED
        BY <1>2, <1>7, <2>1, <2>2, <2>3, <2>4, ReadBodyRtuIs DEF RtuInv
<1>8. CASE Client!ReadFooter
    <2>1. /\ \A i \in 1 .. Len(Waiting') : Genuine(Waiting'[i].frame, asked)
          /\ clientPc \in {"crc", "exception_crc"} /\ took = Client!NoFrame /\ clientPc' = "idle"
          /\ UNCHANGED <<call, asked>> /\ Genuine(got, asked)
        BY <1>2, <1>4, <1>8, ReadFooterIs
    <2>2. ASSUME took' # Client!NoFrame, ~call.raw PROVE SameAsked(took', asked[took'.of], call)
        <3>1. /\ took' = got /\ got.good /\ asked[got.of] \in Client!CallRecord
              /\ clientPc = "crc" => Client!EchoFits(buf)
            BY <1>5, <1>8, <2>1, <2>2, ReadFooterIs, EndBodyIs, EndExceptionIs, GenuineMeans
        <3>2. asked[got.of].unit = call.unit
            BY <1>2, <2>1, <2>2 DEF Genuine, Suits
        <3>3. CASE clientPc = "crc"
            <4>1. got.function = call.function
                BY <1>2, <2>2, <3>3 DEF Suits
            <4>2. /\ asked[got.of].function = call.function
                  /\ buf = Client!RightBody(asked[got.of]) /\ Client!BodyFits(buf)
                BY <1>2, <1>5, <2>1, <3>3, <4>1, GenuineMeans
            <4> QED
                BY <1>5, <2>2, <3>1, <3>2, <3>3, <4>2, EchoMeans DEF SameAsked
        <3>4. CASE clientPc = "exception_crc"
            <4>1. got.function - 128 = call.function
                BY <1>2, <2>2, <3>4 DEF Suits
            <4>2. asked[got.of].function = call.function /\ got.function # call.function
                BY <1>5, <2>1, <4>1, GenuineMeans
            <4> QED
                BY <3>1, <3>2, <4>2 DEF SameAsked
        <3> QED
            BY <2>1, <3>3, <3>4
    <2> QED
        BY <2>1, <2>2 DEF RtuInv
<1>9. CASE Client!TimeOut
    BY <1>2, <1>4, <1>9, TimeOutIs DEF RtuInv
<1>10. ~Client!ReadRest /\ ~Client!ReadBodyTcp
    BY <1>2, <1>3, ReadRestIs, ReadBodyTcpIs
<1> QED
    BY <1>6, <1>7, <1>8, <1>9, <1>10 DEF Client!Receive

LEMMA RtuStep == ClientTypeInv /\ RtuInv /\ [Client!Next]_(Client!vars) => RtuInv'
<1> SUFFICES ASSUME ClientTypeInv, RtuInv, [Client!Next]_(Client!vars) PROVE RtuInv'
    OBVIOUS
<1>1. CASE UNCHANGED Client!vars
    BY <1>1, ClientStutters DEF RtuInv, Client!Faithful, Client!BodyFits
<1>2. CASE Client!Arrive
    BY <1>2, ClientArrives DEF RtuInv, Client!Faithful, Client!BodyFits
<1>3. CASE Client!ReceiveRaw
    <2>1. /\ clientPc = "idle" /\ clientPc' = "header" /\ took' = Client!NoFrame /\ call.raw
          /\ UNCHANGED <<setup, call, msg, got, asked>> /\ Waiting' = Waiting
        BY <1>3, ReceiveRawTypes DEF Client!ReceiveRaw
    <2> QED
        BY <2>1 DEF RtuInv, Client!Faithful
<1> QED
    BY <1>1, <1>2, <1>3, RtuBegin, RtuSend, RtuReceive DEF Client!Next

LEMMA ClientOfMC == Spec => Client!Spec
<1>1. Init => Client!Init
    BY DEF Init
<1>2. [Next]_vars => [Client!Next]_(Client!vars)
    BY DEF Next, vars, clientVars, Client!vars
<1> QED
    BY <1>1, <1>2, PTL DEF Spec, Client!Spec

(* For any calls, answers, late or damaged, number of calls and range of   *)
(* transaction ids: a call over TCP takes its own answer, a call over RTU  *)
(* at most one to the same question.                                       *)
THEOREM CallsTakeTheirAnswers == Spec => []AnswerIsForCall
<1>1. ClientTypeInv /\ TcpInv /\ RtuInv => AnswerIsForCall
    <2> SUFFICES ASSUME ClientTypeInv, TcpInv, RtuInv PROVE Client!OwnAnswer /\ Client!SameQuestion
        BY DEF AnswerIsForCall, Client!AnswerIsForCall
    <2>1. Client!OwnAnswer
        BY DEF Client!OwnAnswer, TcpInv, Client!Returned, Client!Transport
    <2>2. Client!SameQuestion
        BY DEF Client!SameQuestion, RtuInv, Client!Returned, Client!Transport, SameAsked
    <2> QED
        BY <2>1, <2>2
<1>2. Client!Spec => [](ClientTypeInv /\ TcpInv /\ RtuInv)
    BY ClientTypeInit, ClientTypeStep, TcpInit, TcpStep, RtuInit, RtuStep, PTL DEF Client!Spec
<1> QED
    BY <1>1, <1>2, ClientOfMC, PTL

-----------------------------------------------------------------------------
(* On a quiet line: the call under way is told what the server answered.   *)

QuietCall == asked # << >> /\ quiet /\ ~call.raw /\ ~Client!Broadcast

\* What a call that returns error says of a server that did this.
Tells(error, kind) ==
    /\ error = Client!NMBS_ERROR_NONE <=> kind = "right"
    /\ kind = "exception" => error = Client!NMBS_EXCEPTION_ILLEGAL_DATA_ADDRESS
    /\ Client!nmbs_error_is_exception(error) => kind = "exception"

\* The kinds of answers that pass for a response, and for an exception.
Responses == {"right", "wrong", "noise"}
Refusals  == {"exception", "odd"}

\* What the server did, as far as the call has found out.
AsAnswered ==
    reply \in Client!Told =>
        /\ clientPc = "header" =>
              IF reply = "none" THEN Len(Waiting) = 0
              ELSE /\ Len(Waiting) >= 1 /\ Waiting[1].part = "header"
                   /\ Answers(Waiting[1].frame, reply, call, want)
        /\ clientPc \notin {"idle", "send", "header"} =>
              reply # "none" /\ Answers(got, reply, call, want)
        /\ clientPc \in {"body", "crc"} => reply \in Responses
        /\ clientPc \in {"exception", "exception_crc"} => reply \in Refusals
        /\ clientPc \in {"body", "exception"} /\ Client!Transport = "TCP" => buf = got.body
        /\ clientPc \in {"crc", "exception_crc"} => buf = got.body
        /\ clientPc = "crc" => Client!BodyFits(buf)
        /\ clientPc = "idle" =>
              \/ result \in {Client!NMBS_ERROR_TIMEOUT, Client!NMBS_ERROR_TRANSPORT}
              \/ Tells(result, reply)

QuietInv ==
    QuietCall =>
        /\ clientPc = "send" => /\ Len(Waiting) = 0
                                /\ msg.unit = call.unit /\ msg.function = call.function
        /\ clientPc \notin {"idle", "send"} => want.unit = call.unit /\ want.function = call.function
        /\ clientPc # "send" => AsAnswered

LEMMA TellsIs ==
    ASSUME NEW error, NEW kind
    PROVE  /\ error = Client!NMBS_ERROR_NONE /\ kind = "right" => Tells(error, kind)
           /\ error = Client!NMBS_EXCEPTION_ILLEGAL_DATA_ADDRESS /\ kind = "exception" => Tells(error, kind)
           /\ /\ error \in {Client!NMBS_ERROR_INVALID_UNIT_ID, Client!NMBS_ERROR_INVALID_RESPONSE,
                            Client!NMBS_ERROR_CRC}
              /\ kind \notin {"right", "exception"}
              => Tells(error, kind)
BY DEF Tells, Client!nmbs_error_is_exception, Client!Exceptions, Client!NMBS_ERROR_NONE,
       Client!NMBS_ERROR_INVALID_UNIT_ID, Client!NMBS_ERROR_INVALID_RESPONSE, Client!NMBS_ERROR_CRC,
       Client!NMBS_EXCEPTION_ILLEGAL_FUNCTION, Client!NMBS_EXCEPTION_ILLEGAL_DATA_ADDRESS,
       Client!NMBS_EXCEPTION_ILLEGAL_DATA_VALUE, Client!NMBS_EXCEPTION_SERVER_DEVICE_FAILURE

\* The right body is accepted, and the one the client can tell is wrong is not.
LEMMA BodyTells ==
    ASSUME call \in Client!CallRecord, Client!WithinLimits(call), ~call.raw
    PROVE  /\ Client!BodyFits(Client!RightBody(call)) /\ Client!EchoFits(Client!RightBody(call))
           /\ ~(Client!BodyFits(Client!WrongBody(call)) /\ Client!EchoFits(Client!WrongBody(call)))
<1>1. /\ call.function \in Client!Echoed \cup Client!Registers \cup Client!Coils
      /\ call.address \in Nat /\ call.value \in Nat
    BY CallIs
<1>2. CASE call.function \in Client!Echoed
    <2>1. call.function \notin Client!Registers /\ call.function \notin Client!Coils
        BY <1>2 DEF Client!Echoed, Client!Registers, Client!Coils
    <2>2. call.value + 1 # call.value
        BY <1>1
    <2>3. Client!RightBody(call) = [address |-> call.address, value |-> call.value]
        BY <1>2 DEF Client!RightBody
    <2>4. Client!WrongBody(call) = [address |-> call.address, value |-> call.value + 1]
        BY <1>2, <2>1, Zenon DEF Client!WrongBody
    <2> QED
        BY <1>2, <2>1, <2>2, <2>3, <2>4 DEF Client!BodyFits, Client!EchoFits
<1>3. CASE call.function \in Client!Registers
    <2>1. call.function \notin Client!Echoed
        BY <1>3 DEF Client!Echoed, Client!Registers
    <2>2. call.value \in 1 .. 125
        BY <1>3 DEF Client!WithinLimits
    <2>3. /\ 2 * call.value \in Nat /\ 2 * call.value + 2 \in Nat
          /\ 2 * call.value <= 250 /\ 2 * call.value + 2 # 2 * call.value
        BY <2>2
    <2>4. Client!Byte(Client!RightBody(call)) = 2 * call.value
        BY <1>3, <2>1, <2>3, FirstByte DEF Client!RightBody
    <2>5. Client!Byte(Client!WrongBody(call)) = 2 * call.value + 2
        BY <1>3, <2>1, <2>3, FirstByte DEF Client!WrongBody
    <2> QED
        BY <1>3, <2>1, <2>3, <2>4, <2>5 DEF Client!BodyFits, Client!EchoFits
<1>4. CASE call.function \in Client!Coils
    <2>1. call.function \notin Client!Echoed /\ call.function \notin Client!Registers
        BY <1>4 DEF Client!Echoed, Client!Registers, Client!Coils
    <2>2. call.value \in 1 .. 2000
        BY <1>4 DEF Client!WithinLimits
    <2>3. (call.value + 7) \div 8 \in Nat /\ (call.value + 7) \div 8 <= 250 /\ 251 \in Nat
        <3> DEFINE most == 2000
        <3>1. \A v \in 1 .. most : (v + 7) \div 8 \in Nat /\ (v + 7) \div 8 <= 250
            BY SMT
        <3>2. call.value \in 1 .. most
            BY <2>2
        <3> HIDE DEF most
        <3>3. (call.value + 7) \div 8 \in Nat /\ (call.value + 7) \div 8 <= 250
            BY <3>1, <3>2, Zenon
        <3>4. 251 \in Nat
            OBVIOUS
        <3> QED
            BY <3>3, <3>4
    <2>4. Client!Byte(Client!RightBody(call)) = (call.value + 7) \div 8
        BY <1>4, <2>1, <2>3, FirstByte DEF Client!RightBody
    <2>5. Client!Byte(Client!WrongBody(call)) = 251
        BY <1>4, <2>1, <2>3, FirstByte DEF Client!WrongBody
    <2>6. ~(251 <= 250)
        OBVIOUS
    <2> QED
        BY <1>4, <2>1, <2>3, <2>4, <2>5, <2>6 DEF Client!BodyFits, Client!EchoFits
<1> QED
    BY <1>1, <1>2, <1>3, <1>4

\* The header of an answer says what the server did, or that it is no answer.
LEMMA VerdictTells ==
    ASSUME NEW frame \in AnswerFrame, NEW kind \in Client!Told, kind # "none",
           call \in Client!CallRecord, Answers(frame, kind, call, want),
           want.unit = call.unit, want.function = call.function,
           setup.transport \in {"TCP", "RTU"}
    PROVE  \/ Client!Verdict(frame) = "body" /\ kind \in Responses
           \/ Client!Verdict(frame) = "exception" /\ kind \in Refusals
           \/ /\ Client!Verdict(frame) \in {Client!NMBS_ERROR_INVALID_UNIT_ID,
                                            Client!NMBS_ERROR_INVALID_RESPONSE}
              /\ kind \notin Responses \cup Refusals
<1>1. /\ kind \in {"right", "exception", "odd", "wrong", "function", "unit", "noise"}
      /\ kind = "unit" => Client!Transport # "TCP"
    BY DEF Client!Told, Client!ReplyKinds
<1>2. PICK f \in 1 .. 16, g \in Nat : f = call.function /\ g = frame.function
    BY CallIs DEF AnswerFrame
<1>3. f # 7 /\ f # 7 - 128 /\ f # f + 128 /\ f - 128 # f /\ (f + 128) - 128 = f
    <2>1. f # 7
        BY <1>2, CallIs DEF Client!Echoed, Client!Registers, Client!Coils
    <2> QED
        BY <2>1
<1>4. frame.tid = want.tid /\ (kind # "unit" => frame.unit = want.unit)
    BY DEF Answers
<1>5. CASE kind \in Responses
    <2>1. frame.function = call.function /\ frame.unit = want.unit
        BY <1>4, <1>5 DEF Answers, Responses
    <2> QED
        BY <1>4, <1>5, <2>1 DEF Client!Verdict
<1>6. CASE kind \in Refusals
    <2>1. frame.function = f + 128 /\ frame.unit = want.unit
        BY <1>2, <1>4, <1>6 DEF Answers, Refusals
    <2>2. frame.function # want.function /\ frame.function - 128 = want.function
        BY <1>2, <1>3, <2>1
    <2> QED
        BY <1>4, <1>6, <2>1, <2>2 DEF Client!Verdict
<1>7. CASE kind = "function"
    <2>1. frame.function = 7 /\ frame.unit = want.unit
        BY <1>4, <1>7 DEF Answers
    <2>2. frame.function # want.function /\ frame.function - 128 # want.function
        BY <1>2, <1>3, <2>1
    <2> QED
        BY <1>4, <1>7, <2>1, <2>2 DEF Client!Verdict, Responses, Refusals
<1>8. CASE kind = "unit"
    <2>1. frame.unit # want.unit /\ Client!Transport = "RTU"
        BY <1>1, <1>8 DEF Answers, Client!Transport
    <2>2. Client!Verdict(frame) = Client!NMBS_ERROR_INVALID_UNIT_ID
        BY <2>1 DEF Client!Verdict
    <2> QED
        BY <1>8, <2>2 DEF Responses, Refusals
<1> QED
    BY <1>1, <1>5, <1>6, <1>7, <1>8 DEF Responses, Refusals

LEMMA JudgeTells ==
    ASSUME NEW frame \in AnswerFrame, NEW kind \in Client!Told, kind # "none", ClientTypeInv,
           Answers(frame, kind, call, want), want.unit = call.unit, want.function = call.function,
           Client!Judge(frame)
    PROVE  \/ clientPc' = "body" /\ kind \in Responses
           \/ clientPc' = "exception" /\ kind \in Refusals
           \/ clientPc' = "idle" /\ Tells(result', kind)
<1>1. setup.transport \in {"TCP", "RTU"} /\ call \in Client!CallRecord
    BY SetupIs DEF ClientTypeInv
<1>2. CASE Client!Verdict(frame) = "body" /\ kind \in Responses
    BY <1>2, JudgeIs
<1>3. CASE Client!Verdict(frame) = "exception" /\ kind \in Refusals
    BY <1>3, JudgeIs
<1>4. CASE /\ Client!Verdict(frame) \in {Client!NMBS_ERROR_INVALID_UNIT_ID, Client!NMBS_ERROR_INVALID_RESPONSE}
           /\ kind \notin Responses \cup Refusals
    <2>1. Client!Verdict(frame) \notin {"body", "exception"}
        BY <1>4 DEF Client!NMBS_ERROR_INVALID_UNIT_ID, Client!NMBS_ERROR_INVALID_RESPONSE
    <2>2. clientPc' = "idle" /\ result' = Client!Verdict(frame)
        BY <2>1, JudgeIs
    <2>3. kind \notin {"right", "exception"}
        BY <1>4 DEF Responses, Refusals
    <2> QED
        BY <1>4, <2>2, <2>3, TellsIs
<1> QED
    BY <1>1, <1>2, <1>3, <1>4, VerdictTells

\* The end of a response that is not damaged, and of an exception.
LEMMA EndTells ==
    ASSUME ClientTypeInv, ~call.raw, NEW kind, Answers(got, kind, call, want)
    PROVE  /\ kind = "right" => Client!BodyFits(got.body) /\ Client!EchoFits(got.body)
           /\ kind = "wrong" => ~(Client!BodyFits(got.body) /\ Client!EchoFits(got.body))
           /\ kind \in {"right", "wrong"} /\ Client!BodyFits(got.body) /\ Client!EndBody(got.body) =>
                 Tells(result', kind)
           /\ kind \in Refusals /\ Client!EndException(got.body) => Tells(result', kind)
<1>1. /\ call \in Client!CallRecord /\ Client!WithinLimits(call)
    BY DEF ClientTypeInv
<1>2. /\ kind = "right" => got.body = Client!RightBody(call)
      /\ kind = "wrong" => got.body = Client!WrongBody(call)
      /\ kind = "exception" => Client!Byte(got.body) = 2
      /\ kind = "odd" => Client!Byte(got.body) = 7
    BY DEF Answers
<1>3. /\ kind = "right" => Client!BodyFits(got.body) /\ Client!EchoFits(got.body)
      /\ kind = "wrong" => ~(Client!BodyFits(got.body) /\ Client!EchoFits(got.body))
    BY <1>1, <1>2, BodyTells
<1>4. ASSUME kind \in {"right", "wrong"}, Client!BodyFits(got.body), Client!EndBody(got.body)
      PROVE  Tells(result', kind)
    BY <1>3, <1>4, EndBodyIs, TellsIs
<1>5. ASSUME kind \in Refusals, Client!EndException(got.body) PROVE Tells(result', kind)
    <2>1. CASE kind = "exception"
        <3>1. result' = Client!ExceptionNames[2]
            BY <1>2, <1>5, <2>1, EndExceptionIs
        <3>2. Client!ExceptionNames[2] = Client!NMBS_EXCEPTION_ILLEGAL_DATA_ADDRESS
            BY DEF Client!ExceptionNames
        <3> QED
            BY <2>1, <3>1, <3>2, TellsIs
    <2>2. CASE kind = "odd"
        <3>1. result' = Client!NMBS_ERROR_INVALID_RESPONSE
            BY <1>2, <1>5, <2>2, EndExceptionIs
        <3> QED
            BY <2>2, <3>1, TellsIs
    <2> QED
        BY <1>5, <2>1, <2>2 DEF Refusals
<1> QED
    BY <1>3, <1>4, <1>5

LEMMA QuietInit == Client!Init => QuietInv
BY DEF Client!Init, QuietInv, QuietCall

LEMMA QuietBegin ==
    ASSUME ClientTypeInv, NEW c \in setup.calls, Client!Begin(c)
    PROVE  QuietInv'
<1>1. /\ clientPc' = "send" /\ call' = c /\ msg'.unit = c.unit /\ msg'.function = c.function
      /\ quiet' = (air = << >>) /\ inbox' = << >> /\ air' = air
    BY DEF Client!Begin, Client!Flushed
<1>2. ASSUME quiet' PROVE Len(Waiting') = 0
    <2>1. inbox' = << >> /\ air' = << >>
        BY <1>1, <1>2
    <2> QED
        BY <2>1 DEF Waiting
<1> QED
    BY <1>1, <1>2 DEF QuietInv, QuietCall

LEMMA QuietSend == ASSUME ClientTypeInv, QuietInv, Client!Send PROVE QuietInv'
<1>1. /\ clientPc = "send" /\ clientPc' \in {"idle", "header"} /\ want' = msg
      /\ UNCHANGED <<setup, call, msg, got, buf, asked, quiet>>
    BY SendIs
<1> SUFFICES ASSUME QuietCall PROVE QuietInv'
    BY <1>1 DEF QuietInv, QuietCall, Client!Broadcast, Client!Transport
<1>2. /\ Len(Waiting) = 0 /\ msg.unit = call.unit /\ msg.function = call.function
      /\ ~call.raw /\ ~Client!Broadcast
    BY <1>1 DEF QuietInv, QuietCall
<1>3. CASE clientPc' = "idle"
    <2>1. result' \in {Client!NMBS_ERROR_TRANSPORT, Client!NMBS_ERROR_TIMEOUT}
        BY <1>2, <1>3, SendIs
    <2> QED
        BY <1>1, <1>3, <2>1 DEF QuietInv, AsAnswered
<1>4. CASE clientPc' = "header"
    <2>1. CASE Waiting' = Waiting /\ reply' = "none"
        BY <1>1, <1>2, <1>4, <2>1 DEF QuietInv, AsAnswered
    <2>2. ASSUME NEW frame \in AnswerFrame, reply' # "none", Answers(frame, reply', call, msg),
                 Waiting' = Waiting \o Client!Parts(frame)
          PROVE  QuietInv'
        <3>1. /\ Client!Parts(frame) \in Seq(AnswerPart) /\ Waiting \in Seq(AnswerPart)
              /\ Len(Client!Parts(frame)) \in 1 .. 3
              /\ Client!Parts(frame)[1] = Client!Part("header", frame)
            BY PartsAre, WaitingIs
        <3>2. /\ Len(Waiting') = Len(Waiting) + Len(Client!Parts(frame))
              /\ \A i \in 1 .. Len(Client!Parts(frame)) :
                    Waiting'[Len(Waiting) + i] = Client!Parts(frame)[i]
            BY <2>2, <3>1, ConcatIs
        <3>3. Len(Waiting') >= 1 /\ Waiting'[1] = Client!Part("header", frame)
            BY <1>2, <3>1, <3>2
        <3>4. Waiting'[1].part = "header" /\ Waiting'[1].frame = frame
            BY <3>3 DEF Client!Part
        <3> QED
            BY <1>1, <1>2, <1>4, <2>2, <3>3, <3>4 DEF QuietInv, AsAnswered
    <2> QED
        BY <1>4, <2>1, <2>2, SendTypes
<1> QED
    BY <1>1, <1>3, <1>4

LEMMA QuietReceive == ASSUME ClientTypeInv, QuietInv, Client!Receive PROVE QuietInv'
<1>1. /\ UNCHANGED <<setup, call, want, asked, quiet, reply>>
      /\ clientPc \notin {"idle", "send"} /\ clientPc' \notin {"send", "header"}
    BY ReadHeaderIs, ReadRestIs, ReadBodyTcpIs, ReadBodyRtuIs, ReadFooterIs, TimeOutIs, JudgeIs
    DEF Client!Receive
<1> SUFFICES ASSUME QuietCall, reply \in Client!Told PROVE AsAnswered'
    BY <1>1 DEF QuietInv, QuietCall, AsAnswered, Client!Told, Client!Broadcast, Client!Transport
<1>2. /\ want.unit = call.unit /\ want.function = call.function /\ ~call.raw
      /\ AsAnswered
    BY <1>1 DEF QuietInv, QuietCall
<1>3. /\ clientPc = "header" /\ Len(Waiting) >= 1 =>
            /\ reply # "none" /\ Waiting[1].part = "header"
            /\ Answers(Waiting[1].frame, reply, call, want)
      /\ clientPc # "header" => reply # "none" /\ Answers(got, reply, call, want)
      /\ clientPc \in {"body", "crc"} => reply \in Responses
      /\ clientPc \in {"exception", "exception_crc"} => reply \in Refusals
      /\ clientPc \in {"body", "exception"} /\ Client!Transport = "TCP" => buf = got.body
      /\ clientPc \in {"crc", "exception_crc"} => buf = got.body
      /\ clientPc = "crc" => Client!BodyFits(buf)
    BY <1>1, <1>2 DEF AsAnswered
<1>4. /\ reply # "short"
      /\ reply = "noise" => Client!Transport # "TCP"
      /\ Client!Transport' = Client!Transport /\ got \in AnswerFrame
    BY <1>1 DEF Client!Told, Client!Transport, ClientTypeInv
<1>5. CASE Client!ReadHeader
    <2>1. /\ clientPc = "header" /\ reply # "none" /\ got' = Waiting[1].frame
          /\ Answers(got', reply, call, want) /\ got' \in AnswerFrame
          /\ \/ clientPc' = "rest"
             \/ Client!Transport # "TCP" /\ Client!Judge(got')
        BY <1>3, <1>5, ReadHeaderIs DEF AnswerPart
    <2>2. CASE clientPc' = "rest"
        BY <1>1, <2>1, <2>2 DEF AsAnswered
    <2>3. CASE Client!Transport # "TCP" /\ Client!Judge(got')
        <3>1. \/ clientPc' = "body" /\ reply \in Responses
              \/ clientPc' = "exception" /\ reply \in Refusals
              \/ clientPc' = "idle" /\ Tells(result', reply)
            BY <1>2, <2>1, <2>3, JudgeTells
        <3> QED
            BY <1>1, <1>4, <2>1, <2>3, <3>1 DEF AsAnswered
    <2> QED
        BY <2>1, <2>2, <2>3
<1>6. CASE Client!ReadRest
    <2>1. /\ clientPc = "rest" /\ reply # "none" /\ got' = got /\ Answers(got, reply, call, want)
          /\ Client!Judge(got) /\ (got.whole => buf' = got.body)
        BY <1>3, <1>6, ReadRestIs
    <2>2. buf' = got.body
        BY <1>4, <2>1 DEF Answers
    <2>3. \/ clientPc' = "body" /\ reply \in Responses
          \/ clientPc' = "exception" /\ reply \in Refusals
          \/ clientPc' = "idle" /\ Tells(result', reply)
        BY <1>2, <1>4, <2>1, JudgeTells
    <2> QED
        BY <1>1, <2>1, <2>2, <2>3 DEF AsAnswered
<1>7. CASE Client!ReadBodyTcp
    <2>1. clientPc' = "idle" /\ clientPc # "header" /\ Client!Transport = "TCP"
        BY <1>7, ReadBodyTcpIs
    <2>2. clientPc \in {"body", "exception"} /\ buf = got.body /\ Answers(got, reply, call, want)
        BY <1>3, <1>7, <2>1, ReadBodyTcpIs
    <2>3. Tells(result', reply)
        <3>1. CASE clientPc = "body" /\ Client!BodyFits(buf) /\ Client!EndBody(buf)
            <4>1. reply \in {"right", "wrong"}
                BY <1>3, <1>4, <2>1, <3>1 DEF Responses
            <4> QED
                BY <1>2, <2>2, <3>1, <4>1, EndTells
        <3>2. CASE /\ clientPc = "body" /\ ~Client!BodyFits(buf)
                   /\ result' = Client!NMBS_ERROR_INVALID_RESPONSE
            <4>1. reply \in Responses /\ reply # "right"
                BY <1>2, <1>3, <2>2, <3>2, EndTells
            <4> QED
                BY <3>2, <4>1, TellsIs DEF Responses
        <3>3. CASE clientPc = "exception" /\ Client!EndException(buf)
            BY <1>2, <1>3, <2>2, <3>3, EndTells
        <3> QED
            BY <1>7, <3>1, <3>2, <3>3, ReadBodyTcpIs
    <2> QED
        BY <1>1, <2>1, <2>3 DEF AsAnswered
<1>8. CASE Client!ReadBodyRtu
    <2>1. /\ clientPc \in {"body", "exception"} /\ buf' = got.body /\ got' = got
          /\ reply # "none" /\ Answers(got, reply, call, want)
        BY <1>3, <1>8, ReadBodyRtuIs
    <2>2. CASE clientPc = "body" /\ Client!BodyFits(got.body) /\ clientPc' = "crc"
        <3>1. Client!BodyFits(buf)'
            BY <1>1, <2>1, <2>2 DEF Client!BodyFits
        <3> QED
            BY <1>1, <1>3, <2>1, <2>2, <3>1 DEF AsAnswered
    <2>3. CASE /\ clientPc = "body" /\ ~Client!BodyFits(got.body) /\ clientPc' = "idle"
               /\ result' = Client!NMBS_ERROR_INVALID_RESPONSE
        <3>1. reply \in Responses /\ reply # "right"
            BY <1>2, <1>3, <2>1, <2>3, EndTells
        <3>2. Tells(result', reply)
            BY <2>3, <3>1, TellsIs DEF Responses
        <3> QED
            BY <1>1, <2>3, <3>2 DEF AsAnswered
    <2>4. CASE clientPc = "exception" /\ clientPc' = "exception_crc"
        BY <1>1, <1>3, <2>1, <2>4 DEF AsAnswered
    <2> QED
        BY <1>8, <2>2, <2>3, <2>4, ReadBodyRtuIs
<1>9. CASE Client!ReadFooter
    <2>1. /\ clientPc' = "idle" /\ clientPc \in {"crc", "exception_crc"}
          /\ buf = got.body /\ Answers(got, reply, call, want)
        BY <1>3, <1>9, ReadFooterIs
    <2>2. Tells(result', reply)
        <3>1. CASE ~got.good /\ result' = Client!NMBS_ERROR_CRC
            <4>1. reply = "noise"
                BY <2>1, <3>1 DEF Answers
            <4> QED
                BY <3>1, <4>1, TellsIs
        <3>2. CASE clientPc = "crc" /\ got.good /\ Client!EndBody(buf)
            <4>1. reply \in {"right", "wrong"} /\ Client!BodyFits(got.body)
                BY <1>3, <2>1, <3>2 DEF Responses, Answers
            <4> QED
                BY <1>2, <2>1, <3>2, <4>1, EndTells
        <3>3. CASE clientPc = "exception_crc" /\ got.good /\ Client!EndException(buf)
            BY <1>2, <1>3, <2>1, <3>3, EndTells
        <3> QED
            BY <1>9, <3>1, <3>2, <3>3, ReadFooterIs
    <2> QED
        BY <1>1, <2>1, <2>2 DEF AsAnswered
<1>10. CASE Client!TimeOut
    BY <1>1, <1>10, TimeOutIs DEF AsAnswered
<1> QED
    BY <1>5, <1>6, <1>7, <1>8, <1>9, <1>10 DEF Client!Receive

LEMMA QuietStep == ClientTypeInv /\ QuietInv /\ [Client!Next]_(Client!vars) => QuietInv'
<1> SUFFICES ASSUME ClientTypeInv, QuietInv, [Client!Next]_(Client!vars) PROVE QuietInv'
    OBVIOUS
<1>1. CASE Client!Arrive \/ UNCHANGED Client!vars
    <2>1. /\ Waiting' = Waiting
          /\ UNCHANGED <<setup, clientPc, call, msg, want, buf, got, result, asked, quiet, reply>>
        BY <1>1, ClientArrives, ClientStutters
    <2>2. Client!Told' = Client!Told /\ QuietCall' = QuietCall /\ Client!Transport' = Client!Transport
        BY <2>1 DEF Client!Told, QuietCall, Client!Broadcast, Client!Transport
    <2>3. Client!BodyFits(buf)' = Client!BodyFits(buf)
        BY <2>1 DEF Client!BodyFits
    <2> QED
        BY <2>1, <2>2, <2>3 DEF QuietInv, AsAnswered
<1>2. CASE Client!ReceiveRaw
    BY <1>2 DEF Client!ReceiveRaw, QuietInv, QuietCall
<1> QED
    BY <1>1, <1>2, QuietBegin, QuietSend, QuietReceive DEF Client!Next

(* For any calls and answers, damaged, of another unit or wrong, and for   *)
(* whatever was left on the line before the call: if nothing is under way  *)
(* when the call begins and it does not time out, it returns what the      *)
(* server answered, success for the right answer alone.                    *)
THEOREM QuietCallsTellTheTruth == Spec => []QuietCallTellsTruth
<1>1. QuietInv => QuietCallTellsTruth
    <2> SUFFICES ASSUME QuietInv, clientPc = "idle", QuietCall, reply \in Client!Told,
                        result \notin {Client!NMBS_ERROR_TIMEOUT, Client!NMBS_ERROR_TRANSPORT}
                 PROVE  Tells(result, reply)
        BY DEF QuietCallTellsTruth, Client!QuietCallTellsTruth, QuietCall, Tells
    <2> QED
        BY DEF QuietInv, AsAnswered
<1>2. Client!Spec => [](ClientTypeInv /\ QuietInv)
    BY ClientTypeInit, ClientTypeStep, QuietInit, QuietStep, PTL DEF Client!Spec
<1> QED
    BY <1>1, <1>2, ClientOfMC, PTL

-----------------------------------------------------------------------------
(* Sums over the first of several quantities, and the least of a set.      *)

LEMMA LeastIs ==
    ASSUME NEW T \in SUBSET Nat, T # {}
    PROVE  \E m \in T : \A k \in T : m <= k
<1> DEFINE R == {ss \in Nat \X Nat : ss[1] < ss[2]}
<1>1. IsWellFoundedOn(R, Nat)
    BY NatLessThanWellFounded, Zenon DEF OpToRel
<1>2. \A k, m \in Nat : k < m => <<k, m>> \in R
    OBVIOUS
<1> HIDE DEF R
<1>3. PICK m \in T : \A k \in T : ~ (<<k, m>> \in R)
    BY <1>1, WFMin
<1>4. \A k \in T : ~ (k < m)
    BY <1>2, <1>3, Zenon
<1>5. \A k \in T : m <= k
    BY <1>4
<1> QED
    BY <1>5

\* f is the sums of the quantities w up to n.
Sums(f, w, n) ==
    /\ f \in [0 .. n -> Nat] /\ f[0] = w[0]
    /\ \A k \in 1 .. n : f[k] = f[k - 1] + w[k]

LEMMA SumsExist ==
    ASSUME NEW n \in Nat, NEW w \in [0 .. n -> Nat]
    PROVE  \E f : Sums(f, w, n)
<1> DEFINE T == {m \in 0 .. n : ~ \E f : Sums(f, w, m)}
<1> SUFFICES ASSUME T # {} PROVE FALSE
    BY DEF T
<1>0. T \in SUBSET Nat
    OBVIOUS
<1>1. PICK m \in T : \A k \in T : m <= k
    <2> HIDE DEF T
    <2> QED
        BY <1>0, LeastIs
<1>2. m \in 0 .. n /\ ~ \E f : Sums(f, w, m)
    BY <1>1
<1>3. CASE m = 0
    <2>1. Sums([k \in 0 .. 0 |-> w[0]], w, 0)
        BY DEF Sums
    <2> QED
        BY <1>2, <1>3, <2>1
<1>4. CASE m # 0
    <2>1. m - 1 \in 0 .. n /\ m - 1 \notin T
        BY <1>1, <1>2, <1>4
    <2>2. PICK f : Sums(f, w, m - 1)
        BY <2>1
    <2> DEFINE g == [k \in 0 .. m |-> IF k = m THEN f[m - 1] + w[m] ELSE f[k]]
    <2>3. f[m - 1] \in Nat /\ w[m] \in Nat /\ \A k \in 0 .. m - 1 : f[k] \in Nat
        BY <1>2, <1>4, <2>1, <2>2 DEF Sums
    <2>4. g \in [0 .. m -> Nat] /\ g[0] = w[0]
        BY <1>2, <1>4, <2>2, <2>3 DEF Sums
    <2>5. ASSUME NEW k \in 1 .. m PROVE g[k] = g[k - 1] + w[k]
        <3>1. CASE k = m
            BY <1>2, <1>4, <3>1
        <3>2. CASE k # m
            <4>1. k \in 1 .. m - 1 /\ k - 1 \in 0 .. m - 1
                BY <1>2, <1>4, <3>2
            <4>2. f[k] = f[k - 1] + w[k]
                BY <2>2, <4>1 DEF Sums
            <4> QED
                BY <1>2, <1>4, <3>2, <4>1, <4>2
        <3> QED
            BY <3>1, <3>2
    <2>6. Sums(g, w, m)
        BY <2>4, <2>5 DEF Sums
    <2> QED
        BY <1>2, <2>6
<1> QED
    BY <1>3, <1>4

LEMMA SumsTyped ==
    ASSUME NEW n \in Nat, NEW w \in [0 .. n -> Nat], NEW b, b[0] = w[0],
           \A k \in 1 .. n : b[k] = b[k - 1] + w[k]
    PROVE  \A k \in 0 .. n : b[k] \in Nat
<1> DEFINE T == {m \in 0 .. n : b[m] \notin Nat}
<1> SUFFICES ASSUME T # {} PROVE FALSE
    OBVIOUS
<1>0. T \in SUBSET Nat
    OBVIOUS
<1>1. PICK m \in T : \A k \in T : m <= k
    <2> HIDE DEF T
    <2> QED
        BY <1>0, LeastIs
<1>2. m \in 0 .. n /\ b[m] \notin Nat
    BY <1>1
<1>3. m # 0 /\ w[m] \in Nat
    BY <1>2
<1>4. m - 1 \in 0 .. n /\ m - 1 \notin T /\ m \in 1 .. n
    BY <1>1, <1>2, <1>3
<1>5. b[m - 1] \in Nat /\ b[m] = b[m - 1] + w[m]
    BY <1>4
<1> QED
    BY <1>2, <1>3, <1>5

-----------------------------------------------------------------------------
(* File records: the sizes of sub-requests.                                *)

FileRequest == [function : {20, 21}, subs : Seq(File!SubRequest), size : 0 .. 255]

LEMMA WordIs == File!WordSize \in Nat /\ File!WordSize >= 1000
BY DEF File!WordSize

LEMMA SubIs == \A s \in File!SubRequest : s.length \in Nat /\ s.legal \in BOOLEAN
BY WordIs DEF File!SubRequest

LEMMA BytesAre ==
    ASSUME NEW subs \in Seq(File!SubRequest)
    PROVE  /\ File!Bytes(subs) \in [0 .. Len(subs) -> Nat] /\ File!Bytes(subs)[0] = 0
           /\ \A k \in 1 .. Len(subs) :
                 File!Bytes(subs)[k] = File!Bytes(subs)[k - 1] + 7 + 2 * subs[k].length
<1> DEFINE n == Len(subs)
           w == [k \in 0 .. n |-> IF k = 0 THEN 0 ELSE 7 + 2 * subs[k].length]
<1>1. n \in Nat /\ \A k \in 1 .. n : subs[k] \in File!SubRequest
    BY LenProperties, ElementOfSeq
<1>2. \A k \in 1 .. n : subs[k].length \in Nat
    BY <1>1, SubIs
<1>3. w \in [0 .. n -> Nat]
    BY <1>1, <1>2
<1>3a. w[0] = 0 /\ \A k \in 1 .. n : w[k] = 7 + 2 * subs[k].length
    BY <1>1
<1> HIDE DEF w
<1>4. PICK f : Sums(f, w, n)
    BY <1>1, <1>3, SumsExist
<1> DEFINE Turn(g) == [k \in 0 .. n |-> IF k = 0 THEN 0 ELSE g[k - 1] + (7 + 2 * subs[k].length)]
<1>5. f = Turn(f)
    <2>1. f \in [0 .. n -> Nat] /\ f[0] = 0
        BY <1>1, <1>4, <1>3a DEF Sums
    <2>2. \A k \in 1 .. n : f[k] = f[k - 1] + (7 + 2 * subs[k].length)
        BY <1>1, <1>4, <1>3a DEF Sums
    <2> QED
        BY <1>1, <2>1, <2>2
<1>6. File!Bytes(subs) = CHOOSE g : g = Turn(g)
    BY Zenon DEF File!Bytes, File!SizeOf, File!SubHeaderSize
<1>7. File!Bytes(subs) = Turn(File!Bytes(subs))
    BY <1>5, <1>6, Zenon
<1> DEFINE b == File!Bytes(subs)
<1> HIDE DEF b
<1>8. b = Turn(b)
    BY <1>7 DEF b
<1>9. /\ DOMAIN b = 0 .. n /\ b[0] = w[0] /\ \A k \in 1 .. n : b[k] = b[k - 1] + w[k]
      /\ b = [k \in 0 .. n |-> b[k]]
    <2>1. DOMAIN b = 0 .. n /\ b = [k \in 0 .. n |-> b[k]]
        BY <1>8, Zenon
    <2>2. b[0] = 0 /\ \A k \in 1 .. n : b[k] = b[k - 1] + (7 + 2 * subs[k].length)
        BY <1>1, <1>8
    <2> QED
        BY <1>3a, <2>1, <2>2
<1>10. \A k \in 0 .. n : b[k] \in Nat
    BY <1>1, <1>3, <1>9, SumsTyped
<1>11. b \in [0 .. n -> Nat] /\ b[0] = 0
    BY <1>1, <1>3a, <1>9, <1>10
<1>12. \A k \in 1 .. n : b[k] = b[k - 1] + 7 + 2 * subs[k].length
    <2> SUFFICES ASSUME NEW k \in 1 .. n PROVE b[k] = b[k - 1] + 7 + 2 * subs[k].length
        OBVIOUS
    <2>1. b[k] = b[k - 1] + (7 + 2 * subs[k].length)
        BY <1>9, <1>3a
    <2>2. b[k - 1] \in Nat /\ subs[k].length \in Nat
        BY <1>1, <1>2, <1>10
    <2> QED
        BY <2>1, <2>2
<1> QED
    BY <1>11, <1>12 DEF b

\* What is left of a write before its kth sub-request, counted in a word.
Left(r, k) ==
    LET left == r.size - File!Bytes(r.subs)[k - 1]
    IN  IF left >= 0 THEN left ELSE left + File!WordSize

LegalTo(subs, k) == \A i \in 1 .. k : subs[i].legal

\* Every call so far was answered without error.
NoneFailed(calls, k) == Len(calls) = k /\ \A i \in 1 .. k : calls[i] = File!NMBS_ERROR_NONE

\* What is told of a request, except the count of its answer.
ServedInOrder == File!AllCheckedFirst /\ File!AnswerTellsWhatWasServed /\ File!EchoIntact

FileInv ==
    /\ request \in FileRequest /\ File!WellFormed(request)
    /\ filePc \in {"received", "check", "serve", "overrun", "answered"}
    /\ index \in 1 .. Len(request.subs) + 1
    /\ callbacks \in Seq(CallbackErrors \cup {File!NMBS_ERROR_NONE})
    /\ filePc # "answered" =>
          /\ fileAnswer = File!NMBS_ERROR_NONE
          /\ data = [i \in DOMAIN request.subs |-> "network"]
    /\ filePc \in {"received", "check"} => callbacks = << >> /\ LegalTo(request.subs, index - 1)
    /\ filePc = "received" => index = 1 /\ size = request.size
    /\ filePc = "check" /\ ~File!IsRead => size = Left(request, index) /\ size >= 7
    /\ filePc \in {"serve", "overrun"} =>
          /\ index \in 1 .. Len(request.subs)
          /\ LegalTo(request.subs, Len(request.subs)) /\ NoneFailed(callbacks, index - 1)
          /\ ~File!IsRead => /\ File!Bytes(request.subs)[Len(request.subs)] = request.size
                         /\ size = Left(request, index)
    /\ filePc = "answered" => ServedInOrder

LEMMA FileRequestIs ==
    ASSUME request \in FileRequest
    PROVE  /\ request.function \in {20, 21} /\ request.subs \in Seq(File!SubRequest)
           /\ request.size \in Nat /\ request.size <= 255 /\ Len(request.subs) \in Nat
           /\ DOMAIN request.subs = 1 .. Len(request.subs)
           /\ \A i \in 1 .. Len(request.subs) : request.subs[i] \in File!SubRequest
<1>1. request.function \in {20, 21} /\ request.subs \in Seq(File!SubRequest) /\ request.size \in 0 .. 255
    BY Zenon DEF FileRequest
<1>2. \A n \in 0 .. 255 : n \in Nat /\ n <= 255
    OBVIOUS
<1>3. request.size \in Nat /\ request.size <= 255
    BY <1>1, <1>2, Zenon
<1>4. /\ Len(request.subs) \in Nat /\ DOMAIN request.subs = 1 .. Len(request.subs)
      /\ \A i \in 1 .. Len(request.subs) : request.subs[i] \in File!SubRequest
    BY <1>1, LenProperties, ElementOfSeq
<1> QED
    BY <1>1, <1>3, <1>4, Zenon

LEMMA FileErrorsDiffer ==
    /\ File!NMBS_ERROR_NONE # File!NMBS_ERROR_INVALID_REQUEST
    /\ File!NMBS_ERROR_NONE # File!NMBS_EXCEPTION_ILLEGAL_FUNCTION
    /\ File!NMBS_ERROR_NONE # File!NMBS_EXCEPTION_ILLEGAL_DATA_ADDRESS
    /\ File!NMBS_ERROR_NONE # File!NMBS_EXCEPTION_ILLEGAL_DATA_VALUE
    /\ File!NMBS_ERROR_NONE # File!NMBS_EXCEPTION_SERVER_DEVICE_FAILURE
BY DEF File!NMBS_ERROR_NONE, File!NMBS_ERROR_INVALID_REQUEST, File!NMBS_EXCEPTION_ILLEGAL_FUNCTION,
       File!NMBS_EXCEPTION_ILLEGAL_DATA_ADDRESS, File!NMBS_EXCEPTION_ILLEGAL_DATA_VALUE,
       File!NMBS_EXCEPTION_SERVER_DEVICE_FAILURE

\* What is left after a sub-request that begins within the request.
LEMMA AfterIs ==
    ASSUME request \in FileRequest, File!WellFormed(request), ~File!IsRead,
           index \in 1 .. Len(request.subs), request.subs[index].legal, size = Left(request, index)
    PROVE  /\ File!SizeAfter(index) = Left(request, index + 1)
           /\ Left(request, index + 1) \in Nat
           /\ Left(request, index + 1) = 0 <=> File!Bytes(request.subs)[index] = request.size
           /\ index < Len(request.subs) =>
                 /\ File!Bytes(request.subs)[index] < request.size
                 /\ File!Bytes(request.subs)[index + 1] <= request.size => Left(request, index + 1) >= 7
<1> DEFINE b == File!Bytes(request.subs)
           n == Len(request.subs)
           l == request.subs[index].length
<1>1. /\ request.function = 21 /\ n \in Nat /\ DOMAIN request.subs = 1 .. n
      /\ request.size \in Nat /\ request.size <= 255 /\ request.subs \in Seq(File!SubRequest)
      /\ \A i \in 1 .. n : request.subs[i] \in File!SubRequest
    BY FileRequestIs DEF File!IsRead
<1>2. /\ b \in [0 .. n -> Nat] /\ \A k \in 1 .. n : b[k] = b[k - 1] + 7 + 2 * request.subs[k].length
    BY <1>1, BytesAre
<1>3. \A i \in 1 .. n : b[i - 1] < request.size
    BY <1>1 DEF File!WellFormed
<1>4. l \in Nat /\ l <= 122
    <2>1. l <= 122
        BY <1>1 DEF File!WellFormed
    <2>2. l \in Nat
        BY <1>1, SubIs
    <2> QED
        BY <2>1, <2>2
<1> HIDE DEF b, n, l
<1>5. b[index - 1] \in Nat /\ b[index] \in Nat /\ b[index - 1] < request.size /\ index \in 1 .. n
    BY <1>1, <1>2, <1>3 DEF n
<1>6. b[index] = b[index - 1] + 7 + 2 * l
    BY <1>2, <1>5 DEF l
<1> DEFINE p == b[index - 1]
           q == b[index]
           rs == request.size
<1> HIDE DEF p, q, rs
<1>7. /\ p \in Nat /\ q \in Nat /\ rs \in Nat /\ rs <= 255 /\ p < rs
      /\ q = p + (7 + 2 * l) /\ size = rs - p
    <2>1. p \in Nat /\ q \in Nat /\ rs \in Nat /\ rs <= 255 /\ p < rs
        BY <1>1, <1>5 DEF p, q, rs
    <2>2. q = p + (7 + 2 * l)
        BY <1>4, <1>5, <1>6 DEF p, q
    <2>3. size = rs - p
        BY <2>1 DEF Left, b, p, rs
    <2> QED
        BY <2>1, <2>2, <2>3
<1>8. File!SizeAfter(index) = (size - (7 + 2 * l)) % File!WordSize
    BY <1>1, <1>5 DEF File!SizeAfter, File!Sub, File!SizeOf, File!SubHeaderSize, l, n
<1>9. \A x \in Int, y \in Nat :
         y >= 1000 /\ x <= 300 /\ x >= -300 => x % y = IF x >= 0 THEN x ELSE x + y
    OBVIOUS
<1>10. Left(request, index + 1) = IF rs - q >= 0 THEN rs - q ELSE rs - q + File!WordSize
    BY <1>5 DEF Left, b, n, q, rs
<1>11. size - (7 + 2 * l) = rs - q /\ rs - q \in Int /\ rs - q <= 300 /\ rs - q >= -300
    BY <1>4, <1>7
<1>12. File!SizeAfter(index) = Left(request, index + 1)
    BY <1>8, <1>9, <1>10, <1>11, WordIs
<1>13. Left(request, index + 1) \in Nat /\ (Left(request, index + 1) = 0 <=> q = rs)
    BY <1>7, <1>10, <1>11, WordIs
<1>14. ASSUME index < n
       PROVE  b[index] < request.size /\ (b[index + 1] <= request.size => Left(request, index + 1) >= 7)
    <2>1. index + 1 \in 1 .. n /\ (index + 1) - 1 = index
        BY <1>1, <1>5, <1>14
    <2>2. b[index] < request.size
        BY <1>3, <2>1
    <2>3. b[index + 1] = b[index] + 7 + 2 * request.subs[index + 1].length
        BY <1>2, <2>1
    <2>4. request.subs[index + 1].length \in Nat
        BY <1>1, <2>1, SubIs DEF n
    <2>5. b[index + 1] >= q + 7
        BY <1>7, <2>3, <2>4 DEF q
    <2>6. b[index + 1] \in Nat
        BY <1>2, <2>1
    <2> QED
        BY <1>7, <1>10, <2>2, <2>5, <2>6 DEF rs
<1> QED
    BY <1>12, <1>13, <1>14 DEF b, n, q, rs

LEMMA WellFormedRequests == \A r \in Requests : r \in FileRequest /\ File!WellFormed(r)
BY MCFileAssumption, Zenon DEF File!FileRecordAssumption, FileRequest

LEMMA FileInit == (File!Init \/ NoFile) => FileInv
<1>1. ASSUME File!Init PROVE FileInv
    <2>1. PICK r \in Requests : File!Arrival(r)
        BY <1>1 DEF File!Init
    <2>2. r \in FileRequest /\ File!WellFormed(r)
        BY WellFormedRequests
    <2>3. /\ request = r /\ filePc = "received" /\ index = 1 /\ size = r.size
          /\ data = [i \in DOMAIN r.subs |-> "network"] /\ fileAnswer = File!NMBS_ERROR_NONE
          /\ callbacks = << >>
        BY <2>1 DEF File!Arrival
    <2>4. index \in 1 .. Len(request.subs) + 1 /\ LegalTo(request.subs, index - 1)
        BY <2>2, <2>3, FileRequestIs DEF LegalTo
    <2> QED
        BY <2>2, <2>3, <2>4 DEF FileInv
<1>2. ASSUME NoFile PROVE FileInv
    <2>1. /\ request = [function |-> 20, subs |-> << >>, size |-> 0]
          /\ filePc = "received" /\ index = 1 /\ size = 0 /\ data = << >> /\ callbacks = << >>
          /\ fileAnswer = File!NMBS_ERROR_NONE
        BY <1>2 DEF NoFile, NMBS_ERROR_NONE, File!NMBS_ERROR_NONE
    <2>2. request \in FileRequest
        BY <2>1 DEF FileRequest
    <2>3. File!WellFormed(request) /\ LegalTo(request.subs, 0)
        BY <2>1 DEF File!WellFormed, LegalTo
    <2>4. data = [i \in DOMAIN request.subs |-> "network"] /\ size = request.size /\ Len(request.subs) = 0
        BY <2>1
    <2> QED
        BY <2>1, <2>2, <2>3, <2>4 DEF FileInv
<1> QED
    BY <1>1, <1>2

\* A refusal leaves what was served as it is.
LEMMA FileRefused ==
    ASSUME FileInv, filePc # "answered", filePc' = "answered", fileAnswer' # File!NMBS_ERROR_NONE,
           UNCHANGED <<request, index, callbacks>>
    PROVE  FileInv'
<1>1. /\ request' = request /\ index' = index /\ callbacks' = callbacks
      /\ request \in FileRequest /\ File!WellFormed(request)
      /\ index \in 1 .. Len(request.subs) + 1
      /\ callbacks \in Seq(CallbackErrors \cup {File!NMBS_ERROR_NONE})
    BY DEF FileInv
<1>2. /\ Len(request.subs) \in Nat /\ DOMAIN request.subs = 1 .. Len(request.subs)
      /\ DOMAIN callbacks = 1 .. Len(callbacks) /\ Len(callbacks) \in Nat
    BY <1>1, FileRequestIs, LenProperties
<1>3. callbacks = << >> \/ filePc \in {"serve", "overrun"}
    BY DEF FileInv
<1>4. filePc \in {"serve", "overrun"} =>
          /\ index \in 1 .. Len(request.subs) /\ LegalTo(request.subs, Len(request.subs))
          /\ NoneFailed(callbacks, index - 1)
          /\ ~File!IsRead => File!Bytes(request.subs)[Len(request.subs)] = request.size
    BY DEF FileInv
<1>5. File!AllCheckedFirst'
    BY <1>1, <1>2, <1>3, <1>4 DEF File!AllCheckedFirst, File!IsRead, LegalTo
<1>6. \A i \in 1 .. Len(callbacks) : i < Len(callbacks) => callbacks[i] = File!NMBS_ERROR_NONE
    BY <1>2, <1>3, <1>4 DEF NoneFailed
<1>7. ~ (callbacks # << >> /\ Len(callbacks) = Len(request.subs))
    BY <1>2, <1>3, <1>4 DEF NoneFailed
<1>8. File!AnswerTellsWhatWasServed'
    BY <1>1, <1>2, <1>6, <1>7 DEF File!AnswerTellsWhatWasServed
<1>9. File!EchoIntact'
    BY DEF File!EchoIntact
<1> QED
    BY <1>1, <1>5, <1>8, <1>9 DEF FileInv, ServedInOrder

LEMMA FileReceived == ASSUME FileInv, File!Received PROVE FileInv'
<1>1. /\ request' = request /\ index' = index /\ size' = size /\ data' = data /\ callbacks' = callbacks
      /\ filePc = "received" /\ index = 1 /\ size = request.size
    BY DEF File!Received, FileInv
<1>2. CASE filePc' = "check" /\ fileAnswer' = fileAnswer /\ ~ (request.size < 7)
    <2>1. request \in FileRequest /\ File!WellFormed(request)
        BY DEF FileInv
    <2>2. size = Left(request, index)
        <3>1. File!Bytes(request.subs)[0] = 0 /\ request.size \in Nat
            BY <2>1, FileRequestIs, BytesAre
        <3>2. request.size - 0 = request.size /\ request.size >= 0
            BY <3>1
        <3> QED
            BY <1>1, <3>1, <3>2 DEF Left
    <2>3. size >= 7
        BY <1>1, <1>2, <2>1, FileRequestIs
    <2> QED
        BY <1>1, <1>2, <2>1, <2>2, <2>3 DEF FileInv, File!IsRead
<1>3. CASE filePc' = "answered" /\ fileAnswer' # File!NMBS_ERROR_NONE
    BY <1>1, <1>3, FileRefused
<1> QED
    BY <1>2, <1>3, FileErrorsDiffer DEF File!Received, File!Refuse, File!SubHeaderSize

LEMMA FileCheckRead == ASSUME FileInv, File!CheckRead PROVE FileInv'
<1>1. /\ request' = request /\ size' = size /\ data' = data /\ callbacks' = callbacks
      /\ filePc = "check" /\ File!IsRead
    BY DEF File!CheckRead
<1>2. CASE ~File!Sub(index).legal
    <2>1. index' = index /\ filePc' = "answered" /\ fileAnswer' # File!NMBS_ERROR_NONE
        BY <1>2, FileErrorsDiffer DEF File!CheckRead, File!Refuse
    <2> QED
        BY <1>1, <2>1, FileRefused
<1>3. CASE File!Sub(index).legal
    <2>1. /\ request \in FileRequest /\ File!WellFormed(request) /\ index \in 1 .. Len(request.subs) + 1
          /\ callbacks = << >> /\ LegalTo(request.subs, index - 1)
          /\ callbacks \in Seq(CallbackErrors \cup {File!NMBS_ERROR_NONE})
          /\ fileAnswer = File!NMBS_ERROR_NONE /\ data = [i \in DOMAIN request.subs |-> "network"]
        BY <1>1 DEF FileInv
    <2>2. Len(request.subs) \in Nat /\ DOMAIN request.subs = 1 .. Len(request.subs)
        BY <2>1, FileRequestIs
    <2>3. index \in DOMAIN request.subs /\ request.subs[index].legal
        <3>1. ~ File!PastTheEnd.legal
            BY DEF File!PastTheEnd
        <3> QED
            BY <1>3, <3>1 DEF File!Sub
    <2>4. LegalTo(request.subs, index)
        BY <2>1, <2>2, <2>3 DEF LegalTo
    <2>5. fileAnswer' = fileAnswer
        BY <1>3 DEF File!CheckRead
    <2>6. CASE index < Len(request.subs)
        <3>1. index' = index + 1 /\ filePc' = "check"
            BY <1>1, <1>3, <2>6 DEF File!CheckRead
        <3>2. index' \in 1 .. Len(request.subs) + 1 /\ index' - 1 = index
            BY <2>1, <2>2, <2>6, <3>1
        <3> QED
            BY <1>1, <2>1, <2>4, <2>5, <3>1, <3>2 DEF FileInv, File!IsRead
    <2>7. CASE ~ (index < Len(request.subs))
        <3>1. index' = 1 /\ filePc' = "serve"
            BY <1>1, <1>3, <2>7 DEF File!CheckRead
        <3>2. index = Len(request.subs) /\ index' \in 1 .. Len(request.subs)
            BY <2>2, <2>3, <2>7, <3>1
        <3>3. NoneFailed(callbacks, index' - 1)
            BY <2>1, <3>1 DEF NoneFailed
        <3> QED
            BY <1>1, <2>1, <2>2, <2>4, <2>5, <3>1, <3>2, <3>3 DEF FileInv, File!IsRead
    <2> QED
        BY <2>6, <2>7
<1> QED
    BY <1>2, <1>3

LEMMA FileCheckWrite == ASSUME FileInv, File!CheckWrite PROVE FileInv'
<1>1. /\ request' = request /\ data' = data /\ callbacks' = callbacks
      /\ filePc = "check" /\ ~File!IsRead
    BY DEF File!CheckWrite
<1>2. CASE index' = index /\ filePc' = "answered" /\ fileAnswer' # File!NMBS_ERROR_NONE
    BY <1>1, <1>2, FileRefused
<1>3. CASE /\ File!Sub(index).legal /\ fileAnswer' = fileAnswer
           /\ \/ File!SizeAfter(index) >= 7 /\ index' = index + 1 /\ size' = File!SizeAfter(index) /\ filePc' = "check"
              \/ File!SizeAfter(index) = 0 /\ index' = 1 /\ size' = request.size /\ filePc' = "serve"
    <2>1. /\ request \in FileRequest /\ File!WellFormed(request) /\ index \in 1 .. Len(request.subs) + 1
          /\ callbacks = << >> /\ LegalTo(request.subs, index - 1) /\ size = Left(request, index)
          /\ callbacks \in Seq(CallbackErrors \cup {File!NMBS_ERROR_NONE})
          /\ fileAnswer = File!NMBS_ERROR_NONE /\ data = [i \in DOMAIN request.subs |-> "network"]
        BY <1>1 DEF FileInv
    <2>2. /\ Len(request.subs) \in Nat /\ DOMAIN request.subs = 1 .. Len(request.subs)
          /\ request.subs \in Seq(File!SubRequest) /\ request.size \in Nat
        BY <2>1, FileRequestIs
    <2>3. index \in 1 .. Len(request.subs) /\ request.subs[index].legal
        <3>1. ~ File!PastTheEnd.legal
            BY DEF File!PastTheEnd
        <3> QED
            BY <1>3, <2>2, <3>1 DEF File!Sub
    <2>4. LegalTo(request.subs, index)
        BY <2>1, <2>2, <2>3 DEF LegalTo
    <2>5. /\ File!SizeAfter(index) = Left(request, index + 1)
          /\ Left(request, index + 1) = 0 <=> File!Bytes(request.subs)[index] = request.size
          /\ index < Len(request.subs) => File!Bytes(request.subs)[index] < request.size
        BY <1>1, <2>1, <2>3, AfterIs
    <2>6. CASE File!SizeAfter(index) >= 7 /\ index' = index + 1 /\ size' = File!SizeAfter(index) /\ filePc' = "check"
        <3>1. index' \in 1 .. Len(request.subs) + 1 /\ index' - 1 = index
            BY <2>2, <2>3, <2>6
        <3>2. size' = Left(request', index') /\ size' >= 7 /\ LegalTo(request'.subs, index' - 1)
            BY <1>1, <2>4, <2>5, <2>6, <3>1
        <3> QED
            BY <1>1, <1>3, <2>1, <2>6, <3>1, <3>2 DEF FileInv, File!IsRead
    <2>7. CASE File!SizeAfter(index) = 0 /\ index' = 1 /\ size' = request.size /\ filePc' = "serve"
        <3>1. File!Bytes(request.subs)[index] = request.size
            BY <2>5, <2>7
        <3>2. index = Len(request.subs)
            BY <2>2, <2>3, <2>5, <3>1
        <3>3. index' \in 1 .. Len(request.subs) + 1 /\ index' \in 1 .. Len(request.subs)
            BY <2>2, <2>3, <2>7
        <3>4. size' = Left(request, 1)
            <4>1. File!Bytes(request.subs)[0] = 0
                BY <2>2, BytesAre
            <4>2. request.size - 0 = request.size /\ request.size >= 0
                BY <2>2
            <4> QED
                BY <2>7, <4>1, <4>2 DEF Left
        <3>5. NoneFailed(callbacks, index' - 1)
            BY <2>1, <2>7 DEF NoneFailed
        <3> QED
            BY <1>1, <1>3, <2>1, <2>4, <2>7, <3>1, <3>2, <3>3, <3>4, <3>5 DEF FileInv, File!IsRead
    <2> QED
        BY <1>3, <2>6, <2>7
<1>4. \/ index' = index /\ filePc' = "answered" /\ fileAnswer' # File!NMBS_ERROR_NONE
      \/ /\ File!Sub(index).legal /\ fileAnswer' = fileAnswer
         /\ \/ File!SizeAfter(index) >= 7 /\ index' = index + 1 /\ size' = File!SizeAfter(index) /\ filePc' = "check"
            \/ File!SizeAfter(index) = 0 /\ index' = 1 /\ size' = request.size /\ filePc' = "serve"
    BY FileErrorsDiffer DEF File!CheckWrite, File!Refuse, File!SubHeaderSize
<1> QED
    BY <1>2, <1>3, <1>4

\* A loop that is at its last sub-request ends, and no other does.
LEMMA ProceedIs ==
    ASSUME FileInv, filePc = "serve", File!Proceed
    PROVE  \/ /\ index < Len(request.subs) /\ filePc' = "serve" /\ index' = index + 1
              /\ ~File!IsRead => File!SizeAfter(index) = Left(request, index + 1)
           \/ index = Len(request.subs) /\ filePc' = "answered" /\ index' = index
<1>1. /\ request \in FileRequest /\ File!WellFormed(request)
      /\ index \in 1 .. Len(request.subs) /\ LegalTo(request.subs, Len(request.subs))
      /\ ~File!IsRead => /\ File!Bytes(request.subs)[Len(request.subs)] = request.size
                         /\ size = Left(request, index)
    BY DEF FileInv
<1>2. /\ Len(request.subs) \in Nat /\ request.subs \in Seq(File!SubRequest) /\ request.size \in Nat
      /\ DOMAIN request.subs = 1 .. Len(request.subs)
    BY <1>1, FileRequestIs
<1>3. CASE File!IsRead
    BY <1>1, <1>2, <1>3 DEF File!Proceed
<1>4. CASE ~File!IsRead
    <2>1. request.subs[index].legal
        BY <1>1, <1>2 DEF LegalTo
    <2>2. /\ File!SizeAfter(index) = Left(request, index + 1)
          /\ Left(request, index + 1) = 0 <=> File!Bytes(request.subs)[index] = request.size
          /\ index < Len(request.subs) /\ File!Bytes(request.subs)[index + 1] <= request.size
                => Left(request, index + 1) >= 7
        BY <1>1, <1>4, <2>1, AfterIs
    <2>3. CASE index = Len(request.subs)
        <3>1. File!SizeAfter(index) = 0
            BY <1>1, <1>4, <2>2, <2>3
        <3> QED
            BY <1>4, <2>3, <3>1 DEF File!Proceed, File!SubHeaderSize
    <2>4. CASE index < Len(request.subs)
        <3>1. File!Bytes(request.subs)[index + 1] <= request.size
            <4>1. CASE index + 1 = Len(request.subs)
                BY <1>1, <1>2, <1>4, <4>1
            <4>2. CASE index + 1 # Len(request.subs)
                <5>1. index + 2 \in DOMAIN request.subs /\ (index + 2) - 1 = index + 1
                    BY <1>1, <1>2, <2>4, <4>2
                <5>2. File!Bytes(request.subs)[(index + 2) - 1] < request.size
                    <6>1. request.function = 21
                        BY <1>1, <1>4, FileRequestIs DEF File!IsRead
                    <6> QED
                        BY <1>1, <5>1, <6>1 DEF File!WellFormed
                <5>3. File!Bytes(request.subs)[index + 1] \in Nat
                    BY <1>1, <1>2, <2>4, BytesAre
                <5> QED
                    BY <1>2, <5>1, <5>2, <5>3
            <4> QED
                BY <4>1, <4>2
        <3>2. File!SizeAfter(index) >= 7
            BY <2>2, <2>4, <3>1
        <3> QED
            BY <1>4, <2>2, <2>4, <3>2 DEF File!Proceed, File!SubHeaderSize
    <2> QED
        BY <1>1, <1>2, <2>3, <2>4
<1> QED
    BY <1>3, <1>4

LEMMA FileServe == ASSUME FileInv, File!Serve PROVE FileInv'
<1>1. PICK error \in CallbackErrors :
         /\ callbacks' = Append(callbacks, error)
         /\ \/ /\ error = File!NMBS_ERROR_NONE
               /\ data' = [data EXCEPT ![index] = "network"]
               /\ File!Proceed
               /\ size' = IF File!IsRead THEN size ELSE File!SizeAfter(index)
               /\ fileAnswer' = fileAnswer
            \/ /\ error # File!NMBS_ERROR_NONE
               /\ File!Refuse(IF File!nmbs_error_is_exception(error) THEN error
                              ELSE File!NMBS_EXCEPTION_SERVER_DEVICE_FAILURE)
               /\ index' = index
    BY DEF File!Serve
<1>2. /\ request' = request /\ filePc = "serve"
      /\ request \in FileRequest /\ File!WellFormed(request)
      /\ index \in 1 .. Len(request.subs) /\ LegalTo(request.subs, Len(request.subs))
      /\ NoneFailed(callbacks, index - 1)
      /\ ~File!IsRead => /\ File!Bytes(request.subs)[Len(request.subs)] = request.size
                         /\ size = Left(request, index)
      /\ callbacks \in Seq(CallbackErrors \cup {File!NMBS_ERROR_NONE})
      /\ fileAnswer = File!NMBS_ERROR_NONE /\ data = [i \in DOMAIN request.subs |-> "network"]
    BY DEF File!Serve, FileInv
<1>3. Len(request.subs) \in Nat /\ DOMAIN request.subs = 1 .. Len(request.subs)
    BY <1>2, FileRequestIs
<1>4. /\ callbacks' \in Seq(CallbackErrors \cup {File!NMBS_ERROR_NONE})
      /\ Len(callbacks') = index /\ callbacks'[index] = error /\ DOMAIN callbacks' = 1 .. index
      /\ \A i \in 1 .. index - 1 : callbacks'[i] = File!NMBS_ERROR_NONE
    <2> DEFINE Errors == CallbackErrors \cup {File!NMBS_ERROR_NONE}
    <2>1. callbacks \in Seq(Errors) /\ error \in Errors
        BY <1>2
    <2> HIDE DEF Errors
    <2>2. Len(callbacks) = index - 1 /\ \A i \in 1 .. index - 1 : callbacks[i] = File!NMBS_ERROR_NONE
        BY <1>2 DEF NoneFailed
    <2>3. (index - 1) + 1 = index
        BY <1>2, <1>3
    <2>4. /\ Append(callbacks, error) \in Seq(Errors) /\ Len(Append(callbacks, error)) = index
          /\ DOMAIN Append(callbacks, error) = 1 .. index
          /\ \A i \in 1 .. index - 1 : Append(callbacks, error)[i] = callbacks[i]
          /\ Append(callbacks, error)[index] = error
        BY <2>1, <2>2, <2>3, AppendIs
    <2> QED
        BY <1>1, <2>2, <2>4 DEF Errors
<1>5. File!AllCheckedFirst'
    BY <1>2, <1>3 DEF File!AllCheckedFirst, File!IsRead, LegalTo
<1>6. CASE error = File!NMBS_ERROR_NONE
    <2>1. /\ data' = data /\ File!Proceed /\ fileAnswer' = fileAnswer
          /\ size' = IF File!IsRead THEN size ELSE File!SizeAfter(index)
        BY <1>1, <1>2, <1>3, <1>6
    <2>2. NoneFailed(callbacks', index)
        BY <1>2, <1>3, <1>4, <1>6 DEF NoneFailed
    <2>3. CASE /\ index < Len(request.subs) /\ filePc' = "serve" /\ index' = index + 1
               /\ ~File!IsRead => File!SizeAfter(index) = Left(request, index + 1)
        <3>1. index' \in 1 .. Len(request.subs) /\ index' \in 1 .. Len(request.subs) + 1 /\ index' - 1 = index
            BY <1>2, <1>3, <2>3
        <3>2. ~File!IsRead => size' = Left(request, index')
            BY <2>1, <2>3
        <3> QED
            BY <1>2, <1>4, <2>1, <2>2, <2>3, <3>1, <3>2 DEF FileInv, File!IsRead
    <2>4. CASE index = Len(request.subs) /\ filePc' = "answered" /\ index' = index
        <3>1. index' \in 1 .. Len(request.subs) + 1 /\ callbacks' # << >>
            BY <1>2, <1>3, <1>4, <2>4
        <3>2. \A i \in 1 .. index : callbacks'[i] = File!NMBS_ERROR_NONE
            BY <2>2 DEF NoneFailed
        <3>3. File!AnswerTellsWhatWasServed'
            BY <1>2, <1>4, <2>1, <2>4, <3>1, <3>2 DEF File!AnswerTellsWhatWasServed
        <3>4. File!EchoIntact'
            BY <1>2, <2>1 DEF File!EchoIntact
        <3> QED
            BY <1>2, <1>4, <1>5, <2>4, <3>1, <3>3, <3>4 DEF FileInv, ServedInOrder
    <2> QED
        BY <1>2, <2>1, <2>3, <2>4, ProceedIs
<1>7. CASE error # File!NMBS_ERROR_NONE
    <2>1. index' = index /\ filePc' = "answered" /\ fileAnswer' # File!NMBS_ERROR_NONE
        BY <1>1, <1>7, FileErrorsDiffer DEF File!Refuse
    <2>2. \A i \in 1 .. index : i < index => callbacks'[i] = File!NMBS_ERROR_NONE
        BY <1>2, <1>3, <1>4
    <2>3. index \in 1 .. index /\ callbacks'[index] # File!NMBS_ERROR_NONE
        BY <1>2, <1>3, <1>4, <1>7
    <2>4. File!AnswerTellsWhatWasServed'
        BY <1>4, <2>1, <2>2, <2>3 DEF File!AnswerTellsWhatWasServed
    <2>5. File!EchoIntact'
        BY <2>1 DEF File!EchoIntact
    <2>6. index' \in 1 .. Len(request.subs) + 1
        BY <1>2, <1>3, <2>1
    <2> QED
        BY <1>2, <1>4, <1>5, <2>1, <2>4, <2>5, <2>6 DEF FileInv, ServedInOrder
<1> QED
    BY <1>6, <1>7

LEMMA FileStep == FileInv /\ [File!Next]_(File!vars) => FileInv'
<1> SUFFICES ASSUME FileInv, [File!Next]_(File!vars) PROVE FileInv'
    OBVIOUS
<1>1. CASE File!NotProvided
    <2>1. /\ request' = request /\ index' = index /\ callbacks' = callbacks /\ filePc # "answered"
          /\ filePc' = "answered" /\ fileAnswer' # File!NMBS_ERROR_NONE
        BY <1>1, FileErrorsDiffer DEF File!NotProvided, File!Refuse
    <2> QED
        BY <2>1, FileRefused
<1>2. CASE File!Overrun
    BY <1>2 DEF File!Overrun, FileInv, File!IsRead
<1>3. CASE UNCHANGED File!vars
    BY <1>3 DEF File!vars, FileInv, File!IsRead, ServedInOrder, File!AllCheckedFirst,
                File!AnswerTellsWhatWasServed, File!EchoIntact
<1> QED
    BY <1>1, <1>2, <1>3, FileReceived, FileCheckRead, FileCheckWrite, FileServe DEF File!Next

LEMMA RecordBytesAre ==
    ASSUME NEW subs \in Seq(File!SubRequest)
    PROVE  File!RecordBytes(subs)[Len(subs)] \in Nat
<1> DEFINE n == Len(subs)
           w == [k \in 0 .. n |-> IF k = 0 THEN 0 ELSE 2 + 2 * subs[k].length]
<1>1. n \in Nat /\ \A k \in 1 .. n : subs[k] \in File!SubRequest
    BY LenProperties, ElementOfSeq
<1>2. \A k \in 1 .. n : subs[k].length \in Nat
    BY <1>1, SubIs
<1>3. w \in [0 .. n -> Nat] /\ w[0] = 0 /\ \A k \in 1 .. n : w[k] = 2 + 2 * subs[k].length
    BY <1>1, <1>2
<1> HIDE DEF w
<1>4. PICK f : Sums(f, w, n)
    BY <1>1, <1>3, SumsExist
<1> DEFINE Turn(g) == [k \in 0 .. n |-> IF k = 0 THEN 0 ELSE g[k - 1] + (2 + 2 * subs[k].length)]
<1>5. f = Turn(f)
    <2>1. f \in [0 .. n -> Nat] /\ f[0] = 0 /\ \A k \in 1 .. n : f[k] = f[k - 1] + (2 + 2 * subs[k].length)
        BY <1>1, <1>3, <1>4 DEF Sums
    <2> QED
        BY <1>1, <2>1
<1>6. File!RecordBytes(subs) = CHOOSE g : g = Turn(g)
    BY Zenon DEF File!RecordBytes
<1> DEFINE b == File!RecordBytes(subs)
<1>7. b = Turn(b)
    BY <1>5, <1>6, Zenon
<1> HIDE DEF b
<1>8. /\ DOMAIN b = 0 .. n /\ b[0] = w[0] /\ \A k \in 1 .. n : b[k] = b[k - 1] + w[k]
      /\ b = [k \in 0 .. n |-> b[k]]
    <2>1. DOMAIN b = 0 .. n /\ b = [k \in 0 .. n |-> b[k]]
        BY <1>7, Zenon
    <2>2. b[0] = 0 /\ \A k \in 1 .. n : b[k] = b[k - 1] + (2 + 2 * subs[k].length)
        BY <1>1, <1>7
    <2> QED
        BY <1>3, <2>1, <2>2
<1>9. \A k \in 0 .. n : b[k] \in Nat
    BY <1>1, <1>3, <1>8, SumsTyped
<1> QED
    BY <1>1, <1>9 DEF b

\* What a read counts is the count of its answer, in a byte.
CountInv ==
    /\ filePc \in {"check", "serve"} /\ File!IsRead => count = File!DataSize(request.subs)
    /\ File!CountTrue

LEMMA CountStep == FileInv /\ CountInv /\ [File!Next]_(File!vars) => CountInv'
<1> SUFFICES ASSUME FileInv, CountInv, [File!Next]_(File!vars) PROVE CountInv'
    OBVIOUS
<1>1. CASE File!Received
    <2>1. request' = request /\ (filePc' = "check" => count' = IF File!IsRead THEN File!DataSize(request.subs) ELSE 0)
        BY <1>1 DEF File!Received, File!Refuse
    <2>2. filePc' \in {"check", "answered"} /\ (filePc' = "answered" => fileAnswer' # File!NMBS_ERROR_NONE)
        BY <1>1, FileErrorsDiffer DEF File!Received, File!Refuse
    <2> QED
        BY <2>1, <2>2 DEF CountInv, File!CountTrue, File!IsRead
<1>2. CASE File!CheckRead
    <2>1. /\ request' = request /\ count' = count /\ filePc = "check"
          /\ filePc' = "answered" => fileAnswer' # File!NMBS_ERROR_NONE
        BY <1>2, FileErrorsDiffer DEF File!CheckRead, File!Refuse
    <2> QED
        BY <2>1 DEF CountInv, File!CountTrue, File!IsRead
<1>3. CASE File!CheckWrite
    BY <1>3 DEF File!CheckWrite, CountInv, File!CountTrue, File!IsRead
<1>4. CASE File!Serve
    <2>1. /\ request' = request /\ count' = count /\ filePc = "serve"
          /\ File!IsRead => File!Fit(request.subs, index)
        BY <1>4 DEF File!Serve
    <2>2. \/ File!Proceed
          \/ filePc' = "answered" /\ fileAnswer' # File!NMBS_ERROR_NONE
        BY <1>4, FileErrorsDiffer DEF File!Serve, File!Refuse
    <2>3. CASE filePc' = "answered" /\ fileAnswer' = File!NMBS_ERROR_NONE /\ File!IsRead
        <3>1. index = Len(request.subs)
            BY <2>1, <2>2, <2>3, ProceedIs
        <3> DEFINE r == File!RecordBytes(request.subs)[Len(request.subs)]
        <3>2. r \in Nat
            BY RecordBytesAre, FileRequestIs DEF FileInv
        <3>3. 9 + r <= 260
            BY <2>1, <2>3, <3>1 DEF File!Fit, File!AnswerHeader, File!BufferSize
        <3>4. count = r % 256
            BY <2>1, <2>3 DEF CountInv, File!DataSize
        <3> HIDE DEF r
        <3>5. count = r
            BY <3>2, <3>3, <3>4
        <3> QED
            BY <2>1, <2>3, <3>5 DEF CountInv, File!CountTrue, r
    <2>4. CASE ~ (filePc' = "answered" /\ fileAnswer' = File!NMBS_ERROR_NONE /\ File!IsRead)
        BY <2>1, <2>4 DEF CountInv, File!CountTrue, File!IsRead
    <2> QED
        BY <2>3, <2>4
<1>5. CASE File!Overrun
    BY <1>5 DEF File!Overrun, CountInv, File!CountTrue
<1>6. CASE File!NotProvided
    <2>1. filePc' = "answered" /\ fileAnswer' # File!NMBS_ERROR_NONE
        BY <1>6, FileErrorsDiffer DEF File!NotProvided, File!Refuse
    <2> QED
        BY <2>1 DEF CountInv, File!CountTrue
<1>7. CASE UNCHANGED File!vars
    BY <1>7 DEF File!vars, CountInv, File!CountTrue, File!IsRead
<1> QED
    BY <1>1, <1>2, <1>3, <1>4, <1>5, <1>6, <1>7 DEF File!Next

(* A request for several file records is served as a whole, in order and   *)
(* once, or told to be refused: the program is not called before all of it *)
(* has been found good, whatever wraps while it is checked, nothing is     *)
(* served after a refusal, the answer to a write is its request, and that  *)
(* to a read counts its bytes.  It holds for any requests; of a read whose *)
(* records do not fit msg.buf it speaks only up to the first that does     *)
(* not.                                                                    *)
THEOREM RequestsAreServedAsAnswered == Spec => []ServedAsAnswered
<1>1. Init => FileInv /\ CountInv
    <2>1. Init => filePc = "received"
        BY DEF Init, File!Init, File!Arrival, NoFile
    <2> QED
        BY <2>1, FileInit DEF Init, CountInv, File!CountTrue
<1>2. FileInv /\ CountInv /\ [Next]_vars => FileInv' /\ CountInv'
    <2>1. [Next]_vars => [File!Next]_(File!vars)
        BY DEF Next, vars, File!vars, fileVars
    <2> QED
        BY <2>1, FileStep, CountStep
<1>3. FileInv /\ CountInv => ServedAsAnswered
    <2>1. ASSUME FileInv, filePc # "answered" PROVE ServedInOrder
        <3>1. callbacks = << >> \/ (filePc \in {"serve", "overrun"} /\ NoneFailed(callbacks, index - 1))
            BY <2>1 DEF FileInv
        <3>2. DOMAIN callbacks = 1 .. Len(callbacks) /\ Len(callbacks) \in Nat
            BY <2>1, LenProperties DEF FileInv
        <3>3. DOMAIN request.subs = 1 .. Len(request.subs)
            BY <2>1, FileRequestIs DEF FileInv
        <3>4. File!AllCheckedFirst
            BY <2>1, <3>1, <3>3 DEF FileInv, File!AllCheckedFirst, LegalTo
        <3>5. File!AnswerTellsWhatWasServed
            BY <2>1, <3>1, <3>2 DEF File!AnswerTellsWhatWasServed, NoneFailed
        <3>6. File!EchoIntact
            BY <2>1 DEF File!EchoIntact
        <3> QED
            BY <3>4, <3>5, <3>6 DEF ServedInOrder
    <2>2. FileInv => ServedInOrder
        BY <2>1 DEF FileInv
    <2> QED
        BY <2>2 DEF CountInv, ServedInOrder, ServedAsAnswered, File!ServedAsAnswered
<1> QED
    BY <1>1, <1>2, <1>3, PTL DEF Spec

-----------------------------------------------------------------------------
(* Lists of objects: sets of ids in their order.                           *)

Rank(T, i) == Cardinality({j \in T : j <= i})


LEMMA RankIs ==
    ASSUME NEW T \in SUBSET Nat, IsFiniteSet(T)
    PROVE  /\ \A i \in T : Rank(T, i) \in 1 .. Cardinality(T)
           /\ \A i, j \in T : Rank(T, i) = Rank(T, j) => i = j
           /\ \A k \in 1 .. Cardinality(T) : \E i \in T : Rank(T, i) = k
<1> DEFINE Upto(i) == {j \in T : j <= i}
           n == Cardinality(T)
           rank == [i \in T |-> Rank(T, i)]
<1>1. n \in Nat
    BY FS_CardinalityType
<1>2. ASSUME NEW i \in T
      PROVE  IsFiniteSet(Upto(i)) /\ Rank(T, i) \in 1 .. n
    <2>1. IsFiniteSet(Upto(i)) /\ Cardinality(Upto(i)) <= n
        BY FS_Subset
    <2>2. i \in Upto(i) /\ Cardinality(Upto(i)) \in Nat
        BY <2>1, FS_CardinalityType
    <2>3. Cardinality(Upto(i)) # 0
        BY <2>1, <2>2, FS_EmptySet
    <2> QED
        BY <1>1, <2>1, <2>2, <2>3 DEF Rank
<1>3. ASSUME NEW i \in T, NEW j \in T, i < j
      PROVE  Rank(T, i) # Rank(T, j)
    <2>1. j <= j /\ ~ (j <= i) /\ \A k \in T : k <= i => k <= j
        BY <1>3
    <2>2. Upto(i) \in SUBSET Upto(j) /\ j \in Upto(j) /\ j \notin Upto(i)
        BY <2>1, Zenon
    <2>3. Cardinality(Upto(j)) = Cardinality(Upto(i)) => Upto(j) = Upto(i)
        BY <1>2, <2>2, FS_Subset
    <2> QED
        BY <2>2, <2>3 DEF Rank
<1>4. \A i, j \in T : Rank(T, i) = Rank(T, j) => i = j
    <2> SUFFICES ASSUME NEW i \in T, NEW j \in T, Rank(T, i) = Rank(T, j), i # j
                 PROVE  FALSE
        OBVIOUS
    <2>1. i < j \/ j < i
        OBVIOUS
    <2> QED
        BY <1>3, <2>1
<1>5. rank \in Injection(T, 1 .. n)
    BY <1>2, <1>4 DEF Injection, IsInjective
<1>6. IsFiniteSet(1 .. n) /\ Cardinality(1 .. n) = n
    BY <1>1, FS_Interval
<1>7. rank \in Surjection(T, 1 .. n)
    BY <1>5, <1>6, FS_Injection
<1>8. \A k \in 1 .. n : \E i \in T : Rank(T, i) = k
    BY <1>7 DEF Surjection
<1> QED
    BY <1>2, <1>4, <1>8

LEMMA IdsAre ==
    /\ Identification!Ids \in SUBSET Nat /\ IsFiniteSet(Identification!Ids)
    /\ 127 \in Identification!Ids /\ 0 \in Identification!Ids
    /\ \A i \in Identification!Ids : i \in Nat /\ i <= 255
    /\ \A T \in SUBSET Identification!Ids : T \in SUBSET Nat /\ IsFiniteSet(T)
<1>1. Identification!Ids \in SUBSET Nat /\ \A i \in Identification!Ids : i \in Nat /\ i <= 255
    BY DEF Identification!Ids
<1>2. 127 \in Identification!Ids /\ 0 \in Identification!Ids
    BY DEF Identification!Ids
<1>3. IsFiniteSet(Identification!Ids)
    <2>1. PICK n \in Nat : n = 255
        OBVIOUS
    <2>2. Identification!Ids = 0 .. n
        BY <2>1, Zenon DEF Identification!Ids
    <2>3. IsFiniteSet(0 .. n)
        BY FS_Interval
    <2> QED
        BY <2>2, <2>3
<1> QED
    BY <1>1, <1>2, <1>3, FS_Subset

LEMMA InOrderIs ==
    ASSUME NEW T \in SUBSET Identification!Ids
    PROVE  /\ Cardinality(T) \in Nat /\ Identification!InOrder(T) \in Seq(Identification!Ids)
           /\ Len(Identification!InOrder(T)) = Cardinality(T)
           /\ DOMAIN Identification!InOrder(T) = 1 .. Cardinality(T)
           /\ \A k \in 1 .. Cardinality(T) :
                 Identification!InOrder(T)[k] \in T /\ Rank(T, Identification!InOrder(T)[k]) = k
           /\ \A i \in T : Rank(T, i) \in 1 .. Cardinality(T) /\ Identification!InOrder(T)[Rank(T, i)] = i
<1> DEFINE n == Cardinality(T)
           s == Identification!InOrder(T)
<1>1. T \in SUBSET Nat /\ IsFiniteSet(T) /\ n \in Nat
    BY IdsAre, FS_CardinalityType
<1>2. s = [k \in 1 .. n |-> CHOOSE i \in T : Rank(T, i) = k]
    BY DEF Identification!InOrder, Identification!Place, Identification!Cardinality, Cardinality, Rank
<1>3. /\ \A i \in T : Rank(T, i) \in 1 .. n
      /\ \A i, j \in T : Rank(T, i) = Rank(T, j) => i = j
      /\ \A k \in 1 .. n : \E i \in T : Rank(T, i) = k
    BY <1>1, RankIs, Zenon
<1> HIDE DEF n, s
<1>4. \A k \in 1 .. n : s[k] \in T /\ Rank(T, s[k]) = k
    <2> SUFFICES ASSUME NEW k \in 1 .. n PROVE s[k] \in T /\ Rank(T, s[k]) = k
        OBVIOUS
    <2>1. s[k] = CHOOSE i \in T : Rank(T, i) = k
        BY <1>2
    <2>2. \E i \in T : Rank(T, i) = k
        BY <1>3, Zenon
    <2> QED
        BY <2>1, <2>2, Zenon
<1>5. DOMAIN s = 1 .. n /\ s \in [1 .. n -> Identification!Ids]
    BY <1>2, <1>4
<1>6. s \in Seq(Identification!Ids) /\ Len(s) = n
    BY <1>1, <1>5
<1>7. \A i \in T : s[Rank(T, i)] = i
    <2> SUFFICES ASSUME NEW i \in T PROVE s[Rank(T, i)] = i
        OBVIOUS
    <2>1. Rank(T, i) \in 1 .. n
        BY <1>3, Zenon
    <2>2. s[Rank(T, i)] \in T /\ Rank(T, s[Rank(T, i)]) = Rank(T, i)
        BY <1>4, <2>1, Zenon
    <2> QED
        BY <1>3, <2>2, Zenon
<1> QED
    BY <1>1, <1>3, <1>4, <1>5, <1>6, <1>7, Zenon DEF n, s

\* Each is less than the next.
Ordered(s) == \A k \in DOMAIN s : k > 1 => s[k - 1] < s[k]

LEMMA InOrderIsOrdered ==
    ASSUME NEW T \in SUBSET Identification!Ids
    PROVE  Ordered(Identification!InOrder(T))
<1> DEFINE n == Cardinality(T)
           s == Identification!InOrder(T)
<1>1. /\ n \in Nat /\ DOMAIN s = 1 .. n /\ T \in SUBSET Nat /\ IsFiniteSet(T)
      /\ \A k \in 1 .. n : s[k] \in T /\ Rank(T, s[k]) = k
    BY InOrderIs, IdsAre
<1> HIDE DEF n, s
<1>2. ASSUME NEW k \in 1 .. n, k > 1
      PROVE  s[k - 1] < s[k]
    <2> DEFINE i == s[k - 1]
               j == s[k]
    <2>1. k - 1 \in 1 .. n
        BY <1>1, <1>2
    <2>2. i \in T /\ j \in T /\ Rank(T, i) = k - 1 /\ Rank(T, j) = k /\ i \in Nat /\ j \in Nat
        BY <1>1, <1>2, <2>1
    <2> HIDE DEF i, j
    <2> SUFFICES ASSUME ~ (i < j) PROVE FALSE
        BY DEF i, j
    <2>3. \A x \in T : x <= j => x <= i
        BY <1>1, <2>2
    <2>4. {x \in T : x <= j} \in SUBSET {x \in T : x <= i} /\ IsFiniteSet({x \in T : x <= i})
        BY <1>1, <2>3, FS_Subset
    <2>5. Rank(T, j) <= Rank(T, i)
        BY <2>4, FS_Subset DEF Rank
    <2> QED
        BY <1>1, <1>2, <2>2, <2>5
<1> QED
    BY <1>1, <1>2 DEF Ordered, s

\* One set after the other.
LEMMA InOrderJoins ==
    ASSUME NEW A \in SUBSET Identification!Ids, NEW B \in SUBSET Identification!Ids,
           \A a \in A, b \in B : a < b
    PROVE  Identification!InOrder(A) \o Identification!InOrder(B) = Identification!InOrder(A \cup B)
<1> DEFINE C == A \cup B
           f == Identification!InOrder(A)
           g == Identification!InOrder(B)
           h == Identification!InOrder(C)
           m == Cardinality(A)
           n == Cardinality(B)
<1>1. C \in SUBSET Identification!Ids
    OBVIOUS
<1>2. /\ m \in Nat /\ f \in Seq(Identification!Ids) /\ Len(f) = m
      /\ \A k \in 1 .. m : f[k] \in A /\ Rank(A, f[k]) = k
    BY InOrderIs
<1>3. /\ n \in Nat /\ g \in Seq(Identification!Ids) /\ Len(g) = n
      /\ \A k \in 1 .. n : g[k] \in B /\ Rank(B, g[k]) = k
    BY InOrderIs
<1>4. /\ h \in Seq(Identification!Ids) /\ Len(h) = Cardinality(C)
      /\ \A i \in C : Rank(C, i) \in 1 .. Cardinality(C) /\ h[Rank(C, i)] = i
    BY <1>1, InOrderIs
<1>5. /\ A \in SUBSET Nat /\ IsFiniteSet(A) /\ B \in SUBSET Nat /\ IsFiniteSet(B)
      /\ C \in SUBSET Nat /\ IsFiniteSet(C)
    BY <1>1, IdsAre
<1> HIDE DEF f, g, h, m, n
<1>6. Cardinality(C) = m + n
    <2>1. A \cap B = {}
        BY <1>5
    <2>2. Cardinality(A \cap B) = 0
        BY <2>1, FS_EmptySet
    <2>3. Cardinality(A \cup B) = Cardinality(A) + Cardinality(B) - Cardinality(A \cap B)
        BY <1>5, FS_Union
    <2> QED
        BY <1>2, <1>3, <2>2, <2>3 DEF m, n
<1>7. \A a \in A : Rank(C, a) = Rank(A, a)
    <2> SUFFICES ASSUME NEW a \in A PROVE Rank(C, a) = Rank(A, a)
        OBVIOUS
    <2>1. \A j \in C : j <= a => j \in A
        BY <1>5
    <2>2. {j \in C : j <= a} = {j \in A : j <= a}
        BY <2>1
    <2> QED
        BY <2>2 DEF Rank
<1>8. \A b \in B : Rank(C, b) = m + Rank(B, b)
    <2> SUFFICES ASSUME NEW b \in B PROVE Rank(C, b) = m + Rank(B, b)
        OBVIOUS
    <2> DEFINE L == {j \in B : j <= b}
    <2>0. (\A a \in A : a <= b) /\ A \cap B = {}
        BY <1>5
    <2>1. {j \in C : j <= b} = A \cup L /\ A \cap L = {}
        BY <2>0
    <2>2. IsFiniteSet(L) /\ L \in SUBSET B
        BY <1>5, FS_Subset
    <2>3. Cardinality(A \cap L) = 0
        BY <2>1, FS_EmptySet
    <2>4. Cardinality(A \cup L) = Cardinality(A) + Cardinality(L) - 0
        BY <1>5, <2>2, <2>3, FS_Union
    <2>5. Cardinality(L) \in Nat /\ Cardinality(A) \in Nat
        BY <1>5, <2>2, FS_CardinalityType
    <2>6. Rank(C, b) = Cardinality(A \cup L) /\ Rank(B, b) = Cardinality(L)
        BY <2>1 DEF Rank
    <2> HIDE DEF L
    <2> QED
        BY <2>4, <2>5, <2>6 DEF m
<1>9. /\ f \o g \in Seq(Identification!Ids) /\ Len(f \o g) = m + n
      /\ \A k \in 1 .. m + n : (f \o g)[k] = IF k <= m THEN f[k] ELSE g[k - m]
    BY <1>2, <1>3, ConcatProperties
<1>10. ASSUME NEW k \in 1 .. m + n
       PROVE  (f \o g)[k] = h[k]
    <2>1. CASE k <= m
        <3>1. k \in 1 .. m
            BY <1>2, <1>3, <2>1
        <3>2. f[k] \in A /\ Rank(A, f[k]) = k
            BY <1>2, <3>1
        <3>3. Rank(C, f[k]) = k /\ f[k] \in C
            BY <1>7, <3>2
        <3>4. h[k] = f[k]
            BY <1>4, <3>3
        <3> QED
            BY <1>9, <2>1, <3>4
    <2>2. CASE ~ (k <= m)
        <3>1. k - m \in 1 .. n
            BY <1>2, <1>3, <2>2
        <3>2. g[k - m] \in B /\ Rank(B, g[k - m]) = k - m
            BY <1>3, <3>1
        <3>3. Rank(C, g[k - m]) = m + (k - m) /\ g[k - m] \in C
            BY <1>8, <3>2
        <3>4. m + (k - m) = k
            BY <1>2, <1>3
        <3>5. h[k] = g[k - m]
            BY <1>4, <3>3, <3>4
        <3> QED
            BY <1>9, <2>2, <3>5
    <2> QED
        BY <2>1, <2>2
<1>11. h \in Seq(Identification!Ids) /\ Len(h) = m + n
    BY <1>4, <1>6
<1>12. f \o g = h
    BY <1>9, <1>10, <1>11, SeqEqual
<1> QED
    BY <1>12 DEF f, g, h

-----------------------------------------------------------------------------
(* Lists of objects: what fits an answer.                                  *)

LEMMA TakenSums ==
    ASSUME NEW wanted \in SUBSET Identification!Ids, \A i \in wanted : objects[i] \in Nat
    PROVE  LET t == Identification!Taken(wanted)
               ids == Identification!InOrder(wanted)
               n == Cardinality(wanted)
           IN  /\ n \in Nat /\ t \in [0 .. n -> Nat] /\ t[0] = 0
               /\ \A k \in 1 .. n : objects[ids[k]] \in Nat /\ t[k] = t[k - 1] + (2 + objects[ids[k]])
<1> DEFINE ids == Identification!InOrder(wanted)
           n == Cardinality(wanted)
           w == [k \in 0 .. n |-> IF k = 0 THEN 0 ELSE 2 + objects[ids[k]]]
           Turn(g) == [k \in 0 .. n |-> IF k = 0 THEN 0 ELSE g[k - 1] + (2 + objects[ids[k]])]
           t == Identification!Taken(wanted)
<1>1. n \in Nat /\ Len(ids) = n /\ \A k \in 1 .. n : ids[k] \in wanted
    BY InOrderIs
<1>2. t = CHOOSE g : g = Turn(g)
    <2>1. t = CHOOSE g : g = [k \in 0 .. Len(ids) |-> IF k = 0 THEN 0 ELSE g[k - 1] + (2 + objects[ids[k]])]
        BY Zenon DEF Identification!Taken
    <2> HIDE DEF ids, n
    <2> QED
        BY <1>1, <2>1
<1> HIDE DEF ids, n, t
<1>3. \A k \in 1 .. n : objects[ids[k]] \in Nat
    BY <1>1
<1>4. w \in [0 .. n -> Nat] /\ w[0] = 0 /\ \A k \in 1 .. n : w[k] = 2 + objects[ids[k]]
    BY <1>1, <1>3
<1> HIDE DEF w
<1>5. PICK f : Sums(f, w, n)
    BY <1>1, <1>4, SumsExist
<1>6. f = Turn(f)
    <2>1. f \in [0 .. n -> Nat] /\ f[0] = 0
        BY <1>1, <1>4, <1>5 DEF Sums
    <2>2. \A k \in 1 .. n : f[k] = f[k - 1] + (2 + objects[ids[k]])
        BY <1>4, <1>5 DEF Sums
    <2>3. \A k \in 0 .. n : k = 0 \/ k \in 1 .. n
        BY <1>1
    <2>4. \A k \in 0 .. n : f[k] = IF k = 0 THEN 0 ELSE f[k - 1] + (2 + objects[ids[k]])
        BY <2>1, <2>2, <2>3, Zenon
    <2>5. f = [k \in 0 .. n |-> f[k]]
        BY <2>1, Zenon
    <2> QED
        BY <2>4, <2>5, Zenon
<1>7. t = Turn(t)
    BY <1>2, <1>6, Zenon
<1>8. t = [k \in 0 .. n |-> t[k]] /\ DOMAIN t = 0 .. n
    BY <1>7, Zenon
<1>9. t[0] = 0 /\ \A k \in 1 .. n : t[k] = t[k - 1] + (2 + objects[ids[k]])
    BY <1>1, <1>7
<1>10. \A k \in 0 .. n : t[k] \in Nat
    <2>1. t[0] = w[0] /\ \A k \in 1 .. n : t[k] = t[k - 1] + w[k]
        BY <1>4, <1>9
    <2> HIDE DEF Turn
    <2> QED
        BY <1>1, <1>4, <2>1, SumsTyped
<1> QED
    BY <1>1, <1>3, <1>8, <1>9, <1>10 DEF ids, n, t

LEMMA TakenGrows ==
    ASSUME NEW wanted \in SUBSET Identification!Ids, \A i \in wanted : objects[i] \in Nat
    PROVE  \A j, k \in 0 .. Cardinality(wanted) :
               j <= k => Identification!Taken(wanted)[j] <= Identification!Taken(wanted)[k]
<1> DEFINE t == Identification!Taken(wanted)
           n == Cardinality(wanted)
           ids == Identification!InOrder(wanted)
<1>1. /\ n \in Nat /\ \A k \in 0 .. n : t[k] \in Nat
      /\ \A k \in 1 .. n : objects[ids[k]] \in Nat /\ t[k] = t[k - 1] + (2 + objects[ids[k]])
    BY TakenSums
<1> HIDE DEF t, n, ids
<1> SUFFICES ASSUME NEW j \in 0 .. n
             PROVE  \A k \in 0 .. n : j <= k => t[j] <= t[k]
    BY DEF t, n
<1> DEFINE T == {k \in 0 .. n : j <= k /\ ~ (t[j] <= t[k])}
<1> SUFFICES ASSUME T # {} PROVE FALSE
    OBVIOUS
<1>2. T \in SUBSET Nat
    OBVIOUS
<1>3. PICK m \in T : \A k \in T : m <= k
    <2> HIDE DEF T
    <2> QED
        BY <1>2, LeastIs
<1>4. m \in 0 .. n /\ j <= m /\ ~ (t[j] <= t[m]) /\ m # j
    BY <1>1, <1>3
<1>5. m \in 1 .. n /\ m - 1 \in 0 .. n /\ j <= m - 1 /\ m - 1 \notin T
    BY <1>1, <1>3, <1>4
<1>6. t[j] <= t[m - 1]
    BY <1>5
<1>7. t[m] = t[m - 1] + (2 + objects[ids[m]]) /\ objects[ids[m]] \in Nat
    BY <1>1, <1>5
<1> QED
    BY <1>1, <1>4, <1>5, <1>6, <1>7

\* Who is not after another has no later place.
LEMMA RankGrows ==
    ASSUME NEW T \in SUBSET Identification!Ids, NEW i \in T, NEW j \in T, i <= j
    PROVE  Rank(T, i) <= Rank(T, j)
<1>1. \A k \in T : k \in Nat
    BY IdsAre
<1>2. {k \in T : k <= i} \in SUBSET {k \in T : k <= j} /\ IsFiniteSet({k \in T : k <= j})
    <2>1. \A k \in T : k <= i => k <= j
        BY <1>1
    <2>2. IsFiniteSet(T) /\ {k \in T : k <= j} \in SUBSET T
        BY IdsAre
    <2> QED
        BY <2>1, <2>2, FS_Subset
<1> QED
    BY <1>2, FS_Subset DEF Rank

Stock(objs) ==
    DOMAIN objs \subseteq Identification!Ids /\ \A i \in DOMAIN objs : objs[i] \in Nat /\ objs[i] <= 127

\* An answer ends before the first object that does not fit, and has at least one.
LEMMA FittingIs ==
    ASSUME Stock(objects), NEW wanted \in SUBSET DOMAIN objects
    PROVE  LET fitting == Identification!Fitting(wanted)
               left == wanted \ fitting
               next == Identification!NextOf(left)
           IN  /\ fitting \in SUBSET wanted
               /\ left # {} =>
                     /\ next \in left /\ \A j \in left : next <= j
                     /\ fitting # {} /\ fitting = {i \in wanted : i < next}
<1> DEFINE fitting == Identification!Fitting(wanted)
           left == wanted \ fitting
           next == Identification!NextOf(left)
           t == Identification!Taken(wanted)
           n == Cardinality(wanted)
<1>1. wanted \in SUBSET Identification!Ids /\ wanted \in SUBSET Nat
    BY IdsAre DEF Stock
<1>2. \A i \in wanted : objects[i] \in Nat /\ objects[i] <= 127
    BY DEF Stock
<1>3. /\ n \in Nat /\ t \in [0 .. n -> Nat] /\ t[0] = 0
      /\ \A k \in 1 .. n : t[k] = t[k - 1] + (2 + objects[Identification!InOrder(wanted)[k]])
      /\ \A j, k \in 0 .. n : j <= k => t[j] <= t[k]
    BY <1>1, <1>2, TakenSums, TakenGrows
<1>4. fitting = {i \in wanted : t[Rank(wanted, i)] <= 246}
    BY DEF Identification!Fitting, Identification!Capacity, Identification!Place,
           Identification!Cardinality, Cardinality, Rank
<1>4a. \A i \in wanted : Rank(wanted, i) \in 1 .. n /\ Identification!InOrder(wanted)[Rank(wanted, i)] = i
    BY <1>1, InOrderIs
<1> SUFFICES ASSUME left # {}
             PROVE  /\ next \in left /\ \A j \in left : next <= j
                    /\ fitting # {} /\ fitting = {i \in wanted : i < next}
    BY <1>4
<1>5. next \in left /\ \A j \in left : next <= j
    <2>1. left \in SUBSET Nat
        BY <1>1
    <2> HIDE DEF left
    <2>2. \E m \in left : \A j \in left : m <= j
        BY <2>1, LeastIs
    <2>3. next = CHOOSE m \in left : \A j \in left : m <= j
        BY Zenon DEF Identification!NextOf, Identification!Min
    <2> QED
        BY <2>2, <2>3, Zenon
<1>6. PICK first \in wanted : \A i \in wanted : first <= i
    BY <1>1, LeastIs
<1> HIDE DEF t, next, n
<1>7. first \in fitting
    <2>1. Rank(wanted, first) = 1
        <3>1. 1 \in 1 .. n
            BY <1>3, <1>4a, <1>6
        <3>2. Identification!InOrder(wanted)[1] \in wanted /\ Rank(wanted, Identification!InOrder(wanted)[1]) = 1
            BY <1>1, <3>1, InOrderIs DEF n
        <3>3. Rank(wanted, first) <= 1
            BY <1>1, <1>6, <3>2, RankGrows
        <3> QED
            BY <1>3, <1>4a, <1>6, <3>3
    <2>2. t[1] = 0 + (2 + objects[first])
        <3>1. 1 \in 1 .. n /\ Identification!InOrder(wanted)[1] = first
            BY <1>4a, <1>6, <2>1
        <3>2. t[1] = t[1 - 1] + (2 + objects[first])
            BY <1>3, <3>1
        <3> QED
            BY <1>3, <3>2
    <2> QED
        BY <1>2, <1>4, <1>6, <2>1, <2>2
<1>8. \A i \in fitting : i < next
    <2> SUFFICES ASSUME NEW i \in fitting, ~ (i < next) PROVE FALSE
        OBVIOUS
    <2>1. /\ i \in wanted /\ t[Rank(wanted, i)] <= 246
          /\ next \in wanted /\ ~ (t[Rank(wanted, next)] <= 246)
          /\ i \in Nat /\ next \in Nat
        BY <1>1, <1>4, <1>5
    <2>2. Rank(wanted, next) <= Rank(wanted, i)
        BY <1>1, <2>1, RankGrows
    <2>3. Rank(wanted, next) \in 0 .. n /\ Rank(wanted, i) \in 0 .. n
        <3>1. \A k \in 1 .. n : k \in 0 .. n
            BY <1>3
        <3> QED
            BY <1>4a, <2>1, <3>1
    <2>4. t[Rank(wanted, next)] <= t[Rank(wanted, i)]
        BY <1>3, <2>2, <2>3
    <2> QED
        BY <1>3, <2>1, <2>3, <2>4
<1>9. \A i \in wanted : i < next => i \in fitting
    <2> SUFFICES ASSUME NEW i \in wanted, i < next, i \in left PROVE FALSE
        OBVIOUS
    <2>1. next <= i /\ i \in Nat /\ next \in Nat
        BY <1>1, <1>5
    <2> QED
        BY <2>1
<1> QED
    BY <1>4, <1>5, <1>7, <1>8, <1>9 DEF next

\* The objects a call is about.
About(objs, c) == {i \in DOMAIN objs \cap Identification!RangeOf(c.code) : i >= c.start}
Below(ids, n) == {i \in ids : i < n}

\* An answer to c for the objects from next on, when the objects are objs.
Sound(a, c, next, objs, changed) ==
    /\ a.error # Identification!NMBS_ERROR_NONE => ~a.more
    /\ a.error = Identification!NMBS_ERROR_NONE =>
          /\ a.ids \in Seq(Identification!Ids) /\ Ordered(a.ids)
          /\ \A k \in DOMAIN a.ids : next <= a.ids[k] /\ (a.more => a.ids[k] < a.next)
          /\ a.more => a.ids # << >> /\ a.next \in Identification!Ids /\ a.next # 127
          /\ c.code = 4 => a.ids = <<c.start>> /\ ~a.more
          /\ changed = 0 /\ c.code # 4 =>
                a.ids = Identification!InOrder(
                    {i \in About(objs, c) : next <= i /\ (a.more => i < a.next)})

CallTypes ==
    [code : 1 .. 4, start : Identification!Ids, room : Nat]

IdInv ==
    /\ Stock(objects) /\ changes \in Nat
    /\ idCall \in CallTypes /\ next_object_id \in Identification!Ids
    /\ received \in Seq(Identification!Ids) /\ Ordered(received)
    /\ idPc \in {"idle", "request", "response"}
    /\ idPc # "idle" =>
          /\ idCall.start <= next_object_id
          /\ \A k \in DOMAIN received : received[k] < next_object_id
          /\ idCall.code = 4 => received = << >> /\ next_object_id = idCall.start
          /\ changes = 0 /\ idCall.code # 4 =>
                received = Identification!InOrder(Below(About(objects, idCall), next_object_id))
    /\ idPc = "response" => Sound(answer, idCall, next_object_id, objects, changes)
    /\ idPc = "idle" => Identification!Complete

LEMMA RangeIs ==
    ASSUME NEW code \in 1 .. 4
    PROVE  /\ Identification!RangeOf(code) \in SUBSET Identification!Ids
           /\ code # 4 => 127 \notin Identification!RangeOf(code)
<1>1. code = 1 \/ code = 2 \/ code = 3 \/ code = 4
    OBVIOUS
<1>2. CASE code = 1
    BY <1>2 DEF Identification!RangeOf, Identification!Ids
<1>3. CASE code = 2
    BY <1>3 DEF Identification!RangeOf, Identification!Ids
<1>4. CASE code = 3
    BY <1>4 DEF Identification!RangeOf, Identification!Ids
<1>5. CASE code = 4
    BY <1>5 DEF Identification!RangeOf
<1> QED
    BY <1>1, <1>2, <1>3, <1>4, <1>5

LEMMA CallTypesAre ==
    /\ \A c \in Identification!CallRecord : c \in CallTypes
    /\ \A c \in CallTypes : c.code \in 1 .. 4 /\ c.start \in Identification!Ids /\ c.start \in Nat
<1>1. \A n \in 0 .. 255 : n \in Nat
    OBVIOUS
<1>2. \A c \in Identification!CallRecord : c \in CallTypes
    BY <1>1, Zenon DEF Identification!CallRecord, CallTypes
<1>3. \A c \in CallTypes : c.code \in 1 .. 4 /\ c.start \in Identification!Ids
    BY Zenon DEF CallTypes
<1> QED
    BY <1>2, <1>3, IdsAre

LEMMA StockIs == \A objs \in Inventories : Stock(objs)
<1>1. \A n \in 0 .. 128 - 1 : n \in Nat /\ n <= 127
    OBVIOUS
<1> QED
    BY <1>1, MCIdentificationAssumption, Zenon
    DEF Identification!DeviceIdAssumption, Identification!StringLength, Stock

LEMMA NoneIs ==
    /\ Identification!InOrder({}) = << >> /\ Ordered(<< >>)
    /\ << >> \in Seq(Identification!Ids)
<1>1. {} \in SUBSET Identification!Ids
    OBVIOUS
<1>2. Cardinality({}) = 0
    BY FS_EmptySet
<1>3. Len(Identification!InOrder({})) = 0 /\ Identification!InOrder({}) \in Seq(Identification!Ids)
    BY <1>1, <1>2, InOrderIs
<1> QED
    BY <1>3, EmptySeq DEF Ordered

LEMMA IdInit == (Identification!Init \/ NoList) => IdInv
<1>1. ASSUME Identification!Init PROVE IdInv
    <2>1. /\ idPc = "idle" /\ Stock(objects) /\ changes = 0
          /\ idCall = [code |-> 1, start |-> 0, room |-> 0]
          /\ next_object_id = 0 /\ received = << >>
        BY <1>1, StockIs DEF Identification!Init
    <2>2. idCall \in CallTypes /\ next_object_id \in Identification!Ids
        BY <2>1, IdsAre DEF CallTypes
    <2> QED
        BY <2>1, <2>2, NoneIs DEF IdInv, Identification!Complete
<1>2. ASSUME NoList PROVE IdInv
    <2>1. /\ objects = [id \in {0, 1, 2} |-> 122] /\ idPc = "idle" /\ changes = 0
          /\ idCall = [code |-> 1, start |-> 0, room |-> 0]
          /\ next_object_id = 0 /\ received = << >>
        BY <1>2 DEF NoList, List
    <2>2. idCall \in CallTypes /\ next_object_id \in Identification!Ids
        BY <2>1, IdsAre DEF CallTypes
    <2>3. Stock(objects)
        <3>1. \A i \in {0, 1, 2} : i \in Identification!Ids
            BY DEF Identification!Ids
        <3> QED
            BY <2>1, <3>1 DEF Stock
    <2> QED
        BY <2>1, <2>2, <2>3, NoneIs DEF IdInv, Identification!Complete
<1> QED
    BY <1>1, <1>2

LEMMA OrderedJoins ==
    ASSUME NEW s \in Seq(Identification!Ids), NEW t \in Seq(Identification!Ids), NEW n \in Nat,
           Ordered(s), Ordered(t), \A k \in DOMAIN s : s[k] < n, \A k \in DOMAIN t : n <= t[k]
    PROVE  /\ s \o t \in Seq(Identification!Ids) /\ Ordered(s \o t)
           /\ \A m \in Nat : (m >= n /\ \A k \in DOMAIN t : t[k] < m) =>
                                 \A k \in DOMAIN (s \o t) : (s \o t)[k] < m
<1> DEFINE u == s \o t
<1>1. /\ u \in Seq(Identification!Ids) /\ Len(s) \in Nat /\ Len(t) \in Nat
      /\ DOMAIN s = 1 .. Len(s) /\ DOMAIN t = 1 .. Len(t) /\ DOMAIN u = 1 .. Len(s) + Len(t)
      /\ \A k \in 1 .. Len(s) : u[k] = s[k] /\ s[k] \in Identification!Ids
      /\ \A k \in 1 .. Len(s) + Len(t) :
            k > Len(s) => k - Len(s) \in 1 .. Len(t) /\ u[k] = t[k - Len(s)]
                          /\ t[k - Len(s)] \in Identification!Ids
    BY ConcatProperties, LenProperties, ElementOfSeq
<1> HIDE DEF u
<1>2. \A i \in Identification!Ids : i \in Nat
    BY IdsAre
<1>3. ASSUME NEW k \in 1 .. Len(s) + Len(t), k > 1
      PROVE  u[k - 1] < u[k]
    <2>1. k \in Nat /\ k - 1 \in 1 .. Len(s) + Len(t)
        BY <1>1, <1>3
    <2>2. CASE k <= Len(s)
        <3>1. k \in 1 .. Len(s) /\ k - 1 \in 1 .. Len(s)
            BY <1>1, <1>3, <2>2
        <3> QED
            BY <1>1, <1>3, <3>1 DEF Ordered
    <2>3. CASE k - 1 = Len(s)
        <3>1. k - 1 \in 1 .. Len(s) /\ k > Len(s)
            BY <1>1, <1>3, <2>1, <2>3
        <3>2. u[k - 1] < n /\ u[k - 1] \in Nat
            BY <1>1, <1>2, <3>1
        <3>3. n <= u[k] /\ u[k] \in Nat
            BY <1>1, <1>2, <3>1
        <3> QED
            BY <3>2, <3>3
    <2>4. CASE k - 1 > Len(s)
        <3> DEFINE j == k - Len(s)
        <3>1. /\ j \in 1 .. Len(t) /\ u[k] = t[j] /\ u[k - 1] = t[(k - 1) - Len(s)]
              /\ (k - 1) - Len(s) = j - 1 /\ j > 1
            BY <1>1, <1>3, <2>1, <2>4
        <3>2. t[j - 1] < t[j]
            BY <1>1, <3>1 DEF Ordered
        <3> QED
            BY <3>1, <3>2
    <2> QED
        BY <1>1, <2>1, <2>2, <2>3, <2>4
<1>4. ASSUME NEW m \in Nat, m >= n, \A k \in DOMAIN t : t[k] < m, NEW k \in 1 .. Len(s) + Len(t)
      PROVE  u[k] < m
    <2>1. CASE k <= Len(s)
        <3>1. k \in 1 .. Len(s)
            BY <1>1, <2>1
        <3>2. u[k] < n /\ u[k] \in Nat
            BY <1>1, <1>2, <3>1
        <3> QED
            BY <1>4, <3>2
    <2>2. CASE k > Len(s)
        BY <1>1, <1>4, <2>2
    <2> QED
        BY <1>1, <2>1, <2>2
<1> QED
    BY <1>1, <1>3, <1>4 DEF Ordered, u

LEMMA OneIs ==
    ASSUME NEW id \in Identification!Ids
    PROVE  /\ <<id>> \in Seq(Identification!Ids) /\ Ordered(<<id>>)
           /\ DOMAIN <<id>> = {1} /\ <<id>>[1] = id
<1>1. <<id>> \in Seq(Identification!Ids) /\ Len(<<id>>) = 1 /\ <<id>>[1] = id
    OBVIOUS
<1>2. DOMAIN <<id>> = {1}
    BY <1>1
<1> QED
    BY <1>1, <1>2 DEF Ordered

\* What the server answers, in error or not.
LEMMA ListAnswerIs ==
    ASSUME Stock(objects), NEW c \in CallTypes, NEW id \in Identification!Ids,
           c.start <= id, c.code = 4 => id = c.start,
           NEW a, a = Identification!Answer(c.code, id)
    PROVE  Sound(a, c, id, objects, changes)
<1>1. /\ c.code \in 1 .. 4 /\ c.start \in Nat /\ id \in Nat /\ id \in Identification!Ids
      /\ Identification!RangeOf(c.code) \in SUBSET Identification!Ids
      /\ c.code # 4 => 127 \notin Identification!RangeOf(c.code)
    BY CallTypesAre, IdsAre, RangeIs
<1>2. ASSUME a.error # Identification!NMBS_ERROR_NONE, ~a.more PROVE Sound(a, c, id, objects, changes)
    BY <1>2 DEF Sound
<1>3. CASE \E e \in {Identification!NMBS_EXCEPTION_ILLEGAL_DATA_ADDRESS,
                     Identification!NMBS_EXCEPTION_SERVER_DEVICE_FAILURE} :
               a = [Identification!NoAnswer EXCEPT !.error = e]
    <2>1. PICK e \in {Identification!NMBS_EXCEPTION_ILLEGAL_DATA_ADDRESS,
                      Identification!NMBS_EXCEPTION_SERVER_DEVICE_FAILURE} :
               a = [Identification!NoAnswer EXCEPT !.error = e]
        BY <1>3
    <2>2. a.error = e /\ ~a.more
        BY <2>1 DEF Identification!NoAnswer
    <2>3. e # Identification!NMBS_ERROR_NONE
        BY DEF Identification!NMBS_EXCEPTION_ILLEGAL_DATA_ADDRESS,
               Identification!NMBS_EXCEPTION_SERVER_DEVICE_FAILURE, Identification!NMBS_ERROR_NONE
    <2> QED
        BY <1>2, <2>2, <2>3
<1>4. CASE c.code = 4 /\ a = [Identification!NoAnswer EXCEPT !.ids = <<id>>]
    <2>1. a.error = Identification!NMBS_ERROR_NONE /\ a.ids = <<id>> /\ ~a.more
        BY <1>4 DEF Identification!NoAnswer
    <2>2. id = c.start
        BY <1>4
    <2>3. /\ <<id>> \in Seq(Identification!Ids) /\ Ordered(<<id>>)
          /\ \A k \in DOMAIN <<id>> : id <= <<id>>[k]
        BY <1>1, OneIs
    <2>4. <<id>> = <<c.start>>
        BY <2>2
    <2> QED
        BY <1>4, <2>1, <2>3, <2>4, Zenon DEF Sound
<1>5. CASE c.code # 4 /\ a = Identification!List(c.code, id) /\ a.error = Identification!NMBS_ERROR_NONE
    <2> DEFINE wanted == Identification!Wanted(c.code, id)
               fitting == Identification!Fitting(wanted)
               left == wanted \ fitting
               next == Identification!NextOf(left)
    <2>1. wanted = {i \in DOMAIN objects \cap Identification!RangeOf(c.code) : i >= id}
        BY DEF Identification!Wanted
    <2>2. wanted \in SUBSET DOMAIN objects /\ wanted \in SUBSET Identification!Ids
        BY <1>1, <2>1
    <2>3. /\ fitting \in SUBSET wanted
          /\ left # {} =>
                /\ next \in left /\ \A j \in left : next <= j
                /\ fitting # {} /\ fitting = {i \in wanted : i < next}
        BY <2>2, FittingIs
    <2>4. /\ a.ids = Identification!InOrder(fitting) /\ a.more = (left # {})
          /\ a.more => a.next = next
        <3> DEFINE seen == {i \in {0, 1, 2} \cap Identification!RangeOf(c.code) : id <= i /\ \A j \in left : i < j}
        <3>1. a = IF ~ (seen \subseteq DOMAIN objects)
                  THEN [Identification!NoAnswer EXCEPT
                           !.error = Identification!NMBS_EXCEPTION_SERVER_DEVICE_FAILURE]
                  ELSE [error |-> Identification!NMBS_ERROR_NONE,
                        ids |-> Identification!InOrder(fitting), more |-> left # {},
                        next |-> IF left # {} THEN next ELSE 0]
            BY <1>5, Zenon DEF Identification!List
        <3> HIDE DEF seen, fitting, left, next
        <3>2. CASE ~ (seen \subseteq DOMAIN objects)
            BY <1>5, <3>1, <3>2
            DEF Identification!NoAnswer, Identification!NMBS_EXCEPTION_SERVER_DEVICE_FAILURE,
                Identification!NMBS_ERROR_NONE
        <3>3. CASE seen \subseteq DOMAIN objects
            <4>1. a = [error |-> Identification!NMBS_ERROR_NONE,
                       ids |-> Identification!InOrder(fitting), more |-> left # {},
                       next |-> IF left # {} THEN next ELSE 0]
                BY <3>1, <3>3, Zenon
            <4> DEFINE n == IF left # {} THEN next ELSE 0
                       m == left # {}
            <4>2. left # {} => n = next
                OBVIOUS
            <4>3. m = (left # {})
                OBVIOUS
            <4>4. a = [error |-> Identification!NMBS_ERROR_NONE,
                       ids |-> Identification!InOrder(fitting), more |-> m, next |-> n]
                BY <4>1
            <4> HIDE DEF n, m
            <4>5. a.ids = Identification!InOrder(fitting) /\ a.more = m /\ a.next = n
                BY <4>4
            <4> QED
                BY <4>2, <4>3, <4>5
        <3> QED
            BY <3>2, <3>3
    <2> HIDE DEF wanted, fitting, left, next
    <2>5. left = wanted \ fitting
        BY DEF left
    <2>6. /\ fitting \in SUBSET Identification!Ids
          /\ \A k \in DOMAIN a.ids : a.ids[k] \in fitting
          /\ a.ids \in Seq(Identification!Ids) /\ Ordered(a.ids)
        BY <2>2, <2>3, <2>4, InOrderIs, InOrderIsOrdered
    <2>7. \A k \in DOMAIN a.ids : id <= a.ids[k] /\ (a.more => a.ids[k] < a.next)
        <3> SUFFICES ASSUME NEW k \in DOMAIN a.ids
                     PROVE  id <= a.ids[k] /\ (a.more => a.ids[k] < a.next)
            OBVIOUS
        <3>1. a.ids[k] \in fitting /\ a.ids[k] \in Nat
            BY <2>6, IdsAre
        <3>2. id <= a.ids[k]
            BY <1>1, <2>1, <2>3, <3>1
        <3> QED
            BY <2>3, <2>4, <3>1, <3>2
    <2>8. a.more => a.ids # << >> /\ a.next \in Identification!Ids /\ a.next # 127
        <3> SUFFICES ASSUME a.more
                     PROVE  a.ids # << >> /\ a.next \in Identification!Ids /\ a.next # 127
            OBVIOUS
        <3>1. next \in wanted /\ fitting # {}
            BY <2>3, <2>4, <2>5
        <3>2. a.next \in Identification!Ids /\ a.next # 127
            BY <1>1, <1>5, <2>1, <2>4, <3>1
        <3>3. PICK i \in fitting : TRUE
            BY <3>1
        <3>4. DOMAIN a.ids = 1 .. Cardinality(fitting) /\ Rank(fitting, i) \in 1 .. Cardinality(fitting)
            BY <2>4, <2>6, <3>3, InOrderIs
        <3>5. DOMAIN a.ids # {}
            BY <3>4
        <3> QED
            BY <3>2, <3>5
    <2>9. a.ids = Identification!InOrder(
                      {i \in About(objects, c) : id <= i /\ (a.more => i < a.next)})
        <3>1. fitting = {i \in wanted : a.more => i < a.next}
            BY <2>3, <2>4, <2>5
        <3>2. \A i \in Identification!Ids : i >= id <=> i >= c.start /\ id <= i
            BY <1>1, IdsAre
        <3>3. wanted = {i \in About(objects, c) : id <= i}
            BY <1>1, <2>1, <3>2 DEF About
        <3>4. fitting = {i \in About(objects, c) : id <= i /\ (a.more => i < a.next)}
            BY <3>1, <3>3
        <3> QED
            BY <2>4, <3>4, Zenon
    <2> QED
        BY <1>5, <2>6, <2>7, <2>8, <2>9 DEF Sound
<1>6. \/ \E e \in {Identification!NMBS_EXCEPTION_ILLEGAL_DATA_ADDRESS,
                   Identification!NMBS_EXCEPTION_SERVER_DEVICE_FAILURE} :
             a = [Identification!NoAnswer EXCEPT !.error = e]
      \/ c.code = 4 /\ a = [Identification!NoAnswer EXCEPT !.ids = <<id>>]
      \/ c.code # 4 /\ a = Identification!List(c.code, id)
    <2>1. a = IF (id > 6 /\ id < 128) \/ id \notin Identification!RangeOf(c.code)
              THEN [Identification!NoAnswer EXCEPT
                       !.error = Identification!NMBS_EXCEPTION_ILLEGAL_DATA_ADDRESS]
              ELSE IF c.code # 4 THEN Identification!List(c.code, id)
              ELSE IF id \in DOMAIN objects THEN [Identification!NoAnswer EXCEPT !.ids = <<id>>]
              ELSE [Identification!NoAnswer EXCEPT
                       !.error = Identification!NMBS_EXCEPTION_ILLEGAL_DATA_ADDRESS]
        BY Zenon DEF Identification!Answer
    <2> QED
        BY <2>1, Zenon
<1>7. ASSUME a = Identification!List(c.code, id), a.error # Identification!NMBS_ERROR_NONE
      PROVE  ~a.more
    <2> DEFINE wanted == Identification!Wanted(c.code, id)
               fitting == Identification!Fitting(wanted)
               left == wanted \ fitting
               next == Identification!NextOf(left)
               seen == {i \in {0, 1, 2} \cap Identification!RangeOf(c.code) : id <= i /\ \A j \in left : i < j}
    <2>1. a = IF ~ (seen \subseteq DOMAIN objects)
              THEN [Identification!NoAnswer EXCEPT
                       !.error = Identification!NMBS_EXCEPTION_SERVER_DEVICE_FAILURE]
              ELSE [error |-> Identification!NMBS_ERROR_NONE,
                    ids |-> Identification!InOrder(fitting), more |-> left # {},
                    next |-> IF left # {} THEN next ELSE 0]
        BY <1>7, Zenon DEF Identification!List
    <2> HIDE DEF seen, fitting, left, next
    <2>2. CASE ~ (seen \subseteq DOMAIN objects)
        BY <2>1, <2>2 DEF Identification!NoAnswer
    <2>3. CASE seen \subseteq DOMAIN objects
        BY <1>7, <2>1, <2>3
    <2> QED
        BY <2>2, <2>3
<1> QED
    BY <1>2, <1>3, <1>4, <1>5, <1>6, <1>7

LEMMA IdBegin ==
    ASSUME IdInv, NEW c \in Lists, Identification!Begin(c)
    PROVE  IdInv'
<1>1. /\ c \in CallTypes /\ c.code \in 1 .. 4 /\ c.start \in Identification!Ids /\ c.start \in Nat
      /\ idCall' = c /\ next_object_id' = c.start /\ received' = << >> /\ changes' = 0
      /\ objects' = objects
    BY CallTypesAre, MCIdentificationAssumption
    DEF Identification!DeviceIdAssumption, Identification!Begin
<1>2. Stock(objects') /\ changes' \in Nat /\ idCall' \in CallTypes /\ next_object_id' \in Identification!Ids
    BY <1>1 DEF IdInv
<1>3. received' \in Seq(Identification!Ids) /\ Ordered(received')
    BY <1>1, NoneIs
<1>4. CASE Identification!Refuses(c)
    <2>1. idPc' = "idle" /\ idResult' = Identification!NMBS_ERROR_INVALID_ARGUMENT
        BY <1>4 DEF Identification!Begin
    <2>2. Identification!Complete'
        BY <1>1 DEF Identification!Complete
    <2> QED
        BY <1>2, <1>3, <2>1, <2>2 DEF IdInv
<1>5. CASE ~Identification!Refuses(c)
    <2>1. idPc' = "request"
        BY <1>5 DEF Identification!Begin
    <2>2. Below(About(objects', idCall'), next_object_id') = {}
        <3>1. \A i \in About(objects', idCall') : i >= c.start /\ i \in Nat
            BY <1>1, <1>2, IdsAre DEF About, Stock
        <3> QED
            BY <1>1, <3>1 DEF Below
    <2>3. received' = Identification!InOrder(Below(About(objects', idCall'), next_object_id'))
        BY <1>1, <2>2, NoneIs
    <2>4. DOMAIN received' = {} /\ idCall'.start <= next_object_id'
          /\ next_object_id' = idCall'.start
        BY <1>1
    <2> QED
        BY <1>1, <1>2, <1>3, <2>1, <2>3, <2>4, Zenon DEF IdInv
<1> QED
    BY <1>4, <1>5

LEMMA IdServe ==
    ASSUME IdInv, Identification!Serve
    PROVE  IdInv'
<1>1. /\ idPc = "request" /\ idPc' = "response"
      /\ objects' = objects /\ changes' = changes /\ idCall' = idCall
      /\ next_object_id' = next_object_id /\ received' = received
    BY DEF Identification!Serve
<1>2. Sound(answer', idCall, next_object_id, objects, changes)
    <2>1. CASE answer' = Identification!Answer(idCall.code, next_object_id)
        <3>1. /\ Stock(objects) /\ idCall \in CallTypes /\ next_object_id \in Identification!Ids
              /\ idCall.start <= next_object_id /\ (idCall.code = 4 => next_object_id = idCall.start)
            BY <1>1, Zenon DEF IdInv
        <3> QED
            BY <2>1, <3>1, ListAnswerIs, Zenon
    <2>2. CASE answer' = [Identification!NoAnswer EXCEPT
                              !.error = Identification!NMBS_EXCEPTION_SERVER_DEVICE_FAILURE]
        <3>1. ~answer'.more /\ answer'.error = Identification!NMBS_EXCEPTION_SERVER_DEVICE_FAILURE
            BY <2>2 DEF Identification!NoAnswer
        <3>2. Identification!NMBS_EXCEPTION_SERVER_DEVICE_FAILURE # Identification!NMBS_ERROR_NONE
            BY DEF Identification!NMBS_EXCEPTION_SERVER_DEVICE_FAILURE, Identification!NMBS_ERROR_NONE
        <3> QED
            BY <3>1, <3>2 DEF Sound
    <2> QED
        BY <2>1, <2>2 DEF Identification!Serve
<1>3. Sound(answer', idCall', next_object_id', objects', changes')
    BY <1>1, <1>2, Zenon
<1>4. "response" # "idle" /\ "request" # "idle" /\ "response" \in {"idle", "request", "response"}
    OBVIOUS
<1> QED
    BY <1>1, <1>3, <1>4, Zenon DEF IdInv

LEMMA IdChange ==
    ASSUME IdInv, Identification!Change
    PROVE  IdInv'
<1>1. /\ idPc # "idle" /\ idPc' = idPc /\ changes' = changes + 1 /\ changes \in Nat
      /\ objects' \in Inventories /\ idCall' = idCall /\ answer' = answer
      /\ next_object_id' = next_object_id /\ received' = received
    BY DEF Identification!Change, IdInv
<1>2. Stock(objects') /\ changes' \in Nat /\ changes' # 0
    BY <1>1, StockIs
<1>3. idPc = "response" => Sound(answer', idCall', next_object_id', objects', changes')
    BY <1>1, <1>2, Zenon DEF IdInv, Sound
<1> QED
    BY <1>1, <1>2, <1>3, Zenon DEF IdInv

LEMMA IdReceive ==
    ASSUME IdInv, Identification!Receive
    PROVE  IdInv'
<1> DEFINE next == IF answer.more THEN answer.next ELSE Identification!Finished
           verdict == IF answer.error = Identification!NMBS_ERROR_NONE THEN Identification!Verdict
                      ELSE answer.error
           about == About(objects, idCall)
<1>1. /\ idPc = "response" /\ Stock(objects) /\ changes \in Nat /\ idCall \in CallTypes
      /\ objects' = objects /\ changes' = changes /\ idCall' = idCall /\ answer' = answer
      /\ received \in Seq(Identification!Ids) /\ Ordered(received)
      /\ next_object_id \in Identification!Ids
    BY DEF Identification!Receive, IdInv
<1>2. /\ idCall.start <= next_object_id
      /\ \A k \in DOMAIN received : received[k] < next_object_id
      /\ idCall.code = 4 => received = << >> /\ next_object_id = idCall.start
      /\ changes = 0 /\ idCall.code # 4 => received = Identification!InOrder(Below(about, next_object_id))
      /\ Sound(answer, idCall, next_object_id, objects, changes)
    <2>1. idPc # "idle"
        BY <1>1
    <2> QED
        BY <1>1, <2>1, Zenon DEF IdInv
<1>3. /\ idCall.code \in 1 .. 4 /\ idCall.start \in Nat /\ next_object_id \in Nat
      /\ about \in SUBSET Identification!Ids /\ \A i \in Identification!Ids : i \in Nat
    BY <1>1, CallTypesAre, IdsAre DEF About, Stock
<1> HIDE DEF about
<1>4. CASE verdict # Identification!NMBS_ERROR_NONE
    <2>1. idPc' = "idle" /\ idResult' = verdict /\ next_object_id' = next_object_id /\ received' = received
        BY <1>4, Zenon DEF Identification!Receive
    <2>2. Identification!Complete'
        BY <1>4, <2>1, Zenon DEF Identification!Complete
    <2>3. "idle" \in {"idle", "request", "response"} /\ "idle" # "response"
        OBVIOUS
    <2> QED
        BY <1>1, <2>1, <2>2, <2>3, Zenon DEF IdInv
<1>5. CASE verdict = Identification!NMBS_ERROR_NONE
    <2>1. /\ received' = received \o answer.ids /\ next_object_id' = next
          /\ IF next = Identification!Finished \/ idCall.code = 4
             THEN idPc' = "idle" /\ idResult' = Identification!NMBS_ERROR_NONE
             ELSE idPc' = "request"
        BY <1>5, Zenon DEF Identification!Receive
    <2>2. answer.error = Identification!NMBS_ERROR_NONE
        BY <1>5, Zenon
    <2> HIDE DEF verdict
    <2>3. /\ answer.ids \in Seq(Identification!Ids) /\ Ordered(answer.ids)
          /\ \A k \in DOMAIN answer.ids :
                next_object_id <= answer.ids[k] /\ (answer.more => answer.ids[k] < answer.next)
          /\ answer.more => answer.ids # << >> /\ answer.next \in Identification!Ids /\ answer.next # 127
          /\ idCall.code = 4 => answer.ids = <<idCall.start>> /\ ~answer.more
          /\ changes = 0 /\ idCall.code # 4 =>
                answer.ids = Identification!InOrder(
                    {i \in about : next_object_id <= i /\ (answer.more => i < answer.next)})
        BY <1>2, <2>2, Zenon DEF Sound, about
    <2>4. /\ received' \in Seq(Identification!Ids) /\ Ordered(received')
          /\ \A m \in Nat : (m >= next_object_id /\ \A k \in DOMAIN answer.ids : answer.ids[k] < m) =>
                                \A k \in DOMAIN received' : received'[k] < m
        BY <1>1, <1>2, <1>3, <2>1, <2>3, OrderedJoins
    <2>5. next \in Identification!Ids
        BY <2>3, IdsAre DEF Identification!Finished
    <2>6. changes = 0 /\ idCall.code # 4 =>
              received' = Identification!InOrder({i \in about : answer.more => i < answer.next})
        <3> SUFFICES ASSUME changes = 0, idCall.code # 4
                     PROVE  received' = Identification!InOrder({i \in about : answer.more => i < answer.next})
            OBVIOUS
        <3> DEFINE A == Below(about, next_object_id)
                   B == {i \in about : next_object_id <= i /\ (answer.more => i < answer.next)}
        <3>1. received' = Identification!InOrder(A) \o Identification!InOrder(B)
            BY <1>2, <2>1, <2>3
        <3>2. A \in SUBSET Identification!Ids /\ B \in SUBSET Identification!Ids
            BY <1>3 DEF Below
        <3>3. \A i \in A, j \in B : i < j
            BY <1>3 DEF Below
        <3>4. answer.more => next_object_id < answer.next /\ answer.next \in Nat
            <4> SUFFICES ASSUME answer.more PROVE next_object_id < answer.next /\ answer.next \in Nat
                OBVIOUS
            <4>1. 1 \in DOMAIN answer.ids /\ answer.ids[1] \in Nat /\ answer.next \in Nat
                <5>1. Len(answer.ids) \in Nat /\ Len(answer.ids) # 0
                      /\ DOMAIN answer.ids = 1 .. Len(answer.ids)
                    BY <2>3, LenProperties, EmptySeq
                <5>2. 1 \in DOMAIN answer.ids
                    BY <5>1
                <5> QED
                    BY <1>3, <2>3, <5>1, <5>2, ElementOfSeq
            <4> QED
                BY <1>3, <2>3, <4>1
        <3>5. A \cup B = {i \in about : answer.more => i < answer.next}
            BY <1>3, <3>4 DEF Below
        <3> HIDE DEF A, B
        <3> QED
            BY <3>1, <3>2, <3>3, <3>5, InOrderJoins
    <2>7. CASE next = Identification!Finished \/ idCall.code = 4
        <3>1. idPc' = "idle"
            BY <2>1, <2>7, Zenon
        <3>2. ~answer.more
            BY <2>3, <2>7 DEF Identification!Finished
        <3>3. CASE idCall.code = 4
            <4>1. received' = <<idCall.start>>
                BY <1>2, <2>1, <2>3, <3>3
            <4>2. Identification!Complete'
                BY <1>1, <3>3, <4>1, Zenon DEF Identification!Complete
            <4> QED
                BY <1>1, <2>1, <2>4, <2>5, <3>1, <4>2 DEF IdInv
        <3>4. CASE idCall.code # 4
            <4>1. changes = 0 => received' = Identification!InOrder(about)
                <5>1. {i \in about : answer.more => i < answer.next} = about
                    BY <3>2
                <5> QED
                    BY <2>6, <3>4, <5>1
            <4>2. Identification!Complete'
                BY <1>1, <3>4, <4>1, Zenon DEF Identification!Complete, about, About
            <4> QED
                BY <1>1, <2>1, <2>4, <2>5, <3>1, <4>2 DEF IdInv
        <3> QED
            BY <3>3, <3>4
    <2>8. CASE ~ (next = Identification!Finished \/ idCall.code = 4)
        <3>1. idPc' = "request" /\ idCall.code # 4 /\ answer.more /\ next = answer.next
            BY <2>1, <2>8
        <3>2. DOMAIN answer.ids = 1 .. Len(answer.ids) /\ Len(answer.ids) \in Nat /\ Len(answer.ids) # 0
            BY <2>3, <3>1, LenProperties, EmptySeq
        <3>3. 1 \in DOMAIN answer.ids
            BY <3>2
        <3>4. answer.ids[1] \in Nat /\ answer.next \in Nat
            BY <1>3, <2>3, <3>1, <3>2, <3>3, ElementOfSeq
        <3>5. next_object_id <= answer.next
            BY <1>3, <2>3, <3>1, <3>3, <3>4
        <3>6. \A k \in DOMAIN received' : received'[k] < next_object_id'
            BY <1>3, <2>1, <2>3, <2>4, <3>1, <3>4, <3>5
        <3>7. idCall.start <= next_object_id'
            BY <1>2, <1>3, <2>1, <3>1, <3>4, <3>5
        <3>8. changes = 0 => received' = Identification!InOrder(Below(About(objects, idCall), next_object_id'))
            <4>1. {i \in about : answer.more => i < answer.next} = Below(about, next_object_id')
                BY <2>1, <3>1 DEF Below
            <4> QED
                BY <2>6, <3>1, <4>1 DEF about
        <3>9. "request" # "idle" /\ "request" # "response" /\ "request" \in {"idle", "request", "response"}
            OBVIOUS
        <3>10. next_object_id' \in Identification!Ids
            BY <2>1, <2>5
        <3> HIDE DEF next
        <3> QED
            BY <1>1, <2>4, <3>1, <3>6, <3>7, <3>8, <3>9, <3>10, Zenon DEF IdInv
    <2> QED
        BY <2>7, <2>8
<1> QED
    BY <1>4, <1>5, Zenon

LEMMA IdStep ==
    ASSUME IdInv, [Identification!Next]_idVars
    PROVE  IdInv'
<1>1. CASE UNCHANGED idVars
    BY <1>1 DEF IdInv, idVars, Identification!Complete
<1>2. CASE Identification!Next
    <2>1. ASSUME NEW c \in Lists, Identification!Begin(c) PROVE IdInv'
        BY <2>1, IdBegin
    <2> QED
        BY <1>2, <2>1, IdServe, IdChange, IdReceive DEF Identification!Next
<1> QED
    BY <1>1, <1>2

LEMMA IdInvIsTrue == IdInv => ListIsTrue
<1> SUFFICES ASSUME IdInv PROVE ListIsTrue
    OBVIOUS
<1>1. Identification!Ascending
    BY DEF IdInv, Ordered, Identification!Ascending
<1>2. idPc = "response" /\ answer.more => answer.ids # << >> /\ answer.next > next_object_id
    <2> SUFFICES ASSUME idPc = "response", answer.more
                 PROVE  answer.ids # << >> /\ answer.next > next_object_id
        OBVIOUS
    <2>1. /\ answer.ids \in Seq(Identification!Ids) /\ answer.ids # << >>
          /\ answer.next \in Identification!Ids
          /\ \A k \in DOMAIN answer.ids : next_object_id <= answer.ids[k] /\ answer.ids[k] < answer.next
        BY Zenon DEF IdInv, Sound
    <2>2. Len(answer.ids) \in Nat /\ Len(answer.ids) # 0 /\ DOMAIN answer.ids = 1 .. Len(answer.ids)
        BY <2>1, LenProperties, EmptySeq
    <2>3. 1 \in DOMAIN answer.ids /\ answer.ids[1] \in Identification!Ids
        BY <2>1, <2>2, ElementOfSeq
    <2>4. next_object_id \in Identification!Ids
        BY Zenon DEF IdInv
    <2>5. answer.ids[1] \in Nat /\ answer.next \in Nat /\ next_object_id \in Nat
        BY <2>1, <2>3, <2>4, IdsAre
    <2> QED
        BY <2>1, <2>3, <2>5
<1>3. Identification!Complete
    <2>1. CASE idPc = "idle"
        BY <2>1 DEF IdInv
    <2>2. CASE idPc # "idle"
        BY <2>2 DEF Identification!Complete
    <2> QED
        BY <2>1, <2>2
<1> QED
    BY <1>1, <1>2, <1>3 DEF ListIsTrue, Identification!ListIsTrue, Identification!MovesOn

(* See NmbsDeviceId: when a list was fetched without error, over however   *)
(* many answers, it is the server's, as far as that stayed what it was; it *)
(* is in order even if it did not; and every answer that promises more     *)
(* brings the client forward.                                              *)
THEOREM ListsAreTrue == Spec => []ListIsTrue
<1>1. Init => IdInv
    BY IdInit DEF Init
<1>2. IdInv /\ [Next]_vars => IdInv'
    <2>1. [Next]_vars => [Identification!Next]_idVars
        BY DEF Next, vars, idVars
    <2> QED
        BY <2>1, IdStep
<1> QED
    BY <1>1, <1>2, IdInvIsTrue, PTL DEF Spec
=============================================================================
