------------------------- MODULE TinycsocketProofs -------------------------
(***************************************************************************)
(* tinycsocket, for any system, text, set of sockets and interfaces:       *)
(* sockets are set up as asked or not at all, lines are received as they   *)
(* were sent, the pool on POSIX is the pool that TcsPool promises, and     *)
(* what is said of interfaces is true, whatever comes and goes.            *)
(***************************************************************************)
EXTENDS TcsSockets, SequenceTheorems, FiniteSetTheorems, WellFoundedInduction, TLAPS

-----------------------------------------------------------------------------
(* Setting up a socket: the steps of a call.                               *)

LEMMA ConsIs ==
    ASSUME NEW S, NEW x \in S, NEW r \in Seq(S)
    PROVE  /\ <<x>> \o r \in Seq(S) /\ <<x>> \o r # << >>
           /\ Head(<<x>> \o r) = x /\ Tail(<<x>> \o r) = r
<1>1. <<x>> \in Seq(S) /\ Len(<<x>>) = 1 /\ Len(r) \in Nat
    BY LenProperties
<1>2. /\ <<x>> \o r \in Seq(S) /\ Len(<<x>> \o r) = 1 + Len(r)
      /\ \A i \in 1 .. 1 + Len(r) : (<<x>> \o r)[i] = IF i <= 1 THEN x ELSE r[i - 1]
    BY <1>1, ConcatProperties
<1>3. <<x>> \o r # << >> /\ Head(<<x>> \o r) = x
    BY <1>1, <1>2
<1>4. Tail(<<x>> \o r) = r
    <2>1. /\ Tail(<<x>> \o r) \in Seq(S) /\ Len(Tail(<<x>> \o r)) = Len(r)
          /\ \A i \in 1 .. Len(r) : Tail(<<x>> \o r)[i] = (<<x>> \o r)[i + 1]
        BY <1>1, <1>2, <1>3, HeadTailProperties
    <2>2. \A i \in 1 .. Len(r) : Tail(<<x>> \o r)[i] = r[i]
        BY <1>1, <1>2, <2>1
    <2> QED
        BY <2>1, <2>2, SeqEqual
<1> QED
    BY <1>2, <1>3, <1>4

LEMMA TwoIs ==
    ASSUME NEW S, NEW x \in S, NEW y \in S
    PROVE  <<x, y>> = <<x>> \o <<y>>
<1>1. <<y>> \in Seq(S) /\ <<x>> \in Seq(S) /\ <<x, y>> \in Seq(S) /\ <<x>> \o <<y>> \in Seq(S)
    BY ConcatProperties
<1>2. Len(<<x, y>>) = 2 /\ Len(<<x>> \o <<y>>) = 2
    BY <1>1, ConcatProperties
<1>3. \A i \in 1 .. 2 : <<x, y>>[i] = (<<x>> \o <<y>>)[i]
    <2>1. \A i \in 1 .. 2 : (<<x>> \o <<y>>)[i] = IF i <= 1 THEN <<x>>[i] ELSE <<y>>[i - 1]
        BY <1>1, ConcatProperties
    <2> QED
        BY <2>1
<1> QED
    BY <1>1, <1>2, <1>3, SeqEqual

LEMMA PairIs ==
    ASSUME NEW S, NEW x \in S, NEW y \in S, NEW r \in Seq(S)
    PROVE  /\ <<x, y>> \o r \in Seq(S) /\ <<x, y>> \o r # << >>
           /\ Head(<<x, y>> \o r) = x /\ Tail(<<x, y>> \o r) = <<y>> \o r
<1>1. <<x, y>> = <<x>> \o <<y>>
    BY TwoIs
<1>2. <<x>> \in Seq(S) /\ <<y>> \in Seq(S) /\ <<x, y>> \o r = <<x>> \o (<<y>> \o r)
    BY <1>1, ConcatAssociative
<1> QED
    BY <1>2, ConsIs

-----------------------------------------------------------------------------
(* Setting up a socket: the steps of a call.                               *)

\* What follows the binding, and the connection of a datagram socket.
Joins(c) == IF c.remote = "group" THEN <<"join">> ELSE << >>

Directs(c) ==
    IF c.remote = "host" \/ (c.remote = "group" /\ c.local = "none") THEN <<"connect">> ELSE << >>

Onward(c) ==
    CASE c.fn = "tcp" -> IF c.remote # "none" THEN Setup!Connection(c) ELSE << >>
      [] c.fn = "udp" -> Joins(c) \o Directs(c)
      [] c.fn = "packet" -> << >>

\* The steps from the socket on.
Plan(c) ==
    CASE c.fn = "tcp" -> Setup!tcs_socket_tcp(c)
      [] c.fn = "udp" -> Setup!tcs_socket_udp(c)
      [] c.fn = "packet" -> Setup!tcs_socket_packet(c)

\* What is left when this step is next.
Left(step, c) ==
    CASE step = "reuse"       -> <<"reuse", "bind">> \o Onward(c)
      [] step = "bind"        -> <<"bind">> \o Onward(c)
      [] step = "join"        -> <<"join">> \o Directs(c)
      [] step = "nonblocking" -> <<"nonblocking", "connect", "pool_create", "pool_add", "poll", "blocking">>
      [] step = "connect"     -> IF c.fn = "udp" THEN <<"connect">>
                                 ELSE IF c.timed THEN <<"connect", "pool_create", "pool_add", "poll", "blocking">>
                                 ELSE <<"connect", "await">>
      [] step = "await"       -> <<"await">>
      [] step = "pool_create" -> <<"pool_create", "pool_add", "poll", "blocking">>
      [] step = "pool_add"    -> <<"pool_add", "poll", "blocking">>
      [] step = "poll"        -> <<"poll", "blocking">>
      [] step = "blocking"    -> <<"blocking">>

Timed(c) == c.fn = "tcp" /\ c.remote = "host" /\ c.timed
Untimed(c) == c.fn = "tcp" /\ c.remote = "host" /\ ~c.timed

\* Whether a call takes this step.
Takes(step, c) ==
    /\ step = "reuse" => c.fn # "packet" /\ c.local # "none"
    /\ step = "bind" => c.local # "none"
    /\ step = "join" => c.fn = "udp" /\ c.remote = "group"
    /\ step = "connect" =>
          \/ c.fn = "tcp" /\ c.remote = "host"
          \/ c.fn = "udp" /\ c.remote = "host"
          \/ c.fn = "udp" /\ c.remote = "group" /\ c.local = "none"
    /\ step = "await" => Untimed(c)
    /\ step \in {"nonblocking", "pool_create", "pool_add", "poll", "blocking"} => Timed(c)

StepNames == {"reuse", "bind", "join", "nonblocking", "connect", "await", "pool_create",
              "pool_add", "poll", "blocking"}

Names == StepNames \cup {"resolve", "socket"}

LEMMA CallsAre ==
    ASSUME NEW c \in Setup!Calls
    PROVE  /\ c.fn \in {"tcp", "udp", "packet"} /\ c.local \in {"none", "any", "host"}
           /\ c.remote \in {"none", "host", "group"} /\ c.str \in BOOLEAN /\ c.timed \in BOOLEAN
           /\ c.fn = "tcp" => c.remote # "group"
           /\ c.fn # "tcp" => c.timed = FALSE
           /\ c.fn = "packet" => c.remote = "none" /\ c.local = "host" /\ c.str = FALSE /\ c.family = "packet"
           /\ c.family \in {"ip4", "ip6", "packet"} /\ c.remote_family \in {"ip4", "ip6", "packet"}
BY DEF Setup!Calls, Setup!Families

LEMMA OnwardIs ==
    ASSUME NEW c \in Setup!Calls
    PROVE  /\ Onward(c) \in Seq(Names) /\ Directs(c) \in Seq(Names)
           /\ Timed(c) => Onward(c) = Left("nonblocking", c)
           /\ Untimed(c) => Onward(c) = Left("connect", c)
           /\ c.fn = "udp" /\ c.remote = "group" => Onward(c) = Left("join", c)
           /\ c.fn = "udp" /\ c.remote = "host" => Onward(c) = Left("connect", c)
           /\ c.remote = "none" => Onward(c) = << >>
<1>1. << >> \in Seq(Names) /\ <<"connect">> \in Seq(Names) /\ <<"join">> \in Seq(Names)
    <2>1. "connect" \in Names /\ "join" \in Names
        BY DEF Names, StepNames
    <2> QED
        BY <2>1, EmptySeq
<1>2. Directs(c) \in Seq(Names) /\ Joins(c) \in Seq(Names)
    BY <1>1 DEF Directs, Joins
<1>3. CASE c.fn = "tcp"
    <2>1. Onward(c) = IF c.remote # "none" THEN Setup!Connection(c) ELSE << >>
        BY <1>3 DEF Onward
    <2>2. Setup!Connection(c) \in Seq(Names)
        <3>1. /\ "nonblocking" \in Names /\ "connect" \in Names /\ "pool_create" \in Names
              /\ "pool_add" \in Names /\ "poll" \in Names /\ "blocking" \in Names /\ "await" \in Names
            BY DEF Names, StepNames
        <3> QED
            BY <3>1 DEF Setup!Connection
    <2>3. Onward(c) \in Seq(Names)
        BY <1>1, <2>1, <2>2
    <2>4. Timed(c) => Onward(c) = Left("nonblocking", c)
        BY <2>1, Zenon DEF Timed, Setup!Connection, Left
    <2>5. Untimed(c) => Onward(c) = Left("connect", c)
        BY <1>3, <2>1 DEF Untimed, Setup!Connection, Left
    <2> QED
        BY <1>2, <1>3, <2>1, <2>3, <2>4, <2>5
<1>4. CASE c.fn = "udp"
    <2>1. Onward(c) = Joins(c) \o Directs(c)
        BY <1>4 DEF Onward
    <2>2. Onward(c) \in Seq(Names)
        BY <1>2, <2>1, ConcatProperties
    <2>3. c.remote = "group" => Onward(c) = Left("join", c)
        BY <2>1 DEF Joins, Left
    <2>4. c.remote # "group" => Onward(c) = Directs(c)
        BY <1>2, <2>1, ConcatEmptySeq DEF Joins
    <2>5. c.remote = "host" => Directs(c) = Left("connect", c)
        BY <1>4 DEF Directs, Left
    <2>6. c.remote = "none" => Directs(c) = << >>
        BY DEF Directs
    <2>7. ~Timed(c) /\ ~Untimed(c)
        BY <1>4 DEF Timed, Untimed
    <2> QED
        BY <1>2, <1>4, <2>2, <2>3, <2>4, <2>5, <2>6, <2>7, CallsAre
<1>5. CASE c.fn = "packet"
    BY <1>1, <1>2, <1>5, CallsAre DEF Onward, Timed, Untimed
<1> QED
    BY <1>3, <1>4, <1>5, CallsAre

LEMMA LeftIs ==
    ASSUME NEW c \in Setup!Calls, NEW step \in StepNames
    PROVE  /\ Left(step, c) \in Seq(Names) /\ Left(step, c) # << >> /\ Head(Left(step, c)) = step
           /\ step = "reuse" => Tail(Left(step, c)) = Left("bind", c)
           /\ step = "bind" => Tail(Left(step, c)) = Onward(c)
           /\ step = "join" => Tail(Left(step, c)) = Directs(c)
           /\ step = "nonblocking" =>
                 Tail(Left(step, c)) = <<"connect", "pool_create", "pool_add", "poll", "blocking">>
           /\ step = "connect" /\ c.fn = "udp" => Tail(Left(step, c)) = << >>
           /\ step = "connect" /\ c.fn # "udp" /\ c.timed =>
                 /\ Tail(Left(step, c)) = Left("pool_create", c)
                 /\ SubSeq(Left(step, c), 5, Len(Left(step, c))) = Left("blocking", c)
           /\ step = "connect" /\ c.fn # "udp" /\ ~c.timed => Tail(Left(step, c)) = Left("await", c)
           /\ step = "pool_create" => Tail(Left(step, c)) = Left("pool_add", c)
           /\ step = "pool_add" => Tail(Left(step, c)) = Left("poll", c)
           /\ step = "poll" => Tail(Left(step, c)) = Left("blocking", c)
           /\ step \in {"await", "blocking"} => Tail(Left(step, c)) = << >>
<1>1. /\ Onward(c) \in Seq(Names) /\ Directs(c) \in Seq(Names)
      /\ \A x \in StepNames : x \in Names
    BY OnwardIs DEF Names
<1> "reuse" \in Names /\ "bind" \in Names /\ "join" \in Names
    BY DEF Names, StepNames
<1>2a. /\ "nonblocking" \in Names /\ "connect" \in Names /\ "pool_create" \in Names /\ "pool_add" \in Names
       /\ "poll" \in Names /\ "blocking" \in Names /\ "await" \in Names
    BY DEF Names, StepNames
<1>2. CASE step = "reuse"
    BY <1>1, <1>2, PairIs DEF Left
<1>3. CASE step = "bind"
    BY <1>1, <1>3, ConsIs DEF Left
<1>4. CASE step = "join"
    BY <1>1, <1>4, ConsIs DEF Left
<1>5. CASE step = "connect"
    <2>1. CASE c.fn = "udp"
        <3>1. Left(step, c) = <<"connect">> /\ "connect" \in Names
            BY <1>1, <1>5, <2>1 DEF Left, StepNames
        <3>2. Left(step, c) \in Seq(Names) /\ Left(step, c) # << >> /\ Head(Left(step, c)) = step
            <4>1. Left(step, c) \in Seq(Names) /\ Len(Left(step, c)) > 0
                BY <3>1
            <4>2. Left(step, c)[1] = step
                BY <1>5, <3>1
            <4> QED
                BY <4>1, <4>2
        <3>3. Tail(Left(step, c)) = << >>
            BY <3>1
        <3> QED
            BY <1>5, <2>1, <3>2, <3>3, Zenon
    <2>2. CASE c.fn # "udp" /\ c.timed
        <3>1. /\ Left(step, c) = <<"connect", "pool_create", "pool_add", "poll", "blocking">>
              /\ Left("pool_create", c) = <<"pool_create", "pool_add", "poll", "blocking">>
            BY <1>5, <2>2, Zenon DEF Left
        <3>2. Left(step, c) \in Seq(Names)
            BY <1>2a, <3>1
        <3>3. Tail(Left(step, c)) = Left("pool_create", c)
            BY <3>1
        <3>4. SubSeq(Left(step, c), 5, Len(Left(step, c))) = <<"blocking">>
            <4>1. <<"blocking">> \in Seq(Names) /\ Len(<<"blocking">>) = 1 /\ <<"blocking">>[1] = "blocking"
                BY <1>2a
            <4>2. Len(Left(step, c)) = 5 /\ Left(step, c)[5] = "blocking"
                BY <3>1
            <4>3. /\ SubSeq(Left(step, c), 5, 5) \in Seq(Names) /\ Len(SubSeq(Left(step, c), 5, 5)) = 1
                  /\ SubSeq(Left(step, c), 5, 5)[1] = "blocking"
                <5>2. \A k \in 5 .. 5 : Left(step, c)[k] \in Names
                    BY <1>2a, <4>2
                <5>3. \A k \in 1 .. 5 - 5 + 1 : SubSeq(Left(step, c), 5, 5)[k] = Left(step, c)[5 + k - 1]
                    BY <5>2, SubSeqProperties
                <5>4. SubSeq(Left(step, c), 5, 5) \in Seq(Names) /\ Len(SubSeq(Left(step, c), 5, 5)) = 1
                    BY <5>2, SubSeqProperties
                <5> QED
                    BY <4>2, <5>3, <5>4
            <4>4. \A k \in 1 .. 1 : SubSeq(Left(step, c), 5, 5)[k] = <<"blocking">>[k]
                BY <4>1, <4>3
            <4> QED
                BY <4>1, <4>2, <4>3, <4>4, SeqEqual
        <3>5. Left("blocking", c) = <<"blocking">>
            BY Zenon DEF Left
        <3>6. Left(step, c) # << >> /\ Head(Left(step, c)) = step
            BY <1>5, <3>1
        <3>7. SubSeq(Left(step, c), 5, Len(Left(step, c))) = Left("blocking", c)
            BY <3>4, <3>5
        <3> QED
            BY <1>5, <2>2, <3>2, <3>3, <3>6, <3>7, Zenon
    <2>3. CASE c.fn # "udp" /\ ~c.timed
        <3>1. Left(step, c) = <<"connect", "await">> /\ Left("await", c) = <<"await">>
            BY <1>5, <2>3, Zenon DEF Left
        <3>2. Left(step, c) \in Seq(Names) /\ Tail(Left(step, c)) = Left("await", c)
            BY <1>2a, <3>1
        <3> QED
            BY <1>5, <2>3, <3>1, <3>2
    <2> QED
        BY <2>1, <2>2, <2>3
<1>6. CASE step = "nonblocking"
    <2>1. Left(step, c) = <<"nonblocking", "connect", "pool_create", "pool_add", "poll", "blocking">>
        BY <1>6 DEF Left
    <2>2. Left(step, c) \in Seq(Names) /\ Tail(Left(step, c)) = <<"connect", "pool_create", "pool_add", "poll", "blocking">>
        BY <1>2a, <2>1
    <2> QED
        BY <1>6, <2>1, <2>2
<1>7. CASE step = "await"
    <2>1. Left(step, c) = <<"await">>
        BY <1>7 DEF Left
    <2>2. Left(step, c) \in Seq(Names) /\ Tail(Left(step, c)) = << >>
        BY <1>2a, <2>1
    <2> QED
        BY <1>7, <2>1, <2>2
<1>8. CASE step = "pool_create"
    <2>1. Left(step, c) = <<"pool_create", "pool_add", "poll", "blocking">> /\ Left("pool_add", c) = <<"pool_add", "poll", "blocking">>
        BY <1>8 DEF Left
    <2>2. Left(step, c) \in Seq(Names) /\ Left(step, c) # << >> /\ Head(Left(step, c)) = step
        <3>1. Left(step, c) \in Seq(Names) /\ Len(Left(step, c)) > 0
            BY <1>2a, <2>1
        <3>2. Left(step, c)[1] = step
            BY <1>8, <2>1
        <3> QED
            BY <3>1, <3>2
    <2>3. Tail(Left(step, c)) = Left("pool_add", c)
        BY <2>1
    <2> QED
        BY <1>8, <2>2, <2>3, Zenon
<1>9. CASE step = "pool_add"
    <2>1. Left(step, c) = <<"pool_add", "poll", "blocking">> /\ Left("poll", c) = <<"poll", "blocking">>
        BY <1>9 DEF Left
    <2>2. Left(step, c) \in Seq(Names) /\ Left(step, c) # << >> /\ Head(Left(step, c)) = step
        <3>1. Left(step, c) \in Seq(Names) /\ Len(Left(step, c)) > 0
            BY <1>2a, <2>1
        <3>2. Left(step, c)[1] = step
            BY <1>9, <2>1
        <3> QED
            BY <3>1, <3>2
    <2>3. Tail(Left(step, c)) = Left("poll", c)
        BY <2>1
    <2> QED
        BY <1>9, <2>2, <2>3, Zenon
<1>10. CASE step = "poll"
    <2>1. Left(step, c) = <<"poll", "blocking">> /\ Left("blocking", c) = <<"blocking">>
        BY <1>10 DEF Left
    <2>2. Left(step, c) \in Seq(Names) /\ Left(step, c) # << >> /\ Head(Left(step, c)) = step
        <3>1. Left(step, c) \in Seq(Names) /\ Len(Left(step, c)) > 0
            BY <1>2a, <2>1
        <3>2. Left(step, c)[1] = step
            BY <1>10, <2>1
        <3> QED
            BY <3>1, <3>2
    <2>3. Tail(Left(step, c)) = Left("blocking", c)
        BY <2>1
    <2> QED
        BY <1>10, <2>2, <2>3, Zenon
<1>11. CASE step = "blocking"
    <2>1. Left(step, c) = <<"blocking">>
        BY <1>11 DEF Left
    <2>2. Left(step, c) \in Seq(Names) /\ Tail(Left(step, c)) = << >>
        BY <1>2a, <2>1
    <2> QED
        BY <1>11, <2>1, <2>2
<1> QED
    BY <1>2, <1>3, <1>4, <1>5, <1>6, <1>7, <1>8, <1>9, <1>10, <1>11 DEF StepNames

\* What follows the making of the socket.
After(c) ==
    IF c.local = "none" THEN Onward(c) ELSE IF c.fn = "packet" THEN Left("bind", c) ELSE Left("reuse", c)

LEMMA PlanIs ==
    ASSUME NEW c \in Setup!Calls
    PROVE  /\ Plan(c) = <<"socket">> \o After(c) /\ After(c) \in Seq(Names)
           /\ Plan(c) \in Seq(Names) /\ Plan(c) # << >>
           /\ Head(Plan(c)) = "socket" /\ Tail(Plan(c)) = After(c)
<1> DEFINE s == <<"socket">>
           b == Setup!Binding(c)
           o == Onward(c)
<1>1. /\ "socket" \in Names /\ "reuse" \in Names /\ "bind" \in Names
      /\ "reuse" \in StepNames /\ "bind" \in StepNames
    BY DEF Names, StepNames
<1>2. s \in Seq(Names) /\ b \in Seq(Names) /\ o \in Seq(Names) /\ << >> \in Seq(Names)
    <2>1. <<"reuse", "bind">> \in Seq(Names) /\ << >> \in Seq(Names) /\ <<"socket">> \in Seq(Names)
        BY <1>1
    <2> QED
        BY <2>1, OnwardIs DEF Setup!Binding
<1>3. After(c) \in Seq(Names)
    BY <1>1, <1>2, LeftIs DEF After
<1>4. c.fn # "packet" => b \o o = After(c)
    <2>1. CASE c.local = "none"
        BY <1>2, <2>1, ConcatEmptySeq DEF Setup!Binding, After
    <2>2. CASE c.local # "none" /\ c.fn # "packet"
        BY <2>2, Zenon DEF Setup!Binding, After, Left
    <2> QED
        BY <2>1, <2>2
<1>5. Plan(c) = s \o After(c)
    <2>1. CASE c.fn = "tcp"
        <3>1. Plan(c) = s \o b \o o
            BY <2>1, Zenon DEF Plan, Setup!tcs_socket_tcp, Onward
        <3>2. s \o b \o o = s \o (b \o o)
            BY <1>2, ConcatAssociative
        <3> QED
            BY <1>4, <2>1, <3>1, <3>2
    <2>2. CASE c.fn = "udp"
        <3>1. Plan(c) = s \o b \o Joins(c) \o Directs(c)
            BY <2>2 DEF Plan, Setup!tcs_socket_udp, Joins, Directs
        <3>2. o = Joins(c) \o Directs(c)
            BY <2>2 DEF Onward
        <3>3. Joins(c) \in Seq(Names) /\ Directs(c) \in Seq(Names)
            <4>1. "join" \in Names
                BY DEF Names, StepNames
            <4>2. <<"join">> \in Seq(Names) /\ << >> \in Seq(Names)
                BY <4>1
            <4> QED
                BY <4>2, OnwardIs DEF Joins
        <3> HIDE DEF s, b, o
        <3>4. s \o b \in Seq(Names)
            BY <1>2, ConcatProperties
        <3>5. (s \o b) \o Joins(c) \o Directs(c) = (s \o b) \o (Joins(c) \o Directs(c))
            BY <3>3, <3>4, ConcatAssociative, SMTT(30)
        <3>6. (s \o b) \o o = s \o (b \o o)
            BY <1>2, ConcatAssociative, SMTT(30)
        <3> QED
            BY <1>4, <2>2, <3>1, <3>2, <3>5, <3>6
    <2>3. CASE c.fn = "packet"
        <3>1. Plan(c) = <<"socket", "bind">>
            BY <2>3 DEF Plan, Setup!tcs_socket_packet
        <3>2. o = << >> /\ After(c) = <<"bind">> \o o
            BY <2>3, CallsAre, OnwardIs DEF After, Left
        <3>3. <<"bind">> \in Seq(Names) /\ <<"bind">> \o << >> = <<"bind">>
            BY <1>1, ConcatEmptySeq
        <3>4. <<"socket">> \o <<"bind">> = <<"socket", "bind">>
            BY <1>1, PairIs, TwoIs
        <3> QED
            BY <3>1, <3>2, <3>3, <3>4
    <2> QED
        BY <2>1, <2>2, <2>3, CallsAre, Zenon
<1> QED
    BY <1>1, <1>3, <1>5, ConsIs

-----------------------------------------------------------------------------
(* Setting up a socket: how it is when a step is next, and when the call   *)
(* has taken its last.  sys is the system, c the call, s the socket, p     *)
(* whether a pool is allocated.                                            *)

Interfaces == {"none", "any", "host", "chosen"}

Sockets ==
    [family : {"ip4", "ip6", "packet"}, reuse : BOOLEAN, local : Interfaces, blocking : BOOLEAN,
     link : {"none", "connecting", "up", "refused", "unreachable"}, group : Interfaces]

IsBound(c, s) ==
    c.local # "none" => s.local \in {c.local, "chosen"} /\ (c.fn # "packet" => s.reuse = TRUE)

\* A link is only what the system may answer.
IsSocket(sys, c, s) ==
    s \in Sockets /\ s.family = c.family /\ s.link \in {"none", "connecting", "up"} \cup sys.answers

\* Steps that are taken once the socket is connecting, or is nonblocking.
Linked == {"await", "pool_create", "pool_add", "poll", "blocking"}
Unblocked(step, c) ==
    step \in {"connect", "pool_create", "pool_add", "poll", "blocking"} /\ Timed(c)

Ready(sys, step, c, s, p) ==
    /\ IsSocket(sys, c, s)
    /\ p \in BOOLEAN /\ ((p = TRUE) <=> step \in {"pool_add", "poll"})
    /\ step \notin {"reuse", "bind"} => IsBound(c, s)
    /\ step = "bind" /\ c.fn # "packet" => s.reuse = TRUE
    /\ (s.link = "none") <=> (step \notin Linked)
    /\ step = "blocking" => s.link = "up"
    /\ (s.blocking = TRUE) <=> ~Unblocked(step, c)
    /\ (s.group = "none") <=> ~(step = "connect" /\ c.remote = "group")

Done(sys, c, s, p) ==
    /\ IsSocket(sys, c, s) /\ IsBound(c, s) /\ p = FALSE
    /\ s.blocking = TRUE /\ s.link # "connecting"
    /\ (s.link = "up") <=> (c.remote = "host" \/ (c.remote = "group" /\ c.local = "none"))
    /\ (s.group # "none") <=> (c.remote = "group")

Fits(sys, c, rest, s, p) ==
    \/ rest = << >> /\ Done(sys, c, s, p)
    \/ \E step \in StepNames : Takes(step, c) /\ rest = Left(step, c) /\ Ready(sys, step, c, s, p)

\* A socket that is bound as asked fits what follows.
LEMMA FitsOnward ==
    ASSUME NEW sys, NEW c \in Setup!Calls, NEW s, IsSocket(sys, c, s), IsBound(c, s),
           s.link = "none", s.group = "none", s.blocking = TRUE
    PROVE  Fits(sys, c, Onward(c), s, FALSE)
<1> "join" \in StepNames /\ "connect" \in StepNames /\ "nonblocking" \in StepNames
    BY DEF StepNames
<1>1. CASE c.remote = "none"
    <2>1. Onward(c) = << >>
        BY <1>1, OnwardIs
    <2>2. Done(sys, c, s, FALSE)
        BY <1>1 DEF Done
    <2> QED
        BY <2>1, <2>2 DEF Fits
<1>2. CASE Timed(c)
    <2>1. Onward(c) = Left("nonblocking", c)
        BY <1>2, OnwardIs
    <2>2. Takes("nonblocking", c) /\ Ready(sys, "nonblocking", c, s, FALSE)
        BY <1>2, CallsAre DEF Takes, Ready, Linked, Unblocked, Timed
    <2> QED
        BY <2>1, <2>2 DEF Fits
<1>3. CASE Untimed(c)
    <2>1. Onward(c) = Left("connect", c)
        BY <1>3, OnwardIs
    <2>2. Takes("connect", c) /\ Ready(sys, "connect", c, s, FALSE)
        BY <1>3, CallsAre DEF Takes, Ready, Linked, Unblocked, Timed, Untimed
    <2> QED
        BY <2>1, <2>2 DEF Fits
<1>4. CASE c.fn = "udp" /\ c.remote = "group"
    <2>1. Onward(c) = Left("join", c)
        BY <1>4, OnwardIs
    <2>2. Takes("join", c) /\ Ready(sys, "join", c, s, FALSE)
        BY <1>4 DEF Takes, Ready, Linked, Unblocked
    <2> QED
        BY <2>1, <2>2 DEF Fits
<1>5. CASE c.fn = "udp" /\ c.remote = "host"
    <2>1. Onward(c) = Left("connect", c)
        BY <1>5, OnwardIs
    <2>2. Takes("connect", c) /\ Ready(sys, "connect", c, s, FALSE)
        BY <1>5 DEF Takes, Ready, Linked, Unblocked, Timed
    <2> QED
        BY <2>1, <2>2 DEF Fits
<1> QED
    BY <1>1, <1>2, <1>3, <1>4, <1>5, CallsAre DEF Timed, Untimed

\* A new socket fits what follows its making.
LEMMA FitsAfter ==
    ASSUME NEW sys, NEW c \in Setup!Calls
    PROVE  Fits(sys, c, After(c), Setup!NewSocket(c.family), FALSE)
<1> DEFINE s == Setup!NewSocket(c.family)
<1>1. /\ IsSocket(sys, c, s) /\ s.local = "none" /\ s.link = "none" /\ s.group = "none"
      /\ s.blocking = TRUE
    BY CallsAre DEF IsSocket, Sockets, Interfaces, Setup!NewSocket
<1> "reuse" \in StepNames /\ "bind" \in StepNames
    BY DEF StepNames
<1> HIDE DEF s
<1>2. CASE c.local = "none"
    <2>1. IsBound(c, s)
        BY <1>2 DEF IsBound
    <2> QED
        BY <1>1, <1>2, <2>1, FitsOnward DEF After, s
<1>3. CASE c.local # "none" /\ c.fn = "packet"
    <2>1. Takes("bind", c) /\ Ready(sys, "bind", c, s, FALSE)
        BY <1>1, <1>3 DEF Takes, Ready, Linked, Unblocked
    <2> QED
        BY <1>3, <2>1 DEF Fits, After, s
<1>4. CASE c.local # "none" /\ c.fn # "packet"
    <2>1. Takes("reuse", c) /\ Ready(sys, "reuse", c, s, FALSE)
        BY <1>1, <1>4 DEF Takes, Ready, Linked, Unblocked
    <2> QED
        BY <1>4, <2>1 DEF Fits, After, s
<1> QED
    BY <1>2, <1>3, <1>4, Zenon

-----------------------------------------------------------------------------
(* Setting up a socket: each step leaves the socket fit for the next.      *)

LEMMA ReuseFits ==
    ASSUME NEW sys, NEW c \in Setup!Calls, NEW s, NEW p,
           Takes("reuse", c), Ready(sys, "reuse", c, s, p)
    PROVE  Fits(sys, c, Tail(Left("reuse", c)), [s EXCEPT !.reuse = TRUE], p)
<1> DEFINE t == [s EXCEPT !.reuse = TRUE]
<1>1. "reuse" \in StepNames /\ "bind" \in StepNames
    BY DEF StepNames
<1>2. /\ IsSocket(sys, c, t) /\ t.reuse = TRUE /\ t.link = s.link /\ t.group = s.group
      /\ t.blocking = s.blocking
    BY DEF Ready, IsSocket, Sockets
<1> HIDE DEF t
<1>3. Takes("bind", c) /\ Ready(sys, "bind", c, t, p)
    BY <1>2 DEF Takes, Ready, Linked, Unblocked
<1> QED
    BY <1>1, <1>3, LeftIs DEF Fits, t

LEMMA BindFits ==
    ASSUME NEW sys, NEW c \in Setup!Calls, NEW s, NEW p,
           Takes("bind", c), Ready(sys, "bind", c, s, p)
    PROVE  Fits(sys, c, Tail(Left("bind", c)), [s EXCEPT !.local = c.local], p)
<1> DEFINE t == [s EXCEPT !.local = c.local]
<1>1. "bind" \in StepNames
    BY DEF StepNames
<1>2. /\ IsSocket(sys, c, t) /\ t.local = c.local /\ t.link = s.link /\ t.group = s.group
      /\ t.blocking = s.blocking /\ t.reuse = s.reuse
    BY CallsAre DEF Ready, IsSocket, Sockets, Interfaces
<1>3. t.link = "none" /\ t.group = "none" /\ t.blocking = TRUE /\ p = FALSE
    BY <1>2 DEF Ready, Linked, Unblocked
<1>4. IsBound(c, t)
    BY <1>2 DEF IsBound, Ready
<1> HIDE DEF t
<1>5. Fits(sys, c, Onward(c), t, FALSE)
    BY <1>2, <1>3, <1>4, FitsOnward
<1> QED
    BY <1>1, <1>3, <1>5, LeftIs, Zenon DEF t

LEMMA JoinFits ==
    ASSUME NEW sys, NEW c \in Setup!Calls, NEW s, NEW p,
           Takes("join", c), Ready(sys, "join", c, s, p)
    PROVE  Fits(sys, c, Tail(Left("join", c)), [s EXCEPT !.group = Setup!Interface(s)], p)
<1> DEFINE t == [s EXCEPT !.group = Setup!Interface(s)]
<1>1. "join" \in StepNames /\ "connect" \in StepNames
    BY DEF StepNames
<1>2. Setup!Interface(s) \in Interfaces \ {"none"}
    BY DEF Setup!Interface, Interfaces, Ready, IsSocket, Sockets
<1>3. /\ IsSocket(sys, c, t) /\ t.local = s.local /\ t.link = s.link /\ t.group # "none"
      /\ t.blocking = s.blocking /\ t.reuse = s.reuse
    BY <1>2 DEF Ready, IsSocket, Sockets
<1>4. t.link = "none" /\ t.blocking = TRUE /\ p = FALSE /\ IsBound(c, t)
    BY <1>3 DEF Ready, Linked, Unblocked, IsBound
<1>5. c.fn = "udp" /\ c.remote = "group"
    BY DEF Takes
<1> HIDE DEF t
<1>6. CASE c.local = "none"
    <2>1. Directs(c) = Left("connect", c)
        BY <1>5, <1>6 DEF Directs, Left
    <2>2. Takes("connect", c) /\ Ready(sys, "connect", c, t, p)
        BY <1>3, <1>4, <1>5, <1>6 DEF Takes, Ready, Linked, Unblocked, Timed
    <2> QED
        BY <1>1, <2>1, <2>2, LeftIs DEF Fits, t
<1>7. CASE c.local # "none"
    <2>1. Directs(c) = << >>
        BY <1>5, <1>7 DEF Directs
    <2>2. Done(sys, c, t, p)
        BY <1>3, <1>4, <1>5, <1>7 DEF Done
    <2> QED
        BY <1>1, <2>1, <2>2, LeftIs DEF Fits, t
<1> QED
    BY <1>6, <1>7

LEMMA NonblockingFits ==
    ASSUME NEW sys, NEW c \in Setup!Calls, NEW s, NEW p,
           Takes("nonblocking", c), Ready(sys, "nonblocking", c, s, p)
    PROVE  Fits(sys, c, Tail(Left("nonblocking", c)), [s EXCEPT !.blocking = FALSE], p)
<1> DEFINE t == [s EXCEPT !.blocking = FALSE]
<1>1. "nonblocking" \in StepNames /\ "connect" \in StepNames
    BY DEF StepNames
<1>2. /\ IsSocket(sys, c, t) /\ t.local = s.local /\ t.link = s.link /\ t.group = s.group
      /\ t.blocking = FALSE /\ t.reuse = s.reuse
    BY DEF Ready, IsSocket, Sockets
<1>3. Timed(c)
    BY DEF Takes
<1> HIDE DEF t
<1>4. Tail(Left("nonblocking", c)) = Left("connect", c)
    <2>1. Left("connect", c) = <<"connect", "pool_create", "pool_add", "poll", "blocking">>
        BY <1>3, Zenon DEF Left, Timed
    <2> QED
        BY <1>1, <2>1, LeftIs
<1>5. Takes("connect", c) /\ Ready(sys, "connect", c, t, p)
    BY <1>2, <1>3 DEF Takes, Ready, Linked, Unblocked, Timed, IsBound
<1> QED
    BY <1>1, <1>4, <1>5 DEF Fits, t

LEMMA BlockingFits ==
    ASSUME NEW sys, NEW c \in Setup!Calls, NEW s, NEW p,
           Takes("blocking", c), Ready(sys, "blocking", c, s, p)
    PROVE  Fits(sys, c, Tail(Left("blocking", c)), [s EXCEPT !.blocking = TRUE], p)
<1> DEFINE t == [s EXCEPT !.blocking = TRUE]
<1>1. "blocking" \in StepNames
    BY DEF StepNames
<1>2. /\ IsSocket(sys, c, t) /\ t.local = s.local /\ t.link = s.link /\ t.group = s.group
      /\ t.blocking = TRUE /\ t.reuse = s.reuse
    BY DEF Ready, IsSocket, Sockets
<1>3. Timed(c)
    BY DEF Takes
<1> HIDE DEF t
<1>4. Tail(Left("blocking", c)) = << >>
    BY <1>1, LeftIs
<1>5. Done(sys, c, t, p)
    BY <1>2, <1>3 DEF Done, Ready, Linked, Unblocked, Timed, IsBound
<1> QED
    BY <1>4, <1>5 DEF Fits, t

\* What connecting makes of a socket.
LEMMA ConnectingIs ==
    ASSUME NEW sys, NEW c \in Setup!Calls, NEW s, NEW p, Ready(sys, "connect", c, s, p),
           NEW l \in {"connecting", "up"}
    PROVE  LET t == Setup!Connecting(s, l)
           IN  /\ IsSocket(sys, c, t) /\ IsBound(c, t) /\ t.link = l
               /\ t.blocking = s.blocking /\ t.group = s.group
<1> DEFINE t == Setup!Connecting(s, l)
           n == IF s.local \in {"none", "any"} THEN "chosen" ELSE s.local
<1>1. n \in Interfaces /\ t = [s EXCEPT !.link = l, !.local = n]
    BY DEF Ready, IsSocket, Sockets, Interfaces, Setup!Connecting
<1>2. c.local # "none" => n \in {c.local, "chosen"}
    BY DEF Ready, IsBound
<1> HIDE DEF n
<1>3. /\ t \in Sockets /\ t.family = s.family /\ t.reuse = s.reuse /\ t.local = n /\ t.link = l
      /\ t.blocking = s.blocking /\ t.group = s.group
    BY <1>1, Zenon DEF Ready, IsSocket, Sockets
<1> HIDE DEF t
<1>4. IsSocket(sys, c, t)
    BY <1>3 DEF IsSocket, Ready
<1>5. IsBound(c, t)
    BY <1>2, <1>3 DEF IsBound, Ready
<1> QED
    BY <1>3, <1>4, <1>5 DEF t

LEMMA ConnectFits ==
    ASSUME NEW sys, NEW c \in Setup!Calls, NEW s, NEW p,
           Takes("connect", c), Ready(sys, "connect", c, s, p)
    PROVE  /\ c.fn = "udp" => Fits(sys, c, Tail(Left("connect", c)), Setup!Connecting(s, "up"), p)
           /\ c.fn = "tcp" =>
                 /\ Fits(sys, c, IF c.timed THEN SubSeq(Left("connect", c), 5, Len(Left("connect", c))) ELSE << >>,
                         Setup!Connecting(s, "up"), p)
                 /\ Fits(sys, c, Tail(Left("connect", c)), Setup!Connecting(s, "connecting"), p)
<1> DEFINE t == Setup!Connecting(s, "up")
           w == Setup!Connecting(s, "connecting")
<1>1. /\ "connect" \in StepNames /\ "await" \in StepNames /\ "pool_create" \in StepNames
      /\ "blocking" \in StepNames
    BY DEF StepNames
<1>2. /\ IsSocket(sys, c, t) /\ IsBound(c, t) /\ t.link = "up"
      /\ t.blocking = s.blocking /\ t.group = s.group
    BY ConnectingIs
<1>3. /\ IsSocket(sys, c, w) /\ IsBound(c, w) /\ w.link = "connecting"
      /\ w.blocking = s.blocking /\ w.group = s.group
    BY ConnectingIs
<1>4. p = FALSE /\ ((s.blocking = TRUE) <=> ~Timed(c)) /\ ((s.group = "none") <=> c.remote # "group")
    BY DEF Ready, Unblocked
<1> HIDE DEF t, w
<1>5. ASSUME c.fn = "udp"
      PROVE  Fits(sys, c, Tail(Left("connect", c)), t, p)
    <2>1. Tail(Left("connect", c)) = << >>
        BY <1>1, <1>5, LeftIs
    <2>2. Done(sys, c, t, p)
        BY <1>2, <1>4, <1>5 DEF Done, Takes, Timed
    <2> QED
        BY <2>1, <2>2 DEF Fits
<1>6. ASSUME c.fn = "tcp", c.timed
      PROVE  /\ Fits(sys, c, SubSeq(Left("connect", c), 5, Len(Left("connect", c))), t, p)
             /\ Fits(sys, c, Tail(Left("connect", c)), w, p)
    <2>1. Timed(c) /\ c.remote = "host"
        BY <1>6, CallsAre DEF Takes, Timed
    <2>2. /\ SubSeq(Left("connect", c), 5, Len(Left("connect", c))) = Left("blocking", c)
          /\ Tail(Left("connect", c)) = Left("pool_create", c)
        BY <1>1, <1>6, LeftIs
    <2>3. Takes("blocking", c) /\ Ready(sys, "blocking", c, t, p)
        BY <1>2, <1>4, <2>1 DEF Takes, Ready, Linked, Unblocked
    <2>4. Takes("pool_create", c) /\ Ready(sys, "pool_create", c, w, p)
        BY <1>3, <1>4, <2>1 DEF Takes, Ready, Linked, Unblocked
    <2> QED
        BY <1>1, <2>2, <2>3, <2>4 DEF Fits
<1>7. ASSUME c.fn = "tcp", ~c.timed
      PROVE  Fits(sys, c, << >>, t, p) /\ Fits(sys, c, Tail(Left("connect", c)), w, p)
    <2>1. Untimed(c) /\ ~Timed(c) /\ c.remote = "host"
        BY <1>7, CallsAre DEF Takes, Timed, Untimed
    <2>2. Tail(Left("connect", c)) = Left("await", c)
        BY <1>1, <1>7, LeftIs
    <2>3. Done(sys, c, t, p)
        BY <1>2, <1>4, <2>1 DEF Done
    <2>4. Takes("await", c) /\ Ready(sys, "await", c, w, p)
        BY <1>3, <1>4, <2>1 DEF Takes, Ready, Linked, Unblocked
    <2> QED
        BY <1>1, <2>2, <2>3, <2>4 DEF Fits
<1> QED
    BY <1>5, <1>6, <1>7, Zenon DEF t, w

LEMMA AwaitFits ==
    ASSUME NEW sys, NEW c \in Setup!Calls, NEW s, NEW p,
           Takes("await", c), Ready(sys, "await", c, s, p), s.link = "up"
    PROVE  Fits(sys, c, Tail(Left("await", c)), s, p)
<1>1. Tail(Left("await", c)) = << >>
    BY LeftIs DEF StepNames
<1>2. Done(sys, c, s, p)
    BY DEF Done, Ready, Linked, Unblocked, Takes, Untimed
<1> QED
    BY <1>1, <1>2 DEF Fits

LEMMA PoolFits ==
    ASSUME NEW sys, NEW c \in Setup!Calls, NEW s, NEW p
    PROVE  /\ Takes("pool_create", c) /\ Ready(sys, "pool_create", c, s, p) =>
                 Fits(sys, c, Tail(Left("pool_create", c)), s, TRUE)
           /\ Takes("pool_add", c) /\ Ready(sys, "pool_add", c, s, p) =>
                 Fits(sys, c, Tail(Left("pool_add", c)), s, p)
           /\ Takes("poll", c) /\ Ready(sys, "poll", c, s, p) /\ s.link = "up" =>
                 Fits(sys, c, Tail(Left("poll", c)), s, FALSE)
<1>1. /\ "pool_create" \in StepNames /\ "pool_add" \in StepNames /\ "poll" \in StepNames
      /\ "blocking" \in StepNames
    BY DEF StepNames
<1>2. /\ Tail(Left("pool_create", c)) = Left("pool_add", c)
      /\ Tail(Left("pool_add", c)) = Left("poll", c)
      /\ Tail(Left("poll", c)) = Left("blocking", c)
    BY <1>1, LeftIs
<1>3. ASSUME Takes("pool_create", c), Ready(sys, "pool_create", c, s, p)
      PROVE  Takes("pool_add", c) /\ Ready(sys, "pool_add", c, s, TRUE)
    BY <1>3 DEF Takes, Ready, Linked, Unblocked
<1>4. ASSUME Takes("pool_add", c), Ready(sys, "pool_add", c, s, p)
      PROVE  Takes("poll", c) /\ Ready(sys, "poll", c, s, p)
    BY <1>4 DEF Takes, Ready, Linked, Unblocked
<1>5. ASSUME Takes("poll", c), Ready(sys, "poll", c, s, p), s.link = "up"
      PROVE  Takes("blocking", c) /\ Ready(sys, "blocking", c, s, FALSE)
    BY <1>5 DEF Takes, Ready, Linked, Unblocked
<1> QED
    BY <1>1, <1>2, <1>3, <1>4, <1>5 DEF Fits

\* The network's answer leaves the socket fit for the step that is next.
LEMMA AnswerFits ==
    ASSUME NEW sys, NEW c \in Setup!Calls, NEW s, NEW p, NEW rest, s.link = "connecting",
           Fits(sys, c, rest, s, p), NEW a \in sys.answers, sys.answers \subseteq {"up", "refused", "unreachable"}
    PROVE  Fits(sys, c, rest, [s EXCEPT !.link = a], p)
<1> DEFINE t == [s EXCEPT !.link = a]
<1>1. PICK step \in StepNames : Takes(step, c) /\ rest = Left(step, c) /\ Ready(sys, step, c, s, p)
    BY DEF Fits, Done
<1>2. /\ IsSocket(sys, c, t) /\ t.local = s.local /\ t.link = a /\ t.group = s.group
      /\ t.blocking = s.blocking /\ t.reuse = s.reuse
    BY <1>1 DEF Ready, IsSocket, Sockets
<1> HIDE DEF t
<1>3. a # "none" /\ s.link # "none" /\ step \in Linked /\ step # "blocking"
    BY <1>1 DEF Ready
<1>4. Ready(sys, step, c, t, p)
    BY <1>1, <1>2, <1>3 DEF Ready, IsBound
<1> QED
    BY <1>1, <1>4 DEF Fits, t

-----------------------------------------------------------------------------
(* Setting up a socket: the inductive invariant.  sk are the system's      *)
(* sockets, rest the steps that are left, r the result.                    *)

SystemTypes ==
    [windows : BOOLEAN, os_fails : BOOLEAN, close_may_fail : BOOLEAN,
     answers : SUBSET {"up", "refused", "unreachable"}]

\* A call that fails has a reason to.
Excused(sys, c, r) ==
    ~sys.os_fails /\ sys.answers = {"up"} /\ ~sys.windows =>
        Setup!Illegal(c) \/ Setup!Mismatched(c) \/ r = "timed_out"

\* Nothing is open yet.
Begun(c, rest) ==
    \/ rest = Plan(c)
    \/ rest = <<"resolve">> \o Plan(c)
    \/ rest = <<"resolve", "resolve">> \o Plan(c)

AtRest(sys, cx, sk, p, c, r) ==
    /\ p = FALSE /\ cx \in BOOLEAN /\ ((cx = TRUE) <=> sk # {})
    /\ c.fn \in {"tcp", "udp", "packet"} =>
          /\ c \in Setup!Calls
          /\ \/ r = "none" /\ cx = FALSE
             \/ r = "success" /\ \E s : sk = {s} /\ Done(sys, c, s, p)
             \/ r \notin {"none", "success"} /\ cx = FALSE /\ Excused(sys, c, r)

AtWork(sys, cx, sk, p, c, rest, r) ==
    /\ r = "none" /\ c \in Setup!Calls
    /\ \/ cx = FALSE /\ sk = {} /\ p = FALSE /\ Begun(c, rest)
       \/ cx = TRUE /\ \E s : sk = {s} /\ Fits(sys, c, rest, s, p)

SetupOk(sys, cx, sk, p, c, rest, r) ==
    /\ rest = << >> => AtRest(sys, cx, sk, p, c, r)
    /\ rest # << >> => AtWork(sys, cx, sk, p, c, rest, r)

SetupNow == SetupOk(system, ctx, socket, pool, call, steps, result)

SetupInv ==
    matter = "setup" => system \in SetupSystems /\ (~Setup!CloseMayFail => SetupNow)

LEMMA SetupImplies ==
    ASSUME SetupInv
    PROVE  AllOrNothing
<1> SUFFICES ASSUME matter = "setup", ~Setup!CloseMayFail
             PROVE  Setup!SetBack /\ Setup!AsAsked /\ Setup!LegalCallSucceeds
    BY DEF AllOrNothing, Setup!AllOrNothing
<1>1. SetupNow
    BY DEF SetupInv
<1>2. ASSUME Setup!Idle, Setup!InSetup
      PROVE  AtRest(system, ctx, socket, pool, call, result) /\ call.fn \in {"tcp", "udp", "packet"}
    BY <1>1, <1>2 DEF SetupNow, SetupOk, Setup!Idle, Setup!InSetup
<1>3. Setup!SetBack /\ Setup!LegalCallSucceeds
    BY <1>2 DEF Setup!SetBack, Setup!LegalCallSucceeds, Setup!Failed, AtRest, Excused,
                Setup!OsFails, Setup!Answers, Setup!Windows
<1>4. Setup!AsAsked
    <2> SUFFICES ASSUME Setup!Succeeded
                 PROVE  /\ ctx /\ Setup!The.blocking /\ Setup!The.family = call.family
                        /\ call.local # "none" => Setup!The.local \in {call.local, "chosen"}
                        /\ call.local # "none" /\ call.fn # "packet" => Setup!The.reuse
                        /\ (Setup!The.link = "up") <=>
                              (call.remote = "host" \/ (call.remote = "group" /\ call.local = "none"))
                        /\ (Setup!The.group # "none") <=> (call.remote = "group")
        BY DEF Setup!AsAsked
    <2>1. PICK s : socket = {s} /\ Done(system, call, s, pool)
        BY <1>2 DEF Setup!Succeeded, AtRest
    <2>2. Setup!The = s /\ ctx = TRUE
        BY <1>2, <2>1 DEF Setup!The, Setup!Succeeded, AtRest
    <2> QED
        BY <2>1, <2>2 DEF Done, IsSocket, IsBound
<1> QED
    BY <1>3, <1>4

\* Where a call is when one of the steps on the socket is next.
LEMMA AtStep ==
    ASSUME SetupNow, NEW step \in StepNames, Setup!At(step)
    PROVE  /\ ctx = TRUE /\ call \in Setup!Calls
           /\ \E s : /\ socket = {s} /\ Setup!The = s /\ steps = Left(step, call)
                     /\ Takes(step, call) /\ Ready(system, step, call, s, pool)
<1>1. AtWork(system, ctx, socket, pool, call, steps, result) /\ steps # << >> /\ Head(steps) = step
    BY DEF SetupNow, SetupOk, Setup!At, Setup!Idle
<1>2. call \in Setup!Calls
    BY <1>1 DEF AtWork
<1>3. ~Begun(call, steps)
    <2>1. "resolve" \in Names /\ Plan(call) \in Seq(Names) /\ step # "resolve" /\ step # "socket"
        BY <1>2, PlanIs DEF Names, StepNames
    <2> QED
        BY <1>1, <1>2, <2>1, PlanIs, ConsIs, PairIs, SMTT(30) DEF Begun
<1>4. PICK s : ctx = TRUE /\ socket = {s} /\ Fits(system, call, steps, s, pool)
    BY <1>1, <1>3 DEF AtWork
<1>5. PICK y \in StepNames : Takes(y, call) /\ steps = Left(y, call) /\ Ready(system, y, call, s, pool)
    BY <1>1, <1>4 DEF Fits
<1>6. y = step
    BY <1>1, <1>2, <1>5, LeftIs
<1>7. Setup!The = s
    BY <1>4 DEF Setup!The
<1> QED
    BY <1>2, <1>4, <1>5, <1>6, <1>7

\* What SetupOk is after a step.
SetupThen == SetupOk(system, ctx', socket', pool', call', steps', result')

LEMMA WentOn ==
    ASSUME call \in Setup!Calls, NEW s, NEW left, Setup!GoOn(left), socket' = {s}, ctx' = TRUE,
           Fits(system, call, left, s, pool')
    PROVE  SetupThen
<1>1. call' = call /\ steps' = left /\ result' = IF left = << >> THEN "success" ELSE "none"
    BY DEF Setup!GoOn
<1>2. CASE left = << >>
    <2>1. Done(system, call, s, pool')
        BY <1>2, LeftIs DEF Fits
    <2>2. AtRest(system, ctx', socket', pool', call', result')
        BY <1>1, <1>2, <2>1 DEF AtRest, Done
    <2> QED
        BY <1>1, <1>2, <2>2, Zenon DEF SetupThen, SetupOk
<1>3. CASE left # << >>
    <2>1. AtWork(system, ctx', socket', pool', call', steps', result')
        BY <1>1, <1>3 DEF AtWork
    <2> QED
        BY <1>1, <1>3, <2>1 DEF SetupThen, SetupOk
<1> QED
    BY <1>2, <1>3

LEMMA GaveUp ==
    ASSUME call \in Setup!Calls, ~Setup!CloseMayFail, NEW sts, Setup!GiveUp(sts),
           sts \notin {"none", "success"}, Excused(system, call, sts)
    PROVE  SetupThen
<1>1. /\ ctx' = FALSE /\ socket' = {} /\ pool' = FALSE /\ call' = call /\ steps' = << >>
      /\ result' = sts
    BY DEF Setup!GiveUp, Setup!tcs_close
<1>2. AtRest(system, ctx', socket', pool', call', result')
    BY <1>1, Zenon DEF AtRest
<1> QED
    BY <1>1, <1>2 DEF SetupThen, SetupOk

\* A step that is one call of the system: it is enough that the socket fits
\* what is left.
LEMMA CalledSystem ==
    ASSUME SetupNow, ~Setup!CloseMayFail, NEW step \in StepNames, NEW t, Setup!SystemCall(step, t),
           Fits(system, call, Tail(steps), t, pool)
    PROVE  SetupThen
<1>1. ctx = TRUE /\ call \in Setup!Calls
    BY AtStep, Zenon DEF Setup!SystemCall
<1>2. CASE socket' = {t} /\ Setup!GoOn(Tail(steps)) /\ UNCHANGED <<ctx, pool>>
    <2>1. socket' = {t} /\ ctx' = TRUE /\ Fits(system, call, Tail(steps), t, pool')
        BY <1>1, <1>2
    <2> QED
        BY <1>1, <1>2, <2>1, WentOn
<1>3. CASE Setup!OsFails /\ Setup!GiveUp("system")
    <2>1. Excused(system, call, "system")
        BY <1>3 DEF Excused, Setup!OsFails
    <2> QED
        BY <1>1, <1>3, <2>1, GaveUp
<1> QED
    BY <1>2, <1>3 DEF Setup!SystemCall

-----------------------------------------------------------------------------
(* Setting up a socket: every action keeps the invariant.                  *)

LEMMA BeginKeeps ==
    ASSUME SetupNow, NEW c \in Setup!Calls, Setup!Begin(c)
    PROVE  SetupThen
<1>1. /\ call' = c /\ ctx' = ctx /\ socket' = socket /\ pool' = pool
      /\ ctx = FALSE /\ socket = {} /\ pool = FALSE
    BY DEF Setup!Begin, Setup!Idle, SetupNow, SetupOk, AtRest
<1>2. CASE Setup!Illegal(c) /\ steps' = << >> /\ result' = "invalid_argument"
    <2>1. AtRest(system, ctx', socket', pool', call', result')
        BY <1>1, <1>2 DEF AtRest, Excused
    <2> QED
        BY <1>2, <2>1 DEF SetupThen, SetupOk
<1>3. CASE result' = "none" /\ steps' = Setup!Resolving(c) \o Plan(c)
    <2>1. Begun(c, steps') /\ steps' # << >>
        <3> DEFINE one == <<"resolve">>
        <3>1. "resolve" \in Names /\ Plan(c) \in Seq(Names) /\ Plan(c) # << >>
            BY PlanIs DEF Names
        <3>2. << >> \o Plan(c) = Plan(c) /\ << >> \in Seq(Names) /\ one \in Seq(Names)
            BY <3>1, ConcatEmptySeq
        <3>3. one \o << >> = one /\ << >> \o one = one /\ << >> \o << >> = << >>
            BY <3>2, ConcatEmptySeq
        <3>4. one \o one = <<"resolve", "resolve">>
            BY <3>1, TwoIs, Zenon
        <3>5. Setup!Resolving(c) \in {<< >>, one, <<"resolve", "resolve">>}
            BY <3>3, <3>4 DEF Setup!Resolving
        <3>6. one \o Plan(c) # << >> /\ <<"resolve", "resolve">> \o Plan(c) # << >>
            BY <3>1, ConsIs, PairIs
        <3> QED
            BY <1>3, <3>1, <3>2, <3>5, <3>6, Zenon DEF Begun
    <2>2. AtWork(system, ctx', socket', pool', call', steps', result')
        BY <1>1, <1>3, <2>1 DEF AtWork
    <2> QED
        BY <2>1, <2>2 DEF SetupThen, SetupOk
<1> QED
    BY <1>2, <1>3 DEF Setup!Begin, Plan

\* While nothing is open, a call resolves addresses or makes the socket.
LEMMA AtBegun ==
    ASSUME SetupNow, NEW step \in {"resolve", "socket"}, Setup!At(step)
    PROVE  /\ ctx = FALSE /\ socket = {} /\ pool = FALSE /\ call \in Setup!Calls /\ result = "none"
           /\ step = "resolve" => Tail(steps) # << >> /\ Begun(call, Tail(steps))
           /\ step = "socket" => Tail(steps) = After(call)
<1>1. AtWork(system, ctx, socket, pool, call, steps, result) /\ steps # << >> /\ Head(steps) = step
    BY DEF SetupNow, SetupOk, Setup!At, Setup!Idle
<1>2. call \in Setup!Calls /\ result = "none"
    BY <1>1 DEF AtWork
<1>3. ASSUME NEW s, Fits(system, call, steps, s, pool)
      PROVE  FALSE
    <2>1. PICK y \in StepNames : steps = Left(y, call)
        BY <1>1, <1>3 DEF Fits
    <2>2. Head(steps) = y
        BY <1>2, <2>1, LeftIs
    <2> QED
        BY <1>1, <2>2 DEF StepNames
<1>4. ctx = FALSE /\ socket = {} /\ pool = FALSE /\ Begun(call, steps)
    BY <1>1, <1>3 DEF AtWork
<1>5. /\ "resolve" \in Names /\ Plan(call) \in Seq(Names) /\ Plan(call) # << >>
      /\ Head(Plan(call)) = "socket" /\ Tail(Plan(call)) = After(call)
    BY <1>2, PlanIs DEF Names
<1>6. CASE steps = Plan(call)
    BY <1>1, <1>2, <1>4, <1>5, <1>6
<1>7. CASE steps = <<"resolve">> \o Plan(call)
    <2>1. Head(steps) = "resolve" /\ Tail(steps) = Plan(call)
        BY <1>5, <1>7, ConsIs
    <2> QED
        BY <1>1, <1>2, <1>4, <1>5, <2>1 DEF Begun
<1>8. CASE steps = <<"resolve", "resolve">> \o Plan(call)
    <2>1. Head(steps) = "resolve" /\ Tail(steps) = <<"resolve">> \o Plan(call)
        BY <1>5, <1>8, PairIs
    <2>2. <<"resolve">> \o Plan(call) # << >>
        BY <1>5, ConsIs
    <2> QED
        BY <1>1, <1>2, <1>4, <1>5, <2>1, <2>2, Zenon DEF Begun
<1> QED
    BY <1>4, <1>6, <1>7, <1>8, Zenon DEF Begun

LEMMA ResolveKeeps ==
    ASSUME SetupNow, Setup!Resolve
    PROVE  SetupThen
<1>1. /\ ctx' = FALSE /\ socket' = {} /\ pool' = FALSE /\ call \in Setup!Calls
      /\ Tail(steps) # << >> /\ Begun(call, Tail(steps))
    BY AtBegun DEF Setup!Resolve
<1>2. CASE Setup!GoOn(Tail(steps))
    <2>1. call' = call /\ steps' = Tail(steps) /\ result' = "none"
        BY <1>1, <1>2 DEF Setup!GoOn
    <2>2. AtWork(system, ctx', socket', pool', call', steps', result')
        BY <1>1, <2>1 DEF AtWork
    <2> QED
        BY <1>1, <2>1, <2>2 DEF SetupThen, SetupOk
<1>3. CASE /\ Setup!OsFails \/ Setup!Mismatched(call)
           /\ steps' = << >> /\ result' = "lookup_failed" /\ call' = call
    <2>1. Excused(system, call, result')
        BY <1>3 DEF Excused, Setup!OsFails
    <2>2. AtRest(system, ctx', socket', pool', call', result')
        BY <1>1, <1>3, <2>1, Zenon DEF AtRest
    <2> QED
        BY <1>3, <2>2 DEF SetupThen, SetupOk
<1> QED
    BY <1>2, <1>3 DEF Setup!Resolve

LEMMA SocketKeeps ==
    ASSUME SetupNow, Setup!tcs_socket
    PROVE  SetupThen
<1>1. /\ ctx = FALSE /\ socket = {} /\ pool' = FALSE /\ call \in Setup!Calls
      /\ Tail(steps) = After(call)
    BY AtBegun DEF Setup!tcs_socket
<1>2. CASE ctx' = TRUE /\ socket' = {Setup!NewSocket(call.family)} /\ Setup!GoOn(Tail(steps))
    <2>1. Fits(system, call, Tail(steps), Setup!NewSocket(call.family), pool')
        BY <1>1, FitsAfter
    <2> QED
        BY <1>1, <1>2, <2>1, WentOn
<1>3. CASE /\ Setup!OsFails \/ (Setup!Windows /\ call.family = "packet")
           /\ steps' = << >> /\ result' = "system" /\ UNCHANGED <<ctx, socket, call>>
    <2>1. Excused(system, call, result')
        BY <1>3 DEF Excused, Setup!OsFails, Setup!Windows
    <2>2. AtRest(system, ctx', socket', pool', call', result')
        BY <1>1, <1>3, <2>1 DEF AtRest
    <2> QED
        BY <1>3, <2>2 DEF SetupThen, SetupOk
<1> QED
    BY <1>2, <1>3, Zenon DEF Setup!tcs_socket

LEMMA CallsKeep ==
    ASSUME SetupNow, ~Setup!CloseMayFail,
           Setup!tcs_opt_reuse_address_set \/ Setup!tcs_bind \/ Setup!tcs_opt_nonblocking_set
    PROVE  SetupThen
<1> /\ "reuse" \in StepNames /\ "bind" \in StepNames /\ "nonblocking" \in StepNames
    /\ "blocking" \in StepNames
    BY DEF StepNames
<1>1. CASE Setup!tcs_opt_reuse_address_set
    <2>1. Setup!SystemCall("reuse", [Setup!The EXCEPT !.reuse = TRUE])
        BY <1>1 DEF Setup!tcs_opt_reuse_address_set
    <2>2. Fits(system, call, Tail(steps), [Setup!The EXCEPT !.reuse = TRUE], pool)
        BY <2>1, AtStep, ReuseFits, Zenon DEF Setup!SystemCall
    <2> QED
        BY <2>1, <2>2, CalledSystem
<1>2. CASE Setup!tcs_bind
    <2>1. Setup!SystemCall("bind", [Setup!The EXCEPT !.local = call.local])
        BY <1>2 DEF Setup!tcs_bind
    <2>2. Fits(system, call, Tail(steps), [Setup!The EXCEPT !.local = call.local], pool)
        BY <2>1, AtStep, BindFits, Zenon DEF Setup!SystemCall
    <2> QED
        BY <2>1, <2>2, CalledSystem
<1>3. CASE Setup!SystemCall("nonblocking", [Setup!The EXCEPT !.blocking = FALSE])
    <2>1. Fits(system, call, Tail(steps), [Setup!The EXCEPT !.blocking = FALSE], pool)
        BY <1>3, AtStep, NonblockingFits DEF Setup!SystemCall
    <2> QED
        BY <1>3, <2>1, CalledSystem
<1>4. CASE Setup!SystemCall("blocking", [Setup!The EXCEPT !.blocking = TRUE])
    <2>1. Fits(system, call, Tail(steps), [Setup!The EXCEPT !.blocking = TRUE], pool)
        BY <1>4, AtStep, BlockingFits DEF Setup!SystemCall
    <2> QED
        BY <1>4, <2>1, CalledSystem
<1> QED
    BY <1>1, <1>2, <1>3, <1>4 DEF Setup!tcs_opt_nonblocking_set

LEMMA JoinKeeps ==
    ASSUME SetupNow, ~Setup!CloseMayFail, Setup!tcs_opt_membership_add
    PROVE  SetupThen
<1> "join" \in StepNames
    BY DEF StepNames
<1> DEFINE t == [Setup!The EXCEPT !.group = Setup!Interface(Setup!The)]
<1>1. call \in Setup!Calls /\ Fits(system, call, Tail(steps), t, pool)
    BY AtStep, JoinFits, Zenon DEF Setup!tcs_opt_membership_add
<1>2. CASE Setup!SystemCall("join", t)
    BY <1>1, <1>2, CalledSystem
<1>3. CASE ~Setup!HasInterface(Setup!The) /\ Setup!GiveUp("system")
    <2>1. Excused(system, call, "system")
        BY <1>3 DEF Excused, Setup!HasInterface, Setup!Windows
    <2> QED
        BY <1>1, <1>3, <2>1, GaveUp
<1> QED
    BY <1>2, <1>3 DEF Setup!tcs_opt_membership_add

LEMMA ConnectKeeps ==
    ASSUME SetupNow, ~Setup!CloseMayFail, Setup!tcs_connect
    PROVE  SetupThen
<1> "connect" \in StepNames
    BY DEF StepNames
<1>1. PICK s : /\ Setup!The = s /\ steps = Left("connect", call)
               /\ Takes("connect", call) /\ Ready(system, "connect", call, s, pool)
    BY AtStep DEF Setup!tcs_connect
<1>2. ctx = TRUE /\ call \in Setup!Calls
    BY AtStep DEF Setup!tcs_connect
<1>3. CASE Setup!OsFails /\ Setup!GiveUp("system")
    <2>1. Excused(system, call, "system")
        BY <1>3 DEF Excused, Setup!OsFails
    <2> QED
        BY <1>2, <1>3, <2>1, GaveUp
<1>4. CASE /\ call.fn = "udp"
           /\ socket' = {Setup!Connecting(s, "up")} /\ Setup!GoOn(Tail(steps)) /\ UNCHANGED <<ctx, pool>>
    <2>1. Fits(system, call, Tail(steps), Setup!Connecting(s, "up"), pool')
        BY <1>1, <1>2, <1>4, ConnectFits
    <2> QED
        BY <1>2, <1>4, <2>1, WentOn
<1>5. CASE /\ call.fn = "tcp"
           /\ socket' = {Setup!Connecting(s, "connecting")} /\ Setup!GoOn(Tail(steps)) /\ UNCHANGED <<ctx, pool>>
    <2>1. Fits(system, call, Tail(steps), Setup!Connecting(s, "connecting"), pool')
        BY <1>1, <1>2, <1>5, ConnectFits
    <2> QED
        BY <1>2, <1>5, <2>1, WentOn
<1>6. CASE /\ call.fn = "tcp"
           /\ socket' = {Setup!Connecting(s, "up")}
           /\ Setup!GoOn(IF call.timed THEN SubSeq(steps, 5, Len(steps)) ELSE << >>)
           /\ UNCHANGED <<ctx, pool>>
    <2>1. Fits(system, call, IF call.timed THEN SubSeq(steps, 5, Len(steps)) ELSE << >>,
               Setup!Connecting(s, "up"), pool')
        BY <1>1, <1>2, <1>6, ConnectFits
    <2> QED
        BY <1>2, <1>6, <2>1, WentOn
<1> QED
    BY <1>1, <1>3, <1>4, <1>5, <1>6, Zenon DEF Setup!tcs_connect, Setup!NotUpYet

LEMMA AwaitKeeps ==
    ASSUME SetupNow, ~Setup!CloseMayFail, Setup!Await
    PROVE  SetupThen
<1> "await" \in StepNames
    BY DEF StepNames
<1>1. PICK s : /\ Setup!The = s /\ steps = Left("await", call) /\ socket = {s}
               /\ Takes("await", call) /\ Ready(system, "await", call, s, pool)
    BY AtStep, Zenon DEF Setup!Await
<1>2. ctx = TRUE /\ call \in Setup!Calls
    BY AtStep, Zenon DEF Setup!Await
<1>3. CASE s.link = "up" /\ Setup!GoOn(Tail(steps)) /\ UNCHANGED <<ctx, socket, pool>>
    <2>1. Fits(system, call, Tail(steps), s, pool')
        BY <1>1, <1>2, <1>3, AwaitFits
    <2>2. socket' = {s} /\ ctx' = TRUE /\ Setup!GoOn(Tail(steps))
        BY <1>1, <1>2, <1>3
    <2> QED
        BY <1>2, <2>1, <2>2, WentOn
<1>4. CASE s.link \in {"refused", "unreachable"} /\ Setup!GiveUp(s.link)
    <2>1. Excused(system, call, s.link)
        BY <1>1, <1>4 DEF Excused, Ready, IsSocket
    <2> QED
        BY <1>2, <1>4, <2>1, GaveUp
<1>5. CASE Setup!GiveUp("timed_out")
    <2>1. Excused(system, call, "timed_out")
        BY DEF Excused
    <2> QED
        BY <1>2, <1>5, <2>1, GaveUp
<1> QED
    BY <1>1, <1>3, <1>4, <1>5 DEF Setup!Await

LEMMA PoolKeeps ==
    ASSUME SetupNow, ~Setup!CloseMayFail,
           Setup!tcs_pool_create \/ Setup!tcs_pool_add \/ Setup!tcs_pool_poll
    PROVE  SetupThen
<1> "pool_create" \in StepNames /\ "pool_add" \in StepNames /\ "poll" \in StepNames
    BY DEF StepNames
<1>1. CASE Setup!tcs_pool_create
    <2>1. PICK s : /\ steps = Left("pool_create", call) /\ socket = {s}
                   /\ Takes("pool_create", call) /\ Ready(system, "pool_create", call, s, pool)
        BY <1>1, AtStep, Zenon DEF Setup!tcs_pool_create
    <2>2. ctx = TRUE /\ call \in Setup!Calls
        BY <1>1, AtStep, Zenon DEF Setup!tcs_pool_create
    <2>3. CASE pool' = TRUE /\ Setup!GoOn(Tail(steps)) /\ UNCHANGED <<ctx, socket>>
        <3>1. Fits(system, call, Tail(steps), s, pool')
            BY <2>1, <2>2, <2>3, PoolFits, Zenon
        <3>2. socket' = {s} /\ ctx' = TRUE /\ Setup!GoOn(Tail(steps))
            BY <2>1, <2>2, <2>3
        <3> QED
            BY <2>2, <3>1, <3>2, WentOn
    <2>4. CASE Setup!OsFails /\ Setup!GiveUp("memory")
        <3>1. Excused(system, call, "memory")
            BY <2>4 DEF Excused, Setup!OsFails
        <3> QED
            BY <2>2, <2>4, <3>1, GaveUp
    <2> QED
        BY <1>1, <2>3, <2>4, Zenon DEF Setup!tcs_pool_create
<1>2. CASE Setup!tcs_pool_add
    <2>1. PICK s : /\ steps = Left("pool_add", call) /\ socket = {s}
                   /\ Takes("pool_add", call) /\ Ready(system, "pool_add", call, s, pool)
        BY <1>2, AtStep, Zenon DEF Setup!tcs_pool_add
    <2>2. ctx = TRUE /\ call \in Setup!Calls
        BY <1>2, AtStep DEF Setup!tcs_pool_add
    <2>3. CASE Setup!GoOn(Tail(steps)) /\ UNCHANGED <<ctx, socket, pool>>
        <3>1. Fits(system, call, Tail(steps), s, pool')
            BY <2>1, <2>2, <2>3, PoolFits, Zenon
        <3>2. socket' = {s} /\ ctx' = TRUE /\ Setup!GoOn(Tail(steps))
            BY <2>1, <2>2, <2>3
        <3> QED
            BY <2>2, <3>1, <3>2, WentOn
    <2>4. CASE Setup!OsFails /\ Setup!GiveUp("memory")
        <3>1. Excused(system, call, "memory")
            BY <2>4 DEF Excused, Setup!OsFails
        <3> QED
            BY <2>2, <2>4, <3>1, GaveUp
    <2> QED
        BY <1>2, <2>3, <2>4 DEF Setup!tcs_pool_add
<1>3. CASE Setup!tcs_pool_poll
    <2>1. PICK s : /\ Setup!The = s /\ steps = Left("poll", call) /\ socket = {s}
                   /\ Takes("poll", call) /\ Ready(system, "poll", call, s, pool)
        BY <1>3, AtStep DEF Setup!tcs_pool_poll
    <2>2. ctx = TRUE /\ call \in Setup!Calls
        BY <1>3, AtStep DEF Setup!tcs_pool_poll
    <2>3. CASE /\ s.link # "connecting" /\ ~Setup!WasRefused(s)
               /\ pool' = FALSE /\ Setup!GoOn(Tail(steps)) /\ UNCHANGED <<ctx, socket>>
        <3>1. s.link = "up"
            BY <2>1, <2>3 DEF Setup!WasRefused, Ready, IsSocket, Sockets, Linked
        <3>2. Fits(system, call, Tail(steps), s, pool')
            BY <2>1, <2>2, <2>3, <3>1, PoolFits
        <3>3. socket' = {s} /\ ctx' = TRUE /\ Setup!GoOn(Tail(steps))
            BY <2>1, <2>2, <2>3
        <3> QED
            BY <2>2, <3>2, <3>3, WentOn
    <2>4. CASE Setup!WasRefused(s) /\ Setup!GiveUp("refused")
        <3>1. Excused(system, call, "refused")
            BY <2>1, <2>4 DEF Excused, Setup!WasRefused, Ready, IsSocket
        <3> QED
            BY <2>2, <2>4, <3>1, GaveUp
    <2>5. CASE Setup!GiveUp("timed_out")
        <3>1. Excused(system, call, "timed_out")
            BY DEF Excused
        <3> QED
            BY <2>2, <2>5, <3>1, GaveUp
    <2>6. CASE Setup!OsFails /\ Setup!GiveUp("system")
        <3>1. Excused(system, call, "system")
            BY <2>6 DEF Excused, Setup!OsFails
        <3> QED
            BY <2>2, <2>6, <3>1, GaveUp
    <2> QED
        BY <1>3, <2>1, <2>3, <2>4, <2>5, <2>6 DEF Setup!tcs_pool_poll, Setup!TimeIsOver
<1> QED
    BY <1>1, <1>2, <1>3

LEMMA AnswerKeeps ==
    ASSUME SetupNow, system \in SystemTypes, Setup!Answer
    PROVE  SetupThen
<1>1. PICK a \in system.answers : socket' = {[Setup!The EXCEPT !.link = a]}
    BY DEF Setup!Answer, Setup!Answers
<1>2. /\ ctx' = ctx /\ pool' = pool /\ call' = call /\ steps' = steps /\ result' = result
      /\ socket # {} /\ Setup!The.link = "connecting"
    BY DEF Setup!Answer
<1>3. CASE steps = << >>
    <2>1. AtRest(system, ctx, socket, pool, call, result)
        BY <1>3 DEF SetupNow, SetupOk
    <2>2. ASSUME NEW s, socket = {s}, Done(system, call, s, pool)
          PROVE  FALSE
        <3>1. Setup!The = s
            BY <2>2 DEF Setup!The
        <3> QED
            BY <1>2, <2>2, <3>1 DEF Done
    <2>3. AtRest(system, ctx', socket', pool', call', result')
        BY <1>1, <1>2, <2>1, <2>2 DEF AtRest
    <2> QED
        BY <1>2, <1>3, <2>3 DEF SetupThen, SetupOk
<1>4. CASE steps # << >>
    <2>1. AtWork(system, ctx, socket, pool, call, steps, result)
        BY <1>4 DEF SetupNow, SetupOk
    <2>2. PICK s : ctx = TRUE /\ socket = {s} /\ Fits(system, call, steps, s, pool)
        BY <1>2, <2>1 DEF AtWork
    <2>3. Setup!The = s
        BY <2>2 DEF Setup!The
    <2>4. system.answers \subseteq {"up", "refused", "unreachable"} /\ call \in Setup!Calls
        BY <2>1 DEF SystemTypes, AtWork
    <2>5. Fits(system, call, steps, [s EXCEPT !.link = a], pool)
        BY <1>2, <2>2, <2>3, <2>4, AnswerFits
    <2>6. AtWork(system, ctx', socket', pool', call', steps', result')
        BY <1>1, <1>2, <2>1, <2>2, <2>3, <2>5 DEF AtWork
    <2> QED
        BY <1>2, <1>4, <2>6 DEF SetupThen, SetupOk
<1> QED
    BY <1>3, <1>4

\* Leaving the group and closing the socket: calls of the program's own.
LEMMA OwnCallsKeep ==
    ASSUME SetupNow, ~Setup!CloseMayFail, Setup!tcs_opt_membership_drop \/ Setup!Close
    PROVE  SetupThen
<1>1. steps = << >> /\ steps' = << >> /\ pool' = pool /\ AtRest(system, ctx, socket, pool, call, result)
    BY DEF Setup!tcs_opt_membership_drop, Setup!Close, Setup!Idle, SetupNow, SetupOk
<1>2. CASE Setup!tcs_opt_membership_drop
    <2>1. (socket' # {}) /\ ctx' = ctx /\ ctx = TRUE
        BY <1>1, <1>2, Zenon DEF Setup!tcs_opt_membership_drop, AtRest
    <2>2. call'.fn \notin {"tcp", "udp", "packet"}
        BY <1>2 DEF Setup!tcs_opt_membership_drop
    <2> QED
        BY <1>1, <2>1, <2>2 DEF SetupThen, SetupOk, AtRest
<1>3. CASE Setup!Close
    <2>1. socket' = {} /\ ctx' = FALSE
        BY <1>3 DEF Setup!Close, Setup!tcs_close
    <2>2. call'.fn \notin {"tcp", "udp", "packet"}
        BY <1>3 DEF Setup!Close
    <2> QED
        BY <1>1, <2>1, <2>2, Zenon DEF SetupThen, SetupOk, AtRest
<1> QED
    BY <1>2, <1>3

LEMMA SetupKeeps ==
    ASSUME SetupNow, ~Setup!CloseMayFail, system \in SystemTypes, Setup!Next
    PROVE  SetupThen
<1>1. CASE \E c \in Setup!Calls : Setup!Begin(c)
    BY <1>1, BeginKeeps
<1>2. CASE Setup!Step
    BY <1>2, ResolveKeeps, SocketKeeps, CallsKeep, JoinKeeps, ConnectKeeps, AwaitKeeps, PoolKeeps
       DEF Setup!Step
<1>3. CASE Setup!Answer
    BY <1>3, AnswerKeeps
<1>4. CASE Setup!tcs_opt_membership_drop \/ Setup!Close
    BY <1>4, OwnCallsKeep
<1> QED
    BY <1>1, <1>2, <1>3, <1>4 DEF Setup!Next

LEMMA SetupInvIsInductive ==
    /\ SocketInit => SetupInv
    /\ SetupInv /\ [SocketNext]_socketVars => SetupInv'
<1>1. SocketInit => SetupInv
    <2> SUFFICES ASSUME SocketInit, matter = "setup"
                 PROVE  system \in SetupSystems /\ SetupNow
        BY DEF SetupInv
    <2>1. Setup!Init
        BY DEF SocketInit
    <2>2. call.fn = "packet" /\ call \in Setup!Calls /\ steps = << >> /\ result = "none"
        BY <2>1 DEF Setup!Init
    <2>3. AtRest(system, ctx, socket, pool, call, result)
        BY <2>1, <2>2 DEF Setup!Init, AtRest
    <2> QED
        BY <2>1, <2>2, <2>3 DEF Setup!Init, SetupNow, SetupOk
<1>2. ASSUME SetupInv, [SocketNext]_socketVars
      PROVE  SetupInv'
    <2> SUFFICES ASSUME matter' = "setup"
                 PROVE  system' \in SetupSystems /\ (~Setup!CloseMayFail' => SetupNow')
        BY DEF SetupInv
    <2>1. matter = "setup"
        BY <1>2 DEF SocketNext, socketVars
    <2>2. system \in SetupSystems /\ system \in SystemTypes
        BY <1>2, <2>1, SocketsAssumption DEF SetupInv, Setup!SetupAssumption, SystemTypes
    <2>3. CASE Setup!Next
        <3>1. system' = system
            BY <2>3 DEF Setup!Next
        <3>2. ASSUME ~Setup!CloseMayFail
              PROVE  SetupThen
            BY <1>2, <2>1, <2>2, <2>3, <3>2, SetupKeeps DEF SetupInv
        <3> QED
            BY <2>2, <3>1, <3>2 DEF SetupThen, SetupNow, Setup!CloseMayFail
    <2>4. CASE UNCHANGED socketVars
        <3>1. /\ system' = system /\ ctx' = ctx /\ socket' = socket /\ pool' = pool /\ call' = call
              /\ steps' = steps /\ result' = result
            BY <2>4 DEF socketVars, setupVars
        <3> QED
            BY <1>2, <2>1, <2>2, <3>1 DEF SetupInv, SetupNow, Setup!CloseMayFail
    <2> QED
        BY <1>2, <2>1, <2>3, <2>4 DEF SocketNext
<1> QED
    BY <1>1, <1>2

\* However far it got, a call that sets up a socket has done all that was
\* asked for and undone what it did for itself, or has undone everything:
\* on every system, whichever of its calls fail (tinycsocket.h:540-545).
THEOREM SocketsAreSetUp == SocketSpec => []AllOrNothing
<1>1. SocketInit => SetupInv
    BY SetupInvIsInductive
<1>2. SetupInv /\ [SocketNext]_socketVars => SetupInv'
    BY SetupInvIsInductive
<1>3. SetupInv => AllOrNothing
    BY SetupImplies
<1> QED
    BY <1>1, <1>2, <1>3, PTL DEF SocketSpec

-----------------------------------------------------------------------------
(* Lines: sequences that are cut and joined.                               *)

LEMMA CutIs ==
    ASSUME NEW S, NEW s \in Seq(S), NEW n \in 0 .. Len(s)
    PROVE  /\ SubSeq(s, 1, n) \in Seq(S) /\ SubSeq(s, n + 1, Len(s)) \in Seq(S)
           /\ Len(SubSeq(s, 1, n)) = n /\ Len(SubSeq(s, n + 1, Len(s))) = Len(s) - n
           /\ \A i \in 1 .. n : SubSeq(s, 1, n)[i] = s[i]
           /\ \A i \in 1 .. Len(s) - n : SubSeq(s, n + 1, Len(s))[i] = s[n + i]
           /\ SubSeq(s, 1, n) \o SubSeq(s, n + 1, Len(s)) = s
<1>1. Len(s) \in Nat /\ \A i \in 1 .. Len(s) : s[i] \in S
    BY LenProperties, ElementOfSeq
<1>2. /\ SubSeq(s, 1, n) \in Seq(S) /\ Len(SubSeq(s, 1, n)) = n
      /\ \A i \in 1 .. n : SubSeq(s, 1, n)[i] = s[i]
    <2>1. \A i \in 1 .. n : s[i] \in S
        BY <1>1
    <2>2. 1 \in Int /\ n \in Int
        OBVIOUS
    <2>3. /\ SubSeq(s, 1, n) \in Seq(S) /\ Len(SubSeq(s, 1, n)) = IF 1 <= n THEN n - 1 + 1 ELSE 0
          /\ \A i \in 1 .. n - 1 + 1 : SubSeq(s, 1, n)[i] = s[1 + i - 1]
        BY <2>1, <2>2, SubSeqProperties
    <2> QED
        BY <2>3
<1>3. /\ SubSeq(s, n + 1, Len(s)) \in Seq(S) /\ Len(SubSeq(s, n + 1, Len(s))) = Len(s) - n
      /\ \A i \in 1 .. Len(s) - n : SubSeq(s, n + 1, Len(s))[i] = s[n + i]
    <2>1. \A i \in n + 1 .. Len(s) : s[i] \in S
        BY <1>1
    <2>2. n + 1 \in Int /\ Len(s) \in Int
        BY <1>1
    <2>3. /\ SubSeq(s, n + 1, Len(s)) \in Seq(S)
          /\ Len(SubSeq(s, n + 1, Len(s))) = IF n + 1 <= Len(s) THEN Len(s) - (n + 1) + 1 ELSE 0
          /\ \A i \in 1 .. Len(s) - (n + 1) + 1 : SubSeq(s, n + 1, Len(s))[i] = s[n + 1 + i - 1]
        BY <2>1, <2>2, SubSeqProperties
    <2> QED
        BY <1>1, <2>3
<1>4. SubSeq(s, 1, n) \o SubSeq(s, n + 1, Len(s)) = SubSeq(s, 1, Len(s))
    <2>1. 1 \in 1 .. Len(s) + 1 /\ n \in 1 - 1 .. Len(s) /\ Len(s) \in n .. Len(s)
        BY <1>1
    <2> QED
        BY <2>1, ConcatAdjacentSubSeq, Zenon
<1> QED
    BY <1>2, <1>3, <1>4, SubSeqFull

LEMMA JoinedPrefixIs ==
    ASSUME NEW S, NEW s \in Seq(S), NEW t \in Seq(S)
    PROVE  /\ SubSeq(s \o t, 1, Len(s)) = s
           /\ Line!IsPrefix(s, s \o t)
<1>1. Len(s) \in Nat /\ Len(t) \in Nat
    BY LenProperties
<1>2. /\ s \o t \in Seq(S) /\ Len(s \o t) = Len(s) + Len(t)
      /\ \A i \in 1 .. Len(s) + Len(t) : (s \o t)[i] = IF i <= Len(s) THEN s[i] ELSE t[i - Len(s)]
    BY ConcatProperties
<1>3. Len(s) \in 0 .. Len(s \o t)
    BY <1>1, <1>2
<1>4. /\ SubSeq(s \o t, 1, Len(s)) \in Seq(S) /\ Len(SubSeq(s \o t, 1, Len(s))) = Len(s)
      /\ \A i \in 1 .. Len(s) : SubSeq(s \o t, 1, Len(s))[i] = (s \o t)[i]
    BY <1>2, <1>3, CutIs
<1>5. SubSeq(s \o t, 1, Len(s)) = s
    <2>1. \A i \in 1 .. Len(s) : SubSeq(s \o t, 1, Len(s))[i] = s[i]
        BY <1>1, <1>2, <1>4
    <2> QED
        BY <1>4, <2>1, SeqEqual
<1>6. Len(s) <= Len(s \o t) /\ SubSeq(s, 1, Len(s)) = SubSeq(s \o t, 1, Len(s))
    BY <1>1, <1>2, <1>5, SubSeqFull
<1> QED
    BY <1>5, <1>6 DEF Line!IsPrefix

\* Bytes move from the head of one part of a text to the tail of another.
Moves(a, b, x, y) == (a \o (b \o x)) \o y = (a \o b) \o (x \o y)

LEMMA BytesMove ==
    ASSUME NEW S, NEW a \in Seq(S), NEW b \in Seq(S), NEW x \in Seq(S), NEW y \in Seq(S)
    PROVE  Moves(a, b, x, y)
<1> DEFINE c == a \o b
<1>1. (a \o b) \o x = a \o (b \o x)
    BY ConcatAssociative, SMTT(30)
<1>2. c \in Seq(S)
    BY ConcatProperties
<1> HIDE DEF c
<1>3. (c \o x) \o y = c \o (x \o y)
    BY <1>2, ConcatAssociative, SMTT(30)
<1> QED
    BY <1>1, <1>3 DEF c, Moves

LEMMA LeastIs ==
    ASSUME NEW T \in SUBSET Nat, T # {}
    PROVE  \E m \in T : \A k \in T : m <= k
<1> DEFINE R == {ss \in Nat \X Nat : ss[1] < ss[2]}
<1>1. IsWellFoundedOn(R, Nat)
    BY NatLessThanWellFounded, Zenon DEF OpToRel
<1>2. \A k, m \in Nat : k < m => <<k, m>> \in R
    OBVIOUS
<1> HIDE DEF R
<1>3. PICK m \in T : \A k \in T : ~ (<<k, m>> \in R)
    BY <1>1, WFMin
<1>4. \A k \in T : ~ (k < m)
    BY <1>2, <1>3, Zenon
<1>5. \A k \in T : m <= k
    BY <1>4
<1> QED
    BY <1>5

-----------------------------------------------------------------------------
(* Lines: what holds between the receiver and the sender.                  *)

Bytes == Seq(Nat)

\* A result that tells a line only if there is one.
TellsLine(r) ==
    /\ \A i \in 1 .. Len(r.bytes) : r.bytes[i] = 0 <=> (r.sts = "success" /\ i = Len(r.bytes))
    /\ r.sts = "success" => r.bytes # << >>
    /\ r.sts = "again" => Len(r.bytes) = LineBuffer

Statuses == {"success", "again", "shutdown", "timed_out"}

LineResults == {r \in [sts : Statuses, bytes : Bytes] : TellsLine(r)}

LineTypes ==
    /\ sent \in Bytes /\ wire \in Bytes /\ buffer \in Bytes /\ received \in Bytes
    /\ bytes_read \in Nat /\ open \in BOOLEAN /\ results \in Seq(LineResults)
    /\ chunks = << >> \/ (\E x \in Bytes : chunks = <<x>>)
    /\ open = FALSE => chunks = << >>

\* What is received, in hand and on its way is followed by the rest of the
\* text, which is what the sender still has, as long as it goes on.
LineFlow ==
    \E rest \in Bytes :
        /\ sent = ((received \o Line!InHand) \o wire) \o rest
        /\ open = TRUE => rest = Line!Unsent

\* What was read holds no delimiter, and what was peeked is what comes next.
Peeked(b, n, w) ==
    /\ n < Len(b) /\ Len(b) <= LineBuffer /\ Len(b) - n <= Len(w)
    /\ \A k \in 1 .. Len(b) - n : b[n + k] = w[k]

LineSearch ==
    /\ pc \in {"peek", "search"} =>
          /\ bytes_searched = bytes_read /\ bytes_read < LineBuffer /\ bytes_read <= Len(buffer)
          /\ \A k \in 1 .. bytes_read : buffer[k] # 0
    /\ pc = "peek" => bytes_read = Len(buffer)
    /\ pc = "search" => Peeked(buffer, bytes_read, wire)

LineInv == matter = "line" => LineTypes /\ LineFlow /\ LineSearch

LEMMA InHandIs ==
    ASSUME LineTypes, LineSearch
    PROVE  /\ Line!InHand \in Bytes
           /\ pc \in {"peek", "search"} => Line!InHand = SubSeq(buffer, 1, bytes_read)
           /\ pc = "peek" => Line!InHand = buffer
           /\ pc \notin {"peek", "search"} => Line!InHand = << >>
<1>1. << >> \in Bytes
    BY EmptySeq DEF Bytes
<1>2. ASSUME pc \in {"peek", "search"}
      PROVE  SubSeq(buffer, 1, bytes_read) \in Bytes
    <2>1. buffer \in Seq(Nat) /\ bytes_read \in 0 .. Len(buffer)
        BY <1>2 DEF LineTypes, LineSearch, Bytes
    <2> QED
        BY <2>1, CutIs DEF Bytes
<1>3. SubSeq(buffer, 1, Len(buffer)) = buffer
    BY SubSeqFull DEF LineTypes, Bytes
<1> QED
    BY <1>1, <1>2, <1>3 DEF Line!InHand, LineSearch

LEMMA LineImplies ==
    ASSUME LineInv
    PROVE  LinesAreWhole
<1> SUFFICES ASSUME matter = "line"
             PROVE  Line!NothingLost /\ Line!LinesAreLines
    BY DEF LinesAreWhole, Line!LinesAreWhole
<1>1. LineTypes /\ LineFlow /\ LineSearch
    BY DEF LineInv
<1>2. Line!NothingLost
    <2>1. PICK rest \in Bytes : /\ sent = ((received \o Line!InHand) \o wire) \o rest
                                /\ open = TRUE => rest = Line!Unsent
        BY <1>1 DEF LineFlow
    <2> DEFINE x == (received \o Line!InHand) \o wire
    <2>2. x \in Seq(Nat)
        <3>1. received \o Line!InHand \in Seq(Nat)
            BY <1>1, InHandIs, ConcatProperties, Zenon DEF LineTypes, Bytes
        <3> QED
            BY <1>1, <3>1, ConcatProperties DEF LineTypes, Bytes
    <2>3. Line!IsPrefix(x, x \o rest)
        <3> HIDE DEF x
        <3> QED
            BY <2>2, JoinedPrefixIs DEF Bytes
    <2>4. open => open = TRUE
        BY <1>1 DEF LineTypes
    <2> QED
        BY <2>1, <2>3, <2>4, Zenon DEF Line!NothingLost
<1>3. Line!LinesAreLines
    <2> SUFFICES ASSUME NEW k \in DOMAIN results
                 PROVE  LET bytes == results[k].bytes
                            hits == {i \in DOMAIN bytes : bytes[i] = 0}
                        IN  /\ hits = (IF results[k].sts = "success" THEN {Len(bytes)} ELSE {})
                            /\ results[k].sts = "again" => Len(bytes) = LineBuffer
        BY DEF Line!LinesAreLines, Line!Delimiter
    <2>1. results[k] \in LineResults
        BY <1>1 DEF LineTypes
    <2>2. TellsLine(results[k]) /\ results[k].bytes \in Seq(Nat)
        BY <2>1 DEF LineResults, Bytes
    <2>3. DOMAIN results[k].bytes = 1 .. Len(results[k].bytes) /\ Len(results[k].bytes) \in Nat
        BY <2>2
    <2>4. results[k].sts = "success" => Len(results[k].bytes) \in 1 .. Len(results[k].bytes)
        BY <2>2, <2>3 DEF TellsLine
    <2> QED
        BY <2>2, <2>3, <2>4 DEF TellsLine
<1> QED
    BY <1>2, <1>3

LineNow == LineTypes /\ LineFlow /\ LineSearch

LEMMA SenderKeeps ==
    ASSUME LineNow, Line!Sender
    PROVE  LineNow'
<1>1. /\ sent' = sent /\ pc' = pc /\ buffer' = buffer /\ bytes_read' = bytes_read
      /\ bytes_searched' = bytes_searched /\ results' = results /\ received' = received
    BY DEF Line!Sender
<1>2. Line!InHand' = Line!InHand
    BY <1>1 DEF Line!InHand
<1>3. /\ wire \in Seq(Nat) /\ received \in Seq(Nat) /\ buffer \in Seq(Nat) /\ open \in BOOLEAN
      /\ Line!InHand \in Seq(Nat)
    BY InHandIs, Zenon DEF LineNow, LineTypes, Bytes
<1>4. PICK rest \in Bytes : /\ sent = ((received \o Line!InHand) \o wire) \o rest
                            /\ open = TRUE => rest = Line!Unsent
    BY DEF LineNow, LineFlow
<1>5. CASE Line!tcs_send
    <2>1. PICK x \in Bytes : chunks = <<x>>
        BY <1>5 DEF LineNow, LineTypes, Line!tcs_send
    <2>2. Head(chunks) = x /\ Tail(chunks) = << >> /\ chunks # << >>
        BY <2>1
    <2>3. x \in Seq(Nat) /\ Len(x) \in Nat
        BY LenProperties DEF Bytes
    <2> DEFINE Head1(n) == SubSeq(x, 1, n)
               Rest1(n) == SubSeq(x, n + 1, Len(x))
    <2>4. PICK n \in 1 .. Len(x) : /\ wire' = wire \o Head1(n)
                                   /\ chunks' = IF n = Len(x) THEN << >> ELSE <<Rest1(n)>> \o << >>
        BY <1>5, <2>2, Zenon DEF Line!tcs_send, Line!Left
    <2>5. open = TRUE /\ open' = TRUE /\ rest = x
        BY <1>3, <1>4, <1>5, <2>2 DEF LineNow, LineTypes, Line!tcs_send, Line!Unsent
    <2>6. n \in 0 .. Len(x)
        BY <2>3
    <2>7. Head1(n) \in Seq(Nat) /\ Rest1(n) \in Seq(Nat) /\ Head1(n) \o Rest1(n) = x
        BY <2>3, <2>6, CutIs
    <2>8. n = Len(x) => Rest1(n) = << >>
        BY <2>3, SubSeqEmpty
    <2> HIDE DEF Head1, Rest1
    <2>9. <<Rest1(n)>> \o << >> = <<Rest1(n)>>
        <3>1. <<Rest1(n)>> \in Seq(Seq(Nat))
            BY <2>7
        <3> QED
            BY <3>1, ConcatEmptySeq
    <2>10. /\ Line!Unsent' = Rest1(n)
           /\ chunks' = << >> \/ (\E y \in Bytes : chunks' = <<y>>)
        <3>1. CASE n = Len(x)
            BY <2>4, <2>8, <3>1 DEF Line!Unsent
        <3>2. CASE n # Len(x)
            <4>1. chunks' = <<Rest1(n)>>
                BY <2>4, <2>9, <3>2
            <4>2. Head(chunks') = Rest1(n) /\ chunks' # << >>
                BY <4>1
            <4> QED
                BY <2>7, <4>1, <4>2 DEF Line!Unsent, Bytes
        <3> QED
            BY <3>1, <3>2
    <2>11. wire' \in Seq(Nat) /\ Len(wire') = Len(wire) + Len(Head1(n)) /\ Len(Head1(n)) \in Nat
           /\ Len(wire) \in Nat
           /\ \A k \in 1 .. Len(wire) : wire'[k] = wire[k]
        <3>1. Len(wire) \in Nat /\ Len(Head1(n)) \in Nat
            BY <1>3, <2>7, LenProperties
        <3>2. /\ wire' \in Seq(Nat) /\ Len(wire') = Len(wire) + Len(Head1(n))
              /\ \A k \in 1 .. Len(wire) + Len(Head1(n)) :
                    wire'[k] = IF k <= Len(wire) THEN wire[k] ELSE Head1(n)[k - Len(wire)]
            BY <1>3, <2>4, <2>7, ConcatProperties
        <3> QED
            BY <3>1, <3>2
    <2>12. LineTypes'
        BY <1>1, <2>5, <2>10, <2>11 DEF LineNow, LineTypes, Bytes
    <2>13. LineFlow'
        <3> DEFINE a == received \o Line!InHand
        <3>1. a \in Seq(Nat)
            BY <1>3, ConcatProperties
        <3>2. sent = (a \o wire) \o (Head1(n) \o Rest1(n))
            BY <1>4, <2>5, <2>7
        <3> HIDE DEF a
        <3>3. Moves(a, wire, Head1(n), Rest1(n))
            BY <1>3, <2>7, <3>1, BytesMove
        <3>4. sent' = (a \o wire') \o Line!Unsent'
            BY <1>1, <2>4, <2>10, <3>2, <3>3 DEF Moves
        <3>5. sent' = ((received' \o Line!InHand') \o wire') \o Line!Unsent' /\ Line!Unsent' \in Bytes
            BY <1>1, <1>2, <2>7, <2>10, <3>4 DEF a, Bytes
        <3> QED
            BY <3>5 DEF LineFlow
    <2>14. LineSearch'
        <3>1. pc = "search" => Peeked(buffer, bytes_read, wire')
            <4> SUFFICES ASSUME pc = "search"
                         PROVE  Peeked(buffer, bytes_read, wire')
                OBVIOUS
            <4>1. Peeked(buffer, bytes_read, wire) /\ bytes_read \in Nat /\ Len(buffer) \in Nat
                BY <1>3 DEF LineNow, LineSearch, LineTypes
            <4>2. \A k \in 1 .. Len(buffer) - bytes_read : k \in 1 .. Len(wire)
                BY <2>11, <4>1 DEF Peeked
            <4>3. \A k \in 1 .. Len(buffer) - bytes_read : buffer[bytes_read + k] = wire'[k]
                BY <2>11, <4>1, <4>2, Zenon DEF Peeked
            <4>4. Len(buffer) - bytes_read <= Len(wire')
                BY <2>11, <4>1 DEF Peeked
            <4> QED
                BY <4>1, <4>3, <4>4 DEF Peeked
        <3> QED
            BY <1>1, <3>1 DEF LineNow, LineSearch
    <2> QED
        BY <2>12, <2>13, <2>14 DEF LineNow
<1>6. CASE Line!SendFails \/ Line!Close
    <2>1. wire' = wire /\ chunks' = << >> /\ open' = FALSE
        BY <1>6 DEF Line!SendFails, Line!Close
    <2>2. LineTypes'
        BY <1>1, <2>1, Zenon DEF LineNow, LineTypes
    <2>3. LineFlow'
        BY <1>1, <1>2, <1>4, <2>1 DEF LineFlow
    <2>4. LineSearch'
        BY <1>1, <2>1 DEF LineNow, LineSearch
    <2> QED
        BY <2>2, <2>3, <2>4 DEF LineNow
<1> QED
    BY <1>5, <1>6 DEF Line!Sender

\* The flow is kept when what is received and in hand, taken together, is.
LEMMA FlowStays ==
    ASSUME LineNow, sent' = sent, wire' = wire, open' = open, chunks' = chunks,
           received' \o Line!InHand' = received \o Line!InHand
    PROVE  LineFlow'
<1>1. PICK rest \in Bytes : /\ sent = ((received \o Line!InHand) \o wire) \o rest
                            /\ open = TRUE => rest = Line!Unsent
    BY DEF LineNow, LineFlow
<1>2. Line!Unsent' = Line!Unsent
    BY DEF Line!Unsent
<1> QED
    BY <1>1, <1>2 DEF LineFlow

LEMMA PeekKeeps ==
    ASSUME LineNow, Line!Peek
    PROVE  LineNow'
<1>1. /\ chunks' = chunks /\ wire' = wire /\ open' = open /\ sent' = sent /\ bytes_read' = bytes_read
      /\ bytes_searched' = bytes_searched /\ results' = results /\ received' = received
      /\ pc = "peek" /\ pc' = "search"
    BY DEF Line!Peek
<1>2. /\ wire \in Seq(Nat) /\ buffer \in Seq(Nat) /\ bytes_read = Len(buffer) /\ Line!InHand = buffer
      /\ Len(wire) \in Nat /\ Len(buffer) \in Nat /\ received \in Seq(Nat)
    <2>1. LineTypes /\ LineSearch
        BY DEF LineNow
    <2>2. Line!InHand = buffer
        BY <1>1, <2>1, InHandIs
    <2> QED
        BY <1>1, <2>1, <2>2, LenProperties DEF LineTypes, LineSearch, Bytes
<1>3. PICK n \in 1 .. Len(wire) : /\ n <= LineBuffer - bytes_read
                                  /\ buffer' = SubSeq(buffer, 1, bytes_read) \o SubSeq(wire, 1, n)
    BY DEF Line!Peek, Line!Room
<1> DEFINE w == SubSeq(wire, 1, n)
<1>4. w \in Seq(Nat) /\ Len(w) = n /\ \A k \in 1 .. n : w[k] = wire[k]
    <2>1. n \in 0 .. Len(wire)
        BY <1>2
    <2> QED
        BY <1>2, <2>1, CutIs
<1>5. SubSeq(buffer, 1, bytes_read) = buffer
    BY <1>2, SubSeqFull
<1> HIDE DEF w
<1>6. /\ buffer' = buffer \o w /\ buffer' \in Seq(Nat) /\ Len(buffer') = Len(buffer) + n
      /\ \A k \in 1 .. Len(buffer) + n : buffer'[k] = IF k <= Len(buffer) THEN buffer[k] ELSE w[k - Len(buffer)]
    <2>1. buffer' = buffer \o w
        BY <1>3, <1>5 DEF w
    <2>2. buffer \in Seq(Nat) /\ w \in Seq(Nat)
        BY <1>2, <1>4
    <2>3. /\ buffer \o w \in Seq(Nat) /\ Len(buffer \o w) = Len(buffer) + Len(w)
          /\ \A k \in 1 .. Len(buffer) + Len(w) :
                (buffer \o w)[k] = IF k <= Len(buffer) THEN buffer[k] ELSE w[k - Len(buffer)]
        BY <2>2, ConcatProperties
    <2> QED
        BY <1>4, <2>1, <2>3
<1>7. LineTypes'
    BY <1>1, <1>6 DEF LineNow, LineTypes, Bytes
<1>8. LineFlow'
    <2>1. SubSeq(buffer', 1, Len(buffer)) = buffer
        BY <1>2, <1>4, <1>6, JoinedPrefixIs
    <2>2. Line!InHand' = buffer
        BY <1>1, <1>2, <2>1 DEF Line!InHand
    <2> QED
        BY <1>1, <1>2, <2>2, FlowStays
<1>9. LineSearch'
    <2>1. LineBuffer \in Nat
        BY SocketsAssumption DEF Line!LineAssumption
    <2>2. \A k \in 1 .. bytes_read : buffer'[k] # 0
        BY <1>1, <1>2, <1>6 DEF LineNow, LineSearch
    <2>3. \A k \in 1 .. Len(buffer') - bytes_read : buffer'[bytes_read + k] = wire[k]
        <3> SUFFICES ASSUME NEW k \in 1 .. n
                     PROVE  buffer'[Len(buffer) + k] = wire[k]
            <4>1. Len(buffer') - bytes_read = n
                BY <1>2, <1>6
            <4> QED
                BY <1>2, <4>1
        <3>1. /\ Len(buffer) + k \in 1 .. Len(buffer) + n /\ ~ (Len(buffer) + k <= Len(buffer))
              /\ Len(buffer) + k - Len(buffer) = k
            BY <1>2
        <3> QED
            BY <1>4, <1>6, <3>1
    <2>4. Peeked(buffer', bytes_read, wire)
        <3>1. /\ Len(buffer') - bytes_read = n /\ bytes_read < Len(buffer') /\ Len(buffer') <= LineBuffer
              /\ n <= Len(wire)
            BY <1>2, <1>3, <1>6, <2>1
        <3> QED
            BY <2>3, <3>1, Zenon DEF Peeked
    <2>5. bytes_searched = bytes_read /\ bytes_read < LineBuffer
        BY <1>1 DEF LineNow, LineSearch
    <2> QED
        BY <1>1, <1>2, <1>6, <2>2, <2>4, <2>5 DEF LineSearch
<1> QED
    BY <1>7, <1>8, <1>9 DEF LineNow

LEMMA ReturnIs ==
    ASSUME LineTypes, NEW bytes \in Bytes, NEW sts \in Statuses, TellsLine([sts |-> sts, bytes |-> bytes]),
           Line!Return(sts, bytes)
    PROVE  results' \in Seq(LineResults) /\ received' = received \o bytes /\ received' \in Bytes
<1>1. [sts |-> sts, bytes |-> bytes] \in LineResults
    BY DEF LineResults
<1>2. results' \in Seq(LineResults)
    BY <1>1, AppendProperties DEF Line!Return, LineTypes
<1>3. received' = received \o bytes /\ received' \in Bytes
    BY ConcatProperties DEF Line!Return, LineTypes, Bytes
<1> QED
    BY <1>2, <1>3

LEMMA PeekFailsKeeps ==
    ASSUME LineNow, Line!PeekFails
    PROVE  LineNow'
<1>1. /\ chunks' = chunks /\ wire' = wire /\ open' = open /\ sent' = sent /\ bytes_read' = bytes_read
      /\ buffer' = buffer /\ pc = "peek" /\ pc' \in {"return", "ended"}
    BY DEF Line!PeekFails
<1>2. PICK sts \in {"shutdown", "timed_out"} : Line!Return(sts, Line!InHand)
    BY <1>1, InHandIs DEF Line!PeekFails, Line!Told, LineNow
<1>3. /\ Line!InHand = buffer /\ buffer \in Bytes /\ bytes_read = Len(buffer)
      /\ \A k \in 1 .. bytes_read : buffer[k] # 0
    BY <1>1, InHandIs, Zenon DEF LineNow, LineSearch, LineTypes
<1>4. TellsLine([sts |-> sts, bytes |-> buffer])
    BY <1>3 DEF TellsLine
<1>5. results' \in Seq(LineResults) /\ received' = received \o buffer /\ received' \in Bytes
    <2>1. LineTypes
        BY DEF LineNow
    <2>2. sts \in Statuses
        BY DEF Statuses
    <2>3. Line!Return(sts, buffer)
        BY <1>2, <1>3, Zenon
    <2> QED
        BY <1>3, <1>4, <2>1, <2>2, <2>3, ReturnIs, Zenon
<1>6. LineTypes'
    BY <1>1, <1>5 DEF LineNow, LineTypes
<1>7. LineFlow'
    <2>1. Line!InHand' = << >>
        BY <1>1 DEF Line!InHand
    <2>2. received' \o << >> = received'
        BY <1>5, ConcatEmptySeq DEF Bytes
    <2> QED
        BY <1>1, <1>3, <1>5, <2>1, <2>2, FlowStays
<1>8. LineSearch'
    BY <1>1 DEF LineSearch
<1> QED
    BY <1>6, <1>7, <1>8 DEF LineNow

LEMMA CallAgainKeeps ==
    ASSUME LineNow, Line!CallAgain
    PROVE  LineNow'
<1>1. /\ chunks' = chunks /\ wire' = wire /\ open' = open /\ sent' = sent /\ bytes_read' = 0
      /\ bytes_searched' = 0 /\ buffer' = << >> /\ pc = "return" /\ pc' = "peek"
      /\ results' = results /\ received' = received
    BY DEF Line!CallAgain
<1>2. << >> \in Bytes /\ Len(<< >>) = 0
    BY EmptySeq DEF Bytes
<1>3. LineTypes'
    BY <1>1, <1>2 DEF LineNow, LineTypes
<1>4. LineFlow'
    <2>1. SubSeq(<< >>, 1, 0) = << >>
        BY SubSeqEmpty
    <2>2. Line!InHand' = Line!InHand
        BY <1>1, <2>1 DEF Line!InHand
    <2> QED
        BY <1>1, <2>2, FlowStays
<1>5. LineSearch'
    <2>1. 0 < LineBuffer
        BY SocketsAssumption DEF Line!LineAssumption
    <2> QED
        BY <1>1, <1>2, <2>1 DEF LineSearch
<1> QED
    BY <1>3, <1>4, <1>5 DEF LineNow

LEMMA SearchedIs ==
    ASSUME buffer \in Seq(Nat), NEW from \in Nat, from < Len(buffer)
    PROVE  LET m == Line!Searched(from)
           IN  /\ m \in from + 1 .. Len(buffer)
               /\ \A k \in from + 1 .. m - 1 : buffer[k] # 0
               /\ buffer[m] = 0 \/ m = Len(buffer)
<1> DEFINE hits == {k \in from + 1 .. Len(buffer) : buffer[k] = Line!Delimiter}
           m == Line!Searched(from)
<1>1. Len(buffer) \in Nat
    BY LenProperties
<1>2. m = IF hits = {} THEN Len(buffer) ELSE CHOOSE k \in hits : \A j \in hits : k <= j
    BY DEF Line!Searched
<1>3. CASE hits = {}
    <2>1. \A k \in from + 1 .. Len(buffer) : buffer[k] # 0
        BY <1>3 DEF Line!Delimiter
    <2> QED
        BY <1>1, <1>2, <1>3, <2>1
<1>4. CASE hits # {}
    <2>1. hits \in SUBSET Nat
        BY <1>1
    <2>2. \E k \in hits : \A j \in hits : k <= j
        <3> HIDE DEF hits
        <3> QED
            BY <1>4, <2>1, LeastIs
    <2>3. m \in hits /\ \A j \in hits : m <= j
        BY <1>2, <1>4, <2>2, Zenon
    <2>4. m \in from + 1 .. Len(buffer) /\ buffer[m] = 0
        BY <2>3 DEF Line!Delimiter
    <2>5. \A k \in from + 1 .. m - 1 : buffer[k] # 0
        <3> SUFFICES ASSUME NEW k \in from + 1 .. m - 1, buffer[k] = 0
                     PROVE  FALSE
            OBVIOUS
        <3> HIDE DEF m
        <3>1. k \in hits
            BY <1>1, <2>4 DEF Line!Delimiter
        <3> HIDE DEF hits
        <3>2. m <= k
            BY <2>3, <3>1
        <3> QED
            BY <1>1, <2>4, <3>2
    <2> QED
        BY <2>4, <2>5
<1> QED
    BY <1>3, <1>4

LEMMA SearchKeeps ==
    ASSUME LineNow, Line!Search
    PROVE  LineNow'
<1> DEFINE m == Line!Searched(bytes_searched)
           n == m - bytes_read
           h == SubSeq(buffer, 1, bytes_read)
           x == SubSeq(wire, 1, n)
           y == SubSeq(wire, n + 1, Len(wire))
           b == h \o x
<1>1. /\ LineTypes /\ LineSearch /\ pc = "search" /\ sent' = sent /\ chunks' = chunks /\ open' = open
      /\ bytes_searched' = m /\ bytes_read' = bytes_read + n /\ buffer' = b /\ wire' = y
    BY DEF LineNow, Line!Search, Line!CatchUp
<1>2. /\ wire \in Seq(Nat) /\ buffer \in Seq(Nat) /\ received \in Seq(Nat) /\ bytes_read \in Nat
      /\ Len(wire) \in Nat /\ Len(buffer) \in Nat
    BY <1>1, LenProperties DEF LineTypes, Bytes
<1>3. /\ bytes_searched = bytes_read /\ bytes_read < Len(buffer) /\ Len(buffer) <= LineBuffer
      /\ Len(buffer) - bytes_read <= Len(wire)
      /\ \A k \in 1 .. bytes_read : buffer[k] # 0
      /\ \A k \in 1 .. Len(buffer) - bytes_read : buffer[bytes_read + k] = wire[k]
    BY <1>1 DEF LineSearch, Peeked
<1>4. /\ m \in bytes_read + 1 .. Len(buffer)
      /\ \A k \in bytes_read + 1 .. m - 1 : buffer[k] # 0
      /\ buffer[m] = 0 \/ m = Len(buffer)
    BY <1>2, <1>3, SearchedIs
<1> HIDE DEF m
<1>5. n \in 1 .. Len(wire) /\ n \in 0 .. Len(wire) /\ bytes_read \in 0 .. Len(buffer) /\ bytes_read + n = m
    BY <1>2, <1>3, <1>4
<1>6. /\ h \in Seq(Nat) /\ Len(h) = bytes_read /\ \A k \in 1 .. bytes_read : h[k] = buffer[k]
    BY <1>2, <1>5, CutIs
<1> HIDE DEF n
<1>7. /\ x \in Seq(Nat) /\ Len(x) = n /\ \A k \in 1 .. n : x[k] = wire[k]
      /\ y \in Seq(Nat) /\ x \o y = wire
    BY <1>2, <1>5, CutIs
<1> HIDE DEF h, x, y
<1>8. b \in Seq(Nat) /\ Len(b) = m /\ \A k \in 1 .. m : b[k] = buffer[k]
    <2>1. /\ h \o x \in Seq(Nat) /\ Len(h \o x) = Len(h) + Len(x)
          /\ \A k \in 1 .. Len(h) + Len(x) : (h \o x)[k] = IF k <= Len(h) THEN h[k] ELSE x[k - Len(h)]
        <3>1. h \in Seq(Nat) /\ x \in Seq(Nat)
            BY <1>6, <1>7
        <3> QED
            BY <3>1, ConcatProperties
    <2>2. \A k \in 1 .. m : (h \o x)[k] = buffer[k]
        <3> SUFFICES ASSUME NEW k \in 1 .. m
                     PROVE  (h \o x)[k] = buffer[k]
            BY Zenon
        <3>1. CASE k <= bytes_read
            <4>1. k \in 1 .. bytes_read /\ k \in 1 .. Len(h) + Len(x) /\ k <= Len(h)
                BY <1>2, <1>5, <1>6, <1>7, <3>1
            <4> QED
                BY <1>6, <2>1, <4>1, Zenon
        <3>2. CASE ~(k <= bytes_read)
            <4> DEFINE j == k - bytes_read
            <4>1. j \in 1 .. n /\ j \in 1 .. Len(buffer) - bytes_read /\ bytes_read + j = k
                BY <1>2, <1>4, <1>5, <3>2 DEF n
            <4>2. (h \o x)[k] = x[j]
                BY <1>2, <1>5, <1>6, <1>7, <2>1, <3>2
            <4> HIDE DEF j
            <4>3. buffer[bytes_read + j] = wire[j] /\ x[j] = wire[j]
                BY <1>3, <1>7, <4>1
            <4> QED
                BY <4>1, <4>2, <4>3
        <3> QED
            BY <3>1, <3>2
    <2> QED
        BY <1>5, <1>6, <1>7, <2>1, <2>2
<1> HIDE DEF b
<1>9. m \in Nat /\ m > 0 /\ m <= LineBuffer /\ LineBuffer \in Nat
    BY <1>2, <1>3, <1>4, SocketsAssumption DEF Line!LineAssumption
<1>10. \A k \in 1 .. m - 1 : buffer[k] # 0
    BY <1>2, <1>3, <1>4
<1>11. /\ Line!InHand = h
       /\ received \o b = received \o (h \o x)
    <2>1. Line!InHand = h
        BY <1>1, InHandIs DEF h
    <2> QED
        BY <2>1 DEF b
\* The bytes searched pass from the wire to the receiver.
<1>12. ASSUME received' \o Line!InHand' = received \o b
       PROVE  LineFlow'
    <2>1. PICK rest \in Bytes : /\ sent = ((received \o Line!InHand) \o wire) \o rest
                                /\ open = TRUE => rest = Line!Unsent
        BY DEF LineNow, LineFlow
    <2>2. Moves(received, h, x, y)
        BY <1>2, <1>6, <1>7, BytesMove
    <2>3. (received \o b) \o y = (received \o Line!InHand) \o wire
        BY <1>7, <1>11, <2>2 DEF Moves
    <2>4. Line!Unsent' = Line!Unsent
        BY <1>1 DEF Line!Unsent
    <2>5. sent' = ((received' \o Line!InHand') \o wire') \o rest
        BY <1>1, <1>12, <2>1, <2>3
    <2> QED
        BY <1>1, <2>1, <2>4, <2>5 DEF LineFlow
<1>13. CASE buffer[m] # 0 /\ m < LineBuffer
    <2>1. pc' = "peek" /\ results' = results /\ received' = received
        BY <1>1, <1>3, <1>5, <1>13 DEF Line!Search, Line!Delimiter, Line!CatchUp, m, n
    <2>2. Line!InHand' = b
        <3>1. SubSeq(b, 1, Len(b)) = b
            BY <1>8, SubSeqFull
        <3> QED
            BY <1>1, <1>5, <1>8, <2>1, <3>1 DEF Line!InHand
    <2>3. LineTypes'
        BY <1>1, <1>5, <1>7, <1>8, <1>9, <2>1 DEF LineTypes, Bytes
    <2>4. LineFlow'
        BY <1>12, <2>1, <2>2
    <2>5. \A k \in 1 .. m : b[k] # 0
        BY <1>8, <1>9, <1>10, <1>13
    <2>6. LineSearch'
        BY <1>1, <1>5, <1>8, <1>9, <1>13, <2>1, <2>5 DEF LineSearch
    <2> QED
        BY <2>3, <2>4, <2>6 DEF LineNow
<1>14. CASE buffer[m] = 0 \/ ~(m < LineBuffer)
    <2>1. PICK sts \in {"success", "again"} :
              /\ Line!Return(sts, b) /\ pc' = "return"
              /\ sts = "success" <=> buffer[m] = 0
        BY <1>1, <1>3, <1>5, <1>14, Zenon DEF Line!Search, Line!Delimiter, Line!CatchUp, m, n
    <2>2. TellsLine([sts |-> sts, bytes |-> b])
        <3>1. b # << >>
            BY <1>8, <1>9
        <3>2. sts = "again" => m = LineBuffer
            BY <1>9, <1>14, <2>1
        <3>3. \A k \in 1 .. m : b[k] = 0 <=> (sts = "success" /\ k = m)
            BY <1>8, <1>9, <1>10, <2>1
        <3> QED
            BY <1>8, <3>1, <3>2, <3>3 DEF TellsLine
    <2>3. results' \in Seq(LineResults) /\ received' = received \o b /\ received' \in Bytes
        <3>1. sts \in Statuses /\ b \in Bytes
            BY <1>8 DEF Statuses, Bytes
        <3> QED
            BY <1>1, <2>1, <2>2, <3>1, ReturnIs, Zenon
    <2>4. Line!InHand' = << >> /\ received' \o << >> = received'
        BY <2>1, <2>3, ConcatEmptySeq DEF Line!InHand, Bytes
    <2>5. LineTypes'
        BY <1>1, <1>5, <1>7, <1>8, <1>9, <2>3 DEF LineTypes, Bytes
    <2>6. LineFlow'
        BY <1>12, <2>3, <2>4
    <2>7. LineSearch'
        BY <2>1 DEF LineSearch
    <2> QED
        BY <2>5, <2>6, <2>7 DEF LineNow
<1> QED
    BY <1>9, <1>13, <1>14

LEMMA LineInvIsInductive ==
    /\ SocketInit => LineInv
    /\ LineInv /\ [SocketNext]_socketVars => LineInv'
<1>1. SocketInit => LineInv
    <2> SUFFICES ASSUME SocketInit, matter = "line"
                 PROVE  LineNow
        BY DEF LineInv, LineNow
    <2>1. Line!Init
        BY DEF SocketInit
    <2>2. /\ sent \in Seq(Nat) /\ chunks = <<sent>> /\ wire = << >> /\ open = TRUE
          /\ pc = "peek" /\ buffer = << >> /\ bytes_read = 0 /\ bytes_searched = 0
          /\ results = << >> /\ received = << >>
        BY <2>1, SocketsAssumption DEF Line!Init, Line!LineAssumption
    <2>3. << >> \in Seq(Nat) /\ Len(<< >>) = 0 /\ << >> \in Seq(LineResults)
        BY EmptySeq
    <2>4. LineTypes
        BY <2>2, <2>3 DEF LineTypes, Bytes
    <2>5. LineSearch
        <3>1. 0 < LineBuffer
            BY SocketsAssumption DEF Line!LineAssumption
        <3> QED
            BY <2>2, <2>3, <3>1 DEF LineSearch
    <2>6. LineFlow
        <3>1. Line!InHand = << >>
            BY <2>2, <2>4, <2>5, InHandIs
        <3>2. << >> \o << >> = << >> /\ << >> \o sent = sent
            BY <2>2, <2>3, ConcatEmptySeq
        <3>3. Line!Unsent = sent
            BY <2>2 DEF Line!Unsent
        <3> QED
            BY <2>2, <3>1, <3>2, <3>3 DEF LineFlow, Bytes
    <2> QED
        BY <2>4, <2>5, <2>6 DEF LineNow
<1>2. ASSUME LineInv, [SocketNext]_socketVars
      PROVE  LineInv'
    <2> SUFFICES ASSUME matter' = "line"
                 PROVE  LineNow'
        BY DEF LineInv, LineNow
    <2>1. matter = "line" /\ LineNow
        BY <1>2 DEF SocketNext, socketVars, LineInv, LineNow
    <2>2. CASE Line!Next
        <3>1. CASE Line!Stopped
            <4>1. /\ sent' = sent /\ pc' = pc /\ buffer' = buffer /\ bytes_read' = bytes_read
                  /\ bytes_searched' = bytes_searched /\ results' = results /\ received' = received
                  /\ chunks' = chunks /\ wire' = wire /\ open' = open
                BY <3>1 DEF Line!Stopped, Line!vars
            <4> QED
                BY <2>1, <4>1 DEF LineNow, LineTypes, LineFlow, LineSearch, Line!InHand, Line!Unsent
        <3> QED
            BY <2>1, <2>2, <3>1, SenderKeeps, PeekKeeps, PeekFailsKeeps, SearchKeeps, CallAgainKeeps
               DEF Line!Next, Line!Receiver
    <2>3. CASE UNCHANGED socketVars
        <3>1. /\ sent' = sent /\ pc' = pc /\ buffer' = buffer /\ bytes_read' = bytes_read
              /\ bytes_searched' = bytes_searched /\ results' = results /\ received' = received
              /\ chunks' = chunks /\ wire' = wire /\ open' = open
            BY <2>3 DEF socketVars, streamVars, lineVars
        <3> QED
            BY <2>1, <3>1 DEF LineNow, LineTypes, LineFlow, LineSearch, Line!InHand, Line!Unsent
    <2> QED
        BY <1>2, <2>1, <2>2, <2>3 DEF SocketNext
<1> QED
    BY <1>1, <1>2

\* No byte of a text is lost, read twice or taken from beyond the delimiter,
\* also by calls that fail, and a call says truly whether it has received a
\* line: for texts and buffers of any length (tinycsocket.h:1195).
THEOREM LinesComeWhole == SocketSpec => []LinesAreWhole
<1>1. SocketInit => LineInv
    BY LineInvIsInductive
<1>2. LineInv /\ [SocketNext]_socketVars => LineInv'
    BY LineInvIsInductive
<1>3. LineInv => LinesAreWhole
    BY LineImplies
<1> QED
    BY <1>1, <1>2, <1>3, PTL DEF SocketSpec

-----------------------------------------------------------------------------
(* The pool on POSIX: its arrays.                                          *)

LEMMA MovedIs ==
    ASSUME NEW S, NEW d \in Seq(S), NEW i \in 1 .. Len(d)
    PROVE  /\ Posix!Moved(d, i) \in Seq(S)
           /\ Len(Posix!Moved(d, i)) = Len(d) - 1
           /\ \A j \in 1 .. Len(d) - 1 : Posix!Moved(d, i)[j] = IF j = i THEN d[Len(d)] ELSE d[j]
<1> DEFINE e == [d EXCEPT ![i] = d[Len(d)]]
<1>1. /\ Len(d) \in Nat /\ Len(d) \in 1 .. Len(d) /\ d[Len(d)] \in S
    BY LenProperties, ElementOfSeq
<1>2. /\ e \in Seq(S) /\ Len(e) = Len(d)
      /\ \A j \in 1 .. Len(d) : e[j] = IF j = i THEN d[Len(d)] ELSE d[j]
    BY <1>1, ExceptSeq
<1> HIDE DEF e
<1>3. /\ SubSeq(e, 1, Len(d) - 1) \in Seq(S)
      /\ Len(SubSeq(e, 1, Len(d) - 1)) = Len(d) - 1
      /\ \A j \in 1 .. Len(d) - 1 : SubSeq(e, 1, Len(d) - 1)[j] = e[j]
    <2>1. 1 \in 1 .. Len(e) + 1 /\ Len(d) - 1 \in 1 - 1 .. Len(e)
        BY <1>1, <1>2
    <2>2. /\ SubSeq(e, 1, Len(d) - 1) \in Seq(S)
          /\ Len(SubSeq(e, 1, Len(d) - 1)) = Len(d) - 1 - 1 + 1
          /\ \A j \in 1 .. Len(d) - 1 - 1 + 1 : SubSeq(e, 1, Len(d) - 1)[j] = e[1 + j - 1]
        BY <1>2, <2>1, SubSeqProperties
    <2> QED
        BY <1>1, <2>2
<1>4. Posix!Moved(d, i) = SubSeq(e, 1, Len(d) - 1)
    BY DEF Posix!Moved, e
<1> QED
    BY <1>1, <1>2, <1>3, <1>4

LEMMA ListReserveIs ==
    ASSUME NEW list, NEW n, NEW works
    PROVE  /\ Posix!tds_ulist_reserve(list, n, works).to.data = list.data
           /\ works => Posix!tds_ulist_reserve(list, n, works).sts = 0
BY DEF Posix!tds_ulist_reserve, Posix!Returns

\* An array is added to at its end, if it is.
LEMMA ListAddIs ==
    ASSUME NEW list, NEW x, NEW works, Posix!tds_ulist_add(list, x, works).sts = 0
    PROVE  Posix!tds_ulist_add(list, x, works).to.data = Append(list.data, x)
BY DEF Posix!tds_ulist_add, Posix!Returns, Posix!With

\* The last element of an array takes the place of one that is removed.
LEMMA ListRemoveIs ==
    ASSUME NEW list, NEW i \in DOMAIN list.data
    PROVE  /\ Posix!tds_ulist_remove(list, i, TRUE).sts = 0
           /\ Posix!tds_ulist_remove(list, i, TRUE).to.data = Posix!Moved(list.data, i)
<1> DEFINE moved == Posix!With(list, Posix!Moved(list.data, i))
           n == Len(moved.data)
<1>1. moved.data = Posix!Moved(list.data, i)
    BY DEF Posix!With
<1>2. Posix!tds_ulist_remove(list, i, TRUE) =
        IF n < list.capacity \div 2 THEN Posix!tds_ulist_reserve(moved, n, TRUE) ELSE Posix!Returns(0, moved)
    BY DEF Posix!tds_ulist_remove
<1>3. /\ Posix!tds_ulist_reserve(moved, n, TRUE).to.data = moved.data
      /\ Posix!tds_ulist_reserve(moved, n, TRUE).sts = 0
    BY ListReserveIs
<1>4. Posix!Returns(0, moved).to = moved /\ Posix!Returns(0, moved).sts = 0
    BY DEF Posix!Returns
<1> HIDE DEF moved, n
<1> QED
    BY <1>1, <1>2, <1>3, <1>4

\* A map is added to at its end, or keeps its keys and values.
LEMMA MapAddIs ==
    ASSUME NEW m, NEW key, NEW value, NEW key_works, NEW value_works
    PROVE  LET added == Posix!tds_map_add(m, key, value, key_works, value_works)
           IN  \/ /\ added.sts = 0
                  /\ added.to.keys = Append(m.keys, key)
                  /\ added.to.values = Append(m.values, value)
               \/ /\ added.sts = -1
                  /\ added.to.keys = m.keys
                  /\ added.to.values = m.values
<1> DEFINE keys == Posix!tds_ulist_add(Posix!Keys(m), key, key_works)
           values == Posix!tds_ulist_add(Posix!Values(m), value, value_works)
<1>1. /\ keys.sts = 0 => keys.to.data = Append(m.keys, key)
      /\ values.sts = 0 => values.to.data = Append(m.values, value)
    BY ListAddIs, SMTT(30) DEF Posix!Keys, Posix!Values
<1>2. Posix!tds_map_add(m, key, value, key_works, value_works) =
        IF keys.sts # 0 \/ values.sts # 0 \/ keys.to.capacity # values.to.capacity
        THEN Posix!Returns(-1, Posix!WithRooms(m, keys.to, values.to))
        ELSE Posix!Returns(0, Posix!MapOf(keys.to, values.to))
    BY DEF Posix!tds_map_add
<1> HIDE DEF keys, values
<1> QED
    BY <1>1, <1>2 DEF Posix!Returns, Posix!WithRooms, Posix!MapOf

\* While no array fails to shrink, a key and its value are removed together.
LEMMA MapRemoveIs ==
    ASSUME NEW m, NEW i \in DOMAIN m.keys, DOMAIN m.values = DOMAIN m.keys
    PROVE  LET removed == Posix!tds_map_remove(m, i, TRUE, TRUE)
           IN  /\ removed.sts = 0
               /\ removed.to.keys = Posix!Moved(m.keys, i)
               /\ removed.to.values = Posix!Moved(m.values, i)
<1> DEFINE keys == Posix!tds_ulist_remove(Posix!Keys(m), i, TRUE)
           values == Posix!tds_ulist_remove(Posix!Values(m), i, TRUE)
<1>1. /\ keys.sts = 0 /\ keys.to.data = Posix!Moved(m.keys, i)
      /\ values.sts = 0 /\ values.to.data = Posix!Moved(m.values, i)
    <2>1. Posix!Keys(m).data = m.keys /\ Posix!Values(m).data = m.values
        BY DEF Posix!Keys, Posix!Values
    <2> QED
        BY <2>1, ListRemoveIs
<1>2. Posix!tds_map_remove(m, i, TRUE, TRUE) = Posix!Returns(0, Posix!MapOf(keys.to, values.to))
    BY <1>1 DEF Posix!tds_map_remove
<1>3. /\ Posix!MapOf(keys.to, values.to).keys = keys.to.data
      /\ Posix!MapOf(keys.to, values.to).values = values.to.data
    BY DEF Posix!MapOf
<1>4. /\ Posix!Returns(0, Posix!MapOf(keys.to, values.to)).sts = 0
      /\ Posix!Returns(0, Posix!MapOf(keys.to, values.to)).to = Posix!MapOf(keys.to, values.to)
    BY DEF Posix!Returns
<1> HIDE DEF keys, values
<1> QED
    BY <1>1, <1>2, <1>3, <1>4

-----------------------------------------------------------------------------
(* The pool on POSIX: the order of its events.                             *)

Rank(hits, i) == Cardinality({j \in hits : j <= i})

LEMMA CardinalityIs ==
    ASSUME NEW T
    PROVE  Posix!Cardinality(T) = Cardinality(T)
BY DEF Posix!Cardinality, Cardinality

LEMMA RankIs ==
    ASSUME NEW hits \in SUBSET Nat, IsFiniteSet(hits)
    PROVE  /\ \A i \in hits : Rank(hits, i) \in 1 .. Cardinality(hits)
           /\ \A i, j \in hits : Rank(hits, i) = Rank(hits, j) => i = j
           /\ \A k \in 1 .. Cardinality(hits) : \E i \in hits : Rank(hits, i) = k
<1> DEFINE Upto(i) == {j \in hits : j <= i}
           n == Cardinality(hits)
           rank == [i \in hits |-> Rank(hits, i)]
<1>1. n \in Nat
    BY FS_CardinalityType
<1>2. ASSUME NEW i \in hits
      PROVE  IsFiniteSet(Upto(i)) /\ Rank(hits, i) \in 1 .. n
    <2>1. IsFiniteSet(Upto(i)) /\ Cardinality(Upto(i)) <= n
        BY FS_Subset
    <2>2. i \in Upto(i) /\ Cardinality(Upto(i)) \in Nat
        BY <2>1, FS_CardinalityType
    <2>3. Cardinality(Upto(i)) # 0
        BY <2>1, <2>2, FS_EmptySet
    <2> QED
        BY <1>1, <2>1, <2>2, <2>3 DEF Rank
<1>3. ASSUME NEW i \in hits, NEW j \in hits, i < j
      PROVE  Rank(hits, i) # Rank(hits, j)
    <2>1. j <= j /\ ~ (j <= i) /\ \A k \in hits : k <= i => k <= j
        BY <1>3
    <2>2. Upto(i) \in SUBSET Upto(j) /\ j \in Upto(j) /\ j \notin Upto(i)
        BY <2>1, Zenon
    <2>3. Cardinality(Upto(j)) = Cardinality(Upto(i)) => Upto(j) = Upto(i)
        BY <1>2, <2>2, FS_Subset
    <2> QED
        BY <2>2, <2>3 DEF Rank
<1>4. \A i, j \in hits : Rank(hits, i) = Rank(hits, j) => i = j
    <2> SUFFICES ASSUME NEW i \in hits, NEW j \in hits, Rank(hits, i) = Rank(hits, j), i # j
                 PROVE  FALSE
        OBVIOUS
    <2>1. i < j \/ j < i
        OBVIOUS
    <2> QED
        BY <1>3, <2>1
<1>5. rank \in Injection(hits, 1 .. n)
    BY <1>2, <1>4 DEF Injection, IsInjective
<1>6. IsFiniteSet(1 .. n) /\ Cardinality(1 .. n) = n
    BY <1>1, FS_Interval
<1>7. rank \in Surjection(hits, 1 .. n)
    BY <1>5, <1>6, FS_Injection
<1> QED
    BY <1>2, <1>4, <1>7 DEF Surjection

LEMMA HitIs ==
    ASSUME NEW hits \in SUBSET Nat, IsFiniteSet(hits)
    PROVE  /\ \A k \in 1 .. Cardinality(hits) : Posix!Hit(hits, k) \in hits
           /\ \A k, l \in 1 .. Cardinality(hits) : Posix!Hit(hits, k) = Posix!Hit(hits, l) => k = l
           /\ \A i \in hits : \E k \in 1 .. Cardinality(hits) : Posix!Hit(hits, k) = i
<1>1. \A k \in 1 .. Cardinality(hits) : Posix!Hit(hits, k) \in hits /\ Rank(hits, Posix!Hit(hits, k)) = k
    <2> SUFFICES ASSUME NEW k \in 1 .. Cardinality(hits)
                 PROVE  Posix!Hit(hits, k) \in hits /\ Rank(hits, Posix!Hit(hits, k)) = k
        OBVIOUS
    <2>1. \E i \in hits : Rank(hits, i) = k
        BY RankIs
    <2>2. Posix!Hit(hits, k) = CHOOSE i \in hits : Rank(hits, i) = k
        BY CardinalityIs DEF Posix!Hit, Rank
    <2> QED
        BY <2>1, <2>2
<1>2. ASSUME NEW i \in hits
      PROVE  Rank(hits, i) \in 1 .. Cardinality(hits) /\ Posix!Hit(hits, Rank(hits, i)) = i
    <2>1. Rank(hits, i) \in 1 .. Cardinality(hits)
        BY RankIs
    <2>2. /\ Posix!Hit(hits, Rank(hits, i)) \in hits
          /\ Rank(hits, Posix!Hit(hits, Rank(hits, i))) = Rank(hits, i)
        BY <1>1, <2>1
    <2>3. \A j, k \in hits : Rank(hits, j) = Rank(hits, k) => j = k
        BY RankIs, Zenon
    <2> QED
        BY <2>1, <2>2, <2>3, Zenon
<1> QED
    BY <1>1, <1>2

-----------------------------------------------------------------------------
(* The pool on POSIX: what holds of its map.                               *)

Entries == [fd : PoolSockets, events : PoolInterests]

\* The two arrays of the map are as long, and no socket is in them twice.
PosixMap ==
    /\ map.keys \in Seq(Entries) /\ map.values \in Seq(PoolUsers)
    /\ Len(map.values) = Len(map.keys)
    /\ \A i, j \in 1 .. Len(map.keys) : map.keys[i].fd = map.keys[j].fd => i = j

\* Without a pool there is nothing.
PosixBlocks == ~pool => allocated = {} /\ map.keys = << >>

PosixInv == matter = "posix" => PosixMap /\ PosixBlocks /\ Posix!WholeEvents

\* A socket is known at one place, where the pool has its data and interest.
MapSays ==
    /\ Len(map.keys) \in Nat
    /\ DOMAIN map.keys = 1 .. Len(map.keys) /\ DOMAIN map.values = DOMAIN map.keys
    /\ \A i \in DOMAIN map.keys :
          /\ map.keys[i] \in Entries /\ map.values[i] \in PoolUsers
          /\ map.keys[i].fd \in PoolSockets /\ map.keys[i].events \in PoolInterests
          /\ map.keys[i].fd \in Posix!Known /\ Posix!Entry(map.keys[i].fd) = i
          /\ Posix!Registered[map.keys[i].fd] = [user |-> map.values[i], interest |-> map.keys[i].events]
    /\ \A s \in Posix!Known : Posix!Entry(s) \in DOMAIN map.keys /\ map.keys[Posix!Entry(s)].fd = s
    /\ DOMAIN Posix!Registered = Posix!Known
    /\ Posix!Registered = [s \in Posix!Known |-> Posix!Registered[s]]

LEMMA MapIs == PosixMap => MapSays
<1> SUFFICES ASSUME PosixMap
             PROVE  MapSays
    OBVIOUS
<1>1. /\ Len(map.keys) \in Nat /\ DOMAIN map.keys = 1 .. Len(map.keys)
      /\ DOMAIN map.values = 1 .. Len(map.values)
    BY LenProperties DEF PosixMap
<1>2. ASSUME NEW i \in DOMAIN map.keys
      PROVE  map.keys[i] \in Entries /\ map.values[i] \in PoolUsers
    BY <1>1, ElementOfSeq DEF PosixMap
<1>3. ASSUME NEW s \in Posix!Known
      PROVE  Posix!Entry(s) \in DOMAIN map.keys /\ map.keys[Posix!Entry(s)].fd = s
    BY DEF Posix!Known, Posix!Entry
<1>4. ASSUME NEW i \in DOMAIN map.keys
      PROVE  map.keys[i].fd \in Posix!Known /\ Posix!Entry(map.keys[i].fd) = i
    <2>1. map.keys[i].fd \in Posix!Known
        BY DEF Posix!Known
    <2>2. \A j, k \in DOMAIN map.keys : map.keys[j].fd = map.keys[k].fd => j = k
        BY <1>1 DEF PosixMap
    <2> QED
        BY <1>3, <2>1, <2>2
<1>5. \A e \in Entries : e.fd \in PoolSockets /\ e.events \in PoolInterests
    BY DEF Entries
<1>6. /\ DOMAIN Posix!Registered = Posix!Known
      /\ Posix!Registered = [s \in Posix!Known |-> Posix!Registered[s]]
    BY DEF Posix!Registered
<1>7. ASSUME NEW i \in DOMAIN map.keys
      PROVE  Posix!Registered[map.keys[i].fd] = [user |-> map.values[i], interest |-> map.keys[i].events]
    BY <1>4 DEF Posix!Registered
<1> QED
    BY <1>1, <1>2, <1>3, <1>4, <1>5, <1>6, <1>7 DEF PosixMap, MapSays

LEMMA MapIsThen == PosixMap' => MapSays'
BY MapIs, PTL

LEMMA NothingIsMet ==
    ASSUME NEW s \in PoolSockets
    PROVE  Posix!NoPoll.met[s] = {}
BY DEF Posix!NoPoll

Unpolled == polled = Posix!NoPoll
NoEntries == map.keys = << >> /\ map.values = << >>
NoneRegistered == Posix!Registered = << >>

\* A call that does not poll tells nothing, and nothing was to be told.
LEMMA NothingToTell == PosixMap /\ Unpolled => Posix!WholeEvents
<1> SUFFICES ASSUME PosixMap, Unpolled
             PROVE  Posix!WholeEvents
    OBVIOUS
<1>1. ASSUME NEW s \in Posix!Promise!Waited(polled.met)
      PROVE  FALSE
    <2>1. s \in Posix!Known /\ polled.met[s] \cap Posix!Registered[s].interest # {}
        BY MapIs DEF MapSays, Posix!Promise!Waited
    <2>2. s \in PoolSockets
        BY <2>1, MapIs DEF MapSays
    <2> QED
        BY <2>1, <2>2, NothingIsMet DEF Unpolled
<1> QED
    BY <1>1 DEF Posix!WholeEvents

LEMMA NothingToTellThen == PosixMap' /\ Unpolled' => Posix!WholeEvents'
BY NothingToTell, PTL

LEMMA EmptyIs == NoEntries => PosixMap /\ NoneRegistered
<1> SUFFICES ASSUME NoEntries
             PROVE  PosixMap /\ NoneRegistered
    OBVIOUS
<1>1. PosixMap
    <2>1. << >> \in Seq(Entries) /\ << >> \in Seq(PoolUsers) /\ Len(<< >>) = 0
        BY EmptySeq
    <2> QED
        BY <2>1 DEF PosixMap, NoEntries
<1>2. Posix!Known = {}
    BY <1>1, MapIs DEF MapSays, Posix!Known, NoEntries
<1> QED
    BY <1>1, <1>2 DEF Posix!Registered, NoneRegistered

LEMMA EmptyIsThen == NoEntries' => PosixMap' /\ NoneRegistered'
BY EmptyIs, PTL

-----------------------------------------------------------------------------
(* The pool on POSIX: its calls.                                           *)

\* What a call leaves of the pool, and that TcsPool allows it.
PosixStep == PosixMap' /\ PosixBlocks' /\ Posix!WholeEvents' /\ Kept!Next

LEMMA NoEventsIs == Posix!NoEvents => Unpolled' /\ Kept!NoEvents
BY DEF Posix!NoEvents, Unpolled, Kept!NoEvents, Kept!NoPoll, Posix!NoPoll

\* A pool that is created or destroyed is empty.
LEMMA CreateKeeps ==
    ASSUME PosixMap, PosixBlocks, Posix!tcs_pool_create
    PROVE  PosixStep
<1>1. NoEntries' /\ Posix!NoEvents /\ ~pool
    BY DEF Posix!tcs_pool_create, Posix!NewMap, NoEntries
<1>2. PosixMap' /\ NoneRegistered' /\ Posix!WholeEvents' /\ Kept!NoEvents
    BY <1>1, NoEventsIs, EmptyIsThen, NothingToTellThen
<1>3. pool' = (allocated' = Posix!Blocks) /\ (allocated' = Posix!Blocks \/ allocated' = {})
    BY DEF Posix!tcs_pool_create, Posix!Created
<1>4. PosixBlocks'
    BY <1>1, <1>3 DEF PosixBlocks, NoEntries
<1>5. NoneRegistered
    <2>1. map.keys = << >> /\ PosixMap
        BY <1>1 DEF PosixBlocks
    <2>2. NoEntries
        BY <2>1, EmptySeq DEF PosixMap, NoEntries
    <2> QED
        BY <2>2, EmptyIs
<1>6. CASE pool'
    <2>1. call' = <<"create">> /\ result' = "success"
        BY <1>6 DEF Posix!tcs_pool_create
    <2>2. Kept!Empty
        BY <1>2, <2>1 DEF Kept!Empty, NoneRegistered
    <2> QED
        BY <1>2, <1>4, <2>2 DEF PosixStep, Kept!Next
<1>7. CASE ~pool'
    <2>1. call'[1] = "create" /\ result' = "memory"
        BY <1>7 DEF Posix!tcs_pool_create
    <2>2. Kept!Fail
        BY <1>2, <1>5, <2>1 DEF Kept!Fail, NoneRegistered
    <2> QED
        BY <1>2, <1>4, <2>2 DEF PosixStep, Kept!Next
<1> QED
    BY <1>6, <1>7

LEMMA DestroyKeeps ==
    ASSUME Posix!tcs_pool_destroy
    PROVE  PosixStep
<1>1. /\ NoEntries' /\ Posix!NoEvents /\ allocated' = {}
      /\ call' = <<"destroy">> /\ result' = "success"
    BY DEF Posix!tcs_pool_destroy, Posix!NewMap, NoEntries
<1>2. PosixMap' /\ NoneRegistered' /\ Posix!WholeEvents' /\ Kept!NoEvents
    BY <1>1, NoEventsIs, EmptyIsThen, NothingToTellThen
<1>3. PosixBlocks'
    BY <1>1 DEF PosixBlocks, NoEntries
<1>4. Kept!Empty
    BY <1>1, <1>2 DEF Kept!Empty, NoneRegistered
<1> QED
    BY <1>2, <1>3, <1>4 DEF PosixStep, Kept!Next

\* A call that leaves keys and values alone leaves the pool alone.
SameEntries == map'.keys = map.keys /\ map'.values = map.values

LEMMA SameIs ==
    ASSUME PosixMap, SameEntries
    PROVE  PosixMap' /\ Posix!Registered' = Posix!Registered
BY DEF PosixMap, SameEntries, Posix!Registered, Posix!Known, Posix!Entry

\* Adding puts the socket at the end of both arrays.
LEMMA AddKeeps ==
    ASSUME PosixMap, PosixBlocks,
           NEW s \in PoolSockets, NEW user \in PoolUsers, NEW interest \in PoolInterests,
           Posix!tcs_pool_add(s, user, interest)
    PROVE  PosixStep
<1> DEFINE e == [fd |-> s, events |-> interest]
           n == Len(map.keys)
<1>1. /\ call' = <<"add", s>> /\ pool /\ s \notin Posix!Known /\ Posix!NoEvents
      /\ pool' = pool /\ allocated' = allocated
    BY DEF Posix!tcs_pool_add
<1>2. PICK key_works, value_works \in BOOLEAN :
        /\ map' = Posix!tds_map_add(map, e, user, key_works, value_works).to
        /\ result' = IF Posix!tds_map_add(map, e, user, key_works, value_works).sts = 0
                     THEN "success" ELSE "memory"
    BY DEF Posix!tcs_pool_add
<1>3. \/ /\ result' = "success"
         /\ map'.keys = Append(map.keys, e) /\ map'.values = Append(map.values, user)
      \/ result' = "memory" /\ SameEntries
    BY <1>2, MapAddIs DEF SameEntries
<1>4. Kept!NoEvents /\ (PosixMap' => Posix!WholeEvents') /\ PosixBlocks'
    BY <1>1, NoEventsIs, NothingToTellThen DEF PosixBlocks
<1>5. CASE result' = "memory" /\ SameEntries
    <2>1. PosixMap' /\ Posix!Registered' = Posix!Registered
        BY <1>5, SameIs
    <2>2. call'[1] = "add"
        BY <1>1
    <2>3. Kept!Fail
        BY <1>4, <1>5, <2>1, <2>2 DEF Kept!Fail
    <2> QED
        BY <1>4, <2>1, <2>3 DEF PosixStep, Kept!Next
<1>6. CASE /\ result' = "success"
           /\ map'.keys = Append(map.keys, e) /\ map'.values = Append(map.values, user)
    <2>1. MapSays /\ e \in Entries /\ n \in Nat
        BY MapIs DEF Entries, MapSays
    <2>2. /\ map'.keys \in Seq(Entries) /\ Len(map'.keys) = n + 1
          /\ \A i \in 1 .. n + 1 : map'.keys[i] = IF i = n + 1 THEN e ELSE map.keys[i]
        <3> HIDE DEF e
        <3> QED
            BY <1>6, <2>1, AppendProperties DEF PosixMap
    <2>3. /\ map'.values \in Seq(PoolUsers) /\ Len(map'.values) = n + 1
          /\ \A i \in 1 .. n + 1 : map'.values[i] = IF i = n + 1 THEN user ELSE map.values[i]
        BY <1>6, <2>1, AppendProperties DEF PosixMap
    <2>4. \A i \in 1 .. n : map.keys[i].fd \in Posix!Known /\ map.keys[i].fd # s
        <3>1. \A i \in DOMAIN map.keys : map.keys[i].fd \in Posix!Known
            BY <2>1 DEF MapSays
        <3>2. DOMAIN map.keys = 1 .. n
            BY <2>1 DEF MapSays
        <3> QED
            BY <1>1, <3>1, <3>2
    <2>5. PosixMap'
        <3>1. ASSUME NEW i \in 1 .. n + 1, NEW j \in 1 .. n + 1, map'.keys[i].fd = map'.keys[j].fd
              PROVE  i = j
            <4>1. i = n + 1 \/ i \in 1 .. n
                BY <2>1
            <4>2. j = n + 1 \/ j \in 1 .. n
                BY <2>1
            <4>3. e.fd = s
                OBVIOUS
            <4> HIDE DEF e
            <4>4. (i = n + 1 => map'.keys[i].fd = s) /\ (j = n + 1 => map'.keys[j].fd = s)
                BY <2>2, <4>3
            <4>5. (i \in 1 .. n => map'.keys[i] = map.keys[i]) /\ (j \in 1 .. n => map'.keys[j] = map.keys[j])
                BY <2>1, <2>2
            <4> HIDE DEF n
            <4> QED
                BY <2>4, <3>1, <4>1, <4>2, <4>4, <4>5 DEF PosixMap, n
        <3> QED
            BY <2>2, <2>3, <3>1 DEF PosixMap
    <2>6. MapSays'
        BY <2>5, MapIsThen
    <2>7. ASSUME NEW i \in 1 .. n + 1
          PROVE  /\ map'.keys[i].fd \in Posix!Known'
                 /\ IF i = n + 1
                    THEN map'.keys[i].fd = s /\ Posix!Registered'[s] = [user |-> user, interest |-> interest]
                    ELSE /\ map'.keys[i].fd \in Posix!Known \ {s} /\ map'.keys[i].fd = map.keys[i].fd
                         /\ Posix!Registered'[map.keys[i].fd] = Posix!Registered[map.keys[i].fd]
        <3>1. /\ map'.keys[i].fd \in Posix!Known'
              /\ Posix!Registered'[map'.keys[i].fd]
                    = [user |-> map'.values[i], interest |-> map'.keys[i].events]
            <4>1. i \in DOMAIN map'.keys
                BY <2>2, <2>6 DEF MapSays
            <4> QED
                BY <2>6, <4>1 DEF MapSays
        <3>2. CASE i = n + 1
            <4>1. map'.keys[i] = e /\ map'.values[i] = user
                BY <2>2, <2>3, <3>2
            <4> QED
                BY <3>1, <3>2, <4>1
        <3>3. CASE i # n + 1
            <4>1. i \in 1 .. n
                BY <2>1, <3>3
            <4>2. map'.keys[i] = map.keys[i] /\ map'.values[i] = map.values[i]
                BY <2>2, <2>3, <3>3
            <4>3. Posix!Registered[map.keys[i].fd] = [user |-> map.values[i], interest |-> map.keys[i].events]
                <5>1. i \in DOMAIN map.keys
                    BY <2>1, <4>1 DEF MapSays
                <5> QED
                    BY <2>1, <5>1 DEF MapSays
            <4> HIDE DEF n
            <4> QED
                BY <2>4, <3>1, <3>3, <4>1, <4>2, <4>3
        <3> QED
            BY <3>2, <3>3
    <2>8. Posix!Known' = Posix!Known \cup {s}
        <3>1. ASSUME NEW t \in Posix!Known'
              PROVE  t \in Posix!Known \cup {s}
            <4>1. PICK i \in 1 .. n + 1 : map'.keys[i].fd = t
                BY <2>2, <2>6 DEF MapSays
            <4> QED
                BY <2>7, <4>1
        <3>2. s \in Posix!Known'
            <4>1. n + 1 \in 1 .. n + 1
                BY <2>1
            <4> HIDE DEF n
            <4> QED
                BY <2>7, <4>1
        <3>3. ASSUME NEW t \in Posix!Known
              PROVE  t \in Posix!Known'
            <4>1. PICK i \in 1 .. n : map.keys[i].fd = t
                BY <2>1 DEF MapSays
            <4>2. i \in 1 .. n + 1 /\ i # n + 1
                BY <2>1, <4>1
            <4> HIDE DEF n
            <4> QED
                BY <2>7, <4>1, <4>2
        <3> QED
            BY <3>1, <3>2, <3>3
    <2>9. ASSUME NEW t \in Posix!Known \cup {s}
          PROVE  Posix!Registered'[t] = IF t = s THEN [user |-> user, interest |-> interest]
                                        ELSE Posix!Registered[t]
        <3>1. CASE t = s
            <4>1. n + 1 \in 1 .. n + 1
                BY <2>1
            <4> HIDE DEF n
            <4> QED
                BY <2>7, <3>1, <4>1
        <3>2. CASE t # s
            <4>1. PICK i \in 1 .. n : map.keys[i].fd = t
                BY <2>1, <3>2 DEF MapSays
            <4>2. i \in 1 .. n + 1 /\ i # n + 1
                BY <2>1, <4>1
            <4> HIDE DEF n
            <4> QED
                BY <2>7, <3>2, <4>1, <4>2
        <3> QED
            BY <3>1, <3>2
    <2>10. Posix!Registered' = [t \in Posix!Known \cup {s} |->
                                  IF t = s THEN [user |-> user, interest |-> interest] ELSE Posix!Registered[t]]
        <3>1. Posix!Registered' = [t \in Posix!Known' |-> Posix!Registered'[t]]
            BY <2>6 DEF MapSays
        <3> QED
            BY <2>8, <2>9, <3>1, Zenon
    <2>11. Kept!Add(s, user, interest)
        <3>1. DOMAIN Posix!Registered = Posix!Known
            BY <2>1 DEF MapSays
        <3> QED
            BY <1>1, <1>4, <1>6, <2>10, <3>1 DEF Kept!Add
    <2> QED
        BY <1>4, <2>5, <2>11 DEF PosixStep, Kept!Next
<1> QED
    BY <1>3, <1>5, <1>6

\* Removing puts the last entry of both arrays in the place of the socket's.
LEMMA RemoveKeeps ==
    ASSUME PosixMap, PosixBlocks, NEW s \in PoolSockets, Posix!tcs_pool_remove(s)
    PROVE  PosixStep
<1>1. /\ call' = <<"remove", s>> /\ pool /\ Posix!NoEvents
      /\ pool' = pool /\ allocated' = allocated
    BY DEF Posix!tcs_pool_remove
<1>2. Kept!NoEvents /\ (PosixMap' => Posix!WholeEvents') /\ PosixBlocks'
    BY <1>1, NoEventsIs, NothingToTellThen DEF PosixBlocks
<1>3. MapSays
    BY MapIs
<1>4. CASE s \notin Posix!Known
    <2>1. result' = "invalid_argument" /\ SameEntries
        BY <1>4 DEF Posix!tcs_pool_remove, SameEntries
    <2>2. PosixMap' /\ Posix!Registered' = Posix!Registered
        BY <2>1, SameIs
    <2>3. call'[1] = "remove"
        BY <1>1
    <2>4. Kept!Fail
        BY <1>2, <2>1, <2>2, <2>3 DEF Kept!Fail
    <2> QED
        BY <1>2, <2>2, <2>4 DEF PosixStep, Kept!Next
<1>5. CASE s \in Posix!Known
    <2> DEFINE n == Len(map.keys)
               IsFirst(i) == map.keys[i].fd = s /\ \A j \in 1 .. i - 1 : map.keys[j].fd # s
               first == CHOOSE i \in DOMAIN map.keys : IsFirst(i)
               From(j) == IF j = first THEN n ELSE j
    <2>1. n \in Nat /\ DOMAIN map.keys = 1 .. n /\ DOMAIN map.values = 1 .. n
        BY <1>3 DEF MapSays
    <2>2. first \in 1 .. n /\ map.keys[first].fd = s
        <3>1. PICK i \in 1 .. n : map.keys[i].fd = s
            BY <1>3, <1>5, <2>1 DEF MapSays
        <3>2. ASSUME NEW j \in 1 .. i - 1
              PROVE  map.keys[j].fd # s
            <4>1. j \in 1 .. n /\ j # i
                BY <2>1
            <4> QED
                BY <3>1, <4>1 DEF PosixMap
        <3>3. IsFirst(i)
            BY <3>1, <3>2
        <3> HIDE DEF IsFirst
        <3>4. first \in DOMAIN map.keys /\ IsFirst(first)
            BY <2>1, <3>3
        <3> QED
            BY <2>1, <3>4 DEF IsFirst
    <2>3. /\ map' = Posix!tds_map_remove(map, first, TRUE, TRUE).to
          /\ result' = IF Posix!tds_map_remove(map, first, TRUE, TRUE).sts = 0 THEN "success" ELSE "memory"
        BY <1>5 DEF Posix!tcs_pool_remove
    <2> HIDE DEF first
    <2>4. /\ result' = "success"
          /\ map'.keys = Posix!Moved(map.keys, first) /\ map'.values = Posix!Moved(map.values, first)
        BY <2>1, <2>2, <2>3, MapRemoveIs
    <2>5. /\ map'.keys \in Seq(Entries) /\ Len(map'.keys) = n - 1
          /\ \A j \in 1 .. n - 1 : map'.keys[j] = map.keys[From(j)]
        <3>1. map.keys \in Seq(Entries) /\ first \in 1 .. Len(map.keys) /\ Len(map.keys) = n
            BY <2>2 DEF PosixMap
        <3>2. /\ Posix!Moved(map.keys, first) \in Seq(Entries)
              /\ Len(Posix!Moved(map.keys, first)) = n - 1
              /\ \A j \in 1 .. n - 1 : Posix!Moved(map.keys, first)[j] =
                    IF j = first THEN map.keys[n] ELSE map.keys[j]
            BY <3>1, MovedIs
        <3> QED
            BY <2>4, <3>2
    <2>6. /\ map'.values \in Seq(PoolUsers) /\ Len(map'.values) = n - 1
          /\ \A j \in 1 .. n - 1 : map'.values[j] = map.values[From(j)]
        <3>1. map.values \in Seq(PoolUsers) /\ first \in 1 .. Len(map.values) /\ Len(map.values) = n
            BY <2>2 DEF PosixMap
        <3>2. /\ Posix!Moved(map.values, first) \in Seq(PoolUsers)
              /\ Len(Posix!Moved(map.values, first)) = Len(map.values) - 1
              /\ \A j \in 1 .. Len(map.values) - 1 : Posix!Moved(map.values, first)[j] =
                    IF j = first THEN map.values[Len(map.values)] ELSE map.values[j]
            BY <3>1, MovedIs
        <3> HIDE DEF n
        <3> QED
            BY <2>4, <3>1, <3>2
    <2>7. /\ \A j \in 1 .. n - 1 : From(j) \in 1 .. n /\ From(j) # first
          /\ \A j, k \in 1 .. n - 1 : From(j) = From(k) => j = k
          /\ \A k \in 1 .. n : k # first => \E j \in 1 .. n - 1 : From(j) = k
        <3>1. \A j \in 1 .. n - 1 : From(j) \in 1 .. n /\ From(j) # first
            BY <2>1, <2>2
        <3>2. \A j, k \in 1 .. n - 1 : From(j) = From(k) => j = k
            BY <2>1, <2>2
        <3>3. ASSUME NEW k \in 1 .. n, k # first
              PROVE  \E j \in 1 .. n - 1 : From(j) = k
            <4>1. CASE k = n
                <5>1. first \in 1 .. n - 1 /\ From(first) = k
                    BY <2>1, <2>2, <3>3, <4>1
                <5> QED
                    BY <5>1
            <4>2. CASE k # n
                <5>1. k \in 1 .. n - 1 /\ From(k) = k
                    BY <2>1, <3>3, <4>2
                <5> QED
                    BY <5>1
            <4> QED
                BY <4>1, <4>2
        <3> QED
            BY <3>1, <3>2, <3>3
    <2> HIDE DEF From
    <2>8. \A i, j \in 1 .. n : map.keys[i].fd = map.keys[j].fd => i = j
        BY DEF PosixMap
    <2> HIDE DEF n
    <2>9. PosixMap'
        <3>1. ASSUME NEW i \in 1 .. n - 1, NEW j \in 1 .. n - 1, map'.keys[i].fd = map'.keys[j].fd
              PROVE  i = j
            BY <2>5, <2>7, <2>8, <3>1, SMTT(30)
        <3> QED
            BY <2>5, <2>6, <3>1 DEF PosixMap
    <2>10. MapSays'
        BY <2>9, MapIsThen
    <2>11. ASSUME NEW j \in 1 .. n - 1
           PROVE  /\ map'.keys[j].fd \in Posix!Known' /\ map'.keys[j].fd = map.keys[From(j)].fd
                  /\ map.keys[From(j)].fd \in Posix!Known \ {s}
                  /\ Posix!Registered'[map.keys[From(j)].fd] = Posix!Registered[map.keys[From(j)].fd]
        <3>1. map'.keys[j] = map.keys[From(j)] /\ map'.values[j] = map.values[From(j)]
            BY <2>5, <2>6
        <3>2. From(j) \in DOMAIN map.keys /\ From(j) # first
            BY <2>1, <2>7
        <3>3. /\ map.keys[From(j)].fd \in Posix!Known
              /\ Posix!Registered[map.keys[From(j)].fd]
                    = [user |-> map.values[From(j)], interest |-> map.keys[From(j)].events]
            BY <1>3, <3>2 DEF MapSays
        <3>4. map.keys[From(j)].fd # s
            BY <2>1, <2>2, <2>8, <3>2
        <3>5. j \in DOMAIN map'.keys
            BY <2>5, <2>10 DEF MapSays
        <3>6. /\ map'.keys[j].fd \in Posix!Known'
              /\ Posix!Registered'[map'.keys[j].fd]
                    = [user |-> map'.values[j], interest |-> map'.keys[j].events]
            BY <2>10, <3>5 DEF MapSays
        <3> QED
            BY <3>1, <3>3, <3>4, <3>6
    <2>12. ASSUME NEW t \in Posix!Known'
           PROVE  t \in Posix!Known \ {s} /\ Posix!Registered'[t] = Posix!Registered[t]
        <3>1. PICK j \in 1 .. n - 1 : map'.keys[j].fd = t
            BY <2>5, <2>10 DEF MapSays
        <3> QED
            BY <2>11, <3>1
    <2>13. ASSUME NEW t \in Posix!Known \ {s}
           PROVE  t \in Posix!Known'
        <3>1. PICK k \in 1 .. n : map.keys[k].fd = t
            BY <1>3, <2>1 DEF MapSays
        <3>2. k # first
            BY <2>2, <3>1
        <3>3. PICK j \in 1 .. n - 1 : From(j) = k
            BY <2>7, <3>2
        <3> QED
            BY <2>11, <3>1, <3>3
    <2>14. Posix!Registered' = [t \in Posix!Known \ {s} |-> Posix!Registered[t]]
        <3>1. Posix!Registered' = [t \in Posix!Known' |-> Posix!Registered'[t]]
            BY <2>10 DEF MapSays
        <3>2. Posix!Known' = Posix!Known \ {s}
            BY <2>12, <2>13
        <3> QED
            BY <2>12, <3>1, <3>2, Zenon
    <2>15. Kept!Remove(s)
        <3>1. DOMAIN Posix!Registered = Posix!Known
            BY <1>3 DEF MapSays
        <3> QED
            BY <1>1, <1>2, <1>5, <2>4, <2>14, <3>1 DEF Kept!Remove
    <2> QED
        BY <1>2, <2>9, <2>15 DEF PosixStep, Kept!Next
<1> QED
    BY <1>4, <1>5

\* The entries that poll has something to tell of.
Hits(met) == {i \in DOMAIN map.keys : Posix!revents(i, met) # {}}

LEMMA HitsAre ==
    ASSUME MapSays, NEW met
    PROVE  /\ Hits(met) \in SUBSET Nat /\ IsFiniteSet(Hits(met))
           /\ Hits(met) \subseteq DOMAIN map.keys
           /\ \A i \in DOMAIN map.keys : i \in Hits(met) <=> map.keys[i].fd \in Kept!Due(met)
           /\ \A s \in Kept!Due(met) : \E i \in Hits(met) : map.keys[i].fd = s
           /\ Kept!Waited(met) \subseteq Kept!Due(met)
<1>1. Hits(met) \in SUBSET (1 .. Len(map.keys)) /\ Len(map.keys) \in Nat
    BY DEF Hits, MapSays
<1>2. IsFiniteSet(Hits(met))
    <2>1. IsFiniteSet(1 .. Len(map.keys))
        BY <1>1, FS_Interval
    <2> QED
        BY <1>1, <2>1, FS_Subset
<1>3. ASSUME NEW i \in DOMAIN map.keys
      PROVE  i \in Hits(met) <=> map.keys[i].fd \in Kept!Due(met)
    <2> DEFINE s == map.keys[i].fd
    <2>1. s \in DOMAIN Posix!Registered /\ Posix!Registered[s].interest = map.keys[i].events
        <3>1. /\ s \in Posix!Known /\ DOMAIN Posix!Registered = Posix!Known
              /\ Posix!Registered[s] = [user |-> map.values[i], interest |-> map.keys[i].events]
            BY DEF MapSays
        <3> HIDE DEF s
        <3> QED
            BY <3>1
    <2>2. i \in Hits(met) <=> met[s] \cap map.keys[i].events # {} \/ "error" \in met[s]
        BY DEF Hits, Posix!revents
    <2>3. s \in Kept!Due(met) <=> met[s] \cap Posix!Registered[s].interest # {} \/ "error" \in met[s]
        <3> HIDE DEF s
        <3> QED
            BY <2>1 DEF Kept!Due, Kept!Waited
    <2> QED
        BY <2>1, <2>2, <2>3
<1>4. ASSUME NEW s \in Kept!Due(met)
      PROVE  \E i \in Hits(met) : map.keys[i].fd = s
    <2>1. s \in Posix!Known
        BY DEF Kept!Due, Kept!Waited, MapSays
    <2>2. Posix!Entry(s) \in DOMAIN map.keys /\ map.keys[Posix!Entry(s)].fd = s
        BY <2>1 DEF MapSays
    <2> QED
        BY <1>3, <2>2
<1>5. 1 .. Len(map.keys) \subseteq Nat
    OBVIOUS
<1> QED
    BY <1>1, <1>2, <1>3, <1>4, <1>5 DEF Hits, Kept!Due

\* They are as many as the sockets that have something to tell.
LEMMA AsManyAreDue ==
    ASSUME PosixMap, NEW met
    PROVE  Cardinality(Kept!Due(met)) = Cardinality(Hits(met))
<1> DEFINE f == [i \in Hits(met) |-> map.keys[i].fd]
<1>1. /\ IsFiniteSet(Hits(met)) /\ Hits(met) \subseteq DOMAIN map.keys
      /\ \A i \in DOMAIN map.keys : i \in Hits(met) <=> map.keys[i].fd \in Kept!Due(met)
      /\ \A s \in Kept!Due(met) : \E i \in Hits(met) : map.keys[i].fd = s
    BY HitsAre, MapIs
<1>2. \A i, j \in DOMAIN map.keys : map.keys[i].fd = map.keys[j].fd => i = j
    BY MapIs DEF MapSays, PosixMap
<1>3. f \in [Hits(met) -> Kept!Due(met)] /\ IsInjective(f)
    BY <1>1, <1>2 DEF IsInjective
<1>4. \A s \in Kept!Due(met) : \E i \in Hits(met) : f[i] = s
    BY <1>1
<1> HIDE DEF f
<1>5. f \in Bijection(Hits(met), Kept!Due(met))
    BY <1>3, <1>4 DEF Bijection, Injection, Surjection
<1> QED
    BY <1>1, <1>5, FS_Bijection DEF ExistsBijection

LEMMA DueIs ==
    ASSUME NEW met, NEW T
    PROVE  /\ Posix!Promise!Due(met) = Kept!Due(met) /\ Posix!Promise!Waited(met) = Kept!Waited(met)
           /\ Kept!Cardinality(T) = Cardinality(T)
<1>1. Posix!Promise!Waited(met) = Kept!Waited(met)
    BY DEF Posix!Promise!Waited, Kept!Waited
<1>2. Posix!Promise!Due(met) = Kept!Due(met)
    BY <1>1 DEF Posix!Promise!Due, Kept!Due
<1>3. Kept!Cardinality(T) = Cardinality(T)
    BY DEF Kept!Cardinality, Cardinality
<1> QED
    BY <1>1, <1>2, <1>3

NowDue == Kept!Due(polled.met)
NowWaited == Kept!Waited(polled.met)

WholeSays ==
    polled.room >= Cardinality(NowDue) =>
        \A s \in NowWaited :
            \E k \in DOMAIN events, i \in DOMAIN map.keys :
                /\ map.keys[i].fd = s
                /\ events[k].socket = s
                /\ polled.met[s] \cap map.keys[i].events \subseteq events[k].conditions

LEMMA WholeIs == PosixMap => (Posix!WholeEvents <=> WholeSays)
<1> SUFFICES ASSUME PosixMap
             PROVE  Posix!WholeEvents <=> WholeSays
    OBVIOUS
<1>1. /\ Posix!Promise!Due(polled.met) = NowDue /\ Posix!Promise!Waited(polled.met) = NowWaited
    BY DueIs DEF NowDue, NowWaited
<1>2. \A i \in DOMAIN map.keys : Posix!Entry(map.keys[i].fd) = i
    BY MapIs DEF MapSays
<1>3. \A s \in NowWaited : Posix!Entry(s) \in DOMAIN map.keys /\ map.keys[Posix!Entry(s)].fd = s
    BY MapIs DEF MapSays, NowWaited, Kept!Waited
<1>4. ASSUME NEW s \in NowWaited, NEW k \in DOMAIN events
      PROVE  (/\ events[k].socket = s
              /\ polled.met[s] \cap map.keys[Posix!Entry(s)].events \subseteq events[k].conditions)
             <=> \E i \in DOMAIN map.keys :
                    /\ map.keys[i].fd = s
                    /\ events[k].socket = s
                    /\ polled.met[s] \cap map.keys[i].events \subseteq events[k].conditions
    BY <1>2, <1>3
<1>5. Posix!WholeEvents <=>
        (polled.room >= Cardinality(NowDue) =>
            \A s \in NowWaited : \E k \in DOMAIN events :
                /\ events[k].socket = s
                /\ polled.met[s] \cap map.keys[Posix!Entry(s)].events \subseteq events[k].conditions)
    BY <1>1, CardinalityIs DEF Posix!WholeEvents
<1>6. WholeSays <=>
        (polled.room >= Cardinality(NowDue) =>
            \A s \in NowWaited : \E k \in DOMAIN events : \E i \in DOMAIN map.keys :
                /\ map.keys[i].fd = s
                /\ events[k].socket = s
                /\ polled.met[s] \cap map.keys[i].events \subseteq events[k].conditions)
    BY DEF WholeSays
<1> QED
    BY <1>4, <1>5, <1>6, Zenon

LEMMA WholeIsThen == PosixMap' => (Posix!WholeEvents' <=> WholeSays')
BY WholeIs, PTL

LEMMA LenOfFunction ==
    ASSUME NEW n \in Nat, NEW f, NEW g, f = [k \in 1 .. n |-> g[k]]
    PROVE  Len(f) = n
<1> DEFINE T == {g[k] : k \in 1 .. n}
<1>1. f \in [1 .. n -> T]
    OBVIOUS
<1> HIDE DEF T
<1>2. f \in Seq(T)
    BY <1>1
<1>3. DOMAIN f = 1 .. n /\ DOMAIN f = 1 .. Len(f) /\ Len(f) \in Nat
    BY <1>1, <1>2, LenProperties
<1> QED
    BY <1>3

\* A poll that works tells the truth, and the whole of it where there is room.
LEMMA PollTells ==
    ASSUME PosixMap, NEW met \in [PoolSockets -> PoolMets], NEW most \in PoolRooms,
           polled' = [met |-> met, room |-> most],
           events' = [k \in 1 .. Posix!fill_max(Cardinality(Hits(met)), most) |->
                        Posix!Event(Posix!Hit(Hits(met), k), k, met)],
           result' = IF Hits(met) = {} THEN "timed_out" ELSE "success",
           call' = <<"poll">>, map' = map
    PROVE  Kept!Poll /\ Posix!WholeEvents'
<1> DEFINE hits == Hits(met)
           n == Cardinality(hits)
           filled == Posix!fill_max(n, most)
           Place(k) == Posix!Hit(hits, k)
<1>1. MapSays /\ Posix!Registered' = Posix!Registered
    <2>1. SameEntries
        BY DEF SameEntries
    <2> QED
        BY <2>1, SameIs, MapIs
<1>2. /\ hits \in SUBSET Nat /\ IsFiniteSet(hits) /\ hits \subseteq DOMAIN map.keys
      /\ \A i \in DOMAIN map.keys : i \in hits <=> map.keys[i].fd \in Kept!Due(met)
      /\ \A s \in Kept!Due(met) : \E i \in hits : map.keys[i].fd = s
      /\ Kept!Waited(met) \subseteq Kept!Due(met)
    BY <1>1, HitsAre
<1>3. Cardinality(Kept!Due(met)) = n
    BY AsManyAreDue
<1>4. n \in Nat /\ most \in Nat /\ filled \in 0 .. n /\ filled = IF n < most THEN n ELSE most
    <2>1. most \in Nat
        BY SocketsAssumption DEF Kept!PoolAssumption
    <2>2. n \in Nat
        BY <1>2, FS_CardinalityType
    <2> QED
        BY <2>1, <2>2 DEF Posix!fill_max
<1>5. /\ \A k \in 1 .. n : Place(k) \in hits
      /\ \A k, l \in 1 .. n : Place(k) = Place(l) => k = l
      /\ \A i \in hits : \E k \in 1 .. n : Place(k) = i
    <2> HIDE DEF hits
    <2> QED
        BY <1>2, HitIs
<1>6. events' = [k \in 1 .. filled |-> Posix!Event(Place(k), k, met)]
    OBVIOUS
<1> HIDE DEF filled, n, Place
<1>7. DOMAIN events' = 1 .. filled /\ Len(events') = filled
    <2>1. DOMAIN events' = 1 .. filled
        BY <1>6
    <2>2. events' = [k \in 1 .. filled |-> events'[k]]
        BY <1>6, Zenon
    <2> QED
        BY <1>4, <2>1, <2>2, LenOfFunction
<1>8. ASSUME NEW k \in 1 .. filled
      PROVE  /\ k \in 1 .. n /\ Place(k) \in hits /\ Place(k) \in DOMAIN map.keys
             /\ events'[k].socket = map.keys[Place(k)].fd
             /\ events'[k].user = map.values[Place(k)]
             /\ events'[k].conditions = met[events'[k].socket] \cap (map.keys[Place(k)].events \cup {"error"})
             /\ events'[k].conditions # {}
    <2>1. k \in 1 .. n
        BY <1>4
    <2>2. Place(k) \in hits /\ Place(k) \in DOMAIN map.keys
        BY <1>2, <1>5, <2>1
    <2>3. events'[k] = [socket |-> map.keys[Place(k)].fd, user |-> map.values[Place(k)],
                        conditions |-> Posix!revents(Place(k), met)]
        BY <1>6 DEF Posix!Event
    <2>4. Posix!revents(Place(k), met) # {}
        BY <2>2 DEF Hits
    <2>5. Posix!revents(Place(k), met)
            = met[map.keys[Place(k)].fd] \cap (map.keys[Place(k)].events \cup {"error"})
        BY DEF Posix!revents
    <2>6. /\ events'[k].socket = map.keys[Place(k)].fd /\ events'[k].user = map.values[Place(k)]
          /\ events'[k].conditions = Posix!revents(Place(k), met)
        BY <2>3
    <2> HIDE DEF hits
    <2> QED
        BY <2>1, <2>2, <2>4, <2>5, <2>6, Zenon
<1> HIDE DEF hits
<1>9. ASSUME NEW k \in 1 .. filled
      PROVE  Kept!IsTrue(events'[k], met)
    <2> DEFINE s == map.keys[Place(k)].fd
    <2>1. /\ s \in DOMAIN Posix!Registered
          /\ Posix!Registered[s] = [user |-> map.values[Place(k)], interest |-> map.keys[Place(k)].events]
        BY <1>1, <1>8 DEF MapSays
    <2>2. events'[k].socket = s
        BY <1>8
    <2>3. Posix!Registered[s].user = map.values[Place(k)] /\ Posix!Registered[s].interest = map.keys[Place(k)].events
        BY <2>1
    <2> HIDE DEF s
    <2> QED
        BY <1>8, <2>1, <2>2, <2>3 DEF Kept!IsTrue
<1>10. ASSUME NEW j \in 1 .. filled, NEW k \in 1 .. filled, events'[j].socket = events'[k].socket
       PROVE  j = k
    <2>1. map.keys[Place(j)].fd = map.keys[Place(k)].fd /\ Place(j) \in DOMAIN map.keys /\ Place(k) \in DOMAIN map.keys
        BY <1>8, <1>10
    <2>2. Place(j) = Place(k)
        BY <1>1, <2>1 DEF MapSays, PosixMap
    <2> QED
        BY <1>5, <1>8, <2>2
<1>11. Kept!Due(met) = {} <=> hits = {}
    BY <1>2
<1>12. Kept!Poll
    <2>1. polled' \in [met : [PoolSockets -> PoolMets], room : PoolRooms] /\ polled'.met = met /\ polled'.room = most
        OBVIOUS
    <2>2. Len(events') = IF Kept!Cardinality(Kept!Due(met)) < most THEN Kept!Cardinality(Kept!Due(met)) ELSE most
        BY <1>3, <1>4, <1>7, DueIs
    <2>3. result' = IF Kept!Due(met) = {} THEN "timed_out" ELSE "success"
        BY <1>11 DEF hits
    <2> QED
        BY <1>1, <1>7, <1>9, <1>10, <2>1, <2>2, <2>3 DEF Kept!Poll
<1>13. Posix!WholeEvents'
    <2>1. polled'.room = most /\ polled'.met = met
        OBVIOUS
    <2>2. NowDue' = Kept!Due(met) /\ NowWaited' = Kept!Waited(met)
        BY <1>1, <2>1 DEF NowDue, NowWaited, Kept!Due, Kept!Waited
    <2>3. ASSUME n <= most, NEW s \in Kept!Waited(met)
          PROVE  \E k \in 1 .. filled, i \in DOMAIN map.keys :
                    /\ map.keys[i].fd = s
                    /\ events'[k].socket = s
                    /\ met[s] \cap map.keys[i].events \subseteq events'[k].conditions
        <3>1. PICK i \in hits : map.keys[i].fd = s
            BY <1>2
        <3>2. PICK k \in 1 .. n : Place(k) = i
            BY <1>5, <3>1
        <3>3. k \in 1 .. filled
            BY <1>4, <2>3, <3>2
        <3>4. i \in DOMAIN map.keys
            BY <1>2, <3>1
        <3>5. /\ events'[k].socket = s
              /\ events'[k].conditions = met[s] \cap (map.keys[i].events \cup {"error"})
            BY <1>8, <3>1, <3>2, <3>3
        <3>6. met[s] \cap map.keys[i].events \subseteq events'[k].conditions
            BY <3>5
        <3> QED
            BY <3>1, <3>3, <3>4, <3>5, <3>6
    <2>4. WholeSays'
        <3>1. most >= n => n <= most
            BY <1>4
        <3>2. map'.keys = map.keys
            OBVIOUS
        <3>3. Cardinality(NowDue') = n
            BY <1>3, <2>2
        <3>4. ASSUME polled'.room >= Cardinality(NowDue'), NEW s \in NowWaited'
              PROVE  \E k \in DOMAIN events', i \in DOMAIN map'.keys :
                        /\ map'.keys[i].fd = s
                        /\ events'[k].socket = s
                        /\ polled'.met[s] \cap map'.keys[i].events \subseteq events'[k].conditions
            <4>1. n <= most /\ s \in Kept!Waited(met)
                BY <2>1, <2>2, <3>1, <3>3, <3>4
            <4>2. PICK k \in 1 .. filled, i \in DOMAIN map.keys :
                    /\ map.keys[i].fd = s
                    /\ events'[k].socket = s
                    /\ met[s] \cap map.keys[i].events \subseteq events'[k].conditions
                BY <2>3, <4>1
            <4> QED
                BY <1>7, <2>1, <3>2, <4>2
        <3> QED
            BY <3>4 DEF WholeSays
    <2>5. PosixMap'
        BY DEF PosixMap
    <2> QED
        BY <2>4, <2>5, WholeIsThen
<1> QED
    BY <1>12, <1>13

LEMMA PollKeeps ==
    ASSUME PosixMap, PosixBlocks, Posix!tcs_pool_poll
    PROVE  PosixStep
<1>1. /\ call' = <<"poll">> /\ pool' = pool /\ map' = map /\ allocated' = allocated
    BY DEF Posix!tcs_pool_poll
<1>2. PosixMap' /\ PosixBlocks' /\ Posix!Registered' = Posix!Registered
    <2>1. SameEntries
        BY <1>1 DEF SameEntries
    <2> QED
        BY <1>1, <2>1, SameIs DEF PosixBlocks
<1>3. CASE result' = "system" /\ Posix!NoEvents
    <2>1. Posix!WholeEvents' /\ Kept!NoEvents
        BY <1>2, <1>3, NoEventsIs, NothingToTellThen
    <2>2. call'[1] = "poll"
        BY <1>1
    <2>3. Kept!Fail
        BY <1>2, <1>3, <2>1, <2>2 DEF Kept!Fail
    <2> QED
        BY <1>2, <2>1, <2>3 DEF PosixStep, Kept!Next
<1>4. CASE ~ (result' = "system" /\ Posix!NoEvents)
    <2>1. PICK met \in [PoolSockets -> PoolMets], most \in PoolRooms :
            /\ polled' = [met |-> met, room |-> most]
            /\ events' = [k \in 1 .. Posix!fill_max(Posix!Cardinality(Hits(met)), most) |->
                            Posix!Event(Posix!Hit(Hits(met), k), k, met)]
            /\ result' = IF Hits(met) = {} THEN "timed_out" ELSE "success"
        BY <1>4 DEF Posix!tcs_pool_poll, Hits
    <2>2. Posix!Cardinality(Hits(met)) = Cardinality(Hits(met))
        BY CardinalityIs
    <2>3. Kept!Poll /\ Posix!WholeEvents'
        BY <1>1, <2>1, <2>2, PollTells
    <2> QED
        BY <1>2, <2>3 DEF PosixStep, Kept!Next
<1> QED
    BY <1>3, <1>4

-----------------------------------------------------------------------------
(* The pool on POSIX: what always holds, and that it is a pool.            *)

LEMMA PosixNextKeeps ==
    ASSUME PosixMap, PosixBlocks, Posix!Next
    PROVE  PosixStep
<1>1. CASE Posix!tcs_pool_create
    BY <1>1, CreateKeeps
<1>2. CASE Posix!tcs_pool_destroy
    BY <1>2, DestroyKeeps
<1>3. CASE Posix!tcs_pool_poll
    BY <1>3, PollKeeps
<1>4. ASSUME NEW s \in PoolSockets, NEW user \in PoolUsers, NEW interest \in PoolInterests,
             Posix!tcs_pool_add(s, user, interest)
      PROVE  PosixStep
    BY <1>4, AddKeeps
<1>5. ASSUME NEW s \in PoolSockets, Posix!tcs_pool_remove(s)
      PROVE  PosixStep
    BY <1>5, RemoveKeeps
<1> QED
    BY <1>1, <1>2, <1>3, <1>4, <1>5 DEF Posix!Next

LEMMA PosixInitIs ==
    ASSUME Posix!Init
    PROVE  PosixMap /\ PosixBlocks /\ Posix!WholeEvents /\ Kept!Init
<1>1. NoEntries /\ Unpolled /\ events = << >> /\ call = <<"none">> /\ result = "success" /\ allocated = {}
    BY DEF Posix!Init, Posix!NewMap, NoEntries, Unpolled
<1>2. PosixMap /\ NoneRegistered /\ Posix!WholeEvents
    BY <1>1, EmptyIs, NothingToTell
<1>3. Kept!Init
    BY <1>1, <1>2 DEF Kept!Init, NoneRegistered, Unpolled, Kept!NoPoll, Posix!NoPoll
<1> QED
    BY <1>1, <1>2, <1>3 DEF PosixBlocks, NoEntries

LEMMA PosixInvIsInductive ==
    /\ SocketInit => PosixInv
    /\ PosixInv /\ [SocketNext]_socketVars => PosixInv'
<1>1. SocketInit => PosixInv
    BY PosixInitIs DEF SocketInit, PosixInv
<1>2. ASSUME PosixInv, [SocketNext]_socketVars
      PROVE  PosixInv'
    <2> SUFFICES ASSUME matter' = "posix"
                 PROVE  PosixMap' /\ PosixBlocks' /\ Posix!WholeEvents'
        BY DEF PosixInv
    <2>1. matter = "posix" /\ PosixMap /\ PosixBlocks /\ Posix!WholeEvents
        BY <1>2 DEF SocketNext, socketVars, PosixInv
    <2>2. CASE Posix!Next
        BY <2>1, <2>2, PosixNextKeeps DEF PosixStep
    <2>3. CASE UNCHANGED socketVars
        <3>1. /\ map' = map /\ pool' = pool /\ allocated' = allocated
              /\ polled' = polled /\ events' = events
            BY <2>3 DEF socketVars, poolVars
        <3>2. PosixMap' /\ PosixBlocks'
            BY <2>1, <3>1 DEF PosixMap, PosixBlocks
        <3>3. Posix!WholeEvents'
            <4>1. WholeSays
                BY <2>1, WholeIs
            <4>2. Posix!Registered' = Posix!Registered
                BY <2>1, <3>1, SameIs DEF SameEntries
            <4>3. NowDue' = NowDue /\ NowWaited' = NowWaited
                BY <3>1, <4>2 DEF NowDue, NowWaited, Kept!Due, Kept!Waited
            <4>4. WholeSays'
                BY <3>1, <4>1, <4>3 DEF WholeSays
            <4> QED
                BY <3>2, <4>4, WholeIsThen
        <3> QED
            BY <3>2, <3>3
    <2> QED
        BY <1>2, <2>1, <2>2, <2>3 DEF SocketNext
<1> QED
    BY <1>1, <1>2

\* Whatever could not be allocated, without a pool nothing is; and where there
\* is room for all sockets that have something to tell, they tell all of it:
\* for sockets, conditions and capacities of any number (tinycsocket.h:3207).
THEOREM PosixKeepsItsWord == SocketSpec => []PosixPoolIsWhole
<1>1. SocketInit => PosixInv
    BY PosixInvIsInductive
<1>2. PosixInv /\ [SocketNext]_socketVars => PosixInv'
    BY PosixInvIsInductive
<1>3. PosixInv => PosixPoolIsWhole
    BY DEF PosixInv, PosixBlocks, PosixPoolIsWhole, Posix!NothingLeaks
<1> QED
    BY <1>1, <1>2, <1>3, PTL DEF SocketSpec

\* The two arrays that grow, shrink and are filled from the end keep the pool
\* that TcsPool promises, call by call: each socket its user data and its
\* interest, each event true, as many as there is room for, a call that fails
\* without effect (tinycsocket.h:2012).
THEOREM PosixIsAPool == SocketSpec => (matter = "posix" => Kept!Spec)
<1> DEFINE AtHand == matter = "posix"
<1>1. SocketInit => PosixInv /\ (AtHand => Kept!Init)
    BY PosixInvIsInductive, PosixInitIs DEF SocketInit
<1>2. PosixInv /\ AtHand /\ [SocketNext]_socketVars => AtHand' /\ [Kept!Next]_(Kept!vars)
    <2> SUFFICES ASSUME PosixInv, AtHand, [SocketNext]_socketVars
                 PROVE  AtHand' /\ [Kept!Next]_(Kept!vars)
        OBVIOUS
    <2>1. PosixMap /\ PosixBlocks
        BY DEF PosixInv
    <2>2. CASE Posix!Next
        <3>1. Kept!Next
            BY <2>1, <2>2, PosixNextKeeps DEF PosixStep
        <3> QED
            BY <3>1 DEF SocketNext, socketVars
    <2>3. CASE UNCHANGED socketVars
        <3>1. /\ matter' = matter /\ map' = map /\ polled' = polled /\ events' = events
              /\ call' = call /\ result' = result
            BY <2>3 DEF socketVars, poolVars
        <3>2. Posix!Registered' = Posix!Registered
            BY <3>1 DEF Posix!Registered, Posix!Known, Posix!Entry
        <3> QED
            BY <3>1, <3>2 DEF Kept!vars
    <2> QED
        BY <2>2, <2>3 DEF SocketNext
<1>3. PosixInv /\ [SocketNext]_socketVars => PosixInv'
    BY PosixInvIsInductive
<1> HIDE DEF AtHand
<1>4. SocketSpec => (AtHand => Kept!Spec)
    BY <1>1, <1>2, <1>3, PTL DEF SocketSpec, Kept!Spec
<1> QED
    BY <1>4 DEF AtHand

-----------------------------------------------------------------------------
(* An interface by its name: what the system lists.                        *)

LEMMA HostsAre ==
    /\ \A h \in NameHosts :
          /\ DOMAIN h.names \in SUBSET Nat /\ IsFiniteSet(DOMAIN h.names)
          /\ h.fills \in BOOLEAN
    /\ NameRoom \in Nat \ {0} /\ BufferRoom \in Nat \ {0}
<1>1. \A h \in NameHosts : Name!IsHost(h)
    BY SocketsAssumption DEF Name!InterfacesAssumption
<1>2. NameRoom \in Nat \ {0} /\ BufferRoom \in Nat \ {0}
    BY SocketsAssumption DEF Name!ByNameAssumption, Name!InterfacesAssumption
<1>3. ASSUME NEW h \in NameHosts
      PROVE  DOMAIN h.names \in SUBSET Nat /\ IsFiniteSet(DOMAIN h.names) /\ h.fills \in BOOLEAN
    BY <1>1 DEF Name!IsHost, Name!IsFiniteSet, IsFiniteSet
<1> QED
    BY <1>2, <1>3

\* Those that the system lists, and those that it ever may.
HasIp4(i) == "ip4" \in host.addresses[i]
ListedOf(ids) == IF host.system = "ioctl" THEN {i \in ids : HasIp4(i)} ELSE ids

\* A list is not cut without notice.
WholeLists == host.system = "ioctl" => host.fills \/ Cardinality(ListedOf(DOMAIN host.names)) <= BufferRoom

\* What is claimed of a packet socket, where there is room for all in the arrays.
Claimed == (~host.can_appear \/ NameRoom >= Cardinality(DOMAIN host.names)) /\ WholeLists

\* The entries that have indexes have the names of the interfaces; and, if
\* there was room for all, one has the name of each in a set.
NamesIn(ids) ==
    /\ DOMAIN interfaces \in SUBSET Nat
    /\ host.system # "ioctl" =>
          \A k \in DOMAIN interfaces :
             interfaces[k].id \in DOMAIN host.names /\ interfaces[k].name = host.names[interfaces[k].id]
    /\ count <= room =>
          \A i \in ListedOf(ids) : \E k \in DOMAIN interfaces : interfaces[k].name = host.names[i]

NamePlaces ==
    /\ host \in NameHosts
    /\ up \in SUBSET DOMAIN host.names /\ steady \in SUBSET up
    /\ room \in Nat /\ count \in Nat /\ NameRoom <= room
    /\ buf_len \in Nat /\ BufferRoom <= buf_len

\* The list fits: on the stack, or in the room that the first one counted, as
\* interfaces only go.
NameFits ==
    /\ host.can_appear => room = NameRoom /\ (pc = "search" => count <= NameRoom)
    /\ ~host.can_appear =>
          /\ room # NameRoom => Cardinality(ListedOf(up)) <= room
          /\ pc = "search" => Cardinality(ListedOf(up)) <= count /\ (room # NameRoom => count <= room)

BoundFits ==
    host.system # "ioctl" =>
        /\ pc = "bind" => bound \in DOMAIN host.names /\ host.names[bound] = wanted
        /\ Name!BoundIsWanted

NameNow ==
    /\ NameFits
    /\ pc = "search" => NamesIn(steady)
    /\ BoundFits /\ Name!PresentIsFound

NameInv == matter = "name" => NamePlaces /\ (Claimed => NameNow)

LEMMA ListedAre ==
    ASSUME NamePlaces, NEW ids \in SUBSET DOMAIN host.names
    PROVE  /\ ListedOf(ids) \in SUBSET ids /\ ListedOf(ids) \in SUBSET Nat
           /\ IsFiniteSet(ListedOf(ids)) /\ Cardinality(ListedOf(ids)) \in Nat
           /\ \A T \in SUBSET ids : /\ ListedOf(T) \in SUBSET ListedOf(ids)
                                    /\ Cardinality(ListedOf(T)) <= Cardinality(ListedOf(ids))
<1>1. DOMAIN host.names \in SUBSET Nat /\ IsFiniteSet(DOMAIN host.names)
    BY HostsAre DEF NamePlaces
<1>2. ListedOf(ids) \in SUBSET ids
    BY DEF ListedOf
<1>3. IsFiniteSet(ids)
    BY <1>1, FS_Subset
<1>4. IsFiniteSet(ListedOf(ids))
    BY <1>2, <1>3, FS_Subset
<1>5. ASSUME NEW T \in SUBSET ids
      PROVE  ListedOf(T) \in SUBSET ListedOf(ids) /\ Cardinality(ListedOf(T)) <= Cardinality(ListedOf(ids))
    <2>1. ListedOf(T) \in SUBSET ListedOf(ids)
        BY DEF ListedOf
    <2> QED
        BY <1>4, <2>1, FS_Subset
<1> QED
    BY <1>1, <1>2, <1>4, <1>5, FS_CardinalityType

\* What the system says is there, in any order.
LEMMA ListedIs ==
    ASSUME NamePlaces
    PROVE  LET n == Cardinality(ListedOf(up))
               list == Name!tcs_interface_list
           IN  /\ n \in Nat /\ Len(list) = n /\ DOMAIN list = 1 .. n
               /\ host.system # "ioctl" =>
                     \A k \in 1 .. n : list[k].id \in up /\ list[k].name = host.names[list[k].id]
               /\ \A i \in ListedOf(up) : \E k \in 1 .. n : list[k].name = host.names[i]
<1> DEFINE ids == ListedOf(up)
           n == Cardinality(ids)
           listed == Name!InOrder(ids)
           list == Name!tcs_interface_list
<1>1. ids \in SUBSET up /\ ids \in SUBSET Nat /\ IsFiniteSet(ids) /\ n \in Nat
    BY ListedAre DEF NamePlaces
<1>2. listed = [k \in 1 .. n |-> CHOOSE i \in ids : Rank(ids, i) = k]
    BY DEF Name!InOrder, Name!Place, Name!Cardinality, Cardinality, Rank
<1>3. list = [k \in DOMAIN listed |->
                 [id |-> IF host.system = "ioctl" THEN k ELSE listed[k], name |-> host.names[listed[k]]]]
    BY Zenon DEF Name!tcs_interface_list, Name!System, Name!NameOf, Name!WithIp4, Name!Addresses, ListedOf, HasIp4
<1> HIDE DEF ids
<1>4. \A k \in 1 .. n : listed[k] \in ids /\ Rank(ids, listed[k]) = k
    <2> SUFFICES ASSUME NEW k \in 1 .. n PROVE listed[k] \in ids /\ Rank(ids, listed[k]) = k
        OBVIOUS
    <2>1. \E i \in ids : Rank(ids, i) = k
        BY <1>1, RankIs, Zenon
    <2>2. listed[k] = CHOOSE i \in ids : Rank(ids, i) = k
        BY <1>2
    <2> QED
        BY <2>1, <2>2, Zenon
<1>5. \A i \in ids : \E k \in 1 .. n : listed[k] = i
    <2> SUFFICES ASSUME NEW i \in ids PROVE \E k \in 1 .. n : listed[k] = i
        OBVIOUS
    <2>1. Rank(ids, i) \in 1 .. n
        BY <1>1, RankIs, Zenon
    <2>2. listed[Rank(ids, i)] \in ids /\ Rank(ids, listed[Rank(ids, i)]) = Rank(ids, i)
        BY <1>4, <2>1, Zenon
    <2>3. \A j, k \in ids : Rank(ids, j) = Rank(ids, k) => j = k
        BY <1>1, RankIs, Zenon
    <2>4. listed[Rank(ids, i)] = i
        BY <2>2, <2>3, Zenon
    <2> QED
        BY <2>1, <2>4, Zenon
<1>6. DOMAIN listed = 1 .. n
    BY <1>2
<1> HIDE DEF listed, list, n
<1>7. DOMAIN list = 1 .. n /\ Len(list) = n
    BY <1>1, <1>3, <1>6
<1>8. \A k \in 1 .. n :
         list[k].name = host.names[listed[k]] /\ (host.system # "ioctl" => list[k].id = listed[k])
    BY <1>3, <1>6
<1>9. host.system # "ioctl" => \A k \in 1 .. n : list[k].id \in up /\ list[k].name = host.names[list[k].id]
    BY <1>1, <1>4, <1>8
<1>10. \A i \in ids : \E k \in 1 .. n : list[k].name = host.names[i]
    BY <1>5, <1>8
<1> QED
    BY <1>1, <1>7, <1>9, <1>10 DEF ids, n, list

\* Where a list is not cut without notice, all are told that are listed.
LEMMA AllAreTold ==
    ASSUME NamePlaces, Claimed, ~Name!TooSmall
    PROVE  Name!Fitting(Len(Name!tcs_interface_list), buf_len) = Cardinality(ListedOf(up))
<1> DEFINE n == Cardinality(ListedOf(up))
<1>1. n \in Nat /\ Len(Name!tcs_interface_list) = n
    BY ListedIs
<1>2. n <= Cardinality(ListedOf(DOMAIN host.names)) /\ Cardinality(ListedOf(DOMAIN host.names)) \in Nat
    BY ListedAre DEF NamePlaces
<1>3. buf_len \in Nat /\ BufferRoom \in Nat /\ BufferRoom <= buf_len /\ host.fills \in BOOLEAN
    BY HostsAre DEF NamePlaces
<1> HIDE DEF n
<1>4. ~ (host.system = "ioctl" /\ host.fills /\ n >= buf_len)
    BY <1>1 DEF Name!TooSmall, Name!IsFull, Name!System
<1>5. host.system = "ioctl" => n <= buf_len
    BY <1>1, <1>2, <1>3, <1>4 DEF Claimed, WholeLists, n
<1>6. Name!Fitting(n, buf_len) = n
    BY <1>1, <1>3, <1>5 DEF Name!Fitting, Name!System
<1> QED
    BY <1>1, <1>6 DEF n

NameThen == NamePlaces' /\ NameNow'

\* An interface that comes or goes.
LEMMA ChangeIs ==
    ASSUME NamePlaces, Name!Change
    PROVE  /\ host' = host /\ up' \in SUBSET DOMAIN host.names /\ steady' \in SUBSET up' /\ steady' \in SUBSET steady
           /\ ~host.can_appear => Cardinality(ListedOf(up')) <= Cardinality(ListedOf(up))
<1>1. PICK i \in DOMAIN host.names : Name!Appear(i) \/ Name!Vanish(i)
    BY DEF Name!Change, Name!Ids
<1>2. CASE Name!Appear(i)
    <2>1. host.can_appear /\ host' = host /\ steady' = steady /\ up' = up \cup {i}
        BY <1>2 DEF Name!Appear, Name!CanAppear
    <2> QED
        BY <2>1 DEF NamePlaces
<1>3. CASE Name!Vanish(i)
    <2>1. host' = host /\ steady' = steady \ {i} /\ up' = up \ {i}
        BY <1>3 DEF Name!Vanish
    <2>2. up' \in SUBSET up
        BY <2>1
    <2>3. Cardinality(ListedOf(up')) <= Cardinality(ListedOf(up))
        BY <2>2, ListedAre DEF NamePlaces
    <2> QED
        BY <2>1, <2>2, <2>3 DEF NamePlaces
<1> QED
    BY <1>1, <1>2, <1>3

LEMMA MovesKeepName ==
    ASSUME NamePlaces, Claimed, NameNow, Name!Environment
    PROVE  NameThen
<1>1. /\ host' = host /\ up' \in SUBSET DOMAIN host.names /\ steady' \in SUBSET up' /\ steady' \in SUBSET steady
      /\ ~host.can_appear => Cardinality(ListedOf(up')) <= Cardinality(ListedOf(up))
    BY ChangeIs DEF Name!Environment
<1>2. /\ pc' = pc /\ wanted' = wanted /\ room' = room /\ interfaces' = interfaces /\ count' = count
      /\ bound' = bound /\ result' = result /\ buf_len' = buf_len
    BY DEF Name!Environment
<1>3. NamePlaces'
    BY <1>1, <1>2 DEF NamePlaces
<1>4. Cardinality(ListedOf(up)) \in Nat /\ Cardinality(ListedOf(up')) \in Nat
    BY <1>1, ListedAre DEF NamePlaces
<1>5. ListedOf(up)' = ListedOf(up') /\ ListedOf(steady)' = ListedOf(steady')
    BY <1>1 DEF ListedOf, HasIp4
<1>6. NameFits'
    BY <1>1, <1>2, <1>4, <1>5 DEF NameNow, NameFits, NamePlaces
<1>7. ListedOf(steady') \in SUBSET ListedOf(steady)
    BY <1>1 DEF ListedOf
<1>8. pc' = "search" => NamesIn(steady)'
    BY <1>1, <1>2, <1>5, <1>7 DEF NameNow, NamesIn
<1>9. BoundFits'
    BY <1>1, <1>2 DEF NameNow, BoundFits, Name!BoundIsWanted, Name!Ids, Name!NameOf
<1>10. Name!PresentIsFound'
    BY <1>1, <1>2 DEF NameNow, Name!PresentIsFound, Name!NameOf, Name!System, Name!Addresses
<1> QED
    BY <1>3, <1>6, <1>8, <1>9, <1>10 DEF NameThen, NameNow

LEMMA ListKeepsName ==
    ASSUME NamePlaces, Claimed, NameNow, Name!List
    PROVE  NameThen
<1> DEFINE n == Cardinality(ListedOf(up))
           list == Name!tcs_interface_list
<1>1. /\ pc = "list" /\ pc' = "search" /\ interfaces' = Name!Stored(list, n) /\ count' = n
      /\ host' = host /\ up' = up /\ steady' = steady /\ wanted' = wanted /\ room' = room /\ bound' = bound
      /\ result' = result /\ buf_len' = buf_len
    BY AllAreTold DEF Name!List, Name!interfaceVars
<1>2. /\ n \in Nat /\ Len(list) = n /\ DOMAIN list = 1 .. n
      /\ host.system # "ioctl" => \A k \in 1 .. n : list[k].id \in up /\ list[k].name = host.names[list[k].id]
      /\ \A i \in ListedOf(up) : \E k \in 1 .. n : list[k].name = host.names[i]
    BY ListedIs, Zenon
<1>3. ListedOf(up)' = ListedOf(up) /\ ListedOf(steady)' = ListedOf(steady) /\ ListedOf(steady) \in SUBSET ListedOf(up)
    BY <1>1 DEF ListedOf, HasIp4, NamePlaces
<1>4. host.can_appear => n <= NameRoom
    <2> SUFFICES ASSUME host.can_appear PROVE n <= NameRoom
        OBVIOUS
    <2>1. NameRoom >= Cardinality(DOMAIN host.names)
        BY DEF Claimed
    <2>2. IsFiniteSet(DOMAIN host.names) /\ NameRoom \in Nat
        BY HostsAre DEF NamePlaces
    <2>3. ListedOf(up) \in SUBSET DOMAIN host.names
        BY ListedAre DEF NamePlaces
    <2>4. n <= Cardinality(DOMAIN host.names) /\ Cardinality(DOMAIN host.names) \in Nat
        BY <2>2, <2>3, FS_Subset, FS_CardinalityType
    <2> QED
        BY <1>2, <2>1, <2>2, <2>4
<1>5. NameFits'
    BY <1>1, <1>2, <1>3, <1>4 DEF NameNow, NameFits
<1> HIDE DEF list, n
<1>6. interfaces' = [k \in {j \in 1 .. n : j <= IF n < room THEN n ELSE room} |-> list[k]]
    BY <1>1, <1>2 DEF Name!Stored, Name!FirstOf
<1>7. NamePlaces'
    BY <1>1, <1>2 DEF NamePlaces
<1>8. \A k \in DOMAIN interfaces' : k \in 1 .. n /\ interfaces'[k] = list[k]
    BY <1>6
<1>9. n <= room => \A k \in 1 .. n : k \in DOMAIN interfaces' /\ interfaces'[k] = list[k]
    BY <1>2, <1>6 DEF NamePlaces
<1>10. NamesIn(steady)'
    <2>1. DOMAIN interfaces' \in SUBSET Nat
        BY <1>2, <1>8
    <2>2. host.system # "ioctl" =>
             \A k \in DOMAIN interfaces' :
                interfaces'[k].id \in DOMAIN host.names /\ interfaces'[k].name = host.names[interfaces'[k].id]
        BY <1>2, <1>8 DEF NamePlaces
    <2>3. ASSUME count' <= room', NEW i \in ListedOf(steady)'
          PROVE  \E k \in DOMAIN interfaces' : interfaces'[k].name = host.names[i]
        <3>1. i \in ListedOf(up) /\ n <= room
            BY <1>1, <1>3, <2>3
        <3>2. PICK k \in 1 .. n : list[k].name = host.names[i]
            BY <1>2, <3>1
        <3> QED
            BY <1>9, <3>1, <3>2
    <2> QED
        BY <1>1, <2>1, <2>2, <2>3 DEF NamesIn
<1>11. BoundFits' /\ Name!PresentIsFound'
    BY <1>1 DEF NameNow, BoundFits, Name!BoundIsWanted, Name!PresentIsFound, Name!Ids, Name!NameOf, Name!System,
                Name!Addresses
<1> QED
    BY <1>1, <1>5, <1>7, <1>10, <1>11 DEF NameThen, NameNow

LEMMA SearchKeepsName ==
    ASSUME NamePlaces, Claimed, NameNow, Name!Found \/ Name!ListAgain \/ Name!NotFound
    PROVE  NameThen
<1>1. /\ pc = "search" /\ host' = host /\ up' = up /\ steady' = steady /\ wanted' = wanted /\ count' = count
      /\ interfaces' = interfaces
    BY DEF Name!Found, Name!ListAgain, Name!NotFound, Name!interfaceVars
<1>2. Cardinality(ListedOf(up)) \in Nat /\ NameRoom \in Nat \ {0} /\ BufferRoom \in Nat
    BY HostsAre, ListedAre DEF NamePlaces
<1>3. BoundFits /\ Name!PresentIsFound /\ NameFits /\ NamesIn(steady)
    BY <1>1 DEF NameNow
<1>4. ListedOf(up)' = ListedOf(up) /\ host'.system = host.system
    BY <1>1 DEF ListedOf, HasIp4
<1>5. CASE Name!Found
    <2> DEFINE first == CHOOSE k \in Name!Hits : \A j \in Name!Hits : k <= j
    <2>1. /\ Name!Hits # {} /\ pc' = "bind" /\ room' = room /\ result' = result /\ bound' = interfaces[first].id
          /\ buf_len' = buf_len
        BY <1>5, Zenon DEF Name!Found
    <2>2. Name!Hits \in SUBSET Nat
        BY <1>3 DEF Name!Hits, NamesIn
    <2>3. \E k \in Name!Hits : \A j \in Name!Hits : k <= j
        BY <2>1, <2>2, LeastIs
    <2>4. first \in Name!Hits
        BY <2>3, Zenon
    <2> HIDE DEF first
    <2>5. first \in DOMAIN interfaces /\ interfaces[first].name = wanted
        BY <2>4 DEF Name!Hits
    <2>6. host.system # "ioctl" => bound' \in DOMAIN host'.names /\ host'.names[bound'] = wanted'
        BY <1>1, <1>3, <2>1, <2>5 DEF NamesIn
    <2>7. NamePlaces' /\ NameFits'
        BY <1>1, <1>3, <1>4, <2>1 DEF NamePlaces, NameFits
    <2>8. BoundFits'
        BY <1>4, <2>6 DEF BoundFits, Name!BoundIsWanted, Name!Ids, Name!NameOf
    <2>9. Name!PresentIsFound'
        BY <1>1, <1>3, <2>1 DEF Name!PresentIsFound, Name!NameOf, Name!System, Name!Addresses
    <2> QED
        BY <2>1, <2>7, <2>8, <2>9 DEF NameThen, NameNow
<1>6. CASE Name!ListAgain
    <2>1. room = NameRoom /\ count > NameRoom /\ bound' = bound
        BY <1>2, <1>6 DEF Name!ListAgain, Name!FitsOnStack, NamePlaces
    <2>2. ~host.can_appear /\ Cardinality(ListedOf(up)) <= count
        BY <1>1, <1>2, <1>3, <2>1 DEF NameFits, NamePlaces
    <2>3. CASE room' = count /\ pc' = "list" /\ result' = result /\ buf_len' = BufferRoom
        <3>1. NamePlaces'
            BY <1>1, <1>2, <2>1, <2>3 DEF NamePlaces
        <3>2. NameFits'
            BY <1>1, <1>4, <2>2, <2>3 DEF NameFits
        <3>3. BoundFits' /\ Name!PresentIsFound'
            BY <1>1, <1>3, <2>1, <2>3 DEF BoundFits, Name!BoundIsWanted, Name!PresentIsFound, Name!Ids, Name!NameOf,
                                          Name!System, Name!Addresses
        <3> QED
            BY <2>3, <3>1, <3>2, <3>3 DEF NameThen, NameNow
    <2>4. CASE room' = room /\ pc' = "returned" /\ result' = "memory" /\ buf_len' = buf_len
        <3>1. NamePlaces' /\ NameFits'
            BY <1>1, <1>3, <1>4, <2>4 DEF NamePlaces, NameFits
        <3>2. BoundFits' /\ Name!PresentIsFound'
            BY <2>4 DEF BoundFits, Name!BoundIsWanted, Name!PresentIsFound
        <3> QED
            BY <2>4, <3>1, <3>2 DEF NameThen, NameNow
    <2> QED
        BY <1>6, <2>3, <2>4 DEF Name!ListAgain, Name!Return
<1>7. CASE Name!NotFound
    <2>1. Name!Hits = {} /\ room' = room /\ (count <= NameRoom \/ room # NameRoom) /\ buf_len' = buf_len
        BY <1>7 DEF Name!NotFound, Name!FitsOnStack
    <2>2. count <= room
        BY <1>1, <1>2, <1>3, <2>1 DEF NameFits, NamePlaces
    <2>3. pc' = "returned" /\ result' = "invalid_argument" /\ bound' = bound
        BY <1>7, <2>2 DEF Name!NotFound, Name!Return, NamePlaces
    <2>4. \A i \in ListedOf(steady) : host.names[i] # wanted
        BY <1>3, <2>1, <2>2 DEF NamesIn, Name!Hits
    <2>5. NamePlaces' /\ NameFits'
        BY <1>1, <1>3, <1>4, <2>1, <2>3 DEF NamePlaces, NameFits
    <2>6. BoundFits'
        BY <2>3 DEF BoundFits, Name!BoundIsWanted
    <2>7. Name!PresentIsFound'
        BY <1>1, <2>4 DEF Name!PresentIsFound, Name!NameOf, Name!System, Name!Addresses, ListedOf, HasIp4
    <2> QED
        BY <2>3, <2>5, <2>6, <2>7 DEF NameThen, NameNow
<1> QED
    BY <1>5, <1>6, <1>7

\* The fallback's buffer grows.
LEMMA GrowKeepsName ==
    ASSUME NamePlaces, Name!Grow
    PROVE  NamePlaces' /\ (NameNow => NameNow')
<1>1. /\ pc = "list" /\ pc' = pc /\ host' = host /\ up' = up /\ steady' = steady /\ wanted' = wanted /\ count' = count
      /\ interfaces' = interfaces /\ room' = room /\ bound' = bound /\ result' = result /\ buf_len' = 2 * buf_len
    BY DEF Name!Grow, Name!interfaceVars, Name!Twice
<1>2. NamePlaces'
    BY <1>1, HostsAre DEF NamePlaces
<1>3. ListedOf(up)' = ListedOf(up)
    BY <1>1 DEF ListedOf, HasIp4
<1>4. NameNow => NameNow'
    BY <1>1, <1>3 DEF NameNow, NameFits, BoundFits, Name!BoundIsWanted, Name!PresentIsFound, Name!Ids, Name!NameOf,
                      Name!System, Name!Addresses
<1> QED
    BY <1>2, <1>4

\* Every step keeps what there is.
LEMMA PlacesOfName ==
    ASSUME NamePlaces, Name!Next
    PROVE  host' = host /\ NamePlaces'
<1>1. CASE Name!Environment
    BY <1>1, ChangeIs DEF Name!Environment, NamePlaces
<1>2. CASE Name!Grow
    BY <1>2, GrowKeepsName DEF Name!Grow, Name!interfaceVars
<1>3. CASE Name!Call /\ ~Name!Grow
    <2>1. host' = host /\ up' = up /\ steady' = steady
        BY <1>3 DEF Name!Call, Name!List, Name!ListFails, Name!Found, Name!ListAgain, Name!NotFound, Name!Bind,
                    Name!interfaceVars
    <2>2. count' \in Nat
        <3>1. \/ count' = count
              \/ count' = Name!Fitting(Len(Name!tcs_interface_list), buf_len)
            BY <1>3 DEF Name!Call, Name!List, Name!ListFails, Name!Found, Name!ListAgain, Name!NotFound, Name!Bind
        <3>2. Len(Name!tcs_interface_list) \in Nat
            BY ListedIs
        <3>3. Name!Fitting(Len(Name!tcs_interface_list), buf_len) \in Nat
            BY <3>2 DEF Name!Fitting, NamePlaces
        <3> QED
            BY <3>1, <3>3 DEF NamePlaces
    <2>3. room' \in Nat /\ NameRoom <= room'
        <3>1. CASE Name!ListAgain
            <4>1. room' = room \/ (room' = count /\ ~ (count <= NameRoom))
                BY <3>1 DEF Name!ListAgain, Name!FitsOnStack
            <4> QED
                BY <4>1, HostsAre DEF NamePlaces
        <3>2. CASE ~Name!ListAgain
            <4>1. room' = room
                BY <1>3, <3>2 DEF Name!Call, Name!List, Name!ListFails, Name!Found, Name!NotFound, Name!Bind
            <4> QED
                BY <4>1 DEF NamePlaces
        <3> QED
            BY <3>1, <3>2
    <2>4. buf_len' \in Nat /\ BufferRoom <= buf_len'
        <3>1. buf_len' = buf_len \/ buf_len' = BufferRoom
            BY <1>3 DEF Name!Call, Name!List, Name!ListFails, Name!Found, Name!ListAgain, Name!NotFound, Name!Bind
        <3> QED
            BY <3>1, HostsAre DEF NamePlaces
    <2> QED
        BY <2>1, <2>2, <2>3, <2>4 DEF NamePlaces
<1>4. ASSUME NEW name \in Name!Names, Name!Begin(name)
      PROVE  host' = host /\ NamePlaces'
    BY <1>4, HostsAre DEF Name!Begin, Name!Look, NamePlaces
<1> QED
    BY <1>1, <1>2, <1>3, <1>4 DEF Name!Next

LEMMA NameInvIsInductive ==
    /\ SocketInit => NameInv
    /\ NameInv /\ [SocketNext]_socketVars => NameInv'
<1>1. SocketInit => NameInv
    <2> SUFFICES ASSUME SocketInit, matter = "name"
                 PROVE  NamePlaces /\ NameNow
        BY DEF NameInv
    <2>1. Name!Init
        BY DEF SocketInit
    <2>2. NamePlaces
        BY <2>1, HostsAre DEF Name!Init, Name!InterfacesInit, Name!Ids, NamePlaces
    <2>3. NameNow
        BY <2>1 DEF Name!Init, NameNow, NameFits, BoundFits, Name!BoundIsWanted, Name!PresentIsFound
    <2> QED
        BY <2>2, <2>3
<1>2. ASSUME NameInv, [SocketNext]_socketVars
      PROVE  NameInv'
    <2> SUFFICES ASSUME matter' = "name"
                 PROVE  NamePlaces' /\ (Claimed' => NameNow')
        BY DEF NameInv
    <2>1. matter = "name" /\ NamePlaces /\ (Claimed => NameNow)
        BY <1>2 DEF SocketNext, socketVars, NameInv
    <2>2. CASE Name!Next
        <3>1. host' = host /\ NamePlaces'
            BY <2>1, <2>2, PlacesOfName
        <3>2. ASSUME Claimed PROVE NameNow'
            <4>1. NameNow
                BY <2>1, <3>2
            <4>2. ASSUME NEW name \in Name!Names, Name!Begin(name)
                  PROVE  NameNow'
                <5>1. room' = NameRoom /\ pc' = "list" /\ result' = "none"
                    BY <4>2 DEF Name!Begin
                <5> QED
                    BY <5>1 DEF NameNow, NameFits, BoundFits, Name!BoundIsWanted, Name!PresentIsFound
            <4>3. CASE Name!ListFails
                <5>1. /\ pc' = "returned" /\ result' \in {"system", "memory"} /\ room' = room /\ host' = host
                      /\ up' = up
                    BY <4>3 DEF Name!ListFails, Name!Return, Name!interfaceVars
                <5>2. ListedOf(up)' = ListedOf(up)
                    BY <5>1 DEF ListedOf, HasIp4
                <5> QED
                    BY <4>1, <5>1, <5>2 DEF NameNow, NameFits, BoundFits, Name!BoundIsWanted, Name!PresentIsFound
            <4>4. CASE Name!Bind
                <5>1. /\ pc = "bind" /\ pc' = "returned" /\ result' \in {"system", "success"} /\ room' = room
                      /\ host' = host /\ up' = up /\ bound' = bound /\ wanted' = wanted
                    BY <4>4 DEF Name!Bind, Name!tcs_socket_packet, Name!Return, Name!interfaceVars
                <5>2. ListedOf(up)' = ListedOf(up)
                    BY <5>1 DEF ListedOf, HasIp4
                <5>3. BoundFits'
                    BY <4>1, <5>1 DEF NameNow, BoundFits, Name!BoundIsWanted, Name!Ids, Name!NameOf
                <5> QED
                    BY <4>1, <5>1, <5>2, <5>3 DEF NameNow, NameFits, Name!PresentIsFound
            <4> QED
                BY <2>1, <2>2, <3>2, <4>1, <4>2, <4>3, <4>4, MovesKeepName, ListKeepsName, SearchKeepsName, GrowKeepsName
                   DEF Name!Next, Name!Call, NameThen
        <3>3. Claimed' = Claimed
            BY <3>1 DEF Claimed, WholeLists, ListedOf, HasIp4
        <3> QED
            BY <3>1, <3>2, <3>3
    <2>3. CASE UNCHANGED socketVars
        <3>1. /\ host' = host /\ up' = up /\ steady' = steady /\ pc' = pc /\ wanted' = wanted /\ room' = room
              /\ interfaces' = interfaces /\ count' = count /\ bound' = bound /\ result' = result
              /\ buf_len' = buf_len
            BY <2>3 DEF socketVars, interfaceVars, nameVars
        <3>2. Claimed' = Claimed /\ ListedOf(up)' = ListedOf(up) /\ ListedOf(steady)' = ListedOf(steady)
            BY <3>1 DEF Claimed, WholeLists, ListedOf, HasIp4
        <3>3. NamePlaces' /\ NameFits' = NameFits
            BY <2>1, <3>1, <3>2 DEF NamePlaces, NameFits
        <3>4. NamesIn(steady)' = NamesIn(steady)
            BY <3>1, <3>2 DEF NamesIn
        <3>5. BoundFits' = BoundFits /\ Name!PresentIsFound' = Name!PresentIsFound
            BY <3>1 DEF BoundFits, Name!BoundIsWanted, Name!PresentIsFound, Name!Ids, Name!NameOf, Name!System,
                        Name!Addresses
        <3> QED
            BY <2>1, <3>1, <3>2, <3>3, <3>4, <3>5 DEF NameNow
    <2> QED
        BY <1>2, <2>1, <2>2, <2>3 DEF SocketNext
<1> QED
    BY <1>1, <1>2

LEMMA NameImplies == NameInv /\ matter = "name" => Name!NamedIsBound
<1> SUFFICES ASSUME NameInv, matter = "name",
                    ~host.can_appear \/ NameRoom >= Cardinality(DOMAIN host.names)
             PROVE  /\ host.system # "ioctl" => Name!BoundIsWanted
                    /\ Name!ListsAreWhole => Name!PresentIsFound
    BY DEF Name!NamedIsBound, Name!System, Name!CanAppear, Name!Ids, Name!Cardinality, Cardinality
<1>1. Name!ListsAreWhole => WholeLists
    BY DEF WholeLists, Name!ListsAreWhole, Name!System, Name!Ids, Name!Addresses, ListedOf, HasIp4, Name!Cardinality, Cardinality
<1> QED
    BY <1>1 DEF NameInv, Claimed, WholeLists, NameNow, BoundFits

-----------------------------------------------------------------------------
(* A list of addresses: those that a call asks for.                        *)

LEMMA ListHostsAre ==
    /\ ListRooms \in SUBSET (Nat \cup {-1}) /\ BufferRoom \in Nat \ {0}
    /\ \A h \in ListHosts :
          /\ DOMAIN h.names \in SUBSET (Nat \ {0}) /\ IsFiniteSet(DOMAIN h.names)
          /\ h.addresses \in [DOMAIN h.names -> SUBSET Listing!Families]
          /\ h.system \in {"getifaddrs", "ioctl", "win32"}
<1>1. \A h \in ListHosts : Listing!IsHost(h)
    BY SocketsAssumption DEF Listing!InterfacesAssumption
<1>2. ListRooms \in SUBSET (Nat \cup {-1}) /\ BufferRoom \in Nat \ {0}
    BY SocketsAssumption DEF Listing!ListAssumption, Listing!InterfacesAssumption
<1>3. ASSUME NEW h \in ListHosts
      PROVE  /\ DOMAIN h.names \in SUBSET (Nat \ {0}) /\ IsFiniteSet(DOMAIN h.names)
             /\ h.addresses \in [DOMAIN h.names -> SUBSET Listing!Families]
             /\ h.system \in {"getifaddrs", "ioctl", "win32"}
    BY <1>1 DEF Listing!IsHost, Listing!IsFiniteSet, IsFiniteSet
<1> QED
    BY <1>2, <1>3

\* An address as it is told, and whether a call should tell it.
Known(i, f) == [id |-> i, owner |-> i, family |-> f]

Wants(i, f) ==
    /\ Listing!InterfaceFits(i) /\ Listing!FamilyFits(f)
    /\ f \in host.addresses[i]
    /\ host.system = "ioctl" => "ip4" \in host.addresses[i] /\ f # "ip6"
    /\ host.system = "win32" => f # "packet"

KnownSays ==
    \A ids :
        /\ \A i \in ids, f \in Listing!Supported : Known(i, f) \in Listing!KnownOf(ids) <=> Wants(i, f)
        /\ \A e \in Listing!KnownOf(ids) :
              /\ e.owner \in ids /\ e.family \in Listing!Supported
              /\ e = Known(e.owner, e.family) /\ Wants(e.owner, e.family)

LEMMA KnownIs == KnownSays
<1> SUFFICES ASSUME NEW ids
             PROVE  /\ \A i \in ids, f \in Listing!Supported :
                          Known(i, f) \in Listing!KnownOf(ids) <=> Wants(i, f)
                    /\ \A e \in Listing!KnownOf(ids) :
                          /\ e.owner \in ids /\ e.family \in Listing!Supported
                          /\ e = Known(e.owner, e.family) /\ Wants(e.owner, e.family)
    BY DEF KnownSays
<1> DEFINE some == {j \in ids : Listing!InterfaceFits(j) /\ (host.system = "ioctl" => "ip4" \in host.addresses[j])}
           families == {g \in Listing!Supported : Listing!FamilyFits(g)}
<1>1. Listing!AskedFor(ids) = {Known(i, f) : i \in some, f \in families}
    BY DEF Listing!AskedFor, Listing!System, Listing!Addresses, Known
<1>2. ASSUME NEW i \in ids, NEW f \in Listing!Supported
      PROVE  Known(i, f) \in Listing!KnownOf(ids) <=> Wants(i, f)
    <2>1. Known(i, f).id = i /\ Known(i, f).family = f
        BY DEF Known
    <2>2. Known(i, f) \in Listing!AskedFor(ids) <=> i \in some /\ f \in families
        <3>1. \A j \in some, g \in families : Known(j, g) = Known(i, f) => j = i /\ g = f
            BY DEF Known
        <3> HIDE DEF some, families
        <3> QED
            BY <1>1, <3>1
    <2> QED
        BY <2>1, <2>2 DEF Listing!KnownOf, Listing!System, Listing!Addresses, Wants
<1>3. ASSUME NEW e \in Listing!KnownOf(ids)
      PROVE  /\ e.owner \in ids /\ e.family \in Listing!Supported
             /\ e = Known(e.owner, e.family) /\ Wants(e.owner, e.family)
    <2>1. PICK i \in some, f \in families : e = Known(i, f)
        <3> HIDE DEF some, families
        <3> QED
            BY <1>1, <1>3 DEF Listing!KnownOf
    <2>2. e.owner = i /\ e.id = i /\ e.family = f
        BY <2>1 DEF Known
    <2> QED
        BY <1>2, <2>1, <2>2
<1> QED
    BY <1>2, <1>3

LEMMA KnownThen == KnownSays'
BY KnownIs, PTL

\* It depends on the computer and the call.
LEMMA KnownStays ==
    ASSUME host' = host, call' = call
    PROVE  /\ \A i, f : Wants(i, f)' <=> Wants(i, f)
           /\ \A ids : Listing!KnownOf(ids)' = Listing!KnownOf(ids)
<1>1. \A i, f : Wants(i, f)' <=> Wants(i, f)
    BY DEF Wants, Listing!InterfaceFits, Listing!FamilyFits
<1>2. ASSUME NEW ids
      PROVE  Listing!KnownOf(ids)' = Listing!KnownOf(ids)
    <2>1. \A e \in Listing!KnownOf(ids)' : e \in Listing!KnownOf(ids)
        BY <1>1, KnownIs, KnownThen DEF KnownSays
    <2>2. \A e \in Listing!KnownOf(ids) : e \in Listing!KnownOf(ids)'
        BY <1>1, KnownIs, KnownThen DEF KnownSays
    <2> QED
        BY <2>1, <2>2
<1> QED
    BY <1>1, <1>2

LEMMA CardinalityOfList ==
    ASSUME NEW T
    PROVE  Listing!Cardinality(T) = Cardinality(T)
BY DEF Listing!Cardinality, Cardinality

LEMMA KnownIsFinite ==
    ASSUME NEW ids, IsFiniteSet(ids)
    PROVE  IsFiniteSet(Listing!KnownOf(ids))
<1> DEFINE S == ids \X Listing!Supported
           f == [s \in S |-> Known(s[1], s[2])]
<1>1. IsFiniteSet(Listing!Supported)
    <2>1. Listing!Supported = ({"ip4"} \cup {"ip6"}) \cup {"packet"}
        BY DEF Listing!Supported
    <2>2. IsFiniteSet({"ip4"}) /\ IsFiniteSet({"ip6"}) /\ IsFiniteSet({"packet"})
        BY FS_Singleton
    <2>3. IsFiniteSet({"ip4"} \cup {"ip6"})
        BY <2>2, FS_Union
    <2> QED
        BY <2>1, <2>2, <2>3, FS_Union
<1>2. IsFiniteSet(S)
    BY <1>1, FS_Product
<1>3. IsFiniteSet(Range(f))
    <2>1. f \in Surjection(S, Range(f))
        BY DEF Surjection, Range
    <2> QED
        BY <1>2, <2>1, FS_Surjection
<1>4. \A e \in Listing!KnownOf(ids) : e \in Range(f)
    <2> SUFFICES ASSUME NEW e \in Listing!KnownOf(ids) PROVE e \in Range(f)
        OBVIOUS
    <2>1. e.owner \in ids /\ e.family \in Listing!Supported /\ e = Known(e.owner, e.family)
        BY KnownIs DEF KnownSays
    <2>2. <<e.owner, e.family>> \in S /\ f[<<e.owner, e.family>>] = e
        BY <2>1
    <2> QED
        BY <2>2 DEF Range
<1> QED
    BY <1>3, <1>4, FS_Subset

-----------------------------------------------------------------------------
(* A list of addresses: what is told, and what is still to be.             *)

IsWin32 == host.system = "win32"
IsIoctl == host.system = "ioctl"

Entry(i, f) == [owner |-> i, family |-> f]

Owners == {e.owner : e \in entries}

\* What is still to be told or passed over: the entries, and in the fallback,
\* which has an entry for each interface, two addresses of each, the IPv4
\* address first.
Todo ==
    IF IsIoctl
    THEN [owner : Owners, family : {"ip4", "packet"}]
         \ (IF pc = "packet" THEN {Entry(Listing!This.owner, "ip4")} ELSE {})
    ELSE entries

\* Addresses of one family, of interfaces with one name.
Same(a, b) == host.names[a.owner] = host.names[b.owner] /\ a.family = b.family

Element == [id : DOMAIN host.names, owner : DOMAIN host.names, family : Listing!Supported]

ListPlaces ==
    /\ host \in ListHosts /\ call \in Listing!Calls /\ still \in BOOLEAN
    /\ up \in SUBSET DOMAIN host.names /\ Listing!OneOfAName(up)
    /\ steady \in SUBSET up /\ (still => steady = up)
    /\ entries \in SUBSET [owner : DOMAIN host.names, family : Listing!Families]
    /\ \A e \in entries : e.family \in host.addresses[e.owner] /\ Listing!SystemLists(e.family)
    /\ \A d, e \in entries : host.names[d.owner] = host.names[e.owner] => d.owner = e.owner
    /\ still => Owners \in SUBSET up
    /\ buf_len \in Nat /\ BufferRoom <= buf_len

\* Where the call is with the entry at hand.
ListHand ==
    /\ pc \in {"returned", "list", "filter", "fill", "ip4", "packet"}
    /\ pc = "list" => interface_addresses = << >> /\ out_count = 0
    /\ pc = "fill" =>
          /\ entries # {} /\ ~IsIoctl /\ ~IsWin32
          /\ Listing!FamilyFits(Listing!This.family)
          /\ Listing!This.owner \in steady => Listing!InterfaceFits(Listing!This.owner)
    /\ pc \in {"ip4", "packet"} =>
          /\ entries # {} /\ IsIoctl
          /\ id \in DOMAIN host.names /\ host.names[id] = host.names[Listing!This.owner]
          /\ Listing!InterfaceFits(id)
          /\ Listing!This.owner \in steady => id = Listing!This.owner

ListResult ==
    /\ result \in {"none", "success", "gone", "system", "memory"}
    /\ pc # "returned" => result = "none"
    /\ result = "success" => Todo = {}
    /\ still => result # "gone"

\* The array has what fits of what was counted, no two of the same.
ListTold ==
    /\ interface_addresses \in Seq(Element) /\ out_count \in Nat
    /\ call.capacity # -1 =>
          Len(interface_addresses) = (IF call.capacity < out_count THEN call.capacity ELSE out_count)
    /\ \A k \in 1 .. Len(interface_addresses) :
          /\ IsWin32 \/ Listing!OneOfAName(DOMAIN host.names) =>
                interface_addresses[k].id = interface_addresses[k].owner
          /\ \A t \in Todo : ~Same(interface_addresses[k], t)
          /\ still => interface_addresses[k] \in Listing!KnownOf(up)
    /\ \A j, k \in 1 .. Len(interface_addresses) :
          Same(interface_addresses[j], interface_addresses[k]) => j = k

Settled == {e \in Listing!KnownOf(steady) : Entry(e.owner, e.family) \notin Todo}

\* What is done with and should be told was counted, and told if it fits,
\* where the list was whole.
ListCounted ==
    WholeLists =>
        /\ Len(interface_addresses) < call.capacity =>
              \A e \in Settled : \E k \in 1 .. Len(interface_addresses) : interface_addresses[k] = e
        /\ ~IsWin32 => out_count >= Cardinality(Settled) /\ (still => out_count = Cardinality(Settled))

\* The call has its list.
ListBegun == pc \notin {"returned", "list"} \/ result \in {"success", "gone"}

ListNow == ListTold /\ (ListBegun => ListCounted)

ListInv == matter = "list" => ListPlaces /\ ListHand /\ ListResult /\ ListNow

SameCall ==
    /\ host' = host /\ up' = up /\ steady' = steady /\ still' = still /\ call' = call
    /\ buf_len' = buf_len

LEMMA WholeStays ==
    ASSUME host' = host
    PROVE  WholeLists' = WholeLists
BY DEF WholeLists, ListedOf, HasIp4

LEMMA DoneIsFinite == ListPlaces => IsFiniteSet(Settled) /\ Cardinality(Settled) \in Nat
<1> SUFFICES ASSUME ListPlaces PROVE IsFiniteSet(Settled) /\ Cardinality(Settled) \in Nat
    OBVIOUS
<1>1. IsFiniteSet(steady)
    BY ListHostsAre, FS_Subset DEF ListPlaces
<1>2. IsFiniteSet(Settled)
    BY <1>1, KnownIsFinite, FS_Subset DEF Settled
<1> QED
    BY <1>2, FS_CardinalityType

LEMMA TodoIs ==
    ListPlaces => \A t \in Todo : t.owner \in DOMAIN host.names /\ t.owner \in Owners /\ t = Entry(t.owner, t.family)
BY DEF ListPlaces, Todo, Entry, Owners

\* What nobody should be told is passed over.
LEMMA SkipKeeps ==
    ASSUME ListPlaces, ListTold, ListCounted, SameCall,
           interface_addresses' = interface_addresses, out_count' = out_count,
           Todo' \in SUBSET Todo,
           \A t \in Todo : t \notin Todo' => ~ (t.owner \in steady /\ Wants(t.owner, t.family))
    PROVE  ListTold' /\ ListCounted'
<1>1. \A ids : Listing!KnownOf(ids)' = Listing!KnownOf(ids)
    BY KnownStays DEF SameCall
<1>2. ListTold'
    BY <1>1 DEF ListTold, SameCall, IsWin32, Listing!OneOfAName, Listing!NameOf, Same, Element
<1>3. Settled' = Settled
    <2>1. Listing!KnownOf(steady)' = Listing!KnownOf(steady)
        BY <1>1 DEF SameCall
    <2>2. ASSUME NEW e \in Listing!KnownOf(steady), Entry(e.owner, e.family) \in Todo
          PROVE  Entry(e.owner, e.family) \in Todo'
        BY <2>2, KnownIs DEF KnownSays, Entry
    <2>3. \A e \in Listing!KnownOf(steady) : Entry(e.owner, e.family) \in Todo' <=> Entry(e.owner, e.family) \in Todo
        BY <2>2
    <2> QED
        BY <2>1, <2>3 DEF Settled
<1>4. ListCounted'
    BY <1>3, WholeStays DEF ListCounted, SameCall, IsWin32
<1> QED
    BY <1>2, <1>4

\* What should be told is told, or counted.
LEMMA TellKeeps ==
    ASSUME ListPlaces, ListTold, ListCounted, SameCall,
           NEW t \in Todo, Todo' = Todo \ {t}, t.family \in Listing!Supported,
           NEW index, NEW owner \in DOMAIN host.names, host.names[owner] = host.names[t.owner],
           Listing!Tell(index, owner, t.family),
           Listing!HasRoom =>
              index \in DOMAIN host.names /\ (IsWin32 \/ Listing!OneOfAName(DOMAIN host.names) => index = owner),
           t.owner \in steady => index = t.owner /\ owner = t.owner,
           still => t.owner \in up /\ Wants(t.owner, t.family)
    PROVE  ListTold' /\ ListCounted'
<1> DEFINE told == interface_addresses
           n == Len(interface_addresses)
           new == [id |-> index, owner |-> owner, family |-> t.family]
           e == Known(t.owner, t.family)
<1>1. told \in Seq(Element) /\ n \in Nat /\ out_count \in Nat
    BY DEF ListTold
<1>2. t.owner \in DOMAIN host.names /\ t = Entry(t.owner, t.family)
    BY TodoIs
<1>3. \A ids : Listing!KnownOf(ids)' = Listing!KnownOf(ids)
    BY KnownStays DEF SameCall
<1>4. call.capacity \in Nat \cup {-1}
    BY ListHostsAre DEF ListPlaces, Listing!Calls
<1>5. out_count' = (IF Listing!Counts THEN out_count + 1 ELSE out_count)
    BY DEF Listing!Tell
<1>6. Listing!Counts <=> ~IsWin32 \/ n < call.capacity \/ call.capacity = -1
    BY DEF Listing!Counts, Listing!HasRoom, Listing!System, IsWin32
<1>7. n < call.capacity => new \in Element
    BY <1>1 DEF Listing!HasRoom, Element
<1>8. ASSUME n < call.capacity
      PROVE  /\ told' \in Seq(Element) /\ Len(told') = n + 1
             /\ \A k \in 1 .. n : told'[k] = told[k]
             /\ told'[n + 1] = new
    <2> HIDE DEF new
    <2>1. told' = Append(told, new)
        BY <1>8 DEF Listing!Tell, Listing!HasRoom, new
    <2> QED
        BY <1>1, <1>7, <1>8, <2>1, AppendProperties
<1>9. ~ (n < call.capacity) => told' = told
    BY DEF Listing!Tell, Listing!HasRoom
<1>10. /\ told' \in Seq(Element) /\ out_count' \in Nat
       /\ Len(told') = (IF n < call.capacity THEN n + 1 ELSE n)
       /\ \A k \in 1 .. Len(told') : (k \in 1 .. n /\ told'[k] = told[k]) \/ (k = n + 1 /\ n < call.capacity /\ told'[k] = new)
    <2> HIDE DEF new
    <2>1. CASE n < call.capacity
        BY <1>1, <1>5, <1>8, <2>1
    <2>2. CASE ~ (n < call.capacity)
        BY <1>1, <1>5, <1>9, <2>2
    <2> QED
        BY <2>1, <2>2
<1>11. call.capacity # -1 => Len(told') = (IF call.capacity < out_count' THEN call.capacity ELSE out_count')
    <2> SUFFICES ASSUME call.capacity # -1
                 PROVE  Len(told') = (IF call.capacity < out_count' THEN call.capacity ELSE out_count')
        OBVIOUS
    <2>1. n = (IF call.capacity < out_count THEN call.capacity ELSE out_count) /\ call.capacity \in Nat
        BY <1>4 DEF ListTold
    <2>2. Len(told') = (IF n < call.capacity THEN n + 1 ELSE n)
        BY <1>10
    <2> QED
        BY <1>1, <1>5, <1>6, <2>1, <2>2
<1>12. \A s \in Todo : Same(new, s) => s = t
    <2> SUFFICES ASSUME NEW s \in Todo, Same(new, s) PROVE s = t
        OBVIOUS
    <2>1. host.names[s.owner] = host.names[t.owner] /\ s.family = t.family
        BY DEF Same
    <2>2. s.owner \in Owners /\ t.owner \in Owners /\ s = Entry(s.owner, s.family)
        BY TodoIs
    <2>3. s.owner = t.owner
        BY <2>1, <2>2 DEF ListPlaces, Owners
    <2> QED
        BY <1>2, <2>1, <2>2, <2>3
<1>13. still => new \in Listing!KnownOf(up)
    <2> SUFFICES ASSUME still PROVE new \in Listing!KnownOf(up)
        OBVIOUS
    <2>1. t.owner \in up /\ Wants(t.owner, t.family) /\ index = t.owner /\ owner = t.owner
        BY DEF ListPlaces
    <2>2. new = Known(t.owner, t.family)
        BY <2>1 DEF Known
    <2> QED
        BY <2>1, <2>2, KnownIs DEF KnownSays
<1>14. \A k \in 1 .. n : ~Same(told[k], new)
    <2>1. \A k \in 1 .. n : ~Same(told[k], t)
        BY DEF ListTold
    <2> QED
        BY <2>1 DEF Same
<1>15. \A k \in 1 .. Len(told') :
          /\ IsWin32 \/ Listing!OneOfAName(DOMAIN host.names) => told'[k].id = told'[k].owner
          /\ \A s \in Todo' : ~Same(told'[k], s)
          /\ still => told'[k] \in Listing!KnownOf(up)
    <2> SUFFICES ASSUME NEW k \in 1 .. Len(told')
                 PROVE  /\ IsWin32 \/ Listing!OneOfAName(DOMAIN host.names) => told'[k].id = told'[k].owner
                        /\ \A s \in Todo' : ~Same(told'[k], s)
                        /\ still => told'[k] \in Listing!KnownOf(up)
        OBVIOUS
    <2>1. CASE k \in 1 .. n /\ told'[k] = told[k]
        BY <2>1 DEF ListTold
    <2>2. CASE n < call.capacity /\ told'[k] = new
        <3>1. Listing!HasRoom /\ new.id = index /\ new.owner = owner
            BY <2>2 DEF Listing!HasRoom
        <3> HIDE DEF new
        <3> QED
            BY <1>12, <1>13, <2>2, <3>1
    <2> QED
        BY <1>10, <2>1, <2>2
<1>16. \A j, k \in 1 .. Len(told') : Same(told'[j], told'[k]) => j = k
    <2> SUFFICES ASSUME NEW j \in 1 .. Len(told'), NEW k \in 1 .. Len(told'), Same(told'[j], told'[k])
                 PROVE  j = k
        OBVIOUS
    <2> HIDE DEF new
    <2>1. Same(told'[k], told'[j])
        BY DEF Same
    <2>2. \A i, l \in 1 .. n : Same(told[i], told[l]) => i = l
        BY DEF ListTold
    <2> QED
        BY <1>10, <1>14, <2>1, <2>2
<1>17. ListTold'
    <2>1. Element' = Element /\ (\A a, b : Same(a, b)' <=> Same(a, b))
        BY DEF Element, Same, SameCall
    <2>2. IsWin32' = IsWin32 /\ Listing!OneOfAName(DOMAIN host.names)' = Listing!OneOfAName(DOMAIN host.names)
        BY DEF IsWin32, Listing!OneOfAName, Listing!NameOf, SameCall
    <2>3. still' = still /\ call' = call /\ Listing!KnownOf(up)' = Listing!KnownOf(up)
        BY <1>3 DEF SameCall
    <2> HIDE DEF new
    <2>4. (\A k \in 1 .. Len(told) :
              /\ IsWin32 \/ Listing!OneOfAName(DOMAIN host.names) => told[k].id = told[k].owner
              /\ \A s \in Todo : ~Same(told[k], s)
              /\ still => told[k] \in Listing!KnownOf(up))'
        BY <1>15, <2>1, <2>2, <2>3
    <2>5. (\A j, k \in 1 .. Len(told) : Same(told[j], told[k]) => j = k)'
        BY <1>16, <2>1
    <2> QED
        BY <1>10, <1>11, <2>1, <2>3, <2>4, <2>5 DEF ListTold
<1>18. /\ Listing!KnownOf(steady)' = Listing!KnownOf(steady)
       /\ e \in Listing!KnownOf(steady) <=> t.owner \in steady /\ Wants(t.owner, t.family)
       /\ e.owner = t.owner /\ e.family = t.family
       /\ \A d \in Listing!KnownOf(steady) : Entry(d.owner, d.family) = t => d = e
    <2>1. e.owner = t.owner /\ e.family = t.family
        BY DEF Known
    <2>2. e \in Listing!KnownOf(steady) <=> t.owner \in steady /\ Wants(t.owner, t.family)
        BY <2>1, KnownIs DEF KnownSays
    <2>3. \A d \in Listing!KnownOf(steady) : Entry(d.owner, d.family) = t => d = e
        BY KnownIs DEF KnownSays, Entry
    <2> QED
        BY <1>3, <2>1, <2>2, <2>3 DEF SameCall
<1> HIDE DEF e
<1>19. Settled' = (IF e \in Listing!KnownOf(steady) THEN Settled \cup {e} ELSE Settled) /\ e \notin Settled
    <2>1. Entry(e.owner, e.family) = t
        BY <1>2, <1>18
    <2> QED
        BY <1>18, <2>1 DEF Settled
<1>20. WholeLists /\ Len(told') < call.capacity =>
           \A d \in Settled' : \E k \in 1 .. Len(told') : told'[k] = d
    <2> SUFFICES ASSUME WholeLists, Len(told') < call.capacity, NEW d \in Settled'
                 PROVE  \E k \in 1 .. Len(told') : told'[k] = d
        OBVIOUS
    <2>1. n < call.capacity /\ Len(told') = n + 1
        BY <1>1, <1>4, <1>10
    <2>2. CASE d \in Settled
        <3>1. PICK k \in 1 .. n : told[k] = d
            BY <2>1, <2>2 DEF ListCounted
        <3> QED
            BY <1>1, <1>8, <2>1, <3>1
    <2>3. CASE d = e /\ e \in Listing!KnownOf(steady)
        <3>1. index = t.owner /\ owner = t.owner
            BY <1>18, <2>3
        <3>2. new = e
            BY <3>1 DEF e, Known
        <3> HIDE DEF new
        <3> QED
            BY <1>1, <1>8, <2>1, <2>3, <3>2
    <2> QED
        BY <1>19, <2>2, <2>3
<1>21. WholeLists /\ ~IsWin32 =>
           out_count' >= Cardinality(Settled') /\ (still => out_count' = Cardinality(Settled'))
    <2> SUFFICES ASSUME WholeLists, ~IsWin32
                 PROVE  out_count' >= Cardinality(Settled') /\ (still => out_count' = Cardinality(Settled'))
        OBVIOUS
    <2>1. out_count' = out_count + 1
        BY <1>5, <1>6
    <2>2. IsFiniteSet(Settled) /\ Cardinality(Settled) \in Nat
        BY DoneIsFinite
    <2>3. Cardinality(Settled \cup {e}) = Cardinality(Settled) + 1
        BY <1>19, <2>2, FS_AddElement
    <2>4. out_count >= Cardinality(Settled) /\ (still => out_count = Cardinality(Settled))
        BY DEF ListCounted
    <2>5. still => e \in Listing!KnownOf(steady)
        BY <1>18 DEF ListPlaces
    <2> QED
        BY <1>1, <1>19, <2>1, <2>2, <2>3, <2>4, <2>5
<1>22. ListCounted'
    <2>1. IsWin32' = IsWin32 /\ still' = still /\ call' = call /\ WholeLists' = WholeLists
        BY WholeStays DEF IsWin32, SameCall
    <2> QED
        BY <1>20, <1>21, <2>1 DEF ListCounted
<1> QED
    BY <1>17, <1>22

ListThen == ListPlaces' /\ ListHand' /\ ListResult' /\ ListNow'

LEMMA PlacesStay ==
    ASSUME ListPlaces, SameCall, entries' \in SUBSET entries
    PROVE  ListPlaces'
<1>1. Listing!Calls' = Listing!Calls /\ Listing!OneOfAName(up)' = Listing!OneOfAName(up)
    BY DEF SameCall, Listing!Calls, Listing!Ids, Listing!OneOfAName, Listing!NameOf
<1>2. \A f : Listing!SystemLists(f)' = Listing!SystemLists(f)
    BY DEF SameCall, Listing!SystemLists, Listing!System
<1>3. Owners' \in SUBSET Owners
    BY DEF Owners
<1> QED
    BY <1>1, <1>2, <1>3 DEF ListPlaces, SameCall

LEMMA ThisIs ==
    ASSUME ListPlaces, entries # {}
    PROVE  /\ Listing!This \in entries /\ Listing!This.owner \in DOMAIN host.names
           /\ Listing!This.owner \in Owners
           /\ Listing!This = Entry(Listing!This.owner, Listing!This.family)
           /\ Listing!This.family \in host.addresses[Listing!This.owner]
           /\ Listing!SystemLists(Listing!This.family)
           /\ still => Listing!This.owner \in steady
<1>1. Listing!This \in entries
    BY DEF Listing!This
<1> QED
    BY <1>1 DEF ListPlaces, Owners, Entry

\* The index that a name has now: that of the interface listed, if it is still
\* there, as no two have a name at once.
LEMMA IndexIs ==
    ASSUME ListPlaces, NEW i \in DOMAIN host.names
    PROVE  LET index == Listing!if_nametoindex(host.names[i])
           IN  /\ index = 0 \/ (index \in DOMAIN host.names /\ index # 0 /\ host.names[index] = host.names[i])
               /\ i \in up => index = i /\ index # 0
               /\ Listing!OneOfAName(DOMAIN host.names) /\ index # 0 => index = i
<1> DEFINE index == Listing!if_nametoindex(host.names[i])
           some == CHOOSE j \in up : host.names[j] = host.names[i]
<1>1. index = (IF \E j \in up : host.names[j] = host.names[i] THEN some ELSE 0)
    BY DEF Listing!if_nametoindex, Listing!NameOf
<1>2. up \in SUBSET DOMAIN host.names /\ 0 \notin DOMAIN host.names
    BY ListHostsAre DEF ListPlaces
<1>3. ASSUME \E j \in up : host.names[j] = host.names[i]
      PROVE  some \in up /\ host.names[some] = host.names[i]
    BY <1>3, Zenon
<1>4. \A j, k \in up : host.names[j] = host.names[k] => j = k
    BY DEF ListPlaces, Listing!OneOfAName, Listing!NameOf
<1> HIDE DEF some, index
<1>5. index = 0 \/ (index \in up /\ index # 0 /\ host.names[index] = host.names[i])
    BY <1>1, <1>2, <1>3
<1>6. i \in up => index = i /\ index # 0
    BY <1>1, <1>2, <1>3, <1>4
<1>7. Listing!OneOfAName(DOMAIN host.names) /\ index # 0 => index = i
    BY <1>2, <1>5 DEF Listing!OneOfAName, Listing!NameOf
<1> QED
    BY <1>2, <1>5, <1>6, <1>7 DEF index

\* Windows and getifaddrs, which list each address: one is done with.
LEMMA TakenIs ==
    ASSUME ListPlaces, ~IsIoctl, SameCall, entries # {}, entries' = entries \ {Listing!This}
    PROVE  Todo = entries /\ Todo' = Todo \ {Listing!This}
BY DEF Todo, SameCall, IsIoctl

LEMMA Win32Keeps ==
    ASSUME ListPlaces, ListHand, ListResult, ListNow, SameCall, Listing!TellWin32
    PROVE  ListThen
<1> DEFINE e == Listing!This
<1>1. /\ IsWin32 /\ ~IsIoctl /\ pc = "filter" /\ entries # {} /\ pc' = "filter"
      /\ entries' = entries \ {e} /\ result' = result
    BY DEF Listing!TellWin32, Listing!NextEntry, Listing!System, IsWin32, IsIoctl, Listing!Tell, Listing!ToldNothing
<1>2. /\ e \in entries /\ e.owner \in DOMAIN host.names /\ e = Entry(e.owner, e.family)
      /\ e.family \in host.addresses[e.owner] /\ Listing!SystemLists(e.family) /\ (still => e.owner \in steady)
    BY <1>1, ThisIs
<1>3. Todo = entries /\ Todo' = Todo \ {e}
    BY <1>1, TakenIs
<1> HIDE DEF e
<1>4. ListPlaces'
    BY <1>1, PlacesStay
<1>5. ListTold /\ ListCounted /\ result = "none"
    BY <1>1 DEF ListNow, ListBegun, ListResult
<1>6. e.family # "packet" /\ (still => e.owner \in up)
    BY <1>1, <1>2 DEF Listing!SystemLists, Listing!System, IsWin32, ListPlaces
<1>7. CASE Listing!InterfaceFits(e.owner) /\ Listing!FamilyFits(e.family)
    <2>1. Listing!Tell(e.owner, e.owner, e.family) /\ e.family \in Listing!Supported
        BY <1>7 DEF Listing!TellWin32, Listing!FamilyFits, e
    <2>2. Wants(e.owner, e.family)
        BY <1>1, <1>2, <1>6, <1>7 DEF Wants, IsIoctl
    <2>3. e \in Todo /\ Todo' = Todo \ {e}
        BY <1>2, <1>3
    <2> QED
        BY <1>1, <1>2, <1>4, <1>5, <1>6, <2>1, <2>2, <2>3, TellKeeps DEF ListThen, ListNow, ListHand, ListResult
<1>8. CASE ~ (Listing!InterfaceFits(e.owner) /\ Listing!FamilyFits(e.family))
    <2>1. interface_addresses' = interface_addresses /\ out_count' = out_count
        BY <1>8 DEF Listing!TellWin32, Listing!ToldNothing, e
    <2>2. ~Wants(e.owner, e.family)
        BY <1>8 DEF Wants
    <2> QED
        BY <1>1, <1>3, <1>4, <1>5, <2>1, <2>2, SkipKeeps DEF ListThen, ListNow, ListHand, ListResult
<1> QED
    BY <1>7, <1>8

LEMMA FilterKeeps ==
    ASSUME ListPlaces, ListHand, ListResult, ListNow, SameCall, Listing!FilterPosix
    PROVE  ListThen
<1> DEFINE e == Listing!This
           index == Listing!if_nametoindex(host.names[e.owner])
           filtering == call.interface_id_filter # 0
           fits == (filtering => Listing!InterfaceFits(index)) /\ Listing!FamilyFits(e.family)
<1>1. /\ ~IsWin32 /\ ~IsIoctl /\ pc = "filter" /\ entries # {}
      /\ \/ filtering /\ index = 0 /\ Listing!Fail
         \/ fits /\ pc' = "fill" /\ entries' = entries /\ Listing!ToldNothing
         \/ (filtering => index # 0) /\ ~fits /\ Listing!PassOver
    BY DEF Listing!FilterPosix, Listing!System, IsWin32, IsIoctl, Listing!NameOf, Listing!Gone
<1>2. /\ e \in entries /\ e.owner \in DOMAIN host.names /\ e.family \in host.addresses[e.owner]
      /\ (still => e.owner \in steady) /\ (e.owner \in steady => index = e.owner /\ index # 0)
    BY <1>1, ThisIs, IndexIs DEF ListPlaces
<1>3. Todo = entries /\ (entries' = entries => Todo' = Todo /\ Listing!This' = e)
    BY <1>1 DEF Todo, SameCall, IsIoctl, Listing!This
<1>4. ListTold /\ ListCounted /\ result = "none"
    BY <1>1 DEF ListNow, ListBegun, ListResult
<1> HIDE DEF index, e
<1>5. CASE filtering /\ index = 0 /\ Listing!Fail
    <2>1. /\ pc' = "returned" /\ result' = "gone" /\ entries' = entries
          /\ interface_addresses' = interface_addresses /\ out_count' = out_count
        BY <1>5 DEF Listing!Fail
    <2>2. ~still
        BY <1>2, <1>5
    <2>3. ListPlaces' /\ ListTold' /\ ListCounted' /\ still' = still
        BY <1>3, <1>4, <2>1, PlacesStay, SkipKeeps DEF SameCall
    <2> QED
        BY <2>1, <2>2, <2>3 DEF ListThen, ListNow, ListHand, ListResult
<1>6. CASE fits /\ pc' = "fill" /\ entries' = entries /\ Listing!ToldNothing
    <2>1. interface_addresses' = interface_addresses /\ out_count' = out_count /\ result' = result
        BY <1>6 DEF Listing!ToldNothing
    <2>2. ListPlaces' /\ ListTold' /\ ListCounted'
        BY <1>3, <1>4, <1>6, <2>1, PlacesStay, SkipKeeps
    <2>3. e.owner \in steady => Listing!InterfaceFits(e.owner)
        BY <1>2, <1>6 DEF Listing!InterfaceFits
    <2>4. ListHand'
        BY <1>1, <1>2, <1>3, <1>6, <2>3
           DEF ListHand, SameCall, IsWin32, IsIoctl, Listing!FamilyFits, Listing!InterfaceFits
    <2> QED
        BY <1>4, <1>6, <2>1, <2>2, <2>4 DEF ListThen, ListNow, ListResult
<1>7. CASE ~fits /\ Listing!PassOver
    <2>1. /\ pc' = "filter" /\ entries' = entries \ {e} /\ interface_addresses' = interface_addresses
          /\ out_count' = out_count /\ result' = result
        BY <1>7 DEF Listing!PassOver, Listing!NextEntry, Listing!ToldNothing, e
    <2>2. Todo' = Todo \ {e}
        BY <1>1, <2>1, TakenIs DEF e
    <2>3. ~ (e.owner \in steady /\ Wants(e.owner, e.family))
        BY <1>2, <1>7 DEF Wants
    <2>4. ListPlaces' /\ ListTold' /\ ListCounted'
        BY <1>4, <2>1, <2>2, <2>3, PlacesStay, SkipKeeps
    <2> QED
        BY <1>4, <2>1, <2>4 DEF ListThen, ListNow, ListHand, ListResult
<1> QED
    BY <1>1, <1>5, <1>6, <1>7

LEMMA FillKeeps ==
    ASSUME ListPlaces, ListHand, ListResult, ListNow, SameCall, Listing!FillPosix
    PROVE  ListThen
<1> DEFINE e == Listing!This
           index == Listing!if_nametoindex(host.names[e.owner])
<1>1. /\ pc = "fill" /\ entries # {} /\ ~IsWin32 /\ ~IsIoctl
      /\ \/ Listing!HasRoom /\ index = 0 /\ Listing!Fail
         \/ ~ (Listing!HasRoom /\ index = 0) /\ Listing!NextEntry /\ Listing!Tell(index, e.owner, e.family)
    BY DEF Listing!FillPosix, Listing!NameOf, Listing!Gone, ListHand
<1>2. /\ e \in entries /\ e.owner \in DOMAIN host.names /\ e.family \in host.addresses[e.owner]
      /\ (still => e.owner \in steady) /\ (e.owner \in steady => index = e.owner /\ index # 0)
      /\ index # 0 => index \in DOMAIN host.names
      /\ Listing!OneOfAName(DOMAIN host.names) /\ index # 0 => index = e.owner
    BY <1>1, ThisIs, IndexIs DEF ListPlaces
<1>3. Todo = entries /\ (entries' = entries => Todo' = Todo)
    BY <1>1 DEF Todo, SameCall, IsIoctl
<1>4. ListTold /\ ListCounted /\ result = "none"
    BY <1>1 DEF ListNow, ListBegun, ListResult
<1>5. Listing!FamilyFits(e.family) /\ (e.owner \in steady => Listing!InterfaceFits(e.owner))
    BY <1>1 DEF ListHand
<1> HIDE DEF index, e
<1>6. CASE Listing!HasRoom /\ index = 0 /\ Listing!Fail
    <2>1. /\ pc' = "returned" /\ result' = "gone" /\ entries' = entries
          /\ interface_addresses' = interface_addresses /\ out_count' = out_count
        BY <1>6 DEF Listing!Fail
    <2>2. ~still
        BY <1>2, <1>6
    <2>3. ListPlaces' /\ ListTold' /\ ListCounted' /\ still' = still
        BY <1>3, <1>4, <2>1, PlacesStay, SkipKeeps DEF SameCall
    <2> QED
        BY <2>1, <2>2, <2>3 DEF ListThen, ListNow, ListHand, ListResult
<1>7. CASE ~ (Listing!HasRoom /\ index = 0) /\ Listing!NextEntry /\ Listing!Tell(index, e.owner, e.family)
    <2>1. pc' = "filter" /\ entries' = entries \ {e} /\ result' = result
        BY <1>7 DEF Listing!NextEntry, Listing!Tell, e
    <2>2. e \in Todo /\ Todo' = Todo \ {e} /\ ListPlaces'
        BY <1>1, <1>2, <1>3, <2>1, TakenIs, PlacesStay DEF e
    <2>3. still => e.owner \in up /\ Wants(e.owner, e.family)
        BY <1>1, <1>2, <1>5 DEF Wants, ListPlaces, IsWin32, IsIoctl
    <2>4. e.family \in Listing!Supported
        BY <1>5 DEF Listing!FamilyFits
    <2>5. ListTold' /\ ListCounted'
        BY <1>1, <1>2, <1>4, <1>7, <2>2, <2>3, <2>4, TellKeeps
    <2> QED
        BY <1>4, <2>1, <2>2, <2>5 DEF ListThen, ListNow, ListHand, ListResult
<1> QED
    BY <1>1, <1>6, <1>7

\* The fallback, which has an entry for each interface with an IPv4 address.
LEMMA OwnersAre ==
    ASSUME ListPlaces, IsIoctl, entries # {}
    PROVE  {e.owner : e \in entries \ {Listing!This}} = Owners \ {Listing!This.owner}
<1> DEFINE this == Listing!This
<1>1. this \in entries
    BY ThisIs
<1>2. \A e \in entries : e.owner = this.owner => e = this
    <2>1. \A e \in entries : e.family = "ip4" /\ e = Entry(e.owner, e.family)
        BY DEF ListPlaces, Listing!SystemLists, Listing!System, IsIoctl, Entry
    <2> QED
        BY <1>1, <2>1
<1> QED
    BY <1>1, <1>2 DEF Owners

LEMMA FilterIoctlKeeps ==
    ASSUME ListPlaces, ListHand, ListResult, ListNow, SameCall, Listing!FilterIoctl
    PROVE  ListThen
<1> DEFINE e == Listing!This
           index == Listing!if_nametoindex(host.names[e.owner])
<1>1. /\ IsIoctl /\ pc = "filter" /\ entries # {} /\ id' = index
      /\ interface_addresses' = interface_addresses /\ out_count' = out_count /\ result' = result
    BY DEF Listing!FilterIoctl, Listing!System, IsIoctl, Listing!NameOf, Listing!ToldNothing
<1>2. /\ e \in entries /\ e.owner \in DOMAIN host.names
      /\ (e.owner \in steady => index = e.owner /\ index # 0)
      /\ index # 0 => index \in DOMAIN host.names /\ host.names[index] = host.names[e.owner]
    BY <1>1, ThisIs, IndexIs DEF ListPlaces
<1>3. ListTold /\ ListCounted /\ result = "none"
    BY <1>1 DEF ListNow, ListBegun, ListResult
<1>4. Todo = [owner : Owners, family : {"ip4", "packet"}]
    BY <1>1 DEF Todo
<1> HIDE DEF index
<1>5. CASE index # 0 /\ Listing!InterfaceFits(index)
    <2>1. pc' = "ip4" /\ entries' = entries
        BY <1>1, <1>5 DEF Listing!FilterIoctl, Listing!Gone
    <2>2. Todo' = Todo /\ Listing!This' = e
        BY <1>1, <1>4, <2>1 DEF Todo, SameCall, IsIoctl, Listing!This, Owners
    <2>3. ListPlaces' /\ ListTold' /\ ListCounted'
        BY <1>1, <1>3, <2>1, <2>2, PlacesStay, SkipKeeps
    <2>4. ListHand'
        BY <1>1, <1>2, <1>5, <2>1, <2>2 DEF ListHand, SameCall, IsIoctl, Listing!InterfaceFits
    <2> QED
        BY <1>1, <1>3, <2>1, <2>3, <2>4 DEF ListThen, ListNow, ListResult
<1>6. CASE ~ (index # 0 /\ Listing!InterfaceFits(index))
    <2>1. pc' = "filter" /\ entries' = entries \ {e}
        BY <1>1, <1>6 DEF Listing!FilterIoctl, Listing!Gone, Listing!NextEntry
    <2>2. Owners' = Owners \ {e.owner}
        BY <1>1, <2>1, OwnersAre DEF Owners
    <2>3. Todo' = [owner : Owners', family : {"ip4", "packet"}]
        BY <1>1, <2>1 DEF Todo, SameCall, IsIoctl
    <2>4. Todo' \in SUBSET Todo /\ \A t \in Todo : t \notin Todo' => t.owner = e.owner
        BY <1>4, <2>2, <2>3
    <2>5. ~ (e.owner \in steady /\ Listing!InterfaceFits(e.owner))
        BY <1>2, <1>6
    <2>6. \A t \in Todo : t \notin Todo' => ~ (t.owner \in steady /\ Wants(t.owner, t.family))
        BY <2>4, <2>5 DEF Wants
    <2>7. ListPlaces' /\ ListTold' /\ ListCounted'
        BY <1>1, <1>3, <2>1, <2>4, <2>6, PlacesStay, SkipKeeps
    <2> QED
        BY <1>1, <1>3, <2>1, <2>7 DEF ListThen, ListNow, ListHand, ListResult
<1> QED
    BY <1>5, <1>6

LEMMA Ip4Keeps ==
    ASSUME ListPlaces, ListHand, ListResult, ListNow, SameCall, Listing!Ip4Ioctl
    PROVE  ListThen
<1> DEFINE e == Listing!This
           t == Entry(e.owner, "ip4")
<1>1. pc = "ip4" /\ IsIoctl /\ entries # {} /\ pc' = "packet" /\ entries' = entries /\ id' = id
    BY DEF Listing!Ip4Ioctl, ListHand
<1>2. /\ e \in entries /\ e.owner \in DOMAIN host.names /\ e.owner \in Owners
      /\ "ip4" \in host.addresses[e.owner] /\ (still => e.owner \in steady)
    <2>1. e.family \in host.addresses[e.owner] /\ Listing!SystemLists(e.family)
        BY <1>1, ThisIs
    <2>2. e.family = "ip4"
        BY <1>1, <2>1 DEF Listing!SystemLists, Listing!System, IsIoctl
    <2> QED
        BY <1>1, <2>1, <2>2, ThisIs
<1>3. /\ id \in DOMAIN host.names /\ host.names[id] = host.names[e.owner] /\ Listing!InterfaceFits(id)
      /\ e.owner \in steady => id = e.owner
    BY <1>1 DEF ListHand
<1>4. ListTold /\ ListCounted /\ result = "none"
    BY <1>1 DEF ListNow, ListBegun, ListResult
<1>5. Listing!This' = e /\ Owners' = Owners
    BY <1>1 DEF Listing!This, Owners
<1> HIDE DEF e
<1>6. Todo = [owner : Owners, family : {"ip4", "packet"}] /\ Todo' = Todo \ {t}
    BY <1>1, <1>5 DEF Todo, SameCall, IsIoctl, e
<1>7. t.owner = e.owner /\ t.family = "ip4" /\ t \in Todo /\ "ip4" \in Listing!Supported
    BY <1>2, <1>6 DEF Entry, Listing!Supported
<1> HIDE DEF t
<1>8. ListPlaces'
    BY <1>1, PlacesStay
<1>9. ListHand'
    BY <1>1, <1>3, <1>5 DEF ListHand, SameCall, IsIoctl, Listing!InterfaceFits, e
<1>10. CASE Listing!FamilyFits("ip4")
    <2>1. Listing!Tell(id, e.owner, t.family) /\ result' = result
        BY <1>7, <1>10 DEF Listing!Ip4Ioctl, Listing!Tell, e
    <2>2. still => e.owner \in up /\ Wants(e.owner, "ip4")
        BY <1>1, <1>2, <1>3, <1>10 DEF Wants, ListPlaces, IsIoctl
    <2>3. Listing!OneOfAName(DOMAIN host.names) => id = e.owner
        BY <1>2, <1>3 DEF Listing!OneOfAName, Listing!NameOf
    <2>4. ~IsWin32
        BY <1>1 DEF IsIoctl, IsWin32
    <2>5. ListTold' /\ ListCounted'
        BY <1>2, <1>3, <1>4, <1>6, <1>7, <2>1, <2>2, <2>3, <2>4, TellKeeps
    <2> QED
        BY <1>1, <1>4, <1>8, <1>9, <2>1, <2>5 DEF ListThen, ListNow, ListResult
<1>11. CASE ~Listing!FamilyFits("ip4")
    <2>1. interface_addresses' = interface_addresses /\ out_count' = out_count /\ result' = result
        BY <1>11 DEF Listing!Ip4Ioctl, Listing!ToldNothing
    <2>2. ~Wants(t.owner, t.family)
        BY <1>7, <1>11 DEF Wants
    <2>3. ListTold' /\ ListCounted'
        BY <1>4, <1>6, <2>1, <2>2, SkipKeeps
    <2> QED
        BY <1>1, <1>4, <1>8, <1>9, <2>1, <2>3 DEF ListThen, ListNow, ListResult
<1> QED
    BY <1>10, <1>11

LEMMA PacketKeeps ==
    ASSUME ListPlaces, ListHand, ListResult, ListNow, SameCall, Listing!PacketIoctl
    PROVE  ListThen
<1> DEFINE e == Listing!This
           t == Entry(e.owner, "packet")
           index == Listing!if_nametoindex(host.names[e.owner])
<1>1. /\ pc = "packet" /\ IsIoctl /\ entries # {} /\ pc' = "filter" /\ entries' = entries \ {e}
    BY DEF Listing!PacketIoctl, Listing!NextEntry, ListHand
<1>2. /\ e \in entries /\ e.owner \in DOMAIN host.names /\ e.owner \in Owners
      /\ "ip4" \in host.addresses[e.owner] /\ (still => e.owner \in steady)
      /\ (e.owner \in steady => index = e.owner /\ index # 0)
      /\ index # 0 => index \in DOMAIN host.names /\ host.names[index] = host.names[e.owner]
    <2>1. e.family \in host.addresses[e.owner] /\ Listing!SystemLists(e.family)
        BY <1>1, ThisIs
    <2>2. e.family = "ip4"
        BY <1>1, <2>1 DEF Listing!SystemLists, Listing!System, IsIoctl
    <2> QED
        BY <1>1, <2>1, <2>2, ThisIs, IndexIs DEF ListPlaces
<1>3. /\ id \in DOMAIN host.names /\ host.names[id] = host.names[e.owner] /\ Listing!InterfaceFits(id)
      /\ e.owner \in steady => id = e.owner
    BY <1>1 DEF ListHand
<1>4. ListTold /\ ListCounted /\ result = "none"
    BY <1>1 DEF ListNow, ListBegun, ListResult
<1>5. Owners' = Owners \ {e.owner}
    BY <1>1, OwnersAre DEF Owners
<1> HIDE DEF e
<1>6. /\ Todo = [owner : Owners, family : {"ip4", "packet"}] \ {Entry(e.owner, "ip4")}
      /\ Todo' = [owner : Owners', family : {"ip4", "packet"}]
    BY <1>1 DEF Todo, SameCall, IsIoctl, e
<1>7. t.owner = e.owner /\ t.family = "packet" /\ t \in Todo /\ "packet" \in Listing!Supported
    BY <1>2, <1>6 DEF Entry, Listing!Supported
<1>8. Todo' = Todo \ {t}
    <2> DEFINE all == [owner : Owners, family : {"ip4", "packet"}]
    <2>1. \A x \in all : x = Entry(x.owner, x.family) /\ x.family \in {"ip4", "packet"}
        BY DEF Entry
    <2>2. \A x \in all : x.owner = e.owner <=> x = Entry(e.owner, "ip4") \/ x = t
        BY <2>1 DEF Entry
    <2>3. Todo' = {x \in all : x.owner # e.owner}
        BY <1>5, <1>6
    <2> HIDE DEF all
    <2> QED
        BY <1>6, <2>2, <2>3 DEF all
<1> HIDE DEF t
<1>9. ListPlaces' /\ ~IsWin32
    BY <1>1, PlacesStay DEF IsIoctl, IsWin32
<1>10. Listing!PacketIoctl => (IF Listing!FamilyFits("packet") /\ index # 0 /\ "packet" \in host.addresses[index]
                               THEN Listing!Tell(id, index, "packet") ELSE Listing!ToldNothing)
    BY DEF Listing!PacketIoctl, Listing!NameOf, Listing!Addresses, e
<1> HIDE DEF index
<1>11. CASE Listing!FamilyFits("packet") /\ index # 0 /\ "packet" \in host.addresses[index]
    <2>1. Listing!Tell(id, index, t.family) /\ result' = result
        BY <1>7, <1>10, <1>11 DEF Listing!Tell
    <2>2. still => e.owner \in up /\ Wants(e.owner, "packet")
        BY <1>1, <1>2, <1>3, <1>9, <1>11 DEF Wants, ListPlaces, IsIoctl, IsWin32
    <2>3. Listing!OneOfAName(DOMAIN host.names) => id = index
        BY <1>2, <1>3, <1>11 DEF Listing!OneOfAName, Listing!NameOf
    <2>4. ListTold' /\ ListCounted'
        BY <1>2, <1>3, <1>4, <1>7, <1>8, <1>9, <1>11, <2>1, <2>2, <2>3, TellKeeps
    <2> QED
        BY <1>1, <1>4, <1>9, <2>1, <2>4 DEF ListThen, ListNow, ListHand, ListResult
<1>12. CASE ~ (Listing!FamilyFits("packet") /\ index # 0 /\ "packet" \in host.addresses[index])
    <2>1. interface_addresses' = interface_addresses /\ out_count' = out_count /\ result' = result
        BY <1>10, <1>12 DEF Listing!ToldNothing
    <2>2. ~ (t.owner \in steady /\ Wants(t.owner, t.family))
        BY <1>2, <1>7, <1>12 DEF Wants
    <2>3. ListTold' /\ ListCounted'
        BY <1>4, <1>8, <2>1, <2>2, SkipKeeps
    <2> QED
        BY <1>1, <1>4, <1>9, <2>1, <2>3 DEF ListThen, ListNow, ListHand, ListResult
<1> QED
    BY <1>11, <1>12

LEMMA ReturnKeeps ==
    ASSUME ListPlaces, ListHand, ListResult, ListNow, SameCall, Listing!Return
    PROVE  ListThen
<1>1. /\ pc = "filter" /\ entries = {} /\ pc' = "returned" /\ result' = "success" /\ entries' = entries
      /\ interface_addresses' = interface_addresses /\ out_count' = out_count
    BY DEF Listing!Return
<1>2. Todo = {} /\ Todo' = {}
    <2>1. Owners = {} /\ Owners' = {}
        BY <1>1 DEF Owners
    <2>2. \A F : [owner : {}, family : F] = {}
        OBVIOUS
    <2> QED
        BY <1>1, <2>1, <2>2 DEF Todo
<1>3. ListTold /\ ListCounted
    BY <1>1 DEF ListNow, ListBegun
<1>4. ListPlaces' /\ ListTold' /\ ListCounted'
    BY <1>1, <1>2, <1>3, PlacesStay, SkipKeeps
<1> QED
    BY <1>1, <1>2, <1>4 DEF ListThen, ListNow, ListHand, ListResult

LEMMA NothingIsDone ==
    ASSUME ListPlaces', interface_addresses' = << >>, out_count' = 0,
           ListBegun' /\ WholeLists' => Settled' = {}
    PROVE  ListNow'
<1>1. << >> \in Seq(Element') /\ Len(<< >>) = 0
    BY EmptySeq
<1>2. call'.capacity \in Nat \cup {-1}
    <2>1. ListRooms \in SUBSET (Nat \cup {-1})
        BY ListHostsAre
    <2> QED
        BY <2>1 DEF ListPlaces, Listing!Calls
<1>3. Cardinality({}) = 0
    BY FS_EmptySet
<1>4. ListTold'
    BY <1>1, <1>2 DEF ListTold
<1>5. ListBegun' => ListCounted'
    <2>1. ASSUME ListBegun', WholeLists'
          PROVE  Settled' = {} /\ out_count' = 0 /\ Cardinality(Settled') = 0
        BY <1>3, <2>1
    <2> QED
        BY <2>1 DEF ListCounted
<1> QED
    BY <1>4, <1>5 DEF ListNow

LEMMA BeginKeepsList ==
    ASSUME ListPlaces, NEW c \in Listing!Calls, Listing!Begin(c)
    PROVE  ListThen
<1>1. /\ host' = host /\ up' = up /\ steady' = up /\ still' = TRUE /\ call' = c
      /\ interface_addresses' = << >> /\ out_count' = 0 /\ entries' = {} /\ buf_len' = BufferRoom
    BY DEF Listing!Begin, Listing!Look
<1>2. \/ IsIoctl /\ c.address_family_filter = "ip6" /\ pc' = "returned" /\ result' = "success"
      \/ pc' = "list" /\ result' = "none"
    BY DEF Listing!Begin, IsIoctl, Listing!System
<1>3. ListPlaces'
    <2>1. Listing!Calls' = Listing!Calls /\ Listing!OneOfAName(up)' = Listing!OneOfAName(up)
        BY <1>1 DEF Listing!Calls, Listing!Ids, Listing!OneOfAName, Listing!NameOf
    <2> QED
        BY <1>1, <2>1, ListHostsAre DEF ListPlaces, Owners
<1>4. ListHand'
    BY <1>1, <1>2 DEF ListHand
<1>5. ListResult'
    <2>1. Owners' = {}
        BY <1>1 DEF Owners
    <2>2. \A F : [owner : {}, family : F] = {}
        OBVIOUS
    <2>3. Todo' = {}
        BY <1>1, <2>1, <2>2 DEF Todo
    <2> QED
        BY <1>2, <2>3 DEF ListResult
<1>6. ListBegun' => Settled' = {}
    <2> SUFFICES ASSUME ListBegun', NEW e \in Listing!KnownOf(steady)'
                 PROVE  FALSE
        BY DEF Settled
    <2>1. IsIoctl /\ c.address_family_filter = "ip6"
        BY <1>2 DEF ListBegun
    <2>2. Wants(e.owner, e.family)'
        BY KnownThen DEF KnownSays
    <2>3. c.address_family_filter \in {"any", e.family} /\ e.family # "ip6"
        BY <1>1, <2>1, <2>2 DEF Wants, Listing!FamilyFits, IsIoctl
    <2> QED
        BY <2>1, <2>3
<1>7. ListNow'
    BY <1>1, <1>3, <1>6, NothingIsDone
<1> QED
    BY <1>3, <1>4, <1>5, <1>7 DEF ListThen

\* The list of the system: what it says is there.
LEMMA SystemIs ==
    ASSUME ListPlaces
    PROVE  LET list == Listing!SystemList
           IN  /\ list \in SUBSET [owner : up, family : Listing!Families]
               /\ IsFiniteSet(list) /\ Cardinality(list) \in Nat
               /\ \A e \in list : e.family \in host.addresses[e.owner] /\ Listing!SystemLists(e.family)
               /\ \A i \in up, f \in Listing!Families :
                     f \in host.addresses[i] /\ Listing!SystemLists(f) => Entry(i, f) \in list
               /\ IsIoctl => Cardinality(list) <= Cardinality(ListedOf(DOMAIN host.names))
<1> DEFINE list == Listing!SystemList
           S == up \X Listing!Families
           f == [s \in S |-> Entry(s[1], s[2])]
<1>1. list \in SUBSET [owner : up, family : Listing!Families]
    BY DEF Listing!SystemList, Listing!AddressesOf
<1>2. /\ \A e \in list : e.family \in host.addresses[e.owner] /\ Listing!SystemLists(e.family)
      /\ \A i \in up, g \in Listing!Families :
            g \in host.addresses[i] /\ Listing!SystemLists(g) => Entry(i, g) \in list
    BY DEF Listing!SystemList, Listing!AddressesOf, Listing!Addresses, Entry
<1>3. \A e \in list : e.owner \in up /\ e.family \in Listing!Families /\ e = Entry(e.owner, e.family)
    BY <1>1 DEF Entry
<1> HIDE DEF list
<1>4. IsFiniteSet(DOMAIN host.names) /\ IsFiniteSet(up) /\ up \in SUBSET DOMAIN host.names
    BY ListHostsAre, FS_Subset DEF ListPlaces
<1>5. IsFiniteSet(Listing!Families)
    <2>1. Listing!Families = (({"ip4"} \cup {"ip6"}) \cup {"packet"}) \cup {"other"}
        BY DEF Listing!Families
    <2>2. IsFiniteSet({"ip4"}) /\ IsFiniteSet({"ip6"}) /\ IsFiniteSet({"packet"}) /\ IsFiniteSet({"other"})
        BY FS_Singleton
    <2>3. IsFiniteSet({"ip4"} \cup {"ip6"})
        BY <2>2, FS_Union
    <2>4. IsFiniteSet(({"ip4"} \cup {"ip6"}) \cup {"packet"})
        BY <2>2, <2>3, FS_Union
    <2> QED
        BY <2>1, <2>2, <2>4, FS_Union
<1>6. IsFiniteSet(list)
    <2>1. IsFiniteSet(S)
        BY <1>4, <1>5, FS_Product
    <2>2. f \in Surjection(S, Range(f))
        BY DEF Surjection, Range
    <2>3. IsFiniteSet(Range(f))
        BY <2>1, <2>2, FS_Surjection
    <2>4. ASSUME NEW e \in list PROVE e \in Range(f)
        <3>1. <<e.owner, e.family>> \in S /\ f[<<e.owner, e.family>>] = e
            BY <1>3
        <3> QED
            BY <3>1 DEF Range
    <2> QED
        BY <2>3, <2>4, FS_Subset
<1>7. ASSUME IsIoctl PROVE Cardinality(list) <= Cardinality(ListedOf(DOMAIN host.names))
    <2> DEFINE T == ListedOf(DOMAIN host.names)
               g == [i \in T |-> Entry(i, "ip4")]
    <2>1. IsFiniteSet(T) /\ Cardinality(T) \in Nat
        <3>1. T \in SUBSET DOMAIN host.names
            BY DEF ListedOf
        <3> QED
            BY <1>4, <3>1, FS_Subset, FS_CardinalityType
    <2>2. \A i \in DOMAIN host.names : "ip4" \in host.addresses[i] => i \in T
        BY <1>7 DEF ListedOf, HasIp4
    <2> HIDE DEF T
    <2>3. g \in Surjection(T, Range(g))
        BY DEF Surjection, Range
    <2>4. IsFiniteSet(Range(g)) /\ Cardinality(Range(g)) <= Cardinality(T) /\ Cardinality(Range(g)) \in Nat
        BY <2>1, <2>3, FS_Surjection, FS_CardinalityType
    <2>5. ASSUME NEW e \in list PROVE e \in Range(g)
        <3>1. e.family = "ip4" /\ e.owner \in T
            BY <1>2, <1>3, <1>4, <1>7, <2>2 DEF Listing!SystemLists, Listing!System, IsIoctl
        <3>2. g[e.owner] = e
            BY <1>3, <3>1
        <3> QED
            BY <3>1, <3>2 DEF Range
    <2>6. Cardinality(list) <= Cardinality(Range(g)) /\ Cardinality(list) \in Nat
        BY <1>6, <2>4, <2>5, FS_Subset, FS_CardinalityType
    <2> HIDE DEF g
    <2>7. Cardinality(list) <= Cardinality(T)
        BY <2>1, <2>4, <2>6
    <2> QED
        BY <2>7 DEF T
<1>8. Cardinality(list) \in Nat
    BY <1>6, FS_CardinalityType
<1> QED
    BY <1>1, <1>2, <1>6, <1>7, <1>8 DEF list

\* A list that is not cut without notice is taken whole.
LEMMA WholeIsTaken ==
    ASSUME ListPlaces, WholeLists, Listing!List
    PROVE  entries' = Listing!SystemList
<1> DEFINE list == Listing!SystemList
           n == Cardinality(list)
<1>1. /\ ~Listing!IsFull(n, buf_len)
      /\ entries' \in SUBSET list /\ Cardinality(entries') = Listing!Fitting(n, buf_len)
    BY CardinalityOfList DEF Listing!List
<1>2. IsFiniteSet(list) /\ n \in Nat /\ (IsIoctl => n <= Cardinality(ListedOf(DOMAIN host.names)))
    BY SystemIs
<1>3. buf_len \in Nat /\ BufferRoom <= buf_len /\ BufferRoom \in Nat
    BY ListHostsAre DEF ListPlaces
<1> HIDE DEF list, n
<1>4. IsIoctl => n <= buf_len
    <2>1. CASE ~IsIoctl
        BY <2>1
    <2>2. CASE IsIoctl /\ host.fills
        BY <1>1, <1>2, <1>3, <2>2 DEF Listing!IsFull, Listing!System, IsIoctl
    <2>3. CASE IsIoctl /\ Cardinality(ListedOf(DOMAIN host.names)) <= BufferRoom
        <3>1. Cardinality(ListedOf(DOMAIN host.names)) \in Nat
            <4>1. IsFiniteSet(DOMAIN host.names) /\ ListedOf(DOMAIN host.names) \in SUBSET DOMAIN host.names
                BY ListHostsAre DEF ListPlaces, ListedOf
            <4> QED
                BY <4>1, FS_Subset, FS_CardinalityType
        <3> QED
            BY <1>2, <1>3, <2>3, <3>1
    <2> QED
        BY <2>1, <2>2, <2>3 DEF WholeLists, IsIoctl
<1>5. Listing!Fitting(n, buf_len) = n
    BY <1>2, <1>3, <1>4 DEF Listing!Fitting, Listing!System, IsIoctl
<1>6. entries' \in SUBSET list /\ Cardinality(list) = Cardinality(entries')
    BY <1>1, <1>5 DEF n
<1>7. entries' = list
    BY <1>2, <1>6, FS_Subset
<1> QED
    BY <1>7 DEF list

LEMMA TakeKeeps ==
    ASSUME ListPlaces, ListHand, ListResult, ListNow, SameCall, Listing!List
    PROVE  ListThen
<1>1. /\ pc = "list" /\ pc' = "filter" /\ result' = result /\ result = "none"
      /\ interface_addresses' = << >> /\ out_count' = 0 /\ entries' \in SUBSET Listing!SystemList
    BY DEF Listing!List, ListHand, ListResult
<1>2. /\ Listing!SystemList \in SUBSET [owner : up, family : Listing!Families]
      /\ \A e \in Listing!SystemList : e.family \in host.addresses[e.owner] /\ Listing!SystemLists(e.family)
      /\ \A i \in up, f \in Listing!Families :
            f \in host.addresses[i] /\ Listing!SystemLists(f) => Entry(i, f) \in Listing!SystemList
    BY SystemIs
<1>3. ListPlaces'
    <2>1. \A e \in entries' : e \in Listing!SystemList
        BY <1>1
    <2>2. Listing!Calls' = Listing!Calls /\ Listing!OneOfAName(up)' = Listing!OneOfAName(up)
        BY DEF SameCall, Listing!Calls, Listing!Ids, Listing!OneOfAName, Listing!NameOf
    <2>3. \A f : Listing!SystemLists(f)' = Listing!SystemLists(f)
        BY DEF SameCall, Listing!SystemLists, Listing!System
    <2>4. \A i, j \in up : host.names[i] = host.names[j] => i = j
        BY DEF ListPlaces, Listing!OneOfAName, Listing!NameOf
    <2>5. entries' \in SUBSET [owner : up, family : Listing!Families] /\ Owners' \in SUBSET up
        BY <1>2, <2>1 DEF Owners
    <2>6. \A d, e \in entries' : host.names[d.owner] = host.names[e.owner] => d.owner = e.owner
        BY <2>4, <2>5
    <2>7. entries' \in SUBSET [owner : DOMAIN host.names, family : Listing!Families]
        BY <2>5 DEF ListPlaces
    <2>8. \A e \in entries' : e.family \in host.addresses[e.owner] /\ Listing!SystemLists(e.family)'
        BY <1>2, <2>1, <2>3
    <2> QED
        BY <2>2, <2>5, <2>6, <2>7, <2>8 DEF ListPlaces, SameCall
<1>4. ListHand' /\ ListResult'
    BY <1>1 DEF ListHand, ListResult
<1>5. WholeLists' => Settled' = {}
    <2> SUFFICES ASSUME WholeLists, NEW e \in Listing!KnownOf(steady)', Entry(e.owner, e.family) \notin Todo'
                 PROVE  FALSE
        BY WholeStays DEF Settled, SameCall
    <2>1. e.owner \in up /\ e.family \in Listing!Supported /\ Wants(e.owner, e.family)'
        BY KnownThen DEF KnownSays, SameCall, ListPlaces
    <2>2. /\ e.family \in host.addresses[e.owner]
          /\ IsIoctl => "ip4" \in host.addresses[e.owner] /\ e.family # "ip6"
          /\ IsWin32 => e.family # "packet"
        BY <2>1 DEF Wants, SameCall, IsIoctl, IsWin32
    <2>3. entries' = Listing!SystemList /\ e.family \in Listing!Families /\ "ip4" \in Listing!Families
        BY <2>1, WholeIsTaken DEF Listing!Supported, Listing!Families
    <2>4. CASE IsIoctl
        <3>1. Listing!SystemLists("ip4") /\ e.family \in {"ip4", "packet"}
            BY <2>1, <2>2, <2>4 DEF Listing!SystemLists, Listing!System, IsIoctl, Listing!Supported
        <3>2. Entry(e.owner, "ip4") \in entries'
            BY <1>2, <2>1, <2>2, <2>3, <2>4, <3>1
        <3>3. e.owner \in Owners'
            BY <3>2 DEF Owners, Entry
        <3>4. Todo' = [owner : Owners', family : {"ip4", "packet"}]
            BY <1>1, <2>4 DEF Todo, IsIoctl, SameCall
        <3> QED
            BY <3>1, <3>3, <3>4 DEF Entry
    <2>5. CASE ~IsIoctl
        <3>1. Listing!SystemLists(e.family)
            <4>1. host.system \in {"getifaddrs", "ioctl", "win32"}
                BY ListHostsAre DEF ListPlaces
            <4> QED
                BY <2>2, <2>5, <4>1 DEF Listing!SystemLists, Listing!System, IsIoctl, IsWin32
        <3>2. Todo' = entries'
            BY <2>5 DEF Todo, IsIoctl, SameCall
        <3> QED
            BY <1>2, <2>1, <2>2, <2>3, <3>1, <3>2
    <2> QED
        BY <2>4, <2>5
<1>6. ListNow'
    BY <1>1, <1>3, <1>5, NothingIsDone
<1> QED
    BY <1>3, <1>4, <1>6 DEF ListThen

LEMMA ListFailsKeeps ==
    ASSUME ListPlaces, ListHand, ListResult, ListNow, SameCall, Listing!ListFails
    PROVE  ListThen
<1>1. /\ pc = "list" /\ pc' = "returned" /\ result' \in {"system", "memory"} /\ entries' = entries
      /\ interface_addresses' = << >> /\ out_count' = 0
    BY DEF Listing!ListFails, ListHand
<1>2. ListPlaces'
    BY <1>1, PlacesStay
<1>3. ListHand' /\ ListResult' /\ ~ListBegun'
    BY <1>1 DEF ListHand, ListResult, ListBegun
<1> QED
    BY <1>1, <1>2, <1>3, NothingIsDone DEF ListThen

LEMMA GrowKeepsList ==
    ASSUME ListPlaces, ListHand, ListResult, ListNow, Listing!Grow, UNCHANGED <<Listing!interfaceVars, call, still>>
    PROVE  ListThen
<1>1. /\ pc = "list" /\ pc' = "list" /\ result' = result /\ result = "none" /\ entries' = entries
      /\ interface_addresses' = << >> /\ out_count' = 0 /\ buf_len' = 2 * buf_len
      /\ host' = host /\ up' = up /\ steady' = steady /\ still' = still /\ call' = call
    BY DEF Listing!Grow, ListHand, ListResult, Listing!interfaceVars
<1>2. ListPlaces'
    <2>1. Listing!Calls' = Listing!Calls /\ Listing!OneOfAName(up)' = Listing!OneOfAName(up)
        BY <1>1 DEF Listing!Calls, Listing!Ids, Listing!OneOfAName, Listing!NameOf
    <2>2. \A f : Listing!SystemLists(f)' = Listing!SystemLists(f)
        BY <1>1 DEF Listing!SystemLists, Listing!System
    <2>3. Owners' = Owners
        BY <1>1 DEF Owners
    <2>4. buf_len' \in Nat /\ BufferRoom <= buf_len'
        BY <1>1, ListHostsAre DEF ListPlaces
    <2> QED
        BY <1>1, <2>1, <2>2, <2>3, <2>4 DEF ListPlaces
<1>3. ListHand' /\ ListResult' /\ ~ListBegun'
    BY <1>1 DEF ListHand, ListResult, ListBegun
<1> QED
    BY <1>1, <1>2, <1>3, NothingIsDone DEF ListThen

\* An interface that comes or goes takes nothing from what is told.
LEMMA MovesKeepList ==
    ASSUME ListPlaces, ListHand, ListResult, ListNow, Listing!Environment
    PROVE  ListThen
<1>1. /\ pc' = pc /\ call' = call /\ entries' = entries /\ id' = id /\ interface_addresses' = interface_addresses
      /\ out_count' = out_count /\ result' = result /\ still' = FALSE /\ buf_len' = buf_len
    BY DEF Listing!Environment
<1>2. PICK i \in DOMAIN host.names : Listing!Appear(i) \/ Listing!Vanish(i)
    BY DEF Listing!Environment, Listing!Change, Listing!Ids
<1>3. /\ host' = host /\ steady' \in SUBSET steady /\ steady' \in SUBSET up'
      /\ up' \in SUBSET DOMAIN host.names /\ Listing!OneOfAName(up')
    <2>1. CASE Listing!Appear(i)
        BY <2>1 DEF Listing!Appear, ListPlaces
    <2>2. CASE Listing!Vanish(i)
        BY <2>2 DEF Listing!Vanish, ListPlaces, Listing!OneOfAName
    <2> QED
        BY <1>2, <2>1, <2>2
<1>4. ListPlaces'
    <2>1. Listing!Calls' = Listing!Calls /\ Listing!OneOfAName(up)' = Listing!OneOfAName(up')
        BY <1>3 DEF Listing!Calls, Listing!Ids, Listing!OneOfAName, Listing!NameOf
    <2>2. \A f : Listing!SystemLists(f)' = Listing!SystemLists(f)
        BY <1>3 DEF Listing!SystemLists, Listing!System
    <2> QED
        BY <1>1, <1>3, <2>1, <2>2 DEF ListPlaces
<1>5. Listing!This' = Listing!This /\ Todo' = Todo
    BY <1>1, <1>3 DEF Listing!This, Todo, Owners, IsIoctl
<1>6. ListHand'
    BY <1>1, <1>3, <1>5 DEF ListHand, IsIoctl, IsWin32, Listing!FamilyFits, Listing!InterfaceFits
<1>7. ListResult'
    BY <1>1, <1>5 DEF ListResult
<1>8. ListTold'
    BY <1>1, <1>3, <1>5 DEF ListNow, ListTold, Element, Same, IsWin32, Listing!OneOfAName, Listing!NameOf
<1>9. ListBegun' => ListCounted'
    <2> SUFFICES ASSUME ListBegun PROVE ListCounted'
        BY <1>1 DEF ListBegun
    <2>1. ListCounted
        BY DEF ListNow
    <2>2. \A e \in Listing!KnownOf(steady)' : e \in Listing!KnownOf(steady)
        <3>1. \A e \in Listing!KnownOf(steady)' : e \in Listing!KnownOf(steady')
            BY <1>1, <1>3, KnownStays
        <3>2. \A e \in Listing!KnownOf(steady') : e \in Listing!KnownOf(steady)
            BY <1>3, KnownIs DEF KnownSays
        <3> QED
            BY <3>1, <3>2
    <2>3. Settled' \in SUBSET Settled
        BY <1>5, <2>2 DEF Settled
    <2>4. IsFiniteSet(Settled) /\ Cardinality(Settled) \in Nat
        BY DoneIsFinite
    <2>5. Cardinality(Settled') \in Nat /\ Cardinality(Settled') <= Cardinality(Settled)
        BY <2>3, <2>4, FS_Subset, FS_CardinalityType
    <2>6. out_count \in Nat
        BY DEF ListNow, ListTold
    <2>7. IsWin32' = IsWin32 /\ WholeLists' = WholeLists
        BY <1>3, WholeStays DEF IsWin32
    <2> QED
        BY <1>1, <2>1, <2>3, <2>4, <2>5, <2>6, <2>7 DEF ListCounted
<1> QED
    BY <1>4, <1>6, <1>7, <1>8, <1>9 DEF ListThen, ListNow

LEMMA ListInvIsInductive ==
    /\ SocketInit => ListInv
    /\ ListInv /\ [SocketNext]_socketVars => ListInv'
<1>1. SocketInit => ListInv
    <2> SUFFICES ASSUME SocketInit, matter = "list"
                 PROVE  ListPlaces /\ ListHand /\ ListResult /\ ListNow
        BY DEF ListInv
    <2>1. /\ host \in ListHosts /\ up \in SUBSET DOMAIN host.names /\ Listing!OneOfAName(up) /\ steady = up
          /\ pc = "returned" /\ call \in Listing!Calls /\ entries = {} /\ interface_addresses = << >>
          /\ out_count = 0 /\ result = "none" /\ still = TRUE /\ buf_len = BufferRoom
        BY DEF SocketInit, Listing!Init, Listing!InterfacesInit, Listing!Ids
    <2>2. ListPlaces
        BY <2>1, ListHostsAre DEF ListPlaces, Owners
    <2>3. call.capacity \in Nat \cup {-1}
        BY <2>1, ListHostsAre DEF Listing!Calls
    <2>4. << >> \in Seq(Element) /\ Len(<< >>) = 0
        BY EmptySeq
    <2>5. ListTold
        BY <2>1, <2>3, <2>4 DEF ListTold
    <2> QED
        BY <2>1, <2>2, <2>5 DEF ListHand, ListResult, ListNow, ListBegun
<1>2. ASSUME ListInv, [SocketNext]_socketVars
      PROVE  ListInv'
    <2> SUFFICES ASSUME matter' = "list"
                 PROVE  ListThen
        BY DEF ListInv, ListThen
    <2>1. matter = "list" /\ ListPlaces /\ ListHand /\ ListResult /\ ListNow
        BY <1>2 DEF SocketNext, socketVars, ListInv
    <2>2. CASE Listing!Next
        <3>1. CASE Listing!Step
            <4>1. CASE Listing!Grow
                BY <2>1, <3>1, <4>1, GrowKeepsList DEF Listing!Step
            <4>2. CASE ~Listing!Grow
                <5>1. SameCall
                    BY <3>1, <4>2 DEF Listing!Step, Listing!List, Listing!ListFails, Listing!interfaceVars, SameCall
                <5> QED
                    BY <2>1, <3>1, <4>2, <5>1, TakeKeeps, ListFailsKeeps, Win32Keeps, FilterKeeps, FillKeeps,
                       FilterIoctlKeeps, Ip4Keeps, PacketKeeps, ReturnKeeps DEF Listing!Step
            <4> QED
                BY <4>1, <4>2
        <3> QED
            BY <2>1, <2>2, <3>1, BeginKeepsList, MovesKeepList DEF Listing!Next
    <2>3. CASE UNCHANGED socketVars
        <3>1. /\ SameCall /\ pc' = pc /\ entries' = entries /\ id' = id /\ out_count' = out_count
              /\ interface_addresses' = interface_addresses /\ result' = result
            BY <2>3 DEF socketVars, interfaceVars, listVars, SameCall
        <3>2. Todo' = Todo /\ Listing!This' = Listing!This /\ ListPlaces'
            BY <2>1, <3>1, PlacesStay DEF Todo, Owners, SameCall, IsIoctl, Listing!This
        <3>3. ListHand'
            BY <2>1, <3>1, <3>2 DEF ListHand, SameCall, IsIoctl, IsWin32, Listing!FamilyFits, Listing!InterfaceFits
        <3>4. ListResult'
            BY <2>1, <3>1, <3>2 DEF ListResult, SameCall
        <3>5. ListNow'
            <4>1. \A ids : Listing!KnownOf(ids)' = Listing!KnownOf(ids)
                BY <3>1, KnownStays DEF SameCall
            <4>2. ListTold'
                BY <2>1, <3>1, <3>2, <4>1
                   DEF ListNow, ListTold, SameCall, IsWin32, Listing!OneOfAName, Listing!NameOf, Same, Element
            <4>3. Settled' = Settled
                BY <3>1, <3>2, <4>1 DEF Settled, SameCall
            <4>4. ListBegun' => ListCounted'
                BY <2>1, <3>1, <4>3, WholeStays DEF ListNow, ListBegun, ListCounted, SameCall, IsWin32
            <4> QED
                BY <4>2, <4>4 DEF ListNow
        <3> QED
            BY <3>2, <3>3, <3>4, <3>5 DEF ListThen
    <2> QED
        BY <1>2, <2>1, <2>2, <2>3 DEF SocketNext
<1> QED
    BY <1>1, <1>2

LEMMA ListImplies == ListInv /\ matter = "list" => Listing!ListIsTrue
<1> SUFFICES ASSUME ListPlaces, ListHand, ListResult, ListNow
             PROVE  Listing!ListIsTrue
    BY DEF ListInv
<1>1. /\ interface_addresses \in Seq(Element) /\ DOMAIN interface_addresses = 1 .. Len(interface_addresses)
      /\ IsWin32 = (Listing!System = "win32")
    BY DEF ListNow, ListTold, IsWin32, Listing!System
<1>2. Listing!ListsAreWhole => WholeLists
    BY CardinalityOfList
       DEF WholeLists, Listing!ListsAreWhole, Listing!System, Listing!Ids, Listing!Addresses, ListedOf, HasIp4
<1>3. ASSUME pc = "returned", result = "success"
      PROVE  /\ Listing!KnownOf(steady) = Settled /\ ListCounted
    <2>1. Todo = {}
        BY <1>3 DEF ListResult
    <2>2. Settled = Listing!KnownOf(steady)
        BY <2>1 DEF Settled
    <2>3. ListCounted
        BY <1>3 DEF ListNow, ListBegun
    <2> QED
        BY <2>2, <2>3
<1>4. Listing!CountIsTotal
    <2> SUFFICES ASSUME pc = "returned", result \notin {"none", "system", "memory"}, still
                 PROVE  /\ result = "success"
                        /\ Listing!System # "win32" /\ Listing!ListsAreWhole =>
                              out_count = Listing!Cardinality(Listing!KnownOf(up))
                        /\ Listing!ToSet(interface_addresses) \subseteq Listing!KnownOf(up)
                        /\ call.capacity # -1 =>
                              Len(interface_addresses) = (IF call.capacity < out_count THEN call.capacity ELSE out_count)
        BY DEF Listing!CountIsTotal
    <2>1. result = "success"
        BY DEF ListResult
    <2>2. up = steady
        BY DEF ListPlaces
    <2>3. ~IsWin32 /\ WholeLists => out_count = Cardinality(Listing!KnownOf(up))
        <3>1. ~IsWin32 /\ WholeLists => out_count = Cardinality(Settled)
            BY <1>3, <2>1 DEF ListCounted
        <3> QED
            BY <1>3, <2>1, <2>2, <3>1
    <2>4. Listing!ToSet(interface_addresses) \subseteq Listing!KnownOf(up)
        BY <1>1 DEF ListNow, ListTold, Listing!ToSet
    <2>5. Listing!Cardinality(Listing!KnownOf(up)) = Cardinality(Listing!KnownOf(up))
        BY CardinalityOfList
    <2> QED
        BY <1>1, <1>2, <2>1, <2>3, <2>4, <2>5 DEF ListNow, ListTold
<1>5. Listing!EntriesAreTrue
    BY <1>1 DEF ListNow, ListTold, Listing!EntriesAreTrue, Listing!Ids
<1>6. Listing!SteadyIsListed
    <2> SUFFICES ASSUME pc = "returned", result = "success"
                 PROVE  /\ Listing!ListsAreWhole =>
                              /\ Len(interface_addresses) < call.capacity =>
                                    Listing!KnownOf(steady) \subseteq Listing!ToSet(interface_addresses)
                              /\ Listing!System = "win32" \/ out_count >= Listing!Cardinality(Listing!KnownOf(steady))
                        /\ Listing!IsInjective(interface_addresses)
        BY DEF Listing!SteadyIsListed
    <2>1. WholeLists /\ Len(interface_addresses) < call.capacity =>
             Listing!KnownOf(steady) \subseteq Listing!ToSet(interface_addresses)
        BY <1>1, <1>3 DEF ListCounted, Listing!ToSet
    <2>2. Listing!Cardinality(Listing!KnownOf(steady)) = Cardinality(Listing!KnownOf(steady))
        BY CardinalityOfList
    <2>3. Listing!IsInjective(interface_addresses)
        BY <1>1 DEF ListNow, ListTold, Same, Listing!IsInjective
    <2>4. WholeLists /\ ~IsWin32 => out_count >= Cardinality(Listing!KnownOf(steady))
        BY <1>3 DEF ListCounted
    <2> QED
        BY <1>1, <1>2, <2>1, <2>2, <2>3, <2>4
<1> QED
    BY <1>4, <1>5, <1>6 DEF Listing!ListIsTrue

\* A packet socket is bound to the interface that was named, where the system
\* has indexes, and an interface that is there all the time is found, where the
\* list cannot outgrow the second array (tinycsocket.h:782, 814); a list of
\* addresses is true and complete and none is told twice (1798, 1805), but for
\* what Windows and a fallback on a 64-bit system leave out: for any
\* interfaces, names and addresses, whatever comes and goes.
THEOREM InterfacesAreTold == SocketSpec => []InterfacesAreTrue
<1>1. SocketInit => NameInv /\ ListInv
    BY NameInvIsInductive, ListInvIsInductive
<1>2. NameInv /\ ListInv /\ [SocketNext]_socketVars => NameInv' /\ ListInv'
    BY NameInvIsInductive, ListInvIsInductive
<1>3. NameInv /\ ListInv => InterfacesAreTrue
    BY NameImplies, ListImplies DEF InterfacesAreTrue
<1> QED
    BY <1>1, <1>2, <1>3, PTL DEF SocketSpec
=============================================================================
