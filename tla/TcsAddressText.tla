--------------------------- MODULE TcsAddressText ---------------------------
(***************************************************************************)
(* tcs_address_parse and tcs_address_to_str for IPv6: the table-driven     *)
(* parser, one character at a time, and the printer that shortens the      *)
(* longest run of zeros.  A text is a given one, or any that the parser    *)
(* goes on reading; the IPv4 and MAC texts, which are left to sscanf, are  *)
(* only told apart.                                                        *)
(*                                                                         *)
(* Characters are numbers: 0 .. 15 are the hexadecimal digits.             *)
(***************************************************************************)
EXTENDS Integers, Sequences, SequencesExt, FiniteSets

CONSTANTS
    GroupCount,         \* the groups of an address, 8
    MaxPort, MaxScope,  \* UINT16_MAX, UINT32_MAX
    Addresses,          \* the addresses whose texts are parsed, or none
    Alphabet,           \* if none, the characters of the texts
    MaxLength           \* bound: of those texts

Colon == 16
Dot == 17
Percent == 18
LBracket == 19
RBracket == 20
Nul == 21

TextAssumption ==
    /\ GroupCount \in Nat /\ GroupCount > 2 /\ MaxPort \in Nat /\ MaxScope \in Nat
    /\ Alphabet \subseteq 0 .. 20 /\ MaxLength \in Nat

VARIABLES
    address,            \* what a given text stands for
    text,               \* str, as far as it is known
    at,                 \* the character to read next
    ctx,                \* the parser
    result              \* the address that was parsed, or why there is none

vars == <<address, text, at, ctx, result>>

Start ==
    [state |-> "START", groups |-> << >>, gap_pos |-> -1, hex_val |-> 0, dec_val |-> 0, digits |-> 0,
     port_val |-> 0, scope_id |-> 0, octets |-> << >>, in_bracket |-> FALSE]

\* cc_lut.
Class(c) ==
    CASE c \in 0 .. 9 -> "DIGIT" [] c \in 10 .. 15 -> "HEX" [] c = Colon -> "COLON" [] c = Dot -> "DOT"
      [] c = Percent -> "PERCENT" [] c = LBracket -> "LBRACKET" [] c = RBracket -> "RBRACKET" [] c = Nul -> "NUL"

\* Where a number of a group begins or goes on.
Number == {<<"DIGIT", "HEX_DEC", "HEX_DEC_ACCUM">>, <<"HEX", "HEX", "HEX_ACCUM">>}
GroupEnd == {<<"COLON", "COLON", "COMMIT">>, <<"PERCENT", "PERCENT", "COMMIT">>,
             <<"RBRACKET", "RBRACKET", "COMMIT_BRACKET">>, <<"NUL", "ACCEPT", "COMMIT">>}

\* dfa_table: for a state, the class read, the next state and the action;
\* every other class is rejected.
dfa_table ==
    [START |-> Number \cup {<<"COLON", "COLON", "NONE">>, <<"LBRACKET", "BRACKET", "OPEN_BRACKET">>},
     BRACKET |-> Number \cup {<<"COLON", "COLON", "NONE">>},
     HEX |-> GroupEnd \cup {<<"DIGIT", "HEX", "HEX_ACCUM">>, <<"HEX", "HEX", "HEX_ACCUM">>},
     HEX_DEC |-> Number \cup GroupEnd \cup {<<"DOT", "DOT", "START_IPV4">>},
     COLON |-> Number \cup {<<"COLON", "DCOLON", "SET_GAP">>},
     DCOLON |-> Number \cup {<<"RBRACKET", "RBRACKET", "CHECK_BRACKET">>, <<"NUL", "ACCEPT", "NONE">>},
     DOT |-> {<<"DIGIT", "IPV4", "IPV4_ACCUM">>},
     IPV4 |-> {<<"DIGIT", "IPV4", "IPV4_ACCUM">>, <<"DOT", "DOT", "IPV4_DOT">>, <<"PERCENT", "PERCENT", "IPV4_DONE">>,
               <<"RBRACKET", "RBRACKET", "IPV4_DONE_BRACKET">>, <<"NUL", "ACCEPT", "IPV4_DONE">>},
     RBRACKET |-> {<<"COLON", "PORT_COLON", "NONE">>, <<"NUL", "ACCEPT", "NONE">>},
     PORT_COLON |-> {<<"DIGIT", "PORT", "PORT_ACCUM">>},
     PORT |-> {<<"DIGIT", "PORT", "PORT_ACCUM">>, <<"NUL", "ACCEPT", "NONE">>},
     PERCENT |-> {<<"DIGIT", "SCOPE", "SCOPE_ACCUM">>},
     SCOPE |-> {<<"DIGIT", "SCOPE", "SCOPE_ACCUM">>, <<"RBRACKET", "RBRACKET", "SCOPE_BRACKET">>, <<"NUL", "ACCEPT", "NONE">>},
     ACCEPT |-> {}, REJECT |-> {}]

Accumulated(x, c) == [x EXCEPT !.hex_val = 16 * @ + c, !.digits = @ + 1]

Committed(x) == [x EXCEPT !.groups = Append(@, x.hex_val), !.hex_val = 0, !.dec_val = 0, !.digits = 0]

Done(x) == [x EXCEPT !.groups = @ \o <<256 * x.octets[1] + x.octets[2], 256 * x.octets[3] + x.dec_val>>]

HasRoom(x, n) == Len(x.groups) + n <= GroupCount

\* When an action refuses the text.
Refuses(action, x, c) ==
    CASE action \in {"HEX_ACCUM", "HEX_DEC_ACCUM"} -> x.digits + 1 > 4
      [] action = "COMMIT" -> ~HasRoom(x, 1)
      [] action = "COMMIT_BRACKET" -> ~x.in_bracket \/ ~HasRoom(x, 1)
      [] action = "SET_GAP" -> x.gap_pos >= 0
      [] action \in {"CHECK_BRACKET", "SCOPE_BRACKET"} -> ~x.in_bracket
      [] action = "START_IPV4" -> x.dec_val > 255
      [] action = "IPV4_ACCUM" -> 10 * x.dec_val + c > 255
      [] action = "IPV4_DOT" -> Len(x.octets) >= 4
      [] action \in {"IPV4_DONE", "IPV4_DONE_BRACKET"} ->
            Len(x.octets) # 3 \/ ~HasRoom(x, 2) \/ (action = "IPV4_DONE_BRACKET" /\ ~x.in_bracket)
      [] action = "PORT_ACCUM" -> 10 * x.port_val + c > MaxPort
      [] action = "SCOPE_ACCUM" -> 10 * x.scope_id + c > MaxScope
      [] OTHER -> FALSE

\* What an action does.
Effect(action, x, c) ==
    CASE action = "OPEN_BRACKET" -> [x EXCEPT !.in_bracket = TRUE]
      [] action = "HEX_ACCUM" -> Accumulated(x, c)
      [] action = "HEX_DEC_ACCUM" -> [Accumulated(x, c) EXCEPT !.dec_val = 10 * @ + c]
      [] action = "COMMIT" -> Committed(x)
      [] action = "COMMIT_BRACKET" -> [Committed(x) EXCEPT !.in_bracket = FALSE]
      [] action = "SET_GAP" -> [x EXCEPT !.gap_pos = Len(x.groups)]
      [] action \in {"CHECK_BRACKET", "SCOPE_BRACKET"} -> [x EXCEPT !.in_bracket = FALSE]
      [] action = "START_IPV4" -> [x EXCEPT !.octets = <<x.dec_val>>, !.dec_val = 0, !.hex_val = 0, !.digits = 0]
      [] action = "IPV4_ACCUM" -> [x EXCEPT !.dec_val = 10 * @ + c]
      [] action = "IPV4_DOT" -> [x EXCEPT !.octets = Append(@, x.dec_val), !.dec_val = 0]
      [] action = "IPV4_DONE" -> Done(x)
      [] action = "IPV4_DONE_BRACKET" -> [Done(x) EXCEPT !.in_bracket = FALSE]
      [] action = "PORT_ACCUM" -> [x EXCEPT !.port_val = 10 * @ + c]
      [] action = "SCOPE_ACCUM" -> [x EXCEPT !.scope_id = 10 * @ + c]
      [] OTHER -> x

\* One character is read.
Read(x, c) ==
    LET entries == {e \in dfa_table[x.state] : e[1] = Class(c)} IN
    IF entries = {} THEN [x EXCEPT !.state = "REJECT"]
    ELSE LET e == CHOOSE e \in entries : TRUE
         IN  IF Refuses(e[3], x, c) THEN [x EXCEPT !.state = "REJECT"]
             ELSE [Effect(e[3], x, c) EXCEPT !.state = e[2]]

\* What a look at the dots and colons makes of a text.
CountOf(c) == Cardinality({k \in DOMAIN text : text[k] = c})
DoubleColons == Cardinality({k \in DOMAIN text : k > 1 /\ text[k] = Colon /\ text[k - 1] = Colon})
is_ipv4 == CountOf(Dot) = 3 /\ CountOf(Colon) <= 1
is_mac == CountOf(Colon) = 5 /\ DoubleColons = 0
is_ipv6 == ~is_ipv4 /\ ~is_mac /\ CountOf(Colon) > 1 /\ DoubleColons <= 1

Zeros(n) == [k \in 1 .. n |-> 0]

\* Mutant: the gap is put at the end.
ExpandedAtEnd(x) == x.groups \o Zeros(GroupCount - Len(x.groups))

Expanded(x) ==
    SubSeq(x.groups, 1, x.gap_pos) \o Zeros(GroupCount - Len(x.groups))
        \o SubSeq(x.groups, x.gap_pos + 1, Len(x.groups))

Address(groups, port, scope) == [groups |-> groups, port |-> port, scope |-> scope]
NoAddress == Address(<< >>, 0, 0)

\* The address without a family, which is what an empty text is parsed as.
TCS_ADDRESS_NONE == Address(<<-1>>, 0, 0)

\* The checks after the last character.
Outcome(x) ==
    IF ~is_ipv6 \/ x.state # "ACCEPT" \/ x.in_bracket THEN NoAddress
    ELSE IF x.gap_pos < 0
    THEN IF Len(x.groups) = GroupCount THEN Address(x.groups, x.port_val, x.scope_id) ELSE NoAddress
    ELSE IF Len(x.groups) < GroupCount THEN Address(Expanded(x), x.port_val, x.scope_id) ELSE NoAddress

-----------------------------------------------------------------------------
(* The printer.                                                            *)

\* v in digits of a base.
Digits(v, base) ==
    LET width == CHOOSE w \in 1 .. 32 : v < base^w /\ (w > 1 => v >= base^(w - 1))
    IN  [k \in 1 .. width |-> (v \div base^(width - k)) % base]

\* The first of the longest runs of zeros, if it has two at least.
LongestRun(groups) ==
    LET runs == {r \in (DOMAIN groups) \X (DOMAIN groups) : r[1] < r[2] /\ \A k \in r[1] .. r[2] : groups[k] = 0}
        best == {r \in runs : \A q \in runs : q[2] - q[1] <= r[2] - r[1]}
    IN  IF runs = {} THEN <<0, 0>> ELSE CHOOSE r \in best : \A q \in best : r[1] <= q[1]

\* Groups with a colon between them.
Joined(groups) ==
    FlattenSeq([k \in DOMAIN groups |-> (IF k > 1 THEN <<Colon>> ELSE << >>) \o Digits(groups[k], 16)])

\* The groups, those of a run left out.
Shortened(groups, run) ==
    IF run = <<0, 0>> THEN Joined(groups)
    ELSE Joined(SubSeq(groups, 1, run[1] - 1)) \o <<Colon, Colon>> \o Joined(SubSeq(groups, run[2] + 1, Len(groups)))

\* A body with the scope and the port around it.
Wrapped(body, a) ==
    LET scoped == body \o (IF a.scope # 0 THEN <<Percent>> \o Digits(a.scope, 10) ELSE << >>)
    IN  IF a.port # 0 THEN <<LBracket>> \o scoped \o <<RBracket, Colon>> \o Digits(a.port, 10) ELSE scoped

tcs_address_to_str(a) == Wrapped(Shortened(a.groups, LongestRun(a.groups)), a)

-----------------------------------------------------------------------------
(* What a text stands for, after RFC 4291, 3986 and 4007.                  *)

Value(s, base) == FoldLeft(LAMBDA v, c : base * v + c, 0, s)
IsHex(s, v) == Len(s) \in 1 .. 4 /\ (\A k \in DOMAIN s : s[k] \in 0 .. 15) /\ Value(s, 16) = v
IsDecimal(s, v) == s # << >> /\ (\A k \in DOMAIN s : s[k] \in 0 .. 9) /\ Value(s, 10) = v

\* The pieces of s between the separators.
Pieces(s, separator) ==
    FoldLeft(LAMBDA p, c : IF c = separator THEN Append(p, << >>) ELSE [p EXCEPT ![Len(p)] = Append(@, c)],
             <<<< >>>>, s)

IsDotted(s, hi, lo) ==
    LET p == Pieces(s, Dot) IN
    /\ Len(p) = 4
    /\ IsDecimal(p[1], hi \div 256) /\ IsDecimal(p[2], hi % 256) /\ IsDecimal(p[3], lo \div 256) /\ IsDecimal(p[4], lo % 256)

AreGroups(s, groups) ==
    LET p == Pieces(s, Colon) IN
    IF groups = << >> THEN s = << >> ELSE Len(p) = Len(groups) /\ \A k \in DOMAIN p : IsHex(p[k], groups[k])

\* The end of an address may be an IPv4 address.
AreLastGroups(s, groups) ==
    \/ AreGroups(s, groups)
    \/ LET p == Pieces(s, Colon)
           n == Len(groups)
       IN  /\ n >= 2 /\ Len(p) = n - 1 /\ IsDotted(Last(p), groups[n - 1], groups[n])
           /\ \A k \in 1 .. n - 2 : IsHex(p[k], groups[k])

IsBody(s, groups) ==
    \/ AreLastGroups(s, groups)
    \/ \E k \in 1 .. Len(s) - 1, m \in 0 .. GroupCount - 1 : \E n \in 0 .. GroupCount - 1 - m :
          /\ s[k] = Colon /\ s[k + 1] = Colon
          /\ AreGroups(SubSeq(s, 1, k - 1), SubSeq(groups, 1, m))
          /\ AreLastGroups(SubSeq(s, k + 2, Len(s)), SubSeq(groups, GroupCount - n + 1, GroupCount))
          /\ \A g \in m + 1 .. GroupCount - n : groups[g] = 0

\* s is a scope and what closes a bracket.
IsTrailer(s, bracketed, a) ==
    \E k \in 0 .. Len(s) :
        LET zone == SubSeq(s, 1, k)
            rest == SubSeq(s, k + 1, Len(s))
        IN  /\ IF zone = << >> THEN a.scope = 0 ELSE zone[1] = Percent /\ IsDecimal(Tail(zone), a.scope)
            /\ \/ ~bracketed /\ rest = << >> /\ a.port = 0
               \/ bracketed /\ rest = <<RBracket>> /\ a.port = 0
               \/ bracketed /\ IsPrefix(<<RBracket, Colon>>, rest) /\ IsDecimal(SubSeq(rest, 3, Len(rest)), a.port)

Means(s, a) ==
    /\ Len(a.groups) = GroupCount
    /\ \E bracketed \in BOOLEAN, k \in 0 .. Len(s) :
          LET from == IF bracketed THEN 2 ELSE 1 IN
          /\ bracketed => s # << >> /\ s[1] = LBracket
          /\ IsBody(SubSeq(s, from, k), a.groups) /\ IsTrailer(SubSeq(s, k + 1, Len(s)), bracketed, a)

\* The ways to write an address: with any of its runs of zeros left out, or
\* with the last two groups as an IPv4 address, a scope or a port alone in
\* brackets too.  A scope after "::" is left out: the parser refuses it.
Dotted(groups) ==
    LET n == Len(groups) IN
    Joined(SubSeq(groups, 1, n - 2)) \o (IF n > 2 THEN <<Colon>> ELSE << >>)
        \o Digits(groups[n - 1] \div 256, 10) \o <<Dot>> \o Digits(groups[n - 1] % 256, 10)
        \o <<Dot>> \o Digits(groups[n] \div 256, 10) \o <<Dot>> \o Digits(groups[n] % 256, 10)

Runs(groups) ==
    {r \in (DOMAIN groups) \X (DOMAIN groups) : r[1] <= r[2] /\ \A k \in r[1] .. r[2] : groups[k] = 0} \cup {<<0, 0>>}

Bodies(a) ==
    {Shortened(a.groups, r) : r \in {q \in Runs(a.groups) : a.scope # 0 => q[2] # GroupCount}}
    \cup {Dotted(a.groups)}
    \cup {Joined(SubSeq(a.groups, 1, r[1] - 1)) \o <<Colon, Colon>> \o Dotted(SubSeq(a.groups, r[2] + 1, GroupCount)) :
             r \in {q \in Runs(a.groups) : q[1] > 0 /\ q[2] <= GroupCount - 2}}

Renderings(a) ==
    {Wrapped(b, a) : b \in Bodies(a)}
    \cup (IF a.port = 0 THEN {<<LBracket>> \o Wrapped(b, a) \o <<RBracket>> : b \in Bodies(a)} ELSE {})

-----------------------------------------------------------------------------
(* The parser at work.                                                     *)

Init ==
    /\ ctx = Start /\ result = NoAddress /\ at = 1
    /\ \/ Addresses = {} /\ text = << >> /\ address = NoAddress
       \/ address \in Addresses /\ text \in Renderings(address)

Reading == ctx.state \notin {"ACCEPT", "REJECT"}

ReadCharacter(c) == Reading /\ ctx' = Read(ctx, c) /\ at' = at + 1 /\ UNCHANGED <<address, result>>

\* The next character of a given text.
ReadGiven == at <= Len(text) /\ ReadCharacter(text[at]) /\ UNCHANGED text

\* The next character of a text that is not known yet.
ReadNext(c) ==
    /\ address = NoAddress /\ Len(text) < MaxLength
    /\ ReadCharacter(c) /\ text' = Append(text, c)

\* The text ends; an empty one is not read.
Finish ==
    /\ at > Len(text) /\ Reading /\ at' = at + 1
    /\ ctx' = Read(ctx, Nul) /\ result' = IF text = << >> THEN TCS_ADDRESS_NONE ELSE Outcome(ctx')
    /\ UNCHANGED <<address, text>>

Next == ReadGiven \/ (\E c \in Alphabet : ReadNext(c)) \/ Finish

Spec == Init /\ [][Next]_vars

-----------------------------------------------------------------------------
(* Correctness.                                                            *)

\* Every text that stands for an address is parsed as that address
\* (tinycsocket.h:1843), and what is printed is one of these texts, unless a
\* scope follows "::".
GivenIsParsed ==
    address # NoAddress =>
        /\ ~Reading => result = address
        /\ at = 1 /\ address.scope = 0 => tcs_address_to_str(address) \in Renderings(address)

\* The parser lets a lone colon at the beginning pass.
WithoutLoneColon(s) ==
    LET from == IF s[1] = LBracket THEN 2 ELSE 1
    IN  IF s[from] = Colon /\ s[from + 1] # Colon THEN SubSeq(s, 1, from - 1) \o SubSeq(s, from + 1, Len(s)) ELSE s

\* What is parsed stands for the address that comes of it, but for that
\* colon: nothing else slips through.
ParsedIsMeant == result \notin {NoAddress, TCS_ADDRESS_NONE} => Means(WithoutLoneColon(text), result)

(* The parser takes every text for the address it stands for and refuses   *)
(* what stands for none, and what the printer writes it reads again.       *)
AddressIsMeant == GivenIsParsed /\ ParsedIsMeant
=============================================================================
