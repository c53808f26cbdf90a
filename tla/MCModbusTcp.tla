---------------------------- MODULE MCModbusTcp ----------------------------
(***************************************************************************)
(* Small servers: each frame is one request of the kinds that take a       *)
(* different way through the code.                                         *)
(***************************************************************************)
EXTENDS ModbusTcp

\* The callbacks main passes to ModbusTcp_run.
MCCallbacks == {"read_discrete_inputs", "read_holding_registers", "read_input_registers",
                "write_single_register", "write_multiple_registers"}

Pdu(function, address, quantity, bytes) ==
    [function |-> function, address |-> address, quantity |-> quantity,
     write_address |-> 0, write_quantity |-> 1, bytes |-> bytes, value |-> 0, legal |-> TRUE]

WholeFrame(pdu) == [protocol |-> 0, length |-> 6, pdu |-> pdu]

ReadTorque    == WholeFrame(Pdu(3, 0, 1, 0))
WriteAndRead  == WholeFrame(Pdu(23, 0, 1, 2))
ReadException == [WholeFrame(Pdu(7, 0, 0, 0)) EXCEPT !.length = 2]
OtherProtocol == [ReadTorque EXCEPT !.protocol = 1]
TooShort      == [ReadTorque EXCEPT !.length = 1]

MCFewFrames == {WriteAndRead, ReadException}
MCGoodFrames == {ReadTorque}
MCUnknown == {WholeFrame(Pdu(7, 0, 0, 0))}

\* Every function, at and around each of its limits.
ReadPdus ==
    {Pdu(f, a, q, 0) : f \in {1, 2}, a \in {0, 63536, 63537}, q \in {0, 1, 7, 2000, 2001}}
        \cup {Pdu(f, a, q, 0) : f \in {3, 4}, a \in {0, 65411, 65412}, q \in {0, 1, 125, 126, 127}}
WritePdus ==
    {[Pdu(f, a, 1, 0) EXCEPT !.value = v] : f \in {5, 6}, a \in {0, 65535}, v \in {0, 1, 65280}}
        \cup {Pdu(15, 0, q, b) : q \in {0, 1, 8, 9, 1968, 1969}, b \in {0, 1, 2, 246, 247}}
        \cup {Pdu(16, a, q, b) : a \in {0, 65535}, q \in {0, 1, 2, 123, 124}, b \in {0, 2, 3, 246, 248}}
OtherPdus ==
    {[Pdu(f, 0, 0, b) EXCEPT !.legal = l] :
        f \in {20, 21}, b \in {0, 7, 8, 245, 252}, l \in BOOLEAN}
        \cup {[Pdu(23, a, q, b) EXCEPT !.write_address = w, !.write_quantity = wq] :
                 a \in {0, 65535}, q \in {0, 1, 125, 126}, b \in {2, 242, 246},
                 w \in {0, 65535}, wq \in {0, 1, 121, 123}}
        \cup {Pdu(43, 0, 0, 0), Pdu(7, 0, 0, 0)}
MCEveryFrame ==
    {WholeFrame(pdu) : pdu \in ReadPdus \cup WritePdus \cup OtherPdus}
        \cup {ReadException, OtherProtocol, TooShort}

MCCallbackErrors ==
    {NMBS_ERROR_NONE, NMBS_EXCEPTION_ILLEGAL_DATA_VALUE, NMBS_EXCEPTION_ILLEGAL_DATA_ADDRESS}

MCFewErrors == {NMBS_ERROR_NONE, NMBS_EXCEPTION_ILLEGAL_DATA_VALUE}

AllFail == SocketCalls
NoneFail == {}
=============================================================================
