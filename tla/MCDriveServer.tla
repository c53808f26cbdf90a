--------------------------- MODULE MCDriveServer ---------------------------
(* A motor of 2 Nm under clients that write, read and do both at once.     *)
EXTENDS DriveServer

McParameters == <<[num |-> 3, den |-> 2, scale |-> 1]>>

McCallbacks == {"read_discrete_inputs", "read_holding_registers", "read_input_registers",
                "write_single_register", "write_multiple_registers"}

McFrame(function, address, value) ==
    [protocol |-> 0, length |-> 6,
     pdu |-> [function |-> function, address |-> address, quantity |-> 1, write_address |-> 0,
              write_quantity |-> 1, bytes |-> 2, value |-> value, legal |-> TRUE]]

\* Writes of 1, -2 and 3 Nm, the last one too much; a write elsewhere; reads.
McWrites == {McFrame(6, 0, 1), McFrame(16, 0, 65534), McFrame(6, 0, 3), McFrame(6, 1, 2)}
McReads == {McFrame(3, 0, 0), McFrame(2, 0, 0)}

\* Function 23: its read allowed or refused, its write allowed or refused.
McBoth == {McFrame(23, 0, 2), McFrame(23, 1, 65535), McFrame(23, 0, 65533)}

McFrames == McWrites \cup McReads \cup McBoth
McErrors == {NMBS_ERROR_NONE, NMBS_EXCEPTION_ILLEGAL_DATA_VALUE, NMBS_EXCEPTION_ILLEGAL_DATA_ADDRESS}
NoneFail == {}
=============================================================================
