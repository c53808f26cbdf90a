-------------------------- MODULE ModbusTcpProofs --------------------------
(***************************************************************************)
(* Theorems of the Modbus TCP server for any clients, frames, callbacks,   *)
(* timeouts and failing calls.                                             *)
(***************************************************************************)
EXTENDS ModbusTcp, SequenceTheorems, TLAPS

-----------------------------------------------------------------------------
(* The inductive invariant.                                                *)

ServerPcs == {"first_byte", "header", "body", "handle", "callback", "send",
              "flush_line", "flush", "close"}

\* From the first byte of a request to its answer.
RequestPcs == {"header", "body", "handle", "callback", "send", "flush_line"}

\* Inside a session there is a client, within a request there is a request.
SessionInv ==
    /\ pc \in ServerPcs => current \in Clients
    /\ pc \in RequestPcs => reading \in 1 .. Len(conn[current].frames)
    /\ pc = "callback" => todo # << >>
    /\ todo \in Seq(Callbacks)

\* What was received belongs to requests that were begun.
InboxInv ==
    \A c \in Clients :
        /\ Len(conn[c].frames) <= MaxRequests
        /\ \A p \in 1 .. Len(conn[c].inbox) : conn[c].inbox[p] <= Len(conn[c].frames)
        /\ conn[c].unsent > 0 => conn[c].frames # << >>

IInv == TypeOK /\ SessionInv /\ InboxInv

-----------------------------------------------------------------------------
(* Facts about the operators the actions are built from.                   *)

(* Handlers never refuse with anything but an exception or an invalid      *)
(* request.                                                                *)
Faults == Exceptions \cup {NMBS_ERROR_INVALID_REQUEST}

(* The first check that fails gives the fault, and there is none only if   *)
(* no check fails (handle_read_discrete and the other handlers).           *)
LEMMA FirstFaultMeans ==
    ASSUME NEW n \in 1 .. 8, NEW checks, DOMAIN checks = 1 .. n,
           \A i \in 1 .. n : checks[i].error \in Faults
    PROVE  /\ FirstFault(checks) \in Faults \cup {NMBS_ERROR_NONE}
           /\ FirstFault(checks) = NMBS_ERROR_NONE => \A i \in 1 .. n : ~checks[i].fails
<1> DEFINE failing == {i \in DOMAIN checks : checks[i].fails}
<1>1. CASE failing = {}
    BY <1>1 DEF FirstFault
<1>2. CASE failing # {}
    <2>1. failing \subseteq 1 .. 8
        OBVIOUS
    <2>2. \E i \in failing : \A j \in failing : i <= j
        <3>1. CASE 1 \in failing
            BY <3>1, <2>1
        <3>2. CASE 1 \notin failing /\ 2 \in failing
            BY <3>2, <2>1
        <3>3. CASE 1 \notin failing /\ 2 \notin failing /\ 3 \in failing
            BY <3>3, <2>1
        <3>4. CASE 1 \notin failing /\ 2 \notin failing /\ 3 \notin failing /\ 4 \in failing
            BY <3>4, <2>1
        <3>5. CASE failing \subseteq 5 .. 8
            BY <3>5, <1>2
        <3> QED
            BY <2>1, <3>1, <3>2, <3>3, <3>4, <3>5
    <2> DEFINE first == CHOOSE i \in failing : \A j \in failing : i <= j
    <2>3. first \in failing
        BY <2>2
    <2>4. FirstFault(checks) = checks[first].error
        BY <1>2 DEF FirstFault
    <2> QED
        BY <2>3, <2>4 DEF Faults, Exceptions, NMBS_ERROR_NONE, NMBS_ERROR_INVALID_REQUEST,
           NMBS_EXCEPTION_ILLEGAL_FUNCTION, NMBS_EXCEPTION_ILLEGAL_DATA_ADDRESS,
           NMBS_EXCEPTION_ILLEGAL_DATA_VALUE, NMBS_EXCEPTION_SERVER_DEVICE_FAILURE
<1> QED
    BY <1>1, <1>2

\* What the checks of a handler have made sure of when there is no fault.
Passed(f) ==
    /\ f.function \in HandledFunctions \ {43}
    /\ CallbacksOf(f) \in Seq(Callbacks) /\ CallbacksOf(f) # << >>
    /\ f.function \in {1, 2} => f.quantity <= 2000
    /\ f.function \in {3, 4, 23} => f.quantity <= 125
    /\ f.function = 20 => f.legal
    /\ f.function = 21 => f.bytes <= 251

(* Each handler's checks together: what has no fault is of a function that *)
(* the server handles, within its limits, and all its callbacks are there. *)
LEMMA RequestFaultMeans ==
    ASSUME NEW f \in PduFields
    PROVE  /\ RequestFault(f) \in Faults \cup {NMBS_ERROR_NONE}
           /\ RequestFault(f) = NMBS_ERROR_NONE => Passed(f)
<1>1. {NMBS_ERROR_INVALID_REQUEST, NMBS_EXCEPTION_ILLEGAL_FUNCTION,
       NMBS_EXCEPTION_ILLEGAL_DATA_ADDRESS, NMBS_EXCEPTION_ILLEGAL_DATA_VALUE} \subseteq Faults
    BY DEF Faults, Exceptions
<1>2. \A q, n : QuantityCheck(q, n).error \in Faults /\ (QuantityCheck(q, n).fails <=> q < 1 \/ q > n)
    BY <1>1 DEF QuantityCheck, Check
<1>3. \A a, q : SpaceCheck(a, q).error \in Faults
    BY <1>1 DEF SpaceCheck, Check
<1>4. \A b : ValueCheck(b).error \in Faults
    BY <1>1 DEF ValueCheck, Check
<1>5. \A c : CallbackCheck(c).error \in Faults /\ (CallbackCheck(c).fails <=> c \notin Callbacks)
    BY <1>1 DEF CallbackCheck, Check, Missing
<1>6. \A b, n : SizeCheck(b, n).error \in Faults /\ (SizeCheck(b, n).fails <=> b > n)
    BY <1>1 DEF SizeCheck, Check
<1>7. /\ Check(~f.legal, NMBS_EXCEPTION_ILLEGAL_DATA_ADDRESS).error \in Faults
      /\ Check(~f.legal, NMBS_EXCEPTION_ILLEGAL_DATA_ADDRESS).fails <=> ~f.legal
    BY <1>1 DEF Check
<1>8. ASSUME NEW c
      PROVE  /\ handle_read_discrete(f, c) \in Faults \cup {NMBS_ERROR_NONE}
             /\ handle_read_discrete(f, c) = NMBS_ERROR_NONE => f.quantity <= 2000 /\ c \in Callbacks
    <2> DEFINE checks == <<QuantityCheck(f.quantity, 2000),
                           SpaceCheck(f.address, f.quantity), CallbackCheck(c)>>
    <2>1. DOMAIN checks = 1 .. 3 /\ 3 \in 1 .. 8
        OBVIOUS
    <2>2. \A i \in 1 .. 3 : checks[i].error \in Faults
        BY <1>2, <1>3, <1>5
    <2>3. handle_read_discrete(f, c) = FirstFault(checks)
        BY DEF handle_read_discrete
    <2> HIDE DEF checks
    <2>4. handle_read_discrete(f, c) = NMBS_ERROR_NONE => \A i \in 1 .. 3 : ~checks[i].fails
        BY <2>1, <2>2, <2>3, FirstFaultMeans
    <2>5. handle_read_discrete(f, c) = NMBS_ERROR_NONE =>
             ~QuantityCheck(f.quantity, 2000).fails /\ ~CallbackCheck(c).fails
        BY <2>4 DEF checks
    <2>6. handle_read_discrete(f, c) \in Faults \cup {NMBS_ERROR_NONE}
        BY <2>1, <2>2, <2>3, FirstFaultMeans
    <2> QED
        BY <2>5, <2>6, <1>2, <1>5 DEF PduFields
<1>9. ASSUME NEW c
      PROVE  /\ handle_read_registers(f, c) \in Faults \cup {NMBS_ERROR_NONE}
             /\ handle_read_registers(f, c) = NMBS_ERROR_NONE => f.quantity <= 125 /\ c \in Callbacks
    <2> DEFINE checks == <<QuantityCheck(f.quantity, 125),
                           SpaceCheck(f.address, f.quantity), CallbackCheck(c)>>
    <2>1. DOMAIN checks = 1 .. 3 /\ 3 \in 1 .. 8
        OBVIOUS
    <2>2. \A i \in 1 .. 3 : checks[i].error \in Faults
        BY <1>2, <1>3, <1>5
    <2>3. handle_read_registers(f, c) = FirstFault(checks)
        BY DEF handle_read_registers
    <2> HIDE DEF checks
    <2>4. handle_read_registers(f, c) = NMBS_ERROR_NONE => \A i \in 1 .. 3 : ~checks[i].fails
        BY <2>1, <2>2, <2>3, FirstFaultMeans
    <2>5. handle_read_registers(f, c) = NMBS_ERROR_NONE =>
             ~QuantityCheck(f.quantity, 125).fails /\ ~CallbackCheck(c).fails
        BY <2>4 DEF checks
    <2>6. handle_read_registers(f, c) \in Faults \cup {NMBS_ERROR_NONE}
        BY <2>1, <2>2, <2>3, FirstFaultMeans
    <2> QED
        BY <2>5, <2>6, <1>2, <1>5 DEF PduFields
<1>10. /\ handle_write_single_coil(f) \in Faults \cup {NMBS_ERROR_NONE}
       /\ handle_write_single_coil(f) = NMBS_ERROR_NONE => "write_single_coil" \in Callbacks
    <2> DEFINE checks == <<CallbackCheck("write_single_coil"),
                           ValueCheck(f.value \notin {0, 65280})>>
    <2>1. DOMAIN checks = 1 .. 2 /\ 2 \in 1 .. 8
        OBVIOUS
    <2>2. \A i \in 1 .. 2 : checks[i].error \in Faults
        BY <1>4, <1>5
    <2>3. handle_write_single_coil(f) = FirstFault(checks)
        BY DEF handle_write_single_coil
    <2> HIDE DEF checks
    <2>4. handle_write_single_coil(f) = NMBS_ERROR_NONE => \A i \in 1 .. 2 : ~checks[i].fails
        BY <2>1, <2>2, <2>3, FirstFaultMeans
    <2>5. handle_write_single_coil(f) = NMBS_ERROR_NONE =>
             ~CallbackCheck("write_single_coil").fails
        BY <2>4 DEF checks
    <2>6. handle_write_single_coil(f) \in Faults \cup {NMBS_ERROR_NONE}
        BY <2>1, <2>2, <2>3, FirstFaultMeans
    <2> QED
        BY <2>5, <2>6, <1>5 DEF PduFields
<1>11. /\ handle_write_single_register(f) \in Faults \cup {NMBS_ERROR_NONE}
       /\ handle_write_single_register(f) = NMBS_ERROR_NONE => "write_single_register" \in Callbacks
    <2> DEFINE checks == <<CallbackCheck("write_single_register")>>
    <2>1. DOMAIN checks = 1 .. 1 /\ 1 \in 1 .. 8
        OBVIOUS
    <2>2. \A i \in 1 .. 1 : checks[i].error \in Faults
        BY <1>5
    <2>3. handle_write_single_register(f) = FirstFault(checks)
        BY DEF handle_write_single_register
    <2> HIDE DEF checks
    <2>4. handle_write_single_register(f) = NMBS_ERROR_NONE => \A i \in 1 .. 1 : ~checks[i].fails
        BY <2>1, <2>2, <2>3, FirstFaultMeans
    <2>5. handle_write_single_register(f) = NMBS_ERROR_NONE =>
             ~CallbackCheck("write_single_register").fails
        BY <2>4 DEF checks
    <2>6. handle_write_single_register(f) \in Faults \cup {NMBS_ERROR_NONE}
        BY <2>1, <2>2, <2>3, FirstFaultMeans
    <2> QED
        BY <2>5, <2>6, <1>5 DEF PduFields
<1>12. /\ handle_write_multiple_coils(f) \in Faults \cup {NMBS_ERROR_NONE}
       /\ handle_write_multiple_coils(f) = NMBS_ERROR_NONE => "write_multiple_coils" \in Callbacks
    <2> DEFINE checks == <<SizeCheck(f.bytes, 246), QuantityCheck(f.quantity, 1968),
                           SpaceCheck(f.address, f.quantity), ValueCheck(f.bytes = 0),
                           ValueCheck((f.quantity + 7) \div 8 # f.bytes),
                           CallbackCheck("write_multiple_coils")>>
    <2>1. DOMAIN checks = 1 .. 6 /\ 6 \in 1 .. 8
        OBVIOUS
    <2>2. \A i \in 1 .. 6 : checks[i].error \in Faults
        BY <1>2, <1>3, <1>4, <1>5, <1>6
    <2>3. handle_write_multiple_coils(f) = FirstFault(checks)
        BY DEF handle_write_multiple_coils
    <2> HIDE DEF checks
    <2>4. handle_write_multiple_coils(f) = NMBS_ERROR_NONE => \A i \in 1 .. 6 : ~checks[i].fails
        BY <2>1, <2>2, <2>3, FirstFaultMeans
    <2>5. handle_write_multiple_coils(f) = NMBS_ERROR_NONE =>
             ~CallbackCheck("write_multiple_coils").fails
        BY <2>4 DEF checks
    <2>6. handle_write_multiple_coils(f) \in Faults \cup {NMBS_ERROR_NONE}
        BY <2>1, <2>2, <2>3, FirstFaultMeans
    <2> QED
        BY <2>5, <2>6, <1>5 DEF PduFields
<1>13. /\ handle_write_multiple_registers(f) \in Faults \cup {NMBS_ERROR_NONE}
       /\ handle_write_multiple_registers(f) = NMBS_ERROR_NONE => "write_multiple_registers" \in Callbacks
    <2> DEFINE checks == <<SizeCheck(f.bytes, 246), QuantityCheck(f.quantity, 123),
                           SpaceCheck(f.address, f.quantity), ValueCheck(f.bytes = 0),
                           ValueCheck(f.bytes # 2 * f.quantity),
                           CallbackCheck("write_multiple_registers")>>
    <2>1. DOMAIN checks = 1 .. 6 /\ 6 \in 1 .. 8
        OBVIOUS
    <2>2. \A i \in 1 .. 6 : checks[i].error \in Faults
        BY <1>2, <1>3, <1>4, <1>5, <1>6
    <2>3. handle_write_multiple_registers(f) = FirstFault(checks)
        BY DEF handle_write_multiple_registers
    <2> HIDE DEF checks
    <2>4. handle_write_multiple_registers(f) = NMBS_ERROR_NONE => \A i \in 1 .. 6 : ~checks[i].fails
        BY <2>1, <2>2, <2>3, FirstFaultMeans
    <2>5. handle_write_multiple_registers(f) = NMBS_ERROR_NONE =>
             ~CallbackCheck("write_multiple_registers").fails
        BY <2>4 DEF checks
    <2>6. handle_write_multiple_registers(f) \in Faults \cup {NMBS_ERROR_NONE}
        BY <2>1, <2>2, <2>3, FirstFaultMeans
    <2> QED
        BY <2>5, <2>6, <1>5 DEF PduFields
<1>14. /\ handle_read_file_record(f) \in Faults \cup {NMBS_ERROR_NONE}
       /\ handle_read_file_record(f) = NMBS_ERROR_NONE => f.legal /\ "read_file_record" \in Callbacks
    <2> DEFINE checks == <<SizeCheck(f.bytes, 245), ValueCheck(f.bytes % 7 # 0),
                           ValueCheck(f.bytes < 7),
                           Check(~f.legal, NMBS_EXCEPTION_ILLEGAL_DATA_ADDRESS),
                           CallbackCheck("read_file_record")>>
    <2>1. DOMAIN checks = 1 .. 5 /\ 5 \in 1 .. 8
        OBVIOUS
    <2>2. \A i \in 1 .. 5 : checks[i].error \in Faults
        BY <1>4, <1>5, <1>6, <1>7
    <2>3. handle_read_file_record(f) = FirstFault(checks)
        BY DEF handle_read_file_record
    <2> HIDE DEF checks
    <2>4. handle_read_file_record(f) = NMBS_ERROR_NONE => \A i \in 1 .. 5 : ~checks[i].fails
        BY <2>1, <2>2, <2>3, FirstFaultMeans
    <2>5. handle_read_file_record(f) = NMBS_ERROR_NONE =>
             ~Check(~f.legal, NMBS_EXCEPTION_ILLEGAL_DATA_ADDRESS).fails /\ ~CallbackCheck("read_file_record").fails
        BY <2>4 DEF checks
    <2>6. handle_read_file_record(f) \in Faults \cup {NMBS_ERROR_NONE}
        BY <2>1, <2>2, <2>3, FirstFaultMeans
    <2> QED
        BY <2>5, <2>6, <1>7, <1>5 DEF PduFields
<1>15. /\ handle_write_file_record(f) \in Faults \cup {NMBS_ERROR_NONE}
       /\ handle_write_file_record(f) = NMBS_ERROR_NONE => f.bytes <= 251 /\ "write_file_record" \in Callbacks
    <2> DEFINE checks == <<SizeCheck(f.bytes, 251), ValueCheck(f.bytes < 7),
                           Check(~f.legal, NMBS_EXCEPTION_ILLEGAL_DATA_ADDRESS),
                           ValueCheck(f.value # 0), CallbackCheck("write_file_record")>>
    <2>1. DOMAIN checks = 1 .. 5 /\ 5 \in 1 .. 8
        OBVIOUS
    <2>2. \A i \in 1 .. 5 : checks[i].error \in Faults
        BY <1>4, <1>5, <1>6, <1>7
    <2>3. handle_write_file_record(f) = FirstFault(checks)
        BY DEF handle_write_file_record
    <2> HIDE DEF checks
    <2>4. handle_write_file_record(f) = NMBS_ERROR_NONE => \A i \in 1 .. 5 : ~checks[i].fails
        BY <2>1, <2>2, <2>3, FirstFaultMeans
    <2>5. handle_write_file_record(f) = NMBS_ERROR_NONE =>
             ~SizeCheck(f.bytes, 251).fails /\ ~CallbackCheck("write_file_record").fails
        BY <2>4 DEF checks
    <2>6. handle_write_file_record(f) \in Faults \cup {NMBS_ERROR_NONE}
        BY <2>1, <2>2, <2>3, FirstFaultMeans
    <2> QED
        BY <2>5, <2>6, <1>6, <1>5 DEF PduFields
<1>16. /\ handle_read_write_registers(f) \in Faults \cup {NMBS_ERROR_NONE}
       /\ handle_read_write_registers(f) = NMBS_ERROR_NONE => f.quantity <= 125 /\ {"write_multiple_registers", "read_holding_registers"} \subseteq Callbacks
    <2> DEFINE checks == <<SizeCheck(f.bytes, 242), QuantityCheck(f.quantity, 125),
                           QuantityCheck(f.write_quantity, 123),
                           ValueCheck(f.bytes # 2 * f.write_quantity),
                           SpaceCheck(f.address, f.quantity),
                           SpaceCheck(f.write_address, f.write_quantity),
                           CallbackCheck("write_multiple_registers"),
                           CallbackCheck("read_holding_registers")>>
    <2>1. DOMAIN checks = 1 .. 8 /\ 8 \in 1 .. 8
        OBVIOUS
    <2>2. \A i \in 1 .. 8 : checks[i].error \in Faults
        BY <1>2, <1>3, <1>4, <1>5, <1>6
    <2>3. handle_read_write_registers(f) = FirstFault(checks)
        BY DEF handle_read_write_registers
    <2> HIDE DEF checks
    <2>4. handle_read_write_registers(f) = NMBS_ERROR_NONE => \A i \in 1 .. 8 : ~checks[i].fails
        BY <2>1, <2>2, <2>3, FirstFaultMeans
    <2>5. handle_read_write_registers(f) = NMBS_ERROR_NONE =>
             ~QuantityCheck(f.quantity, 125).fails /\ ~CallbackCheck("write_multiple_registers").fails /\ ~CallbackCheck("read_holding_registers").fails
        BY <2>4 DEF checks
    <2>6. handle_read_write_registers(f) \in Faults \cup {NMBS_ERROR_NONE}
        BY <2>1, <2>2, <2>3, FirstFaultMeans
    <2> QED
        BY <2>5, <2>6, <1>2, <1>5 DEF PduFields
<1>17. /\ handle_read_device_identification(f) \in Faults \cup {NMBS_ERROR_NONE}
       /\ handle_read_device_identification(f) = NMBS_ERROR_NONE => FALSE
    <2> DEFINE checks == <<CallbackCheck("read_device_identification")>>
    <2>1. DOMAIN checks = 1 .. 1 /\ 1 \in 1 .. 8
        OBVIOUS
    <2>2. \A i \in 1 .. 1 : checks[i].error \in Faults
        BY <1>5
    <2>3. handle_read_device_identification(f) = FirstFault(checks)
        BY DEF handle_read_device_identification
    <2> HIDE DEF checks
    <2>4. handle_read_device_identification(f) = NMBS_ERROR_NONE => \A i \in 1 .. 1 : ~checks[i].fails
        BY <2>1, <2>2, <2>3, FirstFaultMeans
    <2>5. handle_read_device_identification(f) = NMBS_ERROR_NONE =>
             ~CallbackCheck("read_device_identification").fails
        BY <2>4 DEF checks
    <2>6. handle_read_device_identification(f) \in Faults \cup {NMBS_ERROR_NONE}
        BY <2>1, <2>2, <2>3, FirstFaultMeans
    <2> QED
        BY <2>5, <2>6, <1>5, CallbacksAssumption DEF PduFields, CallbackNames
<1>18. NMBS_EXCEPTION_ILLEGAL_FUNCTION \in Faults /\ NMBS_EXCEPTION_ILLEGAL_FUNCTION # NMBS_ERROR_NONE
    BY DEF Faults, Exceptions, NMBS_EXCEPTION_ILLEGAL_FUNCTION, NMBS_ERROR_NONE
<1>19. RequestFault(f) \in Faults \cup {NMBS_ERROR_NONE}
    <2>1. CASE f.function = 1
        BY <2>1, <1>8 DEF RequestFault
    <2>2. CASE f.function = 2
        BY <2>2, <1>8 DEF RequestFault
    <2>3. CASE f.function = 3
        BY <2>3, <1>9 DEF RequestFault
    <2>4. CASE f.function = 4
        BY <2>4, <1>9 DEF RequestFault
    <2>5. CASE f.function = 5
        BY <2>5, <1>10 DEF RequestFault
    <2>6. CASE f.function = 6
        BY <2>6, <1>11 DEF RequestFault
    <2>7. CASE f.function = 15
        BY <2>7, <1>12 DEF RequestFault
    <2>8. CASE f.function = 16
        BY <2>8, <1>13 DEF RequestFault
    <2>9. CASE f.function = 20
        BY <2>9, <1>14 DEF RequestFault
    <2>10. CASE f.function = 21
        BY <2>10, <1>15 DEF RequestFault
    <2>11. CASE f.function = 23
        BY <2>11, <1>16 DEF RequestFault
    <2>12. CASE f.function = 43
        BY <2>12, <1>17 DEF RequestFault
    <2>13. CASE f.function \notin HandledFunctions
        BY <2>13, <1>18 DEF RequestFault, HandledFunctions
    <2> QED
        BY <2>1, <2>2, <2>3, <2>4, <2>5, <2>6, <2>7, <2>8, <2>9, <2>10, <2>11, <2>12, <2>13 DEF HandledFunctions
<1>20. ASSUME RequestFault(f) = NMBS_ERROR_NONE PROVE Passed(f)
    <2>1. f.function \in HandledFunctions \ {43}
        BY <1>20, <1>17, <1>18 DEF RequestFault, HandledFunctions
    <2>2. CASE f.function = 1
        BY <2>2, <1>20, <1>8 DEF RequestFault, Passed, CallbacksOf, HandledFunctions
    <2>3. CASE f.function = 2
        BY <2>3, <1>20, <1>8 DEF RequestFault, Passed, CallbacksOf, HandledFunctions
    <2>4. CASE f.function = 3
        BY <2>4, <1>20, <1>9 DEF RequestFault, Passed, CallbacksOf, HandledFunctions
    <2>5. CASE f.function = 4
        BY <2>5, <1>20, <1>9 DEF RequestFault, Passed, CallbacksOf, HandledFunctions
    <2>6. CASE f.function = 5
        BY <2>6, <1>20, <1>10 DEF RequestFault, Passed, CallbacksOf, HandledFunctions
    <2>7. CASE f.function = 6
        BY <2>7, <1>20, <1>11 DEF RequestFault, Passed, CallbacksOf, HandledFunctions
    <2>8. CASE f.function = 15
        BY <2>8, <1>20, <1>12 DEF RequestFault, Passed, CallbacksOf, HandledFunctions
    <2>9. CASE f.function = 16
        BY <2>9, <1>20, <1>13 DEF RequestFault, Passed, CallbacksOf, HandledFunctions
    <2>10. CASE f.function = 20
        BY <2>10, <1>20, <1>14 DEF RequestFault, Passed, CallbacksOf, HandledFunctions
    <2>11. CASE f.function = 21
        BY <2>11, <1>20, <1>15 DEF RequestFault, Passed, CallbacksOf, HandledFunctions
    <2>12. CASE f.function = 23
        BY <2>12, <1>20, <1>16 DEF RequestFault, Passed, CallbacksOf, HandledFunctions
    <2> QED
        BY <2>1, <2>2, <2>3, <2>4, <2>5, <2>6, <2>7, <2>8, <2>9, <2>10, <2>11, <2>12 DEF HandledFunctions
<1> QED
    BY <1>19, <1>20

-----------------------------------------------------------------------------
(* Reading from a connection.                                              *)

(* A read never gives out more than the connection has received, and the   *)
(* receive reports no error only when it got all it asked for              *)
(* (modbus_transport_read).                                                *)
LEMMA ReadFacts ==
    ASSUME conn \in [Clients -> Connection], NEW c \in Clients, NEW count \in Nat,
           NEW timeout, NEW n \in modbus_transport_read(c, count, timeout)
    PROVE  /\ n \in Int /\ n <= Len(conn[c].inbox)
           /\ Len(conn[c].inbox) \in Nat
           /\ recv(n, count) \in {NMBS_ERROR_NONE, NMBS_ERROR_TRANSPORT, NMBS_ERROR_TIMEOUT}
           /\ recv(n, count) = NMBS_ERROR_NONE => n = count
<1>1. conn[c].inbox \in Seq(1 .. MaxRequests)
    BY DEF Connection
<1>2. Len(conn[c].inbox) \in Nat
    BY <1>1, LenProperties
<1>3. n \in {-1, count, Len(conn[c].inbox)} /\ (n = count => count <= Len(conn[c].inbox))
    BY <1>2 DEF modbus_transport_read
<1>4. recv(n, count) = NMBS_ERROR_NONE => n = count
    BY <1>2, <1>3 DEF recv, NMBS_ERROR_NONE, NMBS_ERROR_TRANSPORT, NMBS_ERROR_TIMEOUT
<1> QED
    BY <1>2, <1>3, <1>4 DEF recv

\* How many pieces a read of n consumes.
Taken(n) == IF n > 0 THEN n ELSE 0

\* What is left of an inbox after a read.
LEMMA TakenFacts ==
    ASSUME NEW n \in Int, NEW s \in Seq(1 .. MaxRequests), n <= Len(s),
           NEW t, t = SubSeq(s, Taken(n) + 1, Len(s))
    PROVE  /\ Taken(n) \in Nat /\ Taken(n) <= Len(s)
           /\ t \in Seq(1 .. MaxRequests)
           /\ Len(t) = Len(s) - Taken(n)
           /\ \A p \in 1 .. Len(t) : t[p] = s[p + Taken(n)]
<1>1. Len(s) \in Nat /\ s \in [1 .. Len(s) -> 1 .. MaxRequests]
    BY LenProperties
<1> DEFINE m == Taken(n)
<1>2. m \in Nat /\ m <= Len(s)
    BY <1>1 DEF Taken
<1>3. t = SubSeq(s, m + 1, Len(s))
    OBVIOUS
<1> HIDE DEF m
<1>4. \A i \in m + 1 .. Len(s) : s[i] \in 1 .. MaxRequests
    BY <1>1, <1>2
<1>5. /\ t \in Seq(1 .. MaxRequests)
      /\ Len(t) = IF m + 1 <= Len(s) THEN Len(s) - (m + 1) + 1 ELSE 0
      /\ \A i \in 1 .. Len(s) - (m + 1) + 1 : t[i] = s[m + 1 + i - 1]
    <2>1. m + 1 \in Int /\ Len(s) \in Int
        BY <1>1, <1>2
    <2>2. /\ SubSeq(s, m + 1, Len(s)) \in Seq(1 .. MaxRequests)
          /\ Len(SubSeq(s, m + 1, Len(s))) =
                IF m + 1 <= Len(s) THEN Len(s) - (m + 1) + 1 ELSE 0
          /\ \A i \in 1 .. Len(s) - (m + 1) + 1 :
                SubSeq(s, m + 1, Len(s))[i] = s[m + 1 + i - 1]
        BY <2>1, <1>4, SubSeqProperties
    <2> QED
        BY <2>2, <1>3, Zenon
<1>6. \A L \in Nat : m <= L =>
         /\ (IF m + 1 <= L THEN L - (m + 1) + 1 ELSE 0) = L - m
         /\ 1 .. L - m = 1 .. L - (m + 1) + 1
    BY <1>2
<1>7. Len(t) = Len(s) - m
    BY <1>1, <1>2, <1>5, <1>6, Zenon
<1>8. ASSUME NEW p \in 1 .. Len(t) PROVE t[p] = s[p + m]
    <2>1. p \in 1 .. Len(s) - (m + 1) + 1
        BY <1>1, <1>2, <1>6, <1>7, Zenon
    <2>2. m + 1 + p - 1 = p + m
        BY <1>2
    <2> QED
        BY <1>5, <2>1, <2>2, Zenon
<1> QED
    BY <1>2, <1>5, <1>7, <1>8 DEF m

\* The first m pieces of the inbox of c are read, and nothing else happens to
\* its connection.
Consumed(c, m) ==
    /\ conn'[c].peer = conn[c].peer
    /\ conn'[c].frames = conn[c].frames
    /\ conn'[c].unsent = conn[c].unsent
    /\ conn'[c].calls = conn[c].calls
    /\ conn'[c].answers = conn[c].answers
    /\ Len(conn'[c].inbox) = Len(conn[c].inbox) - m
    /\ \A p \in 1 .. Len(conn'[c].inbox) : conn'[c].inbox[p] = conn[c].inbox[p + m]

(* Consume does that to the client served and nothing to the others.       *)
LEMMA ConsumeFacts ==
    ASSUME NEW n \in Int
    PROVE  conn \in [Clients -> Connection] /\ current \in Clients
           /\ n <= Len(conn[current].inbox) /\ Consume(n) =>
           /\ conn' \in [Clients -> Connection]
           /\ Consumed(current, Taken(n))
           /\ \A c \in Clients \ {current} : conn'[c] = conn[c]
<1> DEFINE inbox == conn[current].inbox
           rest == SubSeq(inbox, Taken(n) + 1, Len(inbox))
<1>1. \A s \in Seq(1 .. MaxRequests) : n <= Len(s) =>
         \A t : t = SubSeq(s, Taken(n) + 1, Len(s)) =>
             /\ t \in Seq(1 .. MaxRequests)
             /\ Len(t) = Len(s) - Taken(n)
             /\ \A p \in 1 .. Len(t) : t[p] = s[p + Taken(n)]
    BY TakenFacts, Zenon
<1>2. SUFFICES ASSUME conn \in [Clients -> Connection], current \in Clients,
                      n <= Len(inbox), Consume(n)
               PROVE  /\ conn' \in [Clients -> Connection]
                      /\ Consumed(current, Taken(n))
                      /\ \A c \in Clients \ {current} : conn'[c] = conn[c]
    OBVIOUS
<1>3. conn' = [conn EXCEPT ![current].inbox = rest]
    BY <1>2 DEF Consume, Taken
<1> HIDE DEF rest, inbox
<1>4. /\ rest \in Seq(1 .. MaxRequests)
      /\ Len(rest) = Len(inbox) - Taken(n)
      /\ \A p \in 1 .. Len(rest) : rest[p] = inbox[p + Taken(n)]
    <2>1. inbox \in Seq(1 .. MaxRequests)
        BY <1>2 DEF inbox, Connection
    <2>2. rest = SubSeq(inbox, Taken(n) + 1, Len(inbox))
        BY DEF rest
    <2> QED
        BY <1>1, <1>2, <2>1, <2>2
<1>5. conn' = [conn EXCEPT ![current] = [conn[current] EXCEPT !.inbox = rest]]
    BY <1>2, <1>3
<1>6. /\ conn'[current] = [conn[current] EXCEPT !.inbox = rest]
      /\ \A c \in Clients \ {current} : conn'[c] = conn[c]
    BY <1>2, <1>5
<1>7. conn'[current] \in Connection /\ conn'[current].inbox = rest
    BY <1>2, <1>4, <1>6 DEF Connection
<1>8. conn' \in [Clients -> Connection]
    BY <1>2, <1>5, <1>6, <1>7
<1>9. /\ conn'[current].peer = conn[current].peer
      /\ conn'[current].frames = conn[current].frames
      /\ conn'[current].unsent = conn[current].unsent
      /\ conn'[current].calls = conn[current].calls
      /\ conn'[current].answers = conn[current].answers
    BY <1>2, <1>6 DEF Connection
<1>10. Consumed(current, Taken(n))
    BY <1>4, <1>7, <1>9 DEF Consumed, inbox
<1> QED
    BY <1>6, <1>8, <1>10

-----------------------------------------------------------------------------
(* Type correctness.                                                       *)

THEOREM InitIInv == Init => IInv
<1> SUFFICES ASSUME Init PROVE IInv
    OBVIOUS
<1>1. NoConnection \in Connection
    BY ModbusTcpAssumption, EmptySeq DEF NoConnection, Connection
<1>2. TypeOK
    BY <1>1, ModbusTcpAssumption, EmptySeq DEF Init, TypeOK, NMBS_ERROR_NONE
<1>3. SessionInv
    BY EmptySeq DEF Init, SessionInv, ServerPcs, RequestPcs
<1>4. InboxInv
    BY ModbusTcpAssumption, EmptySeq DEF Init, InboxInv, NoConnection
<1> QED
    BY <1>2, <1>3, <1>4 DEF IInv

LEMMA InboxKept ==
    ASSUME TypeOK, InboxInv, current \in Clients,
           NEW n \in Int, n <= Len(conn[current].inbox), Consume(n)
    PROVE  /\ conn' \in [Clients -> Connection]
           /\ InboxInv'
           /\ \A c \in Clients : conn'[c].frames = conn[c].frames
<1>1. conn \in [Clients -> Connection]
    BY DEF TypeOK
<1>2. /\ conn' \in [Clients -> Connection]
      /\ Consumed(current, Taken(n))
      /\ \A c \in Clients \ {current} : conn'[c] = conn[c]
    BY <1>1, ConsumeFacts
<1>3. Taken(n) \in Nat /\ Len(conn[current].inbox) \in Nat /\ Len(conn'[current].inbox) \in Nat
    BY <1>1, <1>2, LenProperties DEF Taken, Connection
<1>4. ASSUME NEW p \in 1 .. Len(conn'[current].inbox)
      PROVE  conn'[current].inbox[p] <= Len(conn'[current].frames)
    <2>1. p + Taken(n) \in 1 .. Len(conn[current].inbox)
        BY <1>2, <1>3 DEF Consumed
    <2> QED
        BY <1>2, <2>1 DEF InboxInv, Consumed
<1>5. \A c \in Clients : conn'[c].frames = conn[c].frames /\ conn'[c].unsent = conn[c].unsent
    BY <1>2 DEF Consumed
<1>6. InboxInv'
    BY <1>2, <1>4, <1>5 DEF InboxInv
<1> QED
    BY <1>2, <1>5, <1>6

(* What the callbacks return goes out as an exception or as success.       *)
LEMMA ExceptionOfType ==
    ASSUME NEW error
    PROVE  ExceptionOf(error) \in Exceptions \cup {NMBS_ERROR_NONE}
BY DEF ExceptionOf, nmbs_error_is_exception, Exceptions

(* The steps of the server, those of nmbs_server_poll first.               *)
LEMMA PollKeepsIInv ==
    ASSUME IInv, Poll
    PROVE  IInv'
<1> USE DEF IInv
<1>1. /\ current \in Clients
      /\ conn \in [Clients -> Connection] /\ conn[current] \in Connection
      /\ current' = current /\ opened' = opened /\ queue' = queue /\ listener' = listener
    BY DEF TypeOK, SessionInv, ServerPcs, Poll, ReadFirstByte, ReadHeader, ReadBody, Handle,
           Callback, Send, Flush
<1>2. CASE ReadFirstByte
    <2>1. PICK n \in modbus_transport_read(current, 1, ReadTimeout) :
             /\ Consume(n)
             /\ \/ /\ recv(n, 1) = NMBS_ERROR_NONE
                   /\ reading' = Head(conn[current].inbox)
                   /\ pc' = "header"
                   /\ UNCHANGED err
                \/ UNCHANGED <<pc, err, reading>>
                \/ EndSession(NMBS_ERROR_TRANSPORT) /\ UNCHANGED reading
        BY <1>2 DEF ReadFirstByte
    <2>2. /\ n \in Int /\ n <= Len(conn[current].inbox)
          /\ recv(n, 1) = NMBS_ERROR_NONE => n = 1
        BY <1>1, ReadFacts
    <2>3. /\ conn' \in [Clients -> Connection]
          /\ InboxInv'
          /\ \A c \in Clients : conn'[c].frames = conn[c].frames
        BY <1>1, <2>1, <2>2, InboxKept
    <2>4. recv(n, 1) = NMBS_ERROR_NONE =>
             /\ Head(conn[current].inbox) \in 1 .. MaxRequests
             /\ Head(conn[current].inbox) <= Len(conn[current].frames)
        <3>1. conn[current].inbox \in Seq(1 .. MaxRequests) /\ Len(conn[current].inbox) \in Nat
            BY <1>1, LenProperties DEF Connection
        <3>2. 1 <= Len(conn[current].inbox) => 1 \in 1 .. Len(conn[current].inbox)
            BY <3>1
        <3>3. 1 <= Len(conn[current].inbox) =>
                 Head(conn[current].inbox) = conn[current].inbox[1]
            BY <3>1
        <3>4. 1 <= Len(conn[current].inbox) =>
                 /\ conn[current].inbox[1] \in 1 .. MaxRequests
                 /\ conn[current].inbox[1] <= Len(conn[current].frames)
            BY <1>1, <3>1, <3>2, ElementOfSeq DEF InboxInv
        <3> QED
            BY <2>2, <3>3, <3>4
    <2>5. TypeOK'
        BY <1>1, <1>2, <2>1, <2>3, <2>4, ModbusTcpAssumption
           DEF TypeOK, ReadFirstByte, EndSession, NMBS_ERROR_TRANSPORT, NMBS_ERROR_NONE
    <2>6. SessionInv'
        BY <1>1, <1>2, <2>1, <2>3, <2>4
           DEF SessionInv, ServerPcs, RequestPcs, ReadFirstByte, EndSession
    <2> QED
        BY <2>3, <2>5, <2>6
<1>3. CASE ReadHeader
    <2>1. PICK n \in modbus_transport_read(current, HeaderPieces, ByteTimeout) : Consume(n)
        BY <1>3 DEF ReadHeader
    <2>2. n \in Int /\ n <= Len(conn[current].inbox)
        BY <1>1, <2>1, ReadFacts, ModbusTcpAssumption
    <2>3. /\ conn' \in [Clients -> Connection]
          /\ InboxInv'
          /\ \A c \in Clients : conn'[c].frames = conn[c].frames
        BY <1>1, <2>1, <2>2, InboxKept
    <2>4. /\ pc' \in {"body", "close"}
          /\ err' \in {err, NMBS_ERROR_NONE, NMBS_ERROR_TIMEOUT, NMBS_ERROR_INVALID_TCP_MBAP}
        BY <1>3 DEF ReadHeader, EndSession, recv, NMBS_ERROR_TRANSPORT, NMBS_ERROR_NONE,
           NMBS_ERROR_TIMEOUT, NMBS_ERROR_INVALID_TCP_MBAP
    <2>5. TypeOK'
        BY <1>1, <1>3, <2>3, <2>4 DEF TypeOK, ReadHeader
    <2>6. SessionInv'
        BY <1>1, <1>3, <2>3, <2>4 DEF SessionInv, ServerPcs, RequestPcs, ReadHeader
    <2> QED
        BY <2>3, <2>5, <2>6
<1>4. CASE ReadBody
    <2>1. PICK n \in modbus_transport_read(current, PiecesOfBody(Frame), ByteTimeout) : Consume(n)
        BY <1>4 DEF ReadBody
    <2>2. n \in Int /\ n <= Len(conn[current].inbox)
        <3>1. PiecesOfBody(Frame) \in Nat
            BY ModbusTcpAssumption DEF PiecesOfBody
        <3> QED
            BY <1>1, <2>1, <3>1, ReadFacts
    <2>3. /\ conn' \in [Clients -> Connection]
          /\ InboxInv'
          /\ \A c \in Clients : conn'[c].frames = conn[c].frames
        BY <1>1, <2>1, <2>2, InboxKept
    <2>4. /\ pc' \in {"handle", "close"}
          /\ err' \in {err, NMBS_ERROR_NONE, NMBS_ERROR_TIMEOUT, NMBS_ERROR_INVALID_TCP_MBAP}
        BY <1>4 DEF ReadBody, EndSession, recv, NMBS_ERROR_TRANSPORT, NMBS_ERROR_NONE,
           NMBS_ERROR_TIMEOUT, NMBS_ERROR_INVALID_TCP_MBAP
    <2>5. TypeOK'
        BY <1>1, <1>4, <2>3, <2>4 DEF TypeOK, ReadBody
    <2>6. SessionInv'
        BY <1>1, <1>4, <2>3, <2>4 DEF SessionInv, ServerPcs, RequestPcs, ReadBody
    <2> QED
        BY <2>3, <2>5, <2>6
<1>5. CASE Handle
    <2>1. /\ Frame.pdu \in PduFields
          /\ conn' = conn /\ reading' = reading /\ pc = "handle"
        <3>1. reading \in 1 .. Len(conn[current].frames) /\ conn[current].frames \in Seq(Frames)
            BY <1>1, <1>5 DEF SessionInv, RequestPcs, Handle, Connection
        <3>2. Frame \in Frames
            BY <3>1, ElementOfSeq DEF Frame
        <3> QED
            BY <1>5, <3>2, ModbusTcpAssumption DEF FrameRecord, Handle
    <2>2. /\ RequestFault(Frame.pdu) \in Faults \cup {NMBS_ERROR_NONE}
          /\ RequestFault(Frame.pdu) = NMBS_ERROR_NONE => Passed(Frame.pdu)
          /\ Frame.pdu.function \notin HandledFunctions =>
                RequestFault(Frame.pdu) = NMBS_EXCEPTION_ILLEGAL_FUNCTION
        BY <2>1, RequestFaultMeans DEF RequestFault, HandledFunctions
    <2>3. /\ pc' \in {"flush_line", "send", "flush", "callback"}
          /\ err' \in {err, NMBS_ERROR_INVALID_REQUEST}
          /\ answer' \in Exceptions \cup {NMBS_ERROR_NONE}
          /\ todo' = todo \/ todo' \in Seq(Callbacks)
          /\ pc' = "callback" => todo' # << >>
        BY <1>5, <2>2 DEF Handle, TypeOK, Passed, Exceptions, nmbs_error_is_exception
    <2>4. TypeOK'
        <3>1. todo' \in Seq(CallbackNames)
            BY <2>3, CallbacksAssumption DEF TypeOK
        <3> QED
            BY <1>1, <2>1, <2>3, <3>1 DEF TypeOK
    <2>5. SessionInv'
        BY <1>1, <2>1, <2>3 DEF SessionInv, ServerPcs, RequestPcs
    <2>6. InboxInv'
        BY <2>1 DEF InboxInv
    <2> QED
        BY <2>4, <2>5, <2>6
<1>6. CASE Callback
    <2>1. PICK error \in CallbackErrors :
             /\ conn' = [conn EXCEPT ![current].calls = Append(@,
                   [request |-> reading, callback |-> Head(todo), error |-> error])]
             /\ todo' = Tail(todo)
             /\ answer' = ExceptionOf(error)
             /\ pc' = IF error = NMBS_ERROR_NONE /\ Len(todo) > 1 THEN "callback" ELSE "send"
        BY <1>6 DEF Callback
    <2>2. /\ todo \in Seq(Callbacks) /\ todo # << >>
          /\ Head(todo) \in Callbacks
          /\ Tail(todo) \in Seq(Callbacks) /\ Len(Tail(todo)) = Len(todo) - 1
        BY <1>6, HeadTailProperties DEF SessionInv, Callback
    <2>3. /\ reading \in 1 .. MaxRequests
          /\ reading' = reading /\ err' = err /\ pc = "callback"
        BY <1>1, <1>6 DEF TypeOK, SessionInv, RequestPcs, InboxInv, Callback
    <2>4. /\ conn' \in [Clients -> Connection]
          /\ \A c \in Clients : /\ conn'[c].frames = conn[c].frames
                                /\ conn'[c].unsent = conn[c].unsent
                                /\ conn'[c].inbox = conn[c].inbox
        <3> DEFINE call == [request |-> reading, callback |-> Head(todo), error |-> error]
                   calls == Append(conn[current].calls, call)
        <3>1. call \in [request : 1 .. MaxRequests, callback : Callbacks, error : CallbackErrors]
            BY <2>2, <2>3
        <3>2. calls \in Seq([request : 1 .. MaxRequests, callback : Callbacks,
                             error : CallbackErrors])
            BY <1>1, <3>1, AppendProperties DEF Connection
        <3>3. conn' = [conn EXCEPT ![current] = [conn[current] EXCEPT !.calls = calls]]
            BY <2>1
        <3> HIDE DEF calls
        <3> QED
            BY <1>1, <3>2, <3>3 DEF Connection
    <2>5. TypeOK'
        <3>1. todo' \in Seq(CallbackNames)
            BY <2>1, <2>2, CallbacksAssumption
        <3>2. answer' \in Exceptions \cup {NMBS_ERROR_NONE}
            BY <2>1, ExceptionOfType
        <3> QED
            BY <1>1, <2>1, <2>3, <2>4, <3>1, <3>2 DEF TypeOK
    <2>6. SessionInv'
        <3>1. pc' = "callback" => todo' # << >>
            <4>1. Len(todo) \in Nat
                BY <2>2, LenProperties
            <4>2. pc' = "callback" => Len(todo') > 0
                BY <2>1, <2>2, <4>1
            <4> QED
                BY <4>2
        <3> QED
            BY <1>1, <2>1, <2>2, <2>3, <2>4, <3>1 DEF SessionInv, ServerPcs, RequestPcs
    <2>7. InboxInv'
        BY <2>4 DEF InboxInv
    <2> QED
        BY <2>5, <2>6, <2>7
<1>7. CASE Send
    <2>1. /\ pc = "send" /\ reading' = reading /\ todo' = todo /\ answer' = answer
          /\ pc' \in {"first_byte", "flush"}
          /\ err' \in {err, NMBS_ERROR_TRANSPORT}
          /\ \/ conn' = [conn EXCEPT ![current].answers =
                            Append(@, [request |-> reading, error |-> answer])]
             \/ conn' = conn
        BY <1>7 DEF Send
    <2>2. reading \in 1 .. MaxRequests
        BY <1>1, <2>1 DEF TypeOK, SessionInv, RequestPcs, InboxInv
    <2>3. /\ conn' \in [Clients -> Connection]
          /\ \A c \in Clients : /\ conn'[c].frames = conn[c].frames
                                /\ conn'[c].unsent = conn[c].unsent
                                /\ conn'[c].inbox = conn[c].inbox
        <3> DEFINE given == [request |-> reading, error |-> answer]
                   answers == Append(conn[current].answers, given)
        <3>1. given \in [request : 1 .. MaxRequests, error : Exceptions \cup {NMBS_ERROR_NONE}]
            BY <2>2 DEF TypeOK
        <3>2. answers \in Seq([request : 1 .. MaxRequests,
                               error : Exceptions \cup {NMBS_ERROR_NONE}])
            BY <1>1, <3>1, AppendProperties DEF Connection
        <3>3. \/ conn' = [conn EXCEPT ![current] = [conn[current] EXCEPT !.answers = answers]]
              \/ conn' = conn
            BY <2>1
        <3> HIDE DEF answers
        <3>4. CASE conn' = conn
            BY <1>1, <3>4
        <3>5. CASE conn' = [conn EXCEPT ![current] = [conn[current] EXCEPT !.answers = answers]]
            BY <1>1, <3>2, <3>5 DEF Connection
        <3> QED
            BY <3>3, <3>4, <3>5
    <2>4. TypeOK'
        BY <1>1, <2>1, <2>3 DEF TypeOK
    <2>5. SessionInv'
        BY <1>1, <2>1, <2>3 DEF SessionInv, ServerPcs, RequestPcs
    <2>6. InboxInv'
        BY <2>3 DEF InboxInv
    <2> QED
        BY <2>4, <2>5, <2>6
<1>8. CASE Flush("flush_line") \/ Flush("flush")
    <2>1. /\ pc \in {"flush_line", "flush"}
          /\ reading' = reading /\ todo' = todo /\ answer' = answer
          /\ pc' \in {"send", "close"} /\ (pc' = "send" => pc = "flush_line")
          /\ err' \in {err, NMBS_ERROR_NONE}
          /\ \E n \in modbus_transport_read(current, BufferSize, 0) : Consume(n)
        BY <1>8 DEF Flush, EndSession
    <2>2. PICK n \in modbus_transport_read(current, BufferSize, 0) : Consume(n)
        BY <2>1
    <2>3. n \in Int /\ n <= Len(conn[current].inbox)
        BY <1>1, <2>2, ReadFacts DEF BufferSize
    <2>4. /\ conn' \in [Clients -> Connection]
          /\ InboxInv'
          /\ \A c \in Clients : conn'[c].frames = conn[c].frames
        BY <1>1, <2>2, <2>3, InboxKept
    <2>5. TypeOK'
        BY <1>1, <2>1, <2>4 DEF TypeOK
    <2>6. SessionInv'
        BY <1>1, <2>1, <2>4 DEF SessionInv, ServerPcs, RequestPcs
    <2> QED
        BY <2>4, <2>5, <2>6
<1> QED
    BY <1>2, <1>3, <1>4, <1>5, <1>6, <1>7, <1>8 DEF Poll


(* The rest of ModbusTcp_run.                                              *)
LEMMA RunKeepsIInv ==
    ASSUME IInv, \/ Startup("tcs_lib_init", "tcs_socket", "invalid")
                 \/ Startup("tcs_socket", "tcs_bind", "open")
                 \/ Startup("tcs_bind", "tcs_listen", "open")
                 \/ Startup("tcs_listen", "accept", "listening")
                 \/ Accept \/ CloseClient \/ Cleanup
    PROVE  IInv'
<1> USE DEF IInv
<1>1. CASE \/ Startup("tcs_lib_init", "tcs_socket", "invalid")
           \/ Startup("tcs_socket", "tcs_bind", "open")
           \/ Startup("tcs_bind", "tcs_listen", "open")
           \/ Startup("tcs_listen", "accept", "listening")
           \/ Cleanup
    <2>1. TypeOK'
        BY <1>1 DEF Startup, Cleanup, TypeOK
    <2>2. SessionInv'
        BY <1>1 DEF Startup, Cleanup, SessionInv, ServerPcs, RequestPcs
    <2>3. InboxInv'
        BY <1>1 DEF Startup, Cleanup, InboxInv
    <2> QED
        BY <2>1, <2>2, <2>3
<1>2. CASE Accept
    <2>1. /\ pc = "accept" /\ conn' = conn /\ todo' = todo /\ pc' \in {"first_byte", "cleanup"}
          /\ listener' = listener /\ err' = err /\ reading' = reading /\ answer' = answer
          /\ opened' = opened
          /\ \/ /\ queue # << >> /\ current' = Head(queue) /\ queue' = Tail(queue)
             \/ pc' = "cleanup" /\ current' = current /\ queue' = queue
        BY <1>2 DEF Accept
    <2>2. /\ current' \in Clients \cup {NoClient}
          /\ queue' \in Seq(Clients)
          /\ pc' = "first_byte" => current' \in Clients
        BY <2>1, HeadTailProperties DEF TypeOK
    <2>3. TypeOK'
        BY <2>1, <2>2 DEF TypeOK
    <2>4. SessionInv'
        BY <2>1, <2>2 DEF SessionInv, ServerPcs, RequestPcs
    <2>5. InboxInv'
        BY <2>1 DEF InboxInv
    <2> QED
        BY <2>3, <2>4, <2>5
<1>3. CASE CloseClient
    <2>1. /\ current \in Clients
          /\ pc' \in {"accept", "returned"} /\ current' \in {current, NoClient}
          /\ conn' \in {conn, [conn EXCEPT ![current] = NoConnection]}
          /\ UNCHANGED <<listener, err, reading, todo, answer, queue, opened>>
        BY <1>3 DEF CloseClient, SessionInv, ServerPcs
    <2>2. NoConnection \in Connection
        BY ModbusTcpAssumption, EmptySeq DEF NoConnection, Connection
    <2>3. conn' \in [Clients -> Connection]
        BY <2>1, <2>2 DEF TypeOK
    <2>4. TypeOK'
        BY <2>1, <2>3 DEF TypeOK
    <2>5. SessionInv'
        BY <2>1 DEF SessionInv, ServerPcs, RequestPcs
    <2>6. \A c \in Clients : conn'[c] = conn[c] \/ conn'[c] = NoConnection
        BY <2>1 DEF TypeOK
    <2>7. NoConnection.frames = << >> /\ NoConnection.inbox = << >> /\ NoConnection.unsent = 0
        BY DEF NoConnection
    <2>8. InboxInv'
        BY <2>6, <2>7, ModbusTcpAssumption, EmptySeq DEF InboxInv
    <2> QED
        BY <2>4, <2>5, <2>8
<1> QED
    BY <1>1, <1>2, <1>3

\* A step of the network: one connection changes, and nothing else but the
\* queue and the count of connections.
ConnectionStep(c) ==
    /\ conn' \in [Clients -> Connection]
    /\ \A d \in Clients \ {c} : conn'[d] = conn[d]
    /\ UNCHANGED server
    /\ queue' \in Seq(Clients) /\ opened' \in [Clients -> 0 .. MaxConnections]

LEMMA ConnectionStepKeepsIInv ==
    ASSUME IInv, NEW c \in Clients, ConnectionStep(c),
           Len(conn'[c].frames) >= Len(conn[c].frames), Len(conn'[c].frames) <= MaxRequests,
           \A p \in 1 .. Len(conn'[c].inbox) : conn'[c].inbox[p] <= Len(conn'[c].frames),
           conn'[c].unsent > 0 => conn'[c].frames # << >>
    PROVE  IInv'
<1>1. /\ conn' \in [Clients -> Connection]
      /\ \A d \in Clients \ {c} : conn'[d] = conn[d]
      /\ UNCHANGED server
      /\ queue' \in Seq(Clients) /\ opened' \in [Clients -> 0 .. MaxConnections]
    BY DEF ConnectionStep
<1>2. TypeOK'
    BY <1>1 DEF IInv, TypeOK, server
<1>3. SessionInv'
    <2>1. Len(conn[c].frames) \in Nat /\ Len(conn'[c].frames) \in Nat
        BY <1>1, LenProperties DEF IInv, TypeOK, Connection
    <2>2. ASSUME pc \in RequestPcs
          PROVE  reading \in 1 .. Len(conn'[current].frames)
        <3>1. current \in Clients /\ reading \in 1 .. Len(conn[current].frames)
            BY <2>2 DEF IInv, SessionInv, ServerPcs, RequestPcs
        <3>2. CASE current = c
            BY <1>1, <2>1, <3>1, <3>2
        <3>3. CASE current # c
            BY <1>1, <3>1, <3>3
        <3> QED
            BY <3>2, <3>3
    <2> QED
        BY <1>1, <2>2 DEF IInv, SessionInv, server
<1>4. InboxInv'
    BY <1>1 DEF IInv, InboxInv
<1> QED
    BY <1>2, <1>3, <1>4 DEF IInv

(* The steps of the clients and the network.                               *)
LEMMA ClientKeepsIInv ==
    ASSUME IInv, NEW c \in Clients, Client(c)
    PROVE  IInv'
<1>1. /\ conn \in [Clients -> Connection] /\ conn[c] \in Connection
      /\ queue \in Seq(Clients) /\ opened \in [Clients -> 0 .. MaxConnections]
      /\ MaxConnections \in Nat
    BY ModbusTcpAssumption DEF IInv, TypeOK
<1>2. /\ conn[c].frames \in Seq(Frames) /\ Len(conn[c].frames) \in Nat
      /\ conn[c].inbox \in Seq(1 .. MaxRequests) /\ Len(conn[c].inbox) \in Nat
      /\ conn[c].unsent \in 0 .. 1 + HeaderPieces + BodyPieces
      /\ Len(conn[c].frames) <= MaxRequests
      /\ \A p \in 1 .. Len(conn[c].inbox) : conn[c].inbox[p] <= Len(conn[c].frames)
      /\ conn[c].unsent > 0 => conn[c].frames # << >>
    BY <1>1, LenProperties DEF IInv, InboxInv, Connection
<1>3. CASE Connect(c)
    <2> DEFINE new == [conn[c] EXCEPT !.peer = "open"]
    <2>1. /\ new \in Connection /\ new.frames = conn[c].frames
          /\ new.inbox = conn[c].inbox /\ new.unsent = conn[c].unsent
        BY <1>1 DEF Connection
    <2>2. /\ conn' = [conn EXCEPT ![c] = new] /\ UNCHANGED server
          /\ queue' = Append(queue, c) /\ opened' = [opened EXCEPT ![c] = @ + 1]
          /\ opened[c] < MaxConnections
        BY <1>3 DEF Connect
    <2> HIDE DEF new
    <2>3. queue' \in Seq(Clients) /\ opened' \in [Clients -> 0 .. MaxConnections]
        BY <1>1, <2>2, AppendProperties
    <2>4. ConnectionStep(c) /\ conn'[c] = new
        BY <1>1, <2>1, <2>2, <2>3 DEF ConnectionStep
    <2> QED
        BY <1>2, <2>1, <2>4, ConnectionStepKeepsIInv
<1>4. ASSUME NEW frame \in Frames, Request(c, frame) PROVE IInv'
    <2> DEFINE frames == Append(conn[c].frames, frame)
               unsent == 1 + HeaderPieces + PiecesOfBody(frame)
               new == [[conn[c] EXCEPT !.frames = frames] EXCEPT !.unsent = unsent]
    <2>1. frames \in Seq(Frames) /\ frames # << >> /\ Len(frames) = Len(conn[c].frames) + 1
        BY <1>2, AppendProperties
    <2>2. unsent \in 0 .. 1 + HeaderPieces + BodyPieces
        BY ModbusTcpAssumption DEF PiecesOfBody
    <2>3. /\ conn' = [conn EXCEPT ![c] = new] /\ UNCHANGED <<server, queue, opened>>
          /\ Len(conn[c].frames) < MaxRequests
        BY <1>1, <1>4 DEF Request
    <2> HIDE DEF frames, unsent
    <2>4. /\ new \in Connection /\ new.frames = frames
          /\ new.inbox = conn[c].inbox /\ new.unsent = unsent
        BY <1>1, <2>1, <2>2 DEF Connection
    <2> HIDE DEF new
    <2>5. Len(frames) <= MaxRequests
        BY <1>2, <2>1, <2>3, ModbusTcpAssumption
    <2>6. \A p \in 1 .. Len(new.inbox) : new.inbox[p] <= Len(new.frames)
        <3> SUFFICES ASSUME NEW p \in 1 .. Len(conn[c].inbox)
                     PROVE  conn[c].inbox[p] <= Len(conn[c].frames) + 1
            BY <2>1, <2>4
        <3> DEFINE of == conn[c].inbox[p]
                   n == Len(conn[c].frames)
        <3>1. of \in 1 .. MaxRequests
            BY <1>2, ElementOfSeq
        <3>2. of <= n /\ n \in Nat
            BY <1>2
        <3>3. of \in Nat
            BY <3>1, ModbusTcpAssumption
        <3> HIDE DEF of, n
        <3>4. of <= n + 1
            BY <3>2, <3>3
        <3> QED
            BY <3>4 DEF of, n
    <2>7. ConnectionStep(c) /\ conn'[c] = new
        BY <1>1, <2>3, <2>4 DEF ConnectionStep
    <2> QED
        BY <1>2, <2>1, <2>4, <2>5, <2>6, <2>7, ConnectionStepKeepsIInv
<1>5. CASE Arrive(c)
    <2> DEFINE inbox == Append(conn[c].inbox, Len(conn[c].frames))
               unsent == conn[c].unsent - 1
               new == [[conn[c] EXCEPT !.inbox = inbox] EXCEPT !.unsent = unsent]
    <2>1. /\ conn' = [conn EXCEPT ![c] = new] /\ UNCHANGED <<server, queue, opened>>
          /\ conn[c].unsent > 0
        BY <1>1, <1>5 DEF Arrive
    <2>2. unsent \in 0 .. 1 + HeaderPieces + BodyPieces
        <3> DEFINE m == 1 + HeaderPieces + BodyPieces
                   u == conn[c].unsent
        <3>1. m \in Nat /\ u \in 0 .. m /\ u > 0
            BY <1>2, <2>1, ModbusTcpAssumption
        <3> HIDE DEF m, u
        <3>2. u - 1 \in 0 .. m
            BY <3>1
        <3> QED
            BY <3>2 DEF m, u
    <2>3. Len(conn[c].frames) \in 1 .. MaxRequests
        BY <1>2, <2>1, ModbusTcpAssumption
    <2>4. /\ inbox \in Seq(1 .. MaxRequests) /\ Len(inbox) = Len(conn[c].inbox) + 1
          /\ \A p \in 1 .. Len(conn[c].inbox) : inbox[p] = conn[c].inbox[p]
          /\ inbox[Len(conn[c].inbox) + 1] = Len(conn[c].frames)
        BY <1>2, <2>3, AppendProperties
    <2> HIDE DEF inbox, unsent
    <2>5. /\ new \in Connection /\ new.frames = conn[c].frames
          /\ new.inbox = inbox /\ new.unsent = unsent
        BY <1>1, <2>2, <2>4 DEF Connection
    <2> HIDE DEF new
    <2>6. \A p \in 1 .. Len(new.inbox) : new.inbox[p] <= Len(new.frames)
        <3> DEFINE n == Len(conn[c].inbox)
        <3>1. n \in Nat /\ Len(new.inbox) = n + 1 /\ Len(conn[c].frames) \in Nat
            BY <1>2, <2>4, <2>5
        <3>2. \A p \in 1 .. n : new.inbox[p] <= Len(new.frames)
            BY <1>2, <2>4, <2>5
        <3>3. new.inbox[n + 1] <= Len(new.frames)
            BY <2>4, <2>5, <3>1
        <3> HIDE DEF n
        <3> QED
            BY <3>1, <3>2, <3>3
    <2>7. ConnectionStep(c) /\ conn'[c] = new
        BY <1>1, <2>1, <2>5 DEF ConnectionStep
    <2> QED
        BY <1>2, <2>1, <2>5, <2>6, <2>7, ConnectionStepKeepsIInv
<1>6. CASE Close(c)
    <2> DEFINE new == [conn[c] EXCEPT !.peer = "closed"]
    <2>1. /\ new \in Connection /\ new.frames = conn[c].frames
          /\ new.inbox = conn[c].inbox /\ new.unsent = conn[c].unsent
        BY <1>1 DEF Connection
    <2>2. conn' = [conn EXCEPT ![c] = new] /\ UNCHANGED <<server, queue, opened>>
        BY <1>6 DEF Close
    <2> HIDE DEF new
    <2>3. ConnectionStep(c) /\ conn'[c] = new
        BY <1>1, <2>1, <2>2 DEF ConnectionStep
    <2> QED
        BY <1>2, <2>1, <2>3, ConnectionStepKeepsIInv
<1>7. CASE Reset(c)
    <2> DEFINE new == [[conn[c] EXCEPT !.peer = "reset"] EXCEPT !.inbox = << >>]
    <2>1. /\ new \in Connection /\ new.frames = conn[c].frames
          /\ new.inbox = << >> /\ new.unsent = conn[c].unsent
        BY <1>1, EmptySeq DEF Connection
    <2>2. conn' = [conn EXCEPT ![c] = new] /\ UNCHANGED <<server, queue, opened>>
        BY <1>1, <1>7 DEF Reset
    <2> HIDE DEF new
    <2>3. \A p \in 1 .. Len(new.inbox) : new.inbox[p] <= Len(new.frames)
        BY <2>1, EmptySeq
    <2>4. ConnectionStep(c) /\ conn'[c] = new
        BY <1>1, <2>1, <2>2 DEF ConnectionStep
    <2> QED
        BY <1>2, <2>1, <2>3, <2>4, ConnectionStepKeepsIInv
<1> QED
    BY <1>3, <1>4, <1>5, <1>6, <1>7 DEF Client

LEMMA NextKeepsIInv == IInv /\ [Next]_vars => IInv'
<1> SUFFICES ASSUME IInv, [Next]_vars PROVE IInv'
    OBVIOUS
<1>1. CASE UNCHANGED vars
    BY <1>1 DEF vars, IInv, TypeOK, SessionInv, InboxInv
<1>2. CASE Server
    BY <1>2, PollKeepsIInv, RunKeepsIInv DEF Server
<1>3. CASE \E c \in Clients : Client(c)
    BY <1>3, ClientKeepsIInv
<1> QED
    BY <1>1, <1>2, <1>3 DEF Next

LEMMA AlwaysIInv == Spec => []IInv
BY InitIInv, NextKeepsIInv, PTL DEF Spec

(* Every variable keeps its type: no callback the program left NULL is     *)
(* called, and nothing but an exception or success is answered             *)
(* (nanomodbus.c, ModbusTcp.c).                                            *)
THEOREM TypeCorrect == Spec => []TypeOK
<1>1. IInv => TypeOK
    BY DEF IInv
<1> QED
    BY <1>1, AlwaysIInv, PTL

-----------------------------------------------------------------------------
(* The response fits, the socket is closed.                                *)

\* A request keeps its number and its frame until its connection is closed.
LEMMA FramesGrow ==
    ASSUME IInv, [Next]_vars, ~CloseClient, NEW c \in Clients
    PROVE  /\ Len(conn[c].frames) \in Nat /\ Len(conn'[c].frames) \in Nat
           /\ Len(conn[c].frames) <= Len(conn'[c].frames)
           /\ \A i \in 1 .. Len(conn[c].frames) : conn'[c].frames[i] = conn[c].frames[i]
<1>1. IInv'
    BY NextKeepsIInv
<1>2. /\ conn \in [Clients -> Connection] /\ conn[c].frames \in Seq(Frames)
      /\ Len(conn[c].frames) \in Nat /\ Len(conn'[c].frames) \in Nat
    BY <1>1, LenProperties DEF IInv, TypeOK, Connection
<1>3. ASSUME \A d \in Clients : conn'[d].frames = conn[d].frames
      PROVE  /\ Len(conn[c].frames) <= Len(conn'[c].frames)
             /\ \A i \in 1 .. Len(conn[c].frames) : conn'[c].frames[i] = conn[c].frames[i]
    BY <1>2, <1>3
<1>4. ASSUME conn' = conn
      PROVE  \A d \in Clients : conn'[d].frames = conn[d].frames
    BY <1>4
<1>5. ASSUME NEW d \in Clients, Client(d)
      PROVE  /\ Len(conn[c].frames) <= Len(conn'[c].frames)
             /\ \A i \in 1 .. Len(conn[c].frames) : conn'[c].frames[i] = conn[c].frames[i]
    <2>1. CASE Connect(d) \/ Arrive(d) \/ Close(d) \/ Reset(d)
        <3>1. \A e \in Clients : conn'[e].frames = conn[e].frames
            <4>1. CASE Connect(d)
                BY <1>2, <4>1 DEF Connect, Connection
            <4>2. CASE Arrive(d)
                BY <1>2, <4>2 DEF Arrive, Connection
            <4>3. CASE Close(d)
                BY <1>2, <4>3 DEF Close, Connection
            <4>4. CASE Reset(d)
                BY <1>2, <4>4 DEF Reset, Connection
            <4> QED
                BY <2>1, <4>1, <4>2, <4>3, <4>4
        <3> QED
            BY <1>3, <3>1
    <2>2. ASSUME NEW frame \in Frames, Request(d, frame)
          PROVE  /\ Len(conn[c].frames) <= Len(conn'[c].frames)
                 /\ \A i \in 1 .. Len(conn[c].frames) : conn'[c].frames[i] = conn[c].frames[i]
        <3>1. \/ conn'[c].frames = conn[c].frames
              \/ conn'[c].frames = Append(conn[c].frames, frame)
            BY <1>2, <2>2 DEF Request, Connection
        <3>2. /\ Len(Append(conn[c].frames, frame)) = Len(conn[c].frames) + 1
              /\ \A i \in 1 .. Len(conn[c].frames) :
                    Append(conn[c].frames, frame)[i] = conn[c].frames[i]
            BY <1>2, AppendProperties
        <3> QED
            BY <1>2, <3>1, <3>2
    <2> QED
        BY <1>5, <2>1, <2>2 DEF Client
<1>6. CASE Server
    <2>1. CASE ReadFirstByte \/ ReadHeader \/ ReadBody \/ Flush("flush_line") \/ Flush("flush")
        <3>1. \A d \in Clients : conn'[d].frames = conn[d].frames
            <4>1. \E n : Consume(n)
                BY <2>1 DEF ReadFirstByte, ReadHeader, ReadBody, Flush
            <4>2. PICK inbox : conn' = [conn EXCEPT ![current].inbox = inbox]
                BY <4>1 DEF Consume
            <4> QED
                BY <1>2, <4>2 DEF Connection
        <3> QED
            BY <1>3, <3>1
    <2>2. CASE Callback \/ Send
        <3>1. \A d \in Clients : conn'[d].frames = conn[d].frames
            <4>1. CASE Callback
                <5>1. PICK calls : conn' = [conn EXCEPT ![current].calls = calls]
                    BY <4>1 DEF Callback
                <5> QED
                    BY <1>2, <5>1 DEF Connection
            <4>2. CASE Send
                <5>1. \/ conn' = conn
                      \/ \E answers : conn' = [conn EXCEPT ![current].answers = answers]
                    BY <4>2 DEF Send
                <5>2. ASSUME NEW answers, conn' = [conn EXCEPT ![current].answers = answers]
                      PROVE  \A d \in Clients : conn'[d].frames = conn[d].frames
                    BY <1>2, <5>2 DEF Connection
                <5> QED
                    BY <5>1, <5>2
            <4> QED
                BY <2>2, <4>1, <4>2
        <3> QED
            BY <1>3, <3>1
    <2>3. CASE \/ Startup("tcs_lib_init", "tcs_socket", "invalid")
               \/ Startup("tcs_socket", "tcs_bind", "open")
               \/ Startup("tcs_bind", "tcs_listen", "open")
               \/ Startup("tcs_listen", "accept", "listening")
               \/ Accept \/ Handle \/ Cleanup
        BY <1>3, <1>4, <2>3 DEF Startup, Accept, Handle, Cleanup
    <2> QED
        BY <1>6, <2>1, <2>2, <2>3 DEF Server, Poll
<1>7. CASE UNCHANGED vars
    BY <1>3, <1>4, <1>7 DEF vars
<1> QED
    BY <1>2, <1>5, <1>6, <1>7 DEF Next

\* Nothing is answered without an error that a handler's checks refuse.
CheckedInv ==
    /\ pc = "callback" => RequestFault(Frame.pdu) = NMBS_ERROR_NONE
    /\ pc \in {"send", "flush_line"} =>
          answer # NMBS_ERROR_NONE \/ RequestFault(Frame.pdu) = NMBS_ERROR_NONE

LEMMA NextKeepsCheckedInv ==
    IInv /\ CheckedInv /\ [Next]_vars => CheckedInv'
<1> SUFFICES ASSUME IInv, CheckedInv, [Next]_vars
             PROVE  CheckedInv'
    OBVIOUS
<1> DEFINE Pcs == {"handle", "callback", "send", "flush_line"}
<1>1. ASSUME pc \in Pcs, ~CloseClient, current' = current, reading' = reading
      PROVE  Frame' = Frame
    <2>1. current \in Clients /\ reading \in 1 .. Len(conn[current].frames)
        BY <1>1 DEF IInv, SessionInv, ServerPcs, RequestPcs
    <2>2. conn'[current].frames[reading] = conn[current].frames[reading]
        BY <1>1, <2>1, FramesGrow
    <2> QED
        BY <1>1, <2>2 DEF Frame
<1>2. CASE Server
    <2>1. CASE Handle
        <3>1. /\ pc = "handle" /\ current' = current /\ reading' = reading
              /\ \/ /\ pc' = "flush_line" /\ answer' = RequestFault(Frame.pdu)
                    /\ Frame.pdu.function \notin HandledFunctions
                 \/ /\ pc' = "send" /\ answer' = RequestFault(Frame.pdu)
                    /\ RequestFault(Frame.pdu) \in Exceptions
                 \/ pc' = "flush"
                 \/ pc' = "callback" /\ RequestFault(Frame.pdu) = NMBS_ERROR_NONE
              /\ ~CloseClient
            BY <2>1 DEF Handle, CloseClient, nmbs_error_is_exception
        <3>2. Frame' = Frame
            BY <1>1, <3>1
        <3>3. Frame.pdu.function \notin HandledFunctions =>
                 RequestFault(Frame.pdu) = NMBS_EXCEPTION_ILLEGAL_FUNCTION
            BY DEF RequestFault, HandledFunctions
        <3>4. NMBS_ERROR_NONE \notin Exceptions /\ NMBS_EXCEPTION_ILLEGAL_FUNCTION \in Exceptions
            BY DEF Exceptions, NMBS_ERROR_NONE, NMBS_EXCEPTION_ILLEGAL_FUNCTION,
               NMBS_EXCEPTION_ILLEGAL_DATA_ADDRESS, NMBS_EXCEPTION_ILLEGAL_DATA_VALUE,
               NMBS_EXCEPTION_SERVER_DEVICE_FAILURE
        <3> QED
            BY <3>1, <3>2, <3>3, <3>4 DEF CheckedInv
    <2>2. CASE Callback
        <3>1. /\ pc = "callback" /\ current' = current /\ reading' = reading
              /\ pc' \in {"callback", "send"} /\ ~CloseClient
            BY <2>2 DEF Callback, CloseClient
        <3>2. Frame' = Frame
            BY <1>1, <3>1
        <3> QED
            BY <3>1, <3>2 DEF CheckedInv
    <2>3. CASE Flush("flush_line")
        <3>1. /\ pc = "flush_line" /\ current' = current /\ reading' = reading
              /\ answer' = answer /\ pc' = "send" /\ ~CloseClient
            BY <2>3 DEF Flush, CloseClient
        <3>2. Frame' = Frame
            BY <1>1, <3>1
        <3> QED
            BY <3>1, <3>2 DEF CheckedInv
    <2>4. CASE \/ Startup("tcs_lib_init", "tcs_socket", "invalid")
               \/ Startup("tcs_socket", "tcs_bind", "open")
               \/ Startup("tcs_bind", "tcs_listen", "open")
               \/ Startup("tcs_listen", "accept", "listening")
               \/ Accept \/ ReadFirstByte \/ ReadHeader \/ ReadBody \/ Send
               \/ Flush("flush") \/ CloseClient \/ Cleanup
        <3>1. pc' \notin {"callback", "send", "flush_line"}
            BY <2>4 DEF Startup, Accept, ReadFirstByte, ReadHeader, ReadBody, Send, Flush,
               CloseClient, Cleanup, EndSession
        <3> QED
            BY <3>1 DEF CheckedInv
    <2> QED
        BY <1>2, <2>1, <2>2, <2>3, <2>4 DEF Server, Poll
<1>3. CASE UNCHANGED vars \/ \E c \in Clients : Client(c)
    <2>1. UNCHANGED server
        BY <1>3 DEF vars, server, Client, Connect, Request, Arrive, Close, Reset
    <2>2. ~CloseClient
        BY <2>1, ModbusTcpAssumption DEF server, CloseClient
    <2>3. pc \in Pcs => Frame' = Frame
        BY <1>1, <2>1, <2>2 DEF server
    <2> QED
        BY <2>1, <2>3 DEF CheckedInv, server
<1> QED
    BY <1>2, <1>3 DEF Next

LEMMA PduNumbers ==
    ASSUME NEW f \in PduFields
    PROVE  f.quantity \in Nat /\ f.bytes \in Nat
<1>1. f.quantity \in 0 .. AddressSpace - 1 /\ f.bytes \in 0 .. 255
    BY DEF PduFields
<1> QED
    BY <1>1

(* The response in the making fits msg.buf, and its byte count is that of  *)
(* the data that follows, for every request, callback and client           *)
(* (handle_read_discrete .. handle_write_file_record, nanomodbus.c).       *)
THEOREM ResponseFits == Spec => []AnswerFits
<1>1. Init => CheckedInv
    BY DEF Init, CheckedInv
<1>2. IInv /\ CheckedInv => AnswerFits
    <2> SUFFICES ASSUME IInv, CheckedInv, pc = "send"
                 PROVE  /\ ResponseSize(Frame.pdu, answer) <= BufferSize
                        /\ answer = NMBS_ERROR_NONE /\ Frame.pdu.function \in ReadFunctionCodes =>
                              ByteCount(Frame.pdu) = DataBytes(Frame.pdu)
        BY DEF AnswerFits
    <2> DEFINE f == Frame.pdu
    <2>1. Frame \in Frames
        <3>1. current \in Clients /\ reading \in 1 .. Len(conn[current].frames)
            BY DEF IInv, SessionInv, ServerPcs, RequestPcs
        <3>2. conn[current].frames \in Seq(Frames)
            BY <3>1 DEF IInv, TypeOK, Connection
        <3> QED
            BY <3>1, <3>2, ElementOfSeq DEF Frame
    <2>2. f \in PduFields
        BY <2>1, ModbusTcpAssumption DEF FrameRecord
    <2>3. CASE answer # NMBS_ERROR_NONE
        BY <2>3 DEF ResponseSize, HeaderSize, BufferSize
    <2>4. CASE answer = NMBS_ERROR_NONE
        <3>1. Passed(f)
            BY <2>2, <2>4, RequestFaultMeans DEF CheckedInv
        <3>2. f.function = 20 => f.quantity <= 124
            BY <2>1, <3>1, ModbusTcpAssumption DEF Passed
        <3>3. /\ f.quantity \in Nat /\ f.bytes \in Nat
              /\ f.function \in {1, 2} => f.quantity <= 2000
              /\ f.function \in {3, 4, 23} => f.quantity <= 125
            BY <2>2, <3>1, PduNumbers DEF Passed
        <3> HIDE DEF f
        <3>4. CASE f.function \in {1, 2}
            <4>1. (f.quantity + 7) \div 8 \in 0 .. 250
                BY <3>3, <3>4
            <4>2. ByteCount(f) = (f.quantity + 7) \div 8 /\ DataBytes(f) = ByteCount(f)
                BY <3>4, <4>1 DEF ByteCount, DataBytes
            <4> QED
                BY <2>4, <3>4, <4>1, <4>2
                   DEF f, ResponseSize, HeaderSize, BufferSize, ReadFunctionCodes
        <3>5. CASE f.function \in {3, 4, 23}
            <4>1. 2 * f.quantity \in 0 .. 250
                BY <3>3, <3>5
            <4>2. ByteCount(f) = 2 * f.quantity /\ DataBytes(f) = 2 * f.quantity
                BY <3>5, <4>1 DEF ByteCount, DataBytes
            <4> QED
                BY <2>4, <3>5, <4>1, <4>2
                   DEF f, ResponseSize, HeaderSize, BufferSize, ReadFunctionCodes
        <3>6. CASE f.function = 20
            <4>1. 2 + 2 * f.quantity \in 0 .. 250
                BY <3>2, <3>3, <3>6
            <4>2. ByteCount(f) = 2 + 2 * f.quantity /\ DataBytes(f) = 2 + 2 * f.quantity
                BY <3>6, <4>1 DEF ByteCount, DataBytes
            <4> QED
                BY <2>4, <3>6, <4>1, <4>2
                   DEF f, ResponseSize, HeaderSize, BufferSize, ReadFunctionCodes
        <3>7. CASE f.function \notin ReadFunctionCodes
            <4>1. f.function = 21 => f.bytes <= 251
                BY <3>1 DEF Passed
            <4> QED
                BY <2>4, <3>3, <3>7, <4>1 DEF f, ResponseSize, HeaderSize, BufferSize
        <3> QED
            BY <3>4, <3>5, <3>6, <3>7 DEF ReadFunctionCodes
    <2> QED
        BY <2>3, <2>4
<1>3. Spec => []CheckedInv
    BY <1>1, NextKeepsCheckedInv, AlwaysIInv, PTL DEF Spec
<1> QED
    BY <1>2, <1>3, AlwaysIInv, PTL

(* Unless closing a socket fails, a session's socket is closed before the  *)
(* next client is accepted and before ModbusTcp_run returns                *)
(* (run_modbus_session, ModbusTcp.c).                                      *)
THEOREM SocketsAreClosed ==
    ASSUME "tcs_close" \notin FailingCalls
    PROVE  Spec => []ClientSocketClosed
<1> DEFINE Inv == pc \notin ServerPcs => current = NoClient
<1>1. Init => Inv
    BY DEF Init
<1>2. Inv /\ [Next]_vars => Inv'
    <2> SUFFICES ASSUME Inv, [Next]_vars PROVE Inv'
        OBVIOUS
    <2>1. CASE CloseClient
        BY <2>1 DEF CloseClient
    <2>2. CASE \/ Startup("tcs_lib_init", "tcs_socket", "invalid")
               \/ Startup("tcs_socket", "tcs_bind", "open")
               \/ Startup("tcs_bind", "tcs_listen", "open")
               \/ Startup("tcs_listen", "accept", "listening")
               \/ Cleanup
        BY <2>2 DEF Startup, Cleanup, ServerPcs
    <2>3. CASE Accept
        BY <2>3 DEF Accept, ServerPcs
    <2>4. CASE Poll
        BY <2>4 DEF Poll, ReadFirstByte, ReadHeader, ReadBody, Handle, Callback, Send, Flush,
           EndSession, ServerPcs
    <2>5. CASE UNCHANGED vars \/ \E c \in Clients : Client(c)
        BY <2>5 DEF vars, server, Client, Connect, Request, Arrive, Close, Reset
    <2> QED
        BY <2>1, <2>2, <2>3, <2>4, <2>5 DEF Next, Server
<1>3. Inv => ClientSocketClosed
    BY DEF ClientSocketClosed, ServerPcs
<1> QED
    BY <1>1, <1>2, <1>3, PTL DEF Spec

-----------------------------------------------------------------------------
(* Answers come in the order of the requests.                              *)

\* The pieces of a frame, and of the longest frame.
Size(frame) == 1 + HeaderPieces + PiecesOfBody(frame)
LongestSize == 1 + HeaderPieces + BodyPieces

\* Where the pieces of each request begin in the inbox of connection k, its
\* first piece being at 1: request i has the places first[i] .. first[i + 1] - 1,
\* those below 1 were read, and those beyond the inbox have not arrived.
Layout(k, first) ==
    LET n == Len(k.frames)
    IN  /\ first \in [1 .. n + 1 -> Int]
        /\ \A i \in 1 .. n : first[i + 1] = first[i] + Size(k.frames[i])
        /\ \A i \in 1 .. n + 1 : \A j \in 1 .. n + 1 : i < j => first[i] < first[j]
        /\ first[n + 1] = Len(k.inbox) + k.unsent + 1
        /\ n > 0 => first[n] <= Len(k.inbox) + 1
        /\ \A p \in 1 .. Len(k.inbox) : \A i \in 1 .. n :
              k.inbox[p] = i <=> first[i] <= p /\ p < first[i + 1]

\* All of request i has been sent and read.
AllRead(k, i) ==
    /\ i < Len(k.frames) \/ k.unsent = 0
    /\ \A p \in 1 .. Len(k.inbox) : k.inbox[p] # i

\* Nothing is left to read, and nothing will come.
Dead(k) == k.peer \in {"closed", "reset"} /\ Len(k.inbox) = 0

\* How far the server is in the frame it reads: between frames, past the
\* first byte of request reading, or past its header.
Place(c, first) ==
    /\ c = current /\ pc = "header" => first[reading] = 0
    /\ c = current /\ pc = "body" => first[reading] = -HeaderPieces
    /\ ~(c = current /\ pc \in {"header", "body"}) => \E i \in DOMAIN first : first[i] = 1

\* A session that is about to end is read no further.
ShapeInv ==
    pc # "returned" =>
        \A c \in Clients :
            \/ c = current /\ pc \in {"flush", "close"}
            \/ Dead(conn[c])
            \/ \E first : Layout(conn[c], first) /\ Place(c, first)

\* A client has less than msg.buf's size on its way, and nothing once it broke.
BurstInv ==
    \A c \in Clients :
        /\ Len(conn[c].inbox) + conn[c].unsent <= Len(conn[c].frames) * LongestSize
        /\ conn[c].peer = "reset" => Len(conn[c].inbox) = 0

LEMMA SizeFacts ==
    ASSUME NEW frame
    PROVE  /\ Size(frame) \in Nat /\ Size(frame) >= 1 /\ Size(frame) <= LongestSize
           /\ LongestSize \in Nat
BY ModbusTcpAssumption DEF Size, LongestSize, PiecesOfBody

LEMMA ConnectionFacts ==
    ASSUME NEW k \in Connection
    PROVE  /\ k.frames \in Seq(Frames) /\ Len(k.frames) \in Nat
           /\ k.inbox \in Seq(1 .. MaxRequests) /\ Len(k.inbox) \in Nat
           /\ \A p \in 1 .. Len(k.inbox) : k.inbox[p] \in Nat
           /\ k.unsent \in Nat
           /\ k.answers \in Seq([request : 1 .. MaxRequests,
                                 error : Exceptions \cup {NMBS_ERROR_NONE}])
           /\ Len(k.answers) \in Nat
           /\ k.calls \in Seq([request : 1 .. MaxRequests, callback : Callbacks,
                               error : CallbackErrors])
           /\ Len(k.calls) \in Nat
<1>1. /\ k.frames \in Seq(Frames) /\ k.inbox \in Seq(1 .. MaxRequests)
      /\ k.unsent \in 0 .. 1 + HeaderPieces + BodyPieces
      /\ k.answers \in Seq([request : 1 .. MaxRequests,
                            error : Exceptions \cup {NMBS_ERROR_NONE}])
      /\ k.calls \in Seq([request : 1 .. MaxRequests, callback : Callbacks,
                          error : CallbackErrors])
    BY DEF Connection
<1>2. /\ Len(k.frames) \in Nat /\ Len(k.inbox) \in Nat /\ Len(k.answers) \in Nat
      /\ Len(k.calls) \in Nat
    BY <1>1, LenProperties
<1>3. \A p \in 1 .. Len(k.inbox) : k.inbox[p] \in 1 .. MaxRequests
    BY <1>1, ElementOfSeq
<1> QED
    BY <1>1, <1>2, <1>3, ModbusTcpAssumption

\* Where request i is, all of it was read or some of it is in the inbox.
LEMMA AllReadMeans ==
    ASSUME NEW k \in Connection, NEW first, Layout(k, first),
           NEW i \in 1 .. Len(k.frames)
    PROVE  AllRead(k, i) <=> first[i + 1] <= 1
<1> DEFINE n == Len(k.frames)
<1>1. /\ n \in Nat /\ Len(k.inbox) \in Nat /\ k.unsent \in Nat
      /\ first \in [1 .. n + 1 -> Int]
      /\ \A j \in 1 .. n + 1 : \A l \in 1 .. n + 1 : j < l => first[j] < first[l]
      /\ first[n + 1] = Len(k.inbox) + k.unsent + 1
      /\ n > 0 => first[n] <= Len(k.inbox) + 1
      /\ \A p \in 1 .. Len(k.inbox) : k.inbox[p] = i <=> first[i] <= p /\ p < first[i + 1]
    BY ConnectionFacts DEF Layout
<1> HIDE DEF n
<1>2. i \in 1 .. n /\ i + 1 \in 1 .. n + 1 /\ n \in 1 .. n + 1 /\ n + 1 \in 1 .. n + 1
    BY <1>1 DEF n
<1>3. first[i] \in Int /\ first[i + 1] \in Int /\ first[n] \in Int /\ first[i] < first[i + 1]
    BY <1>1, <1>2
<1>4. ASSUME first[i + 1] <= 1
      PROVE  /\ i < n \/ k.unsent = 0
             /\ \A p \in 1 .. Len(k.inbox) : k.inbox[p] # i
    <2>1. i = n => k.unsent = 0
        BY <1>1, <1>4
    <2>2. \A p \in 1 .. Len(k.inbox) : ~(p < first[i + 1])
        BY <1>1, <1>3, <1>4
    <2>3. \A p \in 1 .. Len(k.inbox) : k.inbox[p] # i
        BY <1>1, <2>2
    <2>4. i < n \/ i = n
        BY <1>1, <1>2
    <2> QED
        BY <2>1, <2>3, <2>4
<1>5. ASSUME first[i + 1] > 1, i < n \/ k.unsent = 0
      PROVE  \E p \in 1 .. Len(k.inbox) : k.inbox[p] = i
    <2>1. first[i + 1] <= Len(k.inbox) + 1
        <3>1. CASE i = n
            BY <1>1, <1>5, <3>1
        <3>2. CASE i < n
            <4>1. first[i + 1] <= first[n]
                <5>1. CASE i + 1 = n
                    BY <1>3, <5>1
                <5>2. CASE i + 1 < n
                    BY <1>1, <1>2, <1>3, <5>2
                <5> QED
                    BY <1>1, <1>2, <3>2, <5>1, <5>2
            <4> QED
                BY <1>1, <1>2, <1>3, <3>2, <4>1
        <3> QED
            BY <1>2, <1>1, <3>1, <3>2
    <2> DEFINE p == IF first[i] > 1 THEN first[i] ELSE 1
    <2>2. p \in 1 .. Len(k.inbox) /\ first[i] <= p /\ p < first[i + 1]
        <3>1. Len(k.inbox) \in Nat /\ first[i + 1] > 1
            BY <1>1, <1>5
        <3> QED
            BY <1>3, <2>1, <3>1
    <2> QED
        BY <1>1, <2>2
<1> QED
    BY <1>1, <1>3, <1>4, <1>5 DEF n, AllRead


\* Reading m pieces moves every request m places down.
LEMMA LayoutRead ==
    ASSUME NEW k \in Connection, NEW new \in Connection, NEW m \in Nat, NEW first,
           Layout(k, first), m <= Len(k.inbox),
           new.frames = k.frames, new.unsent = k.unsent,
           Len(new.inbox) = Len(k.inbox) - m,
           \A p \in 1 .. Len(new.inbox) : new.inbox[p] = k.inbox[p + m]
    PROVE  Layout(new, [i \in DOMAIN first |-> first[i] - m])
<1> DEFINE n == Len(k.frames)
           L == Len(k.inbox)
           moved == [i \in 1 .. n + 1 |-> first[i] - m]
<1>1. n \in Nat /\ L \in Nat /\ k.unsent \in Nat /\ m <= L /\ Len(new.inbox) = L - m
    BY ConnectionFacts
<1>2. first \in [1 .. n + 1 -> Int]
    BY DEF Layout
<1>3. \A i \in 1 .. n : first[i + 1] = first[i] + Size(k.frames[i])
    BY DEF Layout
<1>4. \A i \in 1 .. n + 1 : \A j \in 1 .. n + 1 : i < j => first[i] < first[j]
    BY DEF Layout
<1>5. first[n + 1] = L + k.unsent + 1 /\ (n > 0 => first[n] <= L + 1)
    BY DEF Layout
<1>6. \A p \in 1 .. L : \A i \in 1 .. n : k.inbox[p] = i <=> first[i] <= p /\ p < first[i + 1]
    BY DEF Layout
<1>7. [i \in DOMAIN first |-> first[i] - m] = moved
    BY <1>2
<1>8. \A p \in 1 .. L - m : new.inbox[p] = k.inbox[p + m]
    BY <1>1
<1>9. new.frames = k.frames /\ new.unsent = k.unsent
    OBVIOUS
<1>10. Len(new.frames) = n
    BY <1>9
<1> HIDE DEF n, L
<1>11. \A i \in 1 .. n + 1 : moved[i] = first[i] - m /\ first[i] \in Int
    BY <1>2
<1>12. moved \in [1 .. n + 1 -> Int]
    BY <1>2, <1>11
<1>13. \A i \in 1 .. n : i \in 1 .. n + 1 /\ i + 1 \in 1 .. n + 1
    BY <1>1
<1> HIDE DEF moved
<1>14. ASSUME NEW i \in 1 .. n
       PROVE  moved[i + 1] = moved[i] + Size(k.frames[i])
    <2> DEFINE a == first[i]
               b == first[i + 1]
               s == Size(k.frames[i])
    <2>1. moved[i] = a - m /\ moved[i + 1] = b - m /\ a \in Int /\ b \in Int
        BY <1>11, <1>13
    <2>2. b = a + s /\ s \in Int /\ m \in Int
        BY <1>1, <1>3, SizeFacts
    <2> HIDE DEF a, b, s
    <2>3. b - m = (a - m) + s
        BY <2>1, <2>2
    <2> QED
        BY <2>1, <2>3 DEF s
<1>15. ASSUME NEW i \in 1 .. n + 1, NEW j \in 1 .. n + 1, i < j
       PROVE  moved[i] < moved[j]
    <2>1. first[i] < first[j]
        BY <1>4, <1>15
    <2> QED
        BY <2>1, <1>11
<1>16. moved[n + 1] = (L - m) + k.unsent + 1
    <2>1. n \in Nat /\ L \in Nat /\ m \in Nat /\ k.unsent \in Nat
        BY <1>1
    <2>2. n + 1 \in 1 .. n + 1
        BY <2>1
    <2>3. moved[n + 1] = first[n + 1] - m /\ first[n + 1] = L + k.unsent + 1
        BY <1>5, <1>11, <2>2
    <2> QED
        BY <2>1, <2>3
<1>17. n > 0 => moved[n] <= (L - m) + 1
    <2>1. n \in Nat /\ L \in Nat /\ m \in Nat
        BY <1>1
    <2>2. n > 0 => n \in 1 .. n + 1
        BY <2>1
    <2>3. n > 0 => /\ moved[n] = first[n] - m /\ first[n] \in Int
                   /\ first[n] <= L + 1
        BY <1>5, <1>11, <2>2
    <2> QED
        BY <2>1, <2>3
<1>18. ASSUME NEW p \in 1 .. L - m, NEW i \in 1 .. n
       PROVE  new.inbox[p] = i <=> moved[i] <= p /\ p < moved[i + 1]
    <2>1. p + m \in 1 .. L
        BY <1>1
    <2>2. k.inbox[p + m] = i <=> first[i] <= p + m /\ p + m < first[i + 1]
        BY <1>6, <2>1
    <2>3. /\ first[i] \in Int /\ moved[i] = first[i] - m
          /\ first[i + 1] \in Int /\ moved[i + 1] = first[i + 1] - m
        BY <1>11, <1>13
    <2>4. new.inbox[p] = k.inbox[p + m]
        BY <1>8
    <2>5. (first[i] <= p + m <=> moved[i] <= p) /\ (p + m < first[i + 1] <=> p < moved[i + 1])
        BY <1>1, <2>3
    <2> QED
        BY <2>2, <2>4, <2>5
<1>19. Layout(new, moved)
    BY <1>1, <1>9, <1>10, <1>12, <1>14, <1>15, <1>16, <1>17, <1>18 DEF Layout
<1> QED
    BY <1>7, <1>19

\* A new request takes the places after the last one.
LEMMA LayoutRequest ==
    ASSUME NEW k \in Connection, NEW new \in Connection, NEW frame \in Frames, NEW first,
           Layout(k, first), k.unsent = 0,
           \A p \in 1 .. Len(k.inbox) : k.inbox[p] <= Len(k.frames),
           new.frames = Append(k.frames, frame), new.unsent = Size(frame),
           new.inbox = k.inbox
    PROVE  \E longer : /\ Layout(new, longer)
                       /\ DOMAIN first \subseteq DOMAIN longer
                       /\ \A i \in DOMAIN first : longer[i] = first[i]
<1> DEFINE n == Len(k.frames)
           L == Len(k.inbox)
           longer == [i \in 1 .. n + 1 + 1 |-> IF i = n + 1 + 1 THEN first[n + 1] + Size(frame)
                                           ELSE first[i]]
<1>1. n \in Nat /\ L \in Nat
    BY ConnectionFacts
<1>2. first \in [1 .. n + 1 -> Int]
    BY DEF Layout
<1>3. \A i \in 1 .. n : first[i + 1] = first[i] + Size(k.frames[i])
    BY DEF Layout
<1>4. \A i \in 1 .. n + 1 : \A j \in 1 .. n + 1 : i < j => first[i] < first[j]
    BY DEF Layout
<1>5. first[n + 1] = L + 1
    <2>1. first[n + 1] = L + k.unsent + 1
        BY DEF Layout
    <2> QED
        BY <1>1, <2>1
<1>6. \A p \in 1 .. L : \A i \in 1 .. n : k.inbox[p] = i <=> first[i] <= p /\ p < first[i + 1]
    BY DEF Layout
<1>7. /\ Len(new.frames) = n + 1
      /\ \A i \in 1 .. n : new.frames[i] = k.frames[i]
      /\ new.frames[n + 1] = frame
    BY ConnectionFacts, AppendProperties
<1>8. Size(frame) \in Nat /\ Size(frame) >= 1
    BY SizeFacts
<1>9. new.inbox = k.inbox /\ new.unsent = Size(frame) /\ Len(new.inbox) = L
    OBVIOUS
<1>10. \A p \in 1 .. L : k.inbox[p] \in Nat /\ k.inbox[p] <= n
    BY ConnectionFacts
<1> HIDE DEF n, L
<1>11. \A i \in 1 .. n + 1 : i \in 1 .. n + 1 + 1 /\ longer[i] = first[i] /\ first[i] \in Int
    BY <1>1, <1>2
<1>12. longer[n + 1 + 1] = first[n + 1] + Size(frame)
    BY <1>1
<1>13. longer \in [1 .. n + 1 + 1 -> Int]
    BY <1>1, <1>2, <1>8
<1>14. DOMAIN longer = 1 .. n + 1 + 1
    OBVIOUS
<1> HIDE DEF longer
<1>15. ASSUME NEW i \in 1 .. n + 1
       PROVE  longer[i + 1] = longer[i] + Size(new.frames[i])
    <2>1. CASE i = n + 1
        BY <1>1, <1>7, <1>11, <1>12, <2>1
    <2>2. CASE i \in 1 .. n
        <3>1. i + 1 \in 1 .. n + 1
            BY <1>1, <2>2
        <3> QED
            BY <1>3, <1>7, <1>11, <2>2, <3>1
    <2>3. i = n + 1 \/ i \in 1 .. n
        BY <1>1
    <2> QED
        BY <2>1, <2>2, <2>3
<1>16. ASSUME NEW i \in 1 .. n + 1 + 1, NEW j \in 1 .. n + 1 + 1, i < j
       PROVE  longer[i] < longer[j]
    <2>1. i \in 1 .. n + 1 /\ n + 1 \in 1 .. n + 1
        BY <1>1, <1>16
    <2>2. first[i] <= first[n + 1]
        <3>1. CASE i = n + 1
            BY <1>11, <2>1, <3>1
        <3>2. CASE i < n + 1
            BY <1>4, <1>11, <2>1, <3>2
        <3> QED
            BY <1>1, <2>1, <3>1, <3>2
    <2>3. CASE j = n + 1 + 1
        BY <1>8, <1>11, <1>12, <2>1, <2>2, <2>3
    <2>4. CASE j \in 1 .. n + 1
        BY <1>4, <1>11, <1>16, <2>1, <2>4
    <2> QED
        BY <1>1, <2>3, <2>4
<1>17. longer[n + 1 + 1] = L + Size(frame) + 1
    BY <1>1, <1>5, <1>8, <1>12
<1>18. longer[n + 1] <= L + 1 /\ longer[n + 1] = L + 1
    BY <1>1, <1>5, <1>11
<1>19. ASSUME NEW p \in 1 .. L, NEW i \in 1 .. n + 1
       PROVE  k.inbox[p] = i <=> longer[i] <= p /\ p < longer[i + 1]
    <2>1. CASE i \in 1 .. n
        <3>1. i + 1 \in 1 .. n + 1 /\ i \in 1 .. n + 1
            BY <1>1, <2>1
        <3>2. longer[i] = first[i] /\ longer[i + 1] = first[i + 1]
            BY <1>11, <3>1
        <3> QED
            BY <1>6, <2>1, <3>2
    <2>2. CASE i = n + 1
        <3>1. ~(longer[i] <= p)
            BY <1>1, <1>18, <2>2
        <3>2. k.inbox[p] # n + 1
            BY <1>1, <1>10
        <3> QED
            BY <3>1, <3>2, <2>2
    <2> QED
        BY <1>1, <2>1, <2>2
<1>20. Layout(new, longer)
    <2> DEFINE m == n + 1
    <2>1. m \in Nat /\ Len(new.frames) = m /\ Len(new.inbox) = L /\ new.inbox = k.inbox
        BY <1>1, <1>7, <1>9
    <2>2. /\ longer \in [1 .. m + 1 -> Int]
          /\ \A i \in 1 .. m : longer[i + 1] = longer[i] + Size(new.frames[i])
          /\ \A i \in 1 .. m + 1 : \A j \in 1 .. m + 1 : i < j => longer[i] < longer[j]
        BY <1>13, <1>15, <1>16
    <2>3. /\ longer[m + 1] = Len(new.inbox) + new.unsent + 1
          /\ longer[m] <= Len(new.inbox) + 1
        BY <1>9, <1>17, <1>18
    <2>4. \A p \in 1 .. L : \A i \in 1 .. m :
             new.inbox[p] = i <=> longer[i] <= p /\ p < longer[i + 1]
        BY <1>9, <1>19
    <2> HIDE DEF m
    <2> QED
        BY <2>1, <2>2, <2>3, <2>4 DEF Layout
<1>21. DOMAIN first \subseteq DOMAIN longer /\ \A i \in DOMAIN first : longer[i] = first[i]
    BY <1>1, <1>2, <1>11, <1>14
<1> QED
    BY <1>20, <1>21

\* A piece that arrives is of the last request, and takes the next place.
LEMMA LayoutArrive ==
    ASSUME NEW k \in Connection, NEW new \in Connection, NEW first,
           Layout(k, first), k.unsent > 0, k.frames # << >>,
           new.frames = k.frames, new.unsent = k.unsent - 1,
           new.inbox = Append(k.inbox, Len(k.frames))
    PROVE  Layout(new, first)
<1> DEFINE n == Len(k.frames)
           L == Len(k.inbox)
<1>1. n \in Nat /\ L \in Nat /\ k.unsent \in Nat /\ k.unsent > 0 /\ n > 0
    BY ConnectionFacts, EmptySeq
<1>2. first \in [1 .. n + 1 -> Int]
    BY DEF Layout
<1>3. \A i \in 1 .. n : first[i + 1] = first[i] + Size(k.frames[i])
    BY DEF Layout
<1>4. \A i \in 1 .. n + 1 : \A j \in 1 .. n + 1 : i < j => first[i] < first[j]
    BY DEF Layout
<1>5. first[n + 1] = L + k.unsent + 1 /\ first[n] <= L + 1
    BY <1>1 DEF Layout
<1>6. \A p \in 1 .. L : \A i \in 1 .. n : k.inbox[p] = i <=> first[i] <= p /\ p < first[i + 1]
    BY DEF Layout
<1>7. /\ Len(new.inbox) = L + 1
      /\ \A p \in 1 .. L : new.inbox[p] = k.inbox[p]
      /\ new.inbox[L + 1] = n
    <2>1. k.inbox \in Seq(Nat) /\ n \in Nat
        BY ConnectionFacts, ModbusTcpAssumption
    <2> QED
        BY <2>1, AppendProperties
<1>8. new.frames = k.frames /\ Len(new.frames) = n /\ new.unsent = k.unsent - 1
    OBVIOUS
<1> HIDE DEF n, L
<1>9. \A i \in 1 .. n + 1 : first[i] \in Int
    BY <1>2
<1>10. \A i \in 1 .. n : i \in 1 .. n + 1 /\ i + 1 \in 1 .. n + 1
    BY <1>1
<1>11. ASSUME NEW i \in 1 .. n
       PROVE  new.inbox[L + 1] = i <=> first[i] <= L + 1 /\ L + 1 < first[i + 1]
    <2>1. CASE i = n
        BY <1>1, <1>5, <1>7, <2>1
    <2>2. CASE i < n
        <3>1. first[i + 1] <= first[n]
            <4>1. CASE i + 1 = n
                BY <1>1, <1>9, <4>1
            <4>2. CASE i + 1 < n
                BY <1>1, <1>4, <1>9, <1>10, <4>2
            <4> QED
                BY <1>1, <2>2, <4>1, <4>2
        <3>2. first[i + 1] \in Int /\ first[n] \in Int
            BY <1>1, <1>9, <1>10
        <3>3. ~(L + 1 < first[i + 1])
            BY <1>1, <1>5, <3>1, <3>2
        <3> QED
            BY <1>7, <2>2, <3>3
    <2>3. i = n \/ i < n
        BY <1>1
    <2> QED
        BY <2>1, <2>2, <2>3
<1>12. ASSUME NEW p \in 1 .. L + 1, NEW i \in 1 .. n
       PROVE  new.inbox[p] = i <=> first[i] <= p /\ p < first[i + 1]
    <2>1. CASE p = L + 1
        BY <1>11, <2>1
    <2>2. CASE p \in 1 .. L
        BY <1>6, <1>7, <2>2
    <2>3. p = L + 1 \/ p \in 1 .. L
        BY <1>1
    <2> QED
        BY <2>1, <2>2, <2>3
<1>13. first[n + 1] = (L + 1) + (k.unsent - 1) + 1
    BY <1>1, <1>5
<1>14. first[n] <= L + 1 + 1
    BY <1>1, <1>5, <1>9
<1> QED
    BY <1>1, <1>2, <1>3, <1>4, <1>7, <1>8, <1>12, <1>13, <1>14 DEF Layout


-----------------------------------------------------------------------------
(* What a step does to a connection.                                       *)

\* Nothing to its requests and their pieces.
Still(k, new) ==
    /\ new.frames = k.frames /\ new.unsent = k.unsent /\ new.inbox = k.inbox
    /\ k.peer \in {"closed", "reset"} => new.peer \in {"closed", "reset"}
    /\ new.peer = "reset" => k.peer = "reset"

\* A request is begun.
Grown(k, new) ==
    /\ k.peer = "open" /\ k.unsent = 0
    /\ \E frame \in Frames : /\ new.frames = Append(k.frames, frame)
                             /\ new.unsent = Size(frame)
    /\ new.inbox = k.inbox /\ new.peer = "open"

\* A piece arrives.
Come(k, new) ==
    /\ k.peer = "open" /\ k.unsent > 0
    /\ new.frames = k.frames /\ new.unsent = k.unsent - 1
    /\ new.inbox = Append(k.inbox, Len(k.frames)) /\ new.peer = "open"

\* The connection breaks.
Broken(k, new) ==
    /\ new.frames = k.frames /\ new.unsent = k.unsent /\ new.inbox = << >>
    /\ new.peer = "reset"

\* Its first m pieces are read.
Read(k, new, m) ==
    /\ m \in Nat /\ m <= Len(k.inbox)
    /\ new.frames = k.frames /\ new.unsent = k.unsent /\ new.peer = k.peer
    /\ Len(new.inbox) = Len(k.inbox) - m
    /\ \A p \in 1 .. Len(new.inbox) : new.inbox[p] = k.inbox[p + m]

LEMMA ClientSteps ==
    ASSUME IInv, NEW c \in Clients, NEW d \in Clients, Client(d)
    PROVE  /\ UNCHANGED server
           /\ pc # "returned"
           /\ conn'[c].answers = conn[c].answers /\ conn'[c].calls = conn[c].calls
           /\ \/ Still(conn[c], conn'[c])
              \/ Grown(conn[c], conn'[c])
              \/ Come(conn[c], conn'[c])
              \/ Broken(conn[c], conn'[c])
<1>1. conn \in [Clients -> Connection]
    BY DEF IInv, TypeOK
<1>2. CASE Connect(d)
    BY <1>1, <1>2 DEF Connect, Connection, Still
<1>3. ASSUME NEW frame \in Frames, Request(d, frame)
      PROVE  /\ UNCHANGED server /\ pc # "returned"
             /\ conn'[c].answers = conn[c].answers /\ conn'[c].calls = conn[c].calls
             /\ Still(conn[c], conn'[c]) \/ Grown(conn[c], conn'[c])
    <2>1. CASE c = d
        <3>1. /\ conn[c].peer = "open" /\ conn[c].unsent = 0 /\ conn'[c].peer = "open"
              /\ conn'[c].frames = Append(conn[c].frames, frame)
              /\ conn'[c].unsent = Size(frame)
              /\ conn'[c].inbox = conn[c].inbox
              /\ conn'[c].answers = conn[c].answers /\ conn'[c].calls = conn[c].calls
            BY <1>1, <1>3, <2>1 DEF Request, Connection, Size
        <3> QED
            BY <1>3, <3>1 DEF Grown, Request
    <2>2. CASE c # d
        BY <1>1, <1>3, <2>2 DEF Request, Still
    <2> QED
        BY <2>1, <2>2
<1>4. CASE Arrive(d)
    <2>1. CASE c = d
        <3>1. /\ conn[c].peer = "open" /\ conn[c].unsent > 0 /\ conn'[c].peer = "open"
              /\ conn'[c].frames = conn[c].frames
              /\ conn'[c].unsent = conn[c].unsent - 1
              /\ conn'[c].inbox = Append(conn[c].inbox, Len(conn[c].frames))
              /\ conn'[c].answers = conn[c].answers /\ conn'[c].calls = conn[c].calls
            BY <1>1, <1>4, <2>1 DEF Arrive, Connection
        <3> QED
            BY <1>4, <3>1 DEF Come, Arrive
    <2>2. CASE c # d
        BY <1>1, <1>4, <2>2 DEF Arrive, Still
    <2> QED
        BY <2>1, <2>2
<1>5. CASE Close(d)
    BY <1>1, <1>5 DEF Close, Connection, Still
<1>6. CASE Reset(d)
    BY <1>1, <1>6 DEF Reset, Connection, Still, Broken
<1> QED
    BY <1>2, <1>3, <1>4, <1>5, <1>6 DEF Client

\* The steps of the server that read nothing.
QuietStep ==
    \/ Startup("tcs_lib_init", "tcs_socket", "invalid")
    \/ Startup("tcs_socket", "tcs_bind", "open")
    \/ Startup("tcs_bind", "tcs_listen", "open")
    \/ Startup("tcs_listen", "accept", "listening")
    \/ Accept \/ Handle \/ Callback \/ Send \/ Cleanup

LEMMA QuietSteps ==
    ASSUME IInv, NEW c \in Clients, QuietStep
    PROVE  /\ pc \notin {"first_byte", "header", "body", "flush_line", "flush", "close", "returned"}
           /\ pc' \notin {"header", "body"}
           /\ Still(conn[c], conn'[c])
           /\ ~Send => conn'[c].answers = conn[c].answers
           /\ ~Callback => conn'[c].calls = conn[c].calls
<1>1. conn \in [Clients -> Connection]
    BY DEF IInv, TypeOK
<1>2. CASE Callback
    <2>1. PICK calls : conn' = [conn EXCEPT ![current].calls = calls]
        BY <1>2 DEF Callback
    <2>2. Still(conn[c], conn'[c]) /\ conn'[c].answers = conn[c].answers
        BY <1>1, <2>1 DEF Connection, Still
    <2> QED
        BY <1>2, <2>2 DEF Callback
<1>3. CASE Send
    <2>1. \/ conn' = conn
          \/ \E answers : conn' = [conn EXCEPT ![current].answers = answers]
        BY <1>3 DEF Send
    <2>2. Still(conn[c], conn'[c]) /\ conn'[c].calls = conn[c].calls
        <3>1. CASE conn' = conn
            BY <3>1 DEF Still
        <3>2. ASSUME NEW answers, conn' = [conn EXCEPT ![current].answers = answers]
              PROVE  Still(conn[c], conn'[c]) /\ conn'[c].calls = conn[c].calls
            BY <1>1, <3>2 DEF Connection, Still
        <3> QED
            BY <2>1, <3>1, <3>2
    <2> QED
        BY <1>3, <2>2 DEF Send
<1>4. CASE \/ Startup("tcs_lib_init", "tcs_socket", "invalid")
           \/ Startup("tcs_socket", "tcs_bind", "open")
           \/ Startup("tcs_bind", "tcs_listen", "open")
           \/ Startup("tcs_listen", "accept", "listening")
           \/ Accept \/ Handle \/ Cleanup
    <2>1. conn' = conn
        BY <1>4 DEF Startup, Accept, Handle, Cleanup
    <2>2. /\ pc \notin {"first_byte", "header", "body", "flush_line", "flush", "close", "returned"}
          /\ pc' \notin {"header", "body"}
        BY <1>4 DEF Startup, Accept, Handle, Cleanup
    <2> QED
        BY <2>1, <2>2 DEF Still
<1> QED
    BY <1>2, <1>3, <1>4 DEF QuietStep

\* The steps of the server that read.
ReadStep == ReadFirstByte \/ ReadHeader \/ ReadBody \/ Flush("flush_line") \/ Flush("flush")

LEMMA ReadSteps ==
    ASSUME IInv, NEW n \in Int, current \in Clients, n <= Len(conn[current].inbox), Consume(n)
    PROVE  /\ Read(conn[current], conn'[current], Taken(n))
           /\ conn'[current].answers = conn[current].answers
           /\ conn'[current].calls = conn[current].calls
           /\ \A c \in Clients \ {current} : conn'[c] = conn[c]
<1>1. conn \in [Clients -> Connection] /\ Len(conn[current].inbox) \in Nat
    BY ConnectionFacts DEF IInv, TypeOK
<1>2. /\ Consumed(current, Taken(n))
      /\ \A c \in Clients \ {current} : conn'[c] = conn[c]
    BY <1>1, ConsumeFacts
<1>3. Taken(n) \in Nat /\ Taken(n) <= Len(conn[current].inbox)
    BY <1>1 DEF Taken
<1> QED
    BY <1>2, <1>3 DEF Consumed, Read

(* What was read stays read.                                               *)
LEMMA AllReadKept ==
    ASSUME NEW k \in Connection, NEW new \in Connection, NEW i \in 1 .. Len(k.frames),
           AllRead(k, i),
           \/ Still(k, new) \/ Grown(k, new) \/ Come(k, new) \/ Broken(k, new)
           \/ \E m : Read(k, new, m)
    PROVE  i \in 1 .. Len(new.frames) /\ AllRead(new, i)
<1>1. /\ k.frames \in Seq(Frames) /\ Len(k.frames) \in Nat /\ Len(k.inbox) \in Nat
      /\ k.unsent \in Nat
    BY ConnectionFacts
<1>2. CASE Still(k, new)
    BY <1>2 DEF Still, AllRead
<1>3. CASE Grown(k, new)
    <2>1. Len(new.frames) = Len(k.frames) + 1
        BY <1>1, <1>3, AppendProperties DEF Grown
    <2> QED
        BY <1>1, <1>3, <2>1 DEF Grown, AllRead
<1>4. CASE Come(k, new)
    <2>1. k.inbox \in Seq(Nat)
        BY ConnectionFacts, ModbusTcpAssumption
    <2>2. /\ Len(new.inbox) = Len(k.inbox) + 1
          /\ \A p \in 1 .. Len(k.inbox) : new.inbox[p] = k.inbox[p]
          /\ new.inbox[Len(k.inbox) + 1] = Len(k.frames)
        BY <1>1, <1>4, <2>1, AppendProperties DEF Come
    <2>3. i < Len(k.frames)
        BY <1>1, <1>4 DEF Come, AllRead
    <2>4. ASSUME NEW p \in 1 .. Len(new.inbox) PROVE new.inbox[p] # i
        <3>1. p = Len(k.inbox) + 1 \/ p \in 1 .. Len(k.inbox)
            BY <1>1, <2>2
        <3> QED
            BY <2>2, <2>3, <3>1 DEF AllRead
    <2> QED
        BY <1>4, <2>3, <2>4 DEF Come, AllRead
<1>5. CASE Broken(k, new)
    <2>1. Len(new.inbox) = 0
        BY <1>5, EmptySeq DEF Broken
    <2> QED
        BY <1>5, <2>1 DEF Broken, AllRead
<1>6. ASSUME NEW m, Read(k, new, m)
      PROVE  i \in 1 .. Len(new.frames) /\ AllRead(new, i)
    <2>1. ASSUME NEW p \in 1 .. Len(new.inbox) PROVE new.inbox[p] # i
        <3>1. p + m \in 1 .. Len(k.inbox)
            BY <1>1, <1>6 DEF Read
        <3>2. new.inbox[p] = k.inbox[p + m]
            BY <1>6 DEF Read
        <3> QED
            BY <3>1, <3>2 DEF AllRead
    <2> QED
        BY <1>6, <2>1 DEF Read, AllRead
<1> QED
    BY <1>2, <1>3, <1>4, <1>5, <1>6


\* Every step of the server is of one kind.
LEMMA ServerSteps ==
    ASSUME Server
    PROVE  QuietStep \/ ReadStep \/ CloseClient
BY DEF Server, Poll, QuietStep, ReadStep

\* A read of any kind has a result to consume.
LEMMA ReadStepConsumes ==
    ASSUME IInv, ReadStep
    PROVE  /\ current \in Clients
           /\ \E n \in Int : n <= Len(conn[current].inbox) /\ Consume(n)
<1>1. /\ current \in Clients
      /\ conn \in [Clients -> Connection]
    BY DEF IInv, TypeOK, SessionInv, ServerPcs, ReadStep, ReadFirstByte, ReadHeader, ReadBody, Flush
<1>2. \E count \in Nat : \E timeout :
         \E n \in modbus_transport_read(current, count, timeout) : Consume(n)
    <2>1. PiecesOfBody(Frame) \in Nat /\ HeaderPieces \in Nat /\ BufferSize \in Nat /\ 1 \in Nat
        BY ModbusTcpAssumption DEF PiecesOfBody, BufferSize
    <2>2. CASE ReadFirstByte
        BY <2>1, <2>2 DEF ReadFirstByte
    <2>3. CASE ReadHeader
        BY <2>1, <2>3 DEF ReadHeader
    <2>4. CASE ReadBody
        BY <2>1, <2>4 DEF ReadBody
    <2>5. CASE Flush("flush_line") \/ Flush("flush")
        BY <2>1, <2>5 DEF Flush
    <2> QED
        BY <2>2, <2>3, <2>4, <2>5 DEF ReadStep
<1> QED
    BY <1>1, <1>2, ReadFacts

LEMMA ConnectionChanges ==
    ASSUME IInv, [Next]_vars, NEW c \in Clients
    PROVE  \/ Still(conn[c], conn'[c])
           \/ Grown(conn[c], conn'[c])
           \/ Come(conn[c], conn'[c])
           \/ Broken(conn[c], conn'[c])
           \/ \E m : Read(conn[c], conn'[c], m)
           \/ conn'[c] = NoConnection
<1>1. conn \in [Clients -> Connection]
    BY DEF IInv, TypeOK
<1>2. CASE UNCHANGED vars
    BY <1>2 DEF vars, Still
<1>3. CASE QuietStep
    BY <1>3, QuietSteps
<1>4. CASE ReadStep
    <2>1. /\ current \in Clients
          /\ \E n \in Int : n <= Len(conn[current].inbox) /\ Consume(n)
        BY <1>4, ReadStepConsumes
    <2>2. /\ \E m : Read(conn[current], conn'[current], m)
          /\ \A d \in Clients \ {current} : conn'[d] = conn[d]
        BY <2>1, ReadSteps
    <2>3. c # current => Still(conn[c], conn'[c])
        BY <2>2 DEF Still
    <2> QED
        BY <2>2, <2>3
<1>5. CASE CloseClient
    <2>1. conn' \in {conn, [conn EXCEPT ![current] = NoConnection]}
        BY <1>5 DEF CloseClient
    <2>2. conn'[c] = conn[c] \/ conn'[c] = NoConnection
        BY <1>1, <2>1
    <2> QED
        BY <2>2 DEF Still
<1>6. CASE \E d \in Clients : Client(d)
    BY <1>6, ClientSteps
<1> QED
    BY <1>2, <1>3, <1>4, <1>5, <1>6, ServerSteps DEF Next


-----------------------------------------------------------------------------
(* The three invariants behind the order of answers.                       *)

LEMMA NextKeepsBurstInv == IInv /\ BurstInv /\ [Next]_vars => BurstInv'
<1> SUFFICES ASSUME IInv, BurstInv, [Next]_vars, NEW c \in Clients
             PROVE  /\ Len(conn'[c].inbox) + conn'[c].unsent <= Len(conn'[c].frames) * LongestSize
                    /\ conn'[c].peer = "reset" => Len(conn'[c].inbox) = 0
    BY DEF BurstInv
<1> DEFINE k == conn[c]
           new == conn'[c]
<1>1. IInv'
    BY NextKeepsIInv
<1>2. k \in Connection /\ new \in Connection
    BY <1>1 DEF IInv, TypeOK
<1>3. /\ Len(k.inbox) + k.unsent <= Len(k.frames) * LongestSize
      /\ k.peer = "reset" => Len(k.inbox) = 0
    BY DEF BurstInv
<1>4. /\ Len(k.inbox) \in Nat /\ Len(new.inbox) \in Nat /\ k.unsent \in Nat /\ new.unsent \in Nat
      /\ Len(k.frames) \in Nat /\ Len(new.frames) \in Nat /\ LongestSize \in Nat
    BY <1>2, ConnectionFacts, SizeFacts
<1> HIDE DEF k, new
<1>5. CASE Still(k, new)
    BY <1>3, <1>5 DEF Still, k, new
<1>6. CASE Grown(k, new)
    <2>1. PICK frame \in Frames : new.frames = Append(k.frames, frame) /\ new.unsent = Size(frame)
        BY <1>6 DEF Grown
    <2>2. Len(new.frames) = Len(k.frames) + 1
        BY <1>2, <2>1, ConnectionFacts, AppendProperties
    <2>3. new.unsent <= LongestSize
        BY <2>1, SizeFacts
    <2>4. Len(new.frames) * LongestSize = Len(k.frames) * LongestSize + LongestSize
        <3>1. \A a \in Nat : \A b \in Nat : (a + 1) * b = a * b + b
            OBVIOUS
        <3> QED
            BY <1>4, <2>2, <3>1
    <2>5. Len(k.frames) * LongestSize \in Nat
        <3>1. \A a \in Nat : \A b \in Nat : a * b \in Nat
            OBVIOUS
        <3> QED
            BY <1>4, <3>1
    <2>6. k.unsent = 0 /\ new.inbox = k.inbox
        BY <1>6 DEF Grown
    <2>7. Len(new.inbox) + new.unsent <= Len(k.frames) * LongestSize + LongestSize
        BY <1>3, <1>4, <2>3, <2>5, <2>6
    <2> QED
        BY <1>6, <2>4, <2>7 DEF new, Grown
<1>7. CASE Come(k, new)
    <2>1. k.inbox \in Seq(Nat)
        BY <1>2, ConnectionFacts, ModbusTcpAssumption
    <2>2. Len(new.inbox) = Len(k.inbox) + 1 /\ new.unsent = k.unsent - 1 /\ new.frames = k.frames
        BY <1>4, <1>7, <2>1, AppendProperties DEF Come
    <2>3. Len(new.inbox) + new.unsent = Len(k.inbox) + k.unsent
        BY <1>4, <2>2
    <2> QED
        BY <1>3, <1>7, <2>2, <2>3 DEF new, Come
<1>8. ASSUME Len(new.inbox) <= Len(k.inbox), new.unsent = k.unsent, new.frames = k.frames
      PROVE  Len(new.inbox) + new.unsent <= Len(new.frames) * LongestSize
    <2>1. \A x \in Nat : k.unsent + Len(k.inbox) <= x => Len(new.inbox) + new.unsent <= x
        BY <1>4, <1>8
    <2>2. \A a \in Nat : \A b \in Nat : a * b \in Nat
        OBVIOUS
    <2> QED
        BY <1>3, <1>4, <1>8, <2>1, <2>2
<1>9. CASE \E m : Read(k, new, m)
    <2>1. PICK m : Read(k, new, m)
        BY <1>9
    <2>2. /\ Len(new.inbox) <= Len(k.inbox) /\ new.peer = k.peer
          /\ new.unsent = k.unsent /\ new.frames = k.frames
        BY <1>4, <2>1 DEF Read
    <2> QED
        BY <1>3, <1>4, <1>8, <2>2 DEF new
<1>10. CASE Broken(k, new)
    BY <1>4, <1>8, <1>10, EmptySeq DEF Broken, new
<1>11. CASE new = NoConnection
    <2>1. Len(new.inbox) = 0 /\ new.unsent = 0 /\ Len(new.frames) = 0
        BY <1>11, EmptySeq DEF NoConnection
    <2> QED
        BY <1>4, <1>11, <2>1 DEF new, NoConnection
<1>12. \/ Still(k, new) \/ Grown(k, new) \/ Come(k, new) \/ Broken(k, new)
       \/ \E m : Read(k, new, m)
       \/ new = NoConnection
    BY ConnectionChanges DEF k, new
<1> QED
    BY <1>5, <1>6, <1>7, <1>9, <1>10, <1>11, <1>12 DEF new


\* Frames are read piece by piece and in order, or not at all any more.
LEMMA NextKeepsShapeInv == IInv /\ BurstInv /\ ShapeInv /\ [Next]_vars => ShapeInv'
<1> SUFFICES ASSUME IInv, BurstInv, ShapeInv, [Next]_vars,
                    pc' # "returned", NEW c \in Clients,
                    ~(c = current' /\ pc' \in {"flush", "close"}), ~Dead(conn'[c])
             PROVE  \E first : Layout(conn'[c], first) /\ Place(c, first)'
    BY DEF ShapeInv
<1> DEFINE k == conn[c]
           new == conn'[c]
<1>1. IInv'
    BY NextKeepsIInv
<1>2. k \in Connection /\ new \in Connection /\ conn \in [Clients -> Connection]
    BY <1>1 DEF IInv, TypeOK
<1>3. ASSUME pc # "returned", Still(k, new),
             ~(c = current /\ pc \in {"flush", "close"}),
             \/ UNCHANGED <<pc, current, reading>>
             \/ /\ ~(c = current /\ pc \in {"header", "body"})
                /\ ~(c = current' /\ pc' \in {"header", "body"})
      PROVE  \E first : Layout(new, first) /\ Place(c, first)'
    <2>1. ~Dead(k)
        BY <1>3 DEF Dead, Still
    <2>2. PICK first : Layout(k, first) /\ Place(c, first)
        BY <1>3, <2>1 DEF ShapeInv
    <2>3. Layout(new, first)
        BY <1>3, <2>2 DEF Still, Layout
    <2>4. Place(c, first)'
        BY <1>3, <2>2 DEF Place
    <2> QED
        BY <2>3, <2>4
<1>4. CASE UNCHANGED vars
    <2>1. UNCHANGED <<pc, current, reading, conn>>
        BY <1>4 DEF vars
    <2> QED
        BY <1>3, <2>1 DEF Still
<1>5. CASE QuietStep
    BY <1>3, <1>5, QuietSteps
<1>6. CASE CloseClient
    <2>1. /\ pc = "close" /\ pc' = "accept" /\ current' = NoClient
          /\ conn' = [conn EXCEPT ![current] = NoConnection]
        BY <1>6 DEF CloseClient
    <2>2. CASE c # current
        BY <1>2, <1>3, <2>1, <2>2 DEF Still
    <2>3. CASE c = current
        <3> DEFINE first == [i \in 1 .. 1 |-> 1]
        <3>1. new = NoConnection /\ Len(NoConnection.frames) = 0 /\ Len(NoConnection.inbox) = 0
              /\ NoConnection.unsent = 0
            BY <1>2, <2>1, <2>3, EmptySeq DEF NoConnection
        <3>2. Layout(NoConnection, first)
            BY <3>1 DEF Layout
        <3>3. Place(c, first)'
            BY <2>1 DEF Place
        <3> QED
            BY <3>1, <3>2, <3>3
    <2> QED
        BY <2>2, <2>3
<1>7. ASSUME NEW d \in Clients, Client(d)
      PROVE  \E first : Layout(new, first) /\ Place(c, first)'
    <2>1. /\ UNCHANGED <<pc, current, reading>> /\ pc # "returned"
          /\ Still(k, new) \/ Grown(k, new) \/ Come(k, new) \/ Broken(k, new)
        BY <1>7, ClientSteps DEF server
    <2>2. CASE Still(k, new)
        BY <1>3, <2>1, <2>2
    <2>3. ASSUME k.peer = "open"
          PROVE  \E first : Layout(k, first) /\ Place(c, first) /\ Place(c, first)'
        <3>1. PICK first : Layout(k, first) /\ Place(c, first)
            BY <2>1, <2>3 DEF ShapeInv, Dead
        <3>2. Place(c, first)'
            BY <2>1, <3>1 DEF Place
        <3> QED
            BY <3>1, <3>2
    <2>4. CASE Grown(k, new)
        <3>1. PICK first : Layout(k, first) /\ Place(c, first)
            BY <2>3, <2>4 DEF Grown
        <3>2. PICK frame \in Frames : /\ new.frames = Append(k.frames, frame)
                                      /\ new.unsent = Size(frame)
            BY <2>4 DEF Grown
        <3>3. k.unsent = 0 /\ new.inbox = k.inbox
            BY <2>4 DEF Grown
        <3>4. \A p \in 1 .. Len(k.inbox) : k.inbox[p] <= Len(k.frames)
            BY DEF IInv, InboxInv
        <3> HIDE DEF k, new
        <3>5. PICK longer : /\ Layout(new, longer)
                            /\ DOMAIN first \subseteq DOMAIN longer
                            /\ \A i \in DOMAIN first : longer[i] = first[i]
            BY <1>2, <3>1, <3>2, <3>3, <3>4, LayoutRequest
        <3>6. c = current /\ pc \in {"header", "body"} => reading \in DOMAIN first
            <4>1. first \in [1 .. Len(k.frames) + 1 -> Int] /\ Len(k.frames) \in Nat
                BY <1>2, <3>1, ConnectionFacts DEF Layout
            <4>2. c = current /\ pc \in {"header", "body"} => reading \in 1 .. Len(k.frames)
                BY DEF IInv, SessionInv, RequestPcs, k
            <4> QED
                BY <4>1, <4>2
        <3>7. Place(c, longer)'
            BY <2>1, <3>1, <3>5, <3>6 DEF Place
        <3> QED
            BY <3>5, <3>7 DEF new
    <2>5. CASE Come(k, new)
        <3>1. PICK first : Layout(k, first) /\ Place(c, first)'
            BY <2>3, <2>5 DEF Come
        <3>2. k.unsent > 0 /\ k.frames # << >>
            BY <2>5 DEF Come, IInv, InboxInv
        <3>3. Layout(new, first)
            BY <1>2, <2>5, <3>1, <3>2, LayoutArrive DEF Come
        <3> QED
            BY <3>1, <3>3
    <2>6. CASE Broken(k, new)
        BY <2>6, EmptySeq DEF Broken, Dead
    <2> QED
        BY <2>1, <2>2, <2>4, <2>5, <2>6

<1>8. CASE ReadStep
    <2>1. /\ current \in Clients /\ current' = current /\ pc # "returned"
          /\ pc \in {"first_byte", "header", "body", "flush_line", "flush"}
        BY <1>8 DEF IInv, SessionInv, ServerPcs, ReadStep, ReadFirstByte, ReadHeader, ReadBody,
           Flush
    <2>2. CASE c # current
        <3>1. \A d \in Clients \ {current} : conn'[d] = conn[d]
            BY <1>8, ReadStepConsumes, ReadSteps
        <3> QED
            BY <1>3, <2>1, <2>2, <3>1 DEF Still
    <2>3. ASSUME c = current, NEW n \in Int, n <= Len(k.inbox), Consume(n)
          PROVE  /\ Read(k, new, Taken(n)) /\ Taken(n) \in Nat
                 /\ pc # "flush" => \E first : Layout(k, first) /\ Place(c, first)
                 /\ \A first : Layout(k, first) =>
                       Layout(new, [i \in DOMAIN first |-> first[i] - Taken(n)])
        <3>1. Read(k, new, Taken(n))
            BY <2>1, <2>3, ReadSteps
        <3>2. Taken(n) \in Nat /\ Taken(n) <= Len(k.inbox)
            BY <3>1 DEF Read
        <3>3. ~Dead(k)
            <4>1. Dead(k) => Len(k.inbox) = 0 /\ Len(new.inbox) \in Nat
                BY <1>2, ConnectionFacts DEF Dead
            <4>2. Dead(k) => Dead(new)
                BY <3>1, <3>2, <4>1 DEF Dead, Read
            <4> QED
                BY <4>2
        <3>4. pc # "flush" => \E first : Layout(k, first) /\ Place(c, first)
            BY <2>1, <3>3 DEF ShapeInv
        <3> HIDE DEF k, new
        <3>5. ASSUME NEW first, Layout(k, first)
              PROVE  Layout(new, [i \in DOMAIN first |-> first[i] - Taken(n)])
            BY <1>2, <3>1, <3>5, LayoutRead DEF Read
        <3> QED
            BY <3>1, <3>2, <3>4, <3>5
    <2>4. ASSUME NEW first, Layout(k, first)
          PROVE  /\ Len(k.frames) \in Nat /\ Len(k.inbox) \in Nat /\ k.unsent \in Nat
                 /\ first \in [1 .. Len(k.frames) + 1 -> Int]
                 /\ DOMAIN first = 1 .. Len(k.frames) + 1
        BY <1>2, <2>4, ConnectionFacts DEF Layout
    <2>5. CASE c = current /\ ReadFirstByte
        <3>1. PICK n \in modbus_transport_read(current, 1, ReadTimeout) :
                 /\ Consume(n)
                 /\ \/ /\ recv(n, 1) = NMBS_ERROR_NONE
                       /\ reading' = Head(k.inbox)
                       /\ pc' = "header"
                    \/ /\ recv(n, 1) = NMBS_ERROR_TIMEOUT
                       /\ UNCHANGED pc
                    \/ pc' = "close"
            BY <2>5 DEF ReadFirstByte, EndSession
        <3>2. /\ n \in Int /\ n <= Len(k.inbox) /\ pc = "first_byte"
              /\ recv(n, 1) = NMBS_ERROR_NONE => n = 1
            BY <1>2, <2>1, <2>5, <3>1, ReadFacts DEF ReadFirstByte
        <3>3. PICK first : Layout(k, first) /\ Place(c, first)
            BY <2>3, <2>5, <3>1, <3>2
        <3> DEFINE moved == [i \in DOMAIN first |-> first[i] - Taken(n)]
        <3>4. Layout(new, moved)
            BY <2>3, <2>5, <3>1, <3>2, <3>3
        <3>5. PICK i \in DOMAIN first : first[i] = 1
            BY <2>5, <3>2, <3>3 DEF Place
        <3>6. /\ Len(k.frames) \in Nat /\ Len(k.inbox) \in Nat
              /\ first \in [1 .. Len(k.frames) + 1 -> Int]
              /\ DOMAIN first = 1 .. Len(k.frames) + 1
            BY <2>4, <3>3
        <3>7. CASE recv(n, 1) = NMBS_ERROR_NONE /\ reading' = Head(k.inbox) /\ pc' = "header"
            <4>1. Taken(n) = 1 /\ 1 \in 1 .. Len(k.inbox)
                BY <3>2, <3>6, <3>7 DEF Taken
            <4>2. reading' = k.inbox[1] /\ reading' \in 1 .. Len(k.frames)
                <5>1. /\ k.inbox \in Seq(1 .. MaxRequests)
                      /\ \A p \in 1 .. Len(k.inbox) : k.inbox[p] <= Len(k.frames)
                    BY <1>2, ConnectionFacts DEF IInv, InboxInv
                <5>2. k.inbox[1] \in 1 .. MaxRequests /\ k.inbox[1] <= Len(k.frames)
                    BY <4>1, <5>1, ElementOfSeq
                <5>3. Head(k.inbox) = k.inbox[1]
                    BY <4>1, <5>1
                <5> QED
                    BY <3>6, <3>7, <5>2, <5>3
            <4>3. first[reading'] <= 1 /\ 1 < first[reading' + 1]
                <5>1. \A p \in 1 .. Len(k.inbox) : \A x \in 1 .. Len(k.frames) :
                         k.inbox[p] = x <=> first[x] <= p /\ p < first[x + 1]
                    BY <3>3 DEF Layout
                <5> QED
                    BY <4>1, <4>2, <5>1
            <4>4. /\ \A x \in 1 .. Len(k.frames) + 1 : \A y \in 1 .. Len(k.frames) + 1 :
                        x < y => first[x] < first[y]
                BY <3>3 DEF Layout
            <4>5. i = reading'
                <5>1. i \in 1 .. Len(k.frames) + 1 /\ reading' \in 1 .. Len(k.frames) + 1
                      /\ reading' + 1 \in 1 .. Len(k.frames) + 1
                    <6>1. i \in 1 .. Len(k.frames) + 1
                        BY <3>6
                    <6>2. \A m \in Nat : \A x \in 1 .. m : x \in 1 .. m + 1 /\ x + 1 \in 1 .. m + 1
                        OBVIOUS
                    <6>3. Len(k.frames) \in Nat /\ reading' \in 1 .. Len(k.frames)
                        BY <3>6, <4>2
                    <6> QED
                        BY <6>1, <6>2, <6>3
                <5>2. ~(i < reading')
                    BY <3>5, <4>3, <4>4, <5>1, <3>6
                <5>3. ~(reading' + 1 < i)
                    <6>1. ASSUME reading' + 1 < i PROVE first[reading' + 1] < first[i]
                        BY <4>4, <5>1, <6>1
                    <6>2. first[reading' + 1] \in Int
                        BY <3>6, <5>1
                    <6> QED
                        BY <3>5, <4>3, <6>1, <6>2
                <5>4. reading' + 1 # i
                    BY <3>5, <4>3
                <5> QED
                    BY <3>6, <4>2, <5>1, <5>2, <5>3, <5>4
            <4>6. moved[reading'] = 0
                BY <3>5, <3>6, <4>1, <4>5
            <4>7. Place(c, moved)'
                BY <2>1, <2>5, <3>7, <4>6 DEF Place
            <4> QED
                BY <3>4, <4>7
        <3>8. CASE recv(n, 1) = NMBS_ERROR_TIMEOUT /\ UNCHANGED pc
            <4>1. n # 1
                BY <3>8 DEF recv, NMBS_ERROR_TIMEOUT, NMBS_ERROR_NONE
            <4>2. Taken(n) = 0
                <5>1. CASE Len(k.inbox) = 0
                    BY <3>2, <5>1 DEF Taken
                <5>2. CASE Len(k.inbox) >= 1
                    <6>1. Len(conn[current].inbox) >= 1
                        BY <2>5, <5>2
                    <6>2. CASE conn[current].peer = "reset"
                        <7>1. modbus_transport_read(current, 1, ReadTimeout) = {-1}
                            BY <6>2 DEF modbus_transport_read
                        <7> QED
                            BY <3>1, <7>1 DEF Taken
                    <6>3. CASE conn[current].peer # "reset"
                        <7>1. modbus_transport_read(current, 1, ReadTimeout) = {1}
                            BY <6>1, <6>3 DEF modbus_transport_read
                        <7> QED
                            BY <3>1, <4>1, <7>1
                    <6> QED
                        BY <6>2, <6>3
                <5> QED
                    BY <3>6, <5>1, <5>2
            <4>3. moved[i] = 1 /\ i \in DOMAIN moved
                BY <3>5, <3>6, <4>2
            <4>4. Place(c, moved)'
                BY <3>2, <3>8, <4>3 DEF Place
            <4> QED
                BY <3>4, <4>4
        <3> QED
            BY <2>1, <2>5, <3>1, <3>7, <3>8

    <2>6. CASE c = current /\ ReadHeader
        <3>1. PICK n \in modbus_transport_read(current, HeaderPieces, ByteTimeout) :
                 /\ Consume(n)
                 /\ (recv(n, HeaderPieces) = NMBS_ERROR_NONE /\ pc' = "body") \/ pc' = "close"
            BY <2>6 DEF ReadHeader, EndSession
        <3>2. /\ n \in Int /\ n <= Len(k.inbox) /\ pc = "header" /\ reading' = reading
              /\ pc' = "body" => n = HeaderPieces
              /\ HeaderPieces \in Nat \ {0}
            BY <1>2, <2>1, <2>6, <3>1, ReadFacts, ModbusTcpAssumption DEF ReadHeader
        <3>3. PICK first : Layout(k, first) /\ Place(c, first)
            BY <2>3, <2>6, <3>1, <3>2
        <3> DEFINE moved == [i \in DOMAIN first |-> first[i] - Taken(n)]
        <3>4. Layout(new, moved)
            BY <2>3, <2>6, <3>1, <3>2, <3>3
        <3>5. pc' = "body" /\ Taken(n) = HeaderPieces
            BY <2>1, <2>6, <3>1, <3>2 DEF Taken
        <3>6. first[reading] = 0 /\ reading \in DOMAIN first
            <4>1. reading \in 1 .. Len(k.frames)
                BY <2>6, <3>2 DEF IInv, SessionInv, RequestPcs
            <4> QED
                BY <2>4, <2>6, <3>2, <3>3, <4>1 DEF Place
        <3>7. moved[reading] = -HeaderPieces
            BY <3>2, <3>5, <3>6
        <3>8. Place(c, moved)'
            BY <2>1, <2>6, <3>2, <3>5, <3>7 DEF Place
        <3> QED
            BY <3>4, <3>8
    <2>7. CASE c = current /\ ReadBody
        <3> DEFINE body == PiecesOfBody(Frame)
        <3>1. PICK n \in modbus_transport_read(current, body, ByteTimeout) :
                 /\ Consume(n)
                 /\ (recv(n, body) = NMBS_ERROR_NONE /\ pc' = "handle") \/ pc' = "close"
            BY <2>7 DEF ReadBody, EndSession
        <3>2. body \in Nat /\ HeaderPieces \in Nat
            BY ModbusTcpAssumption DEF PiecesOfBody
        <3>3. /\ n \in Int /\ n <= Len(k.inbox) /\ pc = "body" /\ reading' = reading
              /\ pc' = "handle" => n = body
            BY <1>2, <2>1, <2>7, <3>1, <3>2, ReadFacts DEF ReadBody
        <3>4. PICK first : Layout(k, first) /\ Place(c, first)
            BY <2>3, <2>7, <3>1, <3>3
        <3> DEFINE moved == [i \in DOMAIN first |-> first[i] - Taken(n)]
        <3>5. Layout(new, moved)
            BY <2>3, <2>7, <3>1, <3>3, <3>4
        <3>6. pc' = "handle" /\ Taken(n) = body
            BY <2>1, <2>7, <3>1, <3>2, <3>3 DEF Taken
        <3>7. /\ reading \in 1 .. Len(k.frames) /\ reading + 1 \in DOMAIN first
              /\ first[reading] = -HeaderPieces
            <4>1. reading \in 1 .. Len(k.frames)
                BY <2>7, <3>3 DEF IInv, SessionInv, RequestPcs
            <4> QED
                BY <2>4, <2>7, <3>3, <3>4, <4>1 DEF Place
        <3>8. first[reading + 1] = 1 + body
            <4>1. first[reading + 1] = first[reading] + Size(k.frames[reading])
                BY <3>4, <3>7 DEF Layout
            <4>2. Size(k.frames[reading]) = 1 + HeaderPieces + body
                BY <2>7 DEF Size, Frame
            <4> QED
                BY <3>2, <3>7, <4>1, <4>2
        <3>9. moved[reading + 1] = 1 /\ reading + 1 \in DOMAIN moved
            BY <3>2, <3>6, <3>7, <3>8
        <3>10. Place(c, moved)'
            BY <3>6, <3>9 DEF Place
        <3> QED
            BY <3>5, <3>10
    <2>8. CASE c = current /\ (Flush("flush_line") \/ Flush("flush"))
        <3>1. PICK n \in modbus_transport_read(current, BufferSize, 0) : Consume(n)
            BY <2>8 DEF Flush
        <3>2. pc = "flush_line"
            BY <2>1, <2>8 DEF Flush, EndSession
        <3>3. n \in Int /\ n <= Len(k.inbox)
            BY <1>2, <2>1, <2>8, <3>1, ReadFacts DEF BufferSize
        <3>4. Read(k, new, Taken(n))
            BY <2>3, <2>8, <3>1, <3>3
        <3>5. PICK first : Layout(k, first)
            BY <2>3, <2>8, <3>1, <3>2, <3>3
        <3>6. /\ Len(k.frames) \in Nat /\ Len(k.inbox) \in Nat /\ k.unsent \in Nat
              /\ Len(k.frames) <= MaxRequests
            BY <2>4, <3>5 DEF IInv, InboxInv
        <3>7. Len(k.inbox) < BufferSize
            <4>1. Len(k.inbox) + k.unsent <= Len(k.frames) * LongestSize
                BY DEF BurstInv
            <4>2. \A a \in Nat : \A b \in Nat : \A l \in Nat :
                     a <= b => a * l <= b * l /\ a * l \in Nat /\ b * l \in Nat
                OBVIOUS
            <4>3. /\ MaxRequests \in Nat /\ LongestSize \in Nat
                  /\ MaxRequests * LongestSize < BufferSize
                BY ModbusTcpAssumption DEF LongestSize
            <4>4. /\ Len(k.frames) * LongestSize <= MaxRequests * LongestSize
                  /\ Len(k.frames) * LongestSize \in Nat /\ MaxRequests * LongestSize \in Nat
                BY <3>6, <4>2, <4>3
            <4>5. \A a \in Nat : \A b \in Nat :
                     Len(k.inbox) + k.unsent <= a /\ a <= b /\ b < BufferSize =>
                        Len(k.inbox) < BufferSize
                BY <3>6 DEF BufferSize
            <4> QED
                BY <4>1, <4>3, <4>4, <4>5
        <3>8. k.peer \in {"closed", "reset"} /\ Len(new.inbox) = 0
            <4>1. CASE k.peer = "reset"
                <5>1. Len(k.inbox) = 0
                    BY <4>1 DEF BurstInv
                <5> QED
                    BY <1>2, <4>1, <5>1, <3>4 DEF Read
            <4>2. CASE k.peer # "reset"
                <5>1. k.peer = "closed" /\ n = IF Len(k.inbox) = 0 THEN -1 ELSE Len(k.inbox)
                    BY <2>8, <3>1, <3>6, <3>7, <4>2 DEF modbus_transport_read, BufferSize
                <5>2. Taken(n) = Len(k.inbox)
                    BY <3>6, <5>1 DEF Taken
                <5> QED
                    BY <3>4, <3>6, <5>1, <5>2 DEF Read
            <4> QED
                BY <4>1, <4>2
        <3>9. Dead(new)
            BY <3>4, <3>8 DEF Dead, Read
        <3> QED
            BY <3>9
    <2> QED
        BY <1>8, <2>2, <2>5, <2>6, <2>7, <2>8 DEF ReadStep
<1> QED
    BY <1>4, <1>5, <1>6, <1>7, <1>8, ServerSteps DEF Next

\* The body of the request was read.
HandlePcs == {"handle", "callback", "send", "flush_line"}

\* The requests of k that were answered, all read, in their order.
Ordered(k) ==
    \A j \in 1 .. Len(k.answers) :
        /\ k.answers[j].request \in 1 .. Len(k.frames)
        /\ AllRead(k, k.answers[j].request)
        /\ j > 1 => k.answers[j - 1].request < k.answers[j].request

\* No request was answered from r on.
Before(k, r) == \A j \in 1 .. Len(k.answers) : k.answers[j].request < r

OrderInv ==
    /\ \A c \in Clients : Ordered(conn[c])
    /\ pc \in RequestPcs => Before(conn[current], reading)
    /\ pc \in HandlePcs => AllRead(conn[current], reading)

LEMMA OrderedKept ==
    ASSUME NEW k \in Connection, NEW new \in Connection, Ordered(k), new.answers = k.answers,
           \/ Still(k, new) \/ Grown(k, new) \/ Come(k, new) \/ Broken(k, new)
           \/ \E m : Read(k, new, m)
    PROVE  Ordered(new)
<1> SUFFICES ASSUME NEW j \in 1 .. Len(k.answers)
             PROVE  /\ k.answers[j].request \in 1 .. Len(new.frames)
                    /\ AllRead(new, k.answers[j].request)
                    /\ j > 1 => k.answers[j - 1].request < k.answers[j].request
    BY DEF Ordered
<1>1. /\ k.answers[j].request \in 1 .. Len(k.frames)
      /\ AllRead(k, k.answers[j].request)
      /\ j > 1 => k.answers[j - 1].request < k.answers[j].request
    BY DEF Ordered
<1> QED
    BY <1>1, AllReadKept

\* The request whose first piece was read is later than those that were read.
LEMMA FirstByteIsLater ==
    ASSUME IInv, ShapeInv, ReadFirstByte, pc' = "header",
           NEW a \in 1 .. Len(conn[current].frames), AllRead(conn[current], a)
    PROVE  a < reading'
<1> DEFINE k == conn[current]
<1>1. current \in Clients /\ k \in Connection /\ pc = "first_byte"
    BY DEF ReadFirstByte, IInv, TypeOK, SessionInv, ServerPcs
<1>2. PICK n \in modbus_transport_read(current, 1, ReadTimeout) :
         recv(n, 1) = NMBS_ERROR_NONE /\ reading' = Head(k.inbox)
    BY <1>1 DEF ReadFirstByte, EndSession
<1>3. 1 <= Len(k.inbox)
    BY <1>1, <1>2, ReadFacts DEF IInv, TypeOK
<1>4. /\ k.inbox \in Seq(1 .. MaxRequests) /\ Len(k.inbox) \in Nat /\ Len(k.frames) \in Nat
      /\ k.answers \in Seq([request : 1 .. MaxRequests,
                            error : Exceptions \cup {NMBS_ERROR_NONE}])
    BY <1>1, ConnectionFacts
<1>5. reading' = k.inbox[1] /\ reading' \in Nat /\ reading' \in 1 .. Len(k.frames)
    <2>1. k.inbox[1] \in 1 .. MaxRequests /\ k.inbox[1] <= Len(k.frames)
        <3>1. 1 \in 1 .. Len(k.inbox)
            BY <1>3, <1>4
        <3>2. \A p \in 1 .. Len(k.inbox) : k.inbox[p] <= Len(k.frames)
            BY <1>1 DEF IInv, InboxInv
        <3> QED
            BY <1>4, <3>1, <3>2, ElementOfSeq
    <2>2. Head(k.inbox) = k.inbox[1]
        BY <1>3, <1>4
    <2> QED
        BY <1>2, <1>4, <2>1, <2>2
<1>6. PICK first : Layout(k, first)
    <2>1. ~Dead(k)
        BY <1>3 DEF Dead
    <2> QED
        BY <1>1, <2>1 DEF ShapeInv
<1>7. /\ first \in [1 .. Len(k.frames) + 1 -> Int]
      /\ \A i \in 1 .. Len(k.frames) + 1 : \A j \in 1 .. Len(k.frames) + 1 :
            i < j => first[i] < first[j]
      /\ 1 < first[reading' + 1]
    <2>1. /\ first \in [1 .. Len(k.frames) + 1 -> Int]
          /\ \A i \in 1 .. Len(k.frames) + 1 : \A j \in 1 .. Len(k.frames) + 1 :
                i < j => first[i] < first[j]
          /\ \A p \in 1 .. Len(k.inbox) : \A i \in 1 .. Len(k.frames) :
                k.inbox[p] = i <=> first[i] <= p /\ p < first[i + 1]
        BY <1>6 DEF Layout
    <2>2. 1 \in 1 .. Len(k.inbox)
        BY <1>3, <1>4
    <2> QED
        BY <1>5, <2>1, <2>2
<1>8. a \in 1 .. Len(k.frames) /\ AllRead(k, a)
    OBVIOUS
<1> HIDE DEF k
<1>9. first[a + 1] <= 1
    BY <1>1, <1>6, <1>8, AllReadMeans DEF k
<1>10. /\ a + 1 \in 1 .. Len(k.frames) + 1 /\ reading' + 1 \in 1 .. Len(k.frames) + 1
       /\ first[a + 1] \in Int /\ first[reading' + 1] \in Int
    <2>1. a + 1 \in 1 .. Len(k.frames) + 1 /\ reading' + 1 \in 1 .. Len(k.frames) + 1
        <3>1. Len(k.frames) \in Nat /\ reading' \in 1 .. Len(k.frames)
            BY <1>4, <1>5
        <3>2. \A m \in Nat : \A x \in 1 .. m : x + 1 \in 1 .. m + 1
            OBVIOUS
        <3> QED
            BY <1>8, <3>1, <3>2
    <2> QED
        BY <1>7, <2>1
<1>11. first[a + 1] < first[reading' + 1]
    BY <1>7, <1>9, <1>10
<1>12. ~(reading' + 1 < a + 1) /\ reading' + 1 # a + 1
    <2>1. ASSUME reading' + 1 < a + 1 PROVE first[reading' + 1] < first[a + 1]
        BY <1>7, <1>10, <2>1
    <2> QED
        BY <1>10, <1>11, <2>1
<1>13. a < reading'
    BY <1>5, <1>8, <1>12
<1> QED
    BY <1>13

\* The body that was read is the last there is of the request.
LEMMA BodyIsTheRest ==
    ASSUME IInv, ShapeInv, ReadBody, pc' = "handle"
    PROVE  /\ current \in Clients
           /\ conn'[current].answers = conn[current].answers
           /\ AllRead(conn'[current], reading)
<1> DEFINE k == conn[current]
           new == conn'[current]
           body == PiecesOfBody(Frame)
<1>1. current \in Clients /\ k \in Connection /\ pc = "body" /\ conn \in [Clients -> Connection]
    BY DEF ReadBody, IInv, TypeOK, SessionInv, ServerPcs
<1>2. PICK n \in modbus_transport_read(current, body, ByteTimeout) :
         Consume(n) /\ recv(n, body) = NMBS_ERROR_NONE
    BY DEF ReadBody, EndSession
<1>3. body \in Nat /\ HeaderPieces \in Nat
    BY ModbusTcpAssumption DEF PiecesOfBody
<1>4. n = body /\ n \in Int /\ n <= Len(k.inbox)
    BY <1>1, <1>2, <1>3, ReadFacts
<1>5. Taken(n) = body
    BY <1>3, <1>4 DEF Taken
<1>6. ~Dead(k)
    <2> SUFFICES ASSUME Dead(k) PROVE FALSE
        OBVIOUS
    <2>1. modbus_transport_read(current, body, ByteTimeout) = {-1}
        BY <1>3 DEF Dead, modbus_transport_read
    <2> QED
        BY <1>2, <1>3, <1>4, <2>1
<1>7. PICK first : Layout(k, first) /\ Place(current, first)
    BY <1>1, <1>6 DEF ShapeInv
<1>8. Read(k, new, body) /\ new.answers = k.answers
    BY <1>1, <1>2, <1>4, <1>5, ReadSteps
<1>9. IInv'
    BY NextKeepsIInv DEF Next, Server, Poll
<1>10. new \in Connection
    BY <1>1, <1>9 DEF IInv, TypeOK
<1>11. /\ reading \in 1 .. Len(k.frames) /\ Len(k.frames) \in Nat
       /\ first \in [1 .. Len(k.frames) + 1 -> Int]
       /\ first[reading] = -HeaderPieces
       /\ first[reading + 1] = first[reading] + Size(k.frames[reading])
    <2>1. reading \in 1 .. Len(k.frames)
        BY <1>1 DEF IInv, SessionInv, RequestPcs
    <2> QED
        BY <1>1, <1>7, <2>1, ConnectionFacts DEF Layout, Place
<1>12. Size(k.frames[reading]) = 1 + HeaderPieces + body
    BY DEF Size, Frame
<1>13. first[reading + 1] = 1 + body
    BY <1>3, <1>11, <1>12
<1> DEFINE moved == [i \in DOMAIN first |-> first[i] - body]
<1>14. moved[reading + 1] = 1
    <2>1. reading + 1 \in DOMAIN first
        BY <1>11
    <2> QED
        BY <1>3, <1>13, <2>1
<1>15. /\ body <= Len(k.inbox) /\ new.frames = k.frames /\ new.unsent = k.unsent
       /\ Len(new.inbox) = Len(k.inbox) - body
       /\ \A p \in 1 .. Len(new.inbox) : new.inbox[p] = k.inbox[p + body]
    BY <1>8 DEF Read
<1> HIDE DEF k, new, body
<1>16. Layout(new, [i \in DOMAIN first |-> first[i] - body])
    BY <1>1, <1>3, <1>7, <1>10, <1>15, LayoutRead DEF k
<1> HIDE DEF moved
<1>17. Layout(new, moved)
    BY <1>16 DEF moved
<1>18. reading \in 1 .. Len(new.frames) /\ moved[reading + 1] <= 1
    BY <1>11, <1>14, <1>15
<1>19. AllRead(new, reading)
    BY <1>10, <1>17, <1>18, AllReadMeans
<1> QED
    BY <1>1, <1>8, <1>19 DEF new, k

\* Only sending appends an answer, and only closing forgets them.
LEMMA AnswersKept ==
    ASSUME IInv, [Next]_vars, ~Send, NEW c \in Clients
    PROVE  conn'[c].answers = conn[c].answers \/ conn'[c] = NoConnection
<1>1. CASE UNCHANGED vars
    BY <1>1 DEF vars
<1>2. CASE QuietStep
    BY <1>2, QuietSteps
<1>3. CASE ReadStep
    <2>1. PICK n \in Int : current \in Clients /\ n <= Len(conn[current].inbox) /\ Consume(n)
        BY <1>3, ReadStepConsumes
    <2> QED
        BY <2>1, ReadSteps
<1>4. CASE CloseClient
    <2>1. conn \in [Clients -> Connection]
        BY DEF IInv, TypeOK
    <2>2. conn' \in {conn, [conn EXCEPT ![current] = NoConnection]}
        BY <1>4 DEF CloseClient
    <2> QED
        BY <2>1, <2>2
<1>5. CASE \E d \in Clients : Client(d)
    BY <1>5, ClientSteps
<1> QED
    BY <1>1, <1>2, <1>3, <1>4, <1>5, ServerSteps DEF Next

\* Only a callback appends a call, and only closing forgets them.
LEMMA CallsKept ==
    ASSUME IInv, [Next]_vars, ~Callback, NEW c \in Clients
    PROVE  conn'[c].calls = conn[c].calls \/ conn'[c] = NoConnection
<1>1. CASE UNCHANGED vars
    BY <1>1 DEF vars
<1>2. CASE QuietStep
    BY <1>2, QuietSteps
<1>3. CASE ReadStep
    <2>1. PICK n \in Int : current \in Clients /\ n <= Len(conn[current].inbox) /\ Consume(n)
        BY <1>3, ReadStepConsumes
    <2> QED
        BY <2>1, ReadSteps
<1>4. CASE CloseClient
    <2>1. conn \in [Clients -> Connection]
        BY DEF IInv, TypeOK
    <2>2. conn' \in {conn, [conn EXCEPT ![current] = NoConnection]}
        BY <1>4 DEF CloseClient
    <2> QED
        BY <2>1, <2>2
<1>5. CASE \E d \in Clients : Client(d)
    BY <1>5, ClientSteps
<1> QED
    BY <1>1, <1>2, <1>3, <1>4, <1>5, ServerSteps DEF Next

\* What a step does to the order of the answers of client c.
LEMMA NextKeepsOrdered ==
    ASSUME IInv, OrderInv, [Next]_vars, NEW c \in Clients
    PROVE  Ordered(conn'[c])
<1>1. IInv'
    BY NextKeepsIInv
<1>2. /\ conn \in [Clients -> Connection]
      /\ conn[c] \in Connection /\ conn'[c] \in Connection
      /\ Ordered(conn[c])
    BY <1>1 DEF IInv, TypeOK, OrderInv
<1>3. CASE Send
    <2>1. pc = "send" /\ current \in Clients
        BY <1>3 DEF Send, IInv, SessionInv, ServerPcs
    <2>2. /\ Before(conn[current], reading) /\ AllRead(conn[current], reading)
          /\ reading \in 1 .. Len(conn[current].frames)
        BY <2>1 DEF OrderInv, RequestPcs, HandlePcs, IInv, SessionInv
    <2> DEFINE last == [request |-> reading, error |-> answer]
               sent == [conn EXCEPT ![current].answers = Append(@, last)]
    <2>3. conn' = conn \/ conn' = sent
        BY <1>3 DEF Send
    <2>4. CASE c # current \/ conn' = conn
        <3>1. conn'[c] = conn[c]
            BY <1>2, <2>1, <2>3, <2>4
        <3> QED
            BY <1>2, <3>1
    <2>5. CASE c = current /\ conn' = sent
        <3> DEFINE k == conn[c]
                   new == conn'[c]
        <3>1. /\ new.answers = Append(k.answers, last)
              /\ new.frames = k.frames /\ new.unsent = k.unsent /\ new.inbox = k.inbox
            BY <1>2, <2>1, <2>5 DEF Connection
        <3>2. /\ k.answers \in Seq([request : 1 .. MaxRequests,
                                    error : Exceptions \cup {NMBS_ERROR_NONE}])
              /\ Len(k.answers) \in Nat
              /\ last \in [request : 1 .. MaxRequests,
                           error : Exceptions \cup {NMBS_ERROR_NONE}]
            <4>1. reading \in 1 .. MaxRequests /\ answer \in Exceptions \cup {NMBS_ERROR_NONE}
                <5>1. Len(conn[current].frames) \in Nat /\ Len(conn[current].frames) <= MaxRequests
                    BY <1>2, <2>1, ConnectionFacts DEF IInv, InboxInv, TypeOK
                <5> QED
                    BY <2>2, <5>1, ModbusTcpAssumption DEF IInv, TypeOK
            <4> QED
                BY <1>2, <4>1, ConnectionFacts
        <3>3. /\ Len(new.answers) = Len(k.answers) + 1
              /\ \A j \in 1 .. Len(k.answers) : new.answers[j] = k.answers[j]
              /\ new.answers[Len(k.answers) + 1] = last
            BY <3>1, <3>2, AppendProperties
        <3>4. \A i : AllRead(k, i) <=> AllRead(new, i)
            BY <3>1 DEF AllRead
        <3>5. last.request = reading
            OBVIOUS
        <3>6. Ordered(k) /\ Before(k, reading) /\ AllRead(k, reading) /\ reading \in 1 .. Len(k.frames)
            BY <1>2, <2>2, <2>5
        <3> HIDE DEF k, new, last
        <3>7. ASSUME NEW j \in 1 .. Len(new.answers)
              PROVE  /\ new.answers[j].request \in 1 .. Len(new.frames)
                     /\ AllRead(new, new.answers[j].request)
                     /\ j > 1 => new.answers[j - 1].request < new.answers[j].request
            <4>1. j \in 1 .. Len(k.answers) \/ j = Len(k.answers) + 1
                BY <3>2, <3>3
            <4>2. CASE j \in 1 .. Len(k.answers)
                <5>1. j > 1 => j - 1 \in 1 .. Len(k.answers)
                    BY <3>2, <4>2
                <5>2. /\ k.answers[j].request \in 1 .. Len(k.frames)
                      /\ AllRead(k, k.answers[j].request)
                      /\ j > 1 => k.answers[j - 1].request < k.answers[j].request
                    BY <3>6, <4>2 DEF Ordered
                <5> QED
                    BY <3>1, <3>3, <3>4, <4>2, <5>1, <5>2
            <4>3. CASE j = Len(k.answers) + 1
                <5>1. j > 1 => j - 1 \in 1 .. Len(k.answers) /\ j - 1 = Len(k.answers)
                    BY <3>2, <4>3
                <5>2. j > 1 => k.answers[j - 1].request < reading
                    BY <3>6, <5>1 DEF Before
                <5> QED
                    BY <3>1, <3>3, <3>4, <3>5, <3>6, <4>3, <5>1, <5>2
            <4> QED
                BY <4>1, <4>2, <4>3
        <3> QED
            BY <3>7 DEF Ordered, new
    <2> QED
        BY <2>3, <2>4, <2>5
<1>4. ASSUME conn'[c].answers = conn[c].answers, conn'[c] # NoConnection
      PROVE  Ordered(conn'[c])
    BY <1>2, <1>4, ConnectionChanges, OrderedKept
<1>5. Ordered(NoConnection)
    <2>1. Len(NoConnection.answers) = 0
        BY EmptySeq DEF NoConnection
    <2> QED
        BY <2>1 DEF Ordered
<1> QED
    BY <1>3, <1>4, <1>5, AnswersKept

\* Who is inside a request after a step was inside it before, or has just
\* read its first byte.
LEMMA RequestPcsKept ==
    ASSUME IInv, [Next]_vars, pc' \in RequestPcs
    PROVE  \/ ReadFirstByte /\ pc' = "header" /\ current' = current
           \/ /\ pc \in RequestPcs
              /\ UNCHANGED <<current, reading>>
              /\ pc' \in HandlePcs => pc \in HandlePcs \/ (ReadBody /\ pc' = "handle")
              /\ ~Send
<1>1. ~Send
    <2>1. Send => pc' = "first_byte" \/ pc' = "flush"
        BY DEF Send
    <2> QED
        BY <2>1 DEF RequestPcs
<1>2. CASE UNCHANGED <<pc, current, reading>>
    BY <1>1, <1>2 DEF RequestPcs
<1>3. CASE UNCHANGED vars \/ \E d \in Clients : Client(d)
    BY <1>2, <1>3, ClientSteps DEF vars, server
<1>4. CASE QuietStep
    <2>1. CASE Handle
        BY <1>1, <2>1 DEF Handle, RequestPcs, HandlePcs
    <2>2. CASE Callback
        <3>1. /\ pc = "callback" /\ pc' \in {"callback", "send"}
              /\ UNCHANGED <<current, reading>>
            BY <2>2 DEF Callback
        <3> QED
            BY <1>1, <3>1 DEF RequestPcs, HandlePcs
    <2>3. CASE ~Handle /\ ~Callback
        BY <1>1, <1>4, <2>3 DEF QuietStep, Startup, Accept, Cleanup, RequestPcs
    <2> QED
        BY <2>1, <2>2, <2>3
<1>5. CASE ReadFirstByte
    <2>1. CASE pc' = "header"
        BY <1>5, <2>1 DEF ReadFirstByte
    <2>2. CASE pc' # "header"
        <3>1. pc' = "first_byte" \/ pc' = "close"
            BY <1>5, <2>2 DEF ReadFirstByte, EndSession
        <3> QED
            BY <3>1 DEF RequestPcs
    <2> QED
        BY <2>1, <2>2
<1>6. CASE ReadHeader
    <2>1. /\ pc = "header" /\ pc' \in {"body", "close"}
          /\ UNCHANGED <<current, reading>>
        BY <1>6 DEF ReadHeader, EndSession
    <2> QED
        BY <1>1, <2>1 DEF RequestPcs, HandlePcs
<1>7. CASE ReadBody
    <2>1. /\ pc = "body" /\ pc' \in {"handle", "close"}
          /\ UNCHANGED <<current, reading>>
        BY <1>7 DEF ReadBody, EndSession
    <2> QED
        BY <1>1, <1>7, <2>1 DEF RequestPcs, HandlePcs
<1>8. CASE Flush("flush_line") \/ Flush("flush")
    <2>1. /\ (pc = "flush_line" /\ pc' = "send") \/ pc' = "close"
          /\ UNCHANGED <<current, reading>>
        BY <1>8 DEF Flush, EndSession
    <2> QED
        BY <1>1, <2>1 DEF RequestPcs, HandlePcs
<1>9. CASE CloseClient
    BY <1>9 DEF CloseClient, RequestPcs
<1> QED
    BY <1>3, <1>4, <1>5, <1>6, <1>7, <1>8, <1>9, ServerSteps DEF Next, ReadStep

LEMMA NextKeepsOrderInv == IInv /\ ShapeInv /\ OrderInv /\ [Next]_vars => OrderInv'
<1> SUFFICES ASSUME IInv, ShapeInv, OrderInv, [Next]_vars
             PROVE  OrderInv'
    OBVIOUS
<1>1. IInv'
    BY NextKeepsIInv
<1>2. \A c \in Clients : Ordered(conn'[c])
    BY NextKeepsOrdered
<1>3. ASSUME pc' \in RequestPcs
      PROVE  /\ Before(conn'[current'], reading')
             /\ pc' \in HandlePcs => AllRead(conn'[current'], reading')
    <2>1. current' \in Clients
        BY <1>1, <1>3 DEF IInv, SessionInv, RequestPcs, ServerPcs
    <2>2. CASE ReadFirstByte /\ pc' = "header" /\ current' = current
        <3>1. Before(conn[current], reading')
            <4>1. Ordered(conn[current])
                BY <2>1, <2>2 DEF OrderInv
            <4> QED
                BY <2>2, <4>1, FirstByteIsLater DEF Before, Ordered
        <3>2. conn'[current].answers = conn[current].answers
            <4>1. ReadStep
                BY <2>2 DEF ReadStep
            <4>2. PICK n \in Int : n <= Len(conn[current].inbox) /\ Consume(n)
                BY <4>1, ReadStepConsumes
            <4> QED
                BY <2>1, <2>2, <4>2, ReadSteps
        <3> QED
            BY <2>2, <3>1, <3>2 DEF Before, HandlePcs
    <2>3. CASE /\ pc \in RequestPcs /\ UNCHANGED <<current, reading>>
               /\ pc' \in HandlePcs => pc \in HandlePcs \/ (ReadBody /\ pc' = "handle")
               /\ ~Send
        <3>1. Before(conn[current], reading) /\ reading \in 1 .. Len(conn[current].frames)
            BY <2>3 DEF OrderInv, IInv, SessionInv
        <3>2. conn'[current] # NoConnection
            <4>1. reading \in 1 .. Len(conn'[current].frames)
                BY <1>1, <1>3, <2>3 DEF IInv, SessionInv
            <4> QED
                BY <4>1, EmptySeq DEF NoConnection
        <3>3. conn'[current].answers = conn[current].answers
            BY <2>1, <2>3, <3>2, AnswersKept
        <3>4. CASE pc' \in HandlePcs /\ pc \in HandlePcs
            <4>1. AllRead(conn[current], reading)
                BY <3>4 DEF OrderInv
            <4>3. conn[current] \in Connection /\ conn'[current] \in Connection
                BY <1>1, <2>1, <2>3 DEF IInv, TypeOK
            <4>4. AllRead(conn'[current], reading)
                BY <2>1, <2>3, <3>1, <3>2, <4>1, <4>3, ConnectionChanges, AllReadKept
            <4> QED
                BY <2>3, <3>1, <3>3, <4>4 DEF Before
        <3>5. CASE ReadBody /\ pc' = "handle"
            BY <2>3, <3>1, <3>3, <3>5, BodyIsTheRest DEF Before
        <3> QED
            BY <2>3, <3>1, <3>3, <3>4, <3>5 DEF Before
    <2> QED
        BY <1>3, <2>2, <2>3, RequestPcsKept
<1>4. pc' \in HandlePcs => pc' \in RequestPcs
    BY DEF HandlePcs, RequestPcs
<1> QED
    BY <1>2, <1>3, <1>4 DEF OrderInv, Ordered, Before, AllRead

LEMMA AlwaysOrdered == Spec => [](BurstInv /\ ShapeInv /\ OrderInv)
<1> DEFINE Inv == BurstInv /\ ShapeInv /\ OrderInv
<1>1. Init => Inv
    <2> SUFFICES ASSUME Init PROVE Inv
        OBVIOUS
    <2>1. \A c \in Clients : conn[c] = NoConnection
        BY DEF Init
    <2>2. /\ Len(NoConnection.frames) = 0 /\ Len(NoConnection.inbox) = 0
          /\ Len(NoConnection.answers) = 0
          /\ NoConnection.unsent = 0 /\ NoConnection.peer = "absent"
        BY EmptySeq DEF NoConnection
    <2>3. BurstInv
        BY <2>1, <2>2, SizeFacts DEF BurstInv
    <2>4. ShapeInv
        <3> DEFINE first == [i \in 1 .. 1 |-> 1]
        <3>1. Layout(NoConnection, first)
            BY <2>2 DEF Layout
        <3>2. \A c \in Clients : Place(c, first)
            BY DEF Place, Init
        <3> QED
            BY <2>1, <3>1, <3>2 DEF ShapeInv
    <2>5. OrderInv
        BY <2>1, <2>2 DEF OrderInv, Ordered, Init, RequestPcs, HandlePcs
    <2> QED
        BY <2>3, <2>4, <2>5
<1>2. IInv /\ Inv /\ [Next]_vars => Inv'
    BY NextKeepsBurstInv, NextKeepsShapeInv, NextKeepsOrderInv
<1> QED
    BY <1>1, <1>2, AlwaysIInv, PTL DEF Spec

(* A connection is answered in the order of its requests, no request twice *)
(* and none before all of it was read (nmbs_server_poll), whatever its     *)
(* clients and the flushes do.                                             *)
THEOREM OrderOfAnswers == Spec => []AnswersInOrder
<1>1. IInv /\ OrderInv => AnswersInOrder
    <2> SUFFICES ASSUME IInv, OrderInv, NEW c \in Clients,
                        NEW j \in DOMAIN conn[c].answers
                 PROVE  /\ Received(c, conn[c].answers[j].request)
                        /\ j > 1 => conn[c].answers[j - 1].request < conn[c].answers[j].request
        BY DEF AnswersInOrder
    <2>1. conn[c] \in Connection /\ Ordered(conn[c])
        BY DEF IInv, TypeOK, OrderInv
    <2>2. /\ DOMAIN conn[c].answers = 1 .. Len(conn[c].answers)
          /\ DOMAIN conn[c].inbox = 1 .. Len(conn[c].inbox)
        BY <2>1, ConnectionFacts, LenProperties
    <2> QED
        BY <2>1, <2>2 DEF Ordered, AllRead, Received
<1> QED
    BY <1>1, AlwaysIInv, AlwaysOrdered, PTL

-----------------------------------------------------------------------------
(* The answers tell what was done.                                         *)

\* The calls of k are for requests that were read.
Requested(k) ==
    \A p \in 1 .. Len(k.calls) :
        k.calls[p].request \in 1 .. Len(k.frames) /\ AllRead(k, k.calls[p].request)

\* What AnswersTellWhatWasDone says of request i.
Told(k, i) ==
    \E from, upto \in 0 .. Len(k.calls) :
        /\ CalledFor(k, i, from, upto)
        /\ from < upto => AllRead(k, i)
        /\ \A j \in 1 .. Len(k.answers) :
              k.answers[j].request = i => AnswerFor(k, i, from, upto, k.answers[j].error)

ToldInv == \A c \in Clients : /\ Requested(conn[c])
                              /\ \A i \in 1 .. Len(conn[c].frames) : Told(conn[c], i)

\* The callbacks of the request in hand from place from on were called, all
\* of them agreed, and todo has the others.
CallingFrom(k, from) ==
    LET names == CallbacksOf(k.frames[reading].pdu) IN
    /\ from \in 0 .. Len(k.calls)
    /\ CalledFor(k, reading, from, Len(k.calls))
    /\ \A p \in from + 1 .. Len(k.calls) : k.calls[p].error = NMBS_ERROR_NONE
    /\ Len(k.calls) - from + Len(todo) = Len(names)
    /\ \A q \in 1 .. Len(todo) : todo[q] = names[Len(k.calls) - from + q]

NotCalled(k) == \A p \in 1 .. Len(k.calls) : k.calls[p].request # reading

\* The answer in the making says what came of the calls.
AnsweringFrom(k, from) ==
    /\ from \in 0 .. Len(k.calls)
    /\ CalledFor(k, reading, from, Len(k.calls))
    /\ AnswerFor(k, reading, from, Len(k.calls), answer)

\* What is known of the request in hand on its way.
HandInv ==
    /\ pc \in HandlePcs \cup {"body"} => LengthLegal(Frame)
    /\ pc \in HandlePcs => Frame.protocol = 0
    /\ pc \in {"header", "body", "handle", "flush_line"} => NotCalled(conn[current])
    /\ pc = "flush_line" => answer # NMBS_ERROR_NONE
    /\ pc = "callback" => \E from : CallingFrom(conn[current], from)
    /\ pc = "send" => \E from : AnsweringFrom(conn[current], from)

LEMMA CallbacksOfFacts ==
    ASSUME NEW f
    PROVE  CallbacksOf(f) \in Seq(CallbackNames) /\ Len(CallbacksOf(f)) \in Nat
<1>1. /\ << >> \in Seq(CallbackNames)
      /\ \A x \in CallbackNames : <<x>> \in Seq(CallbackNames)
      /\ \A x, y \in CallbackNames : <<x, y>> \in Seq(CallbackNames)
    OBVIOUS
<1>2. CallbacksOf(f) \in Seq(CallbackNames)
    BY <1>1 DEF CallbacksOf, CallbackNames
<1> QED
    BY <1>2, LenProperties

\* What is said of the calls for a request stays said.
LEMMA CalledForKept ==
    ASSUME NEW k, NEW new, NEW i, new.calls = k.calls, new.frames[i] = k.frames[i],
           NEW from, NEW upto
    PROVE  /\ CalledFor(k, i, from, upto) => CalledFor(new, i, from, upto)
           /\ \A error : AnswerFor(k, i, from, upto, error) => AnswerFor(new, i, from, upto, error)
BY DEF CalledFor, AnswerFor

\* Nothing was called for a request that is not named.
LEMMA NotCalledFor ==
    ASSUME NEW k \in Connection, NEW i,
           \A p \in 1 .. Len(k.calls) : k.calls[p].request # i, NEW n \in 0 .. Len(k.calls)
    PROVE  CalledFor(k, i, n, n)
<1>1. Len(k.calls) \in Nat /\ DOMAIN k.calls = 1 .. Len(k.calls)
    BY ConnectionFacts, LenProperties
<1>2. n \in Nat /\ n - n = 0 /\ \A p : p \notin n + 1 .. n /\ p \notin n + 1 .. n - 1
    BY <1>1
<1>3. Len(CallbacksOf(k.frames[i].pdu)) \in Nat
    BY CallbacksOfFacts
<1> QED
    BY <1>1, <1>2, <1>3 DEF CalledFor

LEMMA FrameKept ==
    ASSUME NEW k \in Connection, NEW new \in Connection, NEW i \in 1 .. Len(k.frames),
           \/ Still(k, new) \/ Grown(k, new) \/ Come(k, new) \/ Broken(k, new)
           \/ \E m : Read(k, new, m)
    PROVE  i \in 1 .. Len(new.frames) /\ new.frames[i] = k.frames[i]
<1>1. k.frames \in Seq(Frames) /\ Len(k.frames) \in Nat
    BY ConnectionFacts
<1>2. CASE Grown(k, new)
    <2>1. PICK frame \in Frames : new.frames = Append(k.frames, frame)
        BY <1>2 DEF Grown
    <2>2. /\ Len(new.frames) = Len(k.frames) + 1
          /\ \A p \in 1 .. Len(k.frames) : new.frames[p] = k.frames[p]
        BY <1>1, <2>1, AppendProperties
    <2> QED
        BY <1>1, <2>2
<1>3. ASSUME new.frames = k.frames
      PROVE  i \in 1 .. Len(new.frames) /\ new.frames[i] = k.frames[i]
    BY <1>3
<1> QED
    BY <1>2, <1>3 DEF Still, Come, Broken, Read

\* A connection with the calls and the answers it had tells the truth as before.
LEMMA ToldKept ==
    ASSUME NEW k \in Connection, NEW new \in Connection,
           new.calls = k.calls, new.answers = k.answers,
           \/ Still(k, new) \/ Grown(k, new) \/ Come(k, new) \/ Broken(k, new)
           \/ \E m : Read(k, new, m),
           Ordered(k), Requested(k), \A i \in 1 .. Len(k.frames) : Told(k, i)
    PROVE  Requested(new) /\ \A i \in 1 .. Len(new.frames) : Told(new, i)
<1>1. Requested(new)
    BY AllReadKept DEF Requested
<1>2. ASSUME NEW i \in 1 .. Len(k.frames) PROVE Told(new, i)
    <2>1. PICK from \in 0 .. Len(k.calls), upto \in 0 .. Len(k.calls) :
             /\ CalledFor(k, i, from, upto)
             /\ from < upto => AllRead(k, i)
             /\ \A j \in 1 .. Len(k.answers) :
                   k.answers[j].request = i => AnswerFor(k, i, from, upto, k.answers[j].error)
        BY DEF Told
    <2>2. new.frames[i] = k.frames[i]
        BY FrameKept
    <2>3. CalledFor(new, i, from, upto)
        BY <2>1, <2>2, CalledForKept
    <2>4. \A j \in 1 .. Len(new.answers) :
             new.answers[j].request = i => AnswerFor(new, i, from, upto, new.answers[j].error)
        BY <2>1, <2>2, CalledForKept
    <2>5. from < upto => AllRead(new, i)
        BY <2>1, AllReadKept
    <2> QED
        BY <2>3, <2>4, <2>5 DEF Told
<1>3. ASSUME NEW i \in 1 .. Len(new.frames), i \notin 1 .. Len(k.frames)
      PROVE  Told(new, i)
    <2>1. /\ \A p \in 1 .. Len(new.calls) : new.calls[p].request # i
          /\ \A j \in 1 .. Len(new.answers) : new.answers[j].request # i
        BY <1>3 DEF Requested, Ordered
    <2>2. 0 \in 0 .. Len(new.calls) /\ ~(0 < 0)
        BY ConnectionFacts
    <2>3. CalledFor(new, i, 0, 0)
        BY <2>1, <2>2, NotCalledFor
    <2> QED
        BY <2>1, <2>2, <2>3 DEF Told
<1> QED
    BY <1>1, <1>2, <1>3

\* A step but a callback or the sending of an answer keeps what was told.
LEMMA QuietKeepsToldInv ==
    ASSUME IInv, OrderInv, ToldInv, [Next]_vars, ~Callback, ~Send
    PROVE  ToldInv'
<1> SUFFICES ASSUME NEW c \in Clients
             PROVE  /\ Requested(conn'[c])
                    /\ \A i \in 1 .. Len(conn'[c].frames) : Told(conn'[c], i)
    BY DEF ToldInv, Requested, Told, CalledFor, AnswerFor, AllRead
<1>1. IInv'
    BY NextKeepsIInv
<1>2. conn[c] \in Connection /\ conn'[c] \in Connection
    BY <1>1 DEF IInv, TypeOK
<1>3. CASE conn'[c] = NoConnection
    <2>1. Len(NoConnection.calls) = 0 /\ Len(NoConnection.frames) = 0
        BY EmptySeq DEF NoConnection
    <2> QED
        BY <1>3, <2>1 DEF Requested
<1>4. CASE conn'[c] # NoConnection
    <2>1. conn'[c].calls = conn[c].calls /\ conn'[c].answers = conn[c].answers
        BY <1>4, CallsKept, AnswersKept
    <2>2. /\ Ordered(conn[c]) /\ Requested(conn[c])
          /\ \A i \in 1 .. Len(conn[c].frames) : Told(conn[c], i)
        BY DEF OrderInv, ToldInv
    <2> QED
        BY <1>2, <1>4, <2>1, <2>2, ConnectionChanges, ToldKept
<1> QED
    BY <1>3, <1>4

\* What sending or a callback changes: nobody but the client served.
LEMMA OthersKept ==
    ASSUME IInv, Callback \/ Send, NEW c \in Clients, c # current
    PROVE  conn'[c] = conn[c]
<1>1. conn \in [Clients -> Connection]
    BY DEF IInv, TypeOK
<1>2. CASE Callback
    BY <1>1, <1>2 DEF Callback
<1>3. CASE Send
    <2>1. conn' = conn \/ \E a : conn' = [conn EXCEPT ![current].answers = a]
        BY <1>3 DEF Send
    <2> QED
        BY <1>1, <2>1
<1> QED
    BY <1>2, <1>3

\* A callback adds one call for the request in hand.
LEMMA CallbackFacts ==
    ASSUME IInv, OrderInv, HandInv, Callback
    PROVE  /\ current \in Clients /\ IInv' /\ UNCHANGED <<current, reading>>
           /\ LET k == conn[current]
                  new == conn'[current]
              IN  /\ k \in Connection /\ new \in Connection /\ reading \in 1 .. Len(k.frames)
                  /\ Still(k, new) /\ new.answers = k.answers
                  /\ Len(new.calls) = Len(k.calls) + 1
                  /\ \A p \in 1 .. Len(k.calls) : new.calls[p] = k.calls[p]
                  /\ new.calls[Len(new.calls)].request = reading
                  /\ new.calls[Len(new.calls)].callback = Head(todo)
                  /\ new.calls[Len(new.calls)].error \in CallbackErrors
                  /\ answer' = ExceptionOf(new.calls[Len(new.calls)].error)
                  /\ pc' = IF new.calls[Len(new.calls)].error = NMBS_ERROR_NONE /\ Len(todo) > 1
                           THEN "callback" ELSE "send"
                  /\ AllRead(new, reading) /\ Before(k, reading)
<1> DEFINE k == conn[current]
           new == conn'[current]
<1>1. pc = "callback" /\ current \in Clients /\ UNCHANGED <<current, reading>>
    BY DEF Callback, IInv, SessionInv, ServerPcs
<1>2. IInv'
    BY NextKeepsIInv DEF Next, Server, Poll
<1>3. conn \in [Clients -> Connection] /\ k \in Connection /\ new \in Connection
    BY <1>1, <1>2 DEF IInv, TypeOK
<1>4. reading \in 1 .. Len(k.frames) /\ Before(k, reading) /\ AllRead(k, reading)
    BY <1>1 DEF OrderInv, IInv, SessionInv, RequestPcs, HandlePcs
<1>5. Still(k, new) /\ new.answers = k.answers
    BY <1>1, QuietSteps DEF QuietStep, Callback, Send
<1>6. AllRead(new, reading)
    BY <1>4, <1>5 DEF Still, AllRead
<1>7. PICK error \in CallbackErrors :
         /\ conn' = [conn EXCEPT ![current].calls = Append(@,
                [request |-> reading, callback |-> Head(todo), error |-> error])]
         /\ answer' = ExceptionOf(error)
         /\ pc' = IF error = NMBS_ERROR_NONE /\ Len(todo) > 1 THEN "callback" ELSE "send"
    BY DEF Callback
<1> DEFINE call == [request |-> reading, callback |-> Head(todo), error |-> error]
<1>8. new.calls = Append(k.calls, call)
    BY <1>1, <1>3, <1>7 DEF Connection
<1>9. /\ Len(new.calls) = Len(k.calls) + 1
      /\ \A p \in 1 .. Len(k.calls) : new.calls[p] = k.calls[p]
      /\ new.calls[Len(k.calls) + 1] = call
    <2>1. /\ k.calls \in Seq([request : 1 .. MaxRequests, callback : Callbacks,
                             error : CallbackErrors])
          /\ call \in [request : 1 .. MaxRequests, callback : Callbacks, error : CallbackErrors]
        <3>1. todo \in Seq(Callbacks) /\ todo # << >>
            BY <1>1 DEF IInv, SessionInv
        <3>2. Head(todo) \in Callbacks
            BY <3>1
        <3>3. Len(k.frames) <= MaxRequests
            BY <1>1 DEF IInv, InboxInv
        <3>4. reading \in 1 .. MaxRequests
            BY <1>3, <1>4, <3>3, ConnectionFacts, ModbusTcpAssumption
        <3> QED
            BY <1>3, <3>2, <3>4, ConnectionFacts
    <2> QED
        BY <1>8, <2>1, AppendProperties
<1>10. new.calls[Len(new.calls)] = call
    BY <1>9
<1> QED
    BY <1>1, <1>2, <1>3, <1>4, <1>5, <1>6, <1>7, <1>9, <1>10

\* After a callback the calls for the request in hand are one more.
LEMMA CallbackAddsToRun ==
    ASSUME IInv, OrderInv, HandInv, Callback,
           NEW from, CallingFrom(conn[current], from)
    PROVE  LET k == conn[current]
               new == conn'[current]
           IN  /\ from \in 0 .. Len(k.calls) /\ from < Len(new.calls)
               /\ CalledFor(new, reading, from, Len(new.calls))
               /\ \A p \in from + 1 .. Len(k.calls) : new.calls[p].error = NMBS_ERROR_NONE
               /\ new.frames[reading] = k.frames[reading]
<1> DEFINE k == conn[current]
           new == conn'[current]
           names == CallbacksOf(k.frames[reading].pdu)
<1>1. /\ k \in Connection /\ new \in Connection
      /\ Still(k, new)
      /\ Len(new.calls) = Len(k.calls) + 1
      /\ \A p \in 1 .. Len(k.calls) : new.calls[p] = k.calls[p]
      /\ new.calls[Len(new.calls)].request = reading
      /\ new.calls[Len(new.calls)].callback = Head(todo)
    BY CallbackFacts
<1>2. Len(k.calls) \in Nat /\ DOMAIN k.calls = 1 .. Len(k.calls)
    BY <1>1, ConnectionFacts, LenProperties
<1>3. DOMAIN new.calls = 1 .. Len(new.calls)
    BY <1>1, ConnectionFacts, LenProperties
<1>4. /\ from \in 0 .. Len(k.calls)
      /\ CalledFor(k, reading, from, Len(k.calls))
      /\ \A p \in from + 1 .. Len(k.calls) : k.calls[p].error = NMBS_ERROR_NONE
      /\ Len(k.calls) - from + Len(todo) = Len(names)
      /\ \A q \in 1 .. Len(todo) : todo[q] = names[Len(k.calls) - from + q]
    BY DEF CallingFrom
<1>5. /\ LengthLegal(k.frames[reading]) /\ k.frames[reading].protocol = 0
      /\ pc = "callback"
    BY DEF HandInv, HandlePcs, Callback, Frame
<1>6. new.frames = k.frames
    BY <1>1 DEF Still
<1>7. /\ Len(todo) \in Nat /\ 1 <= Len(todo) /\ Head(todo) = todo[1]
    <2>1. todo \in Seq(Callbacks) /\ todo # << >>
        BY <1>5 DEF IInv, SessionInv
    <2> QED
        BY <2>1
<1>8. Head(todo) = names[Len(new.calls) - from]
    <2>1. todo[1] = names[Len(k.calls) - from + 1]
        BY <1>4, <1>7
    <2>2. Len(k.calls) - from + 1 = Len(new.calls) - from
        BY <1>1, <1>2, <1>4
    <2> QED
        BY <1>7, <2>1, <2>2
<1>9. Len(names) \in Nat
    BY CallbacksOfFacts
<1>10. /\ from <= Len(new.calls) /\ Len(new.calls) - from <= Len(names)
       /\ from < Len(new.calls)
    BY <1>1, <1>2, <1>4, <1>7, <1>9
<1> HIDE DEF k, new, names
<1>11. ASSUME NEW p \in DOMAIN new.calls
       PROVE  new.calls[p].request = reading <=> p \in from + 1 .. Len(new.calls)
    <2>1. CASE p = Len(new.calls)
        BY <1>1, <1>2, <1>4, <2>1
    <2>2. CASE p # Len(new.calls)
        <3>1. p \in 1 .. Len(k.calls)
            BY <1>1, <1>2, <1>3, <2>2
        <3>2. k.calls[p].request = reading <=> p \in from + 1 .. Len(k.calls)
            BY <1>2, <1>4, <3>1 DEF CalledFor
        <3> QED
            BY <1>1, <1>2, <1>4, <3>1, <3>2
    <2> QED
        BY <2>1, <2>2
<1>12. ASSUME NEW p \in from + 1 .. Len(new.calls)
       PROVE  new.calls[p].callback = names[p - from]
    <2>1. CASE p = Len(new.calls)
        BY <1>1, <1>8, <2>1
    <2>2. CASE p # Len(new.calls)
        <3>1. p \in from + 1 .. Len(k.calls) /\ p \in 1 .. Len(k.calls)
            BY <1>1, <1>2, <1>4, <2>2
        <3>2. k.calls[p].callback = names[p - from]
            BY <1>4, <3>1 DEF CalledFor, names
        <3> QED
            BY <1>1, <3>1, <3>2
    <2> QED
        BY <2>1, <2>2
<1>13. \A p \in from + 1 .. Len(k.calls) : new.calls[p].error = NMBS_ERROR_NONE
    <2> TAKE p \in from + 1 .. Len(k.calls)
    <2>1. p \in 1 .. Len(k.calls)
        BY <1>2, <1>4
    <2> QED
        BY <1>1, <1>4, <2>1
<1>14. from + 1 .. Len(new.calls) - 1 = from + 1 .. Len(k.calls)
    BY <1>1, <1>2
<1>15. CalledFor(new, reading, from, Len(new.calls))
    BY <1>5, <1>6, <1>10, <1>11, <1>12, <1>13, <1>14 DEF CalledFor, names
<1> QED
    BY <1>4, <1>6, <1>10, <1>13, <1>15 DEF k, new

\* A longer record of calls or answers tells the same of the other requests.
LEMMA ToldOfOthers ==
    ASSUME NEW k \in Connection, NEW new \in Connection, NEW i, Told(k, i),
           new.frames = k.frames, AllRead(k, i) => AllRead(new, i),
           Len(k.calls) <= Len(new.calls),
           \A p \in 1 .. Len(k.calls) : new.calls[p] = k.calls[p],
           \A p \in 1 .. Len(new.calls) : p \notin 1 .. Len(k.calls) => new.calls[p].request # i,
           \A j \in 1 .. Len(new.answers) :
              new.answers[j].request = i =>
                 j \in 1 .. Len(k.answers) /\ new.answers[j] = k.answers[j]
    PROVE  Told(new, i)
<1>1. PICK from \in 0 .. Len(k.calls), upto \in 0 .. Len(k.calls) :
         /\ CalledFor(k, i, from, upto)
         /\ from < upto => AllRead(k, i)
         /\ \A j \in 1 .. Len(k.answers) :
               k.answers[j].request = i => AnswerFor(k, i, from, upto, k.answers[j].error)
    BY DEF Told
<1>2. /\ Len(k.calls) \in Nat /\ DOMAIN k.calls = 1 .. Len(k.calls)
      /\ Len(new.calls) \in Nat /\ DOMAIN new.calls = 1 .. Len(new.calls)
    BY ConnectionFacts, LenProperties
<1>3. from \in 0 .. Len(new.calls) /\ upto \in 0 .. Len(new.calls)
    BY <1>2
<1>4. \A p \in from + 1 .. upto : p \in 1 .. Len(k.calls) /\ new.calls[p] = k.calls[p]
    BY <1>2
<1>5. \A p \in from + 1 .. upto - 1 : p \in 1 .. Len(k.calls) /\ new.calls[p] = k.calls[p]
    BY <1>2
<1>6. ASSUME NEW p \in DOMAIN new.calls
      PROVE  new.calls[p].request = i <=> p \in from + 1 .. upto
    <2>1. CASE p \in 1 .. Len(k.calls)
        BY <1>1, <1>2, <2>1 DEF CalledFor
    <2>2. CASE p \notin 1 .. Len(k.calls)
        BY <1>2, <1>4, <2>2
    <2> QED
        BY <2>1, <2>2
<1>7. CalledFor(new, i, from, upto)
    BY <1>1, <1>4, <1>5, <1>6 DEF CalledFor
<1>8. from < upto => new.calls[upto] = k.calls[upto]
    BY <1>2
<1>9. \A error : AnswerFor(k, i, from, upto, error) => AnswerFor(new, i, from, upto, error)
    BY <1>8 DEF AnswerFor
<1> QED
    BY <1>1, <1>3, <1>7, <1>9 DEF Told

LEMMA CallbackKeepsToldInv ==
    ASSUME IInv, OrderInv, HandInv, ToldInv, Callback
    PROVE  ToldInv'
<1> DEFINE k == conn[current]
           new == conn'[current]
<1>1. /\ k \in Connection /\ new \in Connection /\ reading \in 1 .. Len(k.frames)
      /\ current \in Clients
      /\ Still(k, new) /\ new.answers = k.answers
      /\ Len(new.calls) = Len(k.calls) + 1
      /\ \A p \in 1 .. Len(k.calls) : new.calls[p] = k.calls[p]
      /\ new.calls[Len(new.calls)].request = reading
      /\ AllRead(new, reading) /\ Before(k, reading)
    BY CallbackFacts
<1>2. /\ Len(k.calls) \in Nat /\ new.frames = k.frames
      /\ \A i : AllRead(k, i) => AllRead(new, i)
    BY <1>1, ConnectionFacts DEF Still, AllRead
<1>3. \A p \in 1 .. Len(new.calls) : p \in 1 .. Len(k.calls) \/ p = Len(new.calls)
    BY <1>1, <1>2
<1>4. Requested(k) /\ \A i \in 1 .. Len(k.frames) : Told(k, i)
    BY <1>1 DEF ToldInv
<1> HIDE DEF k, new
<1>5. Requested(new)
    BY <1>1, <1>2, <1>3, <1>4 DEF Requested
<1>6. ASSUME NEW i \in 1 .. Len(new.frames), i # reading PROVE Told(new, i)
    <2>1. Len(k.calls) <= Len(new.calls)
        BY <1>1, <1>2
    <2>2. /\ \A p \in 1 .. Len(new.calls) :
                p \notin 1 .. Len(k.calls) => new.calls[p].request # i
          /\ \A j \in 1 .. Len(new.answers) :
                j \in 1 .. Len(k.answers) /\ new.answers[j] = k.answers[j]
        BY <1>1, <1>3, <1>6
    <2> QED
        BY <1>1, <1>2, <1>4, <1>6, <2>1, <2>2, ToldOfOthers
<1>7. Told(new, reading)
    <2>1. PICK from : CallingFrom(k, from)
        BY DEF HandInv, Callback, k
    <2>2. /\ from \in 0 .. Len(k.calls) /\ CalledFor(new, reading, from, Len(new.calls))
        BY <2>1, CallbackAddsToRun DEF k, new
    <2>3. from \in 0 .. Len(new.calls) /\ Len(new.calls) \in 0 .. Len(new.calls)
        BY <1>1, <1>2, <2>2
    <2>4. \A j \in 1 .. Len(new.answers) : new.answers[j].request # reading
        <3> TAKE j \in 1 .. Len(new.answers)
        <3>1. new.answers[j].request < reading
            BY <1>1 DEF Before
        <3>2. k.answers \in Seq([request : 1 .. MaxRequests,
                                 error : Exceptions \cup {NMBS_ERROR_NONE}])
            BY <1>1, ConnectionFacts
        <3>3. new.answers[j] \in [request : 1 .. MaxRequests,
                                  error : Exceptions \cup {NMBS_ERROR_NONE}]
            BY <1>1, <3>2, ElementOfSeq
        <3>4. new.answers[j].request \in Nat
            BY <3>3, ModbusTcpAssumption
        <3> QED
            BY <3>1, <3>4
    <2> QED
        BY <1>1, <2>2, <2>3, <2>4 DEF Told
<1>8. Requested(conn'[current]) /\ \A i \in 1 .. Len(conn'[current].frames) : Told(conn'[current], i)
    BY <1>5, <1>6, <1>7 DEF new
<1>9. \A c \in Clients \ {current} : conn'[c] = conn[c]
    BY OthersKept
<1> SUFFICES ASSUME NEW c \in Clients
             PROVE  /\ Requested(conn'[c])
                    /\ \A i \in 1 .. Len(conn'[c].frames) : Told(conn'[c], i)
    BY DEF ToldInv, Requested, Told, CalledFor, AnswerFor, AllRead
<1> QED
    BY <1>8, <1>9 DEF ToldInv

LEMMA SendKeepsToldInv ==
    ASSUME IInv, OrderInv, HandInv, ToldInv, Send
    PROVE  ToldInv'
<1> DEFINE k == conn[current]
           new == conn'[current]
           last == [request |-> reading, error |-> answer]
<1>1. pc = "send" /\ current \in Clients
    BY DEF Send, IInv, SessionInv, ServerPcs
<1>2. conn \in [Clients -> Connection] /\ k \in Connection
    BY <1>1 DEF IInv, TypeOK
<1>3. /\ reading \in 1 .. Len(k.frames) /\ Before(k, reading) /\ AllRead(k, reading)
      /\ \E from : AnsweringFrom(k, from)
    BY <1>1 DEF OrderInv, HandInv, RequestPcs, HandlePcs, IInv, SessionInv
<1>4. Requested(k) /\ \A i \in 1 .. Len(k.frames) : Told(k, i)
    BY <1>1 DEF ToldInv
<1>5. CASE conn' = conn
    <2> SUFFICES ASSUME NEW c \in Clients
                 PROVE  /\ Requested(conn'[c])
                        /\ \A i \in 1 .. Len(conn'[c].frames) : Told(conn'[c], i)
        BY DEF ToldInv, Requested, Told, CalledFor, AnswerFor, AllRead
    <2> QED
        BY <1>5 DEF ToldInv
<1>6. CASE conn' = [conn EXCEPT ![current].answers = Append(@, last)]
    <2>1. /\ new.answers = Append(k.answers, last)
          /\ new.frames = k.frames /\ new.unsent = k.unsent /\ new.inbox = k.inbox
          /\ new.calls = k.calls
          /\ \A c \in Clients \ {current} : conn'[c] = conn[c]
        BY <1>1, <1>2, <1>6 DEF Connection
    <2>2. IInv'
        BY NextKeepsIInv DEF Next, Server, Poll
    <2>3. new \in Connection
        BY <1>1, <2>2 DEF IInv, TypeOK, Send
    <2>4. /\ k.answers \in Seq([request : 1 .. MaxRequests,
                                error : Exceptions \cup {NMBS_ERROR_NONE}])
          /\ last \in [request : 1 .. MaxRequests,
                       error : Exceptions \cup {NMBS_ERROR_NONE}]
          /\ Len(k.answers) \in Nat /\ Len(k.calls) \in Nat
        <3>1. Len(k.frames) \in Nat /\ Len(k.frames) <= MaxRequests
            BY <1>1, <1>2, ConnectionFacts DEF IInv, InboxInv
        <3>2. reading \in 1 .. MaxRequests /\ answer \in Exceptions \cup {NMBS_ERROR_NONE}
            BY <1>3, <3>1, ModbusTcpAssumption DEF IInv, TypeOK
        <3> QED
            BY <1>2, <3>2, ConnectionFacts
    <2>5. /\ Len(new.answers) = Len(k.answers) + 1
          /\ \A j \in 1 .. Len(k.answers) : new.answers[j] = k.answers[j]
          /\ new.answers[Len(k.answers) + 1] = last
        BY <2>1, <2>4, AppendProperties
    <2>6. \A i : AllRead(k, i) => AllRead(new, i)
        BY <2>1 DEF AllRead
    <2>7. \A j \in 1 .. Len(new.answers) : j \in 1 .. Len(k.answers) \/ j = Len(k.answers) + 1
        BY <2>4, <2>5
    <2>8. last.request = reading /\ last.error = answer
        OBVIOUS
    <2> HIDE DEF k, new, last
    <2>9. Requested(new)
        BY <1>4, <2>1, <2>6 DEF Requested
    <2>10. ASSUME NEW i \in 1 .. Len(new.frames), i # reading PROVE Told(new, i)
        <3>1. Told(k, i) /\ Len(k.calls) <= Len(new.calls)
            BY <1>4, <2>1, <2>4, <2>10
        <3>2. \A j \in 1 .. Len(new.answers) :
                 new.answers[j].request = i =>
                    j \in 1 .. Len(k.answers) /\ new.answers[j] = k.answers[j]
            BY <2>5, <2>7, <2>8, <2>10
        <3> QED
            BY <1>2, <2>1, <2>3, <2>6, <3>1, <3>2, ToldOfOthers
    <2>11. Told(new, reading)
        <3>1. PICK from : AnsweringFrom(k, from)
            BY <1>3
        <3>2. /\ from \in 0 .. Len(new.calls) /\ Len(new.calls) \in 0 .. Len(new.calls)
              /\ CalledFor(new, reading, from, Len(new.calls))
              /\ AnswerFor(new, reading, from, Len(new.calls), answer)
            <4>1. /\ from \in 0 .. Len(k.calls)
                  /\ CalledFor(k, reading, from, Len(k.calls))
                  /\ AnswerFor(k, reading, from, Len(k.calls), answer)
                BY <3>1 DEF AnsweringFrom
            <4>2. Len(k.calls) \in 0 .. Len(k.calls)
                BY <2>4
            <4>3. new.calls = k.calls /\ new.frames[reading] = k.frames[reading]
                BY <2>1
            <4> QED
                BY <4>1, <4>2, <4>3, CalledForKept
        <3>3. ASSUME NEW j \in 1 .. Len(new.answers), new.answers[j].request = reading
              PROVE  new.answers[j].error = answer
            <4>1. CASE j \in 1 .. Len(k.answers)
                <5>1. k.answers[j] \in [request : 1 .. MaxRequests,
                                        error : Exceptions \cup {NMBS_ERROR_NONE}]
                    BY <2>4, <4>1, ElementOfSeq
                <5>2. k.answers[j].request \in Nat /\ k.answers[j].request < reading
                    BY <1>3, <4>1, <5>1, ModbusTcpAssumption DEF Before
                <5> QED
                    BY <2>5, <3>3, <4>1, <5>2
            <4>2. CASE j = Len(k.answers) + 1
                BY <2>5, <2>8, <4>2
            <4> QED
                BY <2>7, <4>1, <4>2
        <3> QED
            BY <1>3, <2>6, <3>2, <3>3 DEF Told
    <2> SUFFICES ASSUME NEW c \in Clients
                 PROVE  /\ Requested(conn'[c])
                        /\ \A i \in 1 .. Len(conn'[c].frames) : Told(conn'[c], i)
        BY DEF ToldInv, Requested, Told, CalledFor, AnswerFor, AllRead
    <2> QED
        BY <2>1, <2>9, <2>10, <2>11 DEF ToldInv, new
<1> QED
    BY <1>5, <1>6 DEF Send

\* What follows a callback: the next one, or the answer.
LEMMA CallbackKeepsHandInv ==
    ASSUME IInv, OrderInv, HandInv, Callback
    PROVE  HandInv'
<1> DEFINE k == conn[current]
           new == conn'[current]
           error == new.calls[Len(new.calls)].error
           names == CallbacksOf(k.frames[reading].pdu)
<1>1. /\ k \in Connection /\ new \in Connection
      /\ UNCHANGED <<current, reading>>
      /\ Len(new.calls) = Len(k.calls) + 1
      /\ answer' = ExceptionOf(error)
      /\ pc' = IF error = NMBS_ERROR_NONE /\ Len(todo) > 1 THEN "callback" ELSE "send"
    BY CallbackFacts
<1>2. PICK from : CallingFrom(k, from)
    BY DEF HandInv, Callback
<1>3. /\ from \in 0 .. Len(k.calls) /\ from < Len(new.calls)
      /\ CalledFor(new, reading, from, Len(new.calls))
      /\ \A p \in from + 1 .. Len(k.calls) : new.calls[p].error = NMBS_ERROR_NONE
      /\ new.frames[reading] = k.frames[reading]
    BY <1>2, CallbackAddsToRun
<1>4. /\ LengthLegal(k.frames[reading]) /\ k.frames[reading].protocol = 0
      /\ pc = "callback"
    BY DEF HandInv, HandlePcs, Callback, Frame
<1>5. Len(k.calls) \in Nat /\ Len(names) \in Nat
    BY <1>1, ConnectionFacts, CallbacksOfFacts
<1>6. /\ Len(k.calls) - from + Len(todo) = Len(names)
      /\ \A q \in 1 .. Len(todo) : todo[q] = names[Len(k.calls) - from + q]
    BY <1>2 DEF CallingFrom
<1>7. /\ todo' = Tail(todo) /\ Len(todo) \in Nat /\ Len(todo) >= 1
      /\ Len(Tail(todo)) = Len(todo) - 1
      /\ \A q \in 1 .. Len(todo) - 1 : Tail(todo)[q] = todo[q + 1]
    <2>1. todo \in Seq(Callbacks) /\ todo # << >>
        BY <1>4 DEF IInv, SessionInv
    <2> QED
        BY <2>1 DEF Callback
<1> HIDE DEF k, new, names, error
<1>8. /\ from \in 0 .. Len(new.calls)
      /\ Len(new.calls) - from = Len(names) - Len(todo) + 1
    <2> DEFINE L == Len(k.calls)
               M == Len(names)
               T == Len(todo)
    <2>1. L \in Nat /\ M \in Nat /\ T \in Nat /\ from \in 0 .. L /\ L - from + T = M
        BY <1>3, <1>5, <1>6, <1>7
    <2> HIDE DEF L, M, T
    <2>2. from \in 0 .. L + 1 /\ L + 1 - from = M - T + 1
        BY <2>1
    <2> QED
        BY <1>1, <2>2 DEF L, M, T
<1>9. ASSUME error = NMBS_ERROR_NONE, Len(todo) > 1
      PROVE  (\E f : CallingFrom(conn[current], f))'
    <2>1. \A p \in from + 1 .. Len(new.calls) : new.calls[p].error = NMBS_ERROR_NONE
        <3> TAKE p \in from + 1 .. Len(new.calls)
        <3>1. p \in from + 1 .. Len(k.calls) \/ p = Len(new.calls)
            BY <1>1, <1>3, <1>5
        <3> QED
            BY <1>3, <1>9, <3>1 DEF error
    <2>2. Len(new.calls) - from + Len(todo') = Len(names)
        <3> DEFINE D == Len(new.calls) - from
                   M == Len(names)
                   T == Len(todo)
                   U == Len(todo')
        <3>1. M \in Nat /\ T \in Nat /\ D = M - T + 1 /\ U = T - 1
            BY <1>5, <1>7, <1>8
        <3> HIDE DEF D, M, T, U
        <3>2. D + U = M
            BY <3>1
        <3> QED
            BY <3>2 DEF D, M, U
    <2>3. \A q \in 1 .. Len(todo') : todo'[q] = names[Len(new.calls) - from + q]
        <3> TAKE q \in 1 .. Len(todo')
        <3>1. q + 1 \in 1 .. Len(todo) /\ todo'[q] = todo[q + 1]
            BY <1>7
        <3>2. Len(k.calls) - from + (q + 1) = Len(new.calls) - from + q
            <4> DEFINE L == Len(k.calls)
                       N == Len(new.calls)
            <4>1. L \in Nat /\ N = L + 1 /\ from \in Nat /\ q \in Nat
                BY <1>1, <1>3, <1>5, <1>7
            <4> HIDE DEF L, N
            <4>2. L - from + (q + 1) = N - from + q
                BY <4>1
            <4> QED
                BY <4>2 DEF L, N
        <3> QED
            BY <1>6, <3>1, <3>2
    <2>4. CallingFrom(conn[current], from)'
        BY <1>1, <1>3, <1>8, <2>1, <2>2, <2>3 DEF CallingFrom, new, names
    <2> QED
        BY <2>4
<1>10. ASSUME ~(error = NMBS_ERROR_NONE /\ Len(todo) > 1)
       PROVE  (\E f : AnsweringFrom(conn[current], f))'
    <2>1. ExceptionOf(error) = NMBS_ERROR_NONE <=> error = NMBS_ERROR_NONE
        BY DEF ExceptionOf, NMBS_ERROR_NONE, nmbs_error_is_exception,
               NMBS_EXCEPTION_SERVER_DEVICE_FAILURE
    <2>2. error = NMBS_ERROR_NONE => Len(new.calls) - from = Len(names)
        BY <1>5, <1>7, <1>8, <1>10
    <2>3. AnswerFor(new, reading, from, Len(new.calls), ExceptionOf(error))
        BY <1>3, <2>1, <2>2 DEF AnswerFor, names, error
    <2>4. AnsweringFrom(conn[current], from)'
        BY <1>1, <1>3, <1>8, <2>3 DEF AnsweringFrom, new
    <2> QED
        BY <2>4
<1>11. Frame' = k.frames[reading]
    BY <1>1, <1>3 DEF Frame, new
<1>12. pc' \in {"callback", "send"}
    BY <1>1
<1> QED
    BY <1>1, <1>4, <1>9, <1>10, <1>11, <1>12 DEF HandInv, HandlePcs

\* The first byte of a request for which nothing was called yet.
LEMMA FirstByteKeepsHandInv ==
    ASSUME IInv, ShapeInv, ToldInv, ReadFirstByte
    PROVE  HandInv'
<1>1. pc' \in {"first_byte", "header", "close"} /\ current' = current /\ current \in Clients
    BY DEF ReadFirstByte, EndSession, IInv, SessionInv, ServerPcs
<1>2. ASSUME pc' = "header" PROVE NotCalled(conn[current])'
    <2>1. conn'[current].calls = conn[current].calls
        <3>1. PICK n \in Int : n <= Len(conn[current].inbox) /\ Consume(n)
            BY ReadStepConsumes DEF ReadStep
        <3> QED
            BY <1>1, <3>1, ReadSteps
    <2>2. Requested(conn[current])
        BY <1>1 DEF ToldInv
    <2>3. ASSUME NEW p \in 1 .. Len(conn[current].calls)
          PROVE  conn[current].calls[p].request # reading'
        <3>1. conn[current].calls[p].request < reading'
            BY <1>2, <2>2, FirstByteIsLater DEF Requested
        <3>2. conn[current].calls[p].request \in Int
            BY <1>1, <2>2 DEF Requested
        <3> QED
            BY <3>1, <3>2
    <2> QED
        BY <1>1, <2>1, <2>3 DEF NotCalled
<1> QED
    BY <1>1, <1>2 DEF HandInv, HandlePcs

\* A handler that refuses, or that is about to call.
LEMMA HandleKeepsHandInv ==
    ASSUME IInv, HandInv, Handle
    PROVE  HandInv'
<1> DEFINE k == conn[current]
           L == Len(k.calls)
           names == CallbacksOf(k.frames[reading].pdu)
<1>1. /\ pc = "handle" /\ UNCHANGED <<current, reading, conn>>
      /\ current \in Clients /\ k \in Connection
    BY DEF Handle, IInv, TypeOK, SessionInv, ServerPcs
<1>2. /\ LengthLegal(Frame) /\ Frame.protocol = 0
      /\ \A p \in 1 .. L : k.calls[p].request # reading
    BY <1>1 DEF HandInv, HandlePcs, NotCalled
<1>3. L \in Nat /\ L \in 0 .. L /\ L - L = 0 /\ ~(L < L)
    BY <1>1, ConnectionFacts
<1>4. CalledFor(k, reading, L, L)
    BY <1>1, <1>2, <1>3, NotCalledFor
<1>5. Frame' = Frame /\ Frame = k.frames[reading]
    BY <1>1 DEF Frame
<1>6. ASSUME answer' # NMBS_ERROR_NONE PROVE AnsweringFrom(conn[current], L)'
    <2>1. AnswerFor(k, reading, L, L, answer')
        BY <1>3, <1>6 DEF AnswerFor
    <2> QED
        BY <1>1, <1>3, <1>4, <2>1 DEF AnsweringFrom
<1>7. CASE Frame.pdu.function \notin HandledFunctions /\ answer' = RequestFault(Frame.pdu)
           /\ pc' = "flush_line"
    <2>1. RequestFault(Frame.pdu) = NMBS_EXCEPTION_ILLEGAL_FUNCTION
        BY <1>7 DEF RequestFault, HandledFunctions
    <2>2. answer' # NMBS_ERROR_NONE
        BY <1>7, <2>1 DEF NMBS_EXCEPTION_ILLEGAL_FUNCTION, NMBS_ERROR_NONE
    <2>3. NotCalled(conn[current])'
        BY <1>1, <1>2 DEF NotCalled
    <2> QED
        BY <1>2, <1>5, <1>7, <2>2, <2>3 DEF HandInv, HandlePcs
<1>8. CASE nmbs_error_is_exception(answer') /\ pc' = "send"
    <2>1. answer' # NMBS_ERROR_NONE
        BY <1>8 DEF nmbs_error_is_exception, Exceptions, NMBS_ERROR_NONE,
               NMBS_EXCEPTION_ILLEGAL_FUNCTION, NMBS_EXCEPTION_ILLEGAL_DATA_ADDRESS,
               NMBS_EXCEPTION_ILLEGAL_DATA_VALUE, NMBS_EXCEPTION_SERVER_DEVICE_FAILURE
    <2> QED
        BY <1>2, <1>5, <1>6, <1>8, <2>1 DEF HandInv, HandlePcs
<1>9. CASE pc' = "flush"
    BY <1>9 DEF HandInv, HandlePcs
<1>10. CASE todo' = names /\ pc' = "callback"
    <2>1. L - L + Len(names) = Len(names)
        BY <1>3, CallbacksOfFacts
    <2>2. \A q \in 1 .. Len(names) : names[q] = names[L - L + q]
        <3> TAKE q \in 1 .. Len(names)
        <3>1. L - L + q = q
            BY <1>3, CallbacksOfFacts
        <3> QED
            BY <3>1
    <2>3. \A p \in L + 1 .. L : k.calls[p].error = NMBS_ERROR_NONE
        BY <1>3
    <2>4. CallingFrom(conn[current], L)'
        BY <1>1, <1>3, <1>4, <1>10, <2>1, <2>2, <2>3 DEF CallingFrom
    <2> QED
        BY <1>2, <1>5, <1>10, <2>4 DEF HandInv, HandlePcs
<1> QED
    BY <1>1, <1>5, <1>7, <1>8, <1>9, <1>10 DEF Handle

\* The other steps: what is known of a request is known of it later on.
LEMMA OtherStepsKeepHandInv ==
    ASSUME IInv, HandInv, [Next]_vars, ~ReadFirstByte, ~Handle, ~Callback
    PROVE  HandInv'
<1> SUFFICES ASSUME pc' \in RequestPcs PROVE HandInv'
    BY DEF HandInv, RequestPcs, HandlePcs
<1> DEFINE k == conn[current]
           new == conn'[current]
<1>1. IInv'
    BY NextKeepsIInv
<1>2. pc \in RequestPcs /\ UNCHANGED <<current, reading>> /\ ~Send
    BY RequestPcsKept
<1>3. current \in Clients /\ reading \in 1 .. Len(k.frames) /\ reading \in 1 .. Len(new.frames)
    BY <1>1, <1>2 DEF IInv, SessionInv, RequestPcs, ServerPcs
<1>4. k \in Connection /\ new \in Connection /\ new # NoConnection
    <2>1. new # NoConnection
        BY <1>3, EmptySeq DEF NoConnection
    <2> QED
        BY <1>1, <1>2, <1>3, <2>1 DEF IInv, TypeOK
<1>5. new.calls = k.calls
    BY <1>3, <1>4, CallsKept
<1>6. new.frames[reading] = k.frames[reading]
    BY <1>3, <1>4, ConnectionChanges, FrameKept
<1>7. Frame = k.frames[reading] /\ Frame' = k.frames[reading]
    BY <1>2, <1>6 DEF Frame
<1>8. /\ NotCalled(k) => NotCalled(conn[current])'
      /\ \A from : todo' = todo /\ CallingFrom(k, from) => CallingFrom(conn[current], from)'
      /\ \A from : answer' = answer /\ AnsweringFrom(k, from) => AnsweringFrom(conn[current], from)'
    <2>1. NotCalled(k) => NotCalled(conn[current])'
        BY <1>2, <1>5 DEF NotCalled
    <2>2. ASSUME NEW from, todo' = todo, CallingFrom(k, from)
          PROVE  CallingFrom(conn[current], from)'
        <3>1. CalledFor(new, reading, from, Len(new.calls))
            BY <1>5, <1>6, <2>2, CalledForKept DEF CallingFrom
        <3> QED
            BY <1>2, <1>5, <1>6, <2>2, <3>1 DEF CallingFrom
    <2>3. ASSUME NEW from, answer' = answer, AnsweringFrom(k, from)
          PROVE  AnsweringFrom(conn[current], from)'
        <3>1. /\ CalledFor(new, reading, from, Len(new.calls))
              /\ AnswerFor(new, reading, from, Len(new.calls), answer)
            BY <1>5, <1>6, <2>3, CalledForKept DEF AnsweringFrom
        <3> QED
            BY <1>2, <1>5, <2>3, <3>1 DEF AnsweringFrom
    <2> QED
        BY <2>1, <2>2, <2>3
<1> HIDE DEF k, new
<1>9. CASE UNCHANGED <<pc, todo, answer>>
    BY <1>7, <1>8, <1>9 DEF HandInv, HandlePcs, k
<1>10. CASE ReadHeader
    <2>1. pc = "header" /\ pc' = "body" /\ LengthLegal(Frame)
        BY <1>10 DEF ReadHeader, EndSession, RequestPcs
    <2> QED
        BY <1>7, <1>8, <2>1 DEF HandInv, HandlePcs, k
<1>11. CASE ReadBody
    <2>1. pc = "body" /\ pc' = "handle" /\ Frame.protocol = 0
        BY <1>11 DEF ReadBody, EndSession, RequestPcs
    <2> QED
        BY <1>7, <1>8, <2>1 DEF HandInv, HandlePcs, k
<1>12. CASE Flush("flush_line") \/ Flush("flush")
    <2>1. pc = "flush_line" /\ pc' = "send" /\ UNCHANGED answer
        BY <1>12 DEF Flush, EndSession, RequestPcs
    <2>2. NotCalled(k) /\ answer # NMBS_ERROR_NONE
        BY <2>1 DEF HandInv, k
    <2>3. Len(k.calls) \in Nat /\ Len(k.calls) \in 0 .. Len(k.calls) /\ ~(Len(k.calls) < Len(k.calls))
        BY <1>4, ConnectionFacts
    <2>4. AnsweringFrom(k, Len(k.calls))
        <3>1. CalledFor(k, reading, Len(k.calls), Len(k.calls))
            BY <1>4, <2>2, <2>3, NotCalledFor DEF NotCalled
        <3> QED
            BY <2>2, <2>3, <3>1 DEF AnsweringFrom, AnswerFor
    <2>5. (\E from : AnsweringFrom(conn[current], from))'
        BY <1>8, <2>1, <2>4
    <2>6. LengthLegal(Frame) /\ Frame.protocol = 0
        BY <2>1 DEF HandInv, HandlePcs
    <2> QED
        BY <1>7, <2>1, <2>5, <2>6 DEF HandInv, HandlePcs
<1>13. CASE \E c \in Clients : Client(c)
    BY <1>9, <1>13, ClientSteps DEF server
<1>14. CASE QuietStep
    <2>1. Startup("tcs_lib_init", "tcs_socket", "invalid") \/ Startup("tcs_socket", "tcs_bind", "open")
          \/ Startup("tcs_bind", "tcs_listen", "open") \/ Startup("tcs_listen", "accept", "listening")
          \/ Accept \/ Cleanup
        BY <1>2, <1>14 DEF QuietStep
    <2> QED
        BY <1>2, <2>1 DEF Startup, Accept, Cleanup, RequestPcs
<1>15. CASE CloseClient
    BY <1>2, <1>15 DEF CloseClient, RequestPcs
<1>16. CASE UNCHANGED vars
    BY <1>9, <1>16 DEF vars
<1> QED
    BY <1>10, <1>11, <1>12, <1>13, <1>14, <1>15, <1>16, ServerSteps DEF Next, ReadStep

\* The program is called for the requests in their order.
CallOrder(k) ==
    \A p \in 1 .. Len(k.calls) : \A q \in 1 .. Len(k.calls) :
        p < q => k.calls[p].request <= k.calls[q].request

CallOrderInv ==
    /\ \A c \in Clients : CallOrder(conn[c])
    /\ pc \in RequestPcs => \A p \in 1 .. Len(conn[current].calls) :
                               conn[current].calls[p].request <= reading

LEMMA NextKeepsCallOrderInv ==
    IInv /\ ShapeInv /\ OrderInv /\ ToldInv /\ HandInv /\ CallOrderInv /\ [Next]_vars
        => CallOrderInv'
<1> SUFFICES ASSUME IInv, ShapeInv, OrderInv, ToldInv, HandInv, CallOrderInv, [Next]_vars
             PROVE  CallOrderInv'
    OBVIOUS
<1>1. IInv'
    BY NextKeepsIInv
<1>2. ASSUME ~Callback, NEW c \in Clients PROVE CallOrder(conn'[c])
    <2>1. Len(NoConnection.calls) = 0
        BY EmptySeq DEF NoConnection
    <2> QED
        BY <1>2, <2>1, CallsKept DEF CallOrderInv, CallOrder
<1>3. ASSUME ~Callback, pc' \in RequestPcs
      PROVE  (\A p \in 1 .. Len(conn[current].calls) : conn[current].calls[p].request <= reading)'
    <2>1. current' \in Clients /\ reading' \in 1 .. Len(conn'[current'].frames)
        BY <1>1, <1>3 DEF IInv, SessionInv, RequestPcs, ServerPcs
    <2>2. conn'[current'].calls = conn[current'].calls
        <3>1. conn'[current'] # NoConnection
            BY <2>1, EmptySeq DEF NoConnection
        <3> QED
            BY <1>3, <2>1, <3>1, CallsKept
    <2>3. CASE ReadFirstByte /\ pc' = "header" /\ current' = current
        <3>1. Requested(conn[current])
            BY <2>1, <2>3 DEF ToldInv
        <3>2. ASSUME NEW p \in 1 .. Len(conn[current].calls)
              PROVE  conn[current].calls[p].request <= reading'
            <4>1. conn[current].calls[p].request < reading'
                BY <2>3, <3>1, FirstByteIsLater DEF Requested
            <4>2. conn[current].calls[p].request \in Int
                BY <3>1 DEF Requested
            <4>3. reading' \in Int
                BY <2>1
            <4> QED
                BY <4>1, <4>2, <4>3
        <3> QED
            BY <2>2, <2>3, <3>2
    <2>4. CASE pc \in RequestPcs /\ UNCHANGED <<current, reading>>
        BY <2>2, <2>4 DEF CallOrderInv
    <2> QED
        BY <1>3, <2>3, <2>4, RequestPcsKept
<1>4. CASE Callback
    <2> DEFINE k == conn[current]
               new == conn'[current]
    <2>1. /\ k \in Connection /\ new \in Connection /\ reading \in 1 .. Len(k.frames)
          /\ current \in Clients /\ UNCHANGED <<current, reading>>
          /\ Len(new.calls) = Len(k.calls) + 1
          /\ \A p \in 1 .. Len(k.calls) : new.calls[p] = k.calls[p]
          /\ new.calls[Len(new.calls)].request = reading
        BY <1>4, CallbackFacts
    <2>2. pc \in RequestPcs
        BY <1>4 DEF Callback, RequestPcs
    <2>3. /\ Len(k.calls) \in Nat
          /\ \A p \in 1 .. Len(new.calls) : p \in 1 .. Len(k.calls) \/ p = Len(new.calls)
        BY <2>1, ConnectionFacts
    <2>4. \A p \in 1 .. Len(k.calls) : k.calls[p].request <= reading
        BY <2>2 DEF CallOrderInv
    <2>5. CallOrder(k)
        BY <2>1 DEF CallOrderInv
    <2>6. \A c \in Clients \ {current} : conn'[c] = conn[c]
        BY <1>4, OthersKept
    <2> HIDE DEF k, new
    <2>7. reading <= reading
        BY <2>1
    <2>8. \A p \in 1 .. Len(new.calls) : new.calls[p].request <= reading
        BY <2>1, <2>3, <2>4, <2>7
    <2>9. CallOrder(new)
        <3> SUFFICES ASSUME NEW p \in 1 .. Len(new.calls), NEW q \in 1 .. Len(new.calls), p < q
                     PROVE  new.calls[p].request <= new.calls[q].request
            BY DEF CallOrder
        <3>1. p \in 1 .. Len(k.calls)
            BY <2>1, <2>3
        <3>2. CASE q \in 1 .. Len(k.calls)
            BY <2>1, <2>5, <3>1, <3>2 DEF CallOrder
        <3>3. CASE q = Len(new.calls)
            BY <2>1, <2>8, <3>3
        <3> QED
            BY <2>3, <3>2, <3>3
    <2> QED
        BY <2>1, <2>6, <2>8, <2>9 DEF CallOrderInv, CallOrder, new
<1> QED
    BY <1>2, <1>3, <1>4 DEF CallOrderInv, CallOrder

LEMMA AlwaysTold == Spec => [](ToldInv /\ HandInv /\ CallOrderInv)
<1> DEFINE Order == BurstInv /\ ShapeInv /\ OrderInv
           Calling == ToldInv /\ HandInv /\ CallOrderInv
<1>1. Init => Calling
    <2> SUFFICES ASSUME Init PROVE Calling
        OBVIOUS
    <2>1. Len(NoConnection.calls) = 0 /\ Len(NoConnection.frames) = 0
        BY EmptySeq DEF NoConnection
    <2>2. ToldInv
        BY <2>1 DEF ToldInv, Requested, Init
    <2>3. CallOrderInv
        BY <2>1 DEF CallOrderInv, CallOrder, RequestPcs, Init
    <2> QED
        BY <2>2, <2>3 DEF HandInv, HandlePcs, Init
<1>2. IInv /\ Order /\ Calling /\ [Next]_vars => Calling'
    <2> SUFFICES ASSUME IInv, ShapeInv, OrderInv, ToldInv, HandInv, CallOrderInv, [Next]_vars
                 PROVE  ToldInv' /\ HandInv' /\ CallOrderInv'
        OBVIOUS
    <2>1. ToldInv'
        BY QuietKeepsToldInv, CallbackKeepsToldInv, SendKeepsToldInv
    <2>2. HandInv'
        BY FirstByteKeepsHandInv, HandleKeepsHandInv, CallbackKeepsHandInv, OtherStepsKeepHandInv
    <2> QED
        BY <2>1, <2>2, NextKeepsCallOrderInv
<1> QED
    BY <1>1, <1>2, AlwaysIInv, AlwaysOrdered, PTL DEF Spec

(* The program is called for a request at most once per callback, in order, *)
(* with a whole legal frame only, and the answer to the client is what came *)
(* of the calls (handle_req_fc, handle_read_write_registers).               *)
THEOREM AnswersAreTrue == Spec => []AnswersTellWhatWasDone
<1>1. IInv /\ ToldInv => AnswersTellWhatWasDone
    <2> SUFFICES ASSUME IInv, ToldInv, NEW c \in Clients, NEW i \in DOMAIN conn[c].frames
                 PROVE  \E from, upto \in 0 .. Len(conn[c].calls) :
                           /\ CalledFor(conn[c], i, from, upto)
                           /\ from < upto => Received(c, i)
                           /\ \A j \in DOMAIN conn[c].answers :
                                 conn[c].answers[j].request = i =>
                                     AnswerFor(conn[c], i, from, upto, conn[c].answers[j].error)
        BY DEF AnswersTellWhatWasDone
    <2>1. conn[c] \in Connection
        BY DEF IInv, TypeOK
    <2>2. /\ DOMAIN conn[c].frames = 1 .. Len(conn[c].frames)
          /\ DOMAIN conn[c].answers = 1 .. Len(conn[c].answers)
          /\ DOMAIN conn[c].inbox = 1 .. Len(conn[c].inbox)
        BY <2>1, ConnectionFacts, LenProperties
    <2>3. Told(conn[c], i)
        BY <2>2 DEF ToldInv
    <2>4. AllRead(conn[c], i) => Received(c, i)
        BY <2>2 DEF AllRead, Received
    <2> QED
        BY <2>2, <2>3, <2>4 DEF Told
<1> QED
    BY <1>1, AlwaysIInv, AlwaysTold, PTL
=============================================================================
