----------------------------- MODULE ModbusPdu -----------------------------
(***************************************************************************)
(* How the nanoMODBUS server (lib/nanoMODBUS/nanomodbus.c) answers one     *)
(* whole Modbus TCP request: the checks of each handler in their order,    *)
(* the callbacks it then calls, and the size of the response it builds.    *)
(*                                                                         *)
(* A request is whole and as long as its function needs, and one of the    *)
(* file functions has one sub-request.  Several of them are the subject of *)
(* NmbsFileRecord, device identification beyond its missing callback of    *)
(* NmbsDeviceId, and RTU of NmbsRtuServer.                                 *)
(***************************************************************************)
EXTENDS Integers, Sequences, Nmbs

CONSTANT Callbacks      \* the names of the callbacks that are not NULL

CallbackNames == {"read_coils", "read_discrete_inputs", "read_holding_registers",
                  "read_input_registers", "write_single_coil", "write_single_register",
                  "write_multiple_coils", "write_multiple_registers",
                  "read_file_record", "write_file_record"}

ASSUME CallbacksAssumption == Callbacks \subseteq CallbackNames

\* The function codes handle_req_fc dispatches on.
HandledFunctions == {1, 2, 3, 4, 5, 6, 15, 16, 20, 21, 23, 43}

AddressSpace == 65536   \* 0xFFFF + 1
BufferSize   == 260     \* sizeof(msg.buf)

\* The fields of a request.  A function uses those its PDU has: bytes is its
\* byte count (the request size of functions 20 and 21), value the coil of
\* function 5 and what the sub-request of function 21 leaves over, legal says
\* that the sub-request of function 20 or 21 is well formed.
PduFields ==
    [function : 0 .. 127, address : 0 .. AddressSpace - 1, quantity : 0 .. AddressSpace - 1,
     write_address : 0 .. AddressSpace - 1, write_quantity : 0 .. AddressSpace - 1,
     bytes : 0 .. 255, value : 0 .. AddressSpace - 1, legal : BOOLEAN]

-----------------------------------------------------------------------------
\* One check of a handler: the error it returns where fails holds.
Check(fails, error) == [fails |-> fails, error |-> error]

\* The error of the first check that fails.
FirstFault(checks) ==
    LET failing == {i \in DOMAIN checks : checks[i].fails}
    IN  IF failing = {} THEN NMBS_ERROR_NONE
        ELSE checks[CHOOSE i \in failing : \A j \in failing : i <= j].error

OutOfSpace(address, quantity) == address + quantity > AddressSpace

Missing(callback) == callback \notin Callbacks

QuantityCheck(quantity, limit) ==
    Check(quantity < 1 \/ quantity > limit, NMBS_EXCEPTION_ILLEGAL_DATA_VALUE)
SpaceCheck(address, quantity) ==
    Check(OutOfSpace(address, quantity), NMBS_EXCEPTION_ILLEGAL_DATA_ADDRESS)
ValueCheck(fails) == Check(fails, NMBS_EXCEPTION_ILLEGAL_DATA_VALUE)
CallbackCheck(callback) == Check(Missing(callback), NMBS_EXCEPTION_ILLEGAL_FUNCTION)
SizeCheck(bytes, limit) == Check(bytes > limit, NMBS_ERROR_INVALID_REQUEST)

\* Mutant: a missing callback is called all the same.
ReadDiscreteUnchecked(f, callback) ==
    FirstFault(<<QuantityCheck(f.quantity, 2000), SpaceCheck(f.address, f.quantity)>>)

handle_read_discrete(f, callback) ==
    FirstFault(<<QuantityCheck(f.quantity, 2000), SpaceCheck(f.address, f.quantity),
                 CallbackCheck(callback)>>)

\* Mutant: Read Holding and Read Input Registers take two registers too many.
ReadRegistersTooMany(f, callback) ==
    FirstFault(<<QuantityCheck(f.quantity, 127), SpaceCheck(f.address, f.quantity),
                 CallbackCheck(callback)>>)

handle_read_registers(f, callback) ==
    FirstFault(<<QuantityCheck(f.quantity, 125), SpaceCheck(f.address, f.quantity),
                 CallbackCheck(callback)>>)

handle_write_single_coil(f) ==
    FirstFault(<<CallbackCheck("write_single_coil"), ValueCheck(f.value \notin {0, 65280})>>)

handle_write_single_register(f) ==
    FirstFault(<<CallbackCheck("write_single_register")>>)

handle_write_multiple_coils(f) ==
    FirstFault(<<SizeCheck(f.bytes, 246), QuantityCheck(f.quantity, 1968),
                 SpaceCheck(f.address, f.quantity), ValueCheck(f.bytes = 0),
                 ValueCheck((f.quantity + 7) \div 8 # f.bytes),
                 CallbackCheck("write_multiple_coils")>>)

handle_write_multiple_registers(f) ==
    FirstFault(<<SizeCheck(f.bytes, 246), QuantityCheck(f.quantity, 123),
                 SpaceCheck(f.address, f.quantity), ValueCheck(f.bytes = 0),
                 ValueCheck(f.bytes # 2 * f.quantity),
                 CallbackCheck("write_multiple_registers")>>)

handle_read_file_record(f) ==
    FirstFault(<<SizeCheck(f.bytes, 245), ValueCheck(f.bytes % 7 # 0), ValueCheck(f.bytes < 7),
                 Check(~f.legal, NMBS_EXCEPTION_ILLEGAL_DATA_ADDRESS),
                 CallbackCheck("read_file_record")>>)

\* The checks of the sub-requests come before that of their total size.
handle_write_file_record(f) ==
    FirstFault(<<SizeCheck(f.bytes, 251), ValueCheck(f.bytes < 7),
                 Check(~f.legal, NMBS_EXCEPTION_ILLEGAL_DATA_ADDRESS),
                 ValueCheck(f.value # 0), CallbackCheck("write_file_record")>>)

handle_read_write_registers(f) ==
    FirstFault(<<SizeCheck(f.bytes, 242), QuantityCheck(f.quantity, 125),
                 QuantityCheck(f.write_quantity, 123),
                 ValueCheck(f.bytes # 2 * f.write_quantity),
                 SpaceCheck(f.address, f.quantity),
                 SpaceCheck(f.write_address, f.write_quantity),
                 CallbackCheck("write_multiple_registers"),
                 CallbackCheck("read_holding_registers")>>)

\* No server of the program has the device identification callbacks.
handle_read_device_identification(f) ==
    FirstFault(<<CallbackCheck("read_device_identification")>>)

\* What stands between a request and its callbacks.
RequestFault(f) ==
    CASE f.function = 1  -> handle_read_discrete(f, "read_coils")
      [] f.function = 2  -> handle_read_discrete(f, "read_discrete_inputs")
      [] f.function = 3  -> handle_read_registers(f, "read_holding_registers")
      [] f.function = 4  -> handle_read_registers(f, "read_input_registers")
      [] f.function = 5  -> handle_write_single_coil(f)
      [] f.function = 6  -> handle_write_single_register(f)
      [] f.function = 15 -> handle_write_multiple_coils(f)
      [] f.function = 16 -> handle_write_multiple_registers(f)
      [] f.function = 20 -> handle_read_file_record(f)
      [] f.function = 21 -> handle_write_file_record(f)
      [] f.function = 23 -> handle_read_write_registers(f)
      [] f.function = 43 -> handle_read_device_identification(f)
      [] OTHER           -> NMBS_EXCEPTION_ILLEGAL_FUNCTION

\* Mutant: Read/Write Registers reads before it writes.
CallbacksReadingFirst(f) ==
    CASE f.function = 3  -> <<"read_holding_registers">>
      [] f.function = 23 -> <<"read_holding_registers", "write_multiple_registers">>
      [] f.function = 2  -> <<"read_discrete_inputs">>
      [] f.function = 6  -> <<"write_single_register">>
      [] f.function = 16 -> <<"write_multiple_registers">>
      [] OTHER           -> << >>

\* The callbacks a request without fault is passed to, in order.
CallbacksOf(f) ==
    CASE f.function = 1  -> <<"read_coils">>
      [] f.function = 2  -> <<"read_discrete_inputs">>
      [] f.function = 3  -> <<"read_holding_registers">>
      [] f.function = 4  -> <<"read_input_registers">>
      [] f.function = 5  -> <<"write_single_coil">>
      [] f.function = 6  -> <<"write_single_register">>
      [] f.function = 15 -> <<"write_multiple_coils">>
      [] f.function = 16 -> <<"write_multiple_registers">>
      [] f.function = 20 -> <<"read_file_record">>
      [] f.function = 21 -> <<"write_file_record">>
      [] f.function = 23 -> <<"write_multiple_registers", "read_holding_registers">>
      [] OTHER           -> << >>

\* Any error of a callback goes out as an exception.
ExceptionOf(error) ==
    IF error = NMBS_ERROR_NONE \/ nmbs_error_is_exception(error)
    THEN error ELSE NMBS_EXCEPTION_SERVER_DEVICE_FAILURE

-----------------------------------------------------------------------------
\* uint8_t discrete_bytes, regs_bytes, response_data_size: the byte count of
\* a response with data.  A file's data has a size and a type of its own.
ByteCount(f) ==
    (CASE f.function \in {1, 2} -> (f.quantity + 7) \div 8
       [] f.function = 20       -> 2 + 2 * f.quantity
       [] OTHER                 -> 2 * f.quantity) % 256

\* The data bytes the handler puts after it, bit by byte count, word by quantity.
DataBytes(f) ==
    CASE f.function \in {1, 2} -> ByteCount(f)
      [] f.function = 20       -> 2 + 2 * f.quantity
      [] OTHER                 -> 2 * f.quantity

ReadFunctionCodes == {1, 2, 3, 4, 20, 23}
HeaderSize == 8         \* MBAP and function code

\* The bytes of the response put into msg.buf: an exception code, the data
\* read with its byte count, or the echo of two words or of a whole request.
ResponseSize(f, error) ==
    HeaderSize +
        (IF error # NMBS_ERROR_NONE THEN 1
         ELSE IF f.function \in ReadFunctionCodes THEN 1 + DataBytes(f)
         ELSE IF f.function = 21 THEN 1 + f.bytes
         ELSE 4)
=============================================================================
