---------------------------- MODULE RegisterMap ----------------------------
(***************************************************************************)
(* The Modbus register map of src/DriveSim.c: which requests a client can  *)
(* make, the 16-bit words they carry, and the checks the callbacks make    *)
(* before they touch the shared state.                                     *)
(***************************************************************************)
EXTENDS Vehicle, Nmbs, Sequences

CONSTANTS
    WordSize,           \* 2^16 in the code: register values are 0 .. WordSize - 1
    Parameters          \* the vehicle parameters as the input registers show
                        \* them: <<[num, den, scale], ...>>, the double num / den

ASSUME RegisterMapAssumption ==
    /\ WordSize \in Nat /\ WordSize % 2 = 0
    /\ 2 * MotorMaxTorque < WordSize
    /\ Parameters \in Seq([num : Int, den : Nat \ {0}, scale : Nat])

Word == 0 .. WordSize - 1

\* (int16_t) value and (uint16_t) value
Int16(word) == IF 2 * word >= WordSize THEN word - WordSize ELSE word

Uint16(int) == int % WordSize

ACCELERATOR_SENSOR_FAILURE_ADDRESS == 0
TORQUE_REGISTER_ADDRESS == 0
PARAM_COUNT == Len(Parameters)

\* What a callback of this program returns.
Errors == {NMBS_ERROR_NONE, NMBS_EXCEPTION_ILLEGAL_DATA_ADDRESS,
           NMBS_EXCEPTION_ILLEGAL_DATA_VALUE}

ReadFunctions == {"read_discrete_inputs", "read_holding_registers",
                  "read_input_registers"}
WriteFunctions == {"write_single_register", "write_multiple_registers"}
Functions == ReadFunctions \cup WriteFunctions

\* A request as nanoMODBUS hands it to a callback.  For a write, value is the
\* first register; for a read it is absent from the call and 0 here.
RequestRecord == [function : Functions, address : Nat, quantity : Nat, value : Word]

expect_single_register(address, quantity, expected) ==
    IF address # expected \/ quantity # 1
    THEN NMBS_EXCEPTION_ILLEGAL_DATA_ADDRESS
    ELSE NMBS_ERROR_NONE

expect_input_registers(address, quantity) ==
    IF quantity < 1 THEN NMBS_EXCEPTION_ILLEGAL_DATA_VALUE
    ELSE IF address + quantity > PARAM_COUNT
         THEN NMBS_EXCEPTION_ILLEGAL_DATA_ADDRESS
         ELSE NMBS_ERROR_NONE

\* The check each callback makes before it locks or answers.
RequestCheck(r) ==
    CASE r.function = "read_input_registers" ->
             expect_input_registers(r.address, r.quantity)
      [] r.function = "read_discrete_inputs" ->
             expect_single_register(r.address, r.quantity,
                                    ACCELERATOR_SENSOR_FAILURE_ADDRESS)
      [] r.function = "write_single_register" ->
             expect_single_register(r.address, 1, TORQUE_REGISTER_ADDRESS)
      [] OTHER ->
             expect_single_register(r.address, r.quantity, TORQUE_REGISTER_ADDRESS)

is_torque_command_valid(torque) ==
    torque >= -MotorMaxTorque /\ torque <= MotorMaxTorque

\* (uint16_t) (value * scale + 0.5) of the double num / den.
encode_scaled(num, den, scale) ==
    IF num <= 0 THEN 0 ELSE Uint16((2 * num * scale + den) \div (2 * den))

\* registers_out of read_input_registers: parameters address .. address + quantity - 1.
EncodedParameters(address, quantity) ==
    [i \in 1 .. quantity |->
        LET p == Parameters[address + i]
        IN  encode_scaled(p.num, p.den, p.scale)]
=============================================================================
