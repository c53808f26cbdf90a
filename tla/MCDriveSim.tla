---------------------------- MODULE MCDriveSim ----------------------------
(***************************************************************************)
(* Words of 3 bits and a motor of 2 Nm: of the eight words a client can    *)
(* write five are legal torques, -4, -3 and 3 are not.  Every speed is     *)
(* small: torque 1 starts the vehicle, the motor cuts out at 2 units.      *)
(***************************************************************************)
EXTENDS DriveSim

MCParameters ==
    <<[num |-> 3, den |-> 2, scale |-> 1], [num |-> 1, den |-> 4, scale |-> 6]>>

ReadRequests(addresses, quantities) ==
    [function : ReadFunctions, address : addresses, quantity : quantities, value : {0}]

WriteRequests(function, words) ==
    [function : {function}, address : {0}, quantity : {1}, value : words]

\* Torques 0, 2 and -2 from an initial 1, the illegal 3 and -4, and requests for
\* registers that do not exist.
MCRequests ==
    ReadRequests({0}, {1, 2}) \cup ReadRequests({1}, {1})
        \cup WriteRequests("write_single_register", {0, 2, 3, 4, 6})
        \cup WriteRequests("write_multiple_registers", {2, 4})
        \cup [function : {"write_single_register"}, address : {1}, quantity : {1}, value : {0}]
        \cup [function : {"write_multiple_registers"}, address : {0}, quantity : {2}, value : {2}]

\* For the temporal runs: one request of each outcome.
MCFewRequests ==
    ReadRequests({0}, {1}) \cup WriteRequests("write_single_register", {2, 4, 7})
        \cup WriteRequests("write_multiple_registers", {2, 4, 7})

AllFail == StartupCalls
NoneFail == {}
HeartbeatFails == {"create_heartbeat"}
=============================================================================
