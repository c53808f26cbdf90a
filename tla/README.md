# DriveSim in TLA+

DriveSim is a C program that simulates the electric drive of a car and lets a
Modbus TCP client command its torque. This directory holds a model of it, and
of the libraries it carries with it, in TLA+; the TLC runs that check the model
on small instances; and the theorems TLAPS proves about it for every value of
the constants. Paths below are relative to the repository (`src/DriveSim.c`
of the repository is `src/src/DriveSim.c` in `PROJECT.json`).

## 1. The system

Three threads, one process, one shared record:

```
  Modbus client ──TCP──> main thread                    simulation thread      heartbeat thread
                         ModbusTcp_run                  every 20 ms            every 1 s
                           nmbs_server_poll             Vehicle_step_50hz      Vehicle_get_speed
                             callback ──┐                    │                      │
                                        └──── AppContext: vehicle, failure flag, mutex ────┘
```

| Component | State it keeps | Operations | Talks to |
|---|---|---|---|
| Vehicle model, `src/Vehicle.c` | parameters, commanded torque, speed, distance | `Vehicle_init`, `Vehicle_set_torque`, `Vehicle_get_speed`, `Vehicle_step_50hz` | called by all three threads |
| Application, `src/DriveSim.c` | `AppContext` (vehicle, `accelerator_sensor_failure`, mutex) | start-up and its failure paths, five Modbus callbacks, the simulation and heartbeat loops | the vehicle; called back by nanoMODBUS on the main thread |
| Modbus TCP adapter, `src/ModbusTcp.c` | listening socket, client socket, per-session nanoMODBUS instance | `ModbusTcp_run`, `run_modbus_session`, `modbus_transport_read/write` | tinycsocket below, nanoMODBUS above |
| nanoMODBUS server, `lib/nanoMODBUS` | `msg` (buffer, position, current header), timeouts | `nmbs_server_poll` over TCP and RTU, one handler per function code | reads and writes through the adapter, calls the application |
| nanoMODBUS client, `lib/nanoMODBUS` | `msg`, `current_tid` | one function per function code, raw PDUs, device identification | a server; not used by DriveSim |
| tinycthread, `lib/tinycthread` | mutexes, condition variables, threads, keys, once flags | `mtx_*`, `cnd_*`, `thrd_*`, `tss_*`, `call_once` | pthreads or Windows; DriveSim uses mutexes and threads |
| tinycsocket, `lib/tinycsocket` | sockets, pools | socket set-up, send and receive with framing, pools, interfaces, addresses and their texts | the operating system; DriveSim uses set-up, send and receive |
| Tests, Unity, CMake files | - | - | read for what they say, not modelled |

What is hard about it, and what makes each part correct:

- **Vehicle.** The motor is cut out by a test of the speed *before* the step,
  the rolling resistance behaves differently at standstill, a decelerating step
  must not reverse the vehicle, and each comparison treats reverse driving by
  its own `abs`/`sign`. The tests drive forward from rest with one torque.
  Correct is: bounded speed for every order of commands, nothing but the motor
  adds speed, coasting ends, forward and reverse alike.
- **Application.** Three threads and one mutex whose return codes nobody looks
  at; a flag read without the lock; a write that changes flag and torque in two
  stores; an unlock for each refusing path; a start-up that can fail at five
  places with threads already detached. Correct is: no data race, the lock held
  exactly in the critical sections, a step and a request each as if at one
  instant, answers that say what was done, no thread left waiting for ever.
- **Modbus TCP.** A byte stream that arrives in any pieces or stops anywhere,
  two timeouts switched during one frame, flushes that throw input away,
  function 23 which calls two callbacks, a dozen ways out of a session.
  Correct is: the program is called only for whole, legal requests, answers keep
  the order of requests and tell the truth, they fit their buffer, every way out
  closes the socket, and a client that falls silent does not hold the server.
- **nanoMODBUS elsewhere.** Limits checked twice in separate code; answers that
  come after their call gave up; requests taken apart in the buffer the answer
  is built in; a list that spans several answers while it changes; a shared RTU
  line on which requests and answers look alike.
- **tinycthread.** On Windows every primitive is put together from simpler ones,
  in several steps that threads interleave with.
- **tinycsocket.** Sequences of system calls any of which may fail, arrays that
  may fail to grow half way, framing over a stream that cuts and times out,
  interfaces that come and go between two questions about them, and a
  table-driven parser.

`PROJECT.json` lists these hazards, each at its line and with the properties
that would catch it.

## 2. The modules

```
  Vehicle ─────┬── VehicleDynamics ─── VehicleProofs
  Nmbs ───┬────┴── RegisterMap ──┬── DriveSim ─┬─ MCDriveSim
          │                      │             └─ DriveSimProofs
          │                      └── DriveService ─ ─ (instantiated by DriveSim, DriveServer)
          ├── ModbusPdu ── ModbusTcp ─┬─ MCModbusTcp
          │       │                   ├─ ModbusTcpProofs ─────────┐
          │       │                   └─ DriveServer ─┬───────── DriveServerProofs
          │       │                                   └─ MCDriveServer
          │       └── NmbsCalls ─ ─ ─ ─ ┐
          └── NmbsClient, NmbsFileRecord, NmbsDeviceId, NmbsRtuServer ─ ─ MCNanoModbus ── NanoModbusProofs

  TctMutex ── TctCond ── MCTinycthread ─ ─ TctOnce, TctTss, TctThread, TctTime
                               └── TinycthreadProofs

  TcsStream ── TcsNetstring, TcsLine        TdsMap ── TcsPoolPosix, TcsPoolWin32 ─ ─ TcsPool
  TcsInterfaces ── TcsInterfaceByName, TcsAddressList        TcsSetup        TcsAddressText
  TcsLine, TcsSetup, TcsPoolPosix,                ┌─ TinycsocketProofs
  TcsInterfaceByName, TcsAddressList ─ ─ TcsSockets
                                   the others ─ ─ ┴─ MCTinycsocket
```
(solid: EXTENDS; dashed: INSTANCE)

### The program

**`Vehicle`** – the operations of `Vehicle.c` as operators on a record. The
parameters are constants, since `Vehicle_init` is their only writer. The code
computes in `double`; the model in integers of small units (a force of
`Mass * 50` changes the speed by one unit in one step; 50 is `VEHICLE_UPDATE_HZ`)
with divisions truncated toward zero. So the branches of the step, their order
and their signs are the code's, and rounding is coarser, but symmetric about
zero, as the rounding of `double` is. `NaN`s and infinities are not modelled; no
caller produces them.

**`VehicleDynamics`** – a vehicle under any sequence of `Vehicle_set_torque`
(legal or not) and `Vehicle_step_50hz`. TLC runs it as it is, with the requests of
`MCTorqueRequests`.

**`RegisterMap`** – what `DriveSim.c` decides about a request before it touches
shared state: the address and quantity checks, the signed reading of a register
word (`2^16` is the constant `WordSize`), and the fixed-point encoding of the
parameters.

**`DriveSim`** – the program. An action is one access to the shared state, one
mutex call or one start-up call, so that threads interleave wherever they can.
`pc` says where each thread is:

| Code | Actions |
|---|---|
| `main`, start-up and its failure branches | `MtxInit`, `ThrdCreate`, `ThrdDetach`, `MtxDestroy`, `Return` |
| the five callbacks, run on main | `Receive`, `CheckRequest`, then `ReadFailure`, or `MainLock`, `CopyRegisters` / `RefuseTorque` / `AcceptTorque`, `SetTorque`, `MainUnlock`; `SendReply` |
| `simulation_thread` with `Vehicle_step_50hz` | `SimulationLock`, `ComputeStep`, `StoreSpeed`, `StoreDistance`, `SimulationUnlock`, `Wake` |
| `heartbeat_thread` | `HeartbeatLock`, `ReadSpeed`, `HeartbeatUnlock`, `Wake` |
| `ModbusTcp_run` returning | `ServerReturns` |

A destroyed mutex is modelled as pthreads behaves: `mtx_lock` returns an error
which no caller checks, so the thread goes on without the lock. Destroying a
mutex that is held is undefined, and a choice of two outcomes. `main` returning
ends every thread; the instants in which detached threads could still use
main's locals while the process exits are left out.

**`DriveService`** – the abstract specification: a torque register, a flag and a moving vehicle in
which each request, step and report happens at one instant. No threads, no lock. `DriveSim`
instantiates it and implements it under a mapping in which a write takes effect when it decides the
flag (`TorqueInEffect`) and a step when it stores the speed (`DistanceInEffect`).

**`ModbusPdu`** – for a whole request, the checks of each nanoMODBUS handler in
their order, the callbacks called, and the size of the response.

**`ModbusTcp`** – the server loop of the adapter, one session of
`nmbs_server_poll` at a time, and clients (external) that connect, send, stop,
close and reset at any point. Bytes are grouped in pieces: the first byte of a
frame, `HeaderPieces` for the rest of the header and `BodyPieces` for the body,
so that a read can find nothing, a part, or all of what it asks for; the code's
own reads are exactly these three. `modbus_transport_read` gives the set of
results a POSIX `recv` with `MSG_WAITALL` and the given receive timeout can have,
the empty set when it never returns (timeout 0 is "no timeout" to a socket).

| Code | Actions |
|---|---|
| `ModbusTcp_run` | `Startup` (four calls, each may fail), `Accept`, `CloseClient`, `Cleanup` |
| `nmbs_server_poll`, `recv_msg_header` | `ReadFirstByte`, `ReadHeader`, `ReadBody` |
| `handle_req_fc` and the handlers | `Handle`, `Callback`, `Flush("flush_line")`, `Send` |
| `flush` on the error paths, `run_modbus_session` | `Flush("flush")`, `EndSession` |

What a callback answers is a choice here.

**`DriveServer`** – the two composed: the callbacks of `ModbusTcp` are answered by
`DriveService`, which the threads of `DriveSim` implement. Function 23 becomes two
calls of the program, refused or not each on its own.

### nanoMODBUS beyond DriveSim's use

- **`NmbsCalls`**: what each client function refuses before it sends
  (`nmbs_read_...`, `nmbs_write_...`), the request it builds, and the checks its
  `recv_..._res` makes of the answer, against the handlers of `ModbusPdu`.
- **`NmbsClient`**: the receive path (`nmbs_...` → `recv_res_header` →
  `recv_msg_header` → `recv_..._res`) over TCP and RTU, with the flush before a
  request, transaction ids that wrap, timeouts, and answers that come late,
  damaged, for something else, or never. `msg.buf` keeps what an earlier frame
  left in it.
- **`NmbsFileRecord`**: `handle_read_file_record` and `handle_write_file_record`,
  which take several sub-requests apart, check all, then serve them. The records of a
  read go into `msg.buf` without a look at its end; `Overrun` is where one does not fit
  (`BufferSize`), and the behaviour ends there, since what it overwrites is undefined.
- **`NmbsDeviceId`**: the client's loop and the server's cut of a list of objects
  into answers, while the program changes the objects.
- **`NmbsRtuServer`**: `nmbs_server_poll` on a line with other servers, each
  of whose answers it has to read to keep in step. When it is out of step, bytes from
  the middle of a frame may look like its own unit and a function it does not have, and
  another unit's answer may be damaged into one; it refuses both, before any CRC
  (`OutOfStep`, `OtherAnswers`, `Unknown`).

### tinycthread

- **`TctMutex`**: `mtx_lock`, `_timedlock`, `_trylock`, `_unlock` of every kind of
  mutex on Windows (a system lock and the flag `mAlreadyLocked`), POSIX and the
  polling fallback.
- **`TctCond`**: the Windows condition variable: a count under a critical
  section, an auto-reset event for a signal, a manual-reset one for a broadcast.
- **`TctOnce`**: `call_once` on Windows, four states and a critical section.
- **`TctTss`**: the list of a thread's values, sets and deletes, and the rounds
  of `_tinycthread_tss_cleanup` with destructors that set values again.
- **`TctThread`**: creation, exit by return and by `thrd_exit`, join, detach,
  and the identifiers of `thrd_current`.
- **`TctTime`**: the arithmetic from a point in time to a timeout.

### tinycsocket

- **`TdsMap`**: `tds_ulist` and `tds_map`, arrays that grow and shrink by
  `realloc`, which may fail. **`TcsPool`** is what a pool promises: a set of
  sockets with user data and interests, polls that tell true events.
  **`TcsPoolPosix`** (`poll`) and **`TcsPoolWin32`** (`select`) are the two pools.
- **`TcsStream`**: `tcs_send` with `TCS_MSG_SENDALL` into a stream that cuts;
  **`TcsNetstring`** and **`TcsLine`** frame messages on it. A netstring's sender is
  `tcs_send_netstring` or a stranger that sends any bytes; the receive of a body of no bytes
  finds the end of the stream, as `recv` of no bytes returns 0.
- **`TcsSetup`**: `tcs_socket_tcp`, `_udp`, `_packet` and the `_str` forms as sequences
  of system calls, with connection timeouts and multicast groups. The system (Windows or
  POSIX, whose calls or whose `close` may fail, and what the network may answer) is one of
  a set of `Systems`, chosen at the start.
- **`TcsSockets`** puts `TcsLine`, `TcsSetup`, `TcsPoolPosix`, `TcsInterfaceByName` and
  `TcsAddressList` side by side, with their
  parameters as constants; the theorems are about it. **`MCTinycsocket`** adds the other models.
- **`TcsInterfaces`**: interfaces that come and go; **`TcsInterfaceByName`**
  (`tcs_socket_packet_str`) and **`TcsAddressList`** (`tcs_address_list`) ask about them on
  the three kinds of systems. Without `getifaddrs` both read the list through a buffer
  that they double while it comes back full to its last byte (`IsFull`, `Grow`). Whether it
  ever does depends on the size of an entry (`fills`): twelve `struct ifreq` of 40 bytes
  take 480 of the 512, and a list that was cut there is taken for whole.
- **`TcsAddressText`**: the parser for IPv6 with port and scope, character by
  character through its table, and `tcs_address_to_str`. The empty text is no address
  and no error (`TCS_ADDRESS_NONE`).

## 3. The runs

Nine runs pass and three show a violation (section 5). A run of a library puts its models side by
side: its `matter` (`facility` in `MCTinycthread`) says which of them is at hand in a behaviour, the
variables of the others stay as they are. So one run answers for one library, and every property
names the matter it is about. The constants of the models are constants of these modules as well,
with values in the configuration and named assumptions, so that what is proved of such a module
holds for all their values. In these runs a model may stop (its calls are used up, its streams are
at their end), so they say `CHECK_DEADLOCK FALSE`, as do the `modbus_*` runs and `drive_server`:
their clients make finitely many connections, after which the server waits in `accept` for ever, as
it should. The vehicle and DriveSim runs check deadlock (`Returned` stutters on purpose, when the
process has ended).

| Run | Properties | What it shows |
|---|---|---|
| `vehicle_dynamics` | `SpeedBounded`, `MirrorSymmetric`, `OnlyTheMotorAccelerates`, `CoastingSlows` | the vehicle's laws under every order of seven torque commands, two of them out of range, and steps |
| `drivesim` | `NoDataRace`, `LockDiscipline`, `StepIsCurrent`, `RepliesTrue`, `LockReleased` | all interleavings of the three threads, every start-up failure, requests of each outcome; `LockReleased` with weak fairness only |
| `drivesim_service` | `RequestsAnswered`, `ThreadsKeepRunning`, `ImplementsService` | the threads implement the atomic service and none starves |
| `modbus_session` | `AnswersInOrder`, `AnswersTellWhatWasDone`, `ClientSocketClosed`, `WholeRequestAnswered` | two clients, two requests each, in pieces, with silence, close and reset at any point |
| `modbus_requests` | `TypeOK`, `AnswerFits`, `PartialFrameEnds` | one client, every function at and around each of its limits, two connections, every failing socket call |
| `drive_server` | `ReadsTellTruth`, `AnswerTellsTorque`, `TorqueWasCommanded` | server and program together: what a client reads and is told is what the program does |
| `tinycthread` | `Exclusive`, `CalledOnce`, `ValuesDestroyed`, `JoinedIsOver`, `OnTime`, `NotifiedWaiterReturns` | one property for each facility; `NotifiedWaiterReturns`, a liveness property, with two waiters, without what the two lines of section 5 lose |
| `nanomodbus` | `HalvesAgree`, `AnswerIsForCall`, `QuietCallTellsTruth`, `ServedAsAnswered`, `ListIsTrue`, `ActsForItself` | client, file records up to where they overrun `msg.buf`, device identification, RTU in step and out of it |
| `tinycsocket` | `NetstringsAreWhole`, `LinesAreWhole`, `AllOrNothing`, `InterfacesAreTrue`, `AddressIsMeant`, `ImplementsPool` | framing, set-up, enumeration, texts, and both pools as implementations of `TcsPool` |
| `drivesim_startup_failure` | `MutexProtectsVehicle` (violated) | finding 1 |
| `modbus_server_stops` | `ServerNeverStops` (violated) | finding 2 |
| `modbus_flush` | `FlushReturns` (violated) | finding 3 |

Bounds, and why they are enough:

- `vehicle_dynamics`: the odometer stops at `MaxDistance` = 100 either way. Nothing
  reads the distance but its own sum, so the speeds reached do not depend on the
  bound as long as the vehicle can get to its top speed and back within it: the
  cut-out is at 8 units, full torque gains 5 from rest, so two steps overshoot
  it. Drag alone would let the vehicle reach 19, so the cut-out is what bounds it.
- `drivesim*`: words of 3 bits and a motor of 2 Nm. Of the eight words five are
  legal torques of either sign, and -4 (the most negative word) is among the
  others. The odometer wraps at 2. The vehicle starts with torque 1, cuts out at 2
  units and can be reversed. `drivesim` writes the torques 0, 2 and -2, the
  refused 3 and -4, and asks for registers that do not exist. The two input registers hold parameters that lie
  halfway between two register values. The service run uses one request of each
  outcome.
- `modbus_session`: one piece of header and one of body, so that a frame can stop
  after its first byte and before its body; two requests, so that an answer can
  be overtaken; two clients, so that one waits while the other is served. Of the
  two frames one has two callbacks, and one is an unknown function, whose PDU of
  one byte makes the code ask for no further bytes. Callbacks succeed or refuse.
- `modbus_requests`: two pieces of header; one request per connection, whose
  fields take the values at, just below and just above each constant of the
  handlers (2000 and 1968 coils, 125 and 123 registers, the end of the address
  space, the 246, 245 and 242 byte limits, empty and odd byte counts), besides
  illegal MBAP headers. `ModbusTcpAssumption` keeps a client from having a whole
  buffer (260 bytes) in flight: with more, `flush` could return in the middle of
  a frame; this is not covered.
- `drive_server`: one client, since clients are served one at a time and a new
  connection starts afresh, three requests: a write, a second one, a read. The
  program itself may keep what an earlier connection left.
- `tinycthread`: three threads, so that two wait while one acts (a signal and a
  broadcast can meet two waiters, a lock two rivals); two of them may wait on the
  condition, and all may signal; locks nest twice; two keys and two nodes; a
  destructor may set values again for all of the four rounds. A millisecond has
  three units and a second four milliseconds, so that every remainder and every
  borrow between them occurs.
- `nanomodbus`: limits at, below and above each constant on either side. A client of three
  setups: over TCP three calls, so that an answer of one can meet the next, transaction
  ids that wrap at 2, so that the third call has the id of the first, whose answers must
  have left the line by then (`LineForgets`: fewer calls are made while an answer is under
  way than there are ids), and a server that may answer anything or nothing; over RTU two
  calls out of seven that differ in one argument each, and a server that does what it is
  asked on a noisy line, or one that may answer anything. Then up to three sub-requests
  whose sizes do and do not add up, and two records of which the second does not fit the
  buffer; lists of which one, two or all objects fit an answer, one change in between; two
  requests on the line with noise and a pause, three units (one the broadcast).
- `tinycsocket`: pools of three sockets (`PoolSockets`) with a first capacity of 1 (`PoolCapacity`),
  so that arrays grow and shrink, and sets of one descriptor on Windows, so that one is full; binary
  digits for the lengths of netstrings, buffers a little shorter and longer than the messages, and
  strangers' texts of up to four bytes of five kinds, the empty netstring among them; every text of
  up to five bytes (`LineTexts`) against a buffer of two (`LineBuffer`), with one timeout
  (`LineTimeOuts`); sockets set up on three kinds of system (`SetupSystems`): either one with calls
  that fail, and POSIX where all is well; three or four interfaces (`NameHosts`, `ListHosts`), of
  which two may share a name, on the three kinds of systems, with a fallback whose entries fill its
  buffer of two and one whose entries do not, and two changes; every way to write six addresses of
  eight groups, every text of up to 11 characters of three kinds and up to 8 of six kinds.

## 4. Fairness

- `DriveSim`: weak fairness of each thread's own steps - the scheduler runs a
  thread that can run, and sleeps end. Strong fairness of the three lock calls
  (`FairSpec`), since a pthread mutex promises no order among waiters: a thread
  is sure of the lock only because it is free again and again, the background
  threads sleeping 20 ms and 1 s between sections. `WeaklyFairSpec` shows that
  giving the lock back needs none of this. No request ever has to arrive.
- `ModbusTcp`: weak fairness of the server, whose receive timeouts expire. Clients
  have none: they need never send, complete a frame or close.
- `TctCond`: weak fairness of a thread inside a call. Strong fairness of taking
  the mutex and of unlocking it: whoever has it gives it back some day, and a
  thread that asks again and again is served. Nobody has to signal.
- The other models of the libraries are checked for safety only.

## 5. Findings

1. **The mutex dies before its user** (`drivesim_startup_failure`). If
   `thrd_create` of the heartbeat thread, or a later `thrd_detach`, fails,
   `main` calls `mtx_destroy` and returns (`src/DriveSim.c:373`) while the
   simulation thread is stepping the vehicle under that mutex. The comment at
   `src/DriveSim.c:349` says one mutex protects all of the vehicle's state.
2. **Half a frame ends the server** (`modbus_server_stops`). A timeout inside a
   frame is not a transport error, so `run_modbus_session` hands it on and
   `ModbusTcp_run` returns (`src/ModbusTcp.c:219`), although
   `src/ModbusTcp.c:196` says the server goes on accepting clients endlessly.
3. **A flush that waits** (`modbus_flush`). nanoMODBUS flushes with a timeout of 0,
   documented as non-blocking (`nanomodbus.h:147`); `modbus_transport_read` turns
   it into a socket receive timeout of 0, which never expires, with
   `MSG_WAITALL` for the whole buffer. A client that sends an unknown function
   code waits for its answer while the server waits for 260 bytes.

### What the code does not keep

The libraries differ from their headers in more places. The models follow the
code; where a definition below states what the header says, it can be added to
the configuration of its module, and TLC finds a counterexample. The
properties of section 3 are stated so that they leave exactly these cases out,
or the run's constants do, and their comments say so.

| Where | What the code does | What its documentation says | Definition |
|---|---|---|---|
| `src/DriveSim.c:395` | no coil callbacks: every coil request is refused | `README.md:130`: coils are read and written | - |
| `tinycthread.c:248` | `mtx_trylock` of a timed Windows mutex by its holder leaves the union's wrong member; the mutex stays owned when all have unlocked | `tinycthread.h:245` | `TctMutex.UnlockedIsFree` |
| `tinycthread.c:174` | the holder of a timed, non-recursive Windows mutex waits in `mtx_timedlock` without a look at the time | `tinycthread.h:225` | - |
| `tinycthread.c:347` | signals that meet before a waiter takes the first set one event | `tinycthread.h:276` | `TctCond.NotifiedWaiterReturns` leaves it out |
| `tinycthread.c:425` | the last waiter of a broadcast resets the event outside the section; a broadcast made meanwhile is lost | `tinycthread.h:286` | `TctCond.NotifiedWaiterReturns` leaves it out |
| `tinycthread.c:402` | a wait that times out is not counted out | `tinycthread.c:395` | `TctCond.WaitersCounted` |
| `tinycthread.c:781` | `tss_delete` within the list frees a node that stays linked | `tinycthread.h:431` | `TctTss.ListInUse` |
| `tinycthread.c:837` | `tss_set` never moves the tail on: a third key drops the second one's node | `tinycthread.h:422` | `TctTss.ValuesDestroyed` with three keys |
| `tinycthread.c:626` | identifiers are pseudo handles, equal for all threads | `tinycthread.h:363` | `TctThread.EqualTellsThreads` |
| `tinycthread.c:455` | `cnd_timedwait` may end a part of a millisecond early | `tinycthread.h:310` | `TctTime.OnTime` allows it |
| `tinycthread.c:724` | `thrd_sleep` stores the time that has passed as the remaining one | `tinycthread.h:388` | `TctTime.RemainingIsLeft` |
| `nanomodbus.c:148` | an answer that ends with its function code is compared with what is in the buffer, the request itself | `nanomodbus.h:64` | `NmbsClient.AnswerWhole`, reply `"short"` |
| `nanomodbus.c:542` | an answer with fewer coils than asked for is taken for complete | `nanomodbus.h:64` | `NmbsClient.CoilsAsAsked`, reply `"fewer"` |
| `nanomodbus.c:1394` | nothing looks whether several file records fit the answer: over TCP two of 62 registers end past `msg.buf[260]`, and the sum of their sizes (`:1358`) wraps at 256 | `nanomodbus.c:2149`: the PDU has 253 bytes, "assuming a single file request" | `NmbsFileRecord.Overrun`, where the properties end |
| `nanomodbus.c:1885` | an unknown function is refused before the CRC is read: a damaged frame, or bytes from the middle of one, may be answered | - | `NmbsRtuServer.SpeaksForItself` does not say when a function is refused |
| `nanomodbus.c:853` | room that is filled exactly is passed on as 0, which means no limit | `nanomodbus.h:503` | `NmbsDeviceId.RoomRespected` |
| `nanomodbus.c:474` | on a shared line the request after one that another unit did not answer is read as that answer | `nanomodbus.h:322` | `NmbsRtuServer.EveryRequestServed` |
| `tinycsocket.h:2178` | `tds_map_remove` stops half way if `realloc` cannot shrink | the comment there | `TcsPoolPosix.RemoveNeverFails`, `ShrinkMayFail` |
| `tinycsocket.h:5191` | on Windows a full event array keeps a socket's event from being completed | `tinycsocket.h:1329` | `TcsPoolWin32.WholeEvents` |
| `tinycsocket.h:6639` | a body cut by the receive timeout counts as received | `tinycsocket.h:1217` | `TcsNetstring.SuccessIsNetstring` with `CanTimeOut` |
| `tinycsocket.h:2688` | a failing `close` leaves the context set | `tinycsocket.h:545` | `TcsSetup.SetBack`, `CloseMayFail` |
| `tinycsocket.h:5457` | on Windows a group cannot be joined by a socket that is not bound | `tinycsocket.h:648` | `TcsSetup.LegalCallSucceeds` |
| `tinycsocket.h:6162` | every failure of a connection in progress is told as refused | `tinycsocket.h:581` | `TcsSetup.RefusedMeansRefused` |
| `tinycsocket.h:3547` | the group is left by the local address of now, which connecting changed | `tinycsocket.h:1703` | `TcsSetup.GroupCanBeLeft` |
| `tinycsocket.h:6370` | interfaces that came after they were counted are searched, but were not stored | `tinycsocket.h:814` | `TcsInterfaceByName.PresentIsFound` with `CanAppear` and `StackRoom` 2 |
| `tinycsocket.h:6637` | the empty netstring `0:,` is taken for the end of the stream | `tinycsocket.h:1140`, `:1217` | `TcsNetstring.StrangersArrives` leaves it out |
| `tinycsocket.h:3750` | a list of interfaces is taken for whole unless its buffer is full to the last byte, which entries of 40 bytes never make it | `tinycsocket.h:814` | `TcsInterfaceByName.PresentIsFound` without `ListsAreWhole` |
| `tinycsocket.h:4026` | so is the list of addresses: with more than 12 the rest is neither told nor counted | `tinycsocket.h:1805` | `TcsAddressList.CountIsTotal` without `ListsAreWhole` |
| `tinycsocket.h:3778` | without `if_nameindex` the position in the list is taken for an index | `tinycsocket.h:782` | `TcsInterfaceByName.BoundIsWanted`, `"ioctl"` |
| `tinycsocket.h:5945` | on Windows only the stored addresses are counted | `tinycsocket.h:1805` | `TcsAddressList.CountIsTotal` |
| `tinycsocket.h:3959` | an address's interface is looked up by a name that another may have by then | `tinycsocket.h:1798` | `TcsAddressList.EntriesAreTrue` |
| `tinycsocket.h:7022` | a text with a lone colon in front is parsed | `tinycsocket.h:1843` | `TcsAddressText.WithoutLoneColon` allows it |
| `tinycsocket.h:7027` | a scope right after `::` is refused, though it is printed so | `tinycsocket.h:1844` | `TcsAddressText.GivenIsParsed` leaves it out |

## 6. What is proved

Every theorem holds for every value of the constants that meets the named
assumptions of the modules (`VehicleParamsAssumption`: the parameters are naturals;
`RegisterMapAssumption`: an even word size that holds every legal torque;
`DriveServerAssumption`: words of 16 bits; `DriveSimAssumption`, `DynamicsAssumption`,
`ModbusTcpAssumption`, `CallbacksAssumption`, `TctMutexAssumption`, `TctCondAssumption`,
and the assumptions of the libraries' models, which `MCTinycthread` and
`MCNanoModbus` collect: the types of the rest, that less than a buffer is in
flight, and that a polling lock looks at the clock more often than once a second).

- `VehicleProofs`. `SpeedLimit`: `SpeedBounded` is an invariant. The bound alone is
  not inductive: the torque has to be known to be within the motor's limit, so it
  is proved together with the type invariant (`SpeedInvariance`). A step gains
  speed in its direction of travel only below the cut-out and then at most
  `MaxSpeedGain`, for which the truncating quotient must be monotone and odd
  (`QuotientFacts`). `Symmetry`: `MirrorSymmetric`, from the oddness of each
  force (`NewSpeedOdd`). `MotorAccelerates` (`OnlyTheMotorAccelerates`) and `CoastingStops`
  (`CoastingSlows`): the forward case from the signs of the forces, the reverse one by
  `NewSpeedOdd`. `SpeedBounded` speaks of vehicles with positive mass, wheel
  radius and motor speed: for the others the code skips the division or never cuts out.
- `DriveSimProofs`. The inductive invariant `IInv` joins the types, `LockDiscipline`,
  `StepIsCurrent` and two strengthenings: `StartupInv` (which threads exist at which
  point of start-up, and that the mutex is only destroyed on main's way out -
  without it a lock call could be thought to pass a destroyed mutex) and
  `CallbackInv` (which requests get to which label). From it: `TypeCorrect`,
  `LockCorrect`, `StepCorrect`, `RaceFree` (the unlocked read of the flag is sound
  because only main's labels touch it). `RepliesCorrect` adds `RepliesInv`, which
  carries an answer's truth from its decision to its sending: only main changes
  the torque and the flag.
  `Refinement`: `Spec => ImplementsService`. `ServiceInv` says that the service has
  a request in progress exactly inside a callback and an answer exactly from the
  decision on; then every action is one of the service's or a stutter. The step
  that matters is `StoreSpeed`, where `StepIsCurrent` says that the value stored is
  a step of the vehicle as it is then.
- `ModbusTcpProofs`. `TypeCorrect`: `IInv` adds to the types that a session has a
  client and a request in hand, and that what was received belongs to requests
  that were begun. `ResponseFits` (`AnswerFits`): `FirstFaultMeans` and
  `RequestFaultMeans` say that a request without fault passes each check of its
  handler, so accepted quantities fit the byte count and the buffer; `CheckedInv`
  carries this to the send. `SocketsAreClosed` (`ClientSocketClosed`, if `tcs_close`
  does not fail). `OrderOfAnswers` (`AnswersInOrder`): the order of answers is not
  inductive without knowing where in the stream the requests lie. `ShapeInv` says
  that the bytes not yet read are a suffix of the requests sent, in order
  (`Layout`), and where the request in hand lies in them (`Place`), unless the
  connection is dead or the session is over; `BurstInv` that a flush takes all
  there is; `OrderInv` that requests up to the one in hand are read.
  `AnswersAreTrue` (`AnswersTellWhatWasDone`) adds what is on record of each
  request: nothing before its whole frame was read, while the callbacks run the
  calls its handler makes up to the one that is next (`HandInv`), and after its
  answer all of them, with the error of the last (`ToldInv`); the calls on record
  are those of earlier requests first (`CallOrderInv`), so a call added for the
  request in hand disturbs none of the others.
- `DriveServerProofs`. Every step of the composition is a step of `ModbusTcp` or leaves
  it alone, so all its invariants carry over (`AlwaysServerInv`). `ReadsAreTrue`
  (`ReadsTellTruth`), `AnsweredTorqueIsInForce` (`AnswerTellsTorque`) and
  `TorqueIsCommanded` (`TorqueWasCommanded`) rest on `ProgramInv`: torque and flag are
  those of the last write on record, unless a write was decided and has not
  returned yet; `ValuesInv`: every value read is that of the last write before
  it; `AskInv`: the program is asked within a callback only; `ServedInv`: only the
  client that is served has a record. `WordComesBack` is where the 16 bits matter:
  a torque written as a word and read again is the same word.
- `TinycthreadProofs`, for any number of threads. `MutualExclusion` (`Exclusive`), for
  each kind and platform: the system lock's owner is the holder (`OwnerInv`), and
  on Windows the flag says whether it is held (`FlagInv`), even where a `mtx_trylock`
  left the lock entered; `CondKeeps` extends it to the threads that are inside the
  condition variable. `OnceIsOnce` (`CalledOnce`) and `LockIsReady`: one thread wins the
  compare-and-swap and only it is between it and the end of the function
  (`WinnerInv`), and the status says how far it is (`StatusInv`). `JoinIsTheEnd`
  (`JoinedIsOver`) by `LifeInv`. `CallsEndOnTime` (`OnTime`), for every scale of
  seconds, milliseconds and units: lemmas bound each conversion
  (`MillisecondsNear`, `PollNear`, ... from `Division`), and `WakeInv` says when a call
  that sleeps will wake. The bound needs `PollMs <= MsPerSec`, as in the code. Its
  proof found an error of the model, where a quotient bound to more of the
  sum than in the code. `ValuesAreDestroyed` (`ValuesDestroyed`), for any number
  of nodes and rounds: the list is the head and perhaps one more (`ChainInv`), slots
  and nodes point to one another (`SlotInv`), and a round that has called no
  destructor has left no value behind it (`RoundInv`). It is stated for at most two
  keys: with a third one the code loses a node (section 5).
- `NanoModbusProofs`. `ActsForItsUnit` (`ActsForItself`), for any units, functions and number of
  requests, noise and pauses: what is answered or served is what was read whole and undamaged as a
  request, and what the server still has to hear is of later requests than those it has served
  (`Follow`), and what it holds is behind neither (`HandInv`); so no request is served or answered
  twice. Out of step with the line the server may take bytes from the middle of a frame, or the
  damaged answer of another unit, for an unknown function of its own: such a frame never counts as
  good, so it is refused and nothing else, and a refusal names the unit that was read, which is then
  the server's (`refusals`). When it refuses is left open, since the code does so before a CRC.
  `HalvesOfTheLibraryAgree` (`HalvesAgree`), for every call with arguments of the width C gives
  them, where the run has those around the limits: one lemma for each kind of function
  (`MeetDiscrete` ... `MeetReadWrite`) says that what the client refuses is what the handler
  refuses, that the request fits, and that the client takes the answer; `HandlersTake` evaluates the
  server's checks function by function. `CallsTakeTheirAnswers` (`AnswerIsForCall`), for any calls,
  answers and range of transaction ids. Over TCP, `TcpInv` says that the answers on the line are of
  calls in their order, within `TidMax` of the last (`FreshLine`), so that an id names at most one
  of them (`SameId`); that includes the header whose frame a call gave up after, which is why
  `Names` speaks of the headers still to come. Over RTU, what passed the checks of unit, function,
  echo and byte count was asked in the same words (`GenuineMeans`, `EchoMeans`, `RtuInv`).
  `QuietCallsTellTheTruth` (`QuietCallTellsTruth`): `Answers` says what tells each kind of answer
  from the others, and `AsAnswered` what the call has found of it at each step; `BodyTells` is where
  the limits on a call matter, since the right answer to a longer read would not pass.
  `RequestsAreServedAsAnswered` (`ServedAsAnswered`), for any requests for file records: `FileInv`
  says which sub-requests are known to be legal and that the 16-bit size is what is left of the
  request (`Left`). The count of a read's bytes has eight bits and is true (`CountInv`) because more
  bytes than it can count do not fit `msg.buf`: where the last record was served, all of them fit
  (`Fit`, `RecordBytesAre`). Of a read whose records do not fit, nothing is said from the first that
  does not. Where the data of a sub-request reach past the request, the size wraps and the loop goes
  on behind it: one of the request begins within it and a legal one has at most 122 registers
  (`WellFormed`, the condition of the loop and the handler's check), so the size is then near 2^16
  and not zero (`AfterIs`, `ProceedIs`). What lies behind the request is taken not to be a legal
  sub-request (`PastTheEnd`); the theorem says nothing of a buffer that goes on with more of them.
  `ListsAreTrue` (`ListIsTrue`), for any objects, calls and changes: what the client has is what
  lies below the object it asks for next (`IdInv`), an answer is what lies from there up to the one
  it names (`Sound`, `ListAnswerIs`), and one list after the other is the list of both
  (`InOrderJoins`, by `RankIs`). An answer that is not the last has at least one object, because the
  sums only grow (`TakenGrows`) and the longest string fits alone (`FittingIs`). Sums of sizes are
  recursive functions; that there is a function that meets the recursion is proved (`SumsExist`),
  with a least counterexample (`LeastIs`) in place of induction.
- `TinycsocketProofs`, about `TcsSockets`, whose steps are those that the run takes while one of its
  five matters is at hand. The assumptions are `SetupAssumption` (a system may fail where and as it
  likes), `LineAssumption` and `StreamAssumption` (texts of bytes, a buffer and kernels that hold at
  least one), `PosixPoolAssumption` with those of `TdsMap` and `TcsPool` (a least capacity, finitely
  many sockets), and `InterfacesAssumption`, `ByNameAssumption` and `ListAssumption` (finitely many
  interfaces, rooms that are numbers). `SocketsAreSetUp` (`AllOrNothing`), for any set of systems:
  `Left` says what is left to do at each step of a call and `Fits` what the socket must be by then,
  since a step is only right on a socket that the steps before it have made ready (`Ready`); a lemma
  for each kind of step (`JoinKeeps`, `ConnectKeeps`, ...) shows that what it leaves fits the next
  one, and that a step that gives up leaves nothing (`AtRest`). Where `close` itself fails the
  context stays set (section 5), so the theorem, like the property, is about systems where it does
  not. `LinesComeWhole` (`LinesAreWhole`), for any texts and any length of buffer: the text is what
  was received, what the receiver holds, what is on its way and what was not sent, one after the
  other (`LineFlow`); what it holds has no delimiter and is followed by what it has peeked at
  (`LineSearch`). Bytes go from one of these sequences to the next, so most lemmas are about cutting
  and joining sequences (`CutIs`, `BytesMove`), and that the search finds the first delimiter needs
  the least of a set of places (`LeastIs`). `PosixKeepsItsWord` (`PosixPoolIsWhole`, what
  `ImplementsPool` says of it beyond the refinement) and `PosixIsAPool`, a refinement of `TcsPool`:
  the two arrays of the map are equally long and no socket is in them twice (`PosixMap`), so a key's
  user data are found at its place, and adding at the end and closing a gap change one socket alone
  (`MapAddIs`, `MapRemoveIs`, from `ListAddIs`, `MovedIs`, whichever reallocation fails). That the
  events of a poll are those of the first sockets with something to tell, none twice, is `HitIs`, by
  counting (`RankIs`). `InterfacesAreTold` (`InterfacesAreTrue`), for any computers, names,
  addresses and changes. Where the property claims something of the search for a name (`Claimed`),
  the list was whole and the array had room for it (`NameFits`), so an interface that was there all
  the time is in it (`NamesIn`). The entries of the system's list that are not yet told (`Todo`) and
  those told are never the same (`ListTold`), and where the list was whole every address that should
  be told is in one of the two and counted (`Settled`, `ListCounted`), whatever goes meanwhile. The
  pool is proved where `realloc` does not fail to make a block smaller (`ShrinkMayFail`); where it
  does, `tds_map_remove` breaks the promise (section 5).

Only model-checked:

- the liveness properties (fairness and `ENABLED` are out of the prover's reach);
- texts of addresses (`AddressIsMeant`), which are read and written by folds over their
  parts. It would need induction over data, which the installed provers cannot
  instantiate;
- tinycsocket's netstrings, whose lengths are folds over digits, and its pool on Windows,
  where `select` is a fold over three lists.

## 7. What is not modelled

- Frames whose length field is legal but shorter than their function needs, on the
  server: nanoMODBUS then reads on in its buffer, where an earlier message's bytes
  are. (On the client they are, `NmbsClient`.)
- The register values on their way through nanoMODBUS's server (byte order); the
  registers a callback gets are those of the request.
- The CRC of RTU frames beyond telling damaged frames from whole ones; one bit error that
  a CRC would not see.
- tinycsocket's datagram calls (`tcs_send_to`, `tcs_receive_from`, `tcs_sendv`), socket
  options, `tcs_shutdown`, `tcs_address_resolve` and the conversions of socket addresses:
  one system call each, no state of their own. IPv4 and MAC texts are `sscanf` and `snprintf`.
- The parts of tinycthread that forward to pthreads take the system's semantics.
- Partial sends of the adapter: `modbus_transport_write` either sends all or fails.
- Printed text, Unity, the unit tests and the build.

## 8. What could follow

1. An abstract specification of a session (requests in, each answered at most once,
   in order) which `ModbusTcp` implements; `OrderInv` is most of its proof.
2. The pool on Windows as a theorem. It needs `select`'s three lists without folds.
3. The message buffer of the server under short frames.
