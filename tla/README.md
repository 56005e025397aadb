# Ledger Donjon CTF 2020 in TLA+

A verification development of the programs in this repository: the picoHSM, from
its receive rings and its serial protocol to its socket driver, its text
conversions and its AES; the session isolation and the checker of ghostbuster; the
network and the arithmetic of the SMPC signer; the elliptic relations application.

## The repository's parts

| Part | State | Operations | How it talks to others | What makes it correct |
|---|---|---|---|---|
| picoHSM MCU (`picohsm/firmware-mcu/src/main.cxx`) | position in the main loop, the command of the one connection it serves | reset the SEC, flush, listen, read a command, exchange bytes with the SEC, print the answer, disconnect | TCP through the W5500, UART to the SEC, resets the SEC through PA11 and clocks it through MCO1 | a client gets the answer to its own command, or a part of it |
| picoHSM SEC (`picohsm/firmware-sec/src`) | position in its loop, current instruction, key, CBC vector | read an opcode, a PIN, a key number, blocks; answer each | UART | no block without the right PIN and an unlocked key |
| Receive rings (`ring_buffer.hxx`, `uart.cxx`) | buffer and two indices, shared by an interrupt and the main program | put (interrupt), pop, flush, size | volatile shared memory | a FIFO queue |
| W5500 socket driver (`w5500.cxx`) | registers of the chip, TCP status | listen, write, read, disconnect | SPI to a chip that runs on its own | the bytes written are the bytes sent |
| Text conversions (`util.cxx`, `parse_args`) | none | decimal and hexadecimal to numbers and back, splitting a line | called by the MCU | agree with a reference definition |
| SMPC signer (`smpc_signature/smpc_signer.py`) | a key share, the set of open channels | HALT, SIGN, SECU; the multi-party algorithms | asyncio tasks, encrypted TCP between nodes | all nodes run the algorithm with the same peers; the signature is the key's |
| SSH isolation (`ghostbuster/.../ssh-isolation.py`) | files in a work directory, user ids of processes | pick, reuse and remove a user id | file system, `/proc` | two connections never share a user id |
| Elliptic app (`elliptic_relations/app-ctf/src`) | a grid, the position of an APDU exchange | fill, reset, check, confirm on screen | APDUs and screen events | what the user confirms is what was checked |
| Ghostbuster checker, cryptocomputer, scripts | little or none | compare a secret, a hash; solve the challenges | | |

The behaviours that are hard to test are in the picoHSM (an interrupt against
the main program; two processors on an unframed serial line with no reception
timeout; resets at any point), in the SMPC signer (asyncio tasks and connections
opened by several nodes at once) and in SSH isolation (processes racing through
the file system). `PROJECT.json` lists each hazard at its line.

## Modules

### `FifoQueue`, `RxRing`: the receive ring

`RxRing` models `ring_buffer_t<Size>` with its two users. `buffer`, `write` and
`read` are the members of the class; `dr` is the data register of the USART,
`NoByte` when RXNE is clear; `pc` says where the main program is inside a ring
operation.

| Action | Code |
|---|---|
| `Arrive` | the receiver shifts in a byte (hardware) |
| `Put` | `usart2_handler` and `put`, one step: an interrupt runs to its end |
| `PopFetch`, `PopAdvance` | `pop`: fetch, then `read = next(read)` |
| `FlushWrite`, `FlushReload`, `FlushRead` | `read = write = 0`: `write` first; the value `read` is given is 0 or, as the members are volatile, `write` read again. Both builds are in the model |
| `SizeCompare`, `SizeReturn` | the two reads of `write` in `size` |

`FifoQueue` is the promise: a queue of `Size - 1` bytes whose interrupt may
discard a byte only when it is full or a flush is under way. `RxRing` implements
it (`FifoSpec`) with the queue read off the buffer from `Start` to `write`.
Other invariants: `FetchedIsOldest` (the interrupt cannot touch the slot `pop` is
about to free), `FlushNeverWraps` (bytes stored during a flush are a segment).
An overrun of the data register itself is not modelled: at 625000 baud a byte
takes 16 us, hundreds of cycles more than the handler.

### `HsmService`, `PicoHsm`: the two processors

`PicoHsm` is the main loop of the MCU, the main loop of the SEC and the line
between them, one byte per step. `mpc` and `spc` name the program points. The
rings are FIFO queues, which is what `RxRing` shows. `toSec` holds at most one
byte because `tx` waits for TC, `toMcu` at most two because `uart_write_u8`
waits for UDRE only.

| Actions | Code |
|---|---|
| `McuBoot` | reset handler to the main loop; PA11 is low before the USART is on |
| `SecResetLow`, `SecResetHigh`, `McuFlush` | `sec_reset`, `usart_sec.flush` |
| `Connect`, `ListenFails`, `ReadCommand`, `Disconnect` | `sock.listen`, `handle_client`, `sock.disconnect` |
| `Execute` | dispatch and argument checks of `execute_command` |
| `VerifyPinFlush`, `TxIns`, `TxPin`, `RxPin` | `verify_pin` |
| `TxIns`, `TxPin`, `RxAck`, `TxKey`, `RxKey`, `TxCount`, `TxBlock`, `RxBlock`, `PrintEnd` | `execute_command_encrypt_decrypt` |
| `SecInit` ... `SecWriteBlock` | `main` and `verify_pin` of the SEC |
| `DeliverToSec`, `DeliverToMcu` | the receive interrupts |
| `LoseToSec`, `LoseToMcu`, `Glitch` | the line: a lost byte, garbage while the SEC's pin is not driven |
| `Watchdog`, `Panic` | a reset of the MCU: anywhere but in `listen()`'s loop, which reloads the watchdog (`main` between two clients included), or on an unexpected socket status |

Assumptions, each from the code: the delays of `sec_reset` outlast the SEC's
boot and a byte on the line (guard of `McuFlush`); the SEC is frozen while the
MCU is in reset, since it runs on the MCU's MCO1 output (`Clocked`). A line of the
client is a record (`ins`, `pin`, `key`, `data`), `key` being the number after
conversion; every line that the MCU answers with a fixed text is the command
`text` or fails `WellFormed`. A line without a terminated first word leaves
`args[0]` unset; what the program then does is a text or a fault, that is, a
`text` command or a reset. AES is a pair of constant operators; its CBC chaining
over the SEC's loop is modelled. `debug_enabled` is never set, so `getflag` is a
`text` command.

`HsmService` is the promise: one command per connection, answered in `Pieces(cmd)`
pieces, in order, cut short only by a reset. `Piece(cmd, reply)` is the next one,
computed from the command, the PIN, the keys and the pieces before it: a refusal, or
for a `Granted` command one CBC block after the other (`Vector` is the block of
ciphertext before it, or zero), then an end.

### `UidPool`, `SshIsolation`: user ids of SSH sessions

sshd runs `ssh-isolation.py` once per SSH session; all instances share a work
directory and see one another in `/proc`. `SshIsolation` has one action per
system call through which they meet, so that their set-ups may interleave there.
`user` and `dir` are the files `<uid>.user` and the directories `<uid>/`;
`pc[s]` is where session `s` is.

| Action | Code |
|---|---|
| `Start` | sshd starts the script; without `Overlap` only while no other set-up runs |
| `Begin`, `Mkdir` | `os.path.exists(WORKDIR)`, `os.mkdir` |
| `ListProc`, `Stat` | `connected_uids`: the listing, then one `os.stat` per process |
| `ListDir`, `ReadUser`, `NoReuse` | `reuse_connection`: the listing, one file at a time in any order |
| `RemoveTree`, `RemoveFile` | `remove_user` of a disconnected user, two steps |
| `Pick`, `PickNone` | `pick_user` with the exclusive `open` of `create_user` |
| `Write`, `Makedirs`, `Chown` | the rest of `create_user` |
| `DropPrivileges`, `EnterDir` | `drop_privileges`, `chdir` and the symbolic link, as the new user |
| `Exit`, `Kill` | the shell ends; a set-up is killed between two system calls |

A process that ended between the listing of `/proc` and its `stat` is skipped;
a system call that fails raises an exception no one catches (`Fail`). What a
session does in its shell is not modelled: it has no right to touch the work
directory. `UidPool` is the promise: a session gets the user of its
connection, or one that no other connection has, and keeps it to its end.

### `SmpcRounds`, `SmpcChannels`: the network of signer nodes

A node of `smpc_signer.py` runs asyncio tasks that share one dictionary,
`active_channels`. An action of `SmpcChannels` is what a task does from one
`await` to the next, that is, what it does when a message arrives or a sleep ends.
`task` is `smpc_sign` per node and command, `resp` is `client_connected` per
channel, `active` the dictionary in its order, `inbox` what was sent to a node
and not yet read.

| Action | Code |
|---|---|
| `SignCommand` | SIGN: `active_channels = {}`, the first connection |
| `Accept`, `TreeLevel`, `Payload`, `EndOfFile` | SECU: the handshake and its check, the level byte, the payload of level 0, the wait of level 1 for the end of file |
| `Connected` | `connect_peer` returns: the level byte, the next node; after the last one, `Ask` (main node) or the acknowledgement and round 1 (peer) |
| `Acknowledged` | the acknowledgement of a peer, `Ask` for the next one |
| `Share` | the body of a receiving loop; the last share of a round sends those of the next |
| `CloseChannels`, `Finish` | the ends of the two sleeps, the `finally` of `client_connected` |
| `Halt` | HALT: the process ends, its connections are closed |
| `Raise`, `Abort` | an exception in `smpc_sign`, in `client_connected` |

What a step sends is a sequence of messages per node (`Post` for one channel,
`PostEach` for a loop over the dictionary); `++` puts it behind what the nodes have
not read, since TCP keeps the order of a connection.

The handshake is one message each way, for nothing shared changes in between.
Each algorithm is a sequence of loops "send to all, receive from each", so a
signature is `Rounds` of them and a share is the number of its round. Python's
rules are kept: a loop raises `RuntimeError` when the dictionary changed size
and goes on with the old dictionary when the attribute was assigned, and deleting a
missing key is a `KeyError`. A stream that was dropped without `close()` is closed or
not, since versions of asyncio differ. An end of file stays in its stream: when two
tasks read one channel (the wait of `client_connected` and the loop of `smpc_sign`),
both notice it, one after the other (`ReadEnd`).

`Timing` names the assumptions a run makes. "order": a node handles what it is
sent in the order it was sent, over all its connections (TCP promises this for
one). "sleep": what was sent is handled before a sleep of 0.1 s ends. "client":
the next SIGN comes when the nodes are done with the last one. A client never
sends one before the last has been answered or has failed.

`SmpcRounds` is the promise: a participant enters a round when all the others
have entered the one before; a signature is returned after the last round.

`SmpcShares` is the arithmetic behind those rounds, over the field of `P` elements.
All nodes take a step at once (`SmpcChannels` shows that they are in the same
round).

| Action | Code |
|---|---|
| `Init` | `secret_value`: the key is split with a polynomial of degree `K - 1` |
| `Draw` | `smpc_random_zero`, one coefficient: `smpc_biased_rng` |
| `Keypair` | `smpc_random_keypair`: the shares of the nonce, and `r` |
| `Random`, `Invert` | `smpc_invert`: a random number, the product opened and inverted |
| `Sign` | `smpc_multiply_open` of the nonce's inverse and `z + r d` |

The group of the curve is taken to be the field's, with 1 for the generator: then
`R = k G` is the number `k`, and `XOf` is a function of it that is the same for
`k` and `-k`. A zero that cannot be inverted stops the signature.

### `ByteStream`, `Socket`: the network driver

`Socket` is `socket_t` as `main` and `handle_client` use it, against the W5500. The
driver polls; `pc` is the register it polls or the command it is about to give. A
16-bit register is read high byte first, one byte a step, twice (`read_u16_stable`);
`held` is the set of values the register had meanwhile.

| Action | Code |
|---|---|
| `Boot`, `OpenSocket`, `ListenCommand`, `AwaitClient` | `setup_network`, `socket_t::listen` |
| `ReadHigh`, `ReadAgain`, with `Stable` | `read_u16`, `read_u16_stable` |
| `WriteFree`, `WritePointer`, `WriteData`, `WriteSend` | `socket_t::write`: the room in TX_FSR, the place in TX_RD, the data, TX_WR and SEND |
| `WaitData`, `ReadAvail`, `ReadExact` | the polling of `handle_client`, `read_avail`, `read_exact` |
| `Execute` | `execute_command`: any of `Answers` |
| `Disconnect`, `AwaitClosed` | `socket_t::disconnect` |
| `Watchdog` | the reset, in `Guarded`: where no one reloads the watchdog, from the end of one `listen()` loop to the start of the next |
| `Handshake`, `Transmit`, `Acknowledge`, `Receive`, `ClientClose`, `Abort` | the chip, the network and the client (hardware) |

`ByteStream` is the promise: in one connection each end is given a prefix of what
the other end has given. `Socket` is checked against it three times. `InboundSpec`,
from the client to the program, holds always. `WrittenSpec`, from the program to the
client, does not: `write` takes the place of its data from TX_RD, where the chip reads,
and not from TX_WR, where data ends (`w5500.cxx:410`). The two differ while a SEND is
under way, and nothing waits for its end: `write` checks TX_FSR, which tells the room
and not that the chip is done (`w5500.cxx:397-418`), and `main` may print three times in a
row (`main.cxx:332-334`) to a client whose window is closed. The run `socket_send` is the
counterexample: the banner is still pending when the answer is written, and is
overwritten. `OutboundSpec` is the part of `WrittenSpec` that holds:
the history variable `misplaced` says that some `write` of this connection was told a
place that is not the end of the last one, and up to then the client hears a prefix.

After such a `write` TX_WR may be behind TX_RD, and what a W5500 does then is not
documented. The model's chip transmits nothing, and nothing is promised: `StableHeld`
leaves out TX_FSR, `PanicOnlyIfLeft` allows the assertion on the room to fail.

`OutputAssumption` (a connection prints less than the 2 kB of the chip's buffer) keeps
the assertion on the room from failing otherwise, and `LineAssumption` the flaw of
`read_exact`, which never advances its destination (`w5500.cxx:446`), from mattering: its
one caller, `read_avail`, asks for no more bytes than the chip holds, so one turn of
the loop reads them all. What a client sends after `read_avail` is never read.

### `EllipticApp`

One thread handles one command or one button at a time.

| Action | Code |
|---|---|
| `Take` | `io_exchange`: the transport takes the next command |
| `Refuse`, `Reset`, `FillCommand`, `CheckFails`, `CheckThrows`, `CheckHolds` | the branches of `handle_apdu`; the exceptions caught by `ctf_main` |
| `Confirm`, `Quit` | the buttons of `ux_success_step`, `ux_idle_flow_3_step` |

A check that succeeds owes its reply until the user confirms, and the grid is hashed
at that moment (`main.c:84`). `OneAtATime` says that the transport takes no command
while a reply is owed. With `OneAtATime = FALSE` TLC refutes `FlagOfAcceptedGrid` (a
FILL or RESET after the check changes the grid that is hashed) and `OneReplyEach`.

### `Aes`, `Conversions`, `Checker`, `MCAlgorithms`: functions

These are definitions without state. `Aes` is `aes.c` on bytes: the tables,
`KeyExpansion`, the rounds and the modes. `Conversions` is `util.cxx`, with
`parse_args`, `hex_string_valid` and the SPI frames of `frame_head`. `Checker` is the
shuffled comparison of `libcheck.c`; the draws of `rand` and what the stack held are
its inputs. `MCAlgorithms` chooses one input per initial state and compares with
references that share no definition with them: polynomials over two elements and
the published vectors for AES, inverses and one-sentence definitions for the
conversions, "all permutations" and "equal to the file's first bytes" for the
checker. The run also executes `SmpcShares`.

A `secret.txt` that is shorter than the secret, or has an early end of line, leaves
bytes of the stack in the comparison (`libcheck.c:40`): `Checker` keeps them as an
input, and the reference says what is compared.

Operators whose comment begins with "Mutant" belong to no specification: each is
a plausible wrong version of the definition after it, and `PROJECT.json` names
the property that refutes it.

## Runs

| Run | Question | Result |
|---|---|---|
| `ring_fifo` (`MCRxRing.cfg`) | does a 4-slot ring implement the FIFO queue under all interleavings? | yes, 100 632 states |
| `hsm_service` (`MCPicoHsm.cfg`) | with lost bytes, garbage and resets: service kept, programs in step, no ring overrun, no mutual wait; with silent clients too, does the device always listen again; on a line that loses nothing, is every command answered without the watchdog's help? | yes |
| `ssh_serial` (`MCSshIsolation.cfg`) | when set-ups do not overlap, is every connection given its own user and a running session's directory left alone, a killed set-up included? | yes, 68 541 states |
| `ssh_overlap` (`MCSshIsolation_overlap.cfg`) | do set-ups that interleave all end? | yes |
| `ssh_different` (`MCSshIsolation_different.cfg`) | do they "Give a different UID to each SSH connection" (`ssh-isolation.py:4`)? | no: between the creation of `<uid>.user` and `setuid` its session is in no list of connected users, so another set-up removes the user and picks the same uid |
| `smpc_rounds` (`MCSmpcChannels.cfg`) | with "order" and "client", is everyone connected, does every SIGN return and nothing fail, do the nodes go through the rounds together and keep no channel, as long as no node was halted? | yes, 107 329 states; no assumption on the sleeps is needed. All but the liveness is proved for any nodes, commands and rounds (`SmpcTogetherProofs`) |
| `smpc_halts` (`MCSmpcChannels_halts.cfg`) | with "client" alone and a node halted at any moment, can a signature be returned without everyone's shares? | no, and `SmpcChannelsProofs` proves it for any number of nodes |
| `smpc_order` (`MCSmpcChannels_order.cfg`) | without "order", does the acknowledgement say "that the connections were established" (`smpc_signer.py:290`)? | no: a peer may get its payload before the level byte of another peer's channel and start without that peer |
| `socket` (`MCSocket.cfg`) | with a chip that transmits, receives and changes its status between any two accesses, a SEND still under way at the next `write` included: is the program ever given something else than a prefix, or the client while no `write` was misplaced; does the driver panic when no client left early and no `write` was misplaced; does it always listen again? | no, no, yes; 442 761 states |
| `socket_send` (`MCSocket_send.cfg`) | does the client hear what `write` was given? | no: TX_RD is read while the last SEND is under way, and its data overwritten |
| `elliptic` (`MCEllipticApp.cfg`) | is the flag the hash of an accepted grid, has every command one reply, is a filled cell filled again? | yes, yes, no |
| `algorithms` (`MCAlgorithms.cfg`) | are `aes.c`, the conversions, the frames and the checker what they should be; does every signature of three nodes verify? | yes, 73 343 states |

Runs tell what holds with the assumptions they name. Without them TLC shows:
`size()` of the ring, read while the interrupt wraps `write`, returns about 2^32
(no code calls it); a set-up of ssh-isolation killed between `open` and `makedirs`
leaves a file without a directory, on which the next set-ups raise an exception
(why `FailsOnlyAfterKill` says "after a kill"); with five nodes, a HALT and "client"
alone, the halted node's channel may leave a dictionary and a late one enter it in
the same round, so that the size is what it was and a node takes the share of a round
it is not in (three nodes are too few, so `smpc_halts` does not check `SameRound`);
after a `connect_peer` that failed because
its node is down, the peers reached before it keep their channel to the main node, and
one of them refuses a later SIGN that names running nodes only (`smpc_signer.py:240`),
which is why `NoFailure` ends at the first halt: no property promises that a network in which a
set-up failed signs again; a SIGN sent as soon as the last was
answered may be refused by a peer that still has the last channel ("client"); two
nodes with a threshold of two sign wrongly, for the product of two shares has degree
`2 (K - 1)` and needs `2 K - 1` nodes, which nothing checks (`Node = {1, 2}` refutes
`SignatureVerifies`; four nodes pass, 127 355 states).

Bounds. Rings: 4 slots, two byte values; 4 slots let the indices wrap with the
ring neither empty nor full, two values tell an old byte from a new one, and the
proofs cover every size. picoHSM: PINs of 3 bytes, blocks of 2, at most 3 blocks,
3 keys with one locked, byte values 0..3 that double as opcodes, statuses, key
numbers and counts; wrong PINs that differ in the first, middle and last byte
and one that has no opcode in front; `MaxLoss` = 2 lost bytes and `MaxGlitch` = 2
garbage bytes between two SEC resets. Three blocks exercise the chaining twice.
The SEC ring holds 1 + PinLen bytes and the MCU ring BlockLen, the most the
protocol ever has outstanding: `NoOverrun` holds with them and fails when the MCU
does not wait for a block's response, so the code's 63 and 255 leave margin.
The byte alphabet of the model is `MCPin` and the sets around it in `MCPicoHsm`.

SSH: 3 sessions, 3 connections and 2 user ids, so that ids are reused, shared
and exhausted, each session runs the script again and again, and `MaxKills` = 1
set-up is killed (0 when they interleave, with 2 sessions: two are enough for
the race). A uid is reserved, taken, left behind and removed within these.

SMPC: 3 nodes, 2 commands to any of them that name 2 or 3 nodes in any order, 2
rounds, at most one HALT. With 3 nodes a peer opens and another accepts a channel
of level 1, which is where the order matters; a second command meets what the first
left; two rounds tell a late share from an early one. Four nodes with one
command (19 968 states up to symmetry) showed nothing more.

Socket: a byte of a register has `Base` = 4 values and the buffer `TxSize` = 8 bytes,
so that the pointers, starting at 0 or 14 of 16, carry and wrap within a connection;
the line of 5 bytes arrives in any segments and carries into the high byte of its
count; an answer of none or two writes meets the transmission of the one before.
EllipticApp: five cells, two given, two crossing lines that multiply to 12, FILL
commands of up to two entries: grids with both lines, one or none can be reached, as
can a refusal half-way. Algorithms: every byte for the tables and MixColumns, the
vectors of FIPS 197 and SP 800-38A, up to three blocks; strings of up to six
characters over a word of 8 bits, which three digits overflow; `RAND_MAX` = 6 does
not divide evenly among the entries to shuffle; `P` = 5, three nodes, every random
number they may draw.

Fairness. `Progress` is weak fairness of each processor's own steps and of the
delivery of a byte on the line: both processors always run, and a UART delivers
what it was given. Clients and losses are not fair. `FairSpec` of `PicoHsm` has
no more than that. `ListensAgain` assumes, in its own premise, weak fairness of `Watchdog`
(the independent watchdog counts down whatever the program does) and that it does not
for ever fire before the MCU has gone through `sec_reset` and `flush` (`Hurried`), which take
a small part of its period; `CommandAnswered` assumes neither, but no loss, so that a
deadlock cannot hide behind the watchdog. `FairSpec` of `SshIsolation` is weak fairness of the script's own steps:
the kernel runs every process; that a session starts, ends or is killed is not fair.
`FairSpec` of `SmpcChannels` is weak fairness of one disjunction: some event loop
handles a message or a timer of some node expires. It is less than the fairness of each
node, and enough, for no node has messages forever; commands are not fair. `FairSpec` of `Socket` is weak fairness of the driver
and of the watchdog: the MCU runs and its watchdog counts; `AwaitsAgain` has the same
premise about `Hurried`, here the two steps of `listen` before its loop. The client and
the network owe nothing.

## Proofs

`RxRingProofs` proves, for every `Size` in 2..256 and every set of bytes:

* `TypeCorrect`, `FetchedStaysOldest`, `FlushIsSegment`: the invariants of the run;
* `RingIsFifo`: `Spec => FifoSpec`, the refinement.

The inductive invariant `IInv` adds what makes a flush safe: while `flush` is
between its two writes the interrupt still compares with the old `read`, so
`read = 0 \/ write < read` and `write` cannot wrap; hence the bytes stored
meanwhile are the segment from `base` to `write`. It also says that on the branch
`write < read` of `size` the inequality still holds at the subtraction (only the
other branch can underflow). `NextIndex` reduces the modulo to a case
distinction; `WriteNextFits` says the `uint8_t` of `put` truncates nothing up to
256. `StoreAppends`, `AdvanceTakes` and `SameQueue` relate a step of the indices
to the sequence; `RingStep` puts one action of the queue, or a stutter, to each
action of the ring. Assumed: `SizeAssumption`, `WordAssumption`,
`NoByteAssumption`.

`SshIsolationProofs` proves, for any sets of sessions and connections, any range
of user ids and any number of killed set-ups:

* `TypeCorrect`, with set-ups that overlap or not;
* under `ASSUME ~Overlap`, `DirectoryKept`, `UidsDiffer`, `UidsShared` (the
  invariants of `ssh_serial`) and `UidsPooled`: `Spec => PoolSpec`.

`IInv` adds to the types three facts. `Serial`: at most one session is being set
up. `Own`: at each program point, what the session relies on in the files: a session
past `drop_privileges`, or about to pass it, has its own directory and its file
names its connection; the users it found connected have their directories. `Knows`: the session being set up has
in `connected` every user of the sessions that run, from the end of the `stat`
loop on, and while it looks at the files it has skipped none of its own
connection. So what it removes belongs to no running session, what it reuses is
its connection's, and what it creates is free. `~Overlap` is needed, as
`ssh_different` shows.

* `NoException`: under the same assumption, `FailsOnlyAfterKill`. `Safe` says that what
  a set-up is about to remove or change exists, `Kept` that a file has its directory or
  is dealt with by the set-up under way; both hold while no set-up was killed
  (`Clean`).

`PicoHsmProofs` proves, for a PIN and blocks of any length, any number of keys and
blocks, any lines, any losses and garbage:

* `Types`: `TypeOK`;
* `Steps`, `NothingDropped`, `NoneWaits`: `InStep`, `NoOverrun`, `NoMutualWait`;
* `Refinement`: `Spec => ServiceSpec`.

`IInv` is `Typed /\ Flow /\ Answered`. `Typed` ties the lengths of the buffers to the
program points. `Flow` says, for each point of the MCU, where the SEC can be and
which bytes are in the rings and on the line, with their values: the PIN that the SEC
has heard and what is under way make what was told, and the same for a block, its
answer and the chaining vector (`InSync`). Once a byte is lost the SEC may take data
for something else; `Stray` then only counts: what is under way and what the SEC may
still answer to it is less than the MCU awaits, so the MCU never completes a block and
the next event is the watchdog. `Answered` relates the pieces printed to the command.
`Flow` is inductive, `ServiceSpec` alone is not, for it does not say what the SEC
computed. Assumed: `Ciphers` (AES and the exclusive or map blocks to blocks), `Roomy`
(the SEC's ring holds an opcode and a PIN, a count and a block, the MCU's a block; the
code's 63 and 255 do), and the module's assumptions on commands and sizes.

`SocketProofs` proves, for every width of a register, buffer size, line and set of
answers: `Types` (`TypeOK`), `StableReads` (`StableHeld`), `NoPanic`
(`PanicOnlyIfLeft`), `InboundRefinement` (`Spec => InboundSpec`) and `OutboundRefinement`
(`Spec => OutboundSpec`). Of its `IInv`,
`Read` relates the bytes of a polled register to the values it had: a count only
grows while it is polled, so two equal composed values are one of them. `Phase` and
`Stage` say what has been written and in which states the chip is, by program point;
`Incoming` and `Outgoing` locate every byte of the two streams in the buffers,
`Outgoing` only until a `write` is misplaced, for then data that was not transmitted is
gone from the buffer.

`EllipticAppProofs` proves, for every grid, lines and secret, `RepliesOwed`
(`OneReplyEach`) and `FlagAccepted` (`FlagOfAcceptedGrid`) under `ASSUME OneAtATime`,
and `TypeCorrect` (`TypeOK`) and `GridFills` (`GridOnlyFills`) without it. The invariant
adds `GridKept`: while the user is asked, the grid is the one that was checked.

`SmpcRoundsProofs` proves of the promise that `SmpcChannels` is checked against, for
any number of nodes and rounds: `Together`, no participant is two rounds ahead of
another, and `Signed`, when a signature was returned everyone has entered the last
round. `RoundsInv` adds that nobody is in a round of a request before it is made.

`SmpcChannelsProofs` proves, for any nodes, commands, halts, rounds and timing,
`TypeCorrect` (`TypeOK`). `Types`, the invariant, describes a task by what it waits for:
the channels it opened are its own, lead to different nodes and to none of those it is
still to connect to; a dictionary has one channel per peer; a message is sent to an end
of its channel.

The same module proves, under `ASSUME "client" \in Timing` alone, `SignedByAll`
(`SignedTogether`). Its invariant has two more parts. `Own` says what belongs to which
command: what runs, and every channel in a dictionary of a node that runs, is of the
last command; a channel leads to a peer the command names; a payload and a channel of
level 0 come from its main node; while the main node is connecting, the peers it has reached, the one it waits for and
those left are all the command names. `Progress` says that the main node is never
ahead of what it has read: shares come in the order of their rounds on a channel, each
of a round its sender has begun; in a round of the main node, the members of its loop
before its position have begun that round and the others the one before. So when the
loop of the last round ends, every peer it holds has begun the last round; and it closes
its channels without an exception only if it still holds the channels of all the peers.
"client" is needed: a command that comes while the nodes are still busy with the last
meets its channels in their dictionaries.

What `Keep` returns, a sequence built step by step, is proved by induction on its
length; `NatSet` takes it from the well-founded ordering of finite sets of the library,
for the theorems that have an operator as a parameter cannot be used.

`SmpcTogetherProofs` proves the rest of what `smpc_rounds` checks but liveness, for any
nodes, commands and rounds: `ConnectedToAll` (`AllConnected`), `SharesOfTheRound`
(`SameRound`), `NoTaskFails` (`NoFailure`), `ChannelsReleased` (`Released`) and
`RoundsImplemented` (`Spec => RoundsSpec`), so that `Together` and `Signed` hold of the
nodes too. Assumed, as the run does: `{"order", "client"} \subseteq Timing` and,
but for `NoTaskFails`, `MaxHalts = 0`. Without "order"
`smpc_order` refutes `AllConnected`; without "client" a command meets the channels of the last; a halted node ends channels at any point of a
round, and the invariant with them: what is proved then is `SignedTogether`.
`UntilAHalt` drops `MaxHalts = 0`: with any number of halts, the other three invariants
hold until the first, as `NoFailure` says of itself.

The inductive invariant is `Joint`: no node is down, `Mesh(Now)`, and `InOrder(inbox)`.

* `Mesh(s)` speaks of a state `s` that is a value: the commands, the tasks, the states of
  channels, the dictionaries, and the *set* of messages each node has not read. A
  command is sent when those before it are settled (`CommandsJ`). Who a task waits for,
  what it has opened and what is left of its list are together what the command tells
  it to connect to (`ConnectJ`, `MainJ`); the peers begin in the order the main node asks
  them (`StageJ`); while a round lasts the loop is over the dictionary as it still is
  (`ShareJ`), the reason why no `for` meets a dictionary that changed. The state of a
  channel follows from the tasks at its two ends (`ChannelJ`), and so does what is in a
  dictionary (`Holds`). A message that is under way can be explained by both ends
  (`Sound`), and is there once (`Alone`). Conversely, what an end waits for is under way
  (`LevelJ`, `SharesJ`, `EofJ`, `AckJ`): the shares of every round that its sender has
  begun and its receiver has not read.
* `InOrder` says which message may lie before which in an inbox (`May`): the messages of
  a channel by their rank; a payload behind the greetings and levels of all the other
  channels, which is why a peer that is asked to begin already holds all its channels;
  no share behind an end of file of its command.

The four invariants follow from `Joint`; none of them is inductive, nor their
conjunction, for they say nothing of what is under way. The proof has two halves. A
*move* from `s` to `u` (a node greets, answers, asks, begins a round, reads a share,
closes) keeps `Mesh`, by what it changes and whatever the variables are; and every
action is one move, or two that a step takes together: reading the last share of a
round and beginning the next, reading a payload and beginning the first round, an
answer and the next greeting. The first half is at the end of `SmpcChannelsProofs` and
in the first part of `SmpcTogetherProofs`, the second follows there.

For the refinement, a step makes one task enter at most one round (`Advances`). It may:
when a node enters round r + 1 it has read the share of round r from everyone, by
`SharesJ` their senders have begun round r, so all the others have entered it; and a
task is through (`"sleep"`) after the last round only.

Only model-checked: all liveness (fairness and `ENABLED` are out of the prover's
reach); the functions of `MCAlgorithms`, `AesStandard`, `AesInverts` and `ResultsExact`
(they are recursive or use `Bitwise`); and `SignatureVerifies`, which rests on the
algebra of polynomials over a field, of which the provers know nothing.

## Plan

The order was that of the picoHSM first, from the ring up (`RxRing`, `PicoHsm` with
`HsmService`, `Socket` with `ByteStream`, `Conversions`, `Aes`), then the programs with
several actors (`SshIsolation`, `SmpcChannels`), then the sequential ones
(`EllipticApp`, `Checker`, `SmpcShares`), each with its proofs once TLC agreed. What
is left:

1. SIGN commands that overlap: a second one replaces `active_channels` while the first
   runs. Each channel of `SmpcChannels` would need the dictionary it was registered in.
2. `PicoHsm` over `Socket` instead of prints that are delivered whole: a command whose
   line arrives in two segments is executed with the first (`main.cxx:366`).

## Not modelled

* Start-up, registers and clocks of the two processors: no state once the main loops
  run. `configure_clock` waits for nothing (`main.cxx:402` tests a constant): what a
  core does on a clock that is not stable is outside a model of states.
* `socket_t::connect` and `close`: called by no program of the repository.
* `memset` of `util.cxx` ends without returning its value: undefined behaviour of the
  build, not a state. The stack buffer of `handle_client` is assumed large enough
  for the line received.
* A reset of the application's transport (`EXCEPTION_IO_RESET`): it changes neither
  the grid nor what is owed.
* Overlapping SIGN commands (see the plan), the start of the signing
  client and its checks of the answers, the generation of challenges.
* Hardware files, firmware images, shellcode, attack and solution scripts, the
  cryptocomputer's container: no protocol state of their own.
