# PWM_Controller: a TLA+ verification development

PWM_Controller drives up to sixteen PWM outputs from a Linux host. It has two
programs and a line between them:

    client processes ── PWM_Lib.c ──┐
                                    │ System V shared memory, a mutex in it
    daemon (PWM_Controller.c) ──────┘
        │  USB serial port, lines of text ("pwm: 3 40\r\n")
    board (firmware/, ATmega2560) ── outputs, sensors, EEPROM
        │  second UART, the same lines with other channel numbers
    expansion board

This directory models the parts of it that keep state and can go wrong over
time, checks the models with TLC and proves the main results with TLAPS. Paths
below are relative to `src/`.

## 1. Inventory

### Firmware (`firmware/`)

One main loop, interrupts for the two UARTs and for a 1 ms timer, and a
watchdog that the loop resets once a round: half a second by its comment
(`main.c:161`), about one second by the bits it sets (`main.c:168`).

| Component | State | Operations | Correct when |
|---|---|---|---|
| PWM outputs, `pwm.c` | connect bits, compare registers, `PWM_Timers` | `PWM_SetDutyCycle`, `PWM_RunTimer`, `PWM_Initialise` | an output shows the last duty commanded, never an intermediate one, and is off when its timeout is over |
| Timer, `timer.c` | four counters the interrupt increments | `T0CompAInt`, `Timer_Is1ms/10ms/100ms/1s` | no second is lost or invented; the loop takes one event a round |
| Main loop, `main.c` | line buffers, `Com_Timer` | `main`, `Run_USB_Serial`, `Run_External_Serial`, watchdog | commands are executed in order; a hanging loop ends in a reset with outputs off |
| UARTs, `uart.c` (for `uart1.c`, `uart3.c`) | a transmit and a receive ring, interrupt enable | `PutChar`, `Puts`, `RxGetLine`, two interrupts | characters leave in order, none is lost or sent twice, sending never stalls |
| Commands, `CmdProcessor.c`, `PWM_Cmds.c` | sensor periods | `Cmd_Lookup`, one handler per command, `PWM_Cmds_Run` | the right handler runs with the right argument; channels of the expansion board are passed on |
| Settings, `eeprom.c` | EEPROM cells | one and two byte read and write | a setting is what the last command asked for, unless the supply failed while it was written |
| ADC, `adc.c` | none | one conversion | - |

### Daemon and library (`daemon/src/`)

| Component | State | Operations | Correct when |
|---|---|---|---|
| Client library, `PWM_Lib.c` | the segment (`ShdMem.h`) | `PWM_SetPWM`, `PWM_SetMultiplePWM`, `PWM_isConnected`, getters | an update is posted as a whole or not at all |
| Segment in the daemon, `Cmds_PWM.c` | the segment | create, connect, clear, `PWM_Send_ChanelData`, `Receive_*` | what is posted is sent once, newest value, never after a restart |
| Main loop, `PWM_Controller.c` | `Serial_fd`, the receive buffer | connect, `Check_Serial`, `select`, signals | it never stops serving while the port is there |
| Serial port, `Serial.c` | file descriptor | open, write, read, close | a failure is noticed |
| Reception, `PWM_Controller.c`, `CmdParse.c` | `readBuf` | `read`, `CmdParse_ProcessString`, `Receive_*` | every complete line is dispatched once, however reads divide it |
| Test client, scripts | none | calls of the library | - |

### How they interact

- clients and daemon: only through the segment, whose mutex is initialised
  with default attributes and so is private to a process; `data_ready` and
  `port_connected` are bit fields of one word; every update ends in
  `kill(pid, SIGUSR1)`;
- daemon and board: one stream of lines each way, a `restart` at connect. An
  update is in the segment, in the message, in a `write()`, on the line or
  shown by an output, and each of these places can lose it on its own;
- main loop and interrupts of the board: shared counters and rings.

### What is hard

Interleavings at single accesses (bit fields in one word, a 16 bit counter on
an 8 bit processor, the interrupt enable shared by loop and interrupt); a
process ended in the lock; a restart of the daemon under its clients; reset of
the board at any instruction; a supply failure between two byte writes; the
order of two register writes that both show at a pin; the exact time of a
timeout; receive buffers at their limits, and lines that arrive in pieces. `PROJECT.json` lists each of these at
its line, with the properties that are there for it.

## 2. Modules

| Module | Models | Of |
|---|---|---|
| `ChannelPromise` | abstract outputs: level, seconds left, one ageing per second | what `pwm.c` is for |
| `PwmOutputs` | the registers, one action per register write | `pwm.c` |
| `PwmOutputsProof` | theorems about it | |
| `MainLoop` | loop, `Timer_Is1s`, timer interrupt, watchdog, `restart`; extends the promise with time | `main.c`, `timer.c`, part of `PWM_Cmds.c` |
| `MainLoopProof` | theorems about it | |
| `CharQueue` | abstract queue of characters and the data register | what the transmit half of a UART is for |
| `UartTx` | the transmit ring, its interrupt and `UartTxPutChar` write by write | `uart.c`, for `uart1.c` and `uart3.c` |
| `UartTxProof` | theorems about it | |
| `LineStream` | abstract receiving end of a line of text; the board and the daemon each have one | what reception is for |
| `LineReader` | the receive ring, its interrupt, `UartRxGetLine`, `Run_USB_Serial`, `Cmd_Lookup` | `uart.c`, `main.c`, `CmdProcessor.c` |
| `LineReaderProof` | theorems about it | |
| `DaemonReceive` | `select`, `read`, the splitting into lines, `Cmd_Table` and its handlers | `PWM_Controller.c`, `CmdParse.c`, `Cmds_PWM.c` |
| `DaemonReceiveProof` | theorems about it | |
| `SettingsStore` | EEPROM bytes, the commands that write them, the sensor handlers that read them | `eeprom.c`, `PWM_Cmds.c` |
| `SettingsStoreProof` | theorems about it | |
| `DutyMailbox` | abstract mailbox: post, take, deliver, drop, forget | what the segment is for |
| `SharedMemory` | every access of the segment by clients and daemon, signals, serial failure, restart | `PWM_Lib.c`, `Cmds_PWM.c`, `PWM_Controller.c` |
| `SharedMemoryProof` | theorems about it | |
| `System` | `DutyMailbox`, `ChannelPromise` and the line between them: a duty from the client to the output, over restarts of both programs | `Cmds_PWM.c`, `PWM_Controller.c`, `PWM_Cmds.c`, `main.c`, `uart.c` |
| `SystemProof` | theorems about it | |
| `MC...` | constants of the instances, one module per component | |

### PwmOutputs

`enabled[c]` is the COM bit that connects a pin, `ocr[c]` the compare register,
`timers[c]` the entry of `PWM_Timers`. `pc` names the next register write:
`PWM_SetDutyCycle` is three steps (port, register, timer), `PWM_RunTimer` is
one step per channel and, for a channel that times out, two writes more. The
main loop is the only caller, so one call is in progress at a time; the timer
hardware reads the registers all the time, so what lies between two writes
shows at the pin. `Reset` may happen between any two writes. The conversion
`duty * 327 >> 7` is kept in 16 bits. The duties are any 16 bit integers,
because `atoi` yields them.

The refinement maps the pin to `ocr[c]` when connected and to 0 otherwise. A
command takes effect at the first write that changes the pin, which is the
compare register for a duty above zero and the port for a duty of zero:
`Taken` says so.

### MainLoop

The loop is a cycle `kick`, `serial`, `first`, `second`, (`load`, `store`,
`passed`, `age`). `Tick` is the timer interrupt, enabled everywhere
but between `cli` and `sei`. `Timer_Is1s` reads `Count_1s` as two bytes, in
either order, because the order is the compiler's; the two loads are a few
cycles apart, so at most one tick falls between them. A round lasts up to
`RoundTicks`, a hang up to `WatchdogTicks`. Commands arrive at `serial`;
`restart` goes to `hang`, which only the watchdog leaves. `age[c]` is history:
ticks since the last command to a channel that is on. The outputs are
`ChannelPromise` itself, which `PwmOutputs` is proved to implement.

### UartTx

`UartTxPutChar` waits until the ring has room, stores, advances `TxIn`, and
sets UDRIE in `UCSRB`: four steps of the main loop, with the data register
empty interrupt (one atomic step, since interrupts do not nest) between any two
of them. The read-modify-write of `UCSRB` stores the bit set whatever it
loaded, so it is one step. `Advanced` is the masked increment, for a length
that is a power of two. In the refinement the queue is what lies between the
offsets, and a character counts as put when `TxIn` advances.

### LineReader

`UartRxInterrupt` stores a character and advances `RxIn` without looking, as
the code does; with a full ring that is an overrun, after which the ring looks
empty. `Run_USB_Serial` goes `poll`, `call`, `loop`, `lookup`: `UartRxGetLine`
gets the rest of the line buffer and counts `length` down, one character a
step, with interrupts in between. The end of its loop decrements `length` once
more, and what that leaves decides whether the poll ends or the buffer is
cleared. `Cmd_Lookup` hands a line over; the handler of `restart` does not
return, and characters go on arriving until the watchdog bites. `Text` is any
set of characters and `Restarts` any set of lines.

In `LineStream`, an end of a line keeps characters in order and hands lines
over from the front. The board's end is `Lossy`: an overrun takes a full ring's
worth of the newest characters (`Burst`), a line longer than the buffer may be
given up (`TooLong`), a reset empties it. Everything between the fetched
characters and the ring is one stream: `Fetched \o InRing`.

A string that fills the line buffer has its end behind it, and no later call
finds room for a character: the board then hears nothing until its next reset.
The code has no guard against that. `NeverDeafByItself` says what it takes: a
line as long as the buffer, or as many lines joined by overruns as are that
long together, and nothing the board does by itself. The run reaches it, and
`AllFetched` excepts it.

### DaemonReceive

`readBuf` is declared in the body of the loop and not initialised
(`PWM_Controller.c:126`). The compilers place it once in the frame of `main`,
so it holds what the last round left, and at first anything: `Leftovers` may be
any string of texts and ends that fits the buffer. (A longer one, without a NUL
in the buffer, makes the room negative, which `read` reports as an error; a
failing `read` is in `SharedMemory`.) `read` puts its bytes behind the string
that is there. `ProcessString` takes one line; a line that begins with no
command of `Cmd_Table` ends the round, and what is behind it waits for the next
`read`. A text is one element of the stream. The board prints reports, and
lines that are none: echoes and answers. The answers of `update` have no end of
line, so they begin the line of what comes next; `printed` counts the texts of
the present line.

An update of several channels brings several echoes at once, so each round
leaves lines behind: the buffer fills up over many rounds, the readings that
reach the segment are as old as the backlog, `read` gets the whole rest of the
buffer, and the end of the string is written one place behind it. Nothing in
the code bounds that, so the properties relate it to its cause. Three history
variables measure it: `found`, the characters in the buffer at the start,
`chunk`, what the last read brought, and `peak`, the unknown lines a round left
over, at most. `BacklogBounded` says that the string grows with `peak` and with
nothing else, at any pace of the board; its end is inside the buffer as long as
that bound is below `BufSize`. `OneReadBehind` says what `peak` = 0 gives.
`KeepsReading` says that even with a full buffer the daemon does not go deaf,
because a full buffer holds a complete line, unless what was found at first
fills it with less than a line.

### SettingsStore

`cell` is the EEPROM by bytes, `writing` the byte the hardware is busy with.
`EEprom_Write_2` is two writes (`low`, `high`), each of which waits for the
hardware and skips a byte that is there already. `Restart` hangs the program
while the hardware goes on; `SupplyFails` at any moment leaves the byte being
written old, erased or new. `PWM_Cmds_Run` is a round of the three sensor
handlers: each reads its rate (`EEpromRead_2_default`, where -1 cannot be told
from an erased setting), compares and counts. `timer` wraps as an unsigned
int does, `Rate` is signed. `asked` and `sure` are history: the last argument,
and whether the supply held while it was written. `quiet` and `steady` count
the rounds between two reports. `temp`, `current` and `volt` are alike here and
are elements of `Sensors`; the limits of `System_Temp` and `System_Current` are
only stored.

### SharedMemory

A client goes `lock`, then, by the loop of the call, `duty`, (`loadmask`,
`storemask`) for each channel in any order (`todo`, `here`), (`loadbits`,
`storebits`) for the flag, `unlock`, `kill`; `PWM_SetPWM` sets `data_ready`
before `updated`, `PWM_SetMultiplePWM` after the last channel. A starting
daemon goes `off`, `init`, `pid`, `fork`, `open`: `memset`,
`pthread_mutex_init`, the pid with the version, and `daemon()` are steps of
their own, so a client may lock between `memset` and the initialisation of the
mutex. Then it goes `connect`, and `lock`, `collect`, `clearmask`, `unlock`,
`write`, `select` round after round, with `read`, `parse` and `receive` when
there is input. The daemon's loop over the channels is coarser than the
clients': it looks at all of them in one step and clears their bits in another.
The word with
both bit fields is loaded in one step and stored in another, with the neighbour
as it was loaded. `Unlocks` wakes one sleeper or nobody: a mutex that is not
shared between processes promises nothing about the sleepers of another one.
Signals end the daemon at any access (`Run_CtrlC`), which runs
`PWM_ClearSharedMemory` and leaves the mutex as it is. A failing port is
followed by `shmdt`, after which the daemon's next access is a fault.

`SetPWM` and `SetMultiplePWM` are kept apart by the order of the two bits and
by what they do with a channel out of range.

In the second life of the daemon the flag can be lost: a call that passed the
check before the restart stores the word it had loaded over the new daemon's
`port_connected`. The daemon then serves, and every later call is refused. So
`ServingIsConnected` is stated for the first life only.

`kill(pid, SIGUSR1)` ends the process the segment names: the launcher, whose
pid was taken before `daemon()` forked, so nobody after the fork; and between
`memset` and the new pid, pid 0, the client itself with its process group. A
client that ends outside a call is replaced by another; one that ends inside
the lock is not modelled.

In the refinement an update counts as posted when its client gets the lock
(`Posted`): from there on nobody but a restart comes between, and its channels
follow one by one. It counts as taken when the daemon clears the bits.

### System

The composition. It has the variables of `DutyMailbox` (`pending`, `taken`,
`board`) and of `ChannelPromise` (`pin`, `left`, `due`) and uses their actions,
so what `SharedMemory` and `PwmOutputs` are proved to implement is what it
rests on. `Duties` of the mailbox are records here (`Posts`): the duty, which
update it was (`stamp`) and in which life of the daemon it was asked for
(`life`); stamps and lives are history, they are nowhere in the program.

`out` is the message a `write()` still has to send, in the order of the
channels (`SendLine`). `cable` is what is between the two programs, by lines:
in the port's buffers, on the wire, in the ring of the board and in its line
buffer. The board obeys its first line only between two seconds (`Obeys`), as
the main loop does.

Three things happen to the cable. The daemon `Ends` at any moment: any number
of the last lines may be lost with it, and a line that is cut is continued by
the first bytes of the next daemon, which are an `update` command
(`PWM_SetStartup`), so a whole line whose duty is cut comes out (`Splices`).
The ring of the board `Overrun`s: the oldest lines are lost, and what was
fetched of the first is continued by the end of another. A `Reset` forgets what
had been received, whole lines and the beginning of one. A restart of the
daemon writes `restart` before anything else; that write may fail unnoticed
(`Connect_To_Port` does not look at the result), and the board may be reset
before it obeys it. The three `update` lines before it command no output and
are left out but for what they do to a cut line.

`QuietIsNewest` is what the system is for: when nothing is on its way, an
output that is on shows the newest duty asked for. Each of its conditions is
needed. Without `obeyed = life`, outputs still show the earlier daemon's
commands; with an overrun in the present life, a newer command may be lost
while an older one is shown. It claims nothing of an output that is off: a
reset or a timeout takes it off, and no part of the system sends the newest
duty again.

## 3. Runs

| Run | Instance | Shows |
|---|---|---|
| `pwm_outputs` | 2 channels, timeout 3, duties -1, 0, 1, 50, 100 and 130 | `FailSafe`, `NoStaleDuty`, `DrivenMeansOn`; `PwmOutputs` implements `ChannelPromise` |
| `main_loop` | 1 channel, timeout 3, 12 ticks a second, bytes of 9 values, watchdog of 12 ticks, rounds of up to 6 | `OffInTime`, `NotTooEarly`, `RunsDown` |
| `main_loop_torn` | the same | violated: a torn read makes a second short |
| `uart_tx` | ring of 4, 2 characters | `UartTx` implements `CharQueue`, `PendingIsEnabled`, `PutReturns`, `AllSent` |
| `line_reader` | ring of 4, line buffer of 5, lines of up to 3, one overrun a line | `LineReader` implements a lossy `LineStream`, `NeverDeafByItself`, `AllFetched` |
| `daemon_receive` | 1 sensor, 2 readings, echoes; buffer of 8, reads of up to 3, four leftovers | `DaemonReceive` implements a lossless `LineStream`, `BacklogBounded`, `OneReadBehind`, `KeepsReading` |
| `settings_store` | a sensor and a limit, bytes of 4 values, rates -1, 0, 3 and 6, default 4 | `AsAsked`, `NotSilent`, `EvenlySpaced`, `KeepsReporting` |
| `shared_memory` | 2 clients, 2 channels, 2 lives of the daemon, restart with no client in the lock | lock discipline, flag word, `SharedMemory` implements `DutyMailbox` |
| `shared_memory_restart` | 1 client, 2 channels, 2 lives, restart at any moment | nothing of an earlier life is sent; every update is taken unless the daemon stops or sleeps |
| `shared_memory_sleep` | 1 client, 1 life | violated: the daemon sleeps in a mutex nobody wakes it from |
| `shared_memory_ghost` | 1 client, 1 life | violated: `port_connected` is 1 after the daemon has ended |
| `system` | 2 channels, 2 duties, timeout 1, 2 lives, 2 updates | `InOrder`, `NothingFromBefore`, `QuietIsNewest` |

### Bounds, and why they are enough

- `PwmOutputs`: two channels show every effect of one channel on another (there
  is none) and the loop over all of them; the timeout of 3 has seconds that
  only count down and one that switches off. The duties lie at and beyond both
  ends of the range, the negative one among them. The proofs cover every number
  of channels, every timeout and every 16 bit duty.
- `MainLoop`: channels do not interact in the loop, so one is enough. With
  bytes of nine values and twelve ticks a second the counter crosses a byte
  boundary below the second and one above it, as 767 -> 768 and 1023 -> 1024
  on the board, so both kinds of torn read (too low, too high) occur within a
  second's count. `MaxAge` is above the bound that `OffInTime` states, an
  assumption TLC checks. Both bounds, `LatestOff` and `EarliestOff`, are exact
  in this instance: TLC finds a violation when either is tightened by one
  tick. With the board's figures (7 s, 1000 ticks, bytes of 256 values, a
  watchdog of W, about 1000 ticks, and rounds of at most R ticks) an output
  goes off at most 7255 + R + W and at least 5745 - 2R ticks after its last
  command. `RoundAssumption` keeps R within a second.
- `UartTx`: a ring of four is empty, full, wrapped and in between; two
  characters tell a wrong order, a loss and a repetition from the right thing.
  The proofs cover every length and every set of characters.
- `LineReader`: a line of full length and its end fill the ring, so lines that
  wrap, overruns, and lines that the poll finds in part all occur. One overrun
  joins two lines of three characters, which is more than the line buffer of
  five holds, so the full buffer and the end behind it are reached. The proofs
  cover every size, lines longer than the buffer among them.
- `DaemonReceive`: pieces of three elements divide two-element lines at every
  place, and one read may bring two echoes, so the backlog, the full buffer of
  eight and the end behind it are reached. The buffer is found empty, with half
  a line, with a whole one, and filled by a string without an end, for which
  alone `KeepsReading` claims nothing. The proofs cover every size and any
  leftovers; `RoomAssumption` keeps the texts of a line within `MaxChunk`.
- `SettingsStore`: words of sixteen values, the sign bit and the wrap among
  them; rates below, at and above zero, one smaller and one greater than the
  default, and -1. A failing supply makes the greatest rate, 7, of 3 and -1.
  `MaxQuiet` is above a whole turn of the timer. The proofs cover every
  even byte and any number of settings.
- `SharedMemory`: two clients race with each other and with the daemon; two
  channels separate an update of one from an update of both; two lives give
  one restart, from any of the states the first life can leave behind, and
  with clients at any access between the steps of the start. The updates hold a
  value to clamp and a channel out of range. `MaxLines` = 1 has
  a receive between two sends. `RestartAnytime` is FALSE where the refinement
  is checked: a client that is inside the lock when `memset` runs sends what
  it stores afterwards into the new life, which `DutyMailbox` does not allow;
  `shared_memory_restart` drops that restriction.

- `System`: an update of one channel and one of both, in either order or twice
  the same, so that an update waits, overtakes or replaces another; two lives
  give one restart of the daemon with anything left on the cable. A timeout of
  one second is enough for an output to go off by itself. Garbled duties are
  one of the two. The proofs cover any channels, duties, timeout, updates and
  number of lives.

Deadlock is not checked in the runs of `SharedMemory`: when the last life is
over and the clients have slept in the lock a dead daemon holds, the system has
stopped, as the real one does.

### Fairness

- `MainLoop`: the clock ticks, the watchdog bites when it is due, and the
  processor executes the loop. Commands and resets are never required.
- `SharedMemory`: a scheduler runs every process, so a client goes on with a
  call it has begun and the daemon with its loop. No fairness makes an unlock
  wake a sleeper, makes a client call, or restarts the daemon.
- `UartTx`: the processor goes on with a call it has begun and runs an
  interrupt that is due, the hardware shifts. No handler has to send anything.
- `LineReader`: the loop executes and the 10 ms come round (`LoopStep`), the
  watchdog bites. The host need not send.
- `DaemonReceive`: the daemon is scheduled: `Read` and `ProcessString`. The
  board need not print.
- `SettingsStore`: the hardware finishes a byte, the watchdog bites, a command
  that has begun is executed, a round that is due runs. Strong fairness for
  `HundredMs` stands for the order of the main loop, which asks for the 100 ms
  after every pass over the commands, so that commands cannot keep a round
  from coming. Commands, restarts and supply failures are never required.
- `PwmOutputs` and `System` state no liveness.

### Where code and documents disagree

Each `violation` run checks what a document, comment or test says of the
program. The three disagreements are listed under `findings` in `PROJECT.json`:
a torn second (`firmware/timer.h:38`), an update that is not sent
(`daemon/Flow_Chart.uxf:214`), and a daemon that is reported connected after
its end (`daemon/src/PWM_Test.c:40`).

Met while modelling, without a run of their own:

- an output goes off six to seven seconds after its last command, and not
  seven as `README.md:9` has it, because `PWM_RunTimer` counts the ends of
  seconds: `NotTooEarly` states the exact bound;
- a negative duty leaves the pin connected at compare value 0, a short pulse in
  every period, because it is clamped after the decision to connect
  (`firmware/pwm.c:184`). `DrivenMeansOn` states exactly this: a connected pin
  has compare value 0 if, and only if, the last duty asked for was negative;
- a report comes every rate + 1 rounds, which `EvenlySpaced` states, where
  `Protcol.txt:2` gives the rate in units of 100 ms; a rate of -1 reads as an
  erased setting and so means the default;
- the echo of a `pwm` command, the answer to `firmware` (the daemon's table
  has it in another case) and the answers to `update`, which have no end of
  line, are lines the daemon does not know;
- `Expansion_Current` stores a value that no handler adds to the "total system
  current" of `Protcol.txt:10`;
- the daemon's message for five channels is longer than the board's receive
  ring of 64, and for sixteen it has some 200 characters, all within less than
  the 10 ms between two looks at the ring: `Overrun` is what then happens;
- the comment at the watchdog says half a second, its bits say one.

## 4. Proofs

Checked by `tlapm`, with SMT, Zenon and LS4. Every safety property and every
refinement of the passing runs is proved, each from the ASSUMEs of its module
and what is named below.

**`PwmOutputsProof`**, for any number of channels, any timeout above zero and
any set of 16 bit duties:

- `TypeCorrect`, `FailSafeHolds`, `NoStaleDutyHolds`;
- `DrivenMeansOnHolds`, with negative duties as the one exception it states;
  `OnInv` adds what the call in progress has written so far;
- `PromiseKept`: `Spec => KeepsPromise`.

The inductive invariant is `IInv`. `FailSafe` and `NoStaleDuty` speak of the
moments between two calls, so neither is inductive: `ChannelInv` says what
holds of each channel at every register write, `CallInv` what the call in
progress has already written, `IndexInv` where a loop index may stand, and
`BootInv` what the start-up loop has cleared. `CallDuty` carries the set the
duty came from. `RawValueIsALevel` is the arithmetic: the 16 bit product never
overflows, and every duty yields a level that `ChannelPromise` allows.
`PromiseKept` then maps every write to a step of the promise or to a stutter
(`StepRefines`).

**`MainLoopProof`**, for any channels, timeout, second, byte and watchdog that
meet `RoundAssumption` (a round is no longer than a second, and the counter
stays far from the end of its range): `TypeCorrect`, `OffInTimeHolds`,
`NotTooEarlyHolds`. The idea is a conserved quantity: a channel's age is the
seconds already counted for it, times their length, plus what `Count_1s` has
gained since, up to what the counter held when the command came (`AgeInv`).
`CountInv` bounds the counter at every place of the loop. `HalfInv` and the
lemma `WhatIsRead` say what a torn read can yield: the value before or after,
or one that is too high below a byte boundary, or too low just above one.
`Crossing`, the next byte multiple above a second, is where a read can still
be too low. `NoWrap` shows the 16 bit counter does not turn over.

**`UartTxProof`**, for a ring of any length above one and any characters:
`TypeCorrect`, `PendingIsEnabledHolds`, and `QueueKept`: `Spec => KeepsQueue`.
`IInv` adds that room once found stays (only the loop takes slots) and that the
character about to be added lies in the slot `TxIn` names. `RingShape` is the
arithmetic of the offsets; `AdvanceInPuts` and `InterruptHandsOver` show that
the content grows at one end and shrinks at the other.

**`LineReaderProof`**, for any ring, line buffer, lines and characters:
`TypeCorrect`, where `TypeOK` bounds the string by the line buffer,
`NeverDeafByItselfHolds`, and `StreamKept`: `Spec => KeepsStream`.
`NeverDeafByItself` is not inductive, because what will be fetched is in the
ring already. `RunInv` bounds every run of characters without an end in the
ring, `LineInv` the run that begins in the line buffer, by the characters of
the lines that overruns have joined so far (`Joined`); `LenInv` follows.
`LengthInv` ties `length` to the room that is left, `CharInv` says that only
characters are between the offsets, `LookupInv` and `RanInv` what `lookup` and
`hang` mean. For the refinement, an interrupt appends to `Fetched \o InRing`, fetching
leaves it as it is, and an overrun cuts a full ring off its end.

**`DaemonReceiveProof`**, for any sensors, readings, foreign texts, leftovers
within the buffer and sizes that meet `RoomAssumption`: `TypeCorrect`, where
`TypeOK` bounds the string by the buffer, `LinesKept`: `Spec => KeepsLines`,
`BacklogBoundedHolds` and `OneReadBehindHolds`. The last two need
`IInv == TypeOK /\ Runs /\ Behind /\ Calm`: over everything that is coming
(`Coming`, string and port together) no run without an end is longer than what
was found at first and what the board prints (`RunsShort`); what lies behind
an unknown line in the string came in the reads that the unknown lines up to it
have not used up (`Behind`), since each round takes one of them; and while no
round has left one over, at most one is in the string, and it came with the
last read (`Calm`).

**`SettingsStoreProof`**, for any sensors, limits, addresses that do not
overlap, rates and an even byte: `TypeCorrect`, `AsAskedHolds`,
`NotSilentHolds`, `EvenlySpacedHolds`. All four speak of moments when nothing
is being written; the invariant speaks of the value a setting will have once
the hardware is done and, for a command in progress, once it is executed:
`AskedInv` says that this is what was asked for, `QuietInv` relates the timer
and the history to the rate it will have. `DivMod` and `Wrapped` are
the arithmetic of splitting a signed word into bytes and putting it together.

**`SharedMemoryProof`**, for any set of clients, channels and updates and any
number of restarts and lines:

- `TypeCorrect` and `NothingStaleHolds`: `TypeInv` adds what a job in progress
  looks like (`JobInv`) and that every duty above zero in the segment is of the
  present life (`FreshInv`), also when `memset` runs under a client inside the
  lock. That client may bring back a bit of `updated`; the duty behind it is
  then the zero of `memset`, so what is sent turns an output off;
- `HolderIsInsideHolds`: `LockInv` adds that a client the mutex names is
  inside its section, and a daemon it names is inside or on its way out;
- `ServingIsConnectedHolds`: `FlagInv` adds that before the first
  `PWM_SetConnected` clients can only look, so no word loaded earlier is ever
  stored after it, and that from then on every loaded word has the flag up;
- `MailboxKept`: `Spec => KeepsMailbox`, if the daemon restarts only while no
  client is inside a call (`RestartAnytime = FALSE`). `AloneInv` is mutual
  exclusion, `DataInv` says that what a process loaded under the lock is still
  there when it stores, and that a message exists only on its way to the port.
  `WorkInv` says where a client stands in its loop over the channels, and that
  each channel of its update is still to come or has been written (`Done`), so
  that what was posted at the lock is in the segment at the unlock.

**`SystemProof`**, for any channels, duties, timeout, updates and garbled
duties, and any number of lives and updates: `TypeCorrect`, `InOrderHolds`,
`NothingFromBeforeHolds`, `QuietIsNewestHolds`. None of the properties is
inductive, since each speaks of the output and is decided by what is still on
its way. `OrderInv`: for each channel the stamps grow from what is shown over
the cable, the `write()` and the message to the segment. `LifeInv`: along the
cable the lives do not go back, and what is not written yet is of the present
one; so whatever stands behind a `restart` is at least as new. `NewestInv`: the
last update of a channel on its way, wherever that is, is the newest one, and
if none is, the output shows it. `LevelInv` ties the output to the command it
shows. The lemmas `CableShifts`, `CableOverruns`, `CableEnds` and `CableGrows`
say what each action does to the cable, and `CableKeepsOrder` what all of them
have in common: a whole command keeps its place among the others or is lost.
What the system rests on is proved apart: `PwmOutputs` implements
`ChannelPromise`, and `SharedMemory` implements `DutyMailbox` where the daemon
is not restarted while a client is inside a call.

The facts about sequences that the receiving ends need, appending, cutting and
the first end of a line, are lemmas at the head of `LineReaderProof` and
`DaemonReceiveProof`.

**Only model-checked**: liveness (`RunsDown`,
`TakenUnlessAsleep`, `PutReturns`, `AllSent`, `AllFetched`, `KeepsReading`,
`KeepsReporting`), which is beyond the prover. For `ServingIsConnected` and the
other properties that TLC checks of fewer lives or clients, the theorems hold
for all.

## 5. What is not modelled

- `adc.c`: one synchronous conversion without a state of its own;
- the formatting of lines, printing, logging, `configure` and the build files,
  the PCB, the scripts;
- the values of the readings a getter returns and the version check of the
  segment: a getter is a look under the lock;
- the counters behind `Timer_Is10ms` and `Timer_Is100ms`. They give one event a
  round, so a slow loop leaves a backlog (`firmware/timer.c:72`).
  `LineReader` and `SettingsStore` let their events come in any round, which
  includes every backlog;
- negative channel numbers passed to the library (`PWM_Lib.c:177`), which write
  outside the array;
- the lines passed on to the expansion board and the value it sends back, which
  nothing reads;
- in `System`: the characters of a line (`LineReader` has them), what the board
  prints, channels of the expansion board, and a restart of the daemon while a
  client is inside the lock, which `DutyMailbox` excludes and
  `shared_memory_restart` checks.

What remains assumed about the outside:

- `MaxOverruns` bounds the overruns within one line in TLC's instance; the
  proofs hold for any bound;
- what is found in `readBuf` at the start has an end within the buffer
  (`LeftoverAssumption`);
- the byte behind the line buffer, the first of `Ext_LineBuf`, stays zero, that
  is, no expansion board writes there (`LineReader`);
- a client does not end inside the lock, and the daemon's loop over the
  channels, which runs under it, is two steps (`SharedMemory`).

## 6. Plan

What is left, in order of weight:

1. the backlog of the 10 ms and 100 ms counters as state of `MainLoop`;
2. the expansion board: commands that are passed on, with a `UartTx` and a
   `LineReader` of its own;
3. a proof that the second life of the daemon sends no update of the first one
   that a client completes after `memset`, but zeros (`NothingStale`), carried
   over to `System`, so that it need not exclude that restart.
