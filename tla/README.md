# A verification project for NAVISIM

NAVISIM is an Android application that simulates GPS satellites: it computes the
baseband signal of the satellites above a (moving) receiver and transmits it with a
LimeSDR radio, or writes it to a file. This directory holds TLA+ models of its
concurrent and stateful parts, the TLC configurations that check them on small
instances, and theorems about them that TLAPS checks for every value of the
constants. `PROJECT.json` maps every definition to the lines it stands for; paths
below are relative to `src/app/src/main/`.

## 1. The system

### Components

| Component | Code | State | Operations |
|---|---|---|---|
| Settings | `java/.../Setting.java`, `SqlController.java` | static fields, a table of keys and values, what is shown | load, save, pick a file |
| USB and entry points | `java/.../MainActivity.java`, `cpp/native-lib.cpp` | permission, connection, receiver | ask for permission, open, `runSimulator`, `generateData` |
| Real-time pipeline | `cpp/lime_main.c`, `runCore_realTime` in `cpp/gpssim.c` | `sim_t`: a ring of samples, `head`, `tail`, `gps.lock`, three condition variables, `gps.ready` | `limeMain` creates two tasks; the GPS task writes blocks, the TX task reads buffers |
| Channel allocation | `allocateChannel` and the 30 second work in `cpp/gpssim.c` | `chan[]`, `allocatedSat[]`, `ieph` | give and take channels, renew messages, change the ephemerides |
| Navigation message | `generateNavMsg`, `computeCodePhase` in `cpp/gpssim.c` | `dwrd`, `g0`, `iword`/`ibit`/`icode`, `rho0` | make the words of a frame, place the bit counter, send a block |
| RTCM3 receiver | `cpp/getRTCM3Eph.c` | `buff`, `i`, `len`, `eph[0]`, `nSV` | connect, receive a chunk, find frames in its bytes |
| RINEX reader | `readRinexNavAll`, `runCore3` in `cpp/gpssim.c` | `eph[][]`, `neph`, `ieph`, `gmin`, `grx` | sort records into sets, choose the start, choose and renew the current set |
| Trajectory readers, orbits | `cpp/gpssim.c` | arrays | parse, floating-point geometry |
| File generators | `runCore`, `runCore3` in `cpp/gpssim.c` | the same, and a file | sequential |
| Worker generator | `runCore2`, `threadChannelElabFunc` in `cpp/gpssim.c` | a start and a stop mutex per worker | a barrier made of mutexes; nothing calls it |
| Sending over USB | `ConnectionSTREAM.cpp`, `TransmitPacketsLoop` in `cpp/protocols/ILimeSDRStreaming.cpp`, bulk transfers of `cpp/libusb` | contexts, buffers, URBs, `reap_action` | begin, wait, finish, abort; submit, reap, call back |
| Event handling of libusb | `cpp/libusb/io.c`, `core.c`, `sync.c`, `os/linux_usbfs.c`, `ConnectionSTREAMEntry.cpp` | events lock, waiters, event pipe, descriptors polled, flying transfers | handle events, synchronous transfers, timeouts, open, close |
| Tick thread | `cpp/hello-jnicallback.c` | `done`, a mutex | start and stop; a sample bound to another package |
| LimeSuite streaming | `cpp/protocols/` | `RingFIFO`, transmit and receive loops | push, pop, stream threads |
| LimeSuite drivers, SQLite, INI parser | `cpp/...` | hardware registers | vendored |

### How they interact

`MainActivity` opens the USB device and calls `runSimulator` through JNI, with the
settings it finds in the static fields of `Setting`; that is `limeMain`. `limeMain`
allocates a transmit buffer and the ring, creates the GPS task, waits on
`initialization_done` until `gps.ready`, signals `fifo_write_ready`, creates the TX task
and joins it. The GPS task gets its ephemerides from `getRTCM3Eph`, allocates channels, and
then for every tenth of a second computes a block of 100000 samples and copies it into
the ring when less than a block is in it. Every thirty seconds it renews the messages
of its channels, looks for newer ephemerides and allocates channels anew. The TX task
takes samples from the ring, as many as there are up to a buffer, and hands full
buffers to `LMS_SendStream`, behind which LimeSuite's own FIFO and transmit thread work. The transmit thread
pops packets from that FIFO and sends them by asynchronous transfers of libusb; an event thread, started with the
first enumeration, reaps their URBs and calls back. The thread of the program talks to the registers of the board by
synchronous transfers of the same library, and handles events itself while it waits for one.

### What is hard in it

* **Interleaving.** Workers and main thread share channels and buffers with nothing but two mutexes each that act as a barrier. The ring is half inside and half outside of its lock: the GPS task
  tests for room under `gps.lock`, and copies, moves `head` and signals without it; `gps.ready` is set and
  signalled without the lock its reader waits with. Wakeups can be lost, and on
  ARM a new `head` can be seen before the samples it stands for.
  In libusb, two threads take turns in handling events, under a lock that is recursive, with a pipe that
  wakes the poll and a condition variable that wakes whoever waits for its turn; a timeout may be handled while the
  transfer is submitted or completed.
* **Death of the process.** The settings are written key by key; Android may kill the process between any two statements, an exception of one of them ends it, and so does the `exit(1)` of the generator.
* **Partial failure.** A transfer is several URBs, of which one may fail, be refused or be handed back late. Two of the three thread creations are tested for the wrong sign or not at
  all; the clean-up frees what other threads use.
* **Protocol sequences.** Channels are given and taken in one loop; ephemerides, subframes
  and words on the air are renewed in an order that leaves one behind the other.
* **Numeric edges.** The word counter at the border of a frame, the count of the
  subframes and the week number at the end of a week, the last set of the array of
  ephemerides, the end of the ring.
* **Unreliable delivery.** RTCM frames are found in a byte stream that may begin
  anywhere and is cut anywhere; a byte of a payload may look like the beginning of a
  frame; the length of a frame is kept in a variable declared inside the loop over
  the chunks.

`PROJECT.json` lists each hazard at its line with the properties that cover it.

### What makes each component correct

* Pipeline: the radio plays the generated signal, gapless and in order; a block
  never overwrites what is not yet played; the pipeline stops only for reasons one
  can name; the whole trajectory is played unless a wakeup was lost.
* Channel allocation: satellites and channels are matched one to one at all times; only satellites in
  view are simulated; a channel stays empty only if it must; messages and
  pseudoranges come from the same ephemerides, up to a refresh.
* Navigation message: each bit sent is the one that is due when it leaves the satellite,
  across frames and weeks, and the word counter stays in the buffer.
* RTCM3 receiver: as long as it keeps the length of a frame from chunk to chunk, the buffer does not overrun, and from the first frame border that
  meets an empty buffer on every frame is found. (The code does not keep it: section 3.)
* RINEX reader: the sets do not overlap in time and none is empty before another; what is used was read whole; the
  simulation has a start whenever a record was read, and its current set keeps up with the time.
* Worker generator: neither side of the barrier touches what the other uses; the file is the signal, block by block; workers
  and main thread come to an end.
* Settings: what was picked and saved is stored, wherever the process ended; the generator uses what was saved; the app starts again. (None of the three holds of the code without exception: section 3.)
* LimeSuite streaming: what is pushed is what is transmitted, and nobody waits for ever.
* Sending over USB: a context is used again only when its transfer is over, the sender is told what was sent, and ends when told to.
* Event handling: no event is missed and none wakes the poll for ever; a handle is closed alone; a freed transfer is not
  used; synchronous transfers and closes return.

## 2. The modules

### `SimPipeline` and `SignalStream`

`SimPipeline` models `limeMain`, the loop of `runCore_realTime` around the ring, and
`tx_task_realTime`. The variables are the fields of `sim_t` (`head`, `tail`, `fifo`,
`ready`, the owner of `gps.lock`), a program counter for each of the three threads, and the state of
the two allocations. An action is one step between two accesses of shared state, so every
interleaving the code allows is one of the model. A sample is the number of its place
in the generated signal, so that a lost, repeated or exchanged sample is visible.
`produced` and `sent` are the history the properties speak of.

Decisions taken from the code and the build:

* `pthread_cond_wait` releases the mutex and sleeps in one step; a signal moves a
  sleeping thread to the reacquisition of the mutex, and is lost when nobody sleeps.
* `s->head += NUM_IQ_SAMPLES; if (...) s->head -= FIFO_LENGTH` is one store: the
  program is built with `-O3` (`app/CMakeLists.txt:7`) and nothing separates the two assignments.
* The build makes a library for every ABI. `WeakMemory` says whether the CPU may show the block of the
  GPS task after its `head` (ARM) or not (x86). A late block is visible before the next release of a mutex by its thread.
* `s->tx.lock` is only ever locked by `limeMain` and excludes nobody, so it is not a variable.
* A `Failures` constant says which calls may fail: allocations, creations of tasks, and the setup of the GPS task (which calls `exit(1)`).
* `start_tx_task` returns a positive error number, and `s.status < 0` does not see it:
  the model then goes to the join of a handle that was never set.

`SignalStream` is the abstract specification: a counter of generated samples, and the sequence of
those played, which grows by the next buffer of the signal. `SimPipeline`
implements it under `generated <- produced, played <- sent` (`PlaysTheSignal`).
The numbers of the abstract bound (`BlockSize + BufferSize` samples behind) come from the room test of the code.

### `ChannelAlloc`

`allocateChannel`, one action for each outcome of a turn of its loop over the
satellites (`Allocate`, `Drop`, `PassOver`), and the refresh: the words of all
channels are renewed from the subframes they have (`RenewWords`), then the next set
of ephemerides is taken when it is due and new subframes are made (`TakeNextSet`),
then the next pass of allocation begins. `sbfSet` and `dwrdSet` remember from which
set a channel's subframes and words were made. `eph[ieph+1]` is read whether there is such a set or not:
`MayBeValid` says what may be found there.

### `NavFrame`

The data of one channel: the buffer `dwrd` of six subframes (the last of the old
frame, then five), the reference time `g0`, the pseudorange of the last block, and what the channel
puts on the air in a block of a tenth of a second, in units of a fraction of that.
A word is its place and the two fields that depend on time: the count (TOW) in the
second word of each subframe, and the week in the third word of the first subframe.
The channel can be free, be given up and be taken again at every refresh.

### `RtcmStream`

`getRTCM3Eph` byte by byte. The peer sends frames back to back; the program may begin to
listen in the middle of one; chunks end anywhere; bytes of the payload and parity are arbitrary,
the preamble included. The buffer always holds consecutive bytes of the stream, so it
is represented by where it begins (`start`) and how many it holds (`i`). The parity is taken
to be perfect: it is good exactly for a whole frame. The variable `len` is
declared inside the loop over the chunks and read before it is set when a frame goes on in the next chunk: each
chunk may find in it what was there or any other value, and `kept` remembers whether a length was ever lost. `decode_rtcm3` takes the number 0
for a satellite, too, and stores its ephemeris in front of the array: the model keeps it in `stored` as number 0.

### `EphemSets`

`readRinexNavAll` record by record, and the loop of `runCore3` around the sets it fills. A file is a sequence of records
in the order of time, each a satellite and a time of clock, with any gaps; it may end between two records or in one.
The first line of a record sets the clock of its entry and perhaps begins a new set (`ReadEpoch`), the other seven fill the
orbit and set the flag (`ReadOrbits`). A file that cannot be opened leaves the flags as they were in memory and returns -1, for which no caller tests (`gpssim.c:855`, `3988`): the model is then `undefined` from the start. An entry tells whether its orbit is of the record of its clock, of an
older one, or was never read. Then the start of the simulation is the clock of the first valid entry (`Start`), the first set with a
satellite within an hour of it is chosen (`Select`), and each thirty seconds the next set is looked at (`Refresh`). A unit of time is one such refresh. The
header lines, the numbers of an orbit and a start time given by the user (the program gives none) are left out.

### `TxStream`

What is behind `LMS_StartStream`, `LMS_SendStream` and `LMS_StopStream`: `RingFIFO` step by step under its one
lock and its one condition variable, `Write`, `Start`, `Stop` and the thread handling of
`UpdateThreads`, and the transmit thread. The application is `tx_task`, which writes a file and stops the stream;
`tx_task_realTime` makes the same calls and never stops. A sample is its number, a packet of the ring the range of
samples left in it, and `Path` all that is on its way to the antenna, piece by piece: what the device has sent, its transfers, what the thread has popped,
the packets in the ring. A timeout is a step that may come whenever its
thread is asleep: how long anything takes is not modelled. Whoever returns from a timeout does not notify. A
packet popped in part (`first` moved on) occurs because writes are no multiple of a packet, as in the program
(100000 and 1360). Left out: the receive side, which is never started, flags and time stamps (`meta` is 0),
the registers that `UpdateThreads` writes, spurious wakeups (the wait would only be tested again).

### `WorkerBarrier`

`runCore2` and its workers. Each worker has a start and a stop mutex; the main thread locks both before the thread begins,
unlocks the start when the channels are set up for a block, writes the block before it meanwhile, and locks the stop, which the
worker unlocks at the end of its block. So one thread locks and the other unlocks; the mutex of Android's C library is a
flag that does not look at its owner, and is modelled as one. `prepared` is the block for which the channels are set up,
`computed[k]` how many blocks the carrier phases of worker `k` have gone through, and a worker's part of a block is
the pair of both: the block in the file is right if each part is. The creation of a thread may fail, and nobody looks at that. The end clears the flag and unlocks both mutexes; a
worker then computes one block more. `pthread_join` gets an address instead of a handle and returns at once with an error (what the
library does for a program that is built for API level 24, `app/build.gradle`), so a worker may still run when its memory goes:
`Stray` is that step, and what follows from it is undefined. The module implements `SignalStream` with blocks of one, as the real-time
pipeline does. The samples themselves are left out, and with them the code step that is taken from the wrong channel (`gpssim.c:1805`).

### `Settings`

`SqlController`, `Setting` and the parts of `MainActivity` that load and use the settings. A key has a sequence of rows in the
`table`; `static` are the static fields, which the end of the process resets. A value is the initial one, one of the `Others` of its key, or one of those the code
trips over: a coordinate or time that is no number (`NoNumber`), a text or path with a double quote (`Quoted`), the URI of a picked file that is too short or has no dot
(`Malformed`), a time that is too long for a trajectory from a file (`Long`) or for any (`Unusable`). What tells values apart is only which of these they are and whether they are equal.

* `Load` is one turn of `insertDataFirst`, which inserts a key that has no row and parses one that has; it throws at a coordinate that is no number (`LoadCrash`).
* The steps of `Save` are its statements of the database, between any two of which the process may be killed (`Kill`); Android then restores the screen on top (`Start`). The text of a
  coordinate is chosen when its statement reads it. `updateDB` puts value and key between quotes without a look at them, so that one of their own makes `execSQL` throw (`SyntaxError`), in the middle of a `Save` too.
* The row of the section is set under a key for which there is no row (`SaveSectionRow`, `Setting.java:109-115`): nothing happens, and the section is lost with the process.
* The swapped arguments at `Setting.java:100` are modelled as what they do: the row whose key is the trajectory shown is set, which exists only when that is the initial one, whose text is the name of the key.
* `Pick` stores the file in the table at once, or throws for a URI it cannot take apart or a path with a quote. A file with another extension is only told of.
* `Generated` returns to the main screen or ends the process: `runCore3` calls `exit(1)` for a duration below zero, above a day, or above 300 seconds with a trajectory from a file (`gpssim.c:3929`), and `Save` takes any number.

`died` says where an exception or an exit ended the process. `saved`, `savedSection`, `savedHere` and `loaded` are history: what was picked and saved so far (of a `Save` cut off, its texts up to there), the section
last told saved and whether in this process, and what was saved when the main screen was made. A time too large for an `int` is `NoNumber`.

### `UsbSending`

`TransmitPacketsLoop` once more, over `BeginDataSending`, `WaitForSending`, `FinishDataSending` and `AbortSending` of `ConnectionSTREAM`
and, below them, the bulk transfers of libusb: `libusb_submit_transfer`, `submit_bulk_transfer`, `libusb_cancel_transfer`, `discard_urbs`,
`reap_for_handle`, `handle_bulk_completion`, `usbi_handle_disconnect`, `usbi_handle_transfer_completion` and the callback. `TxStream` has
a device that takes every transfer; here a URB may fail, stall or be refused, the device may be unplugged, and waiting times out.
The kernel (`pending`, `ended`, `continuation`) is external: it hands a URB back when it was sent, failed or discarded, and either cancels
what continues a failed one by itself or does not (the two branches of `submit_bulk_transfer`). One that does takes no further URB of a transfer of which one has failed
(`EndedEarly`; the `EREMOTEIO` of `linux_usbfs.c:2024`), and such a refusal is no fault: libusb leaves the URBs before it alone. A URB carries one unit; the endpoint is OUT, so there are no
short URBs and no overflow. Which URBs are taken out of the queue is written with their positions (`Rank`, `Nth`, `Those`) and not with `SelectSeq`, whose definition is recursive.
Handlers that take the lock of the transfer are one step. `sent` and `owed` are history: units the device took, callbacks to come.

### `UsbEvents`

The event thread of `ConnectionSTREAMEntry` and the thread of the program in libusb: `libusb_handle_events_completed` with the
events lock, the waiters and the pipe; `handle_events` from the copy of the descriptors to the reaping of a URB; timeouts;
`libusb_submit_transfer` and `libusb_cancel_transfer` of the one synchronous transfer the program has at a time; `libusb_close`. Both threads run the same
actions (`Handling(t)`). A section under `event_data_lock` or `flags_lock` is one step. The locks of the transfer, of the list of flying transfers, of the handles
and of the waiters are held over several steps, and who holds one follows from where the threads are (`TransferLocked`, `FlyingLocked`, `DevsLocked`,
`WaitersLocked`). `handle_timeout` changes the flags without their lock, by a load and a store.
A run of the simulator (`BeginRun`) gets a descriptor from the system, enumerates (each time with a handle that is never closed, `ConnectionSTREAMEntry.cpp:207`),
makes a connection, and closes it, which closes the descriptor; another run follows in the same process, and may get the same
descriptor. The device answers or never does (`Answer`), and a timeout expires at any time. Left out: unplugging while events are handled, `EINTR`, the status of a transfer
that is answered and timed out at once, and the second `close` of the descriptor by the Java side.

### Proof modules

`SimPipelineProofs`, `ChannelAllocProofs`, `RtcmStreamProofs`, `EphemSetsProofs`, `WorkerBarrierProofs`, `UsbEventsProofs`, `SettingsProofs`, `TxStreamProofs`: section 4. `ChannelAllocProofs` also holds the proofs about `NavFrame`,
which it extends beside `ChannelAlloc` (the channel whose message `NavFrame` models is one of those `ChannelAlloc` gives), and `UsbEventsProofs` those about `UsbSending` (the event thread
is the same in both, and so is libusb). The names of the two modules that are extended together differ, hence `NavSpec` and `SendingSpec`; they share no variable, and no theorem speaks of both.

## 3. The runs

| Run | What it asks | Expected |
|---|---|---|
| `pipeline_wrap` | blocks of 2, buffers of 3, 6 blocks, nothing fails: reads wrap around the ring and fill a buffer in several rounds | pass |
| `pipeline_faults` | every call may fail and stores may be late | pass |
| `pipeline_read_wakeup` | "Wait utill FIFO write is ready" ends | violation |
| `channel_alloc` | 4 satellites, 2 channels, an array of 3 sets of which 2 were read | pass |
| `nav_frame` | 2 subframes of 3 words, weeks of 2 frames, week numbers modulo 2, over more than two weeks | pass |
| `rtcm_stream` | 3 frames, all bytes, all cuts, `len` kept or lost at each, the satellite number 0 | pass |
| `worker_barrier` | 3 workers and 3 blocks, any thread perhaps not created | pass |
| `tx_stream` | 3 writes of 7 samples through a ring of 2 packets of 3, a timeout at any moment, 2 transfers | pass |
| `ephem_sets` | every file of up to 5 records of 2 satellites, whole or cut off, and four hours of simulation | pass |
| `settings` | another file, another latitude, two trajectories, and every value the code trips over; every start, screen, pick, `Save`, exception, exit and kill | pass |
| `usb_sending` | 2 buffers, 2 contexts, transfers of 2 URBs, one fault at any moment, stopped and started again | pass |
| `usb_events` | 2 runs in one process over 2 descriptors, each an enumeration and a connection | pass |

**Bounds.** The ring holds two blocks. Blocks of two samples and buffers of three (the shipped sizes are equal, a simpler case) reach every relation of
head and tail (empty, partly read, a buffer across the end of the ring, a buffer across two blocks), and six blocks of two against buffers of
three bring the ring around three times and back to the relation it began with. In `ChannelAlloc`
two channels for four satellites are the least with which all channels can be taken while two satellites
wait, one before and one behind the satellite that gives its channel back; three sets in the array, two of them
read, let the current set change, come to the last one that was read and look at one that was not. In `NavFrame` a
subframe needs its third word for the week number, two subframes a saved one that is not the
first; two frames make a week and the week number wraps after two. A tick has three units so that
the delay (1 or 2) can grow and shrink. In `RtcmStream` the buffer is exactly as long as the longest frame;
lengths range over two of the four values a header can have, so that a false header can be
shorter or longer than any frame; with two places in `eph[0]`, satellite 3 is out of range. In `WorkerBarrier` three workers
are the shipped number; in three blocks there is one that is both computed and written while its neighbours are written and computed, and one that is never
written. In `EphemSets` an hour has two units and
gaps go up to three, so that a record can come exactly an hour after the first of its set, just more, or later; two satellites let one come again in its
set; three sets and five records fill the array and go on behind it; the run of eight units passes all sets. In `TxStream` a write of seven
samples takes three packets and the ring holds two, as 100000 samples take 74 packets and the ring holds 64, and its last
packet is a short one; three writes leave room for a timeout, an underflow and a restart in each. In `Settings` (`MCSettings`) one CSV
file and one latitude stand for the keys that are picked and typed, of which each is handled like the others; two trajectories let one be shown while another is saved, and are interchangeable (symmetry); the state is finite without a bound. In `UsbSending` two URBs are the least for which
one can fail before, in or behind the other; two buffers and two contexts the least of which one is waited for while another is begun; two transfers begun let a
context be used again. In `UsbEvents` two descriptors let the second run get the one of the first or another; one enumeration in a run leaves a
handle open, and two, as in the code, give no other result (half a million states, checked once).

**Fairness.** `SimPipeline`, `TxStream`, `WorkerBarrier`, `UsbSending` and `UsbEvents` have liveness properties. In `UsbSending` the transmit thread and the event thread are weakly fair; nothing obliges the device, the user or the application to do anything. In `UsbEvents` each thread is scheduled and time passes, the device owes nothing; a thread that broadcasts to the waiters gets their lock some time (strong fairness of `Broadcast`), since the other one holds it for two reads only and then sleeps, up to a quarter of a second. `Settings` assumes none. In `WorkerBarrier` the main thread and each worker
are weakly fair; a mutex is only ever waited for by one thread, which gets it once it is unlocked. In `TxStream` the two threads and the device are weakly
fair: every wait has a timeout, so a sleeping thread runs again, and no thread can hold the lock of the ring for ever
because it pops no more than was pushed. In `SimPipeline` each of its three threads is weakly
fair (a thread that can run is scheduled; none of them holds a lock for ever while it
can run), a late store reaches memory, and spurious wakeups, which POSIX allows and nothing causes, end at some time: with
infinitely many of them no wakeup would ever be missed. No fairness is assumed for a sleeping thread.
`CHECK_DEADLOCK FALSE` is said where the system really stops: the trajectory of the pipeline ends, the receiver returns, the generators and the
scenario of `NavFrame` have an end. `ChannelAlloc` runs for ever and is checked for deadlock.

**What passes and what it shows.** Within the pipeline, despite the missing lock, what is played
is the generated signal (`PlaysTheSignal`): the room tested for under the lock can only grow until it is
used, because one thread only moves `head` and the other only `tail`. With late stores that is all that remains true,
and a wrong sample is read only while its block is on the way
(`WrongSampleOnlyWhileBlockLate`). The pipeline stops only when `limeMain` has returned, the GPS task never became
ready, the trajectory is played, or one of two wakeups was lost
(`StopsOnlyWhereExplained`, over all interleavings; `BlockedOnlyWhereExplained` says the same with the guards spelled out, and is proved). `ChannelAlloc` shows that the tables are inverse to each other at every turn of the loop, and that words are at most one refresh behind. `NavFrame` shows
that the warning at `gpssim.c:3573` need not be given: the index stays in the buffer with the delay changing in either direction in the block before and after a
refresh. `RtcmStream` shows that a false preamble delays the receiver but does not by itself overrun its buffer, and that a receiver in step stays so, as long as no chunk
loses it the length of a frame (`kept`, `synced`). With the indeterminate length of `getRTCM3Eph.c:293` it may fall out of step, and its buffer may run over: TLC reaches the overrun, and all three properties are stated up to such a loss. `WorkerBarrier` shows that the two
mutexes are enough while the generator runs, also though a refresh changes the channels, and that a worker that strays into freed memory has done all blocks that were asked for.
`Settings` shows that a first start or a `Save` that ends between two statements, for whatever reason, is made good by the next start, and that a start fails only of a coordinate that was saved and is no number, after which
the app cannot be started any more (`StartFailsOnlyOfText`); that the table has what was picked and saved (`SavedIsStored`); and which values the generator gets (`GeneratesAsSaved`). The last two are exact, and so
also say where "Update success" (`Setting.java:117`) promises too much: a section told saved is the CSV file again after a restart, files, coordinates and trajectory reach the generator only when the main screen is made anew,
and a trajectory that is shown but older than the one picked last is not stored. `UsbSending` shows that a context that is done has no URB with the kernel and no callback to come, that the sender is told
what the device took, and that it waits in vain only after a refused URB, a stall, the loss of the device or an abort that gave up, and ends even then when told to. `UsbEvents` shows that the pipe
matches what is pending although it is filled in three places of the code and emptied in three; that `do_close` may unlock the events lock half way because it is recursive; that a timeout and a completion never meet on
a freed transfer; that the second look of a waiter is needed and enough; and that a close gets its lock. A synchronous transfer returns, but for three exceptions, each of which TLC reaches
and each of which is needed: the lock of the transfer and that of the list are taken in both orders, by a submission that is refused and by a timeout (`LocksCross`); the flags stored by a timeout undo
`IN_FLIGHT`, and nothing is cancelled (`FlagLost`); and a closed descriptor is still polled (`DeadFd`): after the first run in a process the
handle of its enumeration is still there, and the error of reaping it ends the loop over the descriptors before the live one is reached.
That `getRTCM3Eph` returns 1 in every case, and the message "ERROR: No ephemeris available." (`gpssim.c:3261`) is never given, can be read off `RtcmStream`.

**What is violated** is in "findings" of `PROJECT.json`: a lost wakeup, against the comment that the wait for the ring ends.

Other disagreements between code and comments that the models show, without a run of their own:

* a writer that waits for room in the FIFO does not "give pop_samples the thread context" (`fifo.h:80`): it has not notified, and both wait until one times out (`TxStream`);
* the count of a saved subframe does not wrap at the end of the week, so the check "Invalid TOW in subframe 5" (`gpssim.c:1571`) would find it different (`NavFrame`);
* a file with more sets than the array is counted as one set more than the array has (`gpssim.c:1186`, `EphemSets`);
* "Update success" is shown though the section is not stored, an older trajectory that is shown is not stored either, and what was stored of files and coordinates reaches the generator only when the main screen is made anew (`Setting.java:117`, `Settings`);
* with three URBs, a kernel without bulk continuation hands the last discarded URB of a stalled transfer back first, and the transfer is reported while another is to be reaped (the first conjunct of `ReportedAfterLastUrb` excludes it), against "wait for their completion before reporting results" (`linux_usbfs.c:2435`; `UsbSending` with `NumUrbs = 3`).

Each property of a passing run has a mutant: a plausible slip in one definition of the model (an
off-by-one in the room test, an `if` instead of a `while`, a flag not cleared) that makes TLC find the property violated.

## 4. The proofs

All theorems hold for every value of the constants under the named assumptions (`ConstantsAssumption`, `ValuesDiffer`,
`SizesAssumption`, `FrameAssumption`, `StreamAssumption`, `EphemAssumption`, `BarrierAssumption`, `EventSizes`, `StreamSizes`, `SendingSizes`), which TLC evaluates in every run. Most
of them say that sizes are positive numbers and that model values differ; the others are named where they are used below.

* `SimPipelineProofs`. The invariant `IInv` says, beside types, who owns `gps.lock`
  for each program counter; that the GPS task has room for a block from its test until it publishes the block (`Control`: the part that
  makes the unlocked copy safe, since only the TX task changes the length meanwhile, and lowers it); that
  `get_sample_length` is the number of samples produced and not taken; and that the unread slots hold the samples that come
  next, once the late block has reached memory (`Contents`, over `Memories`; at most one block is late, `OneLateBlock`). `SignalInOrder` alone is not inductive: what
  will be read depends on what is in the ring. `Progress` says that a GPS task that sleeps has no room or is about to be told that it has, and that the TX task
  starts when `ready` is set; `Leaving` how `limeMain` gets to its end.
  From `IInv` follow `TypeOK`, `LengthIsUnread`, `NoUnreadOverwritten`, `ReadFindsData`, `SignalInOrder` (without
  `WeakMemory`), and the refinement `PlaysTheSignal`: only `GpsPublish` and `TxSend` are steps of
  the abstract stream, all others stutter. Also follow, with late stores, `WrongSampleOnlyWhileBlockLate`, since in the memory without a late block every
  slot that is read holds its sample; `FreedInUseOnlyAfterTxFailure`, from `Leaving`; and `BlockedOnlyWhereExplained`: with every thread over or asleep, the two
  lost wakeups, the end and the failed start are all that is left, because the GPS task's sleep is not among them.
* `ChannelAllocProofs`. `IInv` generalises the properties of the end of a pass to
  "the satellites visited so far" (`Loop`), for any number of satellites, channels and sets; in the middle of a refresh the words of a channel are
  those of the subframes before it, at the end both sets differ by one at the most.
  For `NavFrame`, `NavIInv` says that a channel in use refers to a frame: its reference time `g0` is the start of the frame, its last pseudorange lies in it (`InFrame`), and
  its buffer holds the words of that frame and, in front, the last subframe of the one before, with counts that do not go beyond the week (`Holds`). `WordsOnTime` is inductive only with it, since a
  refresh copies and renews the buffer for samples that come later. `FrameAssumption` asks that a frame is a whole number of seconds, as it is in the
  code (30 s): `generateNavMsg` rounds the time to seconds before it counts subframes. The theorems hold for all lengths of words, subframes, frames and weeks, and
  show also that the word counter stays in the buffer (`WordInBuffer`): the warning at `gpssim.c:3573` need not be given.
* `RtcmStreamProofs`. `OverrunExplained` says that the buffer runs over only after a length was lost and before the receiver is in step again, `StaysInStep` and `NoFrameMissed` what holds until a length is lost; none says that
  none is lost. `TypeCorrect` says that nothing is stored behind the row of the array, also for the number 0, whose ephemeris is stored in front. `IInv` adds to `InStep` that `len` is the length in the header that the buffer begins with
  (`Length`) and that a buffer that begins with a frame holds that frame's bytes (`Contiguous`), so that the
  parity is good at the right byte. The buffer needs no more than the longest frame, `HeaderLen + MaxLength + ParityLen`:
  1200 bytes are enough for 3 + 1023 + 3.
* `EphemSetsProofs`. `IInv` says of the sets while they are filled that the one being filled lies between `g0` and an hour
  later, the ones before it before `g0` (`Filling`), that none before it is empty (`NoneEmpty`), and that sets that are not neighbours are more
  than an hour apart (`Apart`). The last part is what `KeepsUp` needs: a refresh moves on by one set only and looks at the
  first satellite of the next one, so without it the set behind the next might be due already. `SetsApart`, `SetsContiguous`, `WholeUnlessCut`, `KeepsUp`
  and `StartsUnlessNothingRead` are theorems, for every file.
* `WorkerBarrierProofs`. `IInv` follows the two mutexes of each worker (`Handshake`): a worker that is not released waits, with both locked and
  its last block delivered; one that is released is before, in or behind its block. A worker that was not created keeps its stop locked, so no
  block is ever written (`Missing`). At the end a worker has done all blocks or one more, and has seen the flag in the latter case (`Farewell`). The refinement
  `WritesTheSignal` has two steps that do not stutter: `Sum` generates a block and `Write` plays one.
* `UsbEventsProofs`. `IInv` says what each place of a thread means: where the program has a transfer and where it is closing (`Phases`), who has the events lock and how
  often (`Owners`), and what is true of the transfer while somebody reaps it or handles its timeout (`Worked`); with the two properties that are inductive with it,
  `PipeMatchesEvents` and `SleeperIsWoken`, it is kept by each of the 46 actions. `ClosedAlone` follows from the depth of the lock while the
  program closes, `TransferAlive` from the phases and from who may still have the URB. Nothing depends on the number of descriptors, runs or enumerations.
  For `UsbSending`, `SendingIInv` is kept by each of its 27 actions, for any number of contexts, buffers, URBs in a transfer, transfers and faults (`SendingSizes`). Its parts:
  `LoansIInv` says whose the contexts are at each place of the transmit thread: in the loop they are those of the buffers, one to one; while a transfer is submitted its context
  has no buffer yet; an abort releases them from the first on, so that none is left when the thread ends. `ContextsSuffice` is its first part. With at most as many buffers as contexts
  (the code has 16 and 64) it follows by counting that a free buffer always finds a free context (`BeginFindsContext`): the return for want of a context (`ConnectionSTREAM.cpp:669`) is never taken, and
  only a refused submission leaves a buffer without a handle. It is inductive by itself; the other parts use it.
  `UrbsCounted` is the account of the URBs. The URBs that ended, followed by those that are pending, are the line in which libusb will reap them (`Line`). Of a transfer that is under way every URB the kernel took
  is retired or stands in the line once, and its unit is in `transferred` or will be; of any other transfer there is none. While nothing went wrong (`reap_action` is normal) the URBs stand in order, and the last one is still in the line:
  without that, the handler's test for the last URB (`linux_usbfs.c:2416`) would say nothing about the others. `ReportedInFlight` and `NotYetInFlight` tell which of the two cases a transfer is in from its flags.
  `Lives` ties the context to its transfer: in use and not done as long as the transfer is in flight or its callback runs, over afterwards (`Life`); the context of a stalled transfer stays in use for ever (`StallStays`), since the callback
  does not finish it; one that is done has been told what was sent (`Over`). It stops to hold once an abort has given up on a context, which is then begun again while its old transfer is alive. `FinishIsDone` and `Troubles` say when a context
  is finished and what may be the reason that one is not.
  A kernel without continuation and three URBs or more break the order: see section 3. So all this is claimed of a transfer that is `Trusted`: any one if the kernel continues or there are two URBs at most, else one that has not stalled, as long as no abort gave up.
  A stalled context is never done, so that `DoneMeansOver`, `ReportedIsSent` and `StuckOnlyWhereExplained` hold for every kernel and every number of URBs; `ReportedAfterLastUrb` needs the condition, and has it.
  The lemmas in front are about positions in a queue (`Ranks`, `Moved`: URBs taken out of one queue and put behind another keep the account, and keep the order if they go in it), then come the effects of each action, then one lemma for each part.
* `SettingsProofs`. `IInv` says that a key has at most one row (`OneRow`) and that only those of coordinates hold what is no number (`Numbers`), which rows are there at which screen and that a key without a row has its
  initial value (`Present`: this is why a start that ended between two keys is made good), that a trajectory never has the name of another key (`Named`: without it the swapped arguments would set another row), what each row
  holds in the middle of a `Save` (`Stored`), and how the fields agree with the rows while they are loaded and with what was saved then (`Agree`). `StartFailsOnlyOfText` is inductive with it (`StartsAgain`); `SavedIsStored` and `GeneratesAsSaved`
  follow (`SavedStays`, `GetsSaved`). Crashes and exits are steps like the others: `GoneKeeps` says what the end of the process leaves. The proof holds for any other values of the keys (`ValuesDiffer`).
* `TxStreamProofs`. `InOrder` and `NothingLost` speak of all that is on its way, and need to know what each step leaves where it is. `IInv` says who holds
  the lock and whether `txRunning` tells the truth (`Owners`: the thread that ends by itself clears the flag, and the next write makes a new one only then), where samples may be and when
  a side has given up (`Control`), that the packets in the ring lie behind each other from `mHead` to `mTail`, none of them empty (`RingInOrder`), that all that was popped
  is increasing and before all that is in the ring (`PoppedInOrder`), and that while nobody has given up every number below `Pushed` is in one of the four places (`AllThere`).
  The lemmas in front are about the ring: which slot the k-th packet has after a push, a pop, and a pop of a part of a packet, modulo the size of the ring. The proof holds for
  every size of packet, ring and write (`StreamSizes`); the masks of the code are remainders, because `SetupStream` makes the size of the ring a power of two, and the proof needs no more than remainders. From `Owners`
  also follow `StoppedMeansEnded` and `NewThreadAfterOld`, the part of the shutdown no run asks for.

`IInv` of each module was also checked with TLC before it was proved; the runs check the properties that follow from it.

**Only model-checked**: the liveness properties (`DeliveredUnlessWakeupLost`, `AppCompletes`, `EverybodyEnds`, `CancelledIsReported`, `TxEnds`, `SyncReturns`, `CloseReturns`), and
`StopsOnlyWhereExplained`, which uses ENABLED: both are out of reach of this prover. For the latter the difference to the theorem is one formula: that
`AllBlocked` is `~ENABLED (MainStep \/ GpsStep \/ TxStep)`, which TLC found to hold in every state of both pipeline runs. Every other
invariant and action property of the passing runs is a theorem.

## 5. What is left out, and why

* Floating point (orbits, ranges, gains, carrier phase), the text of RINEX, CSV and NMEA files: TLC has no
  real numbers, and the results are not control. Delays are inputs instead.
* The parity and most contents of navigation words and of ephemerides: no property tells them apart.
* Vendored drivers, SQLite and the INI parser: hardware access and libraries. They are most of the lines of the repository.
* Of libusb: descriptors, configurations, the scan of the bus, isochronous transfers, and the older copy, which is not compiled. Of LimeSuite: the receiving side, the
  packets of the LMS64C protocol, the register access of the chip drivers.
* The tick thread (nothing calls it) and the dialog for the USB permission (the system's).
* What is overwritten when an ephemeris is stored in front of its array (an RTCM message for number 0) or a byte behind the buffer of the receiver: the former is noted as such, the latter ends the model.

## 6. Plan

Done: `SimPipeline`, `SignalStream`, `ChannelAlloc`, `NavFrame`, `RtcmStream`, `EphemSets`, `TxStream`, `WorkerBarrier`, `Settings`, `UsbSending`, `UsbEvents`, and the proofs of all
of them. Next, in this order:

1. `TxStream` composed with the TX task of `SimPipeline`, and an abstract specification of it: an ordered stream that may skip.
2. `UsbEvents` with the asynchronous transfers of `UsbSending`, and unplugging.
3. Pure algorithms against reference definitions: calendar and GPS time, parity of a word, C/A code, CRC framing.
