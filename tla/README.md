# Verification of the USB A/D converter: driver and firmware

The repository holds a Linux driver for a USB A/D converter
(`src/DriverSource`) and the firmware of the device
(`src/Firmware_and_python_driver/wz_adc22/firmware_source`). The driver
receives one stream of samples of all channels and deals it out to several
programs, each with its own frequency, channels and packet size. The
requirements are a letter, `src/Documentation/Wymagania_list.txt`.

This directory holds TLA+ models of both, TLC configurations and proofs
checked by TLAPS. `PROJECT.json` lists the runs, the mutants that show that each
property can fail, the source lines of every definition, the findings and the
hazards.

## The system

| Part | State | Operations | Hard because | Correct when |
|---|---|---|---|---|
| Client buffer (`client_buffer.h`) | rows, `curr_pos`, `curr_pos_times_added`, `full` | `buffer_init`, `buffer_write`, `buffer_copy_to_user`, `remove_buffer` | written in interrupt context, read by a thread, no lock in common | a packet is whole |
| Client (`client.h`, `usb-ad.c`) | two buffers, `use_first_buf`, `warning`, `loops_after_warn_count`, wait queue | body of `ad_read_bulk_callback`, `IOCTL_GET_DATA` | both buffers change hands through flags; threads sleep without the lock | rows gapless, in order, once; a slow program is warned, then removed |
| Client table (`usb-ad.c`) | `gpClients_array`, `io_mutex`, `ioctl_active_count`, `exiting` | `ad_ioctl`, the walk of the callback, `ad_delete_internal`, `ad_disconnect` | callback and threads both remove clients; deletion waits for sleepers | one client per program, no dangling pointer, device outlives calls, deletion ends |
| Device life cycle, module load and unload (`usb-ad.c`) | `open_count`, `running`, the URB, `interface`, `exiting` | `ad_open`, `ad_release`, `ad_flush`, `ad_initialize`, `ad_do_read_io`, suspend, reset, probe, disconnect | the URB chain restarts itself in the callback; failures in the middle | data flow while someone has the device open, and only then |
| Firmware ring (`adc.c`) | ring of frames, `adc_in`, `adc_out`, overrun and sampling flags | `adc_interrupt`, `adc_dispatch`, `adc_init/start/stop` | interrupt against main loop, 8-bit arithmetic | frames whole, in order, numbered; overrun reported |
| Endpoints 1 and 2 (`ep1.c`, `ep2.c`, `usb.c`) | buffer descriptors, data toggles | `ep1_out`, `prepare_ep2_in`, `ep2_in`, `fill_in_buffer` | answers and data share endpoint 2 | every armed packet is accepted by the host |
| Endpoint 0 and bus events (`ep0.c`, `usb.c`, `usb_descriptors.c`, `boot_main.c`) | device state, configuration, address, buffer descriptors, `SetupBuffer`, `ep0_state` | standard requests, stages of a transfer, reset, stall | the SIE works on while firmware handles the last event; what was received is read off a descriptor that may have been handed out again | requests executed once, data stages exact, device and host agree, transfers end |
| Arithmetic of sampling (`constants.h`, `client.h`, `adc.c`) | - | `usb_ad_fq`, `round_div`, `init_client`, `choose_bytes`, `adc_init` | two counts of the same channels on both sides, a product of sizes in an `int` | a client gets the channels it asked for, and buffers that have rows |
| Flash (`flash.c`), user program, Python script | - | - | - | - |

They interact like this. The device interrupts itself for each conversion and
fills the ring; its main loop sends whole frames through endpoint 2. The host's
URB completes, `ad_read_bulk_callback` runs in interrupt context, stores the
sample into a buffer of every client, wakes the clients whose buffer is full
and submits the URB again. Threads of programs call `ad_ioctl`, which takes
`io_mutex`, but sleeps, and in places reads the table, without it. Commands go
out on endpoint 1 and are answered on endpoint 2, between the data.

## Modules

| Module | What it is |
|---|---|
| `ClientBuffer` | the buffer as a record and its operations; no state of its own |
| `ClientChannel` | one client: the callback and the threads in `IOCTL_GET_DATA`, one action for each access the other side can see |
| `SampleStream` | the promise to a program: the rows it gets, as long as nothing has gone wrong |
| `ClientChannelProofs` | theorems about `ClientChannel` |
| `ClientTable` | all clients: `ad_ioctl`, the callback's walk over the slots, deletion of the device |
| `ClientTableProofs` | theorems about `ClientTable` |
| `Sampling` | frequency, divisor, sizes and channels as operators; used by `ClientTable` |
| `SamplingProofs` | theorems about `round_div`, `usb_ad_fq`, `init_client`, `adc_nchans` and `choose_bytes` |
| `Arithmetic` | lemmas on products, quotients and remainders that the proofs share |
| `DeviceLifecycle` | the device in the driver: every entry point but the clients' data, the URB, and what is left of the converter |
| `DeviceLifecycleProofs` | theorems about `DeviceLifecycle` |
| `AdcRing` | the firmware: interrupt, main loop, commands, endpoint 2, reconfiguration, and a polling host |
| `FrameQueue` | the promise of the firmware: a bounded FIFO of frames |
| `AdcRingProofs` | theorems about `AdcRing` |
| `AdcRingRefinement` | `AdcRing` implements `FrameQueue` |
| `UsbControl` | the firmware: control endpoint and bus events, the SIE, and a host |
| `UsbControlProofs` | theorems about `UsbControl` |
| `MC...` | small instances for TLC |

### ClientBuffer and ClientChannel

A row is represented by the number of the sample it holds, 0 for zeroed memory;
channels and bytes are left out. With `avg_divisor > 1` the code keeps the first
sample of each group ("poki co wpisuje pierwsza wartosc i wcale nie usrednia"),
and so does the model. `curr_pos_times_added` is not reset when a buffer is
read, as in the code.

The callback is cut where a thread can interfere: entry with the countdown of a
warned client (`CallbackEnter`), removal (`CallbackRemove`), test of the first
buffer (`CallbackSelect`), of the second (`CallbackSelectSecond`), then
`buffer_write` (`CallbackWrite`, `CallbackRefused`) or the warning
(`CallbackWarn`). `buffer_write` itself is one step: a thread touches the buffer
only when `full` is set, which is the last thing `buffer_write` does.
`IOCTL_GET_DATA` is cut at every access that it makes without a lock shared with
the callback, including the three parts of `buffer_copy_to_user`: copy, the two
stores that give the buffer back, memset. `GetDataRelock` keeps `io_mutex` when
the client is gone, as lines 790-796 do.

A thread that follows `gpClients_array[i]` after the removal is left in `"oops"`;
the callback's use of the client it has just freed is recorded in `fault` and has
no other effect in this model, which ends with the client; what it does to others is
in `ClientTable`. A call with bad pointers changes nothing and is left out here.

`stream`, `mishap`, `waited` and `fault` are history variables. `mishap` names
six events that break the stream:

- `dropped`: both buffers were full;
- `overtaken`: a first buffer fills while an older second one is unread, and
  `IOCTL_GET_DATA` looks at the first one first;
- `strayed`: the two tests of the callback straddle a read, the sample goes to
  the wrong buffer;
- `crossed`: the two tests of `IOCTL_GET_DATA` straddle a write, the younger
  buffer is taken;
- `wiped`: the memset comes after the callback's next row;
- `copy_fault`: `copy_to_user` fails and the buffer is cleared all the same.

`StreamSpec` says that without one of them the rows are exactly
1, 1+d, 1+2d, ... for d = `avg_divisor`. Each of the six is needed: with any one
of them left out of `mishap` TLC finds a counterexample.

### ClientTable

Clients are addresses, so that a pointer to one can dangle, and `kmalloc` hands out
any address that is free, whoever still points to it (`Allocatable`). Of the two
buffers only the number of full ones is kept; a sample that is stored may or may not
fill one. Threads go through the whole of `ad_ioctl`: finding the device, being
counted under `ioctl_count_mutex` (one step, nothing else happens under that
lock), the lookup under `io_mutex`, `IOCTL_SET_PARAMS`, and `IOCTL_GET_DATA` with its
unlocked part. `SET_PARAMS` takes the old client out of its slot
(`SetParamsTakes`), frees it (`SetParamsFrees`) and inserts the new one
(`SetParamsInsert`) in steps of their own. A thread in `GET_DATA` sleeps on the queue of
the client now in its slot, and is woken by a `wake_up` on that queue only; awake, it
looks at its slot again, and may move to the queue of another client or follow NULL
(`GetDataWoken`).

The callback fetches the pointer (`CallbackFetch`), judges the warning
(`CallbackJudge`), and stores or warns. If it removes the client it stores NULL into
the slot (`CallbackClear`) and frees the pointer it has fetched (`CallbackFree`), and
threads can come between any two of these steps. So the store may hit a client that
`SET_PARAMS` has put there since, and the free one that is freed already, or that has
been allocated at that address since.

What freed memory holds is anything (`Seen`): the callback may find a warning in it, a
thread looking for its pid may find it, `ready_for_input` may be 0
(`CallbackSkips`). What is written to it is nobody's (`Put`), a `wake_up` on a queue in
it finds the sleepers or not, and `init_waitqueue_head` for a new client at that
address forgets them.

`twice` is history: handler and thread have removed the same client, each with the
pointer it had read. From then on a slot may point to freed memory and `kmalloc` may
hand out an address twice. No lock keeps them from it, so `TableIsSound` and
`SlowClientSettled` hold until then.

`ad_delete_internal` sets the flag, wakes slot by slot, waits, frees the clients that
are in the table. It is called by the callback on `E:OVERRUN`, or by `ad_disconnect`,
before which the USB core has ended the URB and its handler; `ad_disconnect` after a
deletion by the callback finds no table (`DisconnectAgain`).

`flow` says that packets come. `ad_initialize` may set it (`DeviceLifecycle` has when
it does), and it may end at any time (`FlowStops`): `ad_release` clears `running`, a
flush, a suspend or a reset kills the URB, a submission fails.

A client has its channel flags. `Sampling` computes from them, and from the size
of the packets the converter makes of the channels `ad_initialize` sends, whether
`choose_bytes` fails: it does for a flag that is neither 0 nor 1, which
`init_client` counts. The callback then gives up at the slot (`CallbackGivesUp`), as it may
for freed memory, whose flags are anything. The runs have clients with proper flags only.
`MCClientTable` states this, and what the other operators of `Sampling` compute,
as assumptions over bounded inputs that TLC evaluates with each run.

Abstracted: `kmalloc`, `init_client` and `access_ok` may fail whenever they are called.
Three places are one step although the code has several instructions there.
Reading the pointer and emptying the slot in `SET_PARAMS` (707-708): the callback's
store of NULL in between changes nothing for either, its fetch in between is the same
as one before. `kmalloc`, `init_client` and the store (711-727, 687-703): nobody but the
thread has the address, and what the callback does with an older pointer to it
can come before or after. A test of `gpClients_array[i]` and the access right
behind it, in one expression.

### DeviceLifecycle

Each open file has one thread that opens it, calls `SET_PARAMS` and `GET_DATA`,
duplicates and closes it; the USB core calls `ad_probe`, `ad_suspend`, `ad_pre_reset`,
`ad_disconnect` and the exit of the module one at a time (`core`). The calls are
cut where they block or where they give something away: locking `io_mutex`, each
`usb_bulk_msg` (one step to send, one to get an answer, both may fail), setting
`running`, submitting the URB, waiting in `usb_kill_urb`, and in `GET_DATA` sleeping
without `io_mutex` (`"asleep"`) and locking it again (`"relock"`). Finding the device and
being counted are one step here; the race between them is `ClientTable`'s.

The clients are `ClientTable`'s too, but what a call does to `io_mutex` and to the
count is here: `SET_PARAMS` may remove clients (`SetParams`, `InitializeStarts`) and so may
the callback (`CompletesUrb`); `robbed` holds the calls of `GET_DATA` whose client is
gone. Such a call may wake (another client of the slot has a buffer), sleep on,
follow NULL (`GetDataCrashes`), or return with `io_mutex` locked (`GetDataKeeps`, lines
790-796), which `kept` records. A call that is not robbed is taken to be woken when
the device goes, for which `DeletionGoesOn` of `ClientTable` is the reason. `ad_probe` goes
on when the table cannot be allocated (`ProbeEnds`); the first call then crashes.

`reads` is the queue of transfers for endpoint 2, the URB and the answers that
threads wait for; whoever is first gets the next packet, data or answer. The
completion handler is three places: `finish` (resubmit if `running`), `delete`
(E:OVERRUN) and `oops` (no table). Of the converter there is left what decides
which packet waits on endpoint 2, or that none does: sampling, the interrupt, the
overrun flag, frames left in the ring, a stalled endpoint 1. A reset is assumed
to last longer than a turn of the firmware's main loop.

`past` is history: what has gone wrong for which the code has no remedy. The
properties name these events as exceptions, and each exception is needed.
`dev->errors` and the value that `close` returns are left out. An answer that
overwrites an armed packet loses both here; why is `AdcRing`'s subject.

### AdcRing

Bytes are stored and copied in pairs, so the ring is counted in pairs of bytes;
a frame is a header with the number of the record, and one sample per channel.
`adc_buf_ptr` is an unsigned char, `PointerPairs` pairs (128 in the code).

`ADC_CONF` accepts any list, also one whose first channel is over 15. `adc_init` then
counts no channels (`Empty`), slots have one pair, and every conversion ends a frame:
it stores a sample and a header, two pairs, while `adc_in` advances by one. The
pointer leaves its slot with the first conversion and later the ring. The model goes
on as the code does; a store behind `adc_buf` changes nothing that is modelled, though in
the chip it hits other variables. What is said of frames is said of lists with a
channel; the packets made of an empty list begin with a sample instead of `'D'`.

`CopyPair` is one turn of the loop in `fill_in_buffer`, and the interrupt can
come before each, also between `adc_out++` and the test that wraps it. There at
most one conversion ends: two instructions are much shorter than a conversion.
A command is one step, arming its answer another. The host polls endpoint 2 and
throws away a packet whose data toggle it does not expect; it sends a command
only after it has taken the answer to the last one, which the driver and the
script do, but for the answer to `ADC_START`: the driver leaves it to the URB
(292-293), which a flush may kill before the stop command. A bus reset or another configuration disables the endpoints
(`Deconfigure`), and `SET_CONFIGURATION` initialises them again (`Configure`), at
any time between two turns of the main loop; the ring goes on meanwhile.

`FramesSpec` maps the ring to `FrameQueue`: the queue is the frames between
`adc_out` and `adc_in`, and the last frame handed over is the one found in the
packet, if it is whole and has the right number; an empty list is a queue
without room. `FrameQueue` lets all waiting
frames vanish at an overrun, because that is what `adc_in == adc_out` amounts to
when no copy is in progress.

### UsbControl

The SIE accepts and sends packets by the buffer descriptors that firmware hands
to it, puts each transaction in a queue of four (`USTAT`), and stands still after a
SETUP packet until `PKTDIS` is cleared. `dispatch_usb_event` is cut at each test
of an event flag, and `ep0_setup` between clearing `PKTDIS` and handing over the
descriptors; everything the host does can come in between. The host enumerates,
asks for descriptors of every length, resets the bus at any time, gives up a
transfer for another (`past.abandoned`) or starts one before the firmware has
looked at the end of the last (`past.hasty`). A host that does neither until the
next reset is orderly, and the properties that only hold for it say so; each
exception is needed. Requests the code accepts without doing anything are
represented by `GET_STATUS` and `CLEAR_FEATURE`, refused ones by `"unknown"`. The code
sends no bytes for `GET_STATUS`, and `DataStageExact` takes that for right. The host
asks for descriptors that exist only: `ep0.c:80` and `85` do not check the index, and
what lies behind the tables is not modelled.

### Sampling

`usb_ad_fq` and `round_div` are translated digit by digit, `choose_bytes` to the
set of the channels it takes. `adc_nchans` is the firmware's count of the list `chns` that the
driver sends. `InitAccepts` is the test of `init_client` on frequency and sizes, with
the product of the sizes stored in an `int` of any width (`AsInt`), `BufferAccepts`
that of `buffer_init`.

## Runs

| Run | Bounds | Shows |
|---|---|---|
| `channel` | two threads, 2 rows, every 2nd sample, `WaitLoops` 1, 16 samples | `TypeOK`; `CopiedBufferIsStable`: packets are not torn; `NoSampleTwice`; `RefusedOnlyAfterOvertaking`: the only way to the `-EPERM` of `buffer_write`; `StreamSpec` |
| `grace`, `wiped`, `silent_loss` | one thread, `WaitLoops` 2 | violated, see below |
| `ring` | lists of 0, 1 and 2 channels: 6, 3 and 2 slots; a pointer modulo 8 pairs; 6 frames, 4 commands, record numbers modulo 3, reconfiguration at any time | `TypeOK`, `PointerMatchesSlot`, `CopiedSlotIsStable`, `TogglesInStep`, `FramesSpec`, `OverrunReported` |
| `ring_overrun`, `ring_answer` | smaller rings | violated |
| `table_safety` | two programs, two slots, two addresses, `WaitLoops` 0 | `TypeOK`, `TableIsSound`, `DeviceOutlivesCalls`, `NoLostWakeup`, `DeletionGoesOn` |
| `table_liveness` | two threads of one program, one slot, two addresses, `WaitLoops` 1 | `SlowClientSettled`, `DeviceIsFreed` |
| `table_own_data` | two programs, one slot | violated |
| `lifecycle` | two files, one failure, one failed start, `pm` up to 2 | `TypeOK`; `OpenersCounted`: `open_count` and the files; `UrbNotRefilled`: the URB is left alone while it is in flight; `FlowKept`: `running` and the URB; `RunningMeansSampling`: `running` and the converter; `StoppedWhenClosed`; `NothingLeftBehind`: what is freed is not in use; `HandlerHasTable`; `NobodyStuck`: nobody waits on everybody |
| `control` | packets of 2 bytes, descriptors of 4 and 3 bytes, requests for 2 and 6, two configurations, one address | `TypeOK`, `RequestIsTheHosts`, `DataStageExact`, `DeviceInStep`, `NeverDeaf`, `PacketExpected`, `TransferEnds` |

Why the bounds are enough. Samples: both buffers fill, are read and fill again
(sixteen samples fill four buffers when every second one is kept), a client
is warned, withdrawn, warned again and removed. Two threads: every conflict in
`IOCTL_GET_DATA` is between two holders of the mutex or a holder and the
callback. `MaxSample` is the only cap in `ClientChannel`, `MaxFrames` and
`MaxCommands` in `AdcRing`; `ClientTable` has none, its state is finite.
Two addresses are enough for one to be used again while the other is in the table.
`table_liveness` has one slot, so that two cases of its properties do not come up
there: a walk that ends at an earlier slot, which `SlowClientSettled` excepts, and a
deletion that wakes several slots, which `DeletionGoesOn` covers in `table_safety`.
A ring of frames wraps after two or three, so six wrap it at least twice; the
record number wraps after three, the pointer of an empty list after four frames. In `DeviceLifecycle` `MaxFaults` counts failures that
only bad luck explains, the others (a killed URB, a stalled endpoint, a device that
is gone) are not bounded; `MaxFailed` bounds how far `open_count` can drift, and
`MaxUses` the uses of `pm` that lost stops leave behind; its `View` leaves out a
command that nobody is about, and what a detached converter would do. Two files: every
conflict is between the last file and one more. In `UsbControl` a descriptor takes
two packets, with a full or a short last one, and is asked for in part or with room
to spare; `MaxAddress` bounds addresses, of which only 0 and another matter. `CHECK_DEADLOCK FALSE` is set in all runs: the
capped models stop at their bound, and a driver whose device is gone, or
whose threads are all asleep without data, really stops.

Fairness. `AdcRing` assumes that the main loop goes on (nothing in it blocks)
and that the host polls (the driver resubmits its URB in each completion).
`OverrunReported` speaks of behaviours in which the device is configured in the
end; without that nobody polls. `UsbControl` assumes that the main loop goes on and
that the host repeats its packets until the device answers or it gives up. For
`DeviceLifecycle` no fairness is assumed: `NobodyStuck` says of each state who of those
that are waited for can go on, by the guards of the actions and without the failures
that only bad luck explains.
`ClientTable` assumes that a thread inside a call is scheduled, that the device
sends while packets flow, and that `ad_delete_internal` goes on. The flow may end at
any time and need not begin again, and `SlowClientSettled` says nothing then. No
thread is assumed
to make a call, and no buffer to fill.

Every property has a mutant: a variant of one definition, as a bug in that
line would make it, with which the same run fails. They stand before the
definitions they replace.

### What the code does not do

| Run | Said | Done |
|---|---|---|
| `grace` | `constants.h:23-26`: a warned client is given 7 loops | `loops_after_warn_count` is never reset: the second warning has no grace |
| `wiped` | `usb-ad.c:402-404`: rows already written are not lost | the memset of `client_buffer.h:116` comes after the buffer has been given back |
| `silent_loss` | `Wymagania_list.txt:84-89`: warned first, disconnected later | samples refused by a full second buffer are lost without a warning |
| `table_own_data` | `Wymagania_list.txt:59-61`: several programs, each its own channels | a thread whose client was removed while it waited copies the data of the next owner of the slot |
| `ring_overrun` | `Wymagania_list.txt:40-41`: after `E:OVERRUN` no more data | an overrun during the copy of a frame is followed by the whole old ring |
| `ring_answer` | `Wymagania_list.txt:26-31`: commands are answered | an answer that overwrites an armed packet has the wrong data toggle, and the host drops it |

Two more are exceptions of properties that hold. The handler's late store of NULL takes
a client out of its slot that has replaced the warned one, and its late free may hit
that one too (`twice` in `TableIsSound` and `SlowClientSettled`). With an empty list of
channels `adc_buf_ptr` leaves its slot and the ring (`Empty` in
`PointerMatchesSlot`, `CopiedSlotIsStable` and `FramesSpec`).

`lifecycle` and `control` have no violated run, because nothing in the repository
says the opposite of what they find; the exceptions in their properties are the
findings. A failed start leaves `open_count` one too low for good (`past.failed`), a
flush of a duplicated descriptor, a suspend or a reset stops the data for good while
`running` stays set (`past.cut`), two files closed at once leave the URB in flight
(`past.undrawn`), a stop that cannot be sent keeps the device awake
(`past.stop_lost`), a call between registration and the end of `ad_probe` upsets the
count of calls (`past.early`), and a hasty host makes the converter deaf
(`NeverDeaf`).

`DeviceIsFreed` names what `ad_delete_internal` may wait for in vain (`Stranded`): a call
asleep on a queue that is in no slot, because the client was removed, its slot emptied
by the late store of the callback, or its address used again; a call that has crashed
on a null pointer; and `io_mutex` kept by `IOCTL_GET_DATA`. They are findings as much as
exceptions, and so are those of `NobodyStuck` (`Broken`): the kept `io_mutex` stops every
later call, flush, release and the disconnect.

## Proofs

Every safety invariant, every action property and both
refinements that the passing runs check are theorems, for all values of the
constants. What stays with TLC is at the end of this section.

The theorems hold under the assumptions that the modules name, which TLC
evaluates in every run: sizes, divisors and bounds are natural numbers (the
sizes positive), the values that mean "nobody" or "none" are not among the
threads, files and commands, and the sets of threads and files whose members are
counted are finite. The sets are arbitrary otherwise: any number of readers,
threads, programs, slots, addresses and files, any ring, descriptors of any
content.

All proofs have the same shape. None of the properties is inductive; for each
module there is one invariant, a conjunction of named parts, of which each part
is the reason for another. One lemma says that it holds initially, one that
every step keeps it, with a step for each action or, where many actions leave
something alone for the same reason, one for the group; the theorems then follow
by temporal logic. Every invariant was checked by TLC on the bounds of the run
of its module before it was proved.

| Theorem | Property | Invariant |
|---|---|---|
| `ClientChannelProofs!TypeCorrect` | `TypeOK` | `TypeInv` |
| `ClientChannelProofs!CopiedIsStable` | `CopiedBufferIsStable` | `CopyInv` |
| `ClientChannelProofs!RefusalExplained` | `RefusedOnlyAfterOvertaking` | `ChannelInv` |
| `ClientChannelProofs!HandedOut` | `NoSampleTwice` | `CopyInv`, `OnceInv` |
| `ClientChannelProofs!KeepsStream` | `StreamSpec` | `StreamInv` |
| `ClientTableProofs!TypeCorrect`, `TableSound`, `DeviceSafe`, `WakeupsKept` | `TypeOK`, `TableIsSound`, `DeviceOutlivesCalls`, `NoLostWakeup` | `TableInv` |
| `ClientTableProofs!DeletionProgress` | `DeletionGoesOn` | `TableInv` |
| `DeviceLifecycleProofs!TypeCorrect`, `OpenersCorrect`, `UrbSafe`, `FlowCorrect`, `SamplingCorrect`, `ClosedStops`, `NothingLeft`, `HandlerSafe` | `TypeOK`, `OpenersCounted`, `UrbNotRefilled`, `FlowKept`, `RunningMeansSampling`, `StoppedWhenClosed`, `NothingLeftBehind`, `HandlerHasTable` | `LifeInv` |
| `DeviceLifecycleProofs!NoCircle` | `NobodyStuck` | `LifeInv`, `Held` |
| `AdcRingProofs!TypeCorrect`, `PointerCorrect`, `TogglesCorrect`, `CopiedIsStable` | `TypeOK`, `PointerMatchesSlot`, `TogglesInStep`, `CopiedSlotIsStable` | `RingInv` |
| `AdcRingRefinement!KeepsFrames` | `FramesSpec` | `FramesInv` |
| `UsbControlProofs!TypeCorrect`, `SetupIsTheHosts`, `DataExact`, `InStep`, `NotDeaf`, `Expected` | `TypeOK`, `RequestIsTheHosts`, `DataStageExact`, `DeviceInStep`, `NeverDeaf`, `PacketExpected` | `ControlInv` |
| `SamplingProofs!RoundDivNearest`, `DivisorPositive`, `FrequencyFits`, `ChannelsCounted`, `InitAcceptsWhen`, `ChooseFailsWhen`, `OddFlagsFail`, `ShortPacketFails` | - | - |

### One client

`RefusedOnlyAfterOvertaking` is not inductive. That the callback finds a buffer
writable after it has tested flags that threads clear meanwhile depends on what
the threads can have done in between, so the invariant is `ChannelInv`, six
conjuncts:

- `TypeInv`: `TypeOK`, `Filled` (how `full`, `curr_pos` and the counter of a buffer
  belong together) and `waited <= sample`;
- `MutexHeld`: a thread inside the locked parts holds `io_mutex`, so there is only
  one (the converse is false: a thread that finds its client gone returns with it);
- `CopyFull`: the buffer a thread is copying is full, until it hands it back;
- `GoneQuiet`: after the removal the callback touches the client once more at most;
- `Target`: the buffer the callback has decided on is not full, the second one as
  long as nothing has been overtaken;
- `ReadOrder`: the reason for it. While nothing has been overtaken, a full second
  buffer that is still the one to be filled next is being copied, and the first
  is full as well.

`CopiedIsStable` follows from `CopyFull` and `MutexHeld` (`CopyInv` is these and
`TypeInv`): the callback writes only buffers that are not full, other threads are
outside the locked part. The callback only fills (`CallbackLeavesFull`), threads
only empty (`GetDataFillsNothing`).

`NoSampleTwice` needs to know where a sample can be. `Aged`: what the rows and the
stream hold is older than the sample the callback is about to store. `RowsDiffer`:
no sample is in two rows. `HandedOutOnce`: a sample that has been handed out is in
no buffer, but for one that a thread has copied and not wiped yet. Nobody can copy
that one again, because the thread holds `io_mutex` until after the memset.

For `StreamSpec` the invariant says what the two buffers hold, in terms of `n`, the
rows handed out. As long as there is no mishap and the client is attached,
`InOrder` leaves four situations, with `b` the buffer to be filled next and `c` the
other (`Sequenced`):

1. `b` is being filled with the rows from `n` on, `c` is empty or handed out and
   not handed back;
2. `c` is full with the rows from `n` on, `b` is being filled with those behind;
3. `b` is handed out and not handed back, `c` is full with the rows from `n` on;
4. both are full, `b` with the rows from `n` on, `c` with those behind, and nobody
   has decided to copy `c`.

`Aim` adds that the callback, once it has decided, writes to `b`. The sample number
is the arithmetic of it: the samples dealt with are `RowOf(n + k)` and the
samples added to row `k` (`Stored`, `Filling`). Each lemma `...Order` takes one kind
of step round this circle: `WriteOrder` leads from 1 to 2 or 3 and from 2 to 4,
`CopyOrder` from 2 to 1 and from 4 to 3, `ClearOrder` from 3 to 2. Every mishap excludes one way out of it. In situation 4
with `b` the second buffer the younger first buffer would be chosen;
`ReadOrder` excludes that. `StreamStep` then maps every step to `Deliver`, `Break`,
`DeliverBroken` or a stutter of `SampleStream`.

### All clients

`TableInv` has besides the four properties:

- `CallsCounted`: `ioctl_active_count` lies between the number of threads inside a
  call and that number with the crashed threads added. With it a count of zero
  means that no call is under way, which is `DeviceOutlivesCalls`;
- `Calling`, what is true whatever has become of the memory. `Slotted`: a call that
  works on a client has a slot. `Exclusive`: a thread in a locked part holds
  `io_mutex`. `EmptyHanded`, `Holding`: who has a client in his hands. `HandlerDone`: the
  handler is idle when the device goes. `Allocated`: what is not freed is a client;
- `twice \/ Orderly`, with `Orderly` the conjunction of four. `TableIsSound`.
  `HandlerHolds`: the client that the callback judges is the one in its slot unless a
  thread has taken it (`lost`); the one it is about to free is live, and in nobody
  else's hands. `TakenIsGone`: what a thread has taken out of a slot is live and in no
  slot. `LookedUp`: what `SET_PARAMS` has found out about the slots of its program stays
  true until it inserts the client, although the callback stores to slots without the
  mutex. It only empties them, so that a program never gets two;
- `WakesInTurn`: once `exiting` is set nobody falls asleep, and who sleeps on the queue
  of a client that is in the table sleeps at a slot the walk has yet to come to; when
  the walk is done there is no such sleeper.

A double removal needs the thread to take the client between the callback's fetch and
its free, which is when `lost` and then `twice` are set; that `HandlerHolds` is kept by
everything else is the argument that there is no other way. The new client at a used
address is why `TableIsSound` alone says so little: `SoundFacts`, `SlotEmptied`,
`AddressFreed` and `ClientChanges` are what each kind of step does to it.

`NoLostWakeup` is inductive with these: a thread that decides to sleep has tested
the condition in the same step, whoever fills a buffer wakes the sleepers of its
queue, and a client that is put at an address has no sleepers. `CallBegins`,
`CallEnds` and `CallCrashes` count.

`DeletionGoesOn` is what a deletion needs besides fairness: that `ad_delete_internal`
never waits for calls of which none can move. It follows from `CallsCounted`,
`Exclusive` and `WakesInTurn`. The exceptions are those of `DeviceIsFreed`.

### The device

`LifeInv` follows the transfers, the commands and the counts together, because a
failure of one is what upsets another:

- `Queued`, `Exclusive`, `StartsStopped`, `InUse`: a command is sent by the holder of
  `io_mutex`, at most one answer and one URB are queued, a start begins with a
  device that is stopped, a file in use is open;
- `Drawn`: when a start submits the URB, it is not in flight nor in its handler,
  unless a close did not draw it down (`UrbNotRefilled`);
- `FlowKept`, `Commanded`: what `running` says of the URB and of the converter
  (`RunningMeansSampling`);
- `Awake`, `OpenersCounted`, `RunningOpen`: the uses of `pm`, `open_count` and
  `running` rise and fall together, but for the failures that `past` counts
  (`StoppedWhenClosed`);
- `CallsCounted`, `Detached`, `TableGone`: what is left when the device goes, and that
  nothing begins without it (`NothingLeftBehind`, `HandlerHasTable`);
- `Probed`: there is no table before the end of `ad_probe`, and the calls are told to
  end before they are waited for; `Lost`: the types of `robbed` and `kept`.

Each exception that a property makes for `past` is needed in the part it comes
from.

`NobodyStuck` is an argument about who waits for whom. `Held` says where the holder
of `io_mutex` is. `AnswerComes`: a thread that waits for the answer to its command
has the command before the converter, or a packet for its transfer, or has been
refused. `HolderGoesOn`: so the holder of the mutex can go on, or what it waits for
can; `MutexComes`: so can whoever wants the mutex; `CallComes`: so can every call.
The USB core waits for the mutex, for the URB, or for the calls that
`ioctl_active_count` counts; for the last `CallsCounted` finds a call.

### The firmware

`RingInv`: `Converting` (the interrupt is enabled only while sampling), `SlotLeft` (until `adc_out` is
increased the interrupt is not in the slot that is sent, and at most one
conversion late to leave it), `BufferOwned` (the main loop fills a buffer the SIE
does not have). The proof is one of integers: slots of `adc_one_buf_size` pairs of
bytes, `adc_nbufs` of them, a quotient that is seldom exact, and a pointer that is
advanced and wrapped on its own. `SlotFits` and `SlotsApart` say that slots lie
within the ring and do not overlap.

`FramesInv` adds what the slots hold: `Filling` (the header and the samples of the
frame that is sampled), `Kept` (a slot `k` behind it holds the frame `k` before),
`Copied` (what has been copied is the beginning of the oldest slot). `Waiting`, the
length of the queue, is a remainder in the model; `Counted` says the same
without one. Every action is then a step of `FrameQueue` or a stutter, also
the overrun, at which all waiting frames are kept or all vanish.

`ControlInv` says where a transfer stands. While the host is orderly and has not
just reset the bus, the system is in one of eleven phases, each of which fixes the
owners of both descriptors, what is in `USTAT`, the state of `ep0` and what host and
device think of each other: `Unpowered`; `Resting` between transfers; `Waiting`, a
SETUP packet has come; `Executed`, `ep0_setup` has done what it says and not yet
handed over the descriptors; `Refused`, they are stalled; `Sending`, `Sent` and
`AllSent` of a data stage, of which the packet in the descriptor, what the host has
and what is left make up what was asked for; `Closing`; `Confirming` and `Confirmed`
of a request without data, in which the address of the device may not be the
host's yet. `Heard` and `Restarted` hold of any host.

`PacketExpected` is read off the phases in which the firmware has nothing left to
do: in each of them the descriptor that the host's next packet needs has been
handed over with the right toggle, or is stalled. It is the part of `TransferEnds`
that does not depend on fairness.

### Arithmetic

- `RoundDivNearest`: `round_div(a, b) = (2a + b) \div (2b)`, the integer nearest to
  a / b, the larger of two. The code looks at one decimal digit only; that it is
  enough follows from `QuotientUnique`: with a * 10 = b * t + s and t = 10 * d + l,
  l decides on which side of d + 1/2 the quotient lies.
- `DivisorPositive`: for a frequency that passed the test in `init_client` the divisor
  is at least 1, so the test in `buffer_init` never fails for it.
- `FrequencyFits`: `usb_ad_fq` is at most 255 * 128 + 255, and so is the divisor. The
  integers of the model have no width; with this bound `a * 10` fits in the
  `unsigned int` of the code.
- `ChannelsCounted`: the firmware counts seven channels in the list that the driver
  sends, as many as the driver has flags.
- `InitAcceptsWhen`: as long as the product fits in an `int` of any width, `init_client`
  accepts exactly the frequencies in range with buffers of 1 to 1023 bytes, and
  `buffer_init` never refuses what `init_client` has accepted.
- `ChooseFailsWhen`: `choose_bytes` fails for a client exactly when one of its flags is
  over 1, or is 1 for a channel whose sample lies beyond the packet, for any number of
  channels and any size. With `ChannelsCounted` this gives `OddFlagsFail` (a whole
  packet fails for odd flags only) and `ShortPacketFails`.

`Arithmetic` states what the SMT solver does not find by itself when two
variables are multiplied: monotonicity, division with remainder and its
uniqueness, and that a nonempty set of naturals has a least element.

### What the proofs have changed in the models

- `UsbControl`: two cases of the host's answer to an IN packet overlapped, and the
  choice between them was TLC's; they are exclusive now. The bytes of a descriptor
  are not bounded any more.
- `DeviceLifecycle`: a thread that crashes while it waits for an answer left its
  transfer in the queue; it is withdrawn, as when the thread gives up.
- `DeviceLifecycle`: among the steps that `NobodyStuck` accepts as progress was a
  command executed by a converter that is no longer attached; it does not count
  any more.
- `Sampling`: the channels that `choose_bytes` takes were filtered from a sequence with
  a recursive operator; they are a set, which is counted.

### What is only model-checked

- Liveness under fairness: `OverrunReported`, `SlowClientSettled`, `DeviceIsFreed`,
  `TransferEnds`. The prover handles neither fairness nor leads-to over data.
  What holds of each state while they wait is proved for two of them:
  `DeletionGoesOn` and `PacketExpected`.
- That the guards in `NobodyStuck` and `DeletionGoesOn` are those of the actions, which
  would be a statement about `ENABLED`; it is to be read in the modules.
- The six runs that find a violation.

## Plan

Every module of the plan exists, and so do the proofs of its safety properties
and of the state predicates behind three of the properties that speak of progress.
Left is what never increases while `SlowClientSettled` and `OverrunReported` wait.

## Not modelled

- The wording of log messages, memory that is leaked, the layout of bytes in a
  sample, `dev->errors`.
- That a lock must not be taken in interrupt context. `ClientTable` and
  `DeviceLifecycle` let the handler delete the device as if it could.
- Several converters on one host: they share `gpClients_array`.
- What becomes of a client whose sizes have a product that wraps.
- What the frequency bytes mean to the timer of the converter: `usb_ad_fq` takes
  them for a frequency, `adc_start` for a period.
- Bus suspend (`IDLEIF`, `ACTIVIF`) in the firmware: the handlers set hardware flags,
  and `usb_sleep` is never called.
- `init_boot`, which selects tables, and the application it would start: it is never
  valid in this firmware. Flash programming, which nothing calls.
- The console program and the scripts, whose calls the models issue in every order
  instead.
