# salute_dsp: TLA+ models and proofs of the drivers of the 1892VM14

The repository is a QNX board support package for the 1892VM14 ("MCom")
system-on-chip. Its own core logic is the DELCORE30M resource manager: a driver
that shares two DSP cores, their memory and eight SDMA channels among client
processes (`src/src/hardware/delcore30m`). Around it stand drivers of the chip's
other devices, most of them QNX reference drivers or ports from Linux with
board-specific changes. This project models the DSP driver's job management
and memory, the SDMA transfers it makes, both descriptor rings of the Gigabit
Ethernet driver, and the transfers of the USB host controller driver.

Paths below are relative to `src/src/hardware/`. `elcore/` stands for
`delcore30m/elcore/`, `mcom_dsp.c` for `elcore/arm/mcom.le.v7/mcom_dsp.c`; the
Ethernet files are in `devnp/1892vm14-gemac/`, `dwcotg.c` in `devu/hc/dwcotg/`,
`sdma.c` in `delcore30m/dma/sdma/`.

## 1. Inventory

| component | source | state it keeps | operations |
|---|---|---|---|
| job lists | `elcore/_elcore_job_list.c` | `storage` and `queue` (two singly linked lists over one `next` field), `id_gen`, `core_jobs_cnt`, `core_jobs_max` | `alloc_job`, `release_job`, `job_enqueue`, `job_remove_from_queue`, lookups by id, `get_job_first_enqueued` |
| dispatch thread | `elcore/_elcore_devctl.c` | fields of each job (`rcvid`, `rc`, `sdma_chains`, `mem_part`) | one `devctl` at a time: CREATE, SET_SDMACHAIN, ENQUEUE, STATUS, WAIT, RESULTS, CANCEL, RELEASE |
| device functions | `mcom_dsp.c` | busy bits of memory parts (`mem_config`), `core[].job_id`, busy flags of SDMA channels, device registers | `elcore_set_prog`, `elcore_set_data`, `elcore_get_data`, `elcore_start_core`, `elcore_reset_core`, `elcore_setup_sdma`, `elcore_release_sdma`, `release_mem` |
| interrupt thread | `mcom_dsp.c:975` | locals of one round | wait for the interrupt, mask it, find, finish and remove the job of each core that stopped, answer the waiting client |
| SDMA | `delcore30m/dma/sdma/sdma.c`, `mcom_dsp.c:1098` | channel programs, `INTEN`, `INTSTATUS`, interrupt masks, busy flags of channels | `sdma_prepare_task`, `sdma_transfer`, `irq_wait`; `elcore_dmasend`, `elcore_dmarecv` |
| start-up, read, write | `elcore/_elcore_{main,create_instance,init_iofunc,ocb,read,write}.c` | device table, attributes, dispatch context | process start, creation of both threads, raw access to the DSP memory |
| Gigabit Ethernet, transmit | `transmit.c`, `1892vm14_gemac.c`, `1892vm14_gemac_hw.c`, `mii.c` | `tdesc`, `tx_mbuf`, `tx_free`, `cur_tx_rptr`, `cur_tx_wptr`, the interface flags | `vm14_gemac_start`, `vm14_gemac_reap` from three places, stop, init, link changes |
| Gigabit Ethernet, receive | `receive.c`, `1892vm14_gemac.c` | `rdesc`, `rx_mbuf`, `cur_rx_rptr`, `irq_status`, the interrupt mask | `vm14_gemac_isr`, `vm14_gemac_process_interrupt`, `vm14_gemac_rx`, stop, `vm14_gemac_init_ring` |
| USB host controller | `dwcotg.c` | `ep_arr` (channels and their flags), the pool of transfer elements, URB semaphores, the scheduler's pulses | enable and disable an endpoint; control, bulk and interrupt transfers; abort, timeout; interrupt; scheduler thread |
| I2C master | `i2c/designware` | current transfer, FIFO state, abort source | send, receive, combined transfer |
| serial, NAND, SD/eMMC, display, start-up code | `devc/ser8250`, `etfs/mcom`, `devb`, `devg`, `startup` | see `PROJECT.json` | vendor drivers with board files |

How the parts of the DSP driver interact:

* `_elcore_create_instance.c:116` and `:126` start two threads, the dispatch
  thread (`_elcore_driver_thread`) and `elcore_interrupt_thread`. They share
  memory. The chip has two Cortex-A9 processors, and no runmask binds the
  threads to one, so they run truly in parallel.
* Both call the list functions. `jobs_mutex` covers one list function at a time;
  no caller holds it over two calls, and the fields of a job, the busy bits and
  the registers are not covered at all.
* The dispatch thread starts a core; the core raises an interrupt when its
  program stops; the interrupt thread finds the job by the id that the dispatch
  thread left in `core[].job_id`, makes it idle, returns its channels and calls
  `MsgReply` for a client that waits.
* Clients call `devctl`. WAIT for a running job blocks the client until the
  interrupt thread replies; all other requests are answered at once.

What is hard in the DSP driver: every lookup followed by an action is two
critical sections; a pointer to a job outlives the mutex; registers are read,
changed and written by two threads; a removal that rewires the wrong job; a
creation that fails half way; limits kept in three places (`core_jobs_cnt`, the
busy bits of the parts, the busy flags of the channels). What makes it correct:
lists that end and hold no freed job, counters that agree with the lists, memory
parts and cores given to one job at a time, a completion credited to the job
that ran, a started job finished, a waiting client answered.

How the SDMA transfers interact with the rest: the dispatch thread copies code
and data over a channel that no job has, waits for the channel's interrupt and gives up
after 100 ms; it also starts the programs of jobs (chains), which a core
steps on by events and nobody waits for; the interrupt thread takes a finished job's
channels back, whatever runs on them. What is hard: a wake-up does not say from
where it comes; `INTEN`, `INTSTATUS` and the kernel's mask are three
places at which an interrupt can be held or lost; channels are used again. What
makes it correct: a copy reported done is done, the wait for it ends, and a program fits
its buffer.

How the parts of the Ethernet driver interact: the stack calls
`vm14_gemac_start` with `if_snd_ex` locked; the interrupt handler masks,
acknowledges and queues an entry that a thread of io-pkt processes; a callout
reaps every ten seconds; a control thread stops and initialises. The DMA engines
take no lock. They and the driver hand descriptors to each other by the OWN bit,
and nothing else. What is hard: the order of writes to descriptors the hardware
polls; a ring that is full looks like one that is empty; packets of several
descriptors; failed allocations that leave holes in a ring; a stop whose DMA
still runs; an init over a ring that was in use. What makes it correct: a packet
or cluster has one owner, is freed once and not while the hardware reads it; frames
are whole and in order; a received frame is seen by somebody.

How the parts of the USB driver interact: the threads of class drivers call in,
one per endpoint; the interrupt thread completes transfers under `xhc->mutex`
and wakes or calls back the caller; a start of frame sends pulses to the
scheduler thread, which starts what is due. Callers change `ep->flags` without
the mutex, the interrupt thread with it, and each writes the whole word back;
`ep->xelem` is never reset. What makes it correct: a channel has one endpoint, a
control transfer returns, an element is freed by its user and a completion is the
one of the transfer. The code gives the first two; section 3 says how it fails the others.

`PROJECT.json` lists the hazards at their lines.

## 2. Modules

| module | models | variables |
|---|---|---|
| `JobList` | `_elcore_job_list.c`: every list operation as one atomic step, on exact `next` fields | 8 |
| `Elcore` | `JobList` composed with the dispatch thread, the interrupt thread, the cores, the interrupt registers and the clients | 16 more |
| `DspService` | the abstract promise: the life of a job | 3 |
| `DspMemory` | where code and data of a job lie in the banks of a core | none |
| `ElcoreMemory` | `Elcore` composed with `DspMemory`: the parts that jobs hold, in bytes | those of `Elcore` |
| `GemacTx` | transmit ring, `vm14_gemac_start`, the reaps, stop and init, against the DMA | 17 |
| `GemacTxFifo` | what the transmit side promises the stack: a queue | 2 |
| `GemacRx` | receive ring and interrupt, `vm14_gemac_rx`, stop and init, against the DMA | 21 |
| `GemacRxFifo` | what the receive side promises the stack | 2 |
| `SdmaProgram` | what `sdma_program` writes for a descriptor, and what it moves | none |
| `Sdma` | the channels: dispatch thread, SDMA controller, interrupts, chains | 8 |
| `Dwcotg` | USB transfers: callers, interrupt thread, scheduler thread, controller | 21 |
| `MCJobList`, `MCElcore`, `MCElcoreMemory`, `MCGemacTx`, `MCGemacRx`, `MCDwcotg`, `MCSdma` | instances for TLC | |
| `InOrder` | the elements of a sequence at a set of places, in order; used for the frames in a ring | |
| `JobListProofs`, `ElcoreProofs`, `ElcoreMemoryProofs`, `GemacTxProofs`, `GemacRxProofs`, `SdmaProofs`, `DwcotgProofs` | theorems | |
| `InOrderProofs` | lemmas on `InOrder` | |

Operators whose comment calls them a mutant (`NextUnwrapped`, `FreePartUnchecked`,
...) are in no behaviour: each is a definition with a plausible mistake, kept
next to the right one, and putting it in the other's place violates the property
`PROJECT.json` names under "mutants".

### JobList

A job is a number: its id (`gen_job_id`) and the heap block that holds it. The
lists are `storage`, `queue` and the function `next`. `Reach(next, h)` is the set
of jobs a walk from `h` visits, written as a least fixpoint so that it means
something for every shape the code can produce and can be used in proofs; TLC
evaluates it on at most four jobs. `InStorage`, `InQueue` are `get_stored_by_id`
and `get_enqueued_by_id`.

The operations keep the code's details that matter: `alloc_job` and
`job_put_to_storage` do not set the status when the storage is empty;
`job_enqueue` reads the head of the queue before the job leaves the storage;
`job_remove_from_queue` (lines 280-289) finds the predecessor of a job that is
not the head, unlinks the job, and then puts *the predecessor* into the storage.
The predecessor is then the tail of the storage and still in the queue, and what
came after the removed job in the queue is cut off. The next removal may work on
lists that share their tails. `Appended` therefore writes the field of the new
tail last, as the code does: the new tail may already be the old one.

`StoreStatus` is the assignment of a status outside the mutex, by
`elcore_start_core` and by the cancel request.

### Elcore

`disp` and `irq` hold the program counters and locals of the two threads. A step
is one list operation or one access to a register or to a field the other
thread uses. Requests start in `disp.pc = "idle"`:

| request | actions, in order | code |
|---|---|---|
| CREATE | `Create` (`alloc_job`), `Load` or `LoadFails` | `_elcore_devctl.c:174-206`, `mcom_dsp.c:634-815` |
| SET_SDMACHAIN | `SetSdmaChain` | `:208-302` |
| ENQUEUE | `Enqueue`, then the start | `:303-322` |
| start | `Pick`, `Setup`, `MaskRead`, `MaskWrite`, `Mark`, `RunRead`, `RunWrite` | `mcom_dsp.c:425-490` |
| WAIT | `Wait`, then `Park` or `Answer` | `:344-371` |
| CANCEL | `Cancel`, `Kill`, `Dequeue`, the start if the status is still RUNNING, `Cancelled` | `:397-424` |
| RELEASE | `Release`, `FreeMem`, `Free` | `:426-452` |

The interrupt thread (`mcom_dsp.c:975-1085`) is `IrqWake`, `IrqQstr`,
`IrqMaskRead`, `IrqMaskWrite`, and for each core that stopped `IrqFind`,
`IrqResult`, `IrqRemove`, `IrqSdma`, `IrqReset`, `IrqReply`.

Two adjacent accesses are one step only where the other thread does not touch
one of them: the lookups of `Release` and `Cancel` read lists the thread acts on
in a later step; the busy bits and parts are used by the dispatch thread alone;
the status test of WAIT is a step of its own, apart from the store of `rcvid`.

Modelling decisions a reader should know:

* *Pointers.* Ids never repeat and a block is not handed out twice. `malloc`
  may reuse a freed block and `id_gen` wraps after 2^32 jobs; both would add
  behaviours, and neither can repair one. A freed block keeps its `next` and
  `status`; what the interrupt thread reads of a freed job's chains and `rcvid`
  is any value (`SeenChains`, `SeenRcvid`). Its store of `rc` into a freed block
  is kept in the model's `rc`, which nothing reads.
* *Null walks.* `job_remove_from_queue` reads through the head without a test.
  `WalksNull` sets `crashed`, and `Next` is disabled from then on.
* *Mutex.* `alloc_job:139` locks `jobs_mutex` a second time while holding it. The
  default mutex of QNX answers EDEADLK and the code goes on; the model does the
  same.
* *Registers.* `QSTR` shows a stopped core whether or not `MASKR` enables it;
  `InterruptWait` returns only for enabled ones. `DSCR |= RUN` is a
  read (`RunRead`) and a write of all it read (`RunWrite`); `elcore_reset_core`, which clears the
  stop bits, may fall between and is then undone. `QMASKR`, `IMASKR`, `CSR`, the address
  registers and the transfer of code and data are left out.
* *Channels.* `elcore_set_prog` and `elcore_set_data` need a vacant channel and
  hold none afterwards: `elcore_dmasend` does not mark the channel it uses.
* *`release_mem` for a job without a part* shifts by -1, which on ARM gives 0: no
  busy bit changes, as in `FreeMem` (`partBusy \ {0}`).
* *Failures.* `LoadFails` stands for every error return of `elcore_set_prog` and
  `elcore_set_data`: the job stays allocated and the client does not get the id.
  If the data fail after the program, the job has its part number but the busy
  bit is not set yet.
* *Clients* know the ids of jobs whose creation succeeded (`known`), and may use
  them for ever, also after the release. A blocked client sends nothing.
  `MsgReply` to a client that is not blocked has no effect.
* *Requests that fail* in a lookup change nothing and are no step. STATUS and
  RESULTS change nothing the driver keeps.

### DspService

What the driver promises for one job per core: a job is created, submitted, runs
alone on its core, is finished *only when its core reports a stop*, and may then be
submitted again or released. `Elcore!ServiceSpec` is the refinement mapping: the
phase of a job is its status while it is allocated, a core is stopped while DSCR
gives a cause. What is not obvious is `FinishJob`: the interrupt thread goes
by `core[].job_id` and by the QSTR of the start of its round, and both may be
older than the job.

### DspMemory and ElcoreMemory

A core has one bank of program memory and four of data memory, 32 kilobytes
each, and the stack of its programs at the end of the data memory. Both are cut into
as many equal parts as the core takes jobs, rounded down. `Fits` is the check that
answers ENOMEM. `ElcoreMemory` puts every program that passes it into the part
`Elcore` gave to a job. Addresses are byte offsets from the start of the
program memory, as `elcore_dmasend` takes them; that it goes on from program into
data memory without complaint is why `BytesExclusive` also keeps the code of one job
from the data of another.

### GemacTx

A step is one access to the ring that another actor can see in between. The fill
loop is one step per mbuf (`FillDesc`), with the OWN bit of the first descriptor
given last (`HandOver`); the DMA may fetch between any two. `Reap` is one step,
since only OWN bits change under it, and only from set to clear: a later
scan could pass more, never less. It keeps the details that decide how far it
goes: the full ring (`Scanned`), the last complete packet and `tx_reap`
(`ReapCount`), which may cut it off inside a packet.

| code | actions |
|---|---|
| `vm14_gemac_start` | `Send`, `StartReap`, `Dequeue`, `HugeReap`, `HugeFits`, `Defrag`, `FillDesc`, `MarkLast`, `HandOver`, `StartDone` |
| interrupt, transmit half | `IrqCheck` (the status is acknowledged and `start_running` seen), `IrqReap` |
| `vm14_gemac_hk_callout` | `HkReap` |
| `vm14_gemac_stop` | `StopBegin`, `StopFree`, `SoftReset` |
| `vm14_gemac_init` | `InitRing` |
| `vm14_gemac_mdi_callback` | `LinkChange` |
| DMA engine | `HwFetch`, `HwStop` |

A packet is a name and the list of lengths, 0 or 1, of its mbufs; a descriptor's
buffer names the packet, the piece and the number of pieces. A packet that was freed may be
sent again, so there is no counter. The two sides of a lost race with the stop
(`stop_tx` gives up after twenty turns) are both there: `dma = "late"`. The drop
after a second count of mbufs (`transmit.c:267`) cannot happen, since a
defragmented packet is one mbuf and a descriptor is free.

### GemacRx

The processing thread (`ProcessInterrupt`, `CheckStatus`, `EnableInterrupt`,
and `RxDone`, `RxDeliver`, `RxDrop`, `RxGive` for the turns of `vm14_gemac_rx`), the
handler (`Isr`), the DMA (`HwReceive`), and stop and init (`StopMask`, `SoftReset`,
`InitBegin`, `InitEntry` per ring entry, `HwStart`) interleave freely: no lock
is shared by them. `vm14_gemac_rx` works on a copy of `cur_rx_rptr` (`rp`). Clusters
are names; `data` gives the frame whose end the DMA wrote there. A frame may take
two descriptors; its first piece is dropped by the code.

`init_ring` chains an entry to its predecessor only when it allocates its cluster,
skips entries that have one, and leaves the loop when there is none. So a chain may end in the
middle of the ring; the DMA then reads address 0. What it would find there is
left out: it does nothing more.

`clean` is a history variable: the last init found no interrupt in
progress and every descriptor the hardware's. Without it, `vm14_gemac_rx` may overwrite
the pointer that init has just reset, and frames of before the stop are in the
ring; `SomebodyLooks` and `RxFifoSpec` are stated for clean starts, the rest is not.

### Dwcotg

A channel is a slot of `ep_arr`; an endpoint has one from `endpoint_enable` to
`endpoint_disable`. `ep[c].flags` is the word of the code as the set of its bits (`Flags`),
and every change of it that another thread may interrupt is two steps: a read of the
word and a write of all its bits. The callers read it in `Begin` (`fl`) and write it in `Mark`, without the
mutex; the interrupt thread reads it in `LockXfer` or `Finish` (`ifl`) and writes it in
`Drop` (`dwcotg.c:900-904`) or `Clear` (`:1121`), under the mutex, which the callers do
not ask for. `transfer_abort`, `endpoint_enable` and `endpoint_disable` change it under the
mutex and meet only callers; an endpoint has one, so these are one step.

A caller's other steps: `Start` programs the channel under the mutex, or `Schedule` leaves it
to the frames; `control_xfer_wait` is `Return`, `Timeout`, `Unlock`, then `Abort`. The
interrupt thread is `TakeInt`, `LockXfer`, then `Drop`, or `GoOn`, or `Finish`, `Clear` and
`Notify`; `mutex` is held from `LockXfer` on. `HCINT` is kept as the one bit
`complete_transfer` would look for first. Of the frame numbers nothing is kept: a periodic
channel may be due in any frame, whatever it is doing, since `active_xfer`, which was to keep the
scheduler from a running channel, is set nowhere (`dwcotg.c:846`).

Nothing orders aborts, timeouts, reconfigurations and frames against interrupts that are
still to come: the code does not, and no action has a guard for it. So the context an
interrupt finds may be another endpoint's by now, and without an element: `LockXfer`,
`Start` and `Scheduler` then read through a null pointer, which sets `crashed` and
disables `Next`. `Clear` frees the element before `Notify` reads the endpoint's kind through
it, as the code does; `xelem_create` takes no mutex, so somebody else may have the element
by then. A free of an element that is free already, or of none, changes nothing in the model:
`FreeElem` takes the pool of the system library to ignore it.

### SdmaProgram and Sdma

`SdmaProgram` keeps of a program what its bytes do: how often the loops go
through a pack (`Turns`), what a pack moves (`PackBytes`), the short pack at the end, and
the lengths of the loop and of the whole (`Body`, `Length`). Instruction codes and
addresses are left out.

`Sdma` has one program counter and the locals of the dispatch thread (`xfer`), the only
one that calls the functions of `sdma.c`:

| code | actions |
|---|---|
| `elcore_dmasend`, `elcore_dmarecv` | `Copy`, and `LookMine` for the second piece |
| `elcore_start_core` with chains | `StartChains`, `NextChain` |
| `sdma_transfer` | `Check`, `GoCopy`, `GoChain` |
| `irq_wait` | `Unmask`, `Wake`, `Timeout`, `LookOther`, `LookMine` |
| SDMA controller | `HwCopy`, `HwEvent`, `HwSev`, `HwEnd` |
| kernel; interrupt thread | `Deliver`; `ReleaseSdma` |

The controller signals (`DMASEV`) before it ends, so the caller may be back with the
second piece while the channel still runs: `Check` then answers EBUSY, and both
outcomes are in the model. The kernel masks a line when it delivers its interrupt and
remembers one wake-up for `InterruptWait`, which may be left over from a wait
that gave up. `dirty` is a history variable: the channels that a chain
was on, or on which a wait gave up. There the code is wrong (section 3), and
`DoneIsDone` is stated for the others, whatever the dirty ones do meanwhile.
The jobs are those of `Elcore`, of which only the channels are left:
a job takes some (`StartChains`) and is finished at any time (`ReleaseSdma`).

## 3. Runs

No counter grows without a bound: `MaxJobs` (jobs ever created), `MaxInits`
(starts of the receive side), `MaxPulses` (pulses queued); the rest is bounded by
the sets of the cfg and the workload (`Requests`). Deadlock is checked in `sdma`
only: elsewhere the ids or inits of a bounded run run out, and all clients may
rightly be blocked or silent. All runs end
with two workers in less than five minutes. Both causes of a stop are in `default`
only: the cause decides the result and the interrupt bit, and the other
runs of the DSP driver ask about neither.

| run | instance | shows |
|---|---|---|
| `lists` | 2 cores with 2 and 1 parts, 4 jobs | in any order of list operations, wrong removals included: `JobTypeOK`, `CountsMatchLive`, `Acyclic` (all loops over a list end), `NoDangling` (no list reaches a freed job) |
| `default` | 2 cores x 1 part, 2 jobs, chains, both causes of a stop | `TypeOK`; `AdmittedFindsPart`: a job that `alloc_job` lets in finds a free part; `ServiceSpec`: the driver implements `DspService` |
| `parts` | 1 core x 2 parts, 3 jobs, cancels; banks of 8 bytes, stack of 3 | `PartsExclusive`: two created jobs never share a part, whatever half-failed creations, cancels and double starts do; `BytesExclusive`: nor a byte, and none reaches the stack; `FreedIsUnqueued`: no job is freed while it is in the queue; `UsesJobList`: the threads use the lists as `JobList` says |
| `live` | 2 cores x 1 part, 2 jobs, waits, fairness | `JobCompletes`: a job that was seen to start while the interrupt thread was idle is finished |
| `gemac_tx` | ring of 4, `tx_reap` 2, packets of one mbuf, of two with an empty one between, of three and too long to copy; fairness | `TxTypeOK`; `RingAccounting`: `tx_free` is the distance of the pointers; `OwnedIsHeld`: the DMA reads no freed packet; `NoMbufLost`: each packet is freed from exactly one place; `FramesWhole`: the DMA never sees half a packet; `TxFifoSpec`: implements `GemacTxFifo`; `RingDrains`: a packet in the ring is freed |
| `gemac_rx` | ring of 3, 4 clusters, a short and a long frame, 2 inits | `RxTypeOK`; `ClustersExclusive`: a cluster is in the pool, with the stack or in one ring entry, and the DMA writes where the entry says; `SomebodyLooks`: no received frame is left unseen; `RxFifoSpec`: implements `GemacRxFifo` |
| `usb` | a control, a split bulk and an interrupt endpoint, 1 channel, 1 element; stalls, errors, aborts; fairness | `UsbTypeOK`; `ChannelsOwned`: no two endpoints share a channel and none is lost, whoever writes the flags back; `ControlReturns`: a control transfer comes back |
| `sdma` | 2 channels; copies of 7, 200 (cut in pieces of 67 and 133), 16500 and 126976 bytes; fairness | `SdmaTypeOK`; `DoneIsDone`: a copy reported done has moved its words; `ProgramFits`: its program fits the buffer and its loop the way back; `CopyWaitEnds`: its wait ends without the timer |

Why the bounds are enough.

* DSP: A wrong removal needs a queue of two. `lists`
  has three allocated jobs at a time and a fourth to replace a released one: enough
  for a wrong removal to cut off a job behind the removed one, and for the lists to
  share a tail that a later operation extends or frees. Two cores are all the chip
  has. One part per core is the driver's default (`mcom_dsp.c:199-200`); two parts are
  the first division in which a core has two jobs and a job can be removed from the
  middle of the queue. Two jobs on two cores let a completion fall between any two
  steps of a request, and let a core be used again by a job with a new id. One
  client suffices where no request blocks, since the dispatch thread takes one
  request at a time; one channel is enough for two jobs to contend for it. A part
  of 4 bytes of code and 14 of data is filled by one program and one byte short of
  the other; the theorem has no bounds.
* `gemac_tx`: four descriptors are the least `parse_options` allows. Three
  packets need at most six, so the ring fills, wraps and refuses; a packet of three
  pieces is longer than `tx_reap`, so a reap stops inside it; two free descriptors meet it
  (huge, dropped) and `holes` (copied). There is always one packet in the
  hands of each of the stack, `start` and the DMA.
* `gemac_rx`: three descriptors, so that a long frame wraps and a chain can
  end in the middle; one cluster more than the ring has, so that allocations
  succeed and fail at every entry; a second init over what the first left.
* `sdma`: two channels, so that one is a copy's while the other has a chain, and
  each is used by both in turn. The sizes take the short pack alone, the loops of less than
  256 packs and of 256, both, the largest part of the memory, and two programs
  with broken words; the theorems have no bounds.
* `usb`: three endpoints, one of each kind, take turns on one channel, so that every
  interrupt and pulse that comes late meets the next endpoint's context; one element, so
  that what is freed is at once the next transfer's. Two channels took more than five minutes in
  every choice of endpoints tried. What is lost by one: a bulk or control transfer whose element
  has become another channel's (the second branch of `Start`), and a `Notify` that reads the
  kind of an endpoint of another channel while the first one waits. `ChannelsOwned` is proved for any
  number of channels.

Fairness. DSP (`Elcore!FairSpec`): weak fairness of the dispatch thread once it has
taken a request, of the interrupt thread, and of the stop of every running core. The
threads are QNX threads at fixed priorities, round-robin, that never hold each
other's lock over a step, so each runs again; the programs clients load are
expected to end (`elcore/elcore-manager.h:175`), and the driver has no timeout
that would stop one. Ethernet (`GemacTx!FairSpec`): weak fairness of a `start` that runs,
of the DMA, of a stop that has begun; strong fairness of the housekeeping callout, which fires
every ten seconds for ever: a firing that meets `start` reaps nothing, but
`start` holds the lock for microseconds. `GemacRx!FairSpec` (only for the violation run):
handler, processing thread, and a DMA with frames arriving. SDMA (`Sdma!FairSpec`): weak fairness of the
dispatch thread, of the controller in a copy or at a `DMASEV` or `DMAEND` (it executes
what it can, and only an event may never come), and of the delivery of an interrupt that is
enabled and unmasked; none of the timer, of events or of jobs. USB (`Dwcotg!FairSpec`): weak fairness of the interrupt
thread and of the timed wait of a control transfer; strong fairness of taking the mutex
for the abort, which the interrupt thread holds for a moment at a time. No fairness is assumed of clients,
stack, class drivers or devices; interrupts for transmissions need not be taken.

### Where the code does not do what it says

Four runs end in a violation; each checks what a comment in the code
promises. `PROJECT.json` quotes the lines.

| run | property | what happens |
|---|---|---|
| `find_wait_ends` | `WaitEnds` | The job finishes between the status test and the store of `rcvid`: nobody ever answers. |
| `find_tx_stall` | `TriedLater` | `start` leaves a packet on the queue because fewer than a quarter of the descriptors are free; the reap that frees them does not call `start`. |
| `find_rx_reinit` | `ReceptionResumes` | A frame is stored after stop has masked the interrupt. `init_ring` skips the entry, its descriptor stays the driver's, the new DMA starts on it and suspends without an interrupt. |
| `find_usb_start` | `StartsLiveElement` | An interrupt transfer ends in a stall. Its element is freed, `interval` stays set, and the next frame starts the freed element. |

More was met while modelling and has no run of its own. Of the DSP driver:

* Two jobs queue on two cores and the second finishes first: `job_remove_from_queue`
  (`_elcore_job_list.c:288`) puts its predecessor into the storage instead. The
  finished job is on neither list, the running one on both, although the header
  says that `storage` holds the idle jobs and `queue` the others. `JobList` has
  this removal, and `Acyclic`, `NoDangling` and `CountsMatchLive` hold in spite of it.
* With two parts, submitting a second job restarts the core that runs the first:
  the test at `mcom_dsp.c:445` looks at the new job. `parts` has these double starts.
* CANCEL tests for RUNNING after the removal has made the job IDLE, so the jobs
  behind a cancelled one are not started (`_elcore_devctl.c:415`).
* A cancelled running job's SDMA channels stay busy, also after its release
  (`_elcore_devctl.c:413`): nothing calls `elcore_release_sdma`.
* A client may release the job between the removal and the interrupt thread's last
  use of it (`mcom_dsp.c:1067`).
* The interrupt thread writes back a `MASKR` from before the dispatch thread enabled
  a core (`mcom_dsp.c:1029`), and its completion is never seen.
* WAIT for a job that is still ENQUEUED is answered at once (`_elcore_devctl.c:365`).
* With three jobs on a core, a wrong removal can drop the running job from the
  queue between the interrupt thread's lookup and its removal; the removal
  fails unnoticed and the job stays RUNNING.
* With four parts, three jobs and cancels, the queue can become empty between a
  caller's lookup and its removal, and `job_remove_from_queue` reads through the
  null head. Jobs 0, 1, 2 are in the queue and the interrupt thread has looked up 2; a cancel
  of 1 puts 0 into the storage and cuts off 2; a cancel of 0 leaves the queue empty; then the
  removal of 2 starts. Without cancels it cannot happen (`CompletionsNeverCrash`). The step that
  ends the process (the second disjunct of `CallRemove`) is in no behaviour of the passing
  runs, whose cores have at most two jobs; an instance with three jobs on a core takes it,
  and the proofs cover it.
* The dispatch thread reads `DSCR` to start a core (`mcom_dsp.c:479`), the interrupt thread
  resets the core, and the dispatch thread writes the old stop bits back with RUN. The new job
  runs, its core reports a stop, and the next round of the interrupt thread reports the job
  finished and resets the core under it. `DspService` allows a job to be finished on such a
  report; that the program is then cut short is not in its promise.
* A second WAIT for a job overwrites the `rcvid` of the first, whose client is never answered
  (`_elcore_devctl.c:360`). `Wait` and `Park` do so; the runs have one client, as two that
  wait take more time than a run has.
* The interrupt thread resets the core after it has made the job idle. If the
  dispatch thread starts another job in between, the reset kills it, and it
  stays RUNNING. `StartedCleanly` excludes this window and the lost `MASKR`
  update, so `JobCompletes` says that *nothing else* loses a job.
* Cancelling a job does not answer a client that waits for it.
* The processor address of an input (`mcom_dsp.c:790`) lacks the `- BANK` that the
  one of an output (`:801`) has.

Of the SDMA transfers:

* An `INTSTATUS` bit that a chain leaves, or a copy whose wait gave up, ends the next
  wait on that channel at once: the copy is reported done ("%u bytes had been written
  to offset", `mcom_dsp.c:1235`) before it is made.
* A wait that gives up unmaps a program that is still running (`mcom_dsp.c:1244`).
* A copy between two internal memories moves four times its data: both bursts are 4, a case
  the comment at `sdma.c:447` says works (theorem `InternalMovesFourfold`).
* Sizes are divided by four (`sdma.c:362`): up to three bytes at the end of a copy, and of
  each of its two pieces, are not moved, while all are reported.
* `DMASEV` precedes `DMAEND`: the second piece of a copy may find its own channel busy and the
  copy fails (`sdma.c:670`).
* A chain that never ends stays on its channel after its job has finished; the
  channel is not busy by the driver's flags, is chosen for every copy, and answers EBUSY.
  `sdma_reset`, which would stop it, has no caller.
* The program of a chain of many descriptors may exceed its 1000 bytes, or its loop the 255
  bytes of a `DMALPEND`; neither is noticed. `elcore_start_core` ignores the result
  of `sdma_transfer`.

Of the Ethernet driver:

* `stop_tx` gives up after twenty turns and stop frees what the DMA may still
  read until the reset. `OwnedIsHeld` leaves this window out.
* Of a frame in two buffers only the last one goes up, with its own length.
* An init that runs while `vm14_gemac_rx` does has its reset of `cur_rx_rptr`
  overwritten by the local copy.

Of the USB driver:

* When no transfer element is left, a bulk or interrupt endpoint keeps
  `EPFLAG_ACTIVE_XFER` and answers EBUSY from then on (`dwcotg.c:1300`).
* A new transfer inherits the `errcnt` of its element's last user.
* After a NAK or an error of a bulk split transfer nothing starts the channel again
  (`dwcotg.c:864`).
* An abort leaves `comp_split`, `start_once` and queued pulses, which start the
  freed element. If the endpoint is disabled too, the pulse finds an element whose endpoint has no
  channel, and the scheduler thread reads through a null pointer.
* The interrupt thread clears `EPFLAG_XFER_ABORT` of the transfer before by a read and a write of
  the flags (`dwcotg.c:901`); the caller sets `EPFLAG_ACTIVE_XFER` for the next transfer
  in between, and it is lost. The next abort then does nothing, and the completion of
  the transfer that should have been aborted ends the one after it. The other way round, a caller
  writes back an `EPFLAG_XFER_ABORT` that was cleared meanwhile, and the next interrupt is
  dropped.
* A caller aborts a transfer and enables the endpoint again, which
  clears `EPFLAG_XFER_ABORT`, before the interrupt of the halt is handled; or two
  aborts share one flag. The late interrupt then ends an element that is free already, or
  the transfer that came next (`dwcotg.c:900`, `:1239`).

An invariant that denies the crash, the lost flag or the end of a free element is violated by TLC in the
instance of `usb` in eight to ten steps.

Hazards beyond those `PROJECT.json` lists, plain from the code: a
cancel does not answer the client that waits (`_elcore_devctl.c:397`, in the model); a job whose channels are busy stays
ENQUEUED (`:319`); core number 2 passes the check of `:181`; RESULTS copies the outputs of a
running job (`:387`); `id_gen` wraps (`_elcore_job_list.c:90`); the sizes of a
job's blocks are added in an int (`mcom_dsp.c:754`) and their addresses divided by four (`:16`); the
frame number wraps (`dwcotg.c:1180`).

## 4. Proofs

`tlapm` proves the eight proof modules from nothing. The constants are arbitrary: any
number of jobs, any non-empty set of cores numbered by naturals, any
division of their memory (1, 2, 4 or 8 parts in `ElcoreMemory`), any clients,
channels, requests; any ring and pool; any SDMA channels and transfers; any endpoints, channels
and elements. The assumptions are those named in the modules: `MaxJobs` is a positive natural, `JobsMax` maps cores
to naturals, `NULL` is neither a job nor a client, causes are STP or ERR; in `Dwcotg`, `NULL`
is no endpoint, element or channel and not the interrupt thread.

`JobListProofs`. The invariant `JobInv` is the conjunction of `JobTypeOK`,
`Acyclic`, `NoDangling`, `CountsMatchLive` and `FreedAreIdle`: a freed job's block says IDLE, so
that a removal that still holds it does nothing.

* `Reach` is handled by three lemmas: it contains its head, it is closed under
  `next`, and it is contained in every set with these two properties. Walks are
  never unfolded, so no induction over data is needed.
* `UnlinkedEnds` and `AppendedEnds` say that the two ways the code changes `next`
  keep every walk finite. `AppendedEnds` is the delicate one: it needs that the new
  tail is written last, because a wrong removal can append a job that is the tail
  already.
* `Acyclic` is needed for `NoDangling`: the job a release frees leaves the storage
  only because, with no cycle, no other job of the list leads back to it.
  `NoDangling` alone is not inductive for `ReleaseJob` without `~ InQueue(j)`; the
  request handler makes that test (`ReleaseUnqueued`), the list function does not.

Theorems: `JobTypeCorrect` (the unsigned counters never wrap), `ListsEnd`,
`ListsHoldAllocated`, `CountsCorrect`.

`ElcoreProofs`. The invariant is

    ElcoreInv == JobInv /\ TypeOK /\ PointersOK /\ FreedIsUnqueued
                 /\ PartsOfLive /\ PartsExclusive

`PointersOK` says that the jobs the dispatch thread holds are allocated (it is the
only one that frees) and the interrupt thread's are jobs. It is what makes every
`StoreStatus` of `Elcore` one of `JobList`. `JobList` removes allocated jobs only; the removal of
a job that a client has freed meanwhile (`mcom_dsp.c:1065`) is a stutter of it by `FreedAreIdle`. `FreedIsUnqueued` must survive the
removals of the interrupt thread while a release request is between its lookups
and its free: lemma `RemoveKeepsOut` shows that a removal, even one that rewires
the wrong job, brings no job into the queue. With these, `ListStep` shows
that each driver step is a `JobNext` step or leaves the lists alone, hence
`JobInvKept`. `PartsOfLive` ties parts to allocated jobs and ids not yet known to
clients, and makes `PartsExclusive` inductive.

Theorems: `TypeCorrect`, `DriverUsesJobList` (the driver implements `JobSpec`, so
the theorems of `JobListProofs` hold in it), `ReleaseIsSafe`, `MemoryIsExclusive`.

The second half of `ElcoreProofs` is what holds when no client cancels (`NoCancels`).

* `NullInv`: a thread that is past its lookup finds a queue that is not empty. Only
  `job_remove_from_queue` empties it, and without cancels only the interrupt thread calls
  that (`QueueStays`). Hence `CompletionsNeverCrash`, for any cores, parts and jobs.
* `DriverGivesService` is the step simulation of `DspService`, for the driver as it is built
  (`DefaultCores`): two cores (`DLCR30M_MAX_CORES`, `mcom_dsp.h:8`) with one part each
  (`mcom_dsp.c:199-200`). The invariant is

      ServiceInv == ActiveCores /\ Starting /\ Round /\ Unborn /\ Disjoint

  `ActiveCores` says that a core that runs, or has stopped and was not looked at, works for
  the job `core[].job_id` names. It is what makes `FinishJob` a step of the service, and it
  is true only outside a window, `Clearing`: between the removal of a job and the reset of its core
  the dispatch thread may start the next one, and the reset then stops that. `Starting` says the
  core of the job being started is not active and that a start which read no stop bits
  wipes none out (`RunWrite`), `Round` that the interrupt thread's
  stale QSTR still names cores that report a stop. The report may be an old one that a start wrote
  back; the core is then active for the new job, which `FinishJob` ends.
* `Disjoint`, no job on both lists, holds *unless a wrong removal has lost a job*. At most two
  jobs are in the queue, one to a core. The removal of the second puts its predecessor
  into an empty storage, which leaves the predecessor's status alone and the removed job
  on no list (`WrongRemoval`, `RemovalStatus`).
* The hypotheses are needed, and TLC shows it on instances of their own: with a third core the
  storage need not be empty, and the same removal sets the status of a running
  job to idle; with two jobs on a core the dispatch thread starts the second while
  the first still runs.

`ElcoreMemoryProofs`. `PartsWithin` adds to the driver's invariant that a part number
is one of its core's and that every busy bit has a created job that will clear it.

* `AdmittedFinds` is a counting argument. If all parts of a core were busy, each would
  have a job of its own, and the job that is being loaded is none of them; that is one more
  than `CountsMatchLive` allows. `FS_PigeonHole` of the library closes it. It is the
  property the three limits of the driver must agree on.
* `BytesAreExclusive` puts `MemoryIsExclusive` and the arithmetic of `DspMemory`
  together: `PartsEnd` and `PartsOrdered` say that n parts, rounded down, end before the
  memory does and before the next one, for every bank size and stack; `AreasApart`
  is what follows for intervals.

`GemacTxProofs`. The ring is seen from `cur_tx_rptr`: `At(k)` is the k-th descriptor behind it,
`Given` counts those that `start` has handed over and `Writing` those its fill loop has
written since. The invariant is

    TxInv == TxTypeOK /\ Pointers /\ Locals /\ Phases
             /\ RingShape /\ RingMbufs /\ OnePlace

* `RingShape` is the picture of the ring. There is an h up to which the DMA has read; it owns
  exactly the descriptors from h to `Given` and, of the packet being written, all but
  the first. What it owns is whole packets but for pieces it has read already
  (`GivenShape`), and the frame it is collecting goes on at h (`FrameShape`). This is why the
  OWN bit of the first descriptor has to be given last: `HandOver` turns `WrittenShape` into
  `GivenShape` in one step, and any earlier bit would be a piece without its packet.
* `RingMbufs` says that the last piece of what the DMA owns still has its packet, and that a free
  descriptor has none. A reap may stop inside a packet (`tx_reap`), so nothing is
  said of the pieces before the last.
* None of `RingAccounting`, `OwnedIsHeld`, `NoMbufLost` and `FramesWhole` is inductive. `tx_free` equals
  the distance of the pointers only because the number of descriptors a packet takes was counted
  before (`Locals`); `NoMbufLost` needs that a free descriptor has no packet, or filling it would
  lose one; `OwnedIsHeld` needs that a reap passes no descriptor the DMA owns
  (`ReapBound`, `ReapEffect`).
* `Max` over the descriptors a reap may pass needs a greatest element of a bounded set
  (`MaxOf`), which follows from the well-foundedness of the naturals.

* `TxRingIsFifo` is the step simulation of `GemacTxFifo`. `Flight` is written as a selection
  (`InOrder`): the packets at the places behind `hwptr` that end one and that the DMA gets
  to. `Run(d, p, m)`, the DMA owns m descriptors from p on and no more, turns those places
  into an interval (`EndsOfRun`); what is left to say of a step is which run it makes of
  which. `HandOver` gives the DMA the first descriptor of a packet and with it all the
  others, which is one place more at the end (`FlightMore`, `HandOver` of the queue); a fetch takes
  the first place away (`FlightLess`); a reap and the fill loop touch descriptors out of
  the run (`SameRun`); an init empties it (`InitFlight`).

Theorems: `TxTypes`, `TxRingAccounting`, `TxOwnedIsHeld`, `TxNoMbufLost`, `TxFramesWhole`,
`TxRingIsFifo`, for every ring size, `tx_reap`, set of packets and fragmentation of them.

`InOrderProofs`. `Sorted` is unique and lists its set (`SortedIs`, `SortedLists`; that every finite set
can be listed is shown from a smallest bound for which it could not); a greater place appends (`SelectedMore`), the first one is the head
(`SelectedRest`), and a shift of all places changes nothing (`SelectedShifted`).

`GemacRxProofs`. The invariant is `RxTypeOK /\ ClustersExclusive /\ ChainFilled`. The first two are
not inductive: `vm14_gemac_rx` and the DMA use the cluster of an entry without asking
whether there is one, and a partly allocated ring has entries without. `ChainFilled`
says what keeps them away: the chain leads to filled entries only, an entry
that ends a frame is filled, and while the first entry is empty nothing was
received and nobody looks. One lemma per group of actions; `InitEntryStep`, where a
chain grows, is the longest. A second invariant, on top of the first, gives `SomebodyLooks`:

    LookInv == EndsGivenBack /\ (clean => ctl # "ring") /\ Watched /\ SomebodyLooks

`Watched` says that after a clean start the interrupt is in one place: enabled, queued, or being served. So the
status bit of a frame stored behind the loop's back raises a new pulse. `EndsGivenBack` (a descriptor of the DMA
carries no flag of an older frame) is what makes the frame under the loop's pointer a new one.
A third one, `RingInv == ChainOrder /\ CleanRing`, gives the order of frames. `ChainOrder`: the chain
goes round the ring in the order of the entries, whatever a failed allocation left out.
`CleanRing`: after a clean start there is an n so that the DMA reads the n-th descriptor
behind `cur_rx_rptr`, has filled those before it and owns the others. The two pointers then
never pass each other, although neither side looks at the other's. `RxRingIsFifo` is the
step simulation of `GemacRxFifo` from it: a buffer that ends a frame is one place more
(`FramesMore`), a delivery or a drop takes the first place away (`FramesLess`), giving the descriptor back moves
the pointer and nothing else (`FramesMoved`).
Theorems: `RxTypeCorrect`, `ClustersAreExclusive`, `FramesAreLookedAt`, `RxRingIsFifo`.

`SdmaProofs`. First the programs: `TurnsArePacks` says that the nested loops go through each pack
once; with it `CopyMovesWords`, `ExternalMovesAll` and `InternalMovesFourfold` give what a
program moves for every size, by linear arithmetic. `ShortEnough` bounds the program
of any copy the driver accepts. Then the invariant

    SdmaInv == SdmaTypeOK /\ InHand /\ CleanChannels /\ Accounts

`Accounts` says that what was moved and what is left add up to what was wanted, and that a
copy moves its piece once. It is not inductive: `LookMine` takes an `INTSTATUS` bit for the
end of the copy. `CleanChannels` is what makes it so: on a clean channel the bit is set
only after the loops, and only while somebody waits. Theorems: `SdmaTypeCorrect`,
`CopiesAreDone`, `ProgramsFit`.

`DwcotgProofs`. The invariant is

    UsbInv == Types /\ Enabled /\ Elements /\ Served /\ UsedRead /\ ChannelsOwned

and it needs nothing but `UsbAssumption`: any endpoints, faults and aborts, interrupts and pulses
as late as they like.

* `UsedRead` is what makes `ChannelsOwned` inductive: a copy of the flags that is still
  to be written back is right about `EPFLAG_USED`. For a caller, because its endpoint is not disabled
  during the call; for the interrupt thread, because `endpoint_enable` and `endpoint_disable`
  take the mutex that it holds from the read to the write (`Served`). The other two
  flags have no such owner.
* `FreshChannel` says that the first unused channel is nobody's, by the well-foundedness of the naturals.
* `Elements` says that what a context or a caller points to has been some endpoint's, so that what the
  code reads through it is an endpoint, if not the right one.

Theorems: `UsbTypes`, `ChannelsAreOwned`.

Only model-checked: `JobCompletes`, `RingDrains`, `ControlReturns` and `CopyWaitEnds`, which are
liveness under fairness and out of the prover's reach.

## 5. Plan

Done: the DSP driver's jobs, memory and SDMA transfers, both rings of the Ethernet driver, USB transfers;
their runs; the proofs above. Next, in order:

1. Chains of several descriptors in `SdmaProgram`, and `Sdma` composed with `Elcore`, so that
   a channel is taken and returned by the jobs themselves.
2. `I2cTransfer` (the transfer loop against the FIFOs) and the page layout and order
   of commands of the NAND device layer.
3. The order of the blocks inside a part (`elcore_set_data`) with their sizes modulo
   four and the width of their sum; start-up and shutdown of the DSP driver
   (`elcore_job_hdl_fini` with jobs queued), requests with an illegal core number.
4. The SD host controller's command and timeout handling (`devb`), the 8250's interrupt
   loop.

## 6. Not modelled

The contents of DSP memory and of messages; addresses and instruction codes of SDMA
programs; `sdma_reset`, which nobody calls; the resource-manager glue; MDIO, the
multicast filter, statistics and detach of the Ethernet driver; ports, root hub, reset
and transfer sizes of the USB driver; the SD/eMMC, display and serial drivers and
the boot code, most of them vendors' code with a board file. The repository is large (a whole
board support package) and most of its lines are such code, so the part of it
that the models stand for is small; `PROJECT.json` gives the reason for every part.
