# gp-sup: verification project

gp-sup tracks an object in a sequence of images with a kernelised correlation
filter (KCF).  An eight-core DSP (FT-M6678) does the tracking, an FPGA beside it
bridges Serial RapidIO (SRIO) to PCIe and computes features, and a Linux PC
supplies the frames.  Paths below are relative to the repository.

This directory models the parts of the system whose difficulty is *order*: who
waits for whom, what may overlap, which buffer belongs to whom, which pulse may
be missed; and of *place*: where transforms, windows, image rows, histograms and
features are stored.  The mathematics is left out.

## 1. Inventory

### 1.1 The system

```
 four-core tracker (DSP alone, self test)          tracker with host and FPGA
 -----------------------------------------          ---------------------------
 core 0  receive frames, manage two trackers        kcf_dsp (PC): main + waitingInterrupt
   |  MessageQ request / reply per tracker             | PCIe: registers, H2C, C2H, MSI
 core 1, core 2  KCF trackers                        FPGA: srio_pcie_bridge, FHOG, emif2axil
   |  MessageQ FFT request / Notify event              | SRIO packets, EMIF registers
 core 3  FFT service, one FFT engine                 Kcf_SF / Kcf_SA (DSP): MainTskFxn, SrioHandler
```

The two are alternative programs for the same board.

### 1.2 Components

| component | state | operations | interacts through | correct when |
|---|---|---|---|---|
| Core 0 (`DSP/Kcf_Core0`) | two frame buffers and `m_nRxInd`, receive channel, events, one message per tracker, counters | start reception, receive interrupt, two tracking tasks, main loop | EDMA interrupt, SYS/BIOS events and semaphores, MessageQ | a tracker only sees whole frames, each once, in order; nothing is freed or overwritten in use |
| Cores 1, 2 (`DSP/Kcf_Common/CKcfTracker.cpp`, `CTspsManager.cpp`) | template, feature and spectrum buffers, `hFFTDoneSem` | init, update; FFT requests, transposition | MessageQ to core 3, Notify from it, an EDMA channel | a result is read only when complete, a buffer reused only when unused |
| Core 3 (`DSP/Kcf_Core3`) | request queue, the request served, engine semaphore | two passes per request, notification | the same; FFT engine's interrupt | one request at a time, each answered once, to its sender |
| Bridge, transmit (`srio_tx_manager.v` and engines) | start/busy bits, parameters, arbiter, packet and burst counters | register writes, doorbells, software transfers | AXI-Lite, AXI streams to the SRIO core, AXI reads | packets tile the transfer, its doorbell comes last, busy bits mean work |
| Bridge, receive (`srio_rx_manager.v` and engines) | stream position, write address, response, MSI slot | NWRITE packets to memory or host, doorbells to messages | the same | stream never blocks, doorbells are answered and messages kept until read |
| Kcf_SF, Kcf_SA session (`MainTask.cpp`, `CSrio2PcieManager.cpp`, `CSrioManager.cpp`) | semaphores, receive buffers, local copies of registers | the loop over frames of one sequence, `SrioHandler` | doorbells, registers of the bridge | each frame tracked once, from its own data; ready for the next sequence |
| kcf_dsp (`Linux/.../KCF_DSP`) | mapped registers, semaphores by doorbell, frame buffer | one run for one sequence; interrupt thread | registers, driver's event and stream files | the results returned are those of its frames; it ends |
| EMIF converter (`emif2axil.v`, `Emif2Axil.h`) | request, data and answer FIFOs, AXI-Lite handshakes | posted writes, polled reads | EMIF pins, one GPIO pin, AXI-Lite | writes are made in order with their data; a read sees all earlier writes |
| FFT manager (`CFftManager.cpp`), transposition and windows (`CTspsManager.cpp`, `prepareBlock`) | scratch memory, DMA parameter sets, the target's region | two passes for each transform type; one transfer | FFT engine, EDMA | the destination holds the transform, the window the image or zeros, and nothing else is written |
| Kcf_SF, Kcf_SA tracker and FFT task (`CKcfTracker.cpp`, `FFTTask.cpp`) | command queue, two counting semaphores, commands and buffers of the main task | init, update; queue and serve commands | SYS/BIOS queue and semaphores, engine's interrupt | a result is read when complete; no command or buffer is touched while queued |
| FHOG accelerator (`hog_mdl_only_axi_lite`), `CHwFhogManager` | four banks, row and beat counters, start register | read the block, scale it while it arrives, write the features | AXI to the FPGA's memory, EMIF registers | every pixel in its place before it is used, every feature written once in order, each start ends |
| FHOG pipeline (`histogram.v`, `read_write_cell_bram.v`, `normalize_truncate_pca.v`, ...) | line buffers, banks of cells, two groups of roots, counters in every part | a clock edge: one pixel in, gradients, histograms, sums, roots, features | pixels from the scaler, pulses between the parts, the banks of the result | a histogram is complete when it is read; a feature is its own cell's and in its place |
| KCF arithmetic; orientations, roots, interpolation and rounding of FHOG | floats, fixed point | - | - | not modelled |
| xdma driver, chip support and cv libraries, benchmark, throughput tests, register tools, block design, thesis | - | - | - | not modelled, vendored, generated or not code |

`PROJECT.json` lists every component with its status, and under `hazards` the 40
places in the code these properties are aimed at.

### 1.3 What is hard in this code

- **Overlap by design.**  Core 0 receives the next frame while both trackers use
  this one; the host sends a frame while the DSP tracks the last.  Two buffers
  and a few one-place signals keep them apart.
- **Signals that say "something ended", not "what".**  Binary semaphores, event
  bits, `hFFTDoneSem`, `hRxDbSwFromPCSem`: one post too many shifts the meaning
  of all that follow.
- **One-cycle pulses against register writes.**  The bridge's register file
  handles a write *or* the pulses of a cycle (`srio_pcie_bridge.v:318-334`).
- **Read, modify, write by two hosts** on `SRIO_CSR`, `SRIO_MODE`, `DB_TXINFO`.
- **An interrupt handler that shares status bits with a polling loop**
  (`CSrioManager.cpp:118`).
- **"One less than" counters** for packets, beats and read bursts
  (`srio_tx_manager.v:215-287, 380-425`).
- **Data used after its block was freed** (`Kcf_Core3/src/FFTTask.cpp:103-107`).
- **A queue without a lock** between tasks of two priorities
  (`Kcf_SF/src/CKcfTracker.cpp:636`), whose elements are variables on the stack.
- **Machines that count the same beats separately**: the requests and the data of
  the accelerator's rows, which need not begin or end with a beat
  (`hog_trans.v:808-1012, 1563-2140`), and the scaler that runs behind them.
- **A pipeline without handshakes.**  Behind the scaler nothing can wait: that bins,
  roots, weights and addresses of one cell meet is a matter of latencies and counters
  (`normalize_truncate_pca.v`), and a word may be read before the last pixel's share
  is written to it (`read_write_cell_bram.v:796`).

Nothing is persisted, so there is no crash recovery in the usual sense; a host
program killed in mid-sequence is listed as a hazard and not modelled yet.

## 2. Modules

| module | models | state | actions |
|---|---|---|---|
| `TrackContract` | what the four cores promise (abstract) | answers, next frame per core | `Answer` |
| `DualTracker` | core 0 whole, and the trackers seen from it | see 2.1 | one per blocking point |
| `DualTracker_proof`, `FftService_proof`, `SrioTx_proof`, `SrioRx_proof`, `Emif2Axil_proof`, `SfFft_proof`, `KcfLink_proof` | theorems about these modules, see 4 | - | - |
| `BlockEngines_proof` | theorems about `FftPasses` and `HogTrans`, see 4 | - | - |
| `FftService` | core 3's `FFTTskFxn` and the trackers' use of it | see 2.2 | one per instruction or call |
| `FftPasses` | what `CFftManager`'s passes and `CTspsManager`'s transfers do with a matrix or an image | see 2.7 | request, engine, parameter set, next pass |
| `SfFft` | the single-core trackers' main task and FFT task | see 2.9 | one per call or wait |
| `SrioTx`, `MCSrioTx` | transmit half of the bridge; the values it is checked with | see 2.3 | one per clock |
| `SrioRx` | receive half of the bridge and MSI slot 0 | see 2.4 | one per clock |
| `TrackSession` | what host and DSP promise (abstract) | run, frames tracked, results | `Request`, `Track`, `Return` |
| `KcfLink` | kcf_dsp, Kcf_SF/Kcf_SA and the bridge between them | see 2.5 | one per register access or wait |
| `Emif2Axil` | `readReg`, `writeReg` and the converter | see 2.6 | one per clock, store or poll |
| `HogTrans`, `MCHogTrans` | data movement of the FHOG accelerator; the blocks it is checked with | see 2.8 | one per clock |
| `HogFeatures`, `MCHogFeatures` | the accelerator from the scaler's pixels to the features; the images it is checked with | see 2.10 | one per clock |

`DualTracker` takes a tracker's answer to a frame as two steps (detect, train);
`FftService` opens those up into requests and waits, and takes a pass of the FFT
engine as a step; `FftPasses` computes what the two passes of a request leave.  `KcfLink` takes a transfer
of the bridge and a doorbell as single steps; `SrioTx` and `SrioRx` are the
bridge clock by clock and check what that abstraction relies on (the doorbell
comes after the data, a doorbell is answered once, a message stays until it is
read).  `KcfLink` takes a register access as a step; `Emif2Axil` checks that the
DSP's accesses take effect in order, each with its own data.  `HogTrans` lets
histograms and normalisation "take time"; `HogFeatures` is what happens in it.  The layers are
connected by these properties, not by a machine-checked refinement.

Each definition that models code is mapped to its lines in `PROJECT.json`.
Operators called "Faulty" or "Mutant" in a comment are no part of the model: each
is a bug someone could have written, and the property it must break is named
under `mutants`.

### 2.1 `DualTracker`

`mainPc` is where `MainTskFxn` stands, `taskPc[c]` the task on core 0 that serves
core `c`, `corePc[c]` core `c`'s `KcfTskFxn`.  `buf` says which frame a buffer
holds whole (`None` while a transfer fills it), `dma` and `rxInt` the receive
channel and its interrupt, `hasStart`, `allDone` the bits of the two events,
`dataReady` the binary semaphores, `msgAt` who holds a task's only message.
A result is the pair *(frame it was computed from, frame its template was last
trained on)*: that is all the properties tell apart.  The configuration is the
one the sources are built in, `SELF_TEST` and `MODE_MASTER` of `common.h`.
A failed allocation ends in `System_abort` and is not modelled.

### 2.2 `FftService`

Each function of `CKcfTracker` is a list of instructions: send a request, wait for a
notification, use, write or free buffers, start and await the transposition; the last
instruction of a loop says how many it repeats.  `init` and `update` are the functions
called for a frame, and `pc[c]` is a place: the frame, the function called, the
instruction and the chunk that the loops have reached.  `fresh[c]` are the buffers whose
last requested transform is complete.  `block` is what became of the request core 3
freed and still reads.  `misdirected`, `sent` and `waited` are history: whether a
notification went to the wrong core, and how many requests each core has sent and
waited for.

### 2.3 `SrioTx`

One step is one rising edge of `aclk`.  The wires are operators over the
registers, with the inputs of the cycle (`ready`, `valid`, `arready`, `resp`) as
parameters; there is one conjunct per `always` block.  The host's access is the
rest of the step: no write, or a write of one register.  `Values` are groups of values
for the registers; a behaviour uses one group (`MCSrioTx` has three: doorbells of two
kinds with small transfers; small and large transfers from and to two places; an
unaligned destination).  `job`, `normal`, `sent`
and `lost` are history.  Payload bits are not modelled, a beat is its place.

### 2.4 `SrioRx`

Also one step per clock.  The SRIO core offers arbitrary packets with arbitrary
bubbles; every ready signal may be low.  The bits of a data beat may look like
either kind of header.  `fate` is what became of each doorbell.

### 2.5 `KcfLink`

A program is short lists of lines, and its place two values.  For kcf_dsp, `nFrame` and
`pc`: the part of the program (0 the request, 1 to `FRAME_NUM` a frame, then the end;
`HostRequest`, `HostFrame`, `HostEnd`) and the line of it, 0 when it is not running.  For
the DSP, `call` and `dsp`: the call `MainTskFxn` is in (`startTxDbWithMSI`, `startSwTx`, a
wait, the tracker, ...) and the line of it; `frame` and `again` are its loop and the
tracker's second use of features, and `Return` says where it goes from each call.  An
access to a bridge register is one line.  The copy a read leaves in
`nTemp`, `nTempPC` or `nCsrVal` may be old when it is written back.  Packets in
flight are two queues.  `FpgaReceives(hide)` and `IrqInfo(hide)` are pulses that a
register write of the same cycle hides, at most `COLLISIONS` times.  In the block
design shipped (`Logic/src/bd/pdb_bd.tcl`) both register masters reach the bridge
through one interconnect; if it serialises reads and writes, the hidden
`IrqInfo` cannot happen and the model allows more than the hardware does.

### 2.6 `Emif2Axil`

`bus` is the store or load that the pins carry or are about to.  External parts,
modelled from how the code uses them: the vendor's FIFOs, and an interconnect
with one place on each AXI-Lite channel, which frees it in a cycle after the
write was made, and which makes a held write before a held read.  The last is
needed because the converter does not wait for the response to a write
(`emif2axil.v:129`).  With a slave that takes the *next* write's data in the very
cycle `handshake_wr` is cleared the converter would wait for ever
(`emif2axil.v:214-232`); this interconnect never does.

### 2.7 `FftPasses`: transforms, transposition, windows

`mem` holds the words of a source, a destination and the scratch memory `m_pTempR`,
`m_pTempI`; `fft` and `dma` the pass the engine and the channel are set up for.
Each operator named after a method of `CFftManager` gives the configuration that
method writes: addresses, counts, strides and links, in words instead of bytes.
With rows of 2 or 4 points the roots of unity are powers of *i*, so the arithmetic
is that of complex integers and exact.  All steps are linear: a matrix with a
single 1, at each place in turn, stands for all matrices; for `FFT2d_R2R`, which is
meant for matrices symmetric about their origin, a symmetric pair.  Scratch memory
starts uninitialised (`memalign`) and keeps what a request leaves for the next.
The engine, external, transforms row by row; its scaling of inverse transforms is
left out.  `TransformIsRight` compares with the two-dimensional transform by
definition.

The other requests are `startTranspose` and `startSubWindowExtract`, one parameter
set each.  `Moved` is what `CKcfTracker::update` does with the region after a
detection, which may move it anywhere; `Window` is, for one axis, the arithmetic of
`prepareBlock` and `getFeatures` on the window of two and a half times its size.
Positions, floats in the code, are multiples of half a pixel.  As an update of any
region inside the image is checked to give one inside it, one update stands for any
number.  The region the host sends first is taken to lie in the image; the program
does not check it.

`FFT_R2C_T` clears its destination before the engine reads the source
(`CFftManager.cpp:213`), so it cannot work in place, although its header speaks of
that case (`CFftManager.h:76`).  No caller does it, and no run asks for it.

### 2.8 `HogTrans`

One step per clock of the accelerator.  `ar` and `r` are the machines that ask for
the block and store its beats, two bytes a cycle into alternating banks; `img` is the
scaler, which reads the banks behind them; `rd` puts the words of a result beat
together; `aw` and `w` write them; `hog` is the start register, edge and done pulses.
The sixteen states of `R` that differ only in the pair of banks are three here, with
the pair given by the row's parity and `flag`.  A byte is represented by its address
and a feature by its place, so that `BlockInPlace` and `FeaturesInPlace` speak of
data.  Sizes are constants, so that beats of 4 bytes and bursts of 2 do for 64 and 64.
The memory answers with any delay; histograms and normalisation just take time.

`BlockAssumption` says what the module relies on and every block of the two trackers
satisfies: an even number of columns, because the scaler takes each row to begin in
the even bank (`IMG.v:279`) while `R` goes on with the other bank after an odd row;
and a first row that is one burst or begins at address 0, because `ar_fst_addr` is
still 0 when a first row of several bursts ends (`hog_trans.v:979-981`).

### 2.9 `SfFft`

As in 2.2, each function of `CKcfTracker` is a list of instructions: it queues commands,
waits, reads results (`use`) and writes, frees or leaves the scope of buffers and of
commands (`change`).  `start`, `init` and `update` are the functions called before the
first sequence, for its first frame and for a later one; `pc` is a place: the sequence,
the frame, the detection, the function called, the instruction and the chunk.  The FFT
task has the higher priority: the main task steps only when the FFT task waits.
`Queue_enqueue` of SYS/BIOS is two steps, the read of the queue's end and the link.
`raced` and `early` are history: a command linked behind one that had left the
queue meanwhile, and a drain of `hFFTDoneSem` (`CKcfTracker.cpp:1021`) with transforms
outstanding.  Both can happen in the model as in the code, and only time keeps them
from happening on the board: the first needs a transform to end in the few cycles
between two loads and stores, the second a new sequence within one transform of the
last.  The properties are about the behaviours without them (`Undisturbed`).  The
first ends in `System_abort`, as `Queue_dequeue` of an empty queue returns the queue.

### 2.10 `HogFeatures`

One step per clock, and only two kinds of step: the scaler sends a pixel or does not.
There is one operator per `always` block or state machine.  A pixel is its number in
the image, a gradient the pixels it is the difference of, the root of a sum that sum,
and a feature the record of what was multiplied and added; so a feature that was made
of a neighbour's root differs from the right one.  `Bin` and `Mod`, the orientation and
length of a gradient, are parameters.  Of the arithmetic units only the latency is
left: `pipe` (five registers and the write) and `roots` (seven).

The scaler finds rows missing only when two pixels of a row have been sent
(`IMG.v:106-116` is a cycle late), hence `Pauses`.  A port of a bank that reads the
word the other port writes gets nothing usable (`Unset`), as the bypass assumes.  The
next image begins after the result has left (`HogTrans`).

`FeaturesAssumption` says what ties the sizes together: counters of 5, 10 and 12 bits
wrap where rows, cells and roots end, so the inner cells must be a power of two, and
the line buffers are longer than what they hold.

Writing the model showed one thing a reader of the code may stumble over.  `isr_count`
wraps to 0 with the last root of an image and the machine then goes to `ISR_IDLE`,
which clears both groups of roots two cycles later (`normalize_truncate_pca.v:544-556`):
of the last cell only the first two bins are multiplied by its roots.  It does no harm, because
the weight of that cell, the first entry of `hamming_param.coe`, is zero.
`FeaturesAssumption` states that (`Hamming[0] = 0`).

## 3. Runs

Distinct states are those of the configurations here.

| run | configuration | bounds | states | shows |
|---|---|---|---|---|
| `dual` | `DualTracker.cfg` | 2 trackers, 5 frames | 2 149 | buffers, signals, messages; implements `TrackContract`; ends |
| `fft` | `FftService.cfg` | 2 trackers, 2 chunks a batch, 1 update | 471 670 | counting notifications is right if no freed request is reused |
| `fft_passes` | `FftPasses.cfg` | 2 requests, 2 or 4 rows and columns; image of 3 by 2 pixels, half pixels | 148 513 | the result is the transform, transpose or window; the region stays in the image; nothing else written |
| `fft_race` | `FftServiceRace.cfg` | same | - | **violated**: template not complete when the code says so |
| `srio_tx` | `SrioTx.cfg` | 2 beats a packet; three groups of values | 341 904 | packets, reads, doorbell order and contents, busy bits; no operation starves |
| `srio_tx_held` | `SrioTxHeld.cfg` | sizes 1 and 3 | - | **violated**: "hold until done" |
| `srio_rx` | `SrioRx.cfg` | 3 packets, 1 or 2 beats, pages of 4 | 71 908 | stream, memory, responses, messages; never blocked |
| `link` | `KcfLink.cfg` | 2 runs of 4 frames, features by FPGA or DSP, 2 hidden pulses | 21 840 | session contract, buffers in overlap, accesses that must not collide, clean handover; ends unless a pulse was lost |
| `emif` | `Emif2Axil.cfg` | 2 registers, 2 values, FIFOs of 3, 6 accesses | 27 597 | writes paired with data, reads see earlier writes; ends |
| `hog` | `HogTrans.cfg` | beats of 4, bursts of 2, 6 blocks, a result of 6 by 6 and of 4 bins | 13 404 | beats asked for and taken agree; pixels and features in place; ends |
| `hog_features` | `HogFeatures.cfg` | cells of 4 by 4 pixels, 18 orientations, 6 by 6 cells, every pause | 18 864 | histograms complete when read, features right and in place; each image ends |
| `sf_fft` | `SfFft.cfg` | batches of 3, 1 or 3 detections, 2 sequences of 3 frames | 79 024 | counting waits is right, commands untouched while queued; ends |

### 3.1 Properties worth a word

- `FrameIntegrity`: while a tracker works, the buffer its message names holds,
  whole, the frame its task counted.  No lock says so; it follows from the two
  START events and the ping-pong.
- `ImplementsContract`: every core answers every frame once and in order, frame
  *f* against the template of frame *f - 1*, and no core is a frame ahead.
- `CountingIsOrder`: notifications carry nothing, yet what a core reads after the
  *n*-th is complete.  `EveryRequestNotifiedOnce` is the account behind it.
- `TransformIsRight`: two passes over a shared scratch memory leave the transform of
  the matrix sent, the right way round, whatever request came before.
- `CopyIsRight`: the region stays in the image wherever a detection moves it, and the
  window holds each pixel of the image in its place and zeros where there is no image.
- `BuffersInOrder`: the same promise as `CountingIsOrder` and `NoBufferReusedEarly` for
  the single-core trackers, where commands are not copied but linked.
- `BlockInPlace`: when the scaler takes a pixel, the banks hold that pixel of *this*
  block where the scaler looks for it, although rows are still arriving.
- `BurstsMatchBeats`: two machines that compute a row's beats apart never disagree.
- `PacketsInOrder`, `ReadsMatchJob`: the beats sent and the beats read are counted
  by separate registers, and tile the transfer as it was when started, however
  the registers are rewritten meanwhile.
- `BusyMeansWork`: a busy bit without work is explained by a hidden pulse or by
  a transfer refused for its alignment, and by nothing else.
- `EnginesFollowStream`: data that looks like a header is never taken for one.
- `MessageKeptUntilRead`: the two-cycle read never frees a newer message.
- `WaitedForThisTransfer`: semaphores that only say "a transfer has ended" are never
  one off.  `NoUseAfterFree`: no transfer goes to a buffer in use or given back.
- `DoorbellsRight`: the doorbell of a transfer follows its last packet, and every
  doorbell carries the info that was set when it was asked for.
- `HistogramsComplete`: whatever the reader of the cells reads next, each pixel has
  added its share to it, and no share of the image before is left.
- `FeaturesRight`: all 31 features of every inner cell, compared with the definition,
  when the writer says it is done.
- `ImplementsSession`: each frame tracked once from its own data, the results
  returned in full before the next run.
- `WritesKeepTheirData`, `ReadGetsItsOwnAnswer`: addresses and data in separate
  FIFOs stay paired, and posted writes are seen by the next read.

### 3.2 Why the bounds are enough

- *Frames.*  The ping-pong has period 2 and the first and last frames are special;
  5 frames (`dual`) and 4 (`link`) include first, last and two in the middle.
  The proofs remove both bounds.  Two sequences show what one
  leaves for the next.
- *FFT.*  Two chunks in a batch are the least that tell "first" from "last", one
  `update` has every kind of request; the code's `N` is `KCF_REGION_NUM * 3 + 4`.
- *Passes.*  Widths and heights of 2 and 4 include the matrices that are not square,
  which tell the strides of rows and columns apart; offsets scale with both.  Two
  requests are enough for one to find the other's scratch memory.
  Half pixels in an image of 3 by 2 give windows that leave it on each side and on
  opposite ones; they tell rounding up from rounding down.
- *Single-core trackers.*  Batches of three have a first, a middle and a last; the
  second update is the first whose template transforms were counted in `train`'s
  absence; the second sequence meets what the first left.
- *FHOG.*  Blocks larger than, equal to and smaller than the result, rows of one burst,
  of a page and its rest, and of several pages, beginning in each lane.
- *FHOG pipeline.*  Pixels and orientations of a cell are as in the code; of 6 by 6 cells
  4 by 4 are inside, the least that have corners, borders, a middle and two rows of each
  bank.  In the first image all gradients have one orientation, so that each pixel
  adds to the word the one before it added to; in the second they differ.  The third
  finds what the first two left.
- *Transmit.*  With `B = 2`, sizes of 1, 3 and 5 beats give no, one and two full
  packets before the last.  Larger `B` only lengthens the data phase.  The groups keep
  apart what need not meet: two kinds of doorbell, two places at either end, and an
  unaligned destination.
- *Receive.*  Three packets allow a message to be read while one arrives and a
  third follows; addresses 1 and 3 with pages of 4 give a packet that ends at the
  page's end and one that leaves it.
- *EMIF.*  `BURST < DEPTH` as in the code (9 and 16): the drivers never post more
  than nine writes between reads (`Srio2PcieLLD.h:115-117`, `HwFhogLLD.h:77-83`).
  Six accesses fill the pipeline and drain it twice.  Only `MainTskFxn`, after
  `BIOS_start`, uses the EMIF; interrupt handlers do not.
- *Pulses.*  Two hidden pulses (`COLLISIONS`) are enough for one to hide in each
  direction; the proofs hold for any number.

Deadlock is checked in every run except those of `SrioTx` and `KcfLink`.  A clocked
design without a request has nothing to do, and `KcfLink` stops when the sequences
have been run; `EveryStartEnds` and `EverySequenceEnds` exclude every other stop.

### 3.3 Fairness

- `DualTracker`: weak fairness for the main task, the interrupt, transfers in
  progress, and every task.  They run on different cores, or on one core under a
  preemptive scheduler where every higher-priority task blocks in turn.
- `FftService`: each core, core 3 and the two hardware completions: separate
  processors and a channel that finishes.
- `SrioTx`, `SrioRx`: the clock runs, and a partner that owes a ready, an answer
  or a beat gives it in the end.  The core and the memory are assumed to do so by
  their protocols; the hosts' writes are arbitrary and not fair.
- `KcfLink`: each of the four programs, and the hardware.  A program that waits
  for a flag stays enabled once it is set until it takes it.
- `Emif2Axil`: the clock, the program, and an interconnect that accepts in the end.
- `HogTrans`: the clock runs, the memory accepts and answers in the end, histograms
  and normalisation end; the program is not fair.
- `HogFeatures`: the clock runs, and the scaler goes on with an image it has begun, which
  `EveryStartEnds` of `HogTrans` is about.
- `SfFft`: the core runs a task that can run, and the engine ends its passes.

No run assumes strong fairness.

## 4. What is proved

Every theorem is about a specification for all values of its constants, under the
named assumptions of its module, which every run evaluates.

### 4.1 The theorems

| module | theorem | says `Spec => [](...)` for |
|---|---|---|
| `DualTracker_proof` | `Invariant`, `TypeCorrect` | `IInv`, `TypeOK` |
| | `TrackersReadWholeFrames` | `FrameIntegrity` |
| | `MessageOwnership` | `MessageHasOneOwner` |
| | `BuffersFreedLast` | `BuffersReleasedLast` |
| | `SignalsNotOverrun` | `NoSignalOverrun` (an action property) |
| | `ContractImplemented` | `Contract!Spec`, the refinement of `TrackContract` |
| `FftService_proof` | `Invariant`, `TypeCorrect` | `IInv`, `TypeOK` |
| | `NotifiedOnce` | `EveryRequestNotifiedOnce` |
| | `CountingRight` | `CountingIsOrder` |
| | `BuffersKept` | `NoBufferReusedEarly` |
| `SrioTx_proof` | `Invariant`, `TypeCorrect` | `IInv`, `TypeOK` |
| | `PacketsKeepOrder` | `PacketsInOrder` |
| | `DoorbellsKept` | `DoorbellsRight` |
| | `ReadsKeepJob` | `ReadsMatchJob` |
| | `BusyHasReason` | `BusyMeansWork` |
| `SrioRx_proof` | `Invariant`, `TypeCorrect` | `IInv`, `TypeOK` |
| | `EnginesInStep` | `EnginesFollowStream` |
| | `PacketsInPlace` | `BeatsInPlace` |
| | `DoorbellsAnswered` | `EachDoorbellAnswered` |
| | `MessagesKept` | `MessageKeptUntilRead` |
| `Emif2Axil_proof` | `Invariant`, `TypeCorrect` | `IInv`, `TypeOK` |
| | `WritesKeep` | `WritesKeepTheirData` |
| | `ReadsAnswered` | `ReadGetsItsOwnAnswer` |
| `SfFft_proof` | `Invariant` | `IInv` |
| | `BuffersKept` | `BuffersInOrder` |
| `BlockEngines_proof` | `PassesInvariant` | `PassesIInv` (of `PassesSpec`) |
| | `OthersKept` | `NothingElseWritten` |
| | `CopiesRight` | `CopyIsRight` |
| | `Invariant` | `IInv` (of `Spec`, the accelerator) |
| | `ImageInvariant` | `IInv /\ ImageInv` |
| | `BurstsAreMatched` | `BurstsMatchBeats` |
| | `BlockIsInPlace` | `BlockInPlace` |
| | `FeaturesLeaveInPlace` | `FeaturesInPlace` |
| `KcfLink_proof` | `Invariant` | `IInv` |
| | `Waits` | `WaitedForThisTransfer` |
| | `NoUseAfter` | `NoUseAfterFree` |
| | `NoCollisions` | `NothingCollides` |
| | `CleanHandovers` | `CleanHandover` |
| | `Implements` | `Session!Spec`, the refinement of `TrackSession` |

Where the runs have bounds, the theorems have none of these: the number of tracker
cores and of frames (`DualTracker`, `FRAME_NUM >= 2`, because with one frame the loop of
`MainTskFxn` would still start a second reception); the chunks of a batch and the
updates (`FftService`, with core 1, core 2 or both); the beats of a packet and all values
of the registers (`SrioTx`); the sizes, addresses, pages and number of packets
(`SrioRx`); the depth of the FIFOs and the registers and values (`Emif2Axil`, under
`BURST < DEPTH`, which the drivers keep); the transforms of a batch, the detections, the
frames and the sequences (`SfFft`); the size of the image, the precision of positions and
the number of requests (`FftPasses`, whose matrices keep 2 or 4 rows and columns); the
bytes of a beat and beats of a page, the blocks, strides and addresses, the size of the
result, its beats and classes of bins (`HogTrans`, for blocks `BlockAssumption` allows); the
frames, the runs of kcf_dsp and the hidden pulses (`KcfLink`, for both builds).

### 4.2 The arguments

None of these properties is inductive.  Each module names the parts of its inductive
invariant `IInv`; there is one lemma per action, or per part of a clock edge, and
`NextIInv` combines them.

**`DualTracker_proof`.**  Whether a buffer may be filled
depends on how far every task is, which only the bits and semaphores record.
`IInv`, whose first conjunct is `TypeOK`, makes that explicit by three counts.  `Delivered` is how many frames the
interrupt has handed over, `Posted(c)` how many STARTs task `c` has posted,
`Consumed` how many of each the main task has taken.

- `SignalInv`: a START bit is set exactly if `Posted(c)` is one more than
  `Consumed`; a semaphore is posted exactly if `nCnt[c]` is one less than `Delivered`.
- `RxInv`: the channel fills the buffer not in operation, with the frame main
  counts; the other one holds frame `Delivered - 1`.
- `MainInv`, `TaskInv`: what each program counter implies about the counters.
- `MsgInv`: while a message is out, its buffer holds the frame counted.
- `AnswerInv`: the template, the answer in the making, and the answers so far.

From `SignalInv` follow the three lemmas on which the rest stands.  `NoneBehind`:
while a frame is on its way every task has started on all earlier ones.
`AllStarted`: when main asks for a frame every task has taken the last.
`PutsLatest`: a task that has not posted START holds the latest frame.  For the
refinement, every `TaskGetReply` is an `Answer` of the contract and every other step a
stutter (`AnswerInStep`, `ContractStep`).

**`FftService_proof`** has two halves.  The first is about one core's program alone.
`Sent(p)` and `Waited(p)` say how many requests of the frame have been sent and waited
for at place `p`, `Src` and `Dst` what the *n*-th request is, and `Held(p)` which results
the core may take to be complete.  `ProgramDisciplined` shows, function by function, that
every instruction agrees with that: what is used is held, what is changed belongs to no
request between `Waited` and `Sent`, and a new request's destination is nobody else's.
The second half is about the queue: `Ordered` says that the requests of a core between
`Waited` and `Sent` are, in this order, notified, in service and in the core's list.
Six lemmas say what each kind of step does to it, and hold as long as no notification was
misdirected (`OrderInv`).  `EveryRequestNotifiedOnce` needs no such condition and is an
invariant of its own: `Balance` is the account of one step.

**`SrioTx_proof`.**  `StartInv`: in the cycle that sees a start bit rise the registers are
still those of the request, and nothing is started while the bit is set.  `ArbiterInv`:
the state says whose request is on the stream.  `PacketInv`: what was sent, the packet
under way and the packets counted make up the transfer, and each packet begins at a
multiple of `B`.  `ReadInv` says the same of the bursts: those on their way follow one
another from the beat consumed to the address to be asked for next.

**`SrioRx_proof`.**  `StreamInv`: both engines know where the packet on the stream begins.
`BurstInv`: at most one burst is open, and the address of a packet still waits only
before its first double word.  `DoorbellInv` numbers the doorbells in the order they are
accepted and gives each response its number.  `SlotInv`: the answer to a read under way
is the message in the slot.

**`Emif2Axil_proof`.**  Addresses and data travel apart, so the invariant says twice where
each posted write is: taken from the request FIFO, in it, on the pins or with the DSP
(`AddressInv`), and the same for its data (`DataInv`).  `ReadInv`: a read goes on only when
all writes before it have been accepted.  `RoomInv` counts the writes since the last read,
which is why no FIFO overflows.

**`SfFft_proof`** has the two halves of `FftService_proof`.  The commands of an update are
numbered in the order they are queued in (`Nth`); `Sent(p)` and `Waited(p)` are the numbers
of the last one queued and of the last one waited for at place `p`, `Held(p)` the results
that are complete there, and `ProgramDisciplined` shows function by function that each
instruction agrees.  `Ordered` says that the commands between these two numbers are done,
in service and in the queue, in this order and with nothing else among them; then no
command waiting is one that the tracker changes.  Two things differ from core 3.  The
template's transforms are queued in one frame and counted in the next: when training has
waited for the last of the others, none is under way and the numbers begin anew with them.
And `init` drains the semaphore, so that how many have been waited for depends there on
the FFT task; `Reached(p)` is the range.  A command lost in `Queue_enqueue` or a transform
that ends after the drain breaks the order for good, so `IInv` claims it only as long as
`Undisturbed` holds, as `BuffersInOrder` does.

**`BlockEngines_proof`, `FftPasses`.**  `PassesFit`: every word that a parameter set of a request's two
passes stores belongs to its result, to the source of an inverse transform or to the
scratch memory; `PassInv` keeps that of the sets still to come.  `RegionStays`: `update`
leaves any region that lies in the image inside it, and no smaller than a pixel.
`WindowFacts`: of such a region the part that is copied lies in the image and in the
window, and what is not copied lies outside the image; a window that missed the image
altogether would break it, and `RoundFacts` with the least size of a region shows that
none does.  Then no two steps of a transfer store to the same place (`OnePlace`), so each
pixel is where it belongs (`WindowCopied`, `TransposeCopied`).

**`BlockEngines_proof`, `HogTrans`.**  `FftPasses` names its state and specification
apart (`PassesInit`, `PassesNext`, `passesVars`), so that one module can extend both.
The invariant `IInv` has nine parts.

- `Typing`; `StageInv`: a start is reading (`R` and the scaler), computing, writing or
  ending, and never two of these; the start register, the edge and the done pulses say
  which.  `wea` is silent from the moment the features are computed for this reason only.
- `RowInv`: `R` counts the rows of the block and stores nothing after the last.
- `ScalerInv`: the scaler ends with the last row, and has had to wait for the last row of
  the block before: otherwise the features would be computed while `R` still stores.
  This is where the scale matters (`SignalReaches`): `digits` looks for a factor that
  puts the last pixel within half a pixel of its place, and that, not the ratio itself,
  is why the last but one row of the result needs the last row of the block.
- `AddressInv`, `BeatInv`: the addresses and beats that have been put on the channel, by
  the counters of `AW` and `W`, which count down and wrap.
- `ResultInv`: the words of the next beat are being read (`Fetching`), have been read
  (`Fetched`) or are on the channel (`Held`).  `Filled(n)`: the last words of the shift
  register are the first `4 * n` of that beat.  The word at the banks' outputs is a cycle
  behind the address, its class of bins (`stitch`) another: when a class ends, the two
  differ, and `Fetching` says by how much.
- `RequestInv`, `TakingInv`: a *place* in the block is a row and a beat of that row.
  `Leads(from, to)`: the bursts under way lead from one place to another without a gap.
  `Requesting` gives the place of `AR` from its counters (at each burst the rest of the row,
  a page at a time), `Taking` and `RPlace` that of `R` from other counters (the rest of
  the row, a beat at a time); the invariant is that the bursts lead from the place of `R`
  to the place of `AR`.  `Places` that end a row are named by the next one, so both agree
  when rows share a beat.  If `R` has taken the last row, its place is the end of the
  block; then so is that of `AR`, and nothing is under way.

What is in the banks is a second invariant, `ImageInv`, that rests on the first.

- `BytesInv`: `AtByte` says that `R`'s counters, the byte in its beat and the flag of its
  pair of banks all stand at the same byte of the same row; `Stored`, that the banks hold
  the rows before and that part of the row, every byte at its `PlaceIn` its `Bank`, and
  that they are as long as that, no longer.  So the next write, which goes to the end of a
  bank, goes to its place (`StoreByte`), and a row that is complete leaves the two pairs
  ready to change roles (`RowSwitch`).  A row with an odd number of columns would break
  it, which is what `BlockAssumption` excludes.  `BytesStart`, `BytesPair`, `BytesLast`
  and `BytesWait` are the states of `R`; that the beat it is offered is the right one
  (`BeatOffered`) is where `Leads` of `IInv` is needed.
- `SignalInv`, `SeenInv`: the rows around the place that the scaler interpolates are in the
  banks.  The signal it compares with is a cycle old, so at the first column of a row it
  is still that of the row before; that does no harm, because a row is only entered after
  the last column of the one before, and the signal of a row covers the next row as
  well (`NeedCovers`).

The arithmetic on remainders and quotients is in lemmas of its own (`DivisionUnique`,
`PageParts`, `FirstCounters`), the case analysis of the state machines in others
(`RStateMoves`, `ControlMoves`, `RMoves`).  Two assumptions of the module are there for the
proof: `ScaleAssumption`, that the loop of `calcResizeFactors` ends with 8 digits (it does
for every length when the result has 136 rows, as in the code); and `PowerAssumption`,
three facts about the powers of two up to 256, which TLC evaluates and the provers cannot.

**`KcfLink_proof`.**  Host and DSP never compare how far they are; they only count.  The
invariant says what the counts are at each place, and that they agree.  `Waited` and `Asked`
are how many blocks (the sequence information is the first) the DSP has waited for and
asked for, `Granted` and `Written` how many requests the host has taken and how many writes
it has begun.  `CountInv`: `Asked` is `Granted` or one more, and the writes done are the
blocks waited for, or one more while a doorbell is still on its way.  The rest is about
what goes between the two.

- `MsgInv`: a message sent and not taken (`Pending`) is in exactly one place of four: with
  its doorbell, in the MSI slot, with `waitingInterrupt`, in its semaphore; or it was lost
  with a hidden pulse.  `SlotInv`: what the slot, the event and the thread say of each other.
- `TokenInv`: `Out` is the doorbell the DSP waits for at its place.  It too is in one place:
  still a transfer, on the way, with the controller, in its semaphore.  When it waits for
  none, there is none.
- `OutdbInv`, `CsrInv`: at most two packets are under way to the bridge, the response to its
  doorbell before the DSP's own; and a busy bit is set while its doorbell is not answered,
  or was left by a hidden pulse.  This is why `sendDB` is never robbed of its status, and
  why reading, modifying and writing `SRIO_CSR` loses nothing: a copy is still current when
  it is written back.
- `DataInv`, `ResultInv`: the block in each buffer is that of this run and of the frame the
  counts say; what was tracked and what the host may read are those of this run.

There is one lemma for each line of a program and each step of the hardware, `NextStep`
combines them.  `NothingLeft`, that nothing is pending once the host has taken `PROCDONE`,
gives `CleanHandover`, and that a run begins with nothing of the last.  For the refinement,
`HostInit` is the contract's `Request`, the tracker's result its `Track`, the host's read
its `Return`, and every other step a stutter.

### 4.3 Only model-checked

Every liveness property: they need fairness and `ENABLED`, which the prover does not
handle.  Every other property of a passing run is a theorem, but for three that are about
sums over sets.  That a sum grows by what is added takes induction over the set, which the
installed provers cannot do:

- `TransformIsRight` of `FftPasses`: two passes leave the transform, whose points are sums
  over the rows and columns of the matrix.
- `HistogramsComplete` and `FeaturesRight` of `HogFeatures`: a word of a cell is the sum of
  the shares of the pixels around it, and the features are made of these sums.  The
  pipeline has several dozen registers besides; an invariant would say of each which pixel
  it holds.

The inductive invariants were tried with TLC on small instances
before they were proved.

## 5. Findings

1. `fft_race`: core 3 frees a request and then reads from it whom to notify
   (`Kcf_Core3/src/FFTTask.cpp:103-107`).  If the other tracker allocates that block
   in between, it gets the notification: it takes an unfinished transform for
   finished, and the core that asked waits for ever.
2. `srio_tx_held`: a completion pulse that coincides with any register write is
   dropped, and the busy bit, documented as "hold until sw_done", stays set for
   good (`srio_pcie_bridge.v:187-188, 318, 453-461`).

Without a run: the interrupt handler clears *all* status bits
(`Kcf_SF/src/CSrioManager.cpp:118`), also the one the interrupted `sendDB` polls.  If the
next run of kcf_dsp started before the DSP had seen the response to its last doorbell,
the DSP would poll for ever.  The window is a few register accesses against the start
of a program on the host; `HostInit` assumes it is not hit.

## 6. What is not modelled

- KCF arithmetic, sub-pixel search, `cvResize`: floating point.  The fixed-point
  arithmetic of the FHOG accelerator (orientations, roots, interpolation, rounding and
  truncation), and its soft trigger, which no program uses.
- Rounding and scaling of the FFT engine.  The scales of `Kcf_SA` (its region may shrink
  by a factor each frame; `FftPasses` has the update of `Kcf_SF`).
- Failing allocations, failing SRIO transfers, a device that cannot be opened:
  the programs stop.
- Caches: buffers are read as they are in memory.
- A host program killed in mid-sequence: nothing in the code handles it.
- The race of a block's packets with the start command of the accelerator
  (`Kcf_SF/src/CKcfTracker.cpp:530`): two paths of hardware outside the repository.
- MSI slots 1 to 15, which no program uses.
- Throughput tests, register tools, the xdma driver (only what kcf_dsp relies
  on), vendored libraries, generated FPGA files, the benchmark's scripts.  Of the
  115 000 lines counted as implementation most are these: the chip support library,
  a copy of a vision library and the driver, which the project uses and did not write.

## 7. Plan

Done: the core (`DualTracker`, its contract and proofs), the FFT service, the bridge
in both directions, the session with its contract, the EMIF converter, the transforms,
windows and transpositions, the single-core trackers' queue, the accelerator's data
movement and its pipeline.

Next, in order:

1. An abstract transfer (`TxContract`: packets in order, then one doorbell) that
   `SrioTx` implements and `KcfLink`'s `SwTransfer` abbreviates.
2. Killing and restarting kcf_dsp in mid-sequence in `KcfLink`, and what would have to
   be cleared for the next run.
3. Splitting of descriptors (`CSrio2PcieManager.cpp:77-109`).

What could still be proved of `HogFeatures` is what does not speak of sums: a pixel's four
cells lie in four banks, each at its own word, for every `CELL` and `N`.

## 8. Running

In this directory:

```
tlc -workers 2 -config DualTracker.cfg DualTracker.tla     # any row of section 3
tlc -workers 2 -config SrioTx.cfg MCSrioTx.tla             # values in a module MC...
tlapm DualTracker_proof.tla                                # any module ..._proof
```

`SrioTx.cfg` and `FftPasses.cfg` take two minutes, `SrioRx.cfg`, `FftService.cfg` and
`HogFeatures.cfg` one, the others less.  `BlockEngines_proof` takes about
twelve minutes to prove, `KcfLink_proof`, `FftService_proof` and `SfFft_proof` a few, the others one or
two.
