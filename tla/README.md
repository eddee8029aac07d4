# A TLA+ verification of the simulated operating system

The program (`src/src`, `src/include`) is a small operating system simulator in C:
threads that play CPUs, a loader and a timer; a multi-level ready queue; and a
memory system with regions, page tables, swapping and a TLB. This directory holds
TLA+ models of its parts, TLC runs over small instances, and TLAPS proofs.

Everything below is about the build the repository ships: `os-cfg.h` defines
`MLQ_SCHED`, `MAX_PRIO 140`, `CPU_TLB`, `CPUTLB_FIXED_TLBSZ`, `MM_PAGING`, `SYNCH`,
`IODUMP`, `TLB_DUMP`, `PAGETBL_DUMP` and `MMDBG`.

## 1. Inventory

| component | state it keeps | operations | what makes it correct |
|---|---|---|---|
| timer (`timer.c`) | `dev_list` with `done`, `fsh` per device, `_time`, `timer_stop` | `timer_routine`, `next_slot`, `detach_event`, `attach_event`, `start_timer`, `stop_timer` | a barrier per slot, no lost wake-up, nobody stranded, accesses under different locks never meet |
| CPU threads (`os.c`) | `proc`, `time_left`, `done` | `cpu_routine` | a process is in one place, one instruction per slot, every process finishes, CPUs stop |
| loader thread (`os.c`, `loader.c`) | `i`, `done` | `ld_routine`, `load` | every process is added at its time, exactly once |
| MLQ scheduler (`sched.c`) | `mlq_ready_queue`, `slot[]`, `queue_lock` | `get_mlq_proc`, `check_new_process`, `set_slot_for_queue`, put, add | priorities and slots are kept, the scan ends, NULL means nothing is ready |
| ready queue (`queue.c`) | `proc[]`, `size` | `enqueue`, `dequeue`, `empty` | bounded FIFO; a full queue ends the program |
| instructions (`cpu.c`) | `pc` | `run` | one instruction per call, none past the end |
| TLB front end (`cpu-tlb.c`) | `tlb_lock` | `tlballoc`, `tlbfree_data`, `tlbread`, `tlbwrite` | instructions exclude each other, the lock is always given back, accesses stay in their region |
| TLB cache (`cpu-tlbcache.c`) | array of 64-bit entries | `tlb_cache_read`, `_write`, `_invalidate` | a bounded map, no page twice |
| regions and faults (`mm-vm.c`) | `symrgtbl`, `vm_freerg_list`, `sbrk`, `fifo_pgn` | `__alloc`, `__free`, `get_free_vmrg_area`, `inc_vma_limit`, `pg_getpage`, `find_victim_page` | regions disjoint, no address lost, FIFO list lists the pages in RAM |
| page tables and frames (`mm.c`) | `pgd` | `alloc_pages_range`, `vmap_page_range`, `__swap_cp_page`, `init_mm` | every frame is used exactly once |
| page table entries (`mm.h`, `bitops.h`, `mm.c`) | 32 bits per page | `pte_set_fpn`, `pte_set_swap`, the decoding in `pg_getpage`, `PAGING_PGN`, `PAGING_OFFST` | an entry decodes to the place the page was put, translation is one to one |
| physical memory (`mm-memphy.c`) | `free_fp_list`, `storage` | `MEMPHY_format`, `get_freefp`, `put_freefp`, `read`, `write` | no frame handed out twice |

How they interact. `main` attaches one timer device per CPU and one for the
loader, starts all threads, joins the CPUs and the loader and then calls
`stop_timer`. CPUs and the loader share the ready queues, and meet at `next_slot`.
Each dispatched process executes one instruction per slot; its memory instructions
go through the TLB to the region tables and page table of the process and to the
RAM and swap devices, which all CPUs share.

What is hard. Threads share state under several locks and, in places, under none:
`done` of a device is written under two different locks and `_time` under no lock;
`get_mlq_proc` tests queues and slots unlocked; `tlbread` takes no lock. An
instruction is a sequence of steps that may fail half way: some frames taken, some
victims swapped out, the free region list already cut. The resources (queue, RAM,
swap, TLB) have limits, and termination depends on every thread. The list
`hazards` in `PROJECT.json` names each of these at its line.

## 2. Modules

                   MCTimer, TimerProofs
                            |
    SlotClock <-implements- Timer
      ^   ^ INSTANCE
      |   OsSim <- MCOsSim, OsSimProofs <- OsSimSchedProofs
      | INSTANCE
      System <- MCSystem, SystemProofs
      | EXTENDS              | EXTENDS
      v                      v
      Paging <- MCPaging, PagingProofs
      | INSTANCE
      v
    TlbMap <-implements- TlbCache <- MCTlbCache
                          |     ^ EXTENDS
                          |     TlbRace <- TlbCacheProofs
                          | EXTENDS
                          v
                        Word <- Pte <- MCPte, PteProofs

    WordProofs (about Word) <- TlbCacheProofs, PteProofs

`SlotClock` and `TlbMap` are abstract: what `timer.c` promises the other threads,
and what `cpu-tlbcache.c` promises the memory system. `Timer` and `TlbCache` are
shown to implement them, `OsSim`, `Paging` and `System` are built on top of them, so
that each large model uses the small interface of the component below. The `MC`
modules are instances for TLC.

**Timer.** One action per critical section of `timer.c`. `dpc[d]` is where a
device is (working, in the `while` of `next_slot`, asleep in
`pthread_cond_wait`, exited); `tpc` and `temp` are the program counter and the
cursor of `timer_routine`. A signal wakes only a thread that is asleep, and
sleepers may wake spuriously. `SlotAgreement` compares the history variable
`slots` (returns from `next_slot`) with `_time`. The mapping to `SlotClock` counts
a device whose flag the timer is about to clear as already running: that is the
moment the new slot begins for everybody, although the flags are cleared one by
one.

**OsSim.** `cpc[c]` is the program counter of a CPU thread. The actions `Idle`,
`Finish`, `PutProc`, `Continue`, `GotNothing`, `Stop`, `Dispatch` and `Run` are
the branches of `cpu_routine`; `CheckEmpty` .. `Dequeue` are `get_mlq_proc`, with
every unlocked read of a queue size or a slot a step of its own, and the refill of
`slot[]` slot by slot while the lock is held. `LdWait`, `LdAdd` and `LdDone` are
`ld_routine`. A full queue sets `exited` and nothing happens any more. `since`
and `ran` are history variables for two of the properties.

**Word.** The bit operators of `bitops.h` and the field operators of `mm.h` and
`cpu-tlbcache.h`. A word is the set of the positions of its one bits: `&` is
intersection, `|` union, and a shift moves every position, so that masks of any
width are exact and nothing depends on the size of an integer.

**TlbCache.** The array of 64-bit entries, with valid bit, process id, page number
and frame number read and written through their masks; the random victim of a full
TLB is a nondeterministic choice. The process id is a signed `int`, so ids are words
of bits 0 to 30. Each call is one step.

**TlbRace.** The same array when calls overlap: `tlbread` calls `tlb_cache_write`
without `tlb_lock` (`cpu-tlb.c:294`) and the locks in `cpu-tlbcache.c` are commented
out. Each turn of a loop and each store is a step (`MatchStep`, `FreeStep`,
`StoreEntry`; `FindStep`, `ClearEntry`), so two CPUs can pick the same slot, and an
invalidation writes its copy of an entry over one that was stored meanwhile. The
calls of all processes overlap freely, a superset of what the lock lets happen; a
process has one call in flight, since it is on one CPU. The module has no run of its own; its
properties are proved (section 4). The effect is that
entries are lost, which is a miss later and nothing else: no page is cached twice and
no old frame comes back. `Paging` therefore goes on using the calls of `TlbMap` as
single steps: with entries lost, `TlbCoherent` speaks of fewer entries.

**Pte.** One page table, entry by entry, as 32-bit words. `Map`, `Evict`, `SwapIn`
and `Unmap` are the four uses of the encoders (`vmap_page_range`,
`alloc_pages_range`, `pg_getpage`, `__free`) and `Decode` is what `pg_getpage` reads.
An entry is never cleared, so each operation meets the bits of the earlier ones;
the history variable `place` says where the page was really put. `Paging` uses the
places; `EntryFaithful` is what allows it to.

**Paging.** `op[c]` is the memory instruction a CPU is executing. ALLOC takes the
lock and a region (`AllocReuse` from the free list, `AllocBrk` by moving `sbrk`),
collects frames one at a time (`TakeFrame`, `SwapOut`, or the failures `NoVictim`
and `NoSwap`), maps them (`MapPages`) and caches them (`CachePage`). FREE walks
the pages of the region (`FreePage`), WRITE and READ touch one page. Each step
that needs a page may first go through `pg_getpage`: `FaultPeek` and `SwapIn` are
the read and the update of the RAM's free list in `MEMPHY_get_freefp`, `SwapPeek` and
`SwapBack` the read and the update of the swap's free list in `MEMPHY_put_freefp`.
No lock protects them when `tlbread` is the caller. The list operations of ALLOC and
FREE, which hold `tlb_lock`, stay one step each: they can fall between the two steps
of a READ, which is where frames are lost (run `paging_read`), but a
READ does not fall into the middle of one of them. `FaultFails` is a fault with the RAM
full. `Left`, `Piece` and `Carve` are `get_free_vmrg_area` as it is written: its
loop has no exit when a region is found (`NonEmpty` drops the nodes it leaves empty). `AllocZero` is an ALLOC of size 0, which
stays in that loop for ever (pc `"spin"`); `BadRegion` a region id that
`get_symrg_byid` rejects, after which two of the callers keep the lock. The content of a frame is the label of
the page last written there.

**System.** Paging under the slot barrier. In a slot a CPU executes nothing or a CALC
(`Calc`), or it enters a memory instruction (`Call`), gets the lock and starts
(`Execute`) or is turned away (`Reject`), goes on step by step (`Proceed`), and
arrives at the barrier when the instruction returns (`Return`, a part of each of these).
`EndSlot` is the end of the slot in `SlotClock`. The order in which processes reach
the CPUs is left open here; it is the subject of `OsSim`.

## 3. Runs

| run | instance | what it shows |
|---|---|---|
| `timer` | 3 devices, detaching after 0 to 2 slots | all safety properties, `next_slot` always returns, shutdown, refinement of `SlotClock` with its liveness |
| `tlb_cache` | 3 entries, 2 processes, 2 pages, 2 frames, numbers at the edges of their fields | no page twice in the array, refinement of `TlbMap`, and call by call |
| `os` | 2 CPUs, 4 processes (one an empty program), 2 levels, time slot 2, queues of 2 | no process lost, duplicated or run twice in a slot; every process finishes unless a queue is too small for its level; `get_proc` returns, and its early NULLs are explained by another CPU; the first CPU of a slot keeps to the priorities; a process gets a whole time slot and no more; slots overdrawn by at most one per extra CPU |
| `paging` | 1 process, 2 regions, 2 frames, 3 swap frames, requests of up to 3 pages | frames, swap, TLB, data and regions consistent; a WRITE stays in its region; every instruction ends |
| `paging_locked` | 2 CPUs, 2 processes, 2 frames, 1 swap frame, no READ, region ids that are rejected and sizes of 0 | ALLOC, FREE and WRITE exclude each other, `tlb_lock` is given back on every way out but two, and `fifo_pgn` stays sound through every failed allocation and fault |
| `system` | 2 CPUs, 2 processes, 1 RAM frame, 4 swap frames, pages of one byte | no frame and no data is lost when processes compete for the RAM; every slot ends unless a lock was kept, although the mutex is not fair |
| `pte` | 3 pages, numbers at the edges of their fields, swap offsets up to 511 | an entry decodes to the place of its page after any history; two addresses never share a byte of RAM |

Runs that find a violation, each a disagreement between the code and its own
comments (quoted in `PROJECT.json`, `findings`):

| run | what happens |
|---|---|
| `os_stop` | an idle CPU never tests `done`: after the last process it waits for slots for ever, and `main` for it |
| `os_slots` | two CPUs both see the last slot of a level (`sched.c:103`, unlocked) and both take it (`sched.c:118`): `slot[i]` is -1, and the comment at `sched.c:53` says `curr_slot = 0..(MAX_PRIO - prio)` |
| `paging_fault` | a fault with the RAM full fails although a victim and a swap frame exist, because the loop's condition is false at once |
| `paging_read` | READ takes a frame without the lock: another CPU's update falls between its read and its own update of the list |
| `pte_swap` | a page in swap frame 512 is read back from swap frame 0: `PAGING_SWP` masks the offset with the logarithm of `PAGING_MEMSWPSZ`, `BIT(14)`, whose comment says 16 MB and which is 16 KB |

The models show more behaviour of this kind, which has no run of its own because it
is visible in one action or by changing one constant of a run:

* a CPU can get NULL although a process was ready all through its `get_proc`: `sched.c:93`
  tests a queue that another CPU has emptied by the time of the dequeue. `NullMeansTaken`
  says that this other CPU then runs, `NoWorkAbandoned` and `EveryProcessFinishes` that the
  early NULL does no harm. `PriorityRespected` is about the first CPU of a slot: without
  `FirstInSlot` it fails in run `os`, because another CPU may refill the slots behind the scan. Of the range of the
  slots, which run `os_slots` refutes, `SlotFloor` is what is left with several CPUs;
* READ gives a swap frame back without the lock too (`SwapPeek`, `SwapBack`;
  `mm-memphy.c:190` to `196`): with `SwapConserved` in the place of `FramesConserved` in
  `MCPagingRead.cfg` TLC finds a swap frame that another CPU takes in between and that ends up on
  the list with a page in it;
* with the swap full, a failed ALLOC frees an uninitialised frame number and loses the
  frames it had (`NoSwap`; set `NSwp = 1` in `MCPaging.cfg` and `FramesConserved`
  fails). Run `paging_locked` goes through it and checks what survives;
* an invalid region id and an ALLOC of size 0 leave `tlb_lock` held for good: the two
  exceptions of `LockGivenBack`, and `Abandoned` in `EverySlotEnds`. From then on the
  barrier stops every CPU, the idle ones too;
* with `"read"` in `Ops` of `MCPagingLocked.cfg` `Exclusive` fails: `tlbread` unlocks
  what another CPU has locked (`ReadOutOfRange`, `PageAbsent`, `FaultFails`);
* an ALLOC from a larger free region loses the pieces before the last one (`Carve`
  and `Piece`): no property claims that address space is conserved;
* `AllocFails` enlists a local variable of `__alloc` (`mm-vm.c:114`);
* `InRange` accepts the address `rg_end`, the first byte of the next page when the
  size is a multiple of the page size (`cpu-tlb.c:351`): the exception in
  `WriteStaysInRegion`.

The comment in `vm_map_ram` that fears an "endless procedure" when frames are short is
unfounded: `alloc_pages_range` runs out of victims. Runs `paging` and `system` ask for
more pages than the RAM has, and `InstructionEnds` and `EverySlotEnds` hold in them.

The passing runs are instances in which these do not occur, or properties they do
not touch: `paging` and `system` have enough swap for every page, `paging_locked` and
`system` leave READ out.

### Bounds

* `Horizon` (SlotClock, OsSim): the slot number stops there. Only the loader reads
  it, and compares it with start times at or below `Horizon`.
* `MaxSlots` (Timer): slots a device lives for. Two are enough for a device to meet
  the leftovers (`done`, a signal, a sleeper) of the slot before; with 0, 1 and 2
  in any combination devices leave while others go on. The proofs have no bound
  on it.
* OsSim: two queues are the fewest with a higher and a lower level. In run `os` the
  processes of the higher level use up its two slots, so that the lower one is served and the
  slots are refilled; a process arrives while others run; one ends with part of its time slot
  left; and three share a queue of two, which is full in some interleavings and never in
  others. Two CPUs show every race of a pair; the invariants are proved for any number.
* Paging: pages of two bytes make aligned and unaligned sizes different. Two frames
  and three pages force evictions and faults; two TLB entries force replacement.
  `NPage` bounds the address space (the code's own limit is far away); `MaxSize`
  bounds sizes and offsets; in `paging` it allows a request for one page more than
  the RAM has. In `system` pages have one byte and
  there is one RAM frame, the fewest for which processes can compete; its swap, and
  that of `paging`, hold every page, that of `paging_locked` does not.
* Pte and TlbCache: the fields have their real widths; the numbers put into them are
  zero, all ones, and the highest bit alone, the ones that a mask or shift off by one
  gets wrong.
* `Symmetric` permutes CPUs and processes, which no definition tells apart; it is
  used in safety runs only.

### Fairness

* Timer: weak fairness of every thread's steps, as a preemptive scheduler gives and
  as mutexes held for a few instructions do not endanger. Spurious wake-ups are not
  fair, and a device is never forced to call `next_slot`.
* OsSim: weak fairness of every thread and of the end of a slot, which is the
  liveness of `SlotClock` that run `timer` checks for `Timer`.
* Paging: weak fairness of the steps of an instruction under way, none for starting
  one.
* System: weak fairness of every CPU's thread and of the end of a slot. Nothing is
  assumed of the mutex: a CPU may lose the race for the lock to every other CPU, but
  only once per slot to each.

Deadlock is checked in every run but `paging_locked` and `system`, where an invalid
region id leaves `tlb_lock` held for good: the program really stops there.

## 4. Proofs

For every value of the constants, from the named assumptions of the modules and the
hypotheses a theorem states. Every invariant and every action property that a passing
run checks is also a theorem; TLC checked it, and the inductive strengthening it needs, on
small instances before it was proved (those of `TlbRace` on two processes, pages, frames and entries).

| module | theorems (the property each one states) |
|---|---|
| `TimerProofs` | `TypeCorrect` (`TypeOK`), `SlotsAgree` (`SlotAgreement`), `NoRace` (`RaceFree`), `NoneStranded` (`NobodyStranded`), `RefinesSlotClock` |
| `OsSimProofs` | `TypeCorrect` (`TypeOK`), `ProcessesConserved` (`OnePlace`), `OnePerSlot` (`OneInstructionPerSlot`) |
| `OsSimSchedProofs` | `NothingAbandoned` (`NoWorkAbandoned`), `OverdraftBounded` (`SlotFloor`), `SlotsOnOneCpu` (`SlotInRange`), `ExitJustified` (`ExitMeansTooMany`), `Preempted` (`SliceRespected`), `NullExplained` (`NullMeansTaken`), `FirstRespectsPriority` (`PriorityRespected`) |
| `TlbCacheProofs` | `TypeCorrect` (`TypeOK`), `CachedOnce` (`NoDuplicate`), `RefinesTlbMap` (`ImplementsTlbMap`), `CallsImplement` (`CallsAgree`); for `TlbRace` `CachedOnceRacing` (`NoDuplicate`), `CurrentRacing` (`EntriesCurrent`), `RaceTypeCorrect` (`RaceTypeOK`) |
| `PteProofs` | `TypeCorrect` (`TypeOK`), `EntriesFaithful` (`EntryFaithful`), `OneToOne` (`TranslationInjective`) |
| `PagingProofs` | `TypeCorrect` (`TypeOK`), `RegionsApart` (`RegionsDisjoint`), `TlbInStep` (`TlbCoherent`), `FifoRight` (`FifoSound`), `WritesStay` (`WriteStaysInRegion`) |
| `SystemProofs` | `MutualExclusion` (`Exclusive`), `LockReturned` (`LockGivenBack`), `RegionsLive` (`LiveMapped`), `SwapAccounted` (`SwapConserved`), `FramesAccounted` and `SystemFrames` (`FramesConserved`), `DataKept` and `SystemData` (`DataIntegrity`), `SystemIsPaging`, `SysTypeCorrect` (`SysTypeOK`), `SlotsHoldInstructions` (`NoneAcrossSlots`) |

**`TimerProofs`** (assumptions: `N` is a positive natural number, `MaxSlots` and `Horizon`
are natural numbers). `SlotAgreement`, `RaceFree` and `NobodyStranded` are not
inductive: they say nothing of devices that wait. The inductive invariant `IInv`
adds the number of slots of a waiting device by whether the timer has passed it in the
current pass, the flags of the devices the timer has collected, and the values of its
counters. From it follow the four invariants and, step by step, `RefinesSlotClock`:
every behaviour of the threads is, under the mapping, a behaviour of the slot barrier.

**`OsSimProofs`** (assumptions: finitely many CPUs, at least one queue, and a configuration
whose priorities are queue indices). `IInv` is the type invariant, `OnePlace`,
and what these need: a CPU that scans holds no process (`ScanInv`), the scan's
indices are in range (`IndexInv`), a process that has run in this slot is on a CPU
that waits for the next one (`RanInv`), and only loaded processes are freed
(`FreedInv`). In particular, no queue is indexed out of range.

**`OsSimSchedProofs`** adds what the unlocked scan of `get_mlq_proc` has seen. A process
that was ready all through the call is ahead of the scan or the scan comes back for
it (`SeenInv`); a queue that was tested and is empty now has been emptied by a CPU that
keeps its process to the end of the slot (`EmptiedInv`), which gives `NullExplained`; with one CPU
there is no such other. With any number (but one at least) every ready process has a
caretaker (`WatchedInv`), which gives `NothingAbandoned`: the early NULL of a CPU that lost
a race does no harm. `OverdraftBounded` counts the CPUs between the test of `slot[i]`
and the dequeue (`SlotInv`); with one CPU there is nobody else between the two, which gives
`SlotsOnOneCpu`. `ExitJustified` counts the entries of a full queue: by `OnePlace` they are different
live processes of one priority, and the one that finds no place is another. `Preempted` needs `time_slot > 0`: `os.c:82` tests for
exactly 0. For `FirstRespectsPriority` (`PassedInv`) a queue the scan has passed is out of slots as
long as no other CPU has moved in this slot (`FirstStays`); one that has may refill the slots behind
the scan. A single CPU is always the first.

**`WordProofs`** has what a field macro reads after another one wrote: the field written, or, from
masks that do not meet, what was there before.

**`TlbCacheProofs`** (assumptions: `TLBSZ` is a positive number, the numbers fit their
fields). `NoDuplicate` is inductive together with the types and with the fact that a
valid entry names a process, a page and a frame (`Meaningful`), so that a hit is never taken
for a miss. The refinement maps the array to the function from pages to frames; by
`NoDuplicate` the array has a free entry exactly when the map has room, so that a write
pushes a page out only when it must. For the calls that overlap (`TlbRace`), the invariant says what a call
in flight knows: there is no entry for its page where its scan has been, and none but the one it has
picked when it stores or clears (`CallInv`). Other processes only add entries for their own
pages, so they never make that false.

**`PteProofs`** (assumption: the numbers fit their fields). The flags and the frame number
of an entry are always the last ones put there, whatever its other bits are
(`FlagsFaithful`), and two pages are never in one place (`NoSharedPlace`). `EntriesFaithful`
has the hypothesis that swap offsets have 9 bits, the mask of `PAGING_SWP`; run `pte_swap`
shows that it is false beyond.

**`PagingProofs`** (assumptions: positive sizes, and a name for "no CPU") has no hypothesis at all:
READ runs without the lock beside the other instructions, the swap may be full, regions may be
lost. (Its calls of the TLB are those of `TlbMap`, one step each; `TlbRace` is about the rest.)
The argument is that whatever belongs to a process changes only in the steps of the one CPU that
runs it (`OpInv`). `IInv` has, for each process, the shape of its area
(`AreaInv`: regions begin with a page and end below `sbrk`), disjointness
(`DisjointInv`), what ALLOC and FREE are in the middle of (`WorkInv`: the pages `alloc_pages_range`
collects frames for are absent and in no other region; the pages `__free` has passed are absent),
absence of every page outside the area or in a free region (`AbsentInv`), agreement of the TLB with the
page table, with no entry for a region being freed (`TlbInv`), `fifo_pgn` element by element
(`FifoInv`), and that a page whose swap frame is being given back is in RAM and not yet in `fifo_pgn`
(`BackInv`). Without `WorkInv` disjointness is not inductive: a failed or
unfinished ALLOC has moved `sbrk` or cut the free list, but is not in the symbol table yet.
That `get_free_vmrg_area` cuts every region of the list, not only one, is lemma `CarveNodes`; the
pieces it loses are why the theorem speaks of overlap and not of coverage.

**`SystemProofs`** has two hypotheses, each of them needed.
`Sequential`: no READ in the programs, or one CPU. `tlbread` takes no lock and releases
it on its error paths; run `paging_read` shows what follows for the frames.
`EnoughSwap`: finitely many processes and a swap frame for each of their pages. Otherwise
`alloc_pages_range` puts an uninitialised number on the free list (`NoSwap`); lemma
`SwapLeft` shows by counting that with `EnoughSwap` this path is never taken. Runs `paging` and `system`
satisfy both, `paging_locked` the first.
`LockInv` says who holds the lock, so at most one instruction is under way (`Solo`).
`LiveInv` is `LiveMapped` for the regions nobody is working on, plus the reason why a
FREE never stops half way: once it has freed a page there is a frame for the next fault.
`FrameInv` says of each frame where it is: on the free list, in one page, or in the hands of one
ALLOC, in one place only; and that the list a fault has read is still the list when it is
updated, which is what READ without a lock breaks. `SwapInv` says the same of the frames of the swap
device, of which `SwapAccounted` needs only `Sequential`: a full swap loses frames of the RAM, not its own. With it `DataIntegrity` is inductive: a byte is
written, or a page swapped in, to a frame no other page has.
`SystemIsPaging` carries everything over to the system under the slot barrier, and
`SlotsHoldInstructions` shows that no instruction goes on beyond its slot.

Only model-checked: liveness (`NextSlotReturns`, `Shutdown`, `GetProcReturns`,
`EveryProcessFinishes`, `InstructionEnds`, `EverySlotEnds`, the fairness part of
`ImplementsSlotClock`), which the prover cannot do, and the violations.

## 5. Not modelled, and why

* `mem.c`, `paging.c`: the memory system of other builds. Its functions are stubs
  ("This mem is obsoleted", `mem.c:51`), and no instruction reaches it.
* `alloc`, `free_data`, `read`, `write` of `cpu.c`; `pgread`, `pgwrite`, `__read`,
  `__write`, `pg_getval`, `pg_setval`, `free_pcb_memph` of `mm-vm.c`; `init_pte` of
  `mm.c`: no caller in this build. So the frames of a process that has finished are
  never returned, in the model as in the code. The sequential access of
  `mm-memphy.c` needs a device that is never created.
* Reading configurations and programs, printing and dumping: input and output only.
  The configuration is the constants of `OsSim`.
* The USRNUM, reserve and dirty fields of a page table entry, which nobody uses.
* Swap devices 1 to 3: the pointer arithmetic at `mm.c:167` never reaches them.
* Region id 30, one past the end of `symrgtbl`, and frame numbers outside the RAM after
  `NoSwap`: undefined from there on.
* Memory that `init_mm` and `malloc` leave uninitialised is taken as zero, which is
  what the loader's fresh heap contains: it never frees anything.
* After a region was put back through a dead stack frame (`corrupt`), what ALLOC finds
  on the list is undefined, so a corrupt process allocates no more in the model.

## 6. Plan

Done: `SlotClock`, `Timer`, `OsSim`, `TlbMap`, `TlbCache`, `TlbRace`, `Word`, `Pte`, `Paging` and their
composition `System`, with their runs, and a theorem for every invariant and action
property of the passing runs. What is left of the code is input and output, code without a caller, or
undefined behaviour (section 5). Next, in this order:

1. What survives without `EnoughSwap`: that frames are conserved up to the first `NoSwap`, so
   that a full swap is the only way to lose one when instructions follow one another.
2. What survives with READ beside other instructions: the frames of one process are never
   both in its page table twice and on the free list unless a fault of READ was interrupted.
3. The abstract counterparts of `Paging` in `Pte`: that the places `Paging` puts pages in satisfy
   the guards of `Map`, `Evict`, `SwapIn` and `Unmap`, so that the words of a page table follow
   `Paging` step by step.
