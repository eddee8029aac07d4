------------------------------- MODULE Paging -------------------------------
(***************************************************************************)
(* The memory side of the operating system: the instructions ALLOC, FREE,  *)
(* READ and WRITE as cpu-tlb.c runs them for the processes on the CPUs,    *)
(* over the regions and the page fault handler of mm-vm.c, the page tables *)
(* of mm.c, the frame lists of mm-memphy.c and the TLB (module TlbMap).    *)
(*                                                                         *)
(* ALLOC, FREE and WRITE hold tlb_lock; READ takes no lock but releases it *)
(* on its error paths.  An instruction is a sequence of small steps, kept  *)
(* in op[c], so that the unlocked ones interleave with the locked ones.    *)
(*                                                                         *)
(* The data of a page is abstracted to a label: the page whose bytes were  *)
(* last written there.                                                     *)
(***************************************************************************)
EXTENDS Integers, Sequences, FiniteSets, FiniteSetsExt, SequencesExt

CONSTANTS Cpu, Pid,
          Rg,           \* the region ids programs use, 0..PAGING_MAX_SYMTBL_SZ
          BadRg,        \* region ids get_symrg_byid rejects
          Ops,          \* the kinds of instruction the programs contain
          PAGESZ,       \* PAGING_PAGESZ
          NRam, NSwp,   \* frames of the RAM and of swap device 0
          TLBSZ,        \* entries of the TLB
          NPage,        \* bound: pages of address space a process may grow to
          MaxSize       \* bound: largest size and offset in an instruction

ASSUME SizeAssumption ==
  /\ {PAGESZ, NRam, NSwp, TLBSZ, NPage, MaxSize} \subseteq Nat \ {0}
  /\ Ops \subseteq {"alloc", "alloc0", "free", "read", "write"}
ASSUME CpuAssumption == "none" \notin Cpu

VARIABLES
  lock,       \* tlb_lock: the CPU that locked it, or NoCpu
  op,         \* the memory instruction each CPU is executing
  sym,        \* mm->symrgtbl
  freerg,     \* mm->mmap->vm_freerg_list, without its empty nodes
  sbrk,       \* mm->mmap->sbrk, which always equals vm_end
  pgd,        \* mm->pgd
  fifo,       \* mm->fifo_pgn
  freeRam,    \* mram->free_fp_list
  freeSwp,    \* mswp[0].free_fp_list
  ram, swp,   \* what the frames contain
  tlb,        \* the TLB
  corrupt,    \* the processes whose vm_freerg_list points into a dead stack
  written     \* history: the mapped pages that were written since mapped

regvars == <<sym, freerg, sbrk, corrupt>>
memvars == <<freeRam, freeSwp, ram, swp>>
vars == <<lock, op, regvars, pgd, fifo, memvars, tlb, written>>

Page == 0..NPage        \* the last one is never mapped, only addressed
RamFrame == 0 .. NRam - 1
SwpFrame == 0 .. NSwp - 1

Miss == -1             \* *frmnum = -1
NoFrame == -1          \* no swap frame is being given back

T == INSTANCE TlbMap WITH Frame <- RamFrame

NoCpu == "none"
NoData == <<>>
NoRegion == [s |-> 0, e |-> 0]
Absent == [st |-> "absent", n |-> 0]
InRam(f) == [st |-> "ram", n |-> f]
InSwp(o) == [st |-> "swap", n |-> o]

\* PAGING_PAGE_ALIGNSZ, the number of pages of a region and its page numbers.
AlignSz(sz) == ((sz + PAGESZ - 1) \div PAGESZ) * PAGESZ
NumPages(r) == AlignSz(r.e - r.s) \div PAGESZ
PagesOf(r) == {r.s \div PAGESZ + i : i \in 0 .. NumPages(r) - 1}

\* The instruction in progress: pages start .. start + n - 1, of which i are
\* done; the frames collected so far; the size asked for and whether the
\* region came from the free list; the frame list MEMPHY_get_freefp has read;
\* the swap frame a fault has still to give back, and the list
\* MEMPHY_put_freefp has made for that.
NoOp == [pc |-> "idle", pid |-> "none"]
OpRec(pc, p, rg, start, n, size, reuse) ==
  [pc |-> pc, pid |-> p, rg |-> rg, start |-> start, n |-> n, i |-> 0,
   frm |-> <<>>, size |-> size, reuse |-> reuse,
   peek |-> <<>>, back |-> NoFrame, node |-> <<>>]

Region == [s : 0 .. NPage * PAGESZ, e : 0 .. NPage * PAGESZ]
Pte == {Absent} \cup {InRam(f) : f \in RamFrame}
                \cup {InSwp(o) : o \in SwpFrame}
Label == {NoData} \cup (Pid \X Page)
Pc == {"frames", "cache", "free", "read", "write", "spin"}

OpOK(r) ==
  \/ r = NoOp
  \/ /\ r.pc \in Pc /\ r.pid \in Pid /\ r.rg \in Rg
     /\ r.n \in Nat /\ r.i \in 0 .. r.n - 1
     /\ r.start + r.i \in Page /\ r.start \in Page
     /\ r.frm \in Seq(RamFrame) /\ r.peek \in Seq(RamFrame)
     /\ r.back \in SwpFrame \cup {NoFrame} /\ r.node \in Seq(SwpFrame)

\* One type invariant.
TypeOK ==
  /\ lock \in Cpu \cup {NoCpu}
  /\ \A c \in Cpu : OpOK(op[c])
  /\ sym \in [Pid -> [Rg -> Region]]
  /\ \A p \in Pid : freerg[p] \in Seq(Region)
  /\ sbrk \in [Pid -> 0 .. NPage * PAGESZ]
  /\ pgd \in [Pid -> [Page -> Pte]]
  /\ \A p \in Pid : fifo[p] \in Seq(Page)
  /\ freeRam \in Seq(RamFrame) /\ freeSwp \in Seq(SwpFrame)
  /\ ram \in [RamFrame -> Label] /\ swp \in [SwpFrame -> Label]
  /\ T!TypeOK
  /\ corrupt \subseteq Pid
  /\ written \subseteq Pid \X Page

\* MEMPHY_format lists the n frames of a device in ascending order.
Formatted(n) == [k \in 1..n |-> k - 1]

\* init_mm starts a process with an empty area.
Init ==
  /\ lock = NoCpu
  /\ op = [c \in Cpu |-> NoOp]
  /\ sym = [p \in Pid |-> [r \in Rg |-> NoRegion]]
  /\ freerg = [p \in Pid |-> <<>>]
  /\ sbrk = [p \in Pid |-> 0]
  /\ pgd = [p \in Pid |-> [g \in Page |-> Absent]]
  /\ fifo = [p \in Pid |-> <<>>]
  /\ freeRam = Formatted(NRam)
  /\ freeSwp = Formatted(NSwp)
  /\ ram = [f \in RamFrame |-> NoData]
  /\ swp = [o \in SwpFrame |-> NoData]
  /\ T!Init
  /\ corrupt = {}
  /\ written = {}

-----------------------------------------------------------------------------
(* Starting and ending an instruction.                                     *)

\* The CPU is between instructions and p runs on no other CPU.
Runs(c, p) == /\ op[c] = NoOp
              /\ \A d \in Cpu : op[d].pid # p

\* pthread_mutex_lock left out: mutation.
NoLocking(c) == UNCHANGED lock

Lock(c) == lock = NoCpu /\ lock' = c

\* A return that forgets to unlock: mutation.
NoUnlocking == UNCHANGED lock

\* pthread_mutex_unlock, whoever holds the mutex.
Unlock == lock' = NoCpu

Begin(c, r) == op' = [op EXCEPT ![c] = r]
End(c) == op' = [op EXCEPT ![c] = NoOp]

Page0(c) == op[c].start + op[c].i       \* the page the loop is at

\* A loop that runs to pgit <= pgn_count: mutation.
IsPastLast(c) == op[c].i = op[c].n

IsLast(c) == op[c].i + 1 = op[c].n

-----------------------------------------------------------------------------
(* ALLOC.                                                                  *)

\* get_free_vmrg_area: the loop does not stop at the first region that fits
\* but cuts every region of the list into pieces of the size asked for.  Left
\* is what stays of a region on the list; the caller gets the last piece.
Left(r, sz) == [r EXCEPT !.s = r.e - ((r.e - r.s) % sz)]

Fits(fl, sz) == {i \in DOMAIN fl : fl[i].s + sz <= fl[i].e}

Piece(fl, sz) ==
  LET l == Left(fl[Max(Fits(fl, sz))], sz)
  IN  [s |-> l.s - sz, e |-> l.s]

\* The chosen region keeps its start: mutation.
CarveNothing(fl, sz) == fl

\* The list without its empty nodes.
NonEmpty(fl) ==
  LET kept[i \in 0 .. Len(fl)] ==
        IF i = 0 THEN <<>>
        ELSE IF fl[i].s < fl[i].e THEN Append(kept[i - 1], fl[i])
        ELSE kept[i - 1]
  IN  kept[Len(fl)]

Carve(fl, sz) == NonEmpty([i \in DOMAIN fl |-> Left(fl[i], sz)])

\* tlballoc and __alloc up to the call of alloc_pages_range: the region comes
\* from the free list, or inc_vma_limit moves sbrk.
AllocReuse(c, p, rg, sz) ==
  LET inc == AlignSz(sz)
      new == Piece(freerg[p], inc)
  IN  /\ Fits(freerg[p], inc) # {}
      /\ sym' = [sym EXCEPT ![p][rg] = new]
      /\ freerg' = [freerg EXCEPT ![p] = Carve(@, inc)]
      /\ Begin(c, OpRec("frames", p, rg, new.s \div PAGESZ,
                        inc \div PAGESZ, sz, TRUE))
      /\ UNCHANGED sbrk

AllocBrk(c, p, rg, sz) ==
  LET inc == AlignSz(sz)
  IN  /\ Fits(freerg[p], inc) = {}
      /\ sbrk[p] + inc <= NPage * PAGESZ
      /\ sbrk' = [sbrk EXCEPT ![p] = @ + inc]
      /\ Begin(c, OpRec("frames", p, rg, sbrk[p] \div PAGESZ,
                        inc \div PAGESZ, sz, FALSE))
      /\ UNCHANGED <<sym, freerg>>

Alloc(c, p, rg, sz) ==
  /\ "alloc" \in Ops /\ Runs(c, p) /\ p \notin corrupt
  /\ Lock(c)
  /\ AllocReuse(c, p, rg, sz) \/ AllocBrk(c, p, rg, sz)
  /\ UNCHANGED <<corrupt, pgd, fifo, memvars, tlb, written>>

\* ALLOC of size 0: every region of the list fits, its start does not move,
\* and the loop of get_free_vmrg_area has no other way out.
AllocZero(c, p) ==
  /\ "alloc0" \in Ops /\ Runs(c, p) /\ p \notin corrupt
  /\ Lock(c)
  /\ \E rg \in Rg : Begin(c, OpRec("spin", p, rg, 0, 1, 0, TRUE))
  /\ UNCHANGED <<regvars, pgd, fifo, memvars, tlb, written>>

\* alloc_pages_range: one frame per turn, first from the free list ...
TakeFrame(c) ==
  /\ op[c].pc = "frames" /\ Len(op[c].frm) < op[c].n
  /\ freeRam # <<>>
  /\ op' = [op EXCEPT ![c].frm = <<Head(freeRam)>> \o @]
  /\ freeRam' = Tail(freeRam)
  /\ UNCHANGED <<lock, regvars, pgd, fifo, freeSwp, ram, swp, tlb, written>>

\* find_victim_page: the oldest page, the tail of the list, leaves it.
Victim(p) == Last(fifo[p])
PopVictim(p) == fifo' = [fifo EXCEPT ![p] = IF @ = <<>> THEN @ ELSE Front(@)]

\* __swap_cp_page of the victim, and the same with source and destination
\* exchanged: mutation.
CopyBackwards(f, o) == ram' = [ram EXCEPT ![f] = swp[o]] /\ UNCHANGED swp

CopyOut(f, o) == swp' = [swp EXCEPT ![o] = ram[f]] /\ UNCHANGED ram

\* tlb_cache_invalidate of the victim, and its omission: mutation.
KeepVictim(p, v) == UNCHANGED tlb

ForgetVictim(p, v) == T!Invalidate(p, {v})

\* ... then from the oldest page of the same process, which goes to the swap.
SwapOut(c) ==
  LET p == op[c].pid
      v == Victim(p)
      f == pgd[p][v].n
      o == Head(freeSwp)
  IN  /\ op[c].pc = "frames" /\ Len(op[c].frm) < op[c].n
      /\ freeRam = <<>> /\ fifo[p] # <<>> /\ freeSwp # <<>>
      /\ PopVictim(p)
      /\ freeSwp' = Tail(freeSwp)
      /\ ForgetVictim(p, v)
      /\ CopyOut(f, o)
      /\ pgd' = [pgd EXCEPT ![p][v] = InSwp(o)]
      /\ op' = [op EXCEPT ![c].frm = <<f>> \o @]
      /\ UNCHANGED <<lock, regvars, freeRam, written>>

\* The symbol table entry is cleared, and the omission: mutation.
KeepSym(p, rg) == UNCHANGED sym

ClearSym(p, rg) == sym' = [sym EXCEPT ![p][rg] = NoRegion]

\* __alloc after vm_map_ram failed: a region of the free list is put back by
\* enlisting the local variable rgnode; a new one leaves sbrk where it is.
AllocFails(c) ==
  /\ IF op[c].reuse
       THEN /\ ClearSym(op[c].pid, op[c].rg)
            /\ corrupt' = corrupt \cup {op[c].pid}
       ELSE UNCHANGED <<sym, corrupt>>
  /\ End(c) /\ Unlock
  /\ UNCHANGED <<freerg, sbrk>>

\* The loop of MEMPHY_put_freefp over frm_lst, and its omission: mutation.
LoseFrames(frm) == UNCHANGED freeRam

ReturnFrames(frm) == freeRam' = Reverse(frm) \o freeRam

\* No victim: the frames collected so far go back to the RAM.
NoVictim(c) ==
  /\ op[c].pc = "frames" /\ Len(op[c].frm) < op[c].n
  /\ freeRam = <<>> /\ fifo[op[c].pid] = <<>>
  /\ ReturnFrames(op[c].frm)
  /\ AllocFails(c)
  /\ UNCHANGED <<pgd, fifo, freeSwp, ram, swp, tlb, written>>

\* No swap frame for the victim, which has left fifo_pgn already: instead of
\* the frames collected, the uninitialised fpn of the node just allocated is
\* put on the free list.  (A number that is no frame of the RAM, which would
\* make every later access undefined, is not enumerated.)
NoSwap(c) ==
  LET p == op[c].pid
  IN  /\ op[c].pc = "frames" /\ Len(op[c].frm) < op[c].n
      /\ freeRam = <<>> /\ fifo[p] # <<>> /\ freeSwp = <<>>
      /\ PopVictim(p)
      /\ \E fpn \in RamFrame : freeRam' = <<fpn>>
      /\ AllocFails(c)
      /\ UNCHANGED <<pgd, freeSwp, ram, swp, tlb, written>>

\* vmap_page_range, and the region of a grown area.
MapPages(c) ==
  LET p == op[c].pid
      first == op[c].start
      new == first .. first + op[c].n - 1
  IN  /\ op[c].pc = "frames" /\ Len(op[c].frm) = op[c].n
      /\ pgd' = [pgd EXCEPT ![p] =
                  [g \in Page |-> IF g \in new
                                    THEN InRam(op[c].frm[g - first + 1])
                                    ELSE @[g]]]
      /\ fifo' = [fifo EXCEPT ![p] =
                   [i \in 1 .. op[c].n |-> first + op[c].n - i] \o @]
      /\ sym' = IF op[c].reuse THEN sym
                  ELSE [sym EXCEPT ![p][op[c].rg] =
                         [s |-> first * PAGESZ, e |-> first * PAGESZ + op[c].size]]
      /\ op' = [op EXCEPT ![c].pc = "cache", ![c].frm = <<>>]
      /\ written' = written \ ({p} \X new)
      /\ UNCHANGED <<lock, freerg, sbrk, corrupt, memvars, tlb>>

\* tlballoc, the loop that caches the new pages.
CachePage(c) ==
  LET p == op[c].pid
      g == Page0(c)
  IN  /\ op[c].pc = "cache" /\ op[c].back = NoFrame /\ pgd[p][g].st = "ram"
      /\ T!Store(p, g, pgd[p][g].n)
      /\ IF IsLast(c) THEN End(c) /\ Unlock
                      ELSE op' = [op EXCEPT ![c].i = @ + 1] /\ UNCHANGED lock
      /\ UNCHANGED <<regvars, pgd, fifo, memvars, written>>

-----------------------------------------------------------------------------
(* pg_getpage, for the page an instruction is at.                          *)

AtPage(c) == op[c].pc \in {"cache", "free", "read", "write"} /\ op[c].back = NoFrame
Faulting(c) == AtPage(c) /\ pgd[op[c].pid][Page0(c)].st = "swap"

\* MEMPHY_get_freefp reads the head of the list ...
FaultPeek(c) ==
  /\ Faulting(c) /\ op[c].peek = <<>> /\ freeRam # <<>>
  /\ op' = [op EXCEPT ![c].peek = freeRam]
  /\ UNCHANGED <<lock, regvars, pgd, fifo, memvars, tlb, written>>

\* ... and then advances it; the page is swapped in.
SwapIn(c) ==
  LET p == op[c].pid
      g == Page0(c)
      o == pgd[p][g].n
      f == Head(op[c].peek)
  IN  /\ Faulting(c) /\ op[c].peek # <<>>
      /\ freeRam' = Tail(op[c].peek)
      /\ ram' = [ram EXCEPT ![f] = swp[o]]
      /\ pgd' = [pgd EXCEPT ![p][g] = InRam(f)]
      /\ op' = [op EXCEPT ![c].peek = <<>>, ![c].back = o]
      /\ UNCHANGED <<lock, regvars, fifo, freeSwp, swp, tlb, written>>

\* MEMPHY_put_freefp of the swap frame: the new node points to the list ...
Returning(c) == op[c] # NoOp /\ op[c].back # NoFrame

SwapPeek(c) ==
  /\ Returning(c) /\ op[c].node = <<>>
  /\ op' = [op EXCEPT ![c].node = <<op[c].back>> \o freeSwp]
  /\ UNCHANGED <<lock, regvars, pgd, fifo, memvars, tlb, written>>

\* The swap frame is not given back: mutation.
KeepSwap(c) == UNCHANGED freeSwp

\* ... and becomes the list; then the page goes back to fifo_pgn.
PutSwap(c) == freeSwp' = op[c].node

SwapBack(c) ==
  /\ Returning(c) /\ op[c].node # <<>>
  /\ PutSwap(c)
  /\ fifo' = [fifo EXCEPT ![op[c].pid] = <<Page0(c)>> \o @]
  /\ op' = [op EXCEPT ![c].back = NoFrame, ![c].node = <<>>]
  /\ UNCHANGED <<lock, regvars, pgd, freeRam, ram, swp, tlb, written>>

\* The RAM is full: a victim leaves fifo_pgn, but the loop that looks for a
\* swap frame for it runs while failed < 0 and failed is 0, so that it is
\* never entered and the fault always fails.
FaultFails(c) ==
  LET p == op[c].pid
  IN  /\ Faulting(c) /\ op[c].peek = <<>> /\ freeRam = <<>>
      /\ PopVictim(p)
      /\ End(c) /\ Unlock
      /\ UNCHANGED <<regvars, pgd, memvars, tlb, written>>

\* The page is not present.
PageAbsent(c) ==
  /\ AtPage(c) /\ pgd[op[c].pid][Page0(c)].st = "absent"
  /\ End(c) /\ Unlock
  /\ UNCHANGED <<regvars, pgd, fifo, memvars, tlb, written>>

-----------------------------------------------------------------------------
(* FREE, WRITE and READ.                                                   *)

\* tlbfree_data up to the loop of __free.
Free(c, p, rg) ==
  LET r == sym[p][rg]
  IN  /\ "free" \in Ops /\ Runs(c, p)
      /\ Lock(c)
      /\ r.e # 0
      /\ T!Invalidate(p, PagesOf(r))
      /\ Begin(c, OpRec("free", p, rg, r.s \div PAGESZ, NumPages(r), 0, FALSE))
      /\ UNCHANGED <<regvars, pgd, fifo, memvars, written>>

\* clear_pgn_node, and its omission: mutation.
LeavePgnNode(s, g) == s

ClearPgnNode(s, g) == RemoveFirst(s, g)

\* MEMPHY_put_freefp of the page's frame, and its omission: mutation.
KeepFrame(f) == UNCHANGED freeRam

PutFrame(f) == freeRam' = <<f>> \o freeRam

\* __free: one turn of the loop, and the return after the last one.
FreePage(c) ==
  LET p == op[c].pid
      g == Page0(c)
      r == sym[p][op[c].rg]
  IN  /\ op[c].pc = "free" /\ op[c].back = NoFrame /\ pgd[p][g].st = "ram"
      /\ PutFrame(pgd[p][g].n)
      /\ pgd' = [pgd EXCEPT ![p][g] = Absent]
      /\ fifo' = [fifo EXCEPT ![p] = ClearPgnNode(@, g)]
      /\ written' = written \ {<<p, g>>}
      /\ IF IsLast(c)
           THEN /\ freerg' = [freerg EXCEPT ![p] = <<r>> \o @]
                /\ ClearSym(p, op[c].rg)
                /\ End(c) /\ Unlock
           ELSE /\ op' = [op EXCEPT ![c].i = @ + 1]
                /\ UNCHANGED <<freerg, sym, lock>>
      /\ UNCHANGED <<sbrk, corrupt, freeSwp, ram, swp, tlb>>

\* A range check that lets through one byte more: mutation.
InRangePastEnd(p, rg, off) == sym[p][rg].s + off <= sym[p][rg].e + 1

\* An access passes the range check when addr <= rg_end.
InRange(p, rg, off) == sym[p][rg].s + off <= sym[p][rg].e
PageAt(p, rg, off) == (sym[p][rg].s + off) \div PAGESZ

\* MEMPHY_write of a byte of page g, which is taken to be in frame f.
WriteByte(p, g, f) == /\ ram' = [ram EXCEPT ![f] = <<p, g>>]
                      /\ written' = written \cup {<<p, g>>}

\* tlbwrite, TLB hit.
WriteHit(c, p, rg, off) ==
  LET g == PageAt(p, rg, off)
  IN  /\ "write" \in Ops /\ Runs(c, p) /\ lock = NoCpu
      /\ InRange(p, rg, off) /\ tlb[<<p, g>>] # Miss
      /\ WriteByte(p, g, tlb[<<p, g>>])
      /\ UNCHANGED <<lock, op, regvars, pgd, fifo, freeRam, freeSwp, swp, tlb>>

\* tlbwrite, TLB miss: the page comes through pg_getpage.
WriteMiss(c, p, rg, off) ==
  LET g == PageAt(p, rg, off)
  IN  /\ "write" \in Ops /\ Runs(c, p) /\ Lock(c)
      /\ InRange(p, rg, off) /\ tlb[<<p, g>>] = Miss
      /\ Begin(c, OpRec("write", p, rg, g, 1, 0, FALSE))
      /\ UNCHANGED <<regvars, pgd, fifo, memvars, tlb, written>>

WritePage(c) ==
  LET p == op[c].pid
      g == Page0(c)
      f == pgd[p][g].n
  IN  /\ op[c].pc = "write" /\ op[c].back = NoFrame /\ pgd[p][g].st = "ram"
      /\ T!Store(p, g, f)
      /\ WriteByte(p, g, f)
      /\ End(c) /\ Unlock
      /\ UNCHANGED <<regvars, pgd, fifo, freeRam, freeSwp, swp>>

\* tlbread takes no lock.  A hit changes nothing and is not an action; an
\* address out of range releases the lock.
ReadOutOfRange(c, p, rg, off) ==
  /\ "read" \in Ops /\ Runs(c, p)
  /\ ~ InRange(p, rg, off)
  /\ Unlock
  /\ UNCHANGED <<op, regvars, pgd, fifo, memvars, tlb, written>>

ReadMiss(c, p, rg, off) ==
  LET g == PageAt(p, rg, off)
  IN  /\ "read" \in Ops /\ Runs(c, p)
      /\ InRange(p, rg, off) /\ tlb[<<p, g>>] = Miss
      /\ Begin(c, OpRec("read", p, rg, g, 1, 0, FALSE))
      /\ UNCHANGED <<lock, regvars, pgd, fifo, memvars, tlb, written>>

ReadPage(c) ==
  LET p == op[c].pid
      g == Page0(c)
  IN  /\ op[c].pc = "read" /\ op[c].back = NoFrame /\ pgd[p][g].st = "ram"
      /\ T!Store(p, g, pgd[p][g].n)
      /\ End(c)
      /\ UNCHANGED <<lock, regvars, pgd, fifo, memvars, written>>

\* tlbfree_data and tlbwrite return without unlocking when get_symrg_byid
\* rejects the region id.
BadRegion(c, p) ==
  /\ BadRg # {} /\ Ops \cap {"free", "write"} # {}
  /\ Runs(c, p) /\ Lock(c)
  /\ UNCHANGED <<op, regvars, pgd, fifo, memvars, tlb, written>>

-----------------------------------------------------------------------------
Start(c) ==
  \E p \in Pid :
    \/ BadRegion(c, p)
    \/ AllocZero(c, p)
    \/ \E rg \in Rg :
         \/ Free(c, p, rg)
         \/ \E sz \in 1..MaxSize : Alloc(c, p, rg, sz)
         \/ \E off \in 0..MaxSize :
              \/ WriteHit(c, p, rg, off)
              \/ WriteMiss(c, p, rg, off)
              \/ ReadOutOfRange(c, p, rg, off)
              \/ ReadMiss(c, p, rg, off)

Step(c) ==
  \/ TakeFrame(c) \/ SwapOut(c) \/ NoVictim(c) \/ NoSwap(c)
  \/ MapPages(c) \/ CachePage(c)
  \/ FaultPeek(c) \/ SwapIn(c) \/ SwapPeek(c) \/ SwapBack(c)
  \/ FaultFails(c) \/ PageAbsent(c)
  \/ FreePage(c) \/ WritePage(c) \/ ReadPage(c)

Next == \E c \in Cpu : Start(c) \/ Step(c)

Spec == Init /\ [][Next]_vars

\* A CPU's thread keeps running: an instruction under way is carried on.
FairSpec == Spec /\ \A c \in Cpu : WF_vars(Step(c))

-----------------------------------------------------------------------------
(* Properties.                                                             *)

\* Every RAM frame is accounted for exactly once: on the free list, mapped by
\* one page of one process, or in the hands of one alloc_pages_range.  A frame
\* that is counted twice is memory shared by accident, one that is not
\* counted at all is lost for good.
RamUses(f) ==
  Cardinality({i \in DOMAIN freeRam : freeRam[i] = f})
  + Cardinality({k \in Pid \X Page : pgd[k[1]][k[2]] = InRam(f)})
  + Cardinality({c \in Cpu : op[c] # NoOp /\ f \in ToSet(op[c].frm)})

FramesConserved == \A f \in RamFrame : RamUses(f) = 1

\* The same for the frames of the swap device, across swap out, swap in and
\* free.  A READ gives its swap frame back without tlb_lock.
SwpUses(o) ==
  Cardinality({i \in DOMAIN freeSwp : freeSwp[i] = o})
  + Cardinality({k \in Pid \X Page : pgd[k[1]][k[2]] = InSwp(o)})
  + Cardinality({c \in Cpu : op[c] # NoOp /\ op[c].back = o})

SwapConserved == \A o \in SwpFrame : SwpUses(o) = 1

\* A TLB entry agrees with the page table at all times, so that a hit reaches
\* the frame the page is in now: eviction, free and swap in keep the TLB in
\* step.
TlbCoherent ==
  \A p \in Pid, g \in Page :
    tlb[<<p, g>>] # Miss => pgd[p][g] = InRam(tlb[<<p, g>>])

\* What was written to a page is where the page table says the page is, in
\* RAM or swap, through any number of evictions and faults.
DataIntegrity ==
  \A k \in written :
    LET pte == pgd[k[1]][k[2]]
    IN  /\ pte.st # "absent"
        /\ (IF pte.st = "ram" THEN ram[pte.n] ELSE swp[pte.n]) = k

\* fifo_pgn lists a page at most once and only pages that are in RAM:
\* find_victim_page takes its tail without looking at the page table.
FifoSound ==
  \A p \in Pid :
    /\ Cardinality(ToSet(fifo[p])) = Len(fifo[p])
    /\ \A g \in ToSet(fifo[p]) : pgd[p][g].st = "ram"

\* The regions of a process never overlap, neither two that are in use nor
\* one in use and one on the free list, although get_free_vmrg_area cuts the
\* free regions by aligned sizes and __alloc records unaligned ends.
Overlap(r, t) == r.s < t.e /\ t.s < r.e

RegionsDisjoint ==
  \A p \in Pid :
    /\ \A a, b \in Rg : a # b => ~ Overlap(sym[p][a], sym[p][b])
    /\ \A a \in Rg, i \in DOMAIN freerg[p] : ~ Overlap(sym[p][a], freerg[p][i])
    /\ \A i, j \in DOMAIN freerg[p] :
         i # j => ~ Overlap(freerg[p][i], freerg[p][j])

\* Every page of a region in the symbol table is mapped, and no page of a
\* region on the free list is, except for the region being changed.
LiveMapped ==
  \A p \in Pid :
    /\ \A rg \in Rg :
         \/ \E c \in Cpu : op[c] # NoOp /\ op[c].pid = p /\ op[c].rg = rg
                           /\ op[c].pc \in {"frames", "free"}
         \/ \A g \in PagesOf(sym[p][rg]) : pgd[p][g].st # "absent"
    /\ \A i \in DOMAIN freerg[p] :
         \A g \in PagesOf(freerg[p][i]) : pgd[p][g].st = "absent"

\* Two of ALLOC, FREE and WRITE never overlap: a CPU inside one holds
\* tlb_lock.  (READ, which unlocks what it has not locked, breaks this.)
Inside(c) == op[c] # NoOp /\ op[c].pc # "read"

Exclusive == \A c \in Cpu : Inside(c) => lock = c

\* A CPU has left an instruction, or will never leave it, with tlb_lock held.
Abandoned == \E c \in Cpu : lock = c /\ (op[c] = NoOp \/ op[c].pc = "spin")

\* Every way out of ALLOC, FREE and WRITE gives tlb_lock back, all the failures
\* half way included, except for a region id that get_symrg_byid rejects and
\* an ALLOC of size 0.
LockGivenBack ==
  [][~ Abandoned /\ Abandoned' =>
       \E c \in Cpu, p \in Pid : BadRegion(c, p) \/ AllocZero(c, p)]_vars

Addrs(r) == r.s .. r.e - 1

\* "Find a suitable frame in all swap to perform swap out": a fault fails only
\* when there is no victim or no swap frame for it.
FaultResolved ==
  [][\A c \in Cpu :
       FaultFails(c) => fifo[op[c].pid] = <<>> \/ freeSwp = <<>>]_vars

\* Every memory instruction comes to its end: none of its loops over pages,
\* frames and faults goes round for ever, and the lock is free again.
InstructionEnds ==
  \A c \in Cpu : op[c] # NoOp ~> (op[c] = NoOp /\ lock # c)

\* A WRITE through one region reaches no byte of another one, whatever was
\* allocated, freed and cut in between, except the byte at rg_end, which the
\* check lets through (cpu-tlb.c:351): the first byte of the next region, or
\* byte 0 for a region that has been freed and is 0..0.
WriteStaysInRegion ==
  [][\A c \in Cpu, p \in Pid, rg \in Rg, off \in 0..MaxSize :
       WriteHit(c, p, rg, off) \/ WriteMiss(c, p, rg, off) =>
         LET addr == sym[p][rg].s + off
         IN  \A other \in Rg \ {rg} :
               addr \in Addrs(sym[p][other]) => addr = sym[p][rg].e]_vars
=============================================================================
