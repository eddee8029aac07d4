------------------------------ MODULE TlbRace -------------------------------
(***************************************************************************)
(* tlb_cache_write and tlb_cache_invalidate as they run without a lock:    *)
(* the locks in cpu-tlbcache.c are commented out, and tlbread calls        *)
(* tlb_cache_write (cpu-tlb.c:294) without tlb_lock.  TlbCache makes each  *)
(* call one step; here a call reads the array one index at a time and its  *)
(* store is a step of its own, so that the array may change in between.    *)
(*                                                                         *)
(* A process runs on one CPU at a time, so it has one call in flight.  The *)
(* calls of different processes overlap freely, the ones that do hold      *)
(* tlb_lock included: a superset of what the callers do.  tlb_cache_read   *)
(* only looks at entries of its own process, and that process is not in    *)
(* another call meanwhile.  Flush, which nothing calls, is left out.       *)
(***************************************************************************)
EXTENDS TlbCache

VARIABLES call,         \* the call each process is in
          last          \* history: the frame each page was last stored with,
                        \* Miss once it is invalidated or overwritten

raceVars == <<storage, call, last>>

Steps == {"match", "free", "store", "find", "clear"}

Idle == [at |-> "idle", page |-> {}, frame |-> {}, n |-> 0]

\* One type invariant: a call in flight is at an index of the array.
RaceTypeOK ==
  /\ TypeOK
  /\ call \in [Pid -> {Idle} \cup
                 [at : Steps, page : Page, frame : Frame \cup {{}}, n : Index]]
  /\ last \in [Pid \X Page -> Frame \cup {Miss}]

RaceInit ==
  /\ Init
  /\ call = [p \in Pid |-> Idle]
  /\ last = [k \in Pid \X Page |-> Miss]

-----------------------------------------------------------------------------
Goto(p, at, n) == call' = [call EXCEPT ![p].at = at, ![p].n = n]

Look == UNCHANGED <<storage, last>>

StartWrite(p) ==
  /\ call[p] = Idle
  /\ \E g \in Page, f \in Frame :
       call' = [call EXCEPT ![p] = [at |-> "match", page |-> g, frame |-> f, n |-> 0]]
  /\ Look

\* One turn of the loop for an existing entry.
MatchStep(p) ==
  LET c == call[p]
      hit == Matches(c.n, p, c.page)
  IN  /\ c.at = "match"
      /\ \/ hit /\ Goto(p, "store", c.n)
         \/ ~ hit /\ c.n + 1 \in Index /\ Goto(p, "match", c.n + 1)
         \/ ~ hit /\ c.n + 1 \notin Index /\ Goto(p, "free", 0)
      /\ Look

\* One turn of the loop for an invalid entry; after it, any index.
FreeStep(p) ==
  LET c == call[p]
      free == ~ TLB_VALID(storage[c.n])
  IN  /\ c.at = "free"
      /\ \/ free /\ Goto(p, "store", c.n)
         \/ ~ free /\ c.n + 1 \in Index /\ Goto(p, "free", c.n + 1)
         \/ ~ free /\ c.n + 1 \notin Index /\ \E r \in Index : Goto(p, "store", r)
      /\ Look

\* The history once slot n is overwritten: its page is no longer cached.
LosePage(n) ==
  IF TLB_VALID(storage[n])
    THEN [last EXCEPT ![<<TLB_PID(storage[n]), TLB_TAG(storage[n])>>] = Miss]
    ELSE last

\* set_TLB_entry and TLBMEMPHY_write, whatever the slot holds by now: all the
\* fields are overwritten.
StoreEntry(p) ==
  LET c == call[p]
  IN  /\ c.at = "store"
      /\ SetEntry(c.n, p, c.page, c.frame)
      /\ last' = [LosePage(c.n) EXCEPT ![<<p, c.page>>] = c.frame]
      /\ call' = [call EXCEPT ![p] = Idle]

StartInvalidate(p) ==
  /\ call[p] = Idle
  /\ \E g \in Page :
       call' = [call EXCEPT ![p] = [at |-> "find", page |-> g, frame |-> {}, n |-> 0]]
  /\ Look

\* One turn of the loop of tlb_cache_invalidate: the entry it clears is the
\* copy it has read.
FindStep(p) ==
  LET c == call[p]
      hit == Matches(c.n, p, c.page)
  IN  /\ c.at = "find"
      /\ \/ /\ hit
            /\ call' = [call EXCEPT ![p].at = "clear",
                                    ![p].frame = TLB_FRMNUM(storage[c.n])]
            /\ Look
         \/ ~ hit /\ c.n + 1 \in Index /\ Goto(p, "find", c.n + 1) /\ Look
         \/ /\ ~ hit
            /\ c.n + 1 \notin Index
            /\ call' = [call EXCEPT ![p] = Idle]
            /\ last' = [last EXCEPT ![<<p, c.page>>] = Miss]
            /\ UNCHANGED storage

\* SET_TLB_VALID(entry, 0) on that copy and TLBMEMPHY_write, over whatever
\* another process may have stored there since.
ClearEntry(p) ==
  LET c == call[p]
      read == set_TLB_entry({0}, c.page, p, c.frame)
  IN  /\ c.at = "clear"
      /\ storage' = [storage EXCEPT ![c.n] = Cleared(read)]
      /\ last' = [LosePage(c.n) EXCEPT ![<<p, c.page>>] = Miss]
      /\ call' = [call EXCEPT ![p] = Idle]

RaceNext ==
  \E p \in Pid :
    \/ StartWrite(p) \/ MatchStep(p) \/ FreeStep(p) \/ StoreEntry(p)
    \/ StartInvalidate(p) \/ FindStep(p) \/ ClearEntry(p)

RaceSpec == RaceInit /\ [][RaceNext]_raceVars

-----------------------------------------------------------------------------
(* Properties, beside NoDuplicate of TlbCache.                             *)

\* The unlocked calls may lose an entry, even another process's, but never
\* bring an old one back: a valid entry holds the frame its own process stored
\* last, and none is left of a page that was invalidated or overwritten.
\* tlb_cache_read therefore answers the current frame or a miss.
EntriesCurrent ==
  \A n \in Index :
    TLB_VALID(storage[n]) =>
      LET k == <<TLB_PID(storage[n]), TLB_TAG(storage[n])>>
      IN  k \in DOMAIN last /\ last[k] = TLB_FRMNUM(storage[n])
=============================================================================
