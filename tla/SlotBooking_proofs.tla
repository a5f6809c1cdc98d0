------------------------- MODULE SlotBooking_proofs -------------------------
(***************************************************************************)
(* Type correctness and the safety of SlotBooking, for every value of its  *)
(* constants.                                                              *)
(*                                                                         *)
(* The argument: a request that has checked the calendar under its locks   *)
(* can rely on it as long as it owns them (RoomKept, OpenKept, ClearKept), *)
(* because whoever would disturb it has to commit under one of the same    *)
(* locks (KeysCover), and a lock has one owner.  A transaction commits     *)
(* within its limit, and the locks it has last checked live longer         *)
(* (Deadline).  What takes no lock, expiry, cancellation, confirmation,    *)
(* only ever frees cells (Fresh).                                          *)
(***************************************************************************)
EXTENDS SlotBooking, FiniteSetTheorems, TLAPS

\* The keys slotLockKeys derives for an assignment are lock keys.
LEMMA KeysOfType ==
    ASSUME NEW B \in Branch, NEW a \in SUBSET Cell
    PROVE  KeysOf(B, a) \in SUBSET Key
BY CalendarAssumption DEF KeysOf, Key, Cell

\* The slot check offers assignments, sets of cells.
LEMMA OfferType ==
    ASSUME NEW p \in Alloc, NEW a \in Offer(p)
    PROVE  a \in SUBSET Cell
BY RequestAssumption DEF Offer

\* The keys of a calendar block are lock keys.
LEMMA BlockKeysType ==
    ASSUME NEW k \in Block
    PROVE  BlockKeys(k) \in SUBSET Key
BY RequestAssumption, ProcAssumption DEF BlockKeys, Key

\* Every handler, worker and passage of time keeps the type invariant.
THEOREM TypeStep == TypeOK /\ [Next]_vars => TypeOK'
<1> SUFFICES ASSUME TypeOK, [Next]_vars PROVE TypeOK'
  OBVIOUS
<1> USE TimeAssumption, RequestAssumption
    DEF TypeOK, Phase, NoBooking, Goto,
        Alloc, Locker, Proc, procVars, redisVars, bookVars
<1>1. ASSUME NEW c \in Create, AnswerRepeated(c) PROVE TypeOK'
  BY ZenonT(40), <1>1 DEF AnswerRepeated, Duplicates, Bookings
<1>2. ASSUME NEW c \in Create, PreflightCreate(c) PROVE TypeOK'
  <2>1. PICK a \in Offer(c) :
             /\ want' = [want EXCEPT ![c] = a]
             /\ keys' = [keys EXCEPT ![c] = KeysOf(Home[c], a)]
    BY <1>2 DEF PreflightCreate
  <2>2. a \in SUBSET Cell /\ KeysOf(Home[c], a) \in SUBSET Key
    BY OfferType, KeysOfType
  <2> QED
    BY <1>2, <2>1, <2>2 DEF PreflightCreate
<1>3. ASSUME NEW c \in Create, OpenCreate(c) PROVE TypeOK'
  BY <1>3 DEF OpenCreate, Asserted, Extended, LeaseRenewed
<1>4. ASSUME NEW c \in Create, OpenDuplicate(c) PROVE TypeOK'
  BY SMTT(30), <1>4 DEF OpenDuplicate, Asserted, Extended, LeaseRenewed, Duplicates, Bookings
<1>5. ASSUME NEW c \in Create, CommitCreate(c) PROVE TypeOK'
  <2>1. NewBooking(c) \in BookingRecord
    BY DEF NewBooking, BookingRecord, Status
  <2> QED
    BY <1>5, <2>1 DEF CommitCreate
<1>6. ASSUME NEW c \in Create, CommitDuplicate(c) PROVE TypeOK'
  BY ZenonT(40), <1>6 DEF CommitDuplicate, Duplicates, Bookings
<1>7. ASSUME NEW m \in Move, PreflightMove(m) PROVE TypeOK'
  <2>1. PICK a \in Offer(m) :
             /\ want' = [want EXCEPT ![m] = a]
             /\ keys' = [keys EXCEPT ![m] =
                           KeysOf(Home[m], a) \cup KeysOf(Home[m], Reserved(Target[m]))]
    BY <1>7 DEF PreflightMove
  <2>2. Reserved(Target[m]) \in SUBSET Cell
    BY DEF Reserved, BookingRecord
  <2>3. /\ a \in SUBSET Cell
        /\ KeysOf(Home[m], a) \in SUBSET Key
        /\ KeysOf(Home[m], Reserved(Target[m])) \in SUBSET Key
    BY <2>2, OfferType, KeysOfType
  <2> QED
    BY <1>7, <2>1, <2>3 DEF PreflightMove, BookingRecord
<1>8. ASSUME NEW m \in Move, OpenMove(m) PROVE TypeOK'
  BY <1>8 DEF OpenMove, Asserted, Extended, LeaseRenewed, BookingRecord
<1>9. ASSUME NEW m \in Move, OpenMoveRefused(m) PROVE TypeOK'
  BY <1>9 DEF OpenMoveRefused, Asserted, Extended, LeaseRenewed, BookingRecord
<1>10. ASSUME NEW m \in Move, CommitMove(m) PROVE TypeOK'
  <2>1. MovedBooking(m) \in BookingRecord
    BY <1>10 DEF CommitMove, MovedBooking, BookingRecord, Status
  <2> QED
    BY <1>10, <2>1 DEF CommitMove
<1>11. ASSUME NEW m \in Move, RetryMove(m) PROVE TypeOK'
  BY <1>11 DEF RetryMove
<1>12. ASSUME NEW p \in Alloc, PreflightRefused(p) PROVE TypeOK'
  BY <1>12 DEF PreflightRefused
<1>13. ASSUME NEW p \in Alloc, Recheck(p) PROVE TypeOK'
  <2>1. PICK a \in Offer(p) : want' = [want EXCEPT ![p] = a]
    BY <1>13 DEF Recheck
  <2>2. a \in SUBSET Cell
    BY OfferType
  <2> QED
    BY <1>13, <2>1, <2>2 DEF Recheck
<1>14. ASSUME NEW p \in Alloc, RecheckRefused(p) PROVE TypeOK'
  BY <1>14 DEF RecheckRefused
<1>15. ASSUME NEW k \in Block, StartBlock(k) PROVE TypeOK'
  BY <1>15, BlockKeysType DEF StartBlock
<1>16. ASSUME NEW k \in Block, OpenBlock(k) PROVE TypeOK'
  BY <1>16 DEF OpenBlock, Asserted, Extended, LeaseRenewed
<1>17. ASSUME NEW k \in Block, OpenBlockRefused(k) PROVE TypeOK'
  BY <1>17 DEF OpenBlockRefused, Asserted, Extended, LeaseRenewed
<1>18. ASSUME NEW k \in Block, CommitBlock(k) PROVE TypeOK'
  BY <1>18 DEF CommitBlock
<1>19. ASSUME NEW p \in Locker, TakeReadLease(p) PROVE TypeOK'
  BY <1>19 DEF TakeReadLease
<1>20. ASSUME NEW p \in Locker, ReadLeaseRefused(p) PROVE TypeOK'
  BY <1>20 DEF ReadLeaseRefused
<1>21. ASSUME NEW p \in Locker, TakeLock(p) PROVE TypeOK'
  <2>1. PICK k \in Key :
             /\ lock' = [lock EXCEPT ![k] = [owner |-> p, left |-> Ttl[p]]]
             /\ got' = [got EXCEPT ![p] = @ \cup {k}]
    BY <1>21 DEF TakeLock
  <2>2. [owner |-> p, left |-> Ttl[p]] \in [owner : Locker \cup {NoProc}, left : Nat]
    OBVIOUS
  <2> QED
    BY <1>21, <2>1, <2>2 DEF TakeLock
<1>22. ASSUME NEW p \in Locker, LockRefused(p) PROVE TypeOK'
  BY <1>22 DEF LockRefused
<1>23. ASSUME NEW p \in Locker, AllLocked(p) PROVE TypeOK'
  BY <1>23 DEF AllLocked
<1>24. ASSUME NEW p \in Locker, Seal(p) PROVE TypeOK'
  BY <1>24 DEF Seal, Asserted, Extended, LeaseRenewed
<1>25. ASSUME NEW p \in Locker, LostLock(p) PROVE TypeOK'
  BY <1>25 DEF LostLock, Extended, LeaseRenewed
<1>26. ASSUME NEW w \in Writer, TakeWriteLease(w) PROVE TypeOK'
  BY <1>26 DEF TakeWriteLease
<1>27. ASSUME NEW w \in Writer, WriteLeaseRefused(w) PROVE TypeOK'
  BY <1>27 DEF WriteLeaseRefused
<1>28. ASSUME NEW w \in Writer, StartWriting(w) PROVE TypeOK'
  BY <1>28 DEF StartWriting
<1>29. ASSUME NEW w \in Writer, SealConfig(w) PROVE TypeOK'
  BY <1>29 DEF SealConfig
<1>30. ASSUME NEW w \in Writer, WriterLost(w) PROVE TypeOK'
  BY <1>30 DEF WriterLost
<1>31. ASSUME NEW w \in Writer, CommitConfig(w) PROVE TypeOK'
  BY <1>31 DEF CommitConfig
<1>32. ASSUME NEW p \in Proc, OutOfTime(p) PROVE TypeOK'
  BY <1>32 DEF OutOfTime
<1>33. ASSUME NEW p \in Proc, Release(p) PROVE TypeOK'
  BY <1>33 DEF Release, Dropped, Unlocked
<1>34. ASSUME NEW p \in Proc, Renew(p) PROVE TypeOK'
  BY <1>34 DEF Renew, Extended, LeaseRenewed
<1>35. ASSUME NEW p \in Proc, Crash(p) PROVE TypeOK'
  BY <1>35 DEF Crash
<1>36. ASSUME NEW b \in Create, ConfirmRead(b) PROVE TypeOK'
  BY <1>36 DEF ConfirmRead, BookingRecord
<1>37. ASSUME NEW b \in Create, ConfirmWrite(b) PROVE TypeOK'
  <2>1. Written(b, "confirmed", "confirmed") \in BookingRecord
    BY DEF Written, BookingRecord, Status
  <2> QED
    BY <1>37, <2>1 DEF ConfirmWrite
<1>38. ASSUME NEW b \in Create, ConfirmConflict(b) PROVE TypeOK'
  BY <1>38 DEF ConfirmConflict
<1>39. ASSUME NEW b \in Create, ExpireHold(b) PROVE TypeOK'
  <2>1. Released(b, "cancelled") \in BookingRecord
    BY <1>39 DEF ExpireHold, Released, Written, BookingRecord, Status
  <2> QED
    BY <1>39, <2>1 DEF ExpireHold
<1>40. ASSUME NEW b \in Create, CheckIn(b) PROVE TypeOK'
  <2>1. Written(b, "checked_in", book[b].resv) \in BookingRecord
    BY DEF Written, BookingRecord, Status
  <2> QED
    BY <1>40, <2>1 DEF CheckIn
<1>41. ASSUME NEW b \in Create, Close(b) PROVE TypeOK'
  <2>1. PICK s \in {"cancelled", "closed"} : book' = [book EXCEPT ![b] = Released(b, s)]
    BY <1>41 DEF Close
  <2>2. Released(b, s) \in BookingRecord
    BY DEF Released, Written, BookingRecord, Status
  <2> QED
    BY <1>41, <2>1, <2>2 DEF Close
<1>42. ASSUME NEW b \in Create, PurgeHold(b) PROVE TypeOK'
  <2>1. Written(b, book[b].status, "none") \in BookingRecord
    BY DEF Written, BookingRecord, Status
  <2> QED
    BY <1>42, <2>1 DEF PurgeHold
<1>43. CASE Tick
  BY <1>43 DEF Tick, Minus1, Aged, Unlocked
<1>44. CASE UNCHANGED vars
  BY <1>44 DEF vars
<1> QED
  BY <1>1, <1>2, <1>3, <1>4, <1>5, <1>6, <1>7, <1>8, <1>9, <1>10, <1>11, <1>12,
     <1>13, <1>14, <1>15, <1>16, <1>17, <1>18, <1>19, <1>20, <1>21, <1>22,
     <1>23, <1>24, <1>25, <1>26, <1>27, <1>28, <1>29, <1>30, <1>31, <1>32,
     <1>33, <1>34, <1>35, <1>36, <1>37, <1>38, <1>39, <1>40, <1>41, <1>42,
     <1>43, <1>44
  DEF Next, ProcStep, CreateStep, MoveStep, AllocStep, BlockStep, LockerStep,
      WriterStep, BookingStep

\* An empty calendar, no lock, and no request under way have the type.
LEMMA InitType == Init => TypeOK
BY DEF Init, TypeOK, Phase, BookingRecord, Status, Unlocked, NoBooking,
       Alloc, Locker, Proc

\* Type correctness, for every salon, request and duration: what the requests
\* remember, what Redis stores and what MongoDB stores keep their types.
THEOREM TypeCorrect == Spec => []TypeOK
BY InitType, TypeStep, PTL DEF Spec

-----------------------------------------------------------------------------
(* The inductive invariant.                                                *)

\* The live bookings of a cell whose slot was not confirmed out of time.
Booked(B, c) == Covering(B, c) \ late

\* A request past its second check.
Deciding(p) == pc[p] \in IF p \in Block THEN {"open", "sealed"}
                                        ELSE {"checked", "open", "sealed"}

\* What the second check has found.
Room(p) ==
    \A c \in want[p] : Cardinality(Booked(Home[p], c) \ Excluded(p)) < Cap[c[1]]

Clear(k) == \A B \in Scope[k], c \in BlockCells(k) : Booked(B, c) = {}

\* While a request owns its locks, what its second check found is still so.
RoomKept == \A p \in Alloc : Deciding(p) /\ Owns(p, keys[p]) => Room(p)

\* The blocks that were committed under their own locks.
Held == blocked \ lapsed

OpenTo(p) == \A k \in Held : Home[p] \in Scope[k] => want[p] \cap BlockCells(k) = {}

\* ... and no block committed under its own locks has come over what it wants.
OpenKept == \A p \in Alloc : Deciding(p) /\ Owns(p, keys[p]) => OpenTo(p)

\* While a block owns its locks, no booking comes under it.
ClearKept == \A k \in Block : Deciding(k) /\ Owns(k, keys[k]) => Clear(k)

\* A request holds, or held, the locks that its cells and days stand for.
KeysCover ==
    /\ \A p \in Alloc : Deciding(p) => KeysOf(Home[p], want[p]) \subseteq keys[p]
    /\ \A k \in Block : pc[k] \notin {"idle", "done"} => keys[k] = BlockKeys(k)

\* A transaction has to commit before the locks it last checked expire.
Deadline ==
    \A p \in Locker :
        /\ pc[p] \in {"open", "sealed"} => left[p] <= Window[p]
        /\ InTime(p) /\ pc[p] = "sealed" /\ left[p] > 0 =>
              \A k \in keys[p] : lock[k].owner = p /\ left[p] <= lock[k].left

\* A confirmation that can still commit is about a booking still held.
Fresh ==
    \A b \in Create :
        /\ conf[b] <= book[b].ver
        /\ conf[b] = book[b].ver => book[b].resv = "held"

\* The inductive invariant.
IInv ==
    /\ TypeOK
    /\ RoomKept
    /\ ClearKept
    /\ KeysCover
    /\ Deadline
    /\ Fresh
    /\ NoOverbooking
    /\ OpenKept
    /\ NoBookingInBlock

-----------------------------------------------------------------------------
(* What the steady steps keep.                                            *)

\* Finitely many bookings cover a cell, before and after a step.
LEMMA BookedIsFinite ==
    ASSUME NEW B, NEW c
    PROVE  /\ IsFiniteSet(Covering(B, c)) /\ IsFiniteSet(Covering(B, c)')
           /\ IsFiniteSet(Booked(B, c)) /\ IsFiniteSet(Booked(B, c)')
BY FS_Subset, ProcAssumption DEF Booked, Covering

\* NoBookingInBlock says that the blocks committed under their locks are clear.
LEMMA BlockClear ==
    ASSUME TypeOK
    PROVE  NoBookingInBlock <=> \A k \in Held : Clear(k)
<1> USE RequestAssumption
    DEF NoBookingInBlock, Held, Clear, Booked, Covering, TypeOK, BookingRecord, Alloc
<1>1. ASSUME NoBookingInBlock, NEW k \in Held PROVE Clear(k)
  BY <1>1
<1>2. ASSUME \A k \in Held : Clear(k) PROVE NoBookingInBlock
  BY <1>2
<1> QED
  BY <1>1, <1>2

\* The same after a step.
LEMMA BlockClearNext ==
    ASSUME TypeOK'
    PROVE  NoBookingInBlock' <=> \A k \in Held' : Clear(k)'
<1> USE RequestAssumption
    DEF NoBookingInBlock, Held, Clear, Booked, Covering, TypeOK, BookingRecord, Alloc,
        BlockCells
<1>1. ASSUME NoBookingInBlock', NEW k \in Held' PROVE Clear(k)'
  BY <1>1
<1>2. ASSUME \A k \in Held' : Clear(k)' PROVE NoBookingInBlock'
  BY <1>2
<1> QED
  BY <1>1, <1>2

\* A block covers cells of branches.
LEMMA BlockCellsType ==
    ASSUME NEW k \in Block
    PROVE  Scope[k] \subseteq Branch /\ BlockCells(k) \subseteq Cell
BY RequestAssumption DEF BlockCells, Cell

\* A step after which no request newly decides and no cell is newly booked.
Steady ==
    /\ \A p \in Locker : Deciding(p)' /\ Owns(p, keys[p])' =>
          Deciding(p) /\ Owns(p, keys[p]) /\ want'[p] = want[p]
    /\ \A B \in Branch, c \in Cell : Booked(B, c)' \subseteq Booked(B, c)
    /\ Held' = Held

\* Such a step keeps everything the invariant says of the calendar.
LEMMA QuietStep ==
    ASSUME IInv, TypeOK', Steady
    PROVE  /\ RoomKept' /\ ClearKept' /\ NoOverbooking'
           /\ OpenKept' /\ NoBookingInBlock'
<1> USE RequestAssumption, CalendarAssumption DEF IInv
<1>1. ASSUME NEW B \in Branch, NEW c \in Cell, NEW X
      PROVE  Cardinality(Booked(B, c)' \ X) <= Cardinality(Booked(B, c) \ X)
  <2>1. Booked(B, c)' \ X \subseteq Booked(B, c) \ X
    BY DEF Steady
  <2>2. IsFiniteSet(Booked(B, c) \ X)
    BY BookedIsFinite, FS_Subset
  <2> QED
    BY <2>1, <2>2, FS_Subset
<1>2. RoomKept'
  <2>1. SUFFICES ASSUME NEW p \in Alloc, Deciding(p)', Owns(p, keys[p])'
                 PROVE  Room(p)'
    BY DEF RoomKept
  <2>2. Room(p) /\ want'[p] = want[p]
    BY <2>1 DEF RoomKept, Steady, Locker
  <2>3. ASSUME NEW c \in want[p]
        PROVE  Cardinality(Booked(Home[p], c)' \ Excluded(p)) < Cap[c[1]]
    <3>1. Cardinality(Booked(Home[p], c) \ Excluded(p)) < Cap[c[1]]
      BY <2>2 DEF Room
    <3>2. Home[p] \in Branch /\ c \in Cell /\ Cap[c[1]] \in Nat
      BY DEF TypeOK, Locker, Cell
    <3>3. /\ Cardinality(Booked(Home[p], c) \ Excluded(p)) \in Nat
          /\ Cardinality(Booked(Home[p], c)' \ Excluded(p)) \in Nat
      BY BookedIsFinite, FS_Subset, FS_CardinalityType
    <3>4. Cardinality(Booked(Home[p], c)' \ Excluded(p))
             <= Cardinality(Booked(Home[p], c) \ Excluded(p))
      BY <1>1, <3>2
    <3> QED
      BY <3>1, <3>2, <3>3, <3>4
  <2> QED
    BY <2>2, <2>3 DEF Room, Excluded
<1>3. ASSUME NEW k \in Block, Clear(k) PROVE Clear(k)'
  <2>1. Scope[k] \subseteq Branch /\ BlockCells(k) \subseteq Cell
    BY BlockCellsType
  <2> QED
    BY <1>3, <2>1 DEF Clear, Steady, BlockCells
<1>4. ClearKept'
  <2>1. SUFFICES ASSUME NEW k \in Block, Deciding(k)', Owns(k, keys[k])'
                 PROVE  Clear(k)'
    BY DEF ClearKept
  <2>2. Clear(k)
    BY <2>1 DEF ClearKept, Steady, Locker
  <2> QED
    BY <1>3, <2>2
<1>5. NoOverbooking'
  <2>1. SUFFICES ASSUME NEW B \in Branch, NEW c \in Cell
                 PROVE  Cardinality(Booked(B, c)') <= Cap[c[1]]
    BY DEF NoOverbooking, Booked
  <2>2. Booked(B, c)' \subseteq Booked(B, c)
    BY DEF Steady
  <2>3. Cardinality(Booked(B, c)') <= Cardinality(Booked(B, c))
    BY <2>2, BookedIsFinite, FS_Subset
  <2>4. Cardinality(Booked(B, c)) <= Cap[c[1]]
    BY DEF NoOverbooking, Booked
  <2>5. /\ Cardinality(Booked(B, c)') \in Nat
        /\ Cardinality(Booked(B, c)) \in Nat
        /\ Cap[c[1]] \in Nat
    BY BookedIsFinite, FS_CardinalityType DEF Cell
  <2> QED
    BY <2>3, <2>4, <2>5
<1>6. OpenKept'
  <2>1. SUFFICES ASSUME NEW p \in Alloc, Deciding(p)', Owns(p, keys[p])'
                 PROVE  OpenTo(p)'
    BY DEF OpenKept
  <2>2. OpenTo(p) /\ want'[p] = want[p]
    BY <2>1 DEF OpenKept, Steady, Locker
  <2> QED
    BY <2>2 DEF OpenTo, Steady, BlockCells
<1>7. NoBookingInBlock'
  <2>1. \A k \in Held : Clear(k)
    BY BlockClear
  <2>2. Held \subseteq Block /\ Held' = Held
    BY DEF TypeOK, Steady, Held
  <2>3. \A k \in Held' : Clear(k)'
    BY <1>3, <2>1, <2>2
  <2> QED
    BY <2>3, BlockClearNext
<1> QED
  BY <1>2, <1>4, <1>5, <1>6, <1>7

\* The steps that are not steady: the checks and the commits.
LoudStep ==
    \/ \E p \in Alloc : Recheck(p)
    \/ \E k \in Block : OpenBlock(k) \/ CommitBlock(k)
    \/ \E c \in Create : CommitCreate(c)
    \/ \E m \in Move : CommitMove(m)

\* The kinds of request are different, and none is NoProc.
LEMMA Processes ==
    /\ \A c \in Create : c \in Alloc /\ c \in Locker /\ c \in Proc
    /\ \A m \in Move : m \in Alloc /\ m \in Locker /\ m \in Proc /\ m \notin Create
    /\ \A p \in Alloc : p \in Locker /\ p \in Proc
    /\ \A k \in Block : k \in Locker /\ k \in Proc /\ k \notin Alloc
    /\ \A p \in Locker : p \in Proc /\ p \notin Writer /\ p # NoProc
    /\ \A w \in Writer : w \in Proc /\ w \notin Locker
BY ProcAssumption DEF Alloc, Locker, Proc

\* Who decides under its locks after the step did so before it.
StillDeciding ==
    \A p \in Locker : Deciding(p)' /\ Owns(p, keys[p])' =>
        Deciding(p) /\ Owns(p, keys[p]) /\ want'[p] = want[p]

\* A step of a request that leaves the calendar alone keeps the invariant.
LEMMA QuietProc ==
    ASSUME IInv, TypeOK', UNCHANGED <<book, hold, conf, late, blocked, lapsed>>,
           KeysCover', Deadline', StillDeciding
    PROVE  IInv'
<1>1. Fresh'
  BY DEF IInv, Fresh
<1>2. \A B \in Branch, c \in Cell : Booked(B, c)' \subseteq Booked(B, c)
  BY DEF Booked, Covering, Live
<1>3. Steady
  BY <1>2 DEF Steady, StillDeciding, Held
<1> QED
  BY <1>1, <1>3, QuietStep DEF IInv

\* A step of a booking that frees cells keeps the invariant.
LEMMA QuietBooking ==
    ASSUME IInv, TypeOK', UNCHANGED <<pc, want, keys, left, lock, blocked, lapsed>>, Fresh',
           \A B \in Branch, c \in Cell : Booked(B, c)' \subseteq Booked(B, c)
    PROVE  IInv'
<1>1. KeysCover'
  BY DEF IInv, KeysCover, Deciding, KeysOf, BlockKeys
<1>2. Deadline'
  BY DEF IInv, Deadline
<1>3. Steady
  BY DEF Steady, Deciding, Owns, Held
<1> QED
  BY <1>1, <1>2, <1>3, QuietStep DEF IInv

\* The part of the type invariant that is about requests and locks.
LEMMA ProcFields ==
    ASSUME TypeOK
    PROVE  /\ pc \in [Proc -> Phase]
           /\ want \in [Locker -> SUBSET Cell]
           /\ keys \in [Locker -> SUBSET Key]
           /\ left \in [Proc -> Nat]
           /\ lock \in [Key -> [owner : Locker \cup {NoProc}, left : Nat]]
           /\ \A p \in Locker : \A k \in keys[p] : k \in Key
BY DEF TypeOK

\* An ownership check or a renewal only moves the expiry of locks away.
LEMMA ExtendedDeadline ==
    ASSUME NEW p \in Proc, TypeOK, TypeOK', Deadline, lock' = Extended(p),
           keys' = keys,
           \A q \in Proc \ {p} : pc'[q] = pc[q] /\ left'[q] = left[q],
           p \in Locker /\ pc'[p] \in {"open", "sealed"} => left'[p] <= Window[p],
           p \in Locker /\ pc'[p] = "sealed" =>
               \/ Owns(p, keys[p])
               \/ pc[p] = "sealed" /\ left'[p] = left[p]
    PROVE  Deadline'
<1> USE ProcFields, Processes, TimeAssumption
<1>1. ASSUME NEW q \in Locker, q # p
      PROVE  /\ pc'[q] \in {"open", "sealed"} => left'[q] <= Window[q]
             /\ InTime(q) /\ pc'[q] = "sealed" /\ left'[q] > 0 =>
                   \A k \in keys'[q] : lock'[k].owner = q /\ left'[q] <= lock'[k].left
  BY <1>1 DEF Deadline, Extended
<1>2. ASSUME p \in Locker, InTime(p), pc'[p] = "sealed", left'[p] > 0, NEW k \in keys[p]
      PROVE  lock'[k].owner = p /\ left'[p] <= lock'[k].left
  <2>1. lock[k].owner = p
    BY <1>2 DEF Deadline, Owns
  <2>2. lock'[k] = [owner |-> p, left |-> Ttl[p]]
    BY <1>2, <2>1 DEF Extended
  <2>3. left'[p] <= Window[p] /\ Window[p] <= Ttl[p]
    BY <1>2 DEF InTime
  <2>4. left'[p] \in Nat /\ Window[p] \in Nat /\ Ttl[p] \in Nat
    BY <1>2 DEF TypeOK
  <2> QED
    BY <2>2, <2>3, <2>4
<1> QED
  BY <1>1, <1>2 DEF Deadline

\* A write of a booking makes every earlier read of it stale.
LEMMA FreshWritten ==
    ASSUME TypeOK, Fresh, NEW b \in Create, NEW r,
           r.ver = book[b].ver + 1, book' = [book EXCEPT ![b] = r], conf' = conf
    PROVE  Fresh'
<1>1. \A c \in Create : book[c].ver \in Nat /\ conf[c] \in Int
  BY DEF TypeOK, BookingRecord
<1>2. conf'[b] < book'[b].ver
  BY <1>1 DEF Fresh, TypeOK
<1>3. ASSUME NEW c \in Create, c # b
      PROVE  conf'[c] = conf[c] /\ book'[c] = book[c]
  BY <1>3 DEF TypeOK
<1>4. book'[b].ver \in Int
  BY <1>1 DEF TypeOK
<1> QED
  BY <1>1, <1>2, <1>3, <1>4 DEF Fresh

\* Every step but the checks and the commits keeps the invariant.
LEMMA QuietSteps ==
    ASSUME BookingsInTime, IInv, TypeOK', [Next]_vars
    PROVE  IInv' \/ LoudStep
<1> TypeOK
  BY DEF IInv
<1> USE ProcFields, Processes
<1>1. ASSUME NEW c \in Create, AnswerRepeated(c) PROVE IInv'
  <2>1. UNCHANGED <<book, hold, conf, late, blocked, lapsed>>
    BY <1>1 DEF AnswerRepeated, bookVars
  <2>2. KeysCover'
    BY <1>1 DEF AnswerRepeated, Goto, IInv, KeysCover, Deciding, KeysOf, BlockKeys
  <2>3. Deadline'
    BY <1>1 DEF AnswerRepeated, Goto, redisVars, IInv, Deadline
  <2>4. StillDeciding
    BY <1>1 DEF AnswerRepeated, Goto, redisVars, StillDeciding, Deciding, Owns
  <2> QED
    BY <2>1, <2>2, <2>3, <2>4, QuietProc
<1>2. ASSUME NEW c \in Create, PreflightCreate(c) PROVE IInv'
  <2>1. UNCHANGED <<book, hold, conf, late, blocked, lapsed>>
    BY <1>2 DEF PreflightCreate, bookVars
  <2>2. KeysCover'
    BY <1>2 DEF PreflightCreate, Goto, IInv, KeysCover, Deciding, KeysOf, BlockKeys
  <2>3. Deadline'
    BY <1>2 DEF PreflightCreate, Goto, redisVars, IInv, Deadline
  <2>4. StillDeciding
    BY <1>2 DEF PreflightCreate, Goto, redisVars, StillDeciding, Deciding, Owns
  <2> QED
    BY <2>1, <2>2, <2>3, <2>4, QuietProc
<1>3. ASSUME NEW c \in Create, OpenCreate(c) PROVE IInv'
  <2>1. UNCHANGED <<book, hold, conf, late, blocked, lapsed>>
    BY <1>3 DEF OpenCreate, bookVars
  <2>2. KeysCover'
    BY <1>3 DEF OpenCreate, Goto, IInv, KeysCover, Deciding, KeysOf, BlockKeys
  <2>3. Deadline'
    <3>1. /\ lock' = Extended(c) /\ keys' = keys
          /\ pc'[c] = "open" /\ left'[c] = Window[c] /\ Window[c] \in Nat
          /\ \A q \in Proc \ {c} : pc'[q] = pc[q] /\ left'[q] = left[q]
      BY <1>3, TimeAssumption DEF OpenCreate, Asserted, Goto
    <3>2. left'[c] <= Window[c]
      BY <3>1
    <3> QED
      BY <3>1, <3>2, ExtendedDeadline DEF IInv
  <2>4. StillDeciding
    BY ZenonT(40), <1>3 DEF OpenCreate, Asserted, Valid, Extended, Goto, redisVars, StillDeciding, Deciding, Owns
  <2> QED
    BY <2>1, <2>2, <2>3, <2>4, QuietProc
<1>4. ASSUME NEW c \in Create, OpenDuplicate(c) PROVE IInv'
  <2>1. UNCHANGED <<book, hold, conf, late, blocked, lapsed>>
    BY <1>4 DEF OpenDuplicate, bookVars
  <2>2. KeysCover'
    BY <1>4 DEF OpenDuplicate, Goto, IInv, KeysCover, Deciding, KeysOf, BlockKeys
  <2>3. Deadline'
    BY <1>4, ExtendedDeadline, TimeAssumption
    DEF OpenDuplicate, Asserted, Valid, Goto, redisVars, IInv, Deadline
  <2>4. StillDeciding
    BY <1>4 DEF OpenDuplicate, Asserted, Valid, Extended, Goto, redisVars, StillDeciding, Deciding, Owns
  <2> QED
    BY <2>1, <2>2, <2>3, <2>4, QuietProc
<1>5. ASSUME NEW c \in Create, CommitDuplicate(c) PROVE IInv'
  <2>1. UNCHANGED <<book, hold, conf, late, blocked, lapsed>>
    BY <1>5 DEF CommitDuplicate, bookVars
  <2>2. KeysCover'
    BY <1>5 DEF CommitDuplicate, Goto, IInv, KeysCover, Deciding, KeysOf, BlockKeys
  <2>3. Deadline'
    BY <1>5 DEF CommitDuplicate, Goto, redisVars, IInv, Deadline
  <2>4. StillDeciding
    BY <1>5 DEF CommitDuplicate, Goto, redisVars, StillDeciding, Deciding, Owns
  <2> QED
    BY <2>1, <2>2, <2>3, <2>4, QuietProc
<1>6. ASSUME NEW m \in Move, PreflightMove(m) PROVE IInv'
  <2>1. UNCHANGED <<book, hold, conf, late, blocked, lapsed>>
    BY <1>6 DEF PreflightMove, bookVars
  <2>2. KeysCover'
    BY <1>6 DEF PreflightMove, Goto, IInv, KeysCover, Deciding, KeysOf, BlockKeys
  <2>3. Deadline'
    BY <1>6 DEF PreflightMove, Goto, redisVars, IInv, Deadline
  <2>4. StillDeciding
    BY <1>6 DEF PreflightMove, Goto, redisVars, StillDeciding, Deciding, Owns
  <2> QED
    BY <2>1, <2>2, <2>3, <2>4, QuietProc
<1>7. ASSUME NEW m \in Move, OpenMove(m) PROVE IInv'
  <2>1. UNCHANGED <<book, hold, conf, late, blocked, lapsed>>
    BY <1>7 DEF OpenMove, bookVars
  <2>2. KeysCover'
    BY <1>7 DEF OpenMove, Goto, IInv, KeysCover, Deciding, KeysOf, BlockKeys
  <2>3. Deadline'
    <3>1. /\ lock' = Extended(m) /\ keys' = keys
          /\ pc'[m] = "open" /\ left'[m] = Window[m] /\ Window[m] \in Nat
          /\ \A q \in Proc \ {m} : pc'[q] = pc[q] /\ left'[q] = left[q]
      BY <1>7, TimeAssumption DEF OpenMove, Asserted, Goto
    <3>2. left'[m] <= Window[m]
      BY <3>1
    <3> QED
      BY <3>1, <3>2, ExtendedDeadline DEF IInv
  <2>4. StillDeciding
    BY <1>7 DEF OpenMove, Asserted, Valid, Extended, Goto, redisVars, StillDeciding, Deciding, Owns
  <2> QED
    BY <2>1, <2>2, <2>3, <2>4, QuietProc
<1>8. ASSUME NEW m \in Move, OpenMoveRefused(m) PROVE IInv'
  <2>1. UNCHANGED <<book, hold, conf, late, blocked, lapsed>>
    BY <1>8 DEF OpenMoveRefused, bookVars
  <2>2. KeysCover'
    BY <1>8 DEF OpenMoveRefused, Goto, IInv, KeysCover, Deciding, KeysOf, BlockKeys
  <2>3. Deadline'
    BY <1>8, ExtendedDeadline, TimeAssumption
    DEF OpenMoveRefused, Asserted, Valid, Goto, redisVars, IInv, Deadline
  <2>4. StillDeciding
    BY <1>8 DEF OpenMoveRefused, Asserted, Valid, Extended, Goto, redisVars, StillDeciding, Deciding, Owns
  <2> QED
    BY <2>1, <2>2, <2>3, <2>4, QuietProc
<1>9. ASSUME NEW m \in Move, RetryMove(m) PROVE IInv'
  <2>1. UNCHANGED <<book, hold, conf, late, blocked, lapsed>>
    BY <1>9 DEF RetryMove, bookVars
  <2>2. KeysCover'
    BY <1>9 DEF RetryMove, Goto, IInv, KeysCover, Deciding, KeysOf, BlockKeys
  <2>3. Deadline'
    BY <1>9 DEF RetryMove, Goto, redisVars, IInv, Deadline
  <2>4. StillDeciding
    BY <1>9 DEF RetryMove, Goto, redisVars, StillDeciding, Deciding, Owns
  <2> QED
    BY <2>1, <2>2, <2>3, <2>4, QuietProc
<1>10. ASSUME NEW p \in Alloc, PreflightRefused(p) PROVE IInv'
  <2>1. UNCHANGED <<book, hold, conf, late, blocked, lapsed>>
    BY <1>10 DEF PreflightRefused, bookVars
  <2>2. KeysCover'
    BY <1>10 DEF PreflightRefused, Goto, IInv, KeysCover, Deciding, KeysOf, BlockKeys
  <2>3. Deadline'
    BY <1>10 DEF PreflightRefused, Goto, redisVars, IInv, Deadline
  <2>4. StillDeciding
    BY <1>10 DEF PreflightRefused, Goto, redisVars, StillDeciding, Deciding, Owns
  <2> QED
    BY <2>1, <2>2, <2>3, <2>4, QuietProc
<1>11. ASSUME NEW p \in Alloc, RecheckRefused(p) PROVE IInv'
  <2>1. UNCHANGED <<book, hold, conf, late, blocked, lapsed>>
    BY <1>11 DEF RecheckRefused, bookVars
  <2>2. KeysCover'
    BY <1>11 DEF RecheckRefused, Goto, IInv, KeysCover, Deciding, KeysOf, BlockKeys
  <2>3. Deadline'
    BY <1>11 DEF RecheckRefused, Goto, redisVars, IInv, Deadline
  <2>4. StillDeciding
    BY <1>11 DEF RecheckRefused, Goto, redisVars, StillDeciding, Deciding, Owns
  <2> QED
    BY <2>1, <2>2, <2>3, <2>4, QuietProc
<1>12. ASSUME NEW k \in Block, StartBlock(k) PROVE IInv'
  <2>1. UNCHANGED <<book, hold, conf, late, blocked, lapsed>>
    BY <1>12 DEF StartBlock, bookVars
  <2>2. KeysCover'
    BY <1>12 DEF StartBlock, Goto, IInv, KeysCover, Deciding, KeysOf, BlockKeys
  <2>3. Deadline'
    BY <1>12 DEF StartBlock, Goto, redisVars, IInv, Deadline
  <2>4. StillDeciding
    BY <1>12 DEF StartBlock, Goto, redisVars, StillDeciding, Deciding, Owns
  <2> QED
    BY <2>1, <2>2, <2>3, <2>4, QuietProc
<1>13. ASSUME NEW k \in Block, OpenBlockRefused(k) PROVE IInv'
  <2>1. UNCHANGED <<book, hold, conf, late, blocked, lapsed>>
    BY <1>13 DEF OpenBlockRefused, bookVars
  <2>2. KeysCover'
    BY <1>13 DEF OpenBlockRefused, Goto, IInv, KeysCover, Deciding, KeysOf, BlockKeys
  <2>3. Deadline'
    BY <1>13, ExtendedDeadline, TimeAssumption
    DEF OpenBlockRefused, Asserted, Valid, Goto, redisVars, IInv, Deadline
  <2>4. StillDeciding
    BY <1>13 DEF OpenBlockRefused, Asserted, Valid, Extended, Goto, redisVars, StillDeciding, Deciding, Owns
  <2> QED
    BY <2>1, <2>2, <2>3, <2>4, QuietProc
<1>14. ASSUME NEW p \in Locker, TakeReadLease(p) PROVE IInv'
  <2>1. UNCHANGED <<book, hold, conf, late, blocked, lapsed>>
    BY <1>14 DEF TakeReadLease, bookVars
  <2>2. KeysCover'
    BY <1>14 DEF TakeReadLease, Goto, IInv, KeysCover, Deciding, KeysOf, BlockKeys
  <2>3. Deadline'
    BY <1>14 DEF TakeReadLease, Goto, redisVars, IInv, Deadline
  <2>4. StillDeciding
    BY <1>14 DEF TakeReadLease, Goto, redisVars, StillDeciding, Deciding, Owns
  <2> QED
    BY <2>1, <2>2, <2>3, <2>4, QuietProc
<1>15. ASSUME NEW p \in Locker, ReadLeaseRefused(p) PROVE IInv'
  <2>1. UNCHANGED <<book, hold, conf, late, blocked, lapsed>>
    BY <1>15 DEF ReadLeaseRefused, bookVars
  <2>2. KeysCover'
    BY <1>15 DEF ReadLeaseRefused, Goto, IInv, KeysCover, Deciding, KeysOf, BlockKeys
  <2>3. Deadline'
    BY <1>15 DEF ReadLeaseRefused, Goto, redisVars, IInv, Deadline
  <2>4. StillDeciding
    BY <1>15 DEF ReadLeaseRefused, Goto, redisVars, StillDeciding, Deciding, Owns
  <2> QED
    BY <2>1, <2>2, <2>3, <2>4, QuietProc
<1>16. ASSUME NEW p \in Locker, TakeLock(p) PROVE IInv'
  <2>1. UNCHANGED <<book, hold, conf, late, blocked, lapsed>>
    BY <1>16 DEF TakeLock, bookVars
  <2>2. KeysCover'
    BY <1>16 DEF TakeLock, Goto, IInv, KeysCover, Deciding, KeysOf, BlockKeys
  <2>3. Deadline'
    BY <1>16 DEF TakeLock, Goto, redisVars, IInv, Deadline
  <2>4. StillDeciding
    BY <1>16 DEF TakeLock, Goto, redisVars, StillDeciding, Deciding, Owns
  <2> QED
    BY <2>1, <2>2, <2>3, <2>4, QuietProc
<1>17. ASSUME NEW p \in Locker, LockRefused(p) PROVE IInv'
  <2>1. UNCHANGED <<book, hold, conf, late, blocked, lapsed>>
    BY <1>17 DEF LockRefused, bookVars
  <2>2. KeysCover'
    BY <1>17 DEF LockRefused, Goto, IInv, KeysCover, Deciding, KeysOf, BlockKeys
  <2>3. Deadline'
    BY <1>17 DEF LockRefused, Goto, redisVars, IInv, Deadline
  <2>4. StillDeciding
    BY <1>17 DEF LockRefused, Goto, redisVars, StillDeciding, Deciding, Owns
  <2> QED
    BY <2>1, <2>2, <2>3, <2>4, QuietProc
<1>18. ASSUME NEW p \in Locker, AllLocked(p) PROVE IInv'
  <2>1. UNCHANGED <<book, hold, conf, late, blocked, lapsed>>
    BY <1>18 DEF AllLocked, bookVars
  <2>2. KeysCover'
    BY <1>18 DEF AllLocked, Goto, IInv, KeysCover, Deciding, KeysOf, BlockKeys
  <2>3. Deadline'
    BY <1>18 DEF AllLocked, Goto, redisVars, IInv, Deadline
  <2>4. StillDeciding
    BY <1>18 DEF AllLocked, Goto, redisVars, StillDeciding, Deciding, Owns
  <2> QED
    BY <2>1, <2>2, <2>3, <2>4, QuietProc
<1>19. ASSUME NEW p \in Locker, Seal(p) PROVE IInv'
  <2>1. UNCHANGED <<book, hold, conf, late, blocked, lapsed>>
    BY <1>19 DEF Seal, bookVars
  <2>2. KeysCover'
    BY <1>19 DEF Seal, Goto, IInv, KeysCover, Deciding, KeysOf, BlockKeys
  <2>3. Deadline'
    BY <1>19, ExtendedDeadline, TimeAssumption
    DEF Seal, Asserted, Valid, Goto, redisVars, IInv, Deadline, Owns
  <2>4. StillDeciding
    BY <1>19 DEF Seal, Asserted, Valid, Extended, Goto, redisVars, StillDeciding, Deciding, Owns
  <2> QED
    BY <2>1, <2>2, <2>3, <2>4, QuietProc
<1>20. ASSUME NEW p \in Locker, LostLock(p) PROVE IInv'
  <2>1. UNCHANGED <<book, hold, conf, late, blocked, lapsed>>
    BY <1>20 DEF LostLock, bookVars
  <2>2. KeysCover'
    BY <1>20 DEF LostLock, Goto, IInv, KeysCover, Deciding, KeysOf, BlockKeys
  <2>3. Deadline'
    BY <1>20, ExtendedDeadline, TimeAssumption
    DEF LostLock, Goto, redisVars, IInv, Deadline
  <2>4. StillDeciding
    BY <1>20 DEF LostLock, Extended, Goto, redisVars, StillDeciding, Deciding, Owns
  <2> QED
    BY <2>1, <2>2, <2>3, <2>4, QuietProc
<1>21. ASSUME NEW w \in Writer, TakeWriteLease(w) PROVE IInv'
  <2>1. UNCHANGED <<book, hold, conf, late, blocked, lapsed>>
    BY <1>21 DEF TakeWriteLease, bookVars
  <2>2. KeysCover'
    BY <1>21 DEF TakeWriteLease, Goto, IInv, KeysCover, Deciding, KeysOf, BlockKeys
  <2>3. Deadline'
    BY <1>21 DEF TakeWriteLease, Goto, redisVars, IInv, Deadline
  <2>4. StillDeciding
    BY <1>21 DEF TakeWriteLease, Goto, redisVars, StillDeciding, Deciding, Owns
  <2> QED
    BY <2>1, <2>2, <2>3, <2>4, QuietProc
<1>22. ASSUME NEW w \in Writer, WriteLeaseRefused(w) PROVE IInv'
  <2>1. UNCHANGED <<book, hold, conf, late, blocked, lapsed>>
    BY <1>22 DEF WriteLeaseRefused, bookVars
  <2>2. KeysCover'
    BY <1>22 DEF WriteLeaseRefused, Goto, IInv, KeysCover, Deciding, KeysOf, BlockKeys
  <2>3. Deadline'
    BY <1>22 DEF WriteLeaseRefused, Goto, redisVars, IInv, Deadline
  <2>4. StillDeciding
    BY <1>22 DEF WriteLeaseRefused, Goto, redisVars, StillDeciding, Deciding, Owns
  <2> QED
    BY <2>1, <2>2, <2>3, <2>4, QuietProc
<1>23. ASSUME NEW w \in Writer, StartWriting(w) PROVE IInv'
  <2>1. UNCHANGED <<book, hold, conf, late, blocked, lapsed>>
    BY <1>23 DEF StartWriting, bookVars
  <2>2. KeysCover'
    BY <1>23 DEF StartWriting, Goto, IInv, KeysCover, Deciding, KeysOf, BlockKeys
  <2>3. Deadline'
    BY <1>23 DEF StartWriting, Goto, redisVars, IInv, Deadline
  <2>4. StillDeciding
    BY <1>23 DEF StartWriting, Goto, redisVars, StillDeciding, Deciding, Owns
  <2> QED
    BY <2>1, <2>2, <2>3, <2>4, QuietProc
<1>24. ASSUME NEW w \in Writer, SealConfig(w) PROVE IInv'
  <2>1. UNCHANGED <<book, hold, conf, late, blocked, lapsed>>
    BY <1>24 DEF SealConfig, bookVars
  <2>2. KeysCover'
    BY <1>24 DEF SealConfig, Goto, IInv, KeysCover, Deciding, KeysOf, BlockKeys
  <2>3. Deadline'
    BY <1>24 DEF SealConfig, Goto, redisVars, IInv, Deadline
  <2>4. StillDeciding
    BY <1>24 DEF SealConfig, Goto, redisVars, StillDeciding, Deciding, Owns
  <2> QED
    BY <2>1, <2>2, <2>3, <2>4, QuietProc
<1>25. ASSUME NEW w \in Writer, WriterLost(w) PROVE IInv'
  <2>1. UNCHANGED <<book, hold, conf, late, blocked, lapsed>>
    BY <1>25 DEF WriterLost, bookVars
  <2>2. KeysCover'
    BY <1>25 DEF WriterLost, Goto, IInv, KeysCover, Deciding, KeysOf, BlockKeys
  <2>3. Deadline'
    BY <1>25 DEF WriterLost, Goto, redisVars, IInv, Deadline
  <2>4. StillDeciding
    BY <1>25 DEF WriterLost, Goto, redisVars, StillDeciding, Deciding, Owns
  <2> QED
    BY <2>1, <2>2, <2>3, <2>4, QuietProc
<1>26. ASSUME NEW w \in Writer, CommitConfig(w) PROVE IInv'
  <2>1. UNCHANGED <<book, hold, conf, late, blocked, lapsed>>
    BY <1>26 DEF CommitConfig, bookVars
  <2>2. KeysCover'
    BY <1>26 DEF CommitConfig, Goto, IInv, KeysCover, Deciding, KeysOf, BlockKeys
  <2>3. Deadline'
    BY <1>26 DEF CommitConfig, Goto, redisVars, IInv, Deadline
  <2>4. StillDeciding
    BY <1>26 DEF CommitConfig, Goto, redisVars, StillDeciding, Deciding, Owns
  <2> QED
    BY <2>1, <2>2, <2>3, <2>4, QuietProc
<1>27. ASSUME NEW p \in Proc, OutOfTime(p) PROVE IInv'
  <2>1. UNCHANGED <<book, hold, conf, late, blocked, lapsed>>
    BY <1>27 DEF OutOfTime, bookVars
  <2>2. KeysCover'
    BY <1>27 DEF OutOfTime, Goto, IInv, KeysCover, Deciding, KeysOf, BlockKeys
  <2>3. Deadline'
    BY <1>27 DEF OutOfTime, Goto, redisVars, IInv, Deadline
  <2>4. StillDeciding
    BY <1>27 DEF OutOfTime, Goto, redisVars, StillDeciding, Deciding, Owns
  <2> QED
    BY <2>1, <2>2, <2>3, <2>4, QuietProc
<1>28. ASSUME NEW p \in Proc, Release(p) PROVE IInv'
  <2>1. UNCHANGED <<book, hold, conf, late, blocked, lapsed>>
    BY <1>28 DEF Release, bookVars
  <2>2. KeysCover'
    BY <1>28 DEF Release, Goto, IInv, KeysCover, Deciding, KeysOf, BlockKeys
  <2>3. Deadline'
    BY <1>28 DEF Release, Dropped, Unlocked, Goto, redisVars, IInv, Deadline
  <2>4. StillDeciding
    BY <1>28 DEF Release, Dropped, Unlocked, Goto, redisVars, StillDeciding, Deciding, Owns
  <2> QED
    BY <2>1, <2>2, <2>3, <2>4, QuietProc
<1>29. ASSUME NEW p \in Proc, Renew(p) PROVE IInv'
  <2>1. UNCHANGED <<book, hold, conf, late, blocked, lapsed>>
    BY <1>29 DEF Renew, bookVars
  <2>2. KeysCover'
    BY <1>29 DEF Renew, Goto, IInv, KeysCover, Deciding, KeysOf, BlockKeys
  <2>3. Deadline'
    BY <1>29, ExtendedDeadline, TimeAssumption
    DEF Renew, Goto, redisVars, IInv, Deadline
  <2>4. StillDeciding
    BY <1>29 DEF Renew, Extended, Goto, redisVars, StillDeciding, Deciding, Owns
  <2> QED
    BY <2>1, <2>2, <2>3, <2>4, QuietProc
<1>30. ASSUME NEW p \in Proc, Crash(p) PROVE IInv'
  <2>1. UNCHANGED <<book, hold, conf, late, blocked, lapsed>>
    BY <1>30 DEF Crash, bookVars
  <2>2. KeysCover'
    BY <1>30 DEF Crash, Goto, IInv, KeysCover, Deciding, KeysOf, BlockKeys
  <2>3. Deadline'
    BY <1>30 DEF Crash, Goto, redisVars, IInv, Deadline
  <2>4. StillDeciding
    BY <1>30 DEF Crash, Goto, redisVars, StillDeciding, Deciding, Owns
  <2> QED
    BY <2>1, <2>2, <2>3, <2>4, QuietProc
<1>31. ASSUME NEW b \in Create, ConfirmRead(b) PROVE IInv'
  <2>1. UNCHANGED <<pc, want, keys, left, lock, blocked, lapsed>>
    BY <1>31 DEF ConfirmRead, procVars, redisVars
  <2>2. Fresh'
    BY <1>31 DEF ConfirmRead, TypeOK, BookingRecord, IInv, Fresh
  <2>3. \A B \in Branch, c \in Cell : Booked(B, c)' \subseteq Booked(B, c)
    BY <1>31 DEF ConfirmRead, TypeOK, IInv, Fresh, Booked, Covering, Live
  <2> QED
    BY <2>1, <2>2, <2>3, QuietBooking
<1>32. ASSUME NEW b \in Create, ConfirmWrite(b) PROVE IInv'
  <2>1. UNCHANGED <<pc, want, keys, left, lock, blocked, lapsed>>
    BY <1>32 DEF ConfirmWrite, procVars, redisVars
  <2>2. Fresh'
    BY <1>32 DEF ConfirmWrite, Written, TypeOK, BookingRecord, IInv, Fresh
  <2>3. \A B \in Branch, c \in Cell : Booked(B, c)' \subseteq Booked(B, c)
    BY <1>32 DEF ConfirmWrite, Written, TypeOK, IInv, Fresh, Booked, Covering, Live
  <2> QED
    BY <2>1, <2>2, <2>3, QuietBooking
<1>33. ASSUME NEW b \in Create, ConfirmConflict(b) PROVE IInv'
  <2>1. UNCHANGED <<pc, want, keys, left, lock, blocked, lapsed>>
    BY <1>33 DEF ConfirmConflict, procVars, redisVars
  <2>2. Fresh'
    BY <1>33 DEF ConfirmConflict, TypeOK, BookingRecord, IInv, Fresh
  <2>3. \A B \in Branch, c \in Cell : Booked(B, c)' \subseteq Booked(B, c)
    BY <1>33 DEF ConfirmConflict, TypeOK, IInv, Fresh, Booked, Covering, Live
  <2> QED
    BY <2>1, <2>2, <2>3, QuietBooking
<1>34. ASSUME NEW b \in Create, ExpireHold(b) PROVE IInv'
  <2>1. UNCHANGED <<pc, want, keys, left, lock, blocked, lapsed>>
    BY <1>34 DEF ExpireHold, procVars, redisVars
  <2>2. Fresh'
    <3>1. Released(b, "cancelled").ver = book[b].ver + 1
      BY DEF Released, Written
    <3> QED
      BY <1>34, <3>1, FreshWritten DEF ExpireHold, IInv
  <2>3. \A B \in Branch, c \in Cell : Booked(B, c)' \subseteq Booked(B, c)
    BY <1>34 DEF ExpireHold, Released, Written, TypeOK, IInv, Fresh, Booked, Covering, Live
  <2> QED
    BY <2>1, <2>2, <2>3, QuietBooking
<1>35. ASSUME NEW b \in Create, CheckIn(b) PROVE IInv'
  <2>1. UNCHANGED <<pc, want, keys, left, lock, blocked, lapsed>>
    BY <1>35 DEF CheckIn, procVars, redisVars
  <2>2. Fresh'
    BY <1>35, FreshWritten DEF CheckIn, Written, IInv
  <2>3. \A B \in Branch, c \in Cell : Booked(B, c)' \subseteq Booked(B, c)
    BY <1>35 DEF CheckIn, Written, TypeOK, IInv, Fresh, Booked, Covering, Live
  <2> QED
    BY <2>1, <2>2, <2>3, QuietBooking
<1>36. ASSUME NEW b \in Create, Close(b) PROVE IInv'
  <2>1. UNCHANGED <<pc, want, keys, left, lock, blocked, lapsed>>
    BY <1>36 DEF Close, procVars, redisVars
  <2>2. Fresh'
    BY <1>36, FreshWritten DEF Close, Released, Written, IInv
  <2>3. \A B \in Branch, c \in Cell : Booked(B, c)' \subseteq Booked(B, c)
    BY <1>36 DEF Close, Released, Written, TypeOK, IInv, Fresh, Booked, Covering, Live
  <2> QED
    BY <2>1, <2>2, <2>3, QuietBooking
<1>37. ASSUME NEW b \in Create, PurgeHold(b) PROVE IInv'
  <2>1. UNCHANGED <<pc, want, keys, left, lock, blocked, lapsed>>
    BY <1>37 DEF PurgeHold, procVars, redisVars
  <2>2. Fresh'
    BY <1>37, FreshWritten DEF PurgeHold, Written, IInv
  <2>3. \A B \in Branch, c \in Cell : Booked(B, c)' \subseteq Booked(B, c)
    BY <1>37 DEF PurgeHold, Written, TypeOK, IInv, Fresh, Booked, Covering, Live
  <2> QED
    BY <2>1, <2>2, <2>3, QuietBooking
<1>38. CASE Tick
  <2>1. KeysCover'
    BY <1>38 DEF Tick, IInv, KeysCover, Deciding, KeysOf, BlockKeys
  <2>2. Deadline'
    <3>1. ASSUME NEW p \in Locker
          PROVE  /\ left'[p] <= left[p] /\ left[p] \in Nat /\ left'[p] \in Nat
                 /\ left'[p] > 0 => left'[p] = left[p] - 1
      BY <1>38 DEF Tick, Minus1
    <3>2. ASSUME NEW p \in Locker, pc[p] \in {"open", "sealed"}
          PROVE  left'[p] <= Window[p]
      BY <3>1, <3>2, TimeAssumption DEF IInv, Deadline
    <3>3. ASSUME NEW p \in Locker, InTime(p), pc[p] = "sealed", left'[p] > 0, NEW k \in keys[p]
          PROVE  lock'[k].owner = p /\ left'[p] <= lock'[k].left
      <4>1. /\ left[p] > 0 /\ left[p] > 1
            /\ lock[k].owner = p /\ left[p] <= lock[k].left /\ lock[k].left \in Nat
        BY <3>1, <3>3 DEF IInv, Deadline
      <4>2. lock'[k] = [owner |-> p, left |-> lock[k].left - 1]
        BY <1>38, <3>1, <4>1 DEF Tick, Aged
      <4> QED
        BY <3>1, <3>3, <4>1, <4>2
    <3> QED
      BY <1>38, <3>2, <3>3 DEF Tick, Deadline
  <2>3. Fresh'
    BY <1>38 DEF Tick, IInv, Fresh
  <2>4. StillDeciding
    BY <1>38 DEF Tick, Aged, Unlocked, StillDeciding, Deciding, Owns
  <2>5. \A B \in Branch, c \in Cell : Booked(B, c)' \subseteq Booked(B, c)
    <3>1. \A b \in Create : Live(b)' => Live(b)
      BY <1>38 DEF Tick, Minus1, Live, TypeOK
    <3> QED
      BY <1>38, <3>1 DEF Tick, Booked, Covering
  <2>6. Steady
    BY <1>38, <2>4, <2>5 DEF Tick, Steady, StillDeciding, Held
  <2> QED
    BY <2>1, <2>2, <2>3, <2>6, QuietStep DEF IInv
<1>39. CASE UNCHANGED vars
  <2>1. UNCHANGED <<pc, want, keys, left, lock, book, hold, conf, late, blocked, lapsed>>
    BY <1>39 DEF vars, procVars, redisVars, bookVars
  <2>2. Fresh'
    BY <2>1 DEF IInv, Fresh
  <2>3. \A B \in Branch, c \in Cell : Booked(B, c)' \subseteq Booked(B, c)
    BY <2>1 DEF Booked, Covering, Live
  <2> QED
    BY <2>1, <2>2, <2>3, QuietBooking
<1> QED
  BY <1>1, <1>2, <1>3, <1>4, <1>5, <1>6, <1>7, <1>8, <1>9, <1>10, <1>11,
     <1>12, <1>13, <1>14, <1>15, <1>16, <1>17, <1>18, <1>19, <1>20, <1>21,
     <1>22, <1>23, <1>24, <1>25, <1>26, <1>27, <1>28, <1>29, <1>30, <1>31,
     <1>32, <1>33, <1>34, <1>35, <1>36, <1>37, <1>38, <1>39
  DEF Next, ProcStep, CreateStep, MoveStep, AllocStep, BlockStep, LockerStep,
      WriterStep, BookingStep, LoudStep

-----------------------------------------------------------------------------
(* The checks and the commits.                                             *)

\* A booking that can commit shares no cell with any other request that
\* decides under its locks: both would own the lock of the branch day.
LEMMA LockedOut ==
    ASSUME BookingsInTime, IInv, NEW p \in Alloc, pc[p] = "sealed", left[p] > 0
    PROVE  /\ Deciding(p) /\ Owns(p, keys[p]) /\ Room(p)
           /\ OpenTo(p)
           /\ \A q \in Alloc, x \in Cell :
                 Deciding(q) /\ Owns(q, keys[q]) /\ Home[q] = Home[p]
                 /\ x \in want[q] /\ x \in want[p] => q = p
           /\ \A k \in Block, x \in Cell :
                 Deciding(k) /\ Owns(k, keys[k]) /\ Home[p] \in Scope[k]
                 /\ x \in BlockCells(k) => x \notin want[p]
<1> USE Processes DEF IInv
<1>1. Deciding(p) /\ Owns(p, keys[p])
  BY DEF Deciding, Owns, Deadline, BookingsInTime
<1>2. Room(p)
  BY <1>1 DEF RoomKept
<1>3. ASSUME NEW q \in Alloc, NEW x \in Cell, Deciding(q), x \in want[q]
      PROVE  <<Home[q], Day[x[2]]>> \in keys[q]
  BY <1>3 DEF KeysCover, KeysOf
<1>4. ASSUME NEW k \in Block, NEW x \in Cell, Deciding(k),
             NEW B \in Scope[k], x \in BlockCells(k)
      PROVE  <<B, Day[x[2]]>> \in keys[k]
  BY <1>4 DEF KeysCover, BlockKeys, BlockCells, Deciding
<1>5. ASSUME NEW q \in Alloc, NEW x \in Cell, Deciding(q), Owns(q, keys[q]),
             Home[q] = Home[p], x \in want[q], x \in want[p]
      PROVE  q = p
  BY <1>1, <1>3, <1>5 DEF Owns
<1>6. ASSUME NEW k \in Block, NEW x \in Cell, Deciding(k), Owns(k, keys[k]),
             Home[p] \in Scope[k], x \in BlockCells(k), x \in want[p]
      PROVE  FALSE
  <2>1. p # k
    OBVIOUS
  <2> QED
    BY <1>1, <1>3, <1>4, <1>6, <2>1 DEF Owns
<1>7. OpenTo(p)
  BY <1>1 DEF OpenKept
<1> QED
  BY <1>1, <1>2, <1>5, <1>6, <1>7

\* The commit of a booking keeps what the invariant says of the calendar.
LEMMA AllocCommit ==
    ASSUME BookingsInTime, IInv, TypeOK', NEW p \in Alloc, pc[p] = "sealed", left[p] > 0,
           pc'[p] = "closing", NEW b \in Create, Held' = Held,
           StillDeciding,
           \A B \in Branch, c \in Cell :
               /\ Booked(B, c)' \subseteq Booked(B, c) \cup {b}
               /\ Booked(B, c)' \subseteq (Booked(B, c) \ Excluded(p)) \cup {b}
               /\ b \in Booked(B, c)' => B = Home[p] /\ c \in want[p]
    PROVE  /\ RoomKept' /\ ClearKept' /\ NoOverbooking'
           /\ OpenKept' /\ NoBookingInBlock'
<1> USE Processes DEF IInv
<1>1. Room(p)
  BY LockedOut
<1>2. ASSUME NEW B \in Branch, NEW c \in Cell, ~(B = Home[p] /\ c \in want[p])
      PROVE  Booked(B, c)' \subseteq Booked(B, c)
  BY <1>2
<1>3. RoomKept'
  <2>1. SUFFICES ASSUME NEW q \in Alloc, Deciding(q)', Owns(q, keys[q])'
                 PROVE  Room(q)'
    BY DEF RoomKept
  <2>2. Deciding(q) /\ Owns(q, keys[q]) /\ want'[q] = want[q] /\ Room(q)
    BY <2>1 DEF RoomKept, StillDeciding
  <2>3. q # p
    BY <2>1 DEF Deciding
  <2>4. ASSUME NEW c \in want[q]
        PROVE  Cardinality(Booked(Home[q], c)' \ Excluded(q)) < Cap[c[1]]
    <3>1. Home[q] \in Branch /\ c \in Cell /\ Cap[c[1]] \in Nat
      BY RequestAssumption, CalendarAssumption, ProcFields DEF Cell
    <3>2. Booked(Home[q], c)' \subseteq Booked(Home[q], c)
      BY <1>2, <2>2, <2>3, <2>4, <3>1, LockedOut
    <3>3. Cardinality(Booked(Home[q], c) \ Excluded(q)) < Cap[c[1]]
      BY <2>2 DEF Room
    <3>4. Booked(Home[q], c)' \ Excluded(q) \subseteq Booked(Home[q], c) \ Excluded(q)
      BY <3>2
    <3>5. IsFiniteSet(Booked(Home[q], c) \ Excluded(q))
      BY BookedIsFinite, FS_Subset
    <3>6. /\ Cardinality(Booked(Home[q], c)' \ Excluded(q))
                <= Cardinality(Booked(Home[q], c) \ Excluded(q))
          /\ Cardinality(Booked(Home[q], c)' \ Excluded(q)) \in Nat
          /\ Cardinality(Booked(Home[q], c) \ Excluded(q)) \in Nat
      BY <3>4, <3>5, FS_Subset, FS_CardinalityType
    <3> QED
      BY <3>1, <3>3, <3>6
  <2> QED
    BY <2>2, <2>4 DEF Room, Excluded
<1>4. ClearKept'
  <2>1. SUFFICES ASSUME NEW k \in Block, Deciding(k)', Owns(k, keys[k])',
                        NEW B \in Scope[k], NEW c \in BlockCells(k)
                 PROVE  Booked(B, c)' = {}
    BY DEF ClearKept, Clear, BlockCells
  <2>2. Deciding(k) /\ Owns(k, keys[k]) /\ Clear(k)
    BY <2>1 DEF ClearKept, StillDeciding
  <2>3. B \in Branch /\ c \in Cell
    BY BlockCellsType
  <2>4. Booked(B, c)' \subseteq Booked(B, c)
    BY <1>2, <2>2, <2>3, LockedOut
  <2> QED
    BY <2>2, <2>4 DEF Clear
<1>5. NoOverbooking'
  <2>1. SUFFICES ASSUME NEW B \in Branch, NEW c \in Cell
                 PROVE  Cardinality(Booked(B, c)') <= Cap[c[1]]
    BY DEF NoOverbooking, Booked
  <2>2. /\ Cardinality(Booked(B, c)') \in Nat
        /\ Cardinality(Booked(B, c)) \in Nat
        /\ Cap[c[1]] \in Nat
    BY BookedIsFinite, FS_CardinalityType, CalendarAssumption DEF Cell
  <2>3. CASE B = Home[p] /\ c \in want[p]
    <3> DEFINE R == Booked(B, c) \ Excluded(p)
    <3>1. Cardinality(R) < Cap[c[1]]
      BY <1>1, <2>3 DEF Room
    <3>2. IsFiniteSet(R) /\ Cardinality(R) \in Nat
      BY BookedIsFinite, FS_Subset, FS_CardinalityType
    <3> HIDE DEF R
    <3>3. /\ IsFiniteSet(R \cup {b})
          /\ Cardinality(R \cup {b}) = IF b \in R THEN Cardinality(R)
                                                 ELSE Cardinality(R) + 1
      BY <3>2, FS_AddElement, Zenon
    <3>4. Booked(B, c)' \subseteq R \cup {b}
      BY DEF R
    <3>5. Cardinality(Booked(B, c)') <= Cardinality(R \cup {b})
      BY <3>3, <3>4, FS_Subset
    <3>6. Cardinality(R \cup {b}) \in Nat
      BY <3>3, FS_CardinalityType
    <3> QED
      BY <2>2, <3>1, <3>2, <3>3, <3>5, <3>6
  <2>4. CASE ~(B = Home[p] /\ c \in want[p])
    <3>1. Cardinality(Booked(B, c)') <= Cardinality(Booked(B, c))
      BY <1>2, <2>4, BookedIsFinite, FS_Subset
    <3>2. Cardinality(Booked(B, c)) <= Cap[c[1]]
      BY DEF NoOverbooking, Booked
    <3> QED
      BY <2>2, <3>1, <3>2
  <2> QED
    BY <2>3, <2>4
<1>6. OpenKept'
  BY DEF OpenKept, StillDeciding, OpenTo, BlockCells
<1>7. NoBookingInBlock'
  <2>1. SUFFICES ASSUME NEW k \in Held, NEW B \in Scope[k], NEW c \in BlockCells(k)
                 PROVE  Booked(B, c)' = {}
    BY BlockClearNext DEF Clear, BlockCells
  <2>2. k \in Block
    BY DEF TypeOK, Held
  <2>3. B \in Branch /\ c \in Cell
    BY <2>2, BlockCellsType
  <2>4. Booked(B, c) = {}
    BY BlockClear DEF Clear
  <2>5. ~(B = Home[p] /\ c \in want[p])
    BY LockedOut DEF OpenTo
  <2> QED
    BY <1>2, <2>3, <2>4, <2>5
<1> QED
  BY <1>3, <1>4, <1>5, <1>6, <1>7

\* The second check of a booking keeps the invariant.
LEMMA Rechecked ==
    ASSUME IInv, TypeOK', NEW p \in Alloc, Recheck(p)
    PROVE  IInv'
<1> TypeOK
  BY DEF IInv
<1> USE ProcFields, Processes
<1>1. PICK a \in Offer(p) :
           /\ KeysOf(Home[p], a) \subseteq keys[p]
           /\ want' = [want EXCEPT ![p] = a]
  BY DEF Recheck
<1>2. a \in SUBSET Cell /\ Fits(p, a)
  BY OfferType DEF Offer
<1>3. /\ UNCHANGED <<book, hold, conf, late, blocked, lapsed, keys, left, lock>>
      /\ pc' = [pc EXCEPT ![p] = "checked"]
  BY DEF Recheck, Goto, bookVars, redisVars
<1>4. KeysCover'
  BY <1>1, <1>3 DEF IInv, KeysCover, Deciding, KeysOf, BlockKeys
<1>5. Deadline'
  BY <1>3 DEF IInv, Deadline
<1>6. Fresh'
  BY <1>3 DEF IInv, Fresh
<1>7. \A B, c : Booked(B, c)' = Booked(B, c)
  BY <1>3 DEF Booked, Covering, Live
<1>8. RoomKept'
  <2>1. ASSUME NEW q \in Alloc, q # p, Deciding(q)', Owns(q, keys[q])' PROVE Room(q)'
    <3>1. Deciding(q) /\ Owns(q, keys[q]) /\ want'[q] = want[q]
      BY <1>1, <1>3, <2>1 DEF Deciding, Owns
    <3>2. Room(q)
      BY <3>1 DEF IInv, RoomKept
    <3> QED
      BY <1>7, <3>1, <3>2 DEF Room, Excluded
  <2>2. Room(p)'
    <3>1. ASSUME NEW c \in a
          PROVE  Cardinality(Booked(Home[p], c)' \ Excluded(p)) < Cap[c[1]]
      <4>1. Cardinality(Covering(Home[p], c) \ Excluded(p)) < Cap[c[1]]
        BY <1>2 DEF Fits
      <4>2. Booked(Home[p], c)' \ Excluded(p) \subseteq Covering(Home[p], c) \ Excluded(p)
        BY <1>7 DEF Booked
      <4>3. IsFiniteSet(Covering(Home[p], c) \ Excluded(p))
        BY BookedIsFinite, FS_Subset
      <4>4. /\ Cardinality(Booked(Home[p], c)' \ Excluded(p))
                  <= Cardinality(Covering(Home[p], c) \ Excluded(p))
            /\ Cardinality(Booked(Home[p], c)' \ Excluded(p)) \in Nat
            /\ Cardinality(Covering(Home[p], c) \ Excluded(p)) \in Nat
        BY <4>2, <4>3, FS_Subset, FS_CardinalityType
      <4>5. Cap[c[1]] \in Nat
        BY <1>2, CalendarAssumption DEF Cell
      <4> QED
        BY <4>1, <4>4, <4>5
    <3>2. want'[p] = a
      BY <1>1
    <3> QED
      BY <3>1, <3>2 DEF Room, Excluded
  <2> QED
    BY <2>1, <2>2 DEF RoomKept
<1>9. ClearKept'
  BY <1>3, <1>7 DEF IInv, ClearKept, Clear, BlockCells, Deciding, Owns
<1>10. NoOverbooking'
  BY <1>7 DEF IInv, NoOverbooking, Booked
<1>11. OpenKept'
  <2>1. FreeOfBlocks(Home[p], a)
    BY <1>2 DEF Fits
  <2> QED
    BY <1>1, <1>3, <2>1
    DEF IInv, OpenKept, OpenTo, Held, FreeOfBlocks, BlockCells, Deciding, Owns
<1>12. NoBookingInBlock'
  BY <1>3 DEF IInv, NoBookingInBlock, Live, BlockCells
<1> QED
  BY <1>4, <1>5, <1>6, <1>8, <1>9, <1>10, <1>11, <1>12 DEF IInv

\* The check of a block keeps the invariant.
LEMMA BlockOpened ==
    ASSUME BookingsInTime, IInv, TypeOK', NEW k \in Block, OpenBlock(k)
    PROVE  IInv'
<1> TypeOK
  BY DEF IInv
<1> USE ProcFields, Processes
<1>1. /\ UNCHANGED <<book, hold, conf, late, blocked, lapsed, keys, want>>
      /\ pc[k] = "locked" /\ pc' = [pc EXCEPT ![k] = "open"]
      /\ left' = [left EXCEPT ![k] = Window[k]]
      /\ lock' = Extended(k)
  BY DEF OpenBlock, Goto, bookVars, Asserted
<1>2. KeysCover'
  BY <1>1 DEF IInv, KeysCover, Deciding, KeysOf, BlockKeys
<1>3. Deadline'
  <2>1. /\ pc'[k] = "open" /\ left'[k] = Window[k] /\ Window[k] \in Nat
        /\ \A q \in Proc \ {k} : pc'[q] = pc[q] /\ left'[q] = left[q]
    BY <1>1, TimeAssumption
  <2>2. left'[k] <= Window[k]
    BY <2>1
  <2> QED
    BY <1>1, <2>1, <2>2, ExtendedDeadline DEF IInv
<1>4. Fresh'
  BY <1>1 DEF IInv, Fresh
<1>5. \A B, c : Booked(B, c)' = Booked(B, c)
  BY <1>1 DEF Booked, Covering, Live
<1>6. ASSUME NEW q \in Locker, q # k, Deciding(q)', Owns(q, keys[q])'
      PROVE  Deciding(q) /\ Owns(q, keys[q]) /\ want'[q] = want[q]
  BY <1>1, <1>6 DEF Deciding, Owns, Extended
<1>7. RoomKept'
  <2>1. SUFFICES ASSUME NEW q \in Alloc, Deciding(q)', Owns(q, keys[q])'
                 PROVE  Room(q)'
    BY DEF RoomKept
  <2>2. Room(q) /\ want'[q] = want[q]
    BY <1>6, <2>1 DEF IInv, RoomKept
  <2> QED
    BY <1>5, <2>2 DEF Room, Excluded
<1>8. ClearKept'
  <2>1. SUFFICES ASSUME NEW j \in Block, Deciding(j)', Owns(j, keys[j])'
                 PROVE  Clear(j)'
    BY DEF ClearKept
  <2>2. CASE j = k
    <3>1. InTheWay(k) = {}
      BY DEF OpenBlock
    <3>2. Clear(k)
      BY <3>1 DEF InTheWay, Clear, Booked, Covering
    <3> QED
      BY <1>5, <2>2, <3>2 DEF Clear, BlockCells
  <2>3. CASE j # k
    <3>1. Clear(j)
      BY <1>6, <2>1, <2>3 DEF IInv, ClearKept
    <3> QED
      BY <1>5, <3>1 DEF Clear, BlockCells
  <2> QED
    BY <2>2, <2>3
<1>9. NoOverbooking'
  BY <1>5 DEF IInv, NoOverbooking, Booked
<1>10. OpenKept'
  BY <1>1, <1>6 DEF IInv, OpenKept, OpenTo, Held, BlockCells
<1>11. NoBookingInBlock'
  BY <1>1 DEF IInv, NoBookingInBlock, Live, BlockCells
<1> QED
  BY <1>2, <1>3, <1>4, <1>7, <1>8, <1>9, <1>10, <1>11 DEF IInv

\* The commit of a block keeps the invariant.
LEMMA BlockCommitted ==
    ASSUME IInv, TypeOK', NEW k \in Block, CommitBlock(k)
    PROVE  IInv'
<1> TypeOK
  BY DEF IInv
<1> USE ProcFields, Processes
<1>1. /\ UNCHANGED <<book, hold, conf, late, keys, want, left, lock>>
      /\ pc[k] = "sealed" /\ left[k] > 0 /\ pc' = [pc EXCEPT ![k] = "closing"]
      /\ blocked' = blocked \cup {k}
      /\ lapsed' = IF Owns(k, keys[k]) THEN lapsed ELSE lapsed \cup {k}
  BY DEF CommitBlock, Goto, bookVars, redisVars
<1>2. KeysCover'
  BY <1>1 DEF IInv, KeysCover, Deciding, KeysOf, BlockKeys
<1>3. Deadline'
  BY <1>1 DEF IInv, Deadline
<1>4. Fresh'
  BY <1>1 DEF IInv, Fresh
<1>5. \A B, c : Booked(B, c)' = Booked(B, c)
  BY <1>1 DEF Booked, Covering, Live
<1>6. Deciding(k) /\ keys[k] = BlockKeys(k)
  BY <1>1 DEF IInv, Deciding, KeysCover
<1>13. \A j \in Held' : j \in Held \/ (j = k /\ Owns(k, keys[k]))
  BY <1>1 DEF Held
<1>7. ASSUME NEW q \in Locker, Deciding(q)', Owns(q, keys[q])'
      PROVE  Deciding(q) /\ Owns(q, keys[q]) /\ want'[q] = want[q]
  BY <1>1, <1>7 DEF Deciding, Owns
<1>8. RoomKept'
  BY <1>5, <1>7 DEF IInv, RoomKept, Room, Excluded
<1>9. ClearKept'
  BY <1>5, <1>7 DEF IInv, ClearKept, Clear, BlockCells
<1>10. NoOverbooking'
  BY <1>5 DEF IInv, NoOverbooking, Booked
<1>11. OpenKept'
  <2>1. SUFFICES ASSUME NEW q \in Alloc, Deciding(q)', Owns(q, keys[q])'
                 PROVE  OpenTo(q)'
    BY DEF OpenKept
  <2>2. /\ Deciding(q) /\ Owns(q, keys[q]) /\ want'[q] = want[q]
        /\ OpenTo(q)
    BY <1>7, <2>1 DEF IInv, OpenKept
  <2>3. ASSUME Owns(k, keys[k]), Home[q] \in Scope[k],
               NEW c \in want[q], c \in BlockCells(k)
        PROVE  FALSE
    <3>1. <<Home[q], Day[c[2]]>> \in keys[q]
      BY <2>2, <2>3 DEF IInv, KeysCover, KeysOf
    <3>2. <<Home[q], Day[c[2]]>> \in keys[k]
      BY <1>6, <2>3 DEF BlockKeys, BlockCells
    <3>3. q # k
      OBVIOUS
    <3> QED
      BY <2>2, <2>3, <3>1, <3>2, <3>3 DEF Owns
  <2> QED
    BY <1>13, <2>2, <2>3 DEF OpenTo, BlockCells
<1>12. NoBookingInBlock'
  <2>1. \A j \in Held' : Clear(j)
    BY <1>6, <1>13, BlockClear DEF IInv, ClearKept
  <2>2. \A j \in Held' : Clear(j)'
    BY <1>5, <2>1 DEF Clear, BlockCells
  <2> QED
    BY <2>2, BlockClearNext
<1> QED
  BY <1>2, <1>3, <1>4, <1>8, <1>9, <1>10, <1>11, <1>12 DEF IInv

\* The commit of a creation or of a move keeps the invariant.
LEMMA BookingCommitted ==
    ASSUME BookingsInTime, IInv, TypeOK', NEW p \in Alloc,
           (p \in Create /\ CommitCreate(p)) \/ (p \in Move /\ CommitMove(p))
    PROVE  IInv'
<1> TypeOK
  BY DEF IInv
<1> USE ProcFields, Processes
<1>1. /\ UNCHANGED <<keys, want, left, lock, blocked, lapsed, conf>>
      /\ pc[p] = "sealed" /\ left[p] > 0 /\ pc' = [pc EXCEPT ![p] = "closing"]
  BY DEF CommitCreate, CommitMove, Goto, redisVars
<1>2. KeysCover'
  BY <1>1 DEF IInv, KeysCover, Deciding, KeysOf, BlockKeys
<1>3. Deadline'
  BY <1>1 DEF IInv, Deadline
<1>4. StillDeciding
  BY <1>1 DEF StillDeciding, Deciding, Owns
<1>5. CASE p \in Create /\ CommitCreate(p)
  <2>1. Fresh'
    <3>1. NewBooking(p).ver = book[p].ver + 1
      BY DEF NewBooking
    <3> QED
      BY <1>1, <1>5, <3>1, FreshWritten DEF CommitCreate, IInv
  <2>2. /\ \A b \in Create \ {p} : book'[b] = book[b] /\ hold'[b] = hold[b]
        /\ book'[p].cells = want[p] /\ late' = late
    BY <1>5 DEF CommitCreate, NewBooking, TypeOK
  <2>3. Excluded(p) = {}
    BY <1>5 DEF Excluded
  <2>4. ASSUME NEW B \in Branch, NEW c \in Cell
        PROVE  /\ Booked(B, c)' \subseteq Booked(B, c) \cup {p}
               /\ p \in Booked(B, c)' => B = Home[p] /\ c \in want[p]
    BY <2>2 DEF Booked, Covering, Live
  <2>5. /\ RoomKept' /\ ClearKept' /\ NoOverbooking'
        /\ OpenKept' /\ NoBookingInBlock'
    BY <1>1, <1>4, <1>5, <2>3, <2>4, AllocCommit DEF Held
  <2> QED
    BY <1>2, <1>3, <2>1, <2>5 DEF IInv
<1>6. CASE p \in Move /\ CommitMove(p)
  <2> DEFINE b == Target[p]
  <2>0. b \in Create /\ Home[b] = Home[p]
    BY <1>6, RequestAssumption
  <2>1. Fresh'
    <3>1. MovedBooking(p).ver = book[b].ver + 1
      BY DEF MovedBooking
    <3> QED
      BY <1>1, <1>6, <2>0, <3>1, FreshWritten DEF CommitMove, IInv
  <2>2. /\ \A d \in Create \ {b} : book'[d] = book[d] /\ hold'[d] = hold[d]
        /\ book'[b].cells = want[p] /\ late' = late \ {b}
    BY <1>6, <2>0 DEF CommitMove, MovedBooking, TypeOK
  <2>3. Excluded(p) = {b}
    BY <1>6 DEF Excluded
  <2>4. ASSUME NEW B \in Branch, NEW c \in Cell
        PROVE  /\ Booked(B, c)' \subseteq Booked(B, c) \cup {b}
               /\ Booked(B, c)' \subseteq (Booked(B, c) \ {b}) \cup {b}
               /\ b \in Booked(B, c)' => B = Home[p] /\ c \in want[p]
    BY <2>0, <2>2 DEF Booked, Covering, Live
  <2>5. /\ RoomKept' /\ ClearKept' /\ NoOverbooking'
        /\ OpenKept' /\ NoBookingInBlock'
    BY <1>1, <1>4, <2>0, <2>3, <2>4, AllocCommit DEF Held
  <2> QED
    BY <1>2, <1>3, <2>1, <2>5 DEF IInv
<1> QED
  BY <1>5, <1>6

\* The invariant is inductive when bookings commit before their locks expire.
THEOREM IndStep == BookingsInTime /\ IInv /\ [Next]_vars => IInv'
<1> SUFFICES ASSUME BookingsInTime, IInv, [Next]_vars PROVE IInv'
  OBVIOUS
<1>1. TypeOK'
  BY TypeStep DEF IInv
<1>2. CASE LoudStep
  BY <1>1, <1>2, Rechecked, BlockOpened, BlockCommitted, BookingCommitted, Processes
  DEF LoudStep, Alloc
<1> QED
  BY <1>1, <1>2, QuietSteps

\* The invariant holds of the empty calendar.
THEOREM IndInit == Init => IInv
<1> SUFFICES ASSUME Init PROVE IInv
  OBVIOUS
<1>1. TypeOK
  BY InitType
<1>2. \A B, c : Booked(B, c) = {} /\ Covering(B, c) = {}
  BY DEF Init, Booked, Covering, Live
<1>3. NoOverbooking
  BY <1>2, FS_EmptySet, CalendarAssumption DEF NoOverbooking, Cell, Booked
<1>4. NoBookingInBlock
  BY DEF Init, NoBookingInBlock
<1>5. RoomKept /\ OpenKept /\ ClearKept /\ KeysCover /\ Deadline
  BY Processes DEF Init, RoomKept, OpenKept, ClearKept, KeysCover, Deadline, Deciding
<1>6. Fresh
  BY DEF Init, Fresh
<1> QED
  BY <1>1, <1>3, <1>4, <1>5, <1>6 DEF IInv

\* No overbooking, for every set of branches, resources, requests, options,
\* capacities and durations: if the locks of bookings outlive their
\* transactions, no employee or chair of a branch ever serves more bookings
\* than it has units, save for those confirmed after their hold ran out.
THEOREM NeverOverbooked == BookingsInTime => (Spec => []NoOverbooking)
<1> SUFFICES ASSUME BookingsInTime PROVE Spec => []NoOverbooking
  OBVIOUS
<1>1. IInv /\ [Next]_vars => IInv'
  BY IndStep
<1>2. IInv => NoOverbooking
  BY DEF IInv
<1> QED
  BY <1>1, <1>2, IndInit, PTL DEF Spec

\* However short the locks of blocks live and however long a block takes: no
\* live booking overlaps a block that still owned its locks when it was
\* committed, whichever of the two requests came first.
THEOREM BlocksRespected == BookingsInTime => (Spec => []NoBookingInBlock)
<1> SUFFICES ASSUME BookingsInTime PROVE Spec => []NoBookingInBlock
  OBVIOUS
<1>1. IInv /\ [Next]_vars => IInv'
  BY IndStep
<1>2. IInv => NoBookingInBlock
  BY DEF IInv
<1> QED
  BY <1>1, <1>2, IndInit, PTL DEF Spec

\* Whatever commits does so in time.
LEMMA CommitHasTime ==
    ASSUME TypeOK, [Next]_vars, NEW p \in Locker, Commits(p)
    PROVE  pc[p] = "sealed" /\ left[p] > 0
<1> USE ProcFields, Processes DEF Commits, Goto
<1>1. pc[p] = "sealed" /\ pc'[p] = "closing"
  OBVIOUS
<1>2. ASSUME NEW q \in Proc, ProcStep(q) \/ Renew(q) \/ Crash(q), q # p PROVE FALSE
  BY <1>1, <1>2
  DEF ProcStep, CreateStep, MoveStep, AllocStep, BlockStep, LockerStep, WriterStep,
      AnswerRepeated, PreflightCreate, OpenCreate, OpenDuplicate, CommitCreate,
      CommitDuplicate, PreflightMove, OpenMove, OpenMoveRefused, CommitMove, RetryMove,
      PreflightRefused, Recheck, RecheckRefused, StartBlock, OpenBlock,
      OpenBlockRefused, CommitBlock, TakeReadLease, ReadLeaseRefused, TakeLock,
      LockRefused, AllLocked, Seal, LostLock, TakeWriteLease, WriteLeaseRefused,
      StartWriting, SealConfig, WriterLost, CommitConfig, OutOfTime, Release, Renew, Crash
<1>3. CASE ProcStep(p) \/ Renew(p) \/ Crash(p)
  BY <1>1, <1>3
  DEF ProcStep, CreateStep, MoveStep, AllocStep, BlockStep, LockerStep, WriterStep,
      AnswerRepeated, PreflightCreate, OpenCreate, OpenDuplicate, CommitCreate,
      CommitDuplicate, PreflightMove, OpenMove, OpenMoveRefused, CommitMove, RetryMove,
      PreflightRefused, Recheck, RecheckRefused, StartBlock, OpenBlock,
      OpenBlockRefused, CommitBlock, TakeReadLease, ReadLeaseRefused, TakeLock,
      LockRefused, AllLocked, Seal, LostLock, OutOfTime, Release, Renew, Crash, bookVars
<1>4. ASSUME NEW b \in Create, BookingStep(b) PROVE FALSE
  BY <1>1, <1>4 DEF BookingStep, ConfirmRead, ConfirmWrite, ConfirmConflict,
      ExpireHold, CheckIn, Close, PurgeHold, procVars
<1>5. ~Tick
  BY <1>1 DEF Tick
<1>6. ~ UNCHANGED vars
  BY <1>1 DEF vars, procVars
<1> QED
  BY <1>1, <1>2, <1>3, <1>4, <1>5, <1>6 DEF Next

\* A creation or a move commits only while it owns every lock it decided to
\* take, although its last check may lie in the past.
THEOREM LocksHeldAtCommit == BookingsInTime => (Spec => LostLockNeverCommits)
<1> SUFFICES ASSUME BookingsInTime PROVE Spec => LostLockNeverCommits
  OBVIOUS
<1>1. IInv /\ [Next]_vars => IInv'
  BY IndStep
<1>2. IInv /\ [Next]_vars => \A p \in Alloc : Commits(p) => Owns(p, keys[p])
  <2> SUFFICES ASSUME IInv, [Next]_vars, NEW p \in Alloc, Commits(p)
               PROVE  Owns(p, keys[p])
    OBVIOUS
  <2>1. pc[p] = "sealed" /\ left[p] > 0
    BY CommitHasTime, Processes DEF IInv
  <2>2. InTime(p)
    BY DEF BookingsInTime
  <2> QED
    BY <2>1, <2>2, Processes DEF IInv, Deadline, Owns
<1> QED
  BY <1>1, <1>2, IndInit, PTL DEF Spec, LostLockNeverCommits
=============================================================================
