------------------------ MODULE SlotRequests_proofs ------------------------
(***************************************************************************)
(* What the requests of SlotBooking may rely on of one another, proved for *)
(* every value of the constants: copies of a request get one answer        *)
(* (Answers), two requests never turn each other away (Refusals), and no   *)
(* configuration change made under a lease comes between the check and the *)
(* commit of a booking (Leases).                                           *)
(***************************************************************************)
EXTENDS SlotBooking_proofs

-----------------------------------------------------------------------------
(* One booking for one request.                                            *)

\* Two requests that carry one key and one payload.
Copies(c, d) == IdemKey[c] = IdemKey[d] /\ SamePayload(c, d)

\* A booking that is not stored yet has no confirmation under way.
Unread == \A b \in Create \ Bookings : conf[b] = -1

\* An answer is a stored booking of the same request, and there is one.
Answers ==
    /\ TypeOK
    /\ Unread
    /\ \A c \in Create : reply[c] # NoBooking => reply[c] \in Bookings /\ Copies(reply[c], c)
    /\ \A b, d \in Bookings : Copies(b, d) => b = d

-----------------------------------------------------------------------------
(* The order of the locks.                                                 *)

Above(p, k) == \A j \in got[p] : KeyRank[j] < KeyRank[k]

\* Who was refused a lock has none at or above it, and its owner got it in
\* its turn.
Refusals ==
    /\ TypeOK
    /\ \A p \in Locker : pc[p] \in {"idle", "keyed"} => got[p] = {}
    /\ \A k \in Key : lock[k].owner # NoProc => k \in got[lock[k].owner]
    /\ \A p \in Locker : pc[p] = "locking" => \A k \in keys[p] \ got[p] : Above(p, k)
    /\ \A p \in Locker : refusedBy[p] # NoProc =>
          /\ pc[p] \in {"closing", "done", "crashed"}
          /\ \E k \in got[refusedBy[p]] : Above(p, k)

-----------------------------------------------------------------------------
(* The configuration of a branch.                                          *)

\* The transactions of bookings are shorter than a lease (60 s and 90 s).
BookingsInLease == \A p \in Alloc : Window[p] <= LeaseTtl

\* Since p checked the configuration, it was only changed by writers whose
\* own leases had run out.
OverdueSince(p) ==
    \A v \in (cfgSeen[p] + 1) .. config[Home[p]] : <<Home[p], v>> \in overdue

Leases ==
    /\ TypeOK
    /\ \A p \in Locker, w \in Writer :
          Branches(p) \cap Scope[w] # {} => lease[p] = 0 \/ lease[w] = 0
    /\ \A p \in Alloc :
          /\ pc[p] \in {"checked", "open", "sealed"} /\ lease[p] > 0 => OverdueSince(p)
          /\ pc[p] \in {"open", "sealed"} => left[p] <= Window[p]
          /\ pc[p] = "sealed" => left[p] <= lease[p]

-----------------------------------------------------------------------------
(* Answers.                                                                *)

\* A step that stores no booking: an answer, if it gives one, is a stored
\* booking of the same request.
Answered ==
    /\ Bookings' = Bookings
    /\ \A b \in Create \ Bookings : conf'[b] = conf[b]
    /\ \A c \in Create :
          \/ reply'[c] = reply[c]
          \/ reply'[c] \in Duplicates(c) /\ SamePayload(reply'[c], c)

\* A booking that keeps its status, or is stored and stays so.
LEMMA StaysStored ==
    ASSUME TypeOK, NEW b \in Create, NEW r, book' = [book EXCEPT ![b] = r],
           r.status = "none" <=> book[b].status = "none"
    PROVE  Bookings' = Bookings
BY DEF TypeOK, Bookings

\* A step of a request other than the commit of a creation.
LEMMA RequestAnswered ==
    ASSUME TypeOK, NEW p \in Proc, ProcStep(p) \/ Renew(p) \/ Crash(p),
           ~(p \in Create /\ CommitCreate(p))
    PROVE  Answered
<1>1. ASSUME p \in Create, AnswerRepeated(p) PROVE Answered
  BY <1>1 DEF Answered, AnswerRepeated, TypeOK, bookVars, Bookings
<1>2. ASSUME p \in Create, OpenDuplicate(p) PROVE Answered
  BY <1>2 DEF Answered, OpenDuplicate, TypeOK, bookVars, Bookings
<1>3. ASSUME p \in Create, CommitDuplicate(p) PROVE Answered
  BY <1>3 DEF Answered, CommitDuplicate, TypeOK, bookVars, Bookings
<1>4. ASSUME p \in Move, CommitMove(p) PROVE Answered
  <2>1. Target[p] \in Create /\ MovedBooking(p).status = book[Target[p]].status
    BY <1>4, RequestAssumption DEF MovedBooking
  <2>2. Bookings' = Bookings
    BY <1>4, <2>1, StaysStored DEF CommitMove
  <2> QED
    BY <1>4, <2>2 DEF CommitMove, Answered
<1>5. ASSUME UNCHANGED <<reply, bookVars>> PROVE Answered
  BY <1>5 DEF Answered, bookVars, Bookings
<1> QED
  BY <1>1, <1>2, <1>3, <1>4, <1>5
  DEF ProcStep, CreateStep, MoveStep, AllocStep, BlockStep, LockerStep, WriterStep,
      PreflightCreate, OpenCreate, PreflightMove, OpenMove, OpenMoveRefused, RetryMove,
      PreflightRefused, Recheck, RecheckRefused, StartBlock, OpenBlock,
      OpenBlockRefused, CommitBlock, TakeReadLease, ReadLeaseRefused, TakeLock,
      LockRefused, AllLocked, Seal, LostLock, TakeWriteLease, WriteLeaseRefused,
      StartWriting, SealConfig, WriterLost, CommitConfig, OutOfTime, Release, Renew, Crash

\* A step that goes on with a booking no request is part of.
LEMMA BookingAnswered ==
    ASSUME TypeOK, Unread, NEW b \in Create, BookingStep(b)
    PROVE  Answered
<1>1. \A c \in Create : book[c].ver \in Nat
  BY DEF TypeOK, BookingRecord
<1>2. ASSUME NEW r, book' = [book EXCEPT ![b] = r], reply' = reply,
             \A c \in Create \ Bookings : conf'[c] = conf[c],
             r.status = "none" <=> book[b].status = "none"
      PROVE  Answered
  BY <1>2, StaysStored DEF Answered
<1>3. ASSUME ConfirmRead(b) \/ ConfirmConflict(b) PROVE Answered
  BY <1>3 DEF ConfirmRead, ConfirmConflict, Answered, procVars, Bookings, TypeOK, Unread
<1>4. ASSUME ConfirmWrite(b) PROVE Answered
  <2>1. book[b].status # "none"
    BY <1>1, <1>4 DEF ConfirmWrite, Unread, Bookings
  <2>2. Written(b, "confirmed", "confirmed").status # "none"
    BY DEF Written
  <2>3. \A c \in Create \ Bookings : conf'[c] = conf[c]
    BY <1>4, <2>1 DEF ConfirmWrite, TypeOK, Bookings
  <2> QED
    BY <1>2, <1>4, <2>1, <2>2, <2>3 DEF ConfirmWrite, procVars
<1>5. ASSUME ExpireHold(b) PROVE Answered
  <2>1. Released(b, "cancelled").status # "none"
    BY DEF Released, Written
  <2> QED
    BY <1>2, <1>5, <2>1 DEF ExpireHold, procVars
<1>6. ASSUME CheckIn(b) PROVE Answered
  <2>1. Written(b, "checked_in", book[b].resv).status # "none"
    BY DEF Written
  <2> QED
    BY <1>2, <1>6, <2>1 DEF CheckIn, procVars
<1>7. ASSUME Close(b) PROVE Answered
  <2>1. PICK s \in {"cancelled", "closed"} : book' = [book EXCEPT ![b] = Released(b, s)]
    BY <1>7 DEF Close
  <2>2. Released(b, s).status # "none" /\ book[b].status # "none"
    BY <1>7, <2>1 DEF Released, Written, Close
  <2> QED
    BY <1>2, <1>7, <2>1, <2>2 DEF Close, procVars
<1>8. ASSUME PurgeHold(b) PROVE Answered
  <2>1. Written(b, book[b].status, "none").status = book[b].status
    BY DEF Written
  <2> QED
    BY <1>2, <1>8, <2>1 DEF PurgeHold, procVars
<1> QED
  BY <1>3, <1>4, <1>5, <1>6, <1>7, <1>8 DEF BookingStep

\* Such a step keeps the invariant: an answer stays the booking it was, and
\* a new one is stored already.
LEMMA AnsweredStep ==
    ASSUME Answers, TypeOK', Answered
    PROVE  Answers'
<1>1. Unread'
  BY DEF Answers, Answered, Unread
<1>2. ASSUME NEW c \in Create, reply'[c] # NoBooking
      PROVE  reply'[c] \in Bookings /\ Copies(reply'[c], c)
  BY <1>2 DEF Answers, Answered, Duplicates, Copies
<1> QED
  BY <1>1, <1>2 DEF Answers, Answered, Copies, SamePayload

\* The unique index: a creation stores its booking only while none of the
\* same request is there.
LEMMA StoredStep ==
    ASSUME Answers, TypeOK', NEW c \in Create, CommitCreate(c)
    PROVE  Answers'
<1> USE DEF TypeOK
<1>1. Bookings' = Bookings \cup {c}
  BY DEF Answers, CommitCreate, NewBooking, Bookings
<1>2. Unread'
  BY <1>1 DEF Answers, CommitCreate, Unread
<1>3. ASSUME NEW b \in Bookings, Copies(b, c) \/ Copies(c, b) PROVE FALSE
  BY <1>3 DEF CommitCreate, StoredKeyTaken, Duplicates, Copies, SamePayload
<1>4. \A b, d \in Bookings' : Copies(b, d) => b = d
  BY <1>1, <1>3 DEF Answers
<1>5. ASSUME NEW d \in Create, reply'[d] # NoBooking
      PROVE  reply'[d] \in Bookings' /\ Copies(reply'[d], d)
  BY <1>1, <1>5 DEF Answers, CommitCreate, Copies, SamePayload
<1> QED
  BY <1>2, <1>4, <1>5 DEF Answers, Copies, SamePayload

LEMMA AnswersStep == Answers /\ [Next]_vars => Answers'
<1> SUFFICES ASSUME Answers, [Next]_vars PROVE Answers'
  OBVIOUS
<1>1. TypeOK'
  BY TypeStep DEF Answers
<1>2. ASSUME NEW p \in Proc, ProcStep(p) \/ Renew(p) \/ Crash(p) PROVE Answers'
  BY <1>1, <1>2, RequestAnswered, AnsweredStep, StoredStep DEF Answers
<1>3. ASSUME NEW b \in Create, BookingStep(b) PROVE Answers'
  BY <1>1, <1>3, BookingAnswered, AnsweredStep DEF Answers
<1>4. ASSUME Tick \/ UNCHANGED vars PROVE Answered
  BY <1>4 DEF Tick, vars, procVars, bookVars, Answered, Bookings
<1> QED
  BY <1>1, <1>2, <1>3, <1>4, AnsweredStep DEF Next

\* However copies of a request race, retry and crash, at most one booking is
\* made for all of them, and every copy that is answered is answered with it.
THEOREM OneAnswer == Spec => []SameRequestSameBooking
<1>1. Init => Answers
  BY InitType DEF Init, Answers, Unread, Bookings
<1>2. Answers => SameRequestSameBooking
  BY DEF Answers, SameRequestSameBooking, Copies, SamePayload, TypeOK
<1> QED
  BY <1>1, <1>2, AnswersStep, PTL DEF Spec

-----------------------------------------------------------------------------
(* Refusals.                                                               *)

\* A step after which nobody has begun to take locks, got one or was
\* refused one.
Unhurried ==
    /\ got' = got /\ refusedBy' = refusedBy
    /\ \A k \in Key : lock'[k].owner \in {lock[k].owner, NoProc}
    /\ \A p \in Locker :
          /\ pc'[p] \in {"idle", "keyed"} => pc[p] \in {"idle", "keyed"}
          /\ pc'[p] = "locking" =>
                \/ pc[p] = "locking" /\ keys'[p] = keys[p]
                \/ pc[p] = "keyed"
          /\ pc[p] \in {"closing", "done", "crashed"} =>
                pc'[p] \in {"closing", "done", "crashed"}

LEMMA UnhurriedStep ==
    ASSUME Refusals, TypeOK', Unhurried
    PROVE  Refusals'
<1>1. \A p, k : Above(p, k)' = Above(p, k)
  BY DEF Above, Unhurried
<1>2. \A k \in Key : lock'[k].owner # NoProc => k \in got'[lock'[k].owner]
  BY DEF Refusals, Unhurried
<1>3. \A p \in Locker : pc'[p] \in {"idle", "keyed"} => got'[p] = {}
  BY DEF Refusals, Unhurried
<1>4. ASSUME NEW p \in Locker, pc'[p] = "locking", NEW k \in keys'[p] \ got'[p]
      PROVE  Above(p, k)
  BY <1>4 DEF Refusals, Unhurried, Above
<1>5. ASSUME NEW p \in Locker, refusedBy'[p] # NoProc
      PROVE  /\ pc'[p] \in {"closing", "done", "crashed"}
             /\ \E k \in got'[refusedBy'[p]] : Above(p, k)
  BY <1>5 DEF Refusals, Unhurried
<1> QED
  BY <1>1, <1>2, <1>3, <1>4, <1>5 DEF Refusals

\* A request steps without a lock being granted or refused.
LEMMA RequestUnhurried ==
    ASSUME TypeOK, NEW p \in Proc, ProcStep(p) \/ Renew(p) \/ Crash(p),
           ~(p \in Locker /\ (TakeLock(p) \/ LockRefused(p)))
    PROVE  Unhurried
<1> USE ProcFields, Processes DEF Unhurried
<1>1. ASSUME lock' \in {lock, Extended(p), Dropped(p)}
      PROVE  \A k \in Key : lock'[k].owner \in {lock[k].owner, NoProc}
  BY <1>1 DEF Extended, Dropped, Unlocked
<1>2. lock' \in {lock, Extended(p), Dropped(p)} /\ got' = got /\ refusedBy' = refusedBy
  BY DEF redisVars, Asserted,
      ProcStep, CreateStep, MoveStep, AllocStep, BlockStep, LockerStep, WriterStep,
      AnswerRepeated, PreflightCreate, OpenCreate, OpenDuplicate, CommitCreate,
      CommitDuplicate, PreflightMove, OpenMove, OpenMoveRefused, CommitMove, RetryMove,
      PreflightRefused, Recheck, RecheckRefused, StartBlock, OpenBlock,
      OpenBlockRefused, CommitBlock, TakeReadLease, ReadLeaseRefused, TakeLock,
      LockRefused, AllLocked, Seal, LostLock, TakeWriteLease, WriteLeaseRefused,
      StartWriting, SealConfig, WriterLost, CommitConfig, OutOfTime, Release, Renew, Crash
<1>3. ASSUME NEW q \in Locker
      PROVE  /\ pc'[q] \in {"idle", "keyed"} => pc[q] \in {"idle", "keyed"}
             /\ pc'[q] = "locking" =>
                   \/ pc[q] = "locking" /\ keys'[q] = keys[q]
                   \/ pc[q] = "keyed"
             /\ pc[q] \in {"closing", "done", "crashed"} =>
                   pc'[q] \in {"closing", "done", "crashed"}
  BY <1>3 DEF Goto,
      ProcStep, CreateStep, MoveStep, AllocStep, BlockStep, LockerStep, WriterStep,
      AnswerRepeated, PreflightCreate, OpenCreate, OpenDuplicate, CommitCreate,
      CommitDuplicate, PreflightMove, OpenMove, OpenMoveRefused, CommitMove, RetryMove,
      PreflightRefused, Recheck, RecheckRefused, StartBlock, OpenBlock,
      OpenBlockRefused, CommitBlock, TakeReadLease, ReadLeaseRefused, TakeLock,
      LockRefused, AllLocked, Seal, LostLock, TakeWriteLease, WriteLeaseRefused,
      StartWriting, SealConfig, WriterLost, CommitConfig, OutOfTime, Release, Renew, Crash
<1> QED
  BY <1>1, <1>2, <1>3

\* The next key of the sorted list: all the others come after it.
LEMMA LockTaken ==
    ASSUME Refusals, TypeOK', NEW p \in Locker, TakeLock(p)
    PROVE  Refusals'
<1> USE ProcFields, Processes, CalendarAssumption DEF Refusals
<1>1. PICK k \in Key :
           /\ NextKey(p, k)
           /\ lock' = [lock EXCEPT ![k] = [owner |-> p, left |-> Ttl[p]]]
           /\ got' = [got EXCEPT ![p] = @ \cup {k}]
  BY DEF TakeLock
<1>2. /\ pc[p] = "locking" /\ pc' = pc /\ keys' = keys /\ refusedBy' = refusedBy
      /\ got \in [Locker -> SUBSET Key]
  BY DEF TakeLock, TypeOK
<1>3. got'[p] = got[p] \cup {k} /\ \A q \in Locker \ {p} : got'[q] = got[q]
  BY <1>1, <1>2
<1>4. \A q \in Locker \ {p} : \A j : Above(q, j)' = Above(q, j)
  BY <1>3 DEF Above
<1>5. \A j \in Key : lock'[j].owner # NoProc => j \in got'[lock'[j].owner]
  <2> SUFFICES ASSUME NEW j \in Key, lock'[j].owner # NoProc
               PROVE  j \in got'[lock'[j].owner]
    OBVIOUS
  <2>1. CASE j = k
    BY <1>1, <1>3, <2>1
  <2>2. CASE j # k
    <3>1. lock'[j] = lock[j] /\ lock[j].owner \in Locker /\ j \in got[lock[j].owner]
      BY <1>1, <2>2
    <3> QED
      BY <1>3, <3>1
  <2> QED
    BY <2>1, <2>2
<1>6. ASSUME NEW j \in keys[p] \ got'[p] PROVE Above(p, j)'
  <2>1. Above(p, j) /\ j \in keys[p] \ got[p] /\ j # k /\ j \in Key
    BY <1>2, <1>3, <1>6
  <2>2. KeyRank[k] <= KeyRank[j] /\ KeyRank[k] # KeyRank[j]
    BY <1>1, <2>1 DEF NextKey
  <2>3. KeyRank[k] \in Nat /\ KeyRank[j] \in Nat
    BY <1>1, <2>1
  <2>4. KeyRank[k] < KeyRank[j]
    BY SMTT(30), <2>2, <2>3
  <2>5. \A i \in got[p] : KeyRank[i] < KeyRank[j]
    BY <2>1 DEF Above
  <2>6. \A i \in got'[p] : KeyRank[i] < KeyRank[j]
    BY <1>3, <2>4, <2>5
  <2> QED
    BY <2>6 DEF Above
<1>7. ASSUME NEW q \in Locker, refusedBy[q] # NoProc
      PROVE  q # p /\ \E j \in got'[refusedBy[q]] : Above(q, j)'
  <2>1. refusedBy[q] \in Locker
    BY <1>7 DEF TypeOK
  <2>2. q # p
    BY <1>2, <1>7
  <2>3. PICK j \in got[refusedBy[q]] : Above(q, j)
    BY <1>7
  <2>4. j \in got'[refusedBy[q]] /\ Above(q, j)'
    BY <1>3, <1>4, <2>1, <2>2, <2>3
  <2> QED
    BY <2>2, <2>4
<1> QED
  BY <1>2, <1>3, <1>4, <1>5, <1>6, <1>7

\* The refusal is noted: the owner has a lock above all that p has.
LEMMA RefusalNoted ==
    ASSUME Refusals, TypeOK', NEW p \in Locker, LockRefused(p)
    PROVE  Refusals'
<1> USE ProcFields, Processes DEF Refusals
<1>1. PICK k \in Key :
           /\ NextKey(p, k)
           /\ lock[k].owner # NoProc
           /\ refusedBy' = [refusedBy EXCEPT ![p] = lock[k].owner]
  BY DEF LockRefused
<1>2. /\ pc[p] = "locking" /\ pc' = [pc EXCEPT ![p] = "closing"]
      /\ UNCHANGED <<got, keys, lock>> /\ refusedBy \in [Locker -> Locker \cup {NoProc}]
  BY DEF LockRefused, Goto, redisVars, TypeOK
<1>3. \A q, j : Above(q, j)' = Above(q, j)
  BY <1>2 DEF Above
<1>4. k \in got[lock[k].owner] /\ Above(p, k)
  BY <1>1, <1>2 DEF NextKey
<1>5. ASSUME NEW q \in Locker, refusedBy'[q] # NoProc
      PROVE  /\ pc'[q] \in {"closing", "done", "crashed"}
             /\ \E j \in got[refusedBy'[q]] : Above(q, j)
  BY <1>1, <1>2, <1>4, <1>5
<1> QED
  BY <1>2, <1>3, <1>5

LEMMA RefusalsStep == Refusals /\ [Next]_vars => Refusals'
<1> SUFFICES ASSUME Refusals, [Next]_vars PROVE Refusals'
  OBVIOUS
<1>1. TypeOK'
  BY TypeStep DEF Refusals
<1>2. ASSUME NEW p \in Proc, ProcStep(p) \/ Renew(p) \/ Crash(p) PROVE Refusals'
  BY <1>1, <1>2, RequestUnhurried, UnhurriedStep, LockTaken, RefusalNoted DEF Refusals
<1>3. ASSUME NEW b \in Create, BookingStep(b) PROVE Unhurried
  BY <1>3 DEF BookingStep, ConfirmRead, ConfirmWrite, ConfirmConflict, ExpireHold,
      CheckIn, Close, PurgeHold, procVars, redisVars, Unhurried
<1>4. ASSUME Tick PROVE Unhurried
  BY <1>4 DEF Tick, Aged, Unlocked, Unhurried
<1>5. ASSUME UNCHANGED vars PROVE Unhurried
  BY <1>5 DEF vars, procVars, redisVars, Unhurried
<1> QED
  BY <1>1, <1>2, <1>3, <1>4, <1>5, UnhurriedStep DEF Next

\* The sorted order of the locks, for any number of requests and keys and
\* however locks expire under a request: of two requests that want each
\* other's locks at most one is turned away by the other.
THEOREM OneGetsThrough == Spec => []NoMutualRefusal
<1>1. Init => Refusals
  BY InitType DEF Init, Refusals, Unlocked
<1>2. ASSUME Refusals PROVE NoMutualRefusal
  <2> SUFFICES ASSUME NEW p \in Locker, NEW q \in Locker,
                      refusedBy[p] = q, refusedBy[q] = p
               PROVE  FALSE
    BY DEF NoMutualRefusal
  <2>1. PICK k \in got[q] : Above(p, k)
    BY <1>2, Processes DEF Refusals
  <2>2. PICK j \in got[p] : Above(q, j)
    BY <1>2, Processes DEF Refusals
  <2>3. KeyRank[j] < KeyRank[k] /\ KeyRank[k] < KeyRank[j]
    BY <2>1, <2>2 DEF Above
  <2>4. KeyRank[j] \in Nat /\ KeyRank[k] \in Nat
    BY <1>2, CalendarAssumption DEF Refusals, TypeOK
  <2> QED
    BY <2>3, <2>4
<1> QED
  BY <1>1, <1>2, RefusalsStep, PTL DEF Spec

-----------------------------------------------------------------------------
(* Leases.                                                                 *)

\* What the invariant says of one booking request.
Checked(p) ==
    /\ pc[p] \in {"checked", "open", "sealed"} /\ lease[p] > 0 => OverdueSince(p)
    /\ pc[p] \in {"open", "sealed"} => left[p] <= Window[p]
    /\ pc[p] = "sealed" => left[p] <= lease[p]

\* ... and of the leases.
Exclusive ==
    \A p \in Locker, w \in Writer :
        Branches(p) \cap Scope[w] # {} => lease[p] = 0 \/ lease[w] = 0

LEMMA LeasesParts == Leases <=> TypeOK /\ Exclusive /\ \A p \in Alloc : Checked(p)
BY DEF Leases, Exclusive, Checked

LEMMA LeasesPartsNext == Leases' <=> TypeOK' /\ Exclusive' /\ \A p \in Alloc : Checked(p)'
BY DEF Leases, Exclusive, Checked, Branches, OverdueSince

LEMMA LeaseFields ==
    ASSUME TypeOK
    PROVE  /\ pc \in [Proc -> Phase] /\ left \in [Proc -> Nat] /\ lease \in [Proc -> Nat]
           /\ cfgSeen \in [Alloc -> Nat] /\ config \in [Branch -> Nat]
BY DEF TypeOK

\* A request changes nothing of another.
LEMMA OthersUntouched ==
    ASSUME TypeOK, NEW p \in Proc, ProcStep(p) \/ Renew(p) \/ Crash(p), NEW q \in Proc, q # p
    PROVE  /\ pc'[q] = pc[q] /\ left'[q] = left[q] /\ lease'[q] = lease[q]
           /\ q \in Alloc => cfgSeen'[q] = cfgSeen[q]
BY LeaseFields, Processes
DEF Goto, redisVars, Asserted, LeaseRenewed,
      ProcStep, CreateStep, MoveStep, AllocStep, BlockStep, LockerStep, WriterStep,
      AnswerRepeated, PreflightCreate, OpenCreate, OpenDuplicate, CommitCreate,
      CommitDuplicate, PreflightMove, OpenMove, OpenMoveRefused, CommitMove, RetryMove,
      PreflightRefused, Recheck, RecheckRefused, StartBlock, OpenBlock,
      OpenBlockRefused, CommitBlock, TakeReadLease, ReadLeaseRefused, TakeLock,
      LockRefused, AllLocked, Seal, LostLock, TakeWriteLease, WriteLeaseRefused,
      StartWriting, SealConfig, WriterLost, CommitConfig, OutOfTime, Release, Renew, Crash

\* A lease that is over begins again only by a request for it.
LEMMA NoLeaseRevives ==
    ASSUME TypeOK, NEW p \in Proc, ProcStep(p) \/ Renew(p) \/ Crash(p), lease[p] = 0,
           ~(p \in Locker /\ TakeReadLease(p)), ~(p \in Writer /\ TakeWriteLease(p))
    PROVE  lease'[p] = 0
BY LeaseFields, Processes
DEF redisVars, Asserted, LeaseRenewed,
      ProcStep, CreateStep, MoveStep, AllocStep, BlockStep, LockerStep, WriterStep,
      AnswerRepeated, PreflightCreate, OpenCreate, OpenDuplicate, CommitCreate,
      CommitDuplicate, PreflightMove, OpenMove, OpenMoveRefused, CommitMove, RetryMove,
      PreflightRefused, Recheck, RecheckRefused, StartBlock, OpenBlock,
      OpenBlockRefused, CommitBlock, TakeReadLease, ReadLeaseRefused, TakeLock,
      LockRefused, AllLocked, Seal, LostLock, TakeWriteLease, WriteLeaseRefused,
      StartWriting, SealConfig, WriterLost, CommitConfig, OutOfTime, Release, Renew, Crash

\* Only the commit of a change changes the configuration.
LEMMA ConfigKept ==
    ASSUME TypeOK, NEW p \in Proc, ProcStep(p) \/ Renew(p) \/ Crash(p),
           ~(p \in Writer /\ CommitConfig(p))
    PROVE  config' = config /\ overdue' = overdue
BY LeaseFields, Processes
DEF ProcStep, CreateStep, MoveStep, AllocStep, BlockStep, LockerStep, WriterStep,
      AnswerRepeated, PreflightCreate, OpenCreate, OpenDuplicate, CommitCreate,
      CommitDuplicate, PreflightMove, OpenMove, OpenMoveRefused, CommitMove, RetryMove,
      PreflightRefused, Recheck, RecheckRefused, StartBlock, OpenBlock,
      OpenBlockRefused, CommitBlock, TakeReadLease, ReadLeaseRefused, TakeLock,
      LockRefused, AllLocked, Seal, LostLock, TakeWriteLease, WriteLeaseRefused,
      StartWriting, SealConfig, WriterLost, OutOfTime, Release, Renew, Crash

\* The check of a booking request, and what it does after it.
LEMMA OwnChecked ==
    ASSUME BookingsInLease, TypeOK, TypeOK', NEW p \in Alloc, Checked(p),
           ProcStep(p) \/ Renew(p) \/ Crash(p)
    PROVE  Checked(p)'
<1> USE LeaseFields, Processes, TimeAssumption
<1>1. config' = config /\ overdue' = overdue
  BY ConfigKept
<1>2. /\ pc[p] \in Phase /\ left[p] \in Nat /\ lease[p] \in Nat
      /\ config[Home[p]] \in Nat
      /\ Window[p] \in Nat /\ LeaseTtl \in Nat /\ LeaseTtl > 0 /\ Window[p] <= LeaseTtl
  BY RequestAssumption DEF BookingsInLease
<1>3. pc'[p] \in {"checked", "open", "sealed"} =>
         \/ pc[p] \in {"checked", "open", "sealed"} /\ cfgSeen'[p] = cfgSeen[p]
         \/ cfgSeen'[p] = config[Home[p]]
  BY DEF Goto,
      ProcStep, CreateStep, MoveStep, AllocStep, BlockStep, LockerStep, WriterStep,
      AnswerRepeated, PreflightCreate, OpenCreate, OpenDuplicate, CommitCreate,
      CommitDuplicate, PreflightMove, OpenMove, OpenMoveRefused, CommitMove, RetryMove,
      PreflightRefused, Recheck, RecheckRefused, StartBlock, OpenBlock,
      OpenBlockRefused, CommitBlock, TakeReadLease, ReadLeaseRefused, TakeLock,
      LockRefused, AllLocked, Seal, LostLock, TakeWriteLease, WriteLeaseRefused,
      StartWriting, SealConfig, WriterLost, CommitConfig, OutOfTime, Release, Renew, Crash
<1>4. pc'[p] \in {"checked", "open", "sealed"} /\ lease'[p] > 0 => lease[p] > 0
  BY <1>2, NoLeaseRevives DEF TakeReadLease, Goto
<1>5. pc'[p] \in {"open", "sealed"} =>
         \/ pc[p] \in {"open", "sealed"} /\ left'[p] = left[p]
         \/ pc'[p] = "open" /\ left'[p] = Window[p]
  BY DEF Goto,
      ProcStep, CreateStep, MoveStep, AllocStep, BlockStep, LockerStep, WriterStep,
      AnswerRepeated, PreflightCreate, OpenCreate, OpenDuplicate, CommitCreate,
      CommitDuplicate, PreflightMove, OpenMove, OpenMoveRefused, CommitMove, RetryMove,
      PreflightRefused, Recheck, RecheckRefused, StartBlock, OpenBlock,
      OpenBlockRefused, CommitBlock, TakeReadLease, ReadLeaseRefused, TakeLock,
      LockRefused, AllLocked, Seal, LostLock, TakeWriteLease, WriteLeaseRefused,
      StartWriting, SealConfig, WriterLost, CommitConfig, OutOfTime, Release, Renew, Crash
<1>6. pc'[p] = "sealed" =>
         \/ pc[p] = "open" /\ left'[p] = left[p] /\ lease'[p] = LeaseTtl
         \/ /\ pc[p] = "sealed" /\ left'[p] = left[p]
            /\ lease'[p] = IF lease[p] > 0 THEN LeaseTtl ELSE 0
  BY <1>2 DEF Goto, redisVars, Asserted, Valid, LeaseRenewed,
      ProcStep, CreateStep, MoveStep, AllocStep, BlockStep, LockerStep, WriterStep,
      AnswerRepeated, PreflightCreate, OpenCreate, OpenDuplicate, CommitCreate,
      CommitDuplicate, PreflightMove, OpenMove, OpenMoveRefused, CommitMove, RetryMove,
      PreflightRefused, Recheck, RecheckRefused, StartBlock, OpenBlock,
      OpenBlockRefused, CommitBlock, TakeReadLease, ReadLeaseRefused, TakeLock,
      LockRefused, AllLocked, Seal, LostLock, TakeWriteLease, WriteLeaseRefused,
      StartWriting, SealConfig, WriterLost, CommitConfig, OutOfTime, Release, Renew, Crash
<1>7. pc'[p] \in {"checked", "open", "sealed"} /\ lease'[p] > 0 => OverdueSince(p)'
  <2> SUFFICES ASSUME pc'[p] \in {"checked", "open", "sealed"}, lease'[p] > 0
               PROVE  OverdueSince(p)'
    OBVIOUS
  <2>1. CASE pc[p] \in {"checked", "open", "sealed"} /\ cfgSeen'[p] = cfgSeen[p]
    BY <1>1, <1>4, <2>1 DEF Checked, OverdueSince
  <2>2. CASE cfgSeen'[p] = config[Home[p]]
    BY <1>1, <1>2, <2>2 DEF OverdueSince
  <2> QED
    BY <1>3, <2>1, <2>2
<1>8. pc'[p] \in {"open", "sealed"} => left'[p] <= Window[p]
  BY <1>2, <1>5 DEF Checked
<1>9. pc'[p] = "sealed" => left'[p] <= lease'[p]
  BY <1>2, <1>6 DEF Checked
<1> QED
  BY <1>7, <1>8, <1>9 DEF Checked

\* A lease is granted only among leases that go with it.
LEMMA ExclusiveStep ==
    ASSUME TypeOK, TypeOK', Exclusive, NEW p \in Proc, ProcStep(p) \/ Renew(p) \/ Crash(p)
    PROVE  Exclusive'
<1> USE LeaseFields, Processes
<1>1. SUFFICES ASSUME NEW q \in Locker, NEW w \in Writer, Branches(q) \cap Scope[w] # {}
               PROVE  lease'[q] = 0 \/ lease'[w] = 0
  BY DEF Exclusive, Branches
<1>2. lease[q] = 0 \/ lease[w] = 0
  BY <1>1 DEF Exclusive
<1>3. /\ q # p => lease'[q] = lease[q]
      /\ w # p => lease'[w] = lease[w]
  BY OthersUntouched
<1>4. CASE p \in Locker /\ TakeReadLease(p) /\ p = q
  <2>1. lease[w] = 0
    BY <1>1, <1>4 DEF TakeReadLease, ActiveWriter
  <2> QED
    BY <1>3, <1>4, <2>1
<1>5. CASE p \in Writer /\ TakeWriteLease(p) /\ p = w
  <2>1. lease[q] = 0
    BY <1>1, <1>5 DEF TakeWriteLease, ActiveReader
  <2> QED
    BY <1>3, <1>5, <2>1
<1> QED
  BY <1>2, <1>3, <1>4, <1>5, NoLeaseRevives

\* A change of the configuration: under its lease, no request that has
\* checked a booking of the branch still holds one; after it, the new version
\* is overdue.
LEMMA ConfigCommitted ==
    ASSUME Leases, NEW w \in Writer, CommitConfig(w), NEW p \in Alloc
    PROVE  Checked(p)'
<1>1. TypeOK /\ Exclusive /\ Checked(p)
  BY LeasesParts
<1> USE <1>1, LeaseFields, Processes, RequestAssumption
<1>2. Home[p] \in Branch /\ p # w /\ config[Home[p]] \in Nat /\ cfgSeen[p] \in Nat
  OBVIOUS
<1>3. /\ pc'[p] = pc[p] /\ left'[p] = left[p] /\ lease'[p] = lease[p]
      /\ cfgSeen'[p] = cfgSeen[p]
  BY <1>2 DEF CommitConfig, Goto, redisVars
<1>4. ASSUME lease[p] > 0, OverdueSince(p) PROVE OverdueSince(p)'
  <2>1. CASE Home[p] \notin Scope[w]
    <3>1. config'[Home[p]] = config[Home[p]] /\ overdue \subseteq overdue'
      BY <1>2, <2>1 DEF CommitConfig
    <3> QED
      BY <1>3, <1>4, <3>1 DEF OverdueSince
  <2>2. CASE Home[p] \in Scope[w]
    <3>1. lease[w] = 0
      <4>1. Branches(p) \cap Scope[w] # {}
        BY <2>2 DEF Branches
      <4>2. lease[p] # 0 /\ p \in Locker
        BY <1>4
      <4> QED
        BY <4>1, <4>2 DEF Exclusive
    <3>2. /\ config'[Home[p]] = config[Home[p]] + 1
          /\ overdue \subseteq overdue'
          /\ <<Home[p], config[Home[p]] + 1>> \in overdue'
      BY <1>2, <2>2, <3>1 DEF CommitConfig
    <3>3. ASSUME NEW v \in (cfgSeen[p] + 1) .. (config[Home[p]] + 1)
          PROVE  v \in (cfgSeen[p] + 1) .. config[Home[p]] \/ v = config[Home[p]] + 1
      BY <1>2
    <3> QED
      BY <1>3, <1>4, <3>2, <3>3 DEF OverdueSince
  <2> QED
    BY <2>1, <2>2
<1> QED
  BY <1>3, <1>4 DEF Checked

\* Time passes for a transaction as for the lease over it.
LEMMA LeasesAge ==
    ASSUME Leases, TypeOK', Tick
    PROVE  Leases'
<1>1. TypeOK /\ Exclusive /\ \A p \in Alloc : Checked(p)
  BY LeasesParts
<1> USE <1>1, LeaseFields, Processes, TimeAssumption
<1>2. /\ pc' = pc /\ cfgSeen' = cfgSeen /\ config' = config /\ overdue' = overdue
      /\ \A p \in Proc : lease'[p] = Minus1(lease[p]) /\ left'[p] = Minus1(left[p])
  BY DEF Tick
<1>3. Exclusive'
  BY <1>2 DEF Exclusive, Branches, Minus1
<1>4. ASSUME NEW p \in Alloc PROVE Checked(p)'
  <2>1. lease[p] \in Nat /\ left[p] \in Nat /\ Window[p] \in Nat
    OBVIOUS
  <2>2. OverdueSince(p)' <=> OverdueSince(p)
    BY <1>2 DEF OverdueSince
  <2> QED
    BY <1>2, <2>1, <2>2 DEF Checked, Minus1
<1> QED
  BY <1>3, <1>4, LeasesPartsNext

LEMMA LeasesStep ==
    ASSUME BookingsInLease, Leases, [Next]_vars
    PROVE  Leases'
<1>1. TypeOK /\ TypeOK' /\ Exclusive /\ \A p \in Alloc : Checked(p)
  BY TypeStep, LeasesParts
<1>2. ASSUME NEW p \in Proc, ProcStep(p) \/ Renew(p) \/ Crash(p) PROVE Leases'
  <2>1. Exclusive'
    BY <1>1, <1>2, ExclusiveStep
  <2>2. ASSUME NEW q \in Alloc PROVE Checked(q)'
    <3>1. CASE q = p
      BY <1>1, <1>2, <3>1, OwnChecked
    <3>2. CASE p \in Writer /\ CommitConfig(p)
      BY <3>2, ConfigCommitted
    <3>3. CASE q # p /\ config' = config /\ overdue' = overdue
      <4>1. /\ pc'[q] = pc[q] /\ left'[q] = left[q] /\ lease'[q] = lease[q]
            /\ cfgSeen'[q] = cfgSeen[q]
        BY <1>1, <1>2, <3>3, OthersUntouched, Processes
      <4> QED
        BY <1>1, <3>3, <4>1 DEF Checked, OverdueSince
    <3> QED
      BY <1>1, <1>2, <3>1, <3>2, <3>3, ConfigKept
  <2> QED
    BY <1>1, <2>1, <2>2, LeasesPartsNext
<1>3. ASSUME NEW b \in Create, BookingStep(b) PROVE UNCHANGED <<procVars, redisVars, config, overdue>>
  BY <1>3 DEF BookingStep, ConfirmRead, ConfirmWrite, ConfirmConflict, ExpireHold,
      CheckIn, Close, PurgeHold
<1>4. ASSUME UNCHANGED <<procVars, redisVars, config, overdue>> PROVE Leases'
  <2>1. Exclusive' /\ \A p \in Alloc : Checked(p)'
    BY <1>1, <1>4 DEF procVars, redisVars, Exclusive, Checked, Branches, OverdueSince
  <2> QED
    BY <1>1, <2>1, LeasesPartsNext
<1>5. CASE Tick
  BY <1>1, <1>5, LeasesAge
<1>6. CASE UNCHANGED vars
  BY <1>4, <1>6 DEF vars
<1> QED
  BY <1>2, <1>3, <1>4, <1>5, <1>6 DEF Next

\* If a booking commits within a lease, then what it commits was checked
\* against the configuration in force at the commit, or that was changed
\* meanwhile only by writers whose own leases had run out, however long they
\* take and whether they look at the lease again or not: the readers and the
\* writer of a branch exclude each other, and a lease that has run out is
\* never renewed.
THEOREM CheckedConfigInForce == BookingsInLease => (Spec => ConfigStable)
<1> SUFFICES ASSUME BookingsInLease PROVE Spec => ConfigStable
  OBVIOUS
<1>1. Init => Leases
  <2> SUFFICES ASSUME Init PROVE Leases
    OBVIOUS
  <2>1. \A p \in Proc : lease[p] = 0 /\ pc[p] \in {"idle", "done"}
    BY DEF Init
  <2> QED
    BY <2>1, InitType, Processes DEF Leases
<1>2. Leases /\ [Next]_vars => Leases'
  BY LeasesStep
<1>3. Leases /\ [Next]_vars => \A p \in Alloc : Commits(p) => OverdueSince(p)
  <2> SUFFICES ASSUME Leases, [Next]_vars, NEW p \in Alloc, Commits(p)
               PROVE  OverdueSince(p)
    OBVIOUS
  <2>1. pc[p] = "sealed" /\ left[p] > 0
    BY CommitHasTime, Processes DEF Leases
  <2>2. left[p] \in Nat /\ lease[p] \in Nat /\ left[p] <= lease[p]
    BY <2>1, LeaseFields, Processes DEF Leases
  <2>3. lease[p] > 0
    BY <2>1, <2>2
  <2> QED
    BY <2>1, <2>3 DEF Leases
<1>4. Leases /\ [Next]_vars =>
         \A p \in Alloc : Commits(p) =>
             \A v \in (cfgSeen[p] + 1) .. config[Home[p]] : <<Home[p], v>> \in overdue
  BY <1>3 DEF OverdueSince
<1> QED
  BY <1>1, <1>2, <1>4, PTL DEF Spec, ConfigStable
=============================================================================
