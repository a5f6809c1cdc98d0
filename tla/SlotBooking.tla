---------------------------- MODULE SlotBooking ----------------------------
(***************************************************************************)
(* How appointments get their slots.                                       *)
(*                                                                         *)
(* HTTP requests of several API processes run side by side: they create    *)
(* bookings (bookingService.create), move them (reschedule), close part of *)
(* the calendar (createCalendarBlock, approval of time off) and change the *)
(* booking configuration of a branch (everything that runs under           *)
(* withBookingConfigWriteLease).  A request reads the calendar, takes a    *)
(* read lease on the branch configuration and one Redis lock per branch,   *)
(* employee and chair day, reads the calendar again, and writes in a       *)
(* MongoDB transaction that asks Redis twice whether the locks are still   *)
(* its own.  Confirmation, cancellation and the expiry of unpaid holds     *)
(* take no lock.                                                           *)
(*                                                                         *)
(* Time passes in Tick alone: every expiry is the time that remains, so a  *)
(* lock, a lease, a hold or a transaction whose time has run out has 0.    *)
(* A calendar entry is a set of cells <<resource, instant>>, and a request *)
(* never asks for one cell twice (two items of a request that overlap on   *)
(* one employee are the subject of module Allocation).                     *)
(***************************************************************************)
EXTENDS Integers, FiniteSets, Sequences

CONSTANTS
    Branch,        \* salon branches
    Resource,      \* employees, chairs, rooms, equipment
    Instant,       \* the instants a reservation can cover
    Day,           \* Day[t]: the local date of instant t
    Cap,           \* Cap[r]: maxConcurrentClients or capacity of r
    Create,        \* requests to create a booking; a booking has its name
    Move,          \* requests to reschedule a booking
    Block,         \* requests that block part of the calendar
    Writer,        \* requests that change a branch configuration
    Guarded,       \* the Writer requests that check the lease before their commit
    Transacted,    \* the Writer requests that write in a MongoDB transaction
    Sent,          \* the sets of requests that may come together
    Home,          \* Home[p]: the branch of a Create or Move request
    Scope,         \* Scope[p]: the branches of a Block or Writer request
    Options,       \* Options[p]: the assignments that satisfy p, by preference
    BlockFor,      \* BlockFor[k]: whom Block request k blocks, NoProc is all
    BlockTimes,    \* BlockTimes[k]: when
    Target,        \* Target[m]: the booking Move request m reschedules
    IdemKey,       \* IdemKey[c]: the Idempotency-Key header of c
    NeedsAdvance,  \* NeedsAdvance[c]: booking c starts as pending_advance
    KeyRank,       \* KeyRank[k]: place of lock key k in the sorted order
    Ttl,           \* Ttl[p]: lifetime of the locks of p
    LeaseTtl,      \* lifetime of a configuration lease
    Window,        \* Window[p]: longest time from opening to commit of a transaction
    HoldTime,      \* temporaryHoldMinutes
    NoProc         \* owner of a free lock

Alloc  == Create \cup Move
Locker == Alloc \cup Block
Proc   == Locker \cup Writer

Cell == Resource \X Instant
Key  == (Branch \cup Resource) \X {Day[t] : t \in Instant}

NoBooking == NoProc

ASSUME ProcAssumption ==
    /\ Create \cap Move = {}
    /\ Alloc \cap Block = {}
    /\ Locker \cap Writer = {}
    /\ NoProc \notin Proc
    /\ Guarded \subseteq Writer
    /\ Transacted \subseteq Writer
    /\ Sent \subseteq SUBSET Proc
    /\ IsFiniteSet(Create)

ASSUME CalendarAssumption ==
    /\ Day \in [Instant -> {Day[t] : t \in Instant}]
    /\ Cap \in [Resource -> Nat]
    /\ \A k \in Key : KeyRank[k] \in Nat
    /\ \A j, k \in Key : KeyRank[j] = KeyRank[k] => j = k

ASSUME RequestAssumption ==
    /\ Home \in [Alloc -> Branch]
    /\ Scope \in [Block \cup Writer -> SUBSET Branch]
    /\ Options \in [Alloc -> Seq(SUBSET Cell)]
    /\ BlockFor \in [Block -> Resource \cup {NoProc}]
    /\ BlockTimes \in [Block -> SUBSET Instant]
    /\ Target \in [Move -> Create]
    /\ \A m \in Move : Home[m] = Home[Target[m]]
    /\ NeedsAdvance \in [Create -> BOOLEAN]

ASSUME TimeAssumption ==
    /\ Ttl \in [Proc -> Nat \ {0}]
    /\ LeaseTtl \in Nat \ {0}
    /\ Window \in [Proc -> Nat \ {0}]
    /\ HoldTime \in Nat \ {0}

VARIABLES
    pc,        \* where each request is
    want,      \* the assignment the request last found free
    keys,      \* expectedKeys: the locks it decided to take
    got,       \* the locks it was granted
    lost,      \* an ownership check failed; never reset
    left,      \* time left for its transaction or operation to commit
    seen,      \* version of the booking its transaction read
    base,      \* the reservation it set out to move
    cfgSeen,   \* version of the configuration its second check read
    reply,     \* the booking a Create request was answered with
    lock,      \* Redis: owner and remaining lifetime of every lock
    lease,     \* Redis: remaining lifetime of every configuration lease
    book,      \* MongoDB: the bookings with their calendar reservations
    hold,      \* remaining time of the hold of every booking
    conf,      \* version of the booking a confirmation has read, or -1
    blocked,   \* MongoDB: the calendar blocks in force
    config,    \* MongoDB: version of every branch configuration
    late,      \* history: bookings whose slot was confirmed after its hold ran out
    lapsed,    \* history: blocks committed after one of their locks had lapsed
    overdue,   \* history: configurations written after the writer's lease ran out
    refusedBy  \* history: who held the lock a request was refused

procVars == <<pc, want, keys, got, lost, left, seen, base, cfgSeen, reply>>
redisVars == <<lock, lease>>
bookVars == <<book, hold, conf>>
vars == <<procVars, redisVars, bookVars, blocked, config, late, lapsed, overdue, refusedBy>>

-----------------------------------------------------------------------------
(* The calendar.                                                           *)

\* A reservation occupies its cells while it is confirmed or held in time.
Live(b) == \/ book[b].resv = "confirmed"
           \/ book[b].resv = "held" /\ hold[b] > 0

Covering(B, c) == {b \in Create : Home[b] = B /\ c \in book[b].cells /\ Live(b)}

Excluded(p) == IF p \in Move THEN {Target[p]} ELSE {}

BlockCells(k) ==
    (IF BlockFor[k] = NoProc THEN Resource ELSE {BlockFor[k]}) \X BlockTimes[k]

FreeOfBlocks(B, a) == \A k \in blocked : B \in Scope[k] => a \cap BlockCells(k) = {}

\* Every cell of the assignment has a unit left and nothing blocks it.
Fits(p, a) ==
    /\ \A c \in a : Cardinality(Covering(Home[p], c) \ Excluded(p)) < Cap[c[1]]
    /\ FreeOfBlocks(Home[p], a)

\* The assignment the slot check resolves to: the first that is free.
Offer(p) ==
    {Options[p][i] : i \in {i \in DOMAIN Options[p] :
        /\ Fits(p, Options[p][i])
        /\ \A j \in 1 .. (i - 1) : ~Fits(p, Options[p][j])}}

\* One key per branch day and per resource day.
KeysOf(B, a) == {<<B, Day[c[2]]>> : c \in a} \cup {<<c[1], Day[c[2]]>> : c \in a}

\* Mutant of BlockKeys: the branch days are forgotten.
BlockKeysOfEmployee(k) ==
    (IF BlockFor[k] = NoProc THEN {} ELSE {BlockFor[k]})
        \X {Day[t] : t \in BlockTimes[k]}

\* A block of one employee locks the days of the employee too.
BlockKeys(k) ==
    (Scope[k] \cup IF BlockFor[k] = NoProc THEN {} ELSE {BlockFor[k]})
        \X {Day[t] : t \in BlockTimes[k]}

Branches(p) == IF p \in Alloc THEN {Home[p]} ELSE Scope[p]

Bookings == {b \in Create : book[b].status # "none"}

-----------------------------------------------------------------------------
(* Locks and leases, as the Redis scripts treat them.                      *)

Owns(p, K) == \A k \in K : lock[k].owner = p

\* Mutant of Valid: only what the renewal timer has noticed counts.
ValidByFlag(p) == ~lost[p]

\* The ownership check of a request between its last lock and its commit.
Valid(p) == ~lost[p] /\ Owns(p, keys[p]) /\ lease[p] > 0

Unlocked == [owner |-> NoProc, left |-> 0]

Extended(p) == [k \in Key |-> IF lock[k].owner = p
                              THEN [owner |-> p, left |-> Ttl[p]]
                              ELSE lock[k]]

Dropped(p) == [k \in Key |-> IF lock[k].owner = p THEN Unlocked ELSE lock[k]]

LeaseRenewed(p) == [lease EXCEPT ![p] = IF lease[p] > 0 THEN LeaseTtl ELSE 0]

\* assertValid of a booking renews the lease, that of a block only looks.
Asserted(p) ==
    /\ Valid(p)
    /\ lock' = Extended(p)
    /\ lease' = IF p \in Alloc THEN LeaseRenewed(p) ELSE lease

ActiveWriter(B) == \E w \in Writer : B \in Scope[w] /\ lease[w] > 0
ActiveReader(B) == \E p \in Locker : B \in Branches(p) /\ lease[p] > 0

-----------------------------------------------------------------------------
Init ==
    /\ \E S \in Sent : pc = [p \in Proc |-> IF p \in S THEN "idle" ELSE "done"]
    /\ want = [p \in Locker |-> {}]
    /\ keys = [p \in Locker |-> {}]
    /\ got = [p \in Locker |-> {}]
    /\ lost = [p \in Proc |-> FALSE]
    /\ left = [p \in Proc |-> 0]
    /\ seen = [m \in Move |-> 0]
    /\ base = [m \in Move |-> {}]
    /\ cfgSeen = [p \in Alloc |-> 0]
    /\ reply = [c \in Create |-> NoBooking]
    /\ lock = [k \in Key |-> Unlocked]
    /\ lease = [p \in Proc |-> 0]
    /\ book = [b \in Create |->
                 [status |-> "none", resv |-> "none", cells |-> {}, ver |-> 0]]
    /\ hold = [b \in Create |-> 0]
    /\ conf = [b \in Create |-> -1]
    /\ blocked = {}
    /\ config = [B \in Branch |-> 0]
    /\ late = {}
    /\ lapsed = {}
    /\ overdue = {}
    /\ refusedBy = [p \in Locker |-> NoProc]

Goto(p, s) == pc' = [pc EXCEPT ![p] = s]

-----------------------------------------------------------------------------
(* Before the locks: the replay lookup, the optimistic check, the keys.    *)

Duplicates(c) == {b \in Bookings : IdemKey[b] = IdemKey[c]}

\* The fingerprint of the two requests is the same.
SamePayload(b, c) == Options[b] = Options[c] /\ Home[b] = Home[c]

\* findIdempotentBooking before anything else: an exact repetition is
\* answered with the stored booking, another payload is refused.
AnswerRepeated(c) ==
    /\ pc[c] = "idle"
    /\ \E b \in Duplicates(c) :
          reply' = [reply EXCEPT ![c] = IF SamePayload(b, c) THEN b ELSE @]
    /\ Goto(c, "done")
    /\ UNCHANGED <<want, keys, got, lost, left, seen, base, cfgSeen,
                   redisVars, bookVars, blocked, config, late, lapsed, overdue, refusedBy>>

PreflightCreate(c) ==
    /\ pc[c] = "idle"
    /\ Duplicates(c) = {}
    /\ \E a \in Offer(c) :
          /\ want' = [want EXCEPT ![c] = a]
          /\ keys' = [keys EXCEPT ![c] = KeysOf(Home[c], a)]
    /\ Goto(c, "keyed")
    /\ UNCHANGED <<got, lost, left, seen, base, cfgSeen, reply,
                   redisVars, bookVars, blocked, config, late, lapsed, overdue, refusedBy>>

\* Only a confirmed booking, or a pending one whose hold runs, can move.
Movable(b) == \/ book[b].status = "confirmed"
              \/ book[b].status = "pending_advance" /\ hold[b] > 0

Reserved(b) == IF book[b].resv \in {"held", "confirmed"} THEN book[b].cells ELSE {}

PreflightMove(m) ==
    LET b == Target[m] IN
    /\ pc[m] = "idle"
    /\ Movable(b)
    /\ \E a \in Offer(m) :
          /\ want' = [want EXCEPT ![m] = a]
          /\ keys' = [keys EXCEPT ![m] =
                        KeysOf(Home[m], a) \cup KeysOf(Home[m], Reserved(b))]
    /\ base' = [base EXCEPT ![m] = book[b].cells]
    /\ Goto(m, "keyed")
    /\ UNCHANGED <<got, lost, left, seen, cfgSeen, reply,
                   redisVars, bookVars, blocked, config, late, lapsed, overdue, refusedBy>>

PreflightRefused(p) ==
    /\ pc[p] = "idle"
    /\ \/ p \in Create /\ Duplicates(p) = {} /\ Offer(p) = {}
       \/ p \in Move /\ Target[p] \in Bookings
                     /\ (Movable(Target[p]) => Offer(p) = {})
    /\ Goto(p, "done")
    /\ UNCHANGED <<want, keys, got, lost, left, seen, base, cfgSeen, reply,
                   redisVars, bookVars, blocked, config, late, lapsed, overdue, refusedBy>>

StartBlock(k) ==
    /\ pc[k] = "idle"
    /\ keys' = [keys EXCEPT ![k] = BlockKeys(k)]
    /\ Goto(k, "keyed")
    /\ UNCHANGED <<want, got, lost, left, seen, base, cfgSeen, reply,
                   redisVars, bookVars, blocked, config, late, lapsed, overdue, refusedBy>>

-----------------------------------------------------------------------------
(* Taking the configuration lease and the locks.                           *)

TakeReadLease(p) ==
    /\ pc[p] = "keyed"
    /\ \A B \in Branches(p) : ~ActiveWriter(B)
    /\ lease' = [lease EXCEPT ![p] = LeaseTtl]
    /\ Goto(p, "locking")
    /\ UNCHANGED <<want, keys, got, lost, left, seen, base, cfgSeen, reply,
                   lock, bookVars, blocked, config, late, lapsed, overdue, refusedBy>>

ReadLeaseRefused(p) ==
    /\ pc[p] = "keyed"
    /\ \E B \in Branches(p) : ActiveWriter(B)
    /\ Goto(p, "done")
    /\ UNCHANGED <<want, keys, got, lost, left, seen, base, cfgSeen, reply,
                   redisVars, bookVars, blocked, config, late, lapsed, overdue, refusedBy>>

\* Mutant of NextKey: the keys are taken in any order.
NextKeyUnsorted(p, k) == k \in keys[p] \ got[p]

\* acquireLocks goes through the keys in sorted order.
NextKey(p, k) ==
    /\ k \in keys[p] \ got[p]
    /\ \A j \in keys[p] \ got[p] : KeyRank[k] <= KeyRank[j]

TakeLock(p) ==
    /\ pc[p] = "locking"
    /\ \E k \in Key :
          /\ NextKey(p, k)
          /\ lock[k].owner = NoProc
          /\ lock' = [lock EXCEPT ![k] = [owner |-> p, left |-> Ttl[p]]]
          /\ got' = [got EXCEPT ![p] = @ \cup {k}]
    /\ UNCHANGED <<pc, want, keys, lost, left, seen, base, cfgSeen, reply,
                   lease, bookVars, blocked, config, late, lapsed, overdue, refusedBy>>

LockRefused(p) ==
    /\ pc[p] = "locking"
    /\ \E k \in Key :
          /\ NextKey(p, k)
          /\ lock[k].owner # NoProc
          /\ refusedBy' = [refusedBy EXCEPT ![p] = lock[k].owner]
    /\ Goto(p, "closing")
    /\ UNCHANGED <<want, keys, got, lost, left, seen, base, cfgSeen, reply,
                   redisVars, bookVars, blocked, config, late, lapsed, overdue>>

AllLocked(p) ==
    /\ pc[p] = "locking"
    /\ got[p] = keys[p]
    /\ Goto(p, "locked")
    /\ UNCHANGED <<want, keys, got, lost, left, seen, base, cfgSeen, reply,
                   redisVars, bookVars, blocked, config, late, lapsed, overdue, refusedBy>>

\* The renewal timer.  It may run late or never.  One refused extension
\* marks the ownership as lost for good.
Renew(p) ==
    /\ pc[p] \in {"locked", "checked", "open", "sealed"}
    /\ lock' = Extended(p)
    /\ lease' = LeaseRenewed(p)
    /\ lost' = [lost EXCEPT ![p] = \/ @
                                   \/ lease[p] = 0
                                   \/ p \in Locker /\ ~Owns(p, keys[p])]
    /\ UNCHANGED <<pc, want, keys, got, left, seen, base, cfgSeen, reply,
                   bookVars, blocked, config, late, lapsed, overdue, refusedBy>>

-----------------------------------------------------------------------------
(* Under the locks: the second check, the transaction, the release.        *)

\* Mutant of Recheck: the first check is trusted.
RecheckTrusting(p) ==
    /\ pc[p] = "locked"
    /\ cfgSeen' = [cfgSeen EXCEPT ![p] = config[Home[p]]]
    /\ Goto(p, "checked")
    /\ UNCHANGED <<want, keys, got, lost, left, seen, base, reply,
                   redisVars, bookVars, blocked, config, late, lapsed, overdue, refusedBy>>

Recheck(p) ==
    /\ pc[p] = "locked"
    /\ \E a \in Offer(p) :
          /\ KeysOf(Home[p], a) \subseteq keys[p]
          /\ want' = [want EXCEPT ![p] = a]
    /\ cfgSeen' = [cfgSeen EXCEPT ![p] = config[Home[p]]]
    /\ Goto(p, "checked")
    /\ UNCHANGED <<keys, got, lost, left, seen, base, reply,
                   redisVars, bookVars, blocked, config, late, lapsed, overdue, refusedBy>>

\* The slot is gone, or it now resolves to a resource that is not locked.
RecheckRefused(p) ==
    /\ pc[p] = "locked"
    /\ \A a \in Offer(p) : ~(KeysOf(Home[p], a) \subseteq keys[p])
    /\ Goto(p, "closing")
    /\ UNCHANGED <<want, keys, got, lost, left, seen, base, cfgSeen, reply,
                   redisVars, bookVars, blocked, config, late, lapsed, overdue, refusedBy>>

\* The transaction of create: ownership, then the snapshot has no booking
\* under this key.
OpenCreate(c) ==
    /\ pc[c] = "checked"
    /\ Duplicates(c) = {}
    /\ Asserted(c)
    /\ left' = [left EXCEPT ![c] = Window[c]]
    /\ Goto(c, "open")
    /\ UNCHANGED <<want, keys, got, lost, seen, base, cfgSeen, reply,
                   bookVars, blocked, config, late, lapsed, overdue, refusedBy>>

OpenDuplicate(c) ==
    /\ pc[c] = "checked"
    /\ Asserted(c)
    /\ \E b \in Duplicates(c) :
          reply' = [reply EXCEPT ![c] = IF SamePayload(b, c) THEN b ELSE @]
    /\ Goto(c, "closing")
    /\ UNCHANGED <<want, keys, got, lost, left, seen, base, cfgSeen,
                   bookVars, blocked, config, late, lapsed, overdue, refusedBy>>

\* The transaction of reschedule reads the booking again and compares it
\* with what the request was based on.
Unchanged(m) == LET b == Target[m] IN
    /\ book[b].status \in {"pending_advance", "confirmed"}
    /\ book[b].cells = base[m]

OpenMove(m) ==
    /\ pc[m] = "checked"
    /\ Unchanged(m)
    /\ Asserted(m)
    /\ left' = [left EXCEPT ![m] = Window[m]]
    /\ seen' = [seen EXCEPT ![m] = book[Target[m]].ver]
    /\ Goto(m, "open")
    /\ UNCHANGED <<want, keys, got, lost, base, cfgSeen, reply,
                   bookVars, blocked, config, late, lapsed, overdue, refusedBy>>

OpenMoveRefused(m) ==
    /\ pc[m] = "checked"
    /\ ~Unchanged(m)
    /\ Asserted(m)
    /\ Goto(m, "closing")
    /\ UNCHANGED <<want, keys, got, lost, left, seen, base, cfgSeen, reply,
                   bookVars, blocked, config, late, lapsed, overdue, refusedBy>>

\* A live reservation in the way of a block.
InTheWay(k) == {b \in Create : /\ Live(b)
                               /\ Home[b] \in Scope[k]
                               /\ book[b].cells \cap BlockCells(k) # {}}

OpenBlock(k) ==
    /\ pc[k] = "locked"
    /\ InTheWay(k) = {}
    /\ Asserted(k)
    /\ left' = [left EXCEPT ![k] = Window[k]]
    /\ Goto(k, "open")
    /\ UNCHANGED <<want, keys, got, lost, seen, base, cfgSeen, reply,
                   bookVars, blocked, config, late, lapsed, overdue, refusedBy>>

OpenBlockRefused(k) ==
    /\ pc[k] = "locked"
    /\ InTheWay(k) # {}
    /\ Asserted(k)
    /\ Goto(k, "closing")
    /\ UNCHANGED <<want, keys, got, lost, left, seen, base, cfgSeen, reply,
                   bookVars, blocked, config, late, lapsed, overdue, refusedBy>>

\* The last ownership check inside the transaction.
Seal(p) ==
    /\ pc[p] = "open"
    /\ Asserted(p)
    /\ Goto(p, "sealed")
    /\ UNCHANGED <<want, keys, got, lost, left, seen, base, cfgSeen, reply,
                   bookVars, blocked, config, late, lapsed, overdue, refusedBy>>

\* An ownership check fails: the request gives up.
LostLock(p) ==
    /\ pc[p] \in IF p \in Alloc THEN {"checked", "open"} ELSE {"locked", "open"}
    /\ ~Valid(p)
    /\ lost' = [lost EXCEPT ![p] = TRUE]
    /\ lock' = Extended(p)
    /\ lease' = IF p \in Alloc THEN LeaseRenewed(p) ELSE lease
    /\ Goto(p, "closing")
    /\ UNCHANGED <<want, keys, got, left, seen, base, cfgSeen, reply,
                   bookVars, blocked, config, late, lapsed, overdue, refusedBy>>

\* Mutant of StoredKeyTaken: there is no unique index.
StoredKeyNeverTaken(c) == FALSE

\* The unique index on the stored idempotency key: key and fingerprint.
StoredKeyTaken(c) == \E b \in Duplicates(c) : SamePayload(b, c)

NewBooking(c) ==
    [status |-> IF NeedsAdvance[c] THEN "pending_advance" ELSE "confirmed",
     resv   |-> IF NeedsAdvance[c] THEN "held" ELSE "confirmed",
     cells  |-> want[c],
     ver    |-> book[c].ver + 1]

CommitCreate(c) ==
    /\ pc[c] = "sealed"
    /\ left[c] > 0
    /\ ~StoredKeyTaken(c)
    /\ book' = [book EXCEPT ![c] = NewBooking(c)]
    /\ hold' = [hold EXCEPT ![c] = IF NeedsAdvance[c] THEN HoldTime ELSE 0]
    /\ reply' = [reply EXCEPT ![c] = c]
    /\ Goto(c, "closing")
    /\ UNCHANGED <<want, keys, got, lost, left, seen, base, cfgSeen,
                   redisVars, conf, blocked, config, late, lapsed, overdue, refusedBy>>

\* E11000: the same request was committed meanwhile.
CommitDuplicate(c) ==
    /\ pc[c] = "sealed"
    /\ left[c] > 0
    /\ \E b \in Duplicates(c) :
          /\ SamePayload(b, c)
          /\ reply' = [reply EXCEPT ![c] = b]
    /\ Goto(c, "closing")
    /\ UNCHANGED <<want, keys, got, lost, left, seen, base, cfgSeen,
                   redisVars, bookVars, blocked, config, late, lapsed, overdue, refusedBy>>

MovedBooking(m) ==
    LET b == book[Target[m]] IN
    [status |-> b.status,
     resv   |-> IF b.status = "pending_advance" THEN "held" ELSE "confirmed",
     cells  |-> want[m],
     ver    |-> b.ver + 1]

CommitMove(m) ==
    /\ pc[m] = "sealed"
    /\ left[m] > 0
    /\ book[Target[m]].ver = seen[m]
    /\ book' = [book EXCEPT ![Target[m]] = MovedBooking(m)]
    /\ late' = late \ {Target[m]}
    /\ Goto(m, "closing")
    /\ UNCHANGED <<want, keys, got, lost, left, seen, base, cfgSeen, reply,
                   redisVars, hold, conf, blocked, config, lapsed, overdue, refusedBy>>

\* Another transaction wrote the booking: MongoDB aborts this one and the
\* driver runs its body again.
RetryMove(m) ==
    /\ pc[m] \in {"open", "sealed"}
    /\ book[Target[m]].ver # seen[m]
    /\ Goto(m, "checked")
    /\ UNCHANGED <<want, keys, got, lost, left, seen, base, cfgSeen, reply,
                   redisVars, bookVars, blocked, config, late, lapsed, overdue, refusedBy>>

CommitBlock(k) ==
    /\ pc[k] = "sealed"
    /\ left[k] > 0
    /\ blocked' = blocked \cup {k}
    /\ lapsed' = IF Owns(k, keys[k]) THEN lapsed ELSE lapsed \cup {k}
    /\ Goto(k, "closing")
    /\ UNCHANGED <<want, keys, got, lost, left, seen, base, cfgSeen, reply,
                   redisVars, bookVars, config, late, overdue, refusedBy>>

\* MongoDB aborts a transaction that outlives its limit.  The writers that
\* save a document without one have no limit.
OutOfTime(p) ==
    /\ p \in Locker \cup Transacted
    /\ pc[p] \in {"open", "sealed"}
    /\ left[p] = 0
    /\ Goto(p, "closing")
    /\ UNCHANGED <<want, keys, got, lost, left, seen, base, cfgSeen, reply,
                   redisVars, bookVars, blocked, config, late, lapsed, overdue, refusedBy>>

\* Compare-and-delete of every lock, and the lease.
Release(p) ==
    /\ pc[p] = "closing"
    /\ lock' = Dropped(p)
    /\ lease' = [lease EXCEPT ![p] = 0]
    /\ Goto(p, "done")
    /\ UNCHANGED <<want, keys, got, lost, left, seen, base, cfgSeen, reply,
                   bookVars, blocked, config, late, lapsed, overdue, refusedBy>>

\* The API process dies: what it holds in Redis stays until it expires.
Crash(p) ==
    /\ pc[p] \notin {"idle", "done", "crashed"}
    /\ Goto(p, "crashed")
    /\ UNCHANGED <<want, keys, got, lost, left, seen, base, cfgSeen, reply,
                   redisVars, bookVars, blocked, config, late, lapsed, overdue, refusedBy>>

-----------------------------------------------------------------------------
(* Configuration changes.                                                  *)

\* Mutant of TakeWriteLease: a writer does not look at the readers.
TakeWriteLeaseAmongReaders(w) ==
    /\ pc[w] = "idle"
    /\ \A B \in Scope[w] : ~ActiveWriter(B)
    /\ lease' = [lease EXCEPT ![w] = LeaseTtl]
    /\ Goto(w, "locked")
    /\ UNCHANGED <<want, keys, got, lost, left, seen, base, cfgSeen, reply,
                   lock, bookVars, blocked, config, late, lapsed, overdue, refusedBy>>

TakeWriteLease(w) ==
    /\ pc[w] = "idle"
    /\ \A B \in Scope[w] : ~ActiveWriter(B) /\ ~ActiveReader(B)
    /\ lease' = [lease EXCEPT ![w] = LeaseTtl]
    /\ Goto(w, "locked")
    /\ UNCHANGED <<want, keys, got, lost, left, seen, base, cfgSeen, reply,
                   lock, bookVars, blocked, config, late, lapsed, overdue, refusedBy>>

WriteLeaseRefused(w) ==
    /\ pc[w] = "idle"
    /\ \E B \in Scope[w] : ActiveWriter(B) \/ ActiveReader(B)
    /\ Goto(w, "done")
    /\ UNCHANGED <<want, keys, got, lost, left, seen, base, cfgSeen, reply,
                   redisVars, bookVars, blocked, config, late, lapsed, overdue, refusedBy>>

\* Every writer checks its lease before the operation.
StartWriting(w) ==
    /\ pc[w] = "locked"
    /\ ~lost[w] /\ lease[w] > 0
    /\ left' = [left EXCEPT ![w] = IF w \in Transacted THEN Window[w] ELSE 0]
    /\ Goto(w, "open")
    /\ UNCHANGED <<want, keys, got, lost, seen, base, cfgSeen, reply,
                   redisVars, bookVars, blocked, config, late, lapsed, overdue, refusedBy>>

\* The guarded ones check it again before they commit or save; the writers
\* of schedules and resources do not.  The check renews nothing.
SealConfig(w) ==
    /\ w \in Guarded
    /\ pc[w] = "open"
    /\ ~lost[w] /\ lease[w] > 0
    /\ Goto(w, "sealed")
    /\ UNCHANGED <<want, keys, got, lost, left, seen, base, cfgSeen, reply,
                   redisVars, bookVars, blocked, config, late, lapsed, overdue, refusedBy>>

WriterLost(w) ==
    /\ pc[w] \in IF w \in Guarded THEN {"locked", "open"} ELSE {"locked"}
    /\ lost[w] \/ lease[w] = 0
    /\ Goto(w, "closing")
    /\ UNCHANGED <<want, keys, got, lost, left, seen, base, cfgSeen, reply,
                   redisVars, bookVars, blocked, config, late, lapsed, overdue, refusedBy>>

CommitConfig(w) ==
    /\ pc[w] = IF w \in Guarded THEN "sealed" ELSE "open"
    /\ w \in Transacted => left[w] > 0
    /\ config' = [B \in Branch |-> IF B \in Scope[w] THEN config[B] + 1 ELSE config[B]]
    /\ overdue' = IF lease[w] > 0 THEN overdue
                  ELSE overdue \cup {<<B, config[B] + 1>> : B \in Scope[w]}
    /\ Goto(w, "closing")
    /\ UNCHANGED <<want, keys, got, lost, left, seen, base, cfgSeen, reply,
                   redisVars, bookVars, blocked, late, lapsed, refusedBy>>

-----------------------------------------------------------------------------
(* What happens to a booking without any lock.                             *)

\* A transaction writes booking b.
Written(b, status, resv) ==
    [status |-> status, resv |-> resv, cells |-> book[b].cells, ver |-> book[b].ver + 1]

\* A confirmation transaction reads: still pending, and every hold in time.
ConfirmRead(b) ==
    /\ conf[b] = -1
    /\ book[b].status = "pending_advance"
    /\ book[b].resv = "held"
    /\ hold[b] > 0
    /\ conf' = [conf EXCEPT ![b] = book[b].ver]
    /\ UNCHANGED <<procVars, redisVars, book, hold, blocked, config, late, lapsed, overdue, refusedBy>>

\* ... and commits unless another transaction wrote the booking.
ConfirmWrite(b) ==
    /\ conf[b] = book[b].ver
    /\ book' = [book EXCEPT ![b] = Written(b, "confirmed", "confirmed")]
    /\ conf' = [conf EXCEPT ![b] = -1]
    /\ late' = IF hold[b] = 0 THEN late \cup {b} ELSE late
    /\ UNCHANGED <<procVars, redisVars, hold, blocked, config, lapsed, overdue, refusedBy>>

ConfirmConflict(b) ==
    /\ conf[b] # -1
    /\ conf[b] # book[b].ver
    /\ conf' = [conf EXCEPT ![b] = -1]
    /\ UNCHANGED <<procVars, redisVars, book, hold, blocked, config, late, lapsed, overdue, refusedBy>>

Released(b, status) ==
    Written(b, status, IF book[b].resv = "none" THEN "none" ELSE "released")

\* Mutant of ExpireHold: only bookings whose reservations are still held.
ExpireHeldHold(b) ==
    /\ book[b].status = "pending_advance"
    /\ book[b].resv = "held"
    /\ hold[b] = 0
    /\ book' = [book EXCEPT ![b] = Released(b, "cancelled")]
    /\ UNCHANGED <<procVars, redisVars, hold, conf, blocked, config, late, lapsed, overdue, refusedBy>>

\* The lifecycle worker cancels a booking whose hold has run out.
ExpireHold(b) ==
    /\ book[b].status = "pending_advance"
    /\ hold[b] = 0
    /\ book' = [book EXCEPT ![b] = Released(b, "cancelled")]
    /\ UNCHANGED <<procVars, redisVars, hold, conf, blocked, config, late, lapsed, overdue, refusedBy>>

\* The customer has come: the booking keeps its slot and can move no more.
CheckIn(b) ==
    /\ book[b].status = "confirmed"
    /\ book' = [book EXCEPT ![b] = Written(b, "checked_in", book[b].resv)]
    /\ UNCHANGED <<procVars, redisVars, hold, conf, blocked, config, late, lapsed, overdue, refusedBy>>

\* Cancellation by the customer or the staff, completion, no-show.
Close(b) ==
    /\ book[b].status \in {"pending_advance", "confirmed", "checked_in"}
    /\ \E s \in {"cancelled", "closed"} :
          /\ s = "closed" => book[b].status # "pending_advance"
          /\ book' = [book EXCEPT ![b] = Released(b, s)]
    /\ UNCHANGED <<procVars, redisVars, hold, conf, blocked, config, late, lapsed, overdue, refusedBy>>

\* The TTL index on holdExpiresAt deletes an expired hold.
PurgeHold(b) ==
    /\ book[b].resv = "held"
    /\ hold[b] = 0
    /\ book' = [book EXCEPT ![b] = Written(b, book[b].status, "none")]
    /\ UNCHANGED <<procVars, redisVars, hold, conf, blocked, config, late, lapsed, overdue, refusedBy>>

-----------------------------------------------------------------------------
(* Time.                                                                   *)

Minus1(n) == IF n > 0 THEN n - 1 ELSE 0

Aged(l) == IF l.left > 1 THEN [owner |-> l.owner, left |-> l.left - 1] ELSE Unlocked

SomethingRuns ==
    \/ \E k \in Key : lock[k].left > 0
    \/ \E p \in Proc : lease[p] > 0 \/ left[p] > 0
    \/ \E b \in Create : hold[b] > 0

Tick ==
    /\ SomethingRuns
    /\ lock' = [k \in Key |-> Aged(lock[k])]
    /\ lease' = [p \in Proc |-> Minus1(lease[p])]
    /\ left' = [p \in Proc |-> Minus1(left[p])]
    /\ hold' = [b \in Create |-> Minus1(hold[b])]
    /\ UNCHANGED <<pc, want, keys, got, lost, seen, base, cfgSeen, reply,
                   book, conf, blocked, config, late, lapsed, overdue, refusedBy>>

-----------------------------------------------------------------------------
CreateStep(c) ==
    \/ AnswerRepeated(c) \/ PreflightCreate(c)
    \/ OpenCreate(c) \/ OpenDuplicate(c)
    \/ CommitCreate(c) \/ CommitDuplicate(c)

MoveStep(m) ==
    \/ PreflightMove(m)
    \/ OpenMove(m) \/ OpenMoveRefused(m)
    \/ CommitMove(m) \/ RetryMove(m)

AllocStep(p) == PreflightRefused(p) \/ Recheck(p) \/ RecheckRefused(p)

BlockStep(k) ==
    \/ StartBlock(k) \/ OpenBlock(k) \/ OpenBlockRefused(k) \/ CommitBlock(k)

LockerStep(p) ==
    \/ TakeReadLease(p) \/ ReadLeaseRefused(p)
    \/ TakeLock(p) \/ LockRefused(p) \/ AllLocked(p)
    \/ Seal(p) \/ LostLock(p)

WriterStep(w) ==
    \/ TakeWriteLease(w) \/ WriteLeaseRefused(w)
    \/ StartWriting(w) \/ SealConfig(w) \/ WriterLost(w) \/ CommitConfig(w)

ProcStep(p) ==
    \/ p \in Create /\ CreateStep(p)
    \/ p \in Move /\ MoveStep(p)
    \/ p \in Alloc /\ AllocStep(p)
    \/ p \in Block /\ BlockStep(p)
    \/ p \in Locker /\ LockerStep(p)
    \/ p \in Writer /\ WriterStep(p)
    \/ OutOfTime(p)
    \/ Release(p)

BookingStep(b) ==
    \/ ConfirmRead(b) \/ ConfirmWrite(b) \/ ConfirmConflict(b)
    \/ ExpireHold(b) \/ CheckIn(b) \/ Close(b) \/ PurgeHold(b)

Next ==
    \/ \E p \in Proc : ProcStep(p) \/ Renew(p) \/ Crash(p)
    \/ \E b \in Create : BookingStep(b)
    \/ Tick

Spec == Init /\ [][Next]_vars

\* A request that has begun goes on as long as its process lives, time
\* passes, and the lifecycle worker comes round.  Nobody has to send a
\* request, to confirm or to cancel, and a renewal timer may never run.
FairSpec ==
    /\ Spec
    /\ \A p \in Proc : WF_vars(pc[p] # "idle" /\ ProcStep(p))
    /\ \A b \in Create : WF_vars(ExpireHold(b))
    /\ WF_vars(Tick)

-----------------------------------------------------------------------------
(* Properties.                                                             *)

Phase == {"idle", "keyed", "locking", "locked", "checked", "open", "sealed",
          "closing", "done", "crashed"}

Status == {"none", "pending_advance", "confirmed", "checked_in", "cancelled", "closed"}

BookingRecord ==
    [status : Status,
     resv   : {"none", "held", "confirmed", "released"},
     cells  : SUBSET Cell,
     ver    : Nat]

\* Every variable keeps its type: the phases of a request, the locks and
\* leases Redis stores, the bookings and reservations MongoDB stores.
TypeOK ==
    /\ pc \in [Proc -> Phase]
    /\ want \in [Locker -> SUBSET Cell]
    /\ keys \in [Locker -> SUBSET Key]
    /\ got \in [Locker -> SUBSET Key]
    /\ lost \in [Proc -> BOOLEAN]
    /\ left \in [Proc -> Nat]
    /\ seen \in [Move -> Nat]
    /\ base \in [Move -> SUBSET Cell]
    /\ cfgSeen \in [Alloc -> Nat]
    /\ reply \in [Create -> Create \cup {NoBooking}]
    /\ lock \in [Key -> [owner : Locker \cup {NoProc}, left : Nat]]
    /\ lease \in [Proc -> Nat]
    /\ book \in [Create -> BookingRecord]
    /\ hold \in [Create -> Nat]
    /\ conf \in [Create -> Nat \cup {-1}]
    /\ blocked \in SUBSET Block
    /\ config \in [Branch -> Nat]
    /\ late \in SUBSET Create
    /\ lapsed \in SUBSET Block
    /\ overdue \in SUBSET (Branch \X Nat)
    /\ refusedBy \in [Locker -> Locker \cup {NoProc}]

\* The locks of p outlive its transaction when nothing renews them.  It is
\* so of bookings (locks of 90 s, transactions of 60 s), which is all the
\* theorems assume, and not of blocks (30 s and 60 s).
InTime(p) == Window[p] <= Ttl[p]

BookingsInTime == \A p \in Alloc : InTime(p)

\* However creations, moves, lapsing holds, confirmations and cancellations
\* interleave, an employee or a chair of a branch never serves more bookings
\* at an instant than it has units.  Bookings confirmed after their hold ran
\* out are left out: NoDoubleBooking below is about them.
NoOverbooking ==
    \A B \in Branch, c \in Cell : Cardinality(Covering(B, c) \ late) <= Cap[c[1]]

\* The promise without the exception, and for all branches together: no
\* resource is ever sold beyond its capacity.
NoDoubleBooking ==
    \A c \in Cell : Cardinality({b \in Create : c \in book[b].cells /\ Live(b)}) <= Cap[c[1]]

\* A calendar block and a live booking never overlap, whichever request
\* came first: the block looks for bookings, the booking for blocks, and
\* the shared locks keep them from looking past each other.  Left out are
\* the bookings confirmed late and the blocks committed after a lock of
\* theirs had lapsed, which the code does not notice.
NoBookingInBlock ==
    \A k \in blocked \ lapsed, b \in Create \ late :
        Live(b) /\ Home[b] \in Scope[k] => book[b].cells \cap BlockCells(k) = {}

\* Of two requests that want each other's locks at most one is turned away
\* by the other: the sorted order of acquireLocks lets one of them through.
NoMutualRefusal ==
    ~ \E p, q \in Locker : refusedBy[p] = q /\ refusedBy[q] = p

\* A repeated request (one Idempotency-Key, one payload) makes one booking,
\* and every copy that gets an answer is answered with it.
SameRequestSameBooking ==
    \A c, d \in Create :
        IdemKey[c] = IdemKey[d] /\ SamePayload(c, d) =>
            /\ c \in Bookings /\ d \in Bookings => c = d
            /\ reply[c] # NoBooking /\ reply[d] # NoBooking => reply[c] = reply[d]

Commits(p) == /\ pc[p] = "sealed"
              /\ pc'[p] = "closing"
              /\ <<book, blocked>>' # <<book, blocked>>

\* A booking request that has lost a lock does not commit: at the commit
\* every lock it decided to take is still its own, however long it has been
\* stalled between its last check and the commit.
LostLockNeverCommits == [][\A p \in Alloc : Commits(p) => Owns(p, keys[p])]_vars

\* The branch configuration does not change midway through an allocation:
\* what create and reschedule commit was checked against the configuration
\* in force at the commit, or the only changes since were written by a
\* request whose own lease had run out.
ConfigStable ==
    [][\A p \in Alloc : Commits(p) =>
         \A v \in (cfgSeen[p] + 1) .. config[Home[p]] : <<Home[p], v>> \in overdue]_vars

\* Nothing waits for ever.  Every request that begins ends, unless its process dies;
\* no lock is kept, not even by a process that died with it; and a booking that waits
\* for its advance is confirmed or cancelled, also when its reservations were purged
\* before the worker looked at it.
NothingWaitsForEver ==
    /\ \A p \in Proc : pc[p] # "idle" ~> pc[p] \in {"done", "crashed"}
    /\ \A k \in Key, p \in Locker : lock[k].owner = p ~> lock[k].owner # p
    /\ \A b \in Create :
         book[b].status = "pending_advance" ~> book[b].status # "pending_advance"
=============================================================================
