------------------------- MODULE WorkerQueue_proofs -------------------------
(***************************************************************************)
(* Proofs about WorkerQueue, for any number of records, workers and        *)
(* requests of staff, and any limits.  Only StaleOwners asks something of  *)
(* the workers: that no two of them share a process.                       *)
(***************************************************************************)
EXTENDS WorkerQueue, TLAPS

(***************************************************************************)
(* Types                                                                   *)
(***************************************************************************)

LEMMA Bounds ==
    /\ MaxAttempts \in Nat /\ MaxAttempts >= 1
    /\ Ttl \in Nat /\ Ttl >= 1
    /\ MaxDelay \in Nat /\ MaxDelay >= 1
    BY QueueAssumption

\* What a record, an activity and a request have.
LEMMA Fields ==
    ASSUME TypeOK
    PROVE  /\ \A j \in Job :
                 /\ rec[j] \in Record
                 /\ rec[j].attempts \in Nat /\ rec[j].attempts <= MaxAttempts
                 /\ rec[j].wait \in Nat /\ rec[j].left \in Nat
                 /\ rec[j].saves \in Nat
           /\ \A w \in Worker :
                 /\ work[w] \in Activity
                 /\ work[w].job \in Job
                 /\ work[w].attempt \in 0 .. MaxAttempts
           /\ \A s \in Ask :
                 /\ ask[s] \in Request
                 /\ ask[s].job \in Job /\ ask[s].seen \in Record
    BY Bounds DEF TypeOK, Record, Activity, Request

LEMMA RestType ==
    ASSUME NEW j \in Job
    PROVE  /\ Resting(j) \in Activity
           /\ Dead(j) \in Activity
           /\ Unasked(j) \in Request
           /\ [Unasked(j) EXCEPT !.pc = "closed"] \in Request
<1>1. Absent \in Record
    BY Bounds DEF Absent, Record
<1>2. Resting(j) \in Activity /\ Dead(j) \in Activity
    <2>1. 0 \in 0 .. MaxAttempts
        BY Bounds
    <2>2. Resting(j) \in Activity
        BY <2>1 DEF Resting, Activity
    <2>3. Dead(j) \in Activity
        BY <2>2 DEF Dead, Activity
    <2> QED  BY <2>2, <2>3
<1>3. Unasked(j) \in Request /\ [Unasked(j) EXCEPT !.pc = "closed"] \in Request
    BY <1>1 DEF Unasked, Request
<1> QED  BY <1>2, <1>3

\* What the actions write to a record.
LEMMA RecordWith ==
    ASSUME NEW r \in Record,
           NEW st \in {"pending", "processing", "failed", "done", "dead_letter",
                       "cancelled"},
           NEW a \in 0 .. MaxAttempts, NEW d \in 0 .. MaxDelay,
           NEW o \in WorkerId \cup {NoWorker}, NEW t \in 0 .. Ttl, NEW n \in Nat
    PROVE  [r EXCEPT !.status = st, !.attempts = a, !.wait = d, !.owner = o,
                     !.left = t, !.saves = n] \in Record
    BY DEF Record

LEMMA RecordWaiting ==
    ASSUME NEW r \in Record, NEW d \in 0 .. MaxDelay
    PROVE  [r EXCEPT !.status = "pending", !.wait = d] \in Record
    BY DEF Record

LEMMA RecordOlder ==
    ASSUME NEW r \in Record, NEW t \in 0 .. Ttl, NEW d \in 0 .. MaxDelay
    PROVE  [r EXCEPT !.left = t, !.wait = d] \in Record
    BY DEF Record

LEMMA RecordClaimed ==
    ASSUME NEW r \in Record, NEW a \in 0 .. MaxAttempts, NEW p \in WorkerId
    PROVE  [r EXCEPT !.status = "processing", !.attempts = a, !.owner = p,
                     !.left = Ttl] \in Record
<1>1. Ttl \in 0 .. Ttl
    BY Bounds
<1> QED  BY <1>1 DEF Record

LEMMA RecordConcluded ==
    ASSUME NEW r \in Record,
           NEW st \in {"pending", "failed", "done", "dead_letter"},
           NEW d \in 0 .. MaxDelay
    PROVE  [r EXCEPT !.status = st, !.wait = d, !.owner = NoWorker, !.left = 0]
              \in Record
<1>1. 0 \in 0 .. Ttl
    BY Bounds
<1> QED  BY <1>1 DEF Record

LEMMA StaleType ==
    ASSUME NEW W \in [Worker -> Activity]
    PROVE  Stale(W) \in [Worker -> Activity]
    BY DEF Stale, Activity

LEMMA TypeInit == Init => TypeOK
<1> SUFFICES ASSUME Init PROVE TypeOK
    OBVIOUS
<1>1. Absent \in Record
    BY Bounds DEF Absent, Record
<1>2. {Resting(j) : j \in Job} \subseteq Activity
    BY RestType
<1>3. {Unasked(j) : j \in Job} \subseteq Request
    BY RestType
<1>4. work \in [Worker -> Activity] /\ ask \in [Ask -> Request]
    BY <1>2, <1>3 DEF Init
<1> QED  BY <1>1, <1>4 DEF Init, TypeOK, Connector

\* The end of a worker's attempt, with a record r.
LEMMA ConcludeType ==
    ASSUME TypeOK, NEW w \in Worker, NEW pc \in {"succeeded", "unsuccessful"},
           NEW r \in Record, Conclude(w, pc, r)
    PROVE  TypeOK'
<1> DEFINE j == work[w].job
<1>1. j \in Job /\ work[w] \in Activity
    BY Fields
<1>2. Resting(j) \in Activity
    BY <1>1, RestType
<1>3. [work[w] EXCEPT !.pc = pc] \in Activity
    BY <1>1 DEF Activity
<1>4. rec' \in [Job -> Record]
    BY <1>1 DEF Conclude, TypeOK
<1>5. work' \in [Worker -> Activity]
    BY <1>2, <1>3 DEF Conclude, TypeOK
<1> QED  BY <1>4, <1>5 DEF Conclude, TypeOK

LEMMA SaveType ==
    ASSUME TypeOK, NEW s \in Ask, Save(s)
    PROVE  TypeOK'
<1> DEFINE j == ask[s].job
           st == IF ask[s].what = "retry" THEN "pending" ELSE "cancelled"
           a  == IF ask[s].what = "retry"
                 THEN AttemptsAfterRetry(kind[j], rec[j].attempts)
                 ELSE rec[j].attempts
           o  == IF ask[s].seen.owner # NoWorker \/ OwnerHidden(kind[j])
                 THEN NoWorker ELSE rec[j].owner
           t  == IF ask[s].seen.owner # NoWorker \/ ask[s].seen.left > 0
                 THEN 0 ELSE rec[j].left
           n  == IF Versioned(kind[j]) THEN rec[j].saves + 1 ELSE rec[j].saves
           r  == [rec[j] EXCEPT !.status = st, !.attempts = a, !.wait = 0,
                                !.owner = o, !.left = t, !.saves = n]
<1>1. j \in Job /\ rec[j] \in Record
    BY Fields
<1>2. rec' \in [Job -> Record]
    <2>1. rec' = rec \/ rec' = [rec EXCEPT ![j] = r]
        BY DEF Save
    <2>2. /\ a \in 0 .. MaxAttempts /\ o \in WorkerId \cup {NoWorker}
          /\ t \in 0 .. Ttl /\ n \in Nat /\ st \in {"pending", "cancelled"}
        BY <1>1, Bounds DEF Record, AttemptsAfterRetry
    <2> HIDE DEF j, st, a, o, t, n
    <2>3. r \in Record
        <3>1. 0 \in 0 .. MaxDelay
            BY Bounds
        <3> QED  BY <1>1, <2>2, <3>1, RecordWith
    <2> HIDE DEF r
    <2> QED  BY <1>1, <2>1, <2>3 DEF TypeOK
<1>3. ask' \in [Ask -> Request]
    BY <1>1, RestType DEF Save, TypeOK
<1>4. over' \in [Job -> BOOLEAN]
    BY <1>1 DEF Save, TypeOK
<1> QED  BY <1>2, <1>3, <1>4 DEF Save, TypeOK

\* Every step of workers, staff and the clock keeps the types.
THEOREM TypeStep == TypeOK /\ [Next]_vars => TypeOK'
<1> SUFFICES ASSUME TypeOK, [Next]_vars PROVE TypeOK'
    OBVIOUS
<1>1. ASSUME NEW j \in Job, Enqueue(j) PROVE TypeOK'
    <2>1. PICK t \in 0 .. MaxDelay :
               rec' = [rec EXCEPT ![j].status = "pending", ![j].wait = t]
        BY <1>1 DEF Enqueue
    <2>2. [rec[j] EXCEPT !.status = "pending", !.wait = t] \in Record
        BY Fields, RecordWaiting
    <2>3. rec' \in [Job -> Record]
        BY <2>1, <2>2 DEF TypeOK
    <2> QED  BY <1>1, <2>3 DEF Enqueue, TypeOK
<1>2. ASSUME NEW w \in Worker, NEW j \in Job, Claim(w, j) PROVE TypeOK'
    <2> DEFINE a == IF rec[j].attempts < MaxAttempts \/ Limited(kind[j])
                    THEN rec[j].attempts + 1 ELSE rec[j].attempts
    <2>1. a \in 0 .. MaxAttempts
        BY <1>2, Fields, Bounds DEF Claim, Claimable
    <2>2. rec' = [rec EXCEPT ![j].status = "processing", ![j].attempts = a,
                             ![j].owner = IdOf[w], ![j].left = Ttl]
        BY <1>2 DEF Claim
    <2>3. work' = [work EXCEPT ![w] = [pc |-> "claimed", job |-> j,
                                       attempt |-> a, lost |-> FALSE,
                                       fresh |-> FALSE]]
        BY <1>2 DEF Claim
    <2> HIDE DEF a
    <2>4. rec' \in [Job -> Record]
        <3> DEFINE r == [rec[j] EXCEPT !.status = "processing", !.attempts = a,
                                       !.owner = IdOf[w], !.left = Ttl]
        <3>1. r \in Record
            BY <2>1, Fields, RecordClaimed, QueueAssumption
        <3>2. rec' = [rec EXCEPT ![j] = r]
            BY <2>2 DEF TypeOK
        <3> HIDE DEF r
        <3> QED  BY <3>1, <3>2 DEF TypeOK
    <2>5. work' \in [Worker -> Activity]
        BY <2>1, <2>3 DEF TypeOK, Activity, AtWork
    <2>6. last' \in [Job -> Worker \cup {NoWorker}]
        BY <1>2 DEF Claim, TypeOK
    <2> QED  BY <1>2, <2>4, <2>5, <2>6 DEF Claim, TypeOK
<1>3. ASSUME NEW w \in Worker, Prepare(w) PROVE TypeOK'
    <2>1. PICK next \in {"working", "refused"} :
               work' = [work EXCEPT ![w].pc = next,
                                    ![w].fresh = kind[work[w].job] = "integration"]
        BY <1>3 DEF Prepare
    <2> DEFINE b == kind[work[w].job] = "integration"
    <2>2. b \in BOOLEAN
        OBVIOUS
    <2>3. work' = [work EXCEPT ![w].pc = next, ![w].fresh = b]
        BY <2>1
    <2> HIDE DEF b
    <2>4. [work[w] EXCEPT !.pc = next, !.fresh = b] \in Activity
        BY <2>2, Fields DEF Activity, AtWork
    <2>5. work' \in [Worker -> Activity]
        BY <2>3, <2>4 DEF TypeOK
    <2> QED  BY <1>3, <2>5 DEF Prepare, TypeOK
<1>4. ASSUME NEW w \in Worker, Deliver(w) PROVE TypeOK'
    <2>1. work' \in [Worker -> Activity]
        BY <1>4 DEF Deliver, TypeOK, Activity, AtWork
    <2> QED  BY <1>4, <2>1 DEF Deliver, TypeOK
<1>5. ASSUME NEW w \in Worker, RecordSuccess(w) PROVE TypeOK'
    <2> DEFINE r == [rec[work[w].job] EXCEPT !.status = "done", !.wait = 0,
                                             !.owner = NoWorker, !.left = 0]
    <2>1. r \in Record
        <3>1. rec[work[w].job] \in Record
            BY Fields
        <3>2. 0 \in 0 .. MaxDelay
            BY Bounds
        <3> QED  BY <3>1, <3>2, RecordConcluded
    <2>2. Conclude(w, "succeeded", r)
        BY <1>5 DEF RecordSuccess
    <2> HIDE DEF r
    <2> QED  BY <2>1, <2>2, ConcludeType
<1>6. ASSUME NEW w \in Worker, RecordFailure(w) PROVE TypeOK'
    <2> DEFINE j        == work[w].job
               terminal == Limited(kind[j]) /\ work[w].attempt >= MaxAttempts
               d        == IF terminal THEN 0 ELSE Backoff(work[w].attempt)
               st       == AfterFailure(kind[j], terminal)
               r        == [rec[j] EXCEPT !.status = st, !.wait = d,
                                          !.owner = NoWorker, !.left = 0]
    <2>1. d \in 0 .. MaxDelay
        BY Bounds DEF Backoff
    <2>2. st \in {"dead_letter", "pending", "failed"}
        BY DEF AfterFailure
    <2>3. Conclude(w, "unsuccessful", r)
        BY <1>6 DEF RecordFailure
    <2> HIDE DEF d, st
    <2>4. r \in Record
        <3>1. rec[j] \in Record
            BY Fields
        <3> QED  BY <2>1, <2>2, <3>1, RecordConcluded
    <2> HIDE DEF r
    <2> QED  BY <2>3, <2>4, ConcludeType
<1>7. ASSUME NEW w \in Worker, Report(w) PROVE TypeOK'
    <2>1. Resting(work[w].job) \in Activity
        BY Fields, RestType
    <2> DEFINE W == [work EXCEPT ![w] = Resting(@.job)]
    <2>2. W \in [Worker -> Activity]
        BY <2>1 DEF TypeOK
    <2>3. work' = W \/ work' = Stale(W)
        BY <1>7 DEF Report
    <2> HIDE DEF W
    <2>4. work' \in [Worker -> Activity]
        BY <2>2, <2>3, StaleType
    <2>5. conn' \in Connector
        BY <1>7 DEF Report, TypeOK, Connector
    <2> QED  BY <1>7, <2>4, <2>5 DEF Report, TypeOK
<1>8. ASSUME NEW w \in Worker, Heartbeat(w) PROVE TypeOK'
    <2>1. rec' \in [Job -> Record]
        BY SMTT(30), <1>8, Bounds DEF Heartbeat, TypeOK, Record
    <2>2. work' \in [Worker -> Activity]
        BY ZenonT(40), <1>8 DEF Heartbeat, TypeOK, Activity
    <2> QED  BY <1>8, <2>1, <2>2 DEF Heartbeat, TypeOK
<1>9. ASSUME NEW p \in WorkerId, Die(p) PROVE TypeOK'
    <2>1. \A w \in Worker : Dead(work[w].job) \in Activity
        BY Fields, RestType
    <2>2. work' \in [Worker -> Activity]
        BY <1>9, <2>1 DEF Die, TypeOK
    <2> QED  BY <1>9, <2>2 DEF Die, TypeOK
<1>10. ASSUME NEW s \in Ask, NEW j \in Job, NEW what \in {"retry", "cancel"},
              Read(s, j, what)
       PROVE  TypeOK'
    <2>1. ask' \in [Ask -> Request]
        BY <1>10, Fields DEF Read, TypeOK, Request
    <2> QED  BY <1>10, <2>1 DEF Read, TypeOK
<1>11. ASSUME NEW s \in Ask, Save(s) PROVE TypeOK'
    BY <1>11, SaveType
<1>12. ASSUME NEW status \in {"active", "disabled", "revoked"},
              SetConnector(status)
       PROVE  TypeOK'
    <2>1. work' \in [Worker -> Activity]
        BY <1>12, StaleType DEF SetConnector, TypeOK
    <2>2. conn' \in Connector
        BY <1>12 DEF SetConnector, TypeOK, Connector
    <2> QED  BY <1>12, <2>1, <2>2 DEF SetConnector, TypeOK
<1>13. ASSUME UpdateConnector PROVE TypeOK'
    <2>1. work' \in [Worker -> Activity]
        BY <1>13, StaleType DEF UpdateConnector, TypeOK
    <2>2. conn' \in Connector
        BY <1>13 DEF UpdateConnector, TypeOK, Connector
    <2> QED  BY <1>13, <2>1, <2>2 DEF UpdateConnector, TypeOK
<1>14. ASSUME Tick PROVE TypeOK'
    <2>1. \A j \in Job : [rec[j] EXCEPT !.left = Minus1(@), !.wait = Minus1(@)]
                            \in Record
        <3> SUFFICES ASSUME NEW j \in Job
                     PROVE  [rec[j] EXCEPT !.left = Minus1(@), !.wait = Minus1(@)]
                               \in Record
            OBVIOUS
        <3>1. Minus1(rec[j].left) \in 0 .. Ttl /\ Minus1(rec[j].wait) \in 0 .. MaxDelay
            BY Fields, Bounds DEF Minus1, Record
        <3> QED  BY <3>1, Fields, RecordOlder
    <2>2. rec' \in [Job -> Record]
        BY <1>14, <2>1 DEF Tick
    <2>3. over' \in [Job -> BOOLEAN]
        BY <1>14 DEF Tick
    <2> QED  BY <1>14, <2>2, <2>3 DEF Tick, TypeOK
<1>15. CASE UNCHANGED vars
    BY <1>15 DEF vars, TypeOK
<1> QED  BY <1>1, <1>2, <1>3, <1>4, <1>5, <1>6, <1>7, <1>8, <1>9, <1>10, <1>11,
            <1>12, <1>13, <1>14, <1>15 DEF Next, WorkStep

\* Every record, worker and request keeps its type; in particular no record
\* of a queue with a limit is ever claimed more often than that.
THEOREM TypeCorrect == Spec => []TypeOK
    BY TypeInit, TypeStep, PTL DEF Spec

(***************************************************************************)
(* Ownership                                                               *)
(***************************************************************************)

\* A claim is owned by the last worker that took it, if by any.
Owned == \A j \in Job :
            rec[j].owner # NoWorker
            => last[j] \in Worker /\ rec[j].owner = IdOf[last[j]]

\* Nobody has overwritten news of a record: then a worker at work on it is the
\* last that claimed it, and the claim has not lapsed.
Exclusive ==
    \A j \in Job, w \in Worker :
        ~over[j] /\ Working(w, j)
        => rec[j].status = "processing" /\ last[j] = w /\ rec[j].left > 0

\* Staff never retry or cancel a claim they saw in force.
SeenLapsed ==
    \A s \in Ask : ask[s].pc = "read"
                   => ask[s].seen.status # "processing" \/ ask[s].seen.left = 0

\* A connector as its worker read it, unless to fail, is one in use.
FreshInUse ==
    \A w \in Worker :
        work[w].fresh /\ work[w].pc \in {"working", "sent", "succeeded"} => Usable

IInv == TypeOK /\ Owned /\ Exclusive /\ SeenLapsed /\ FreshInUse

LEMMA IInvInit == Init => IInv
<1> SUFFICES ASSUME Init PROVE IInv
    OBVIOUS
<1>1. \A w \in Worker : work[w].pc = "idle" /\ work[w].fresh = FALSE
    BY DEF Init, Resting
<1>2. \A s \in Ask : ask[s].pc = "idle"
    BY DEF Init, Unasked
<1>3. Owned
    BY DEF Init, Owned, Absent
<1>4. Exclusive /\ SeenLapsed /\ FreshInUse
    BY <1>1, <1>2 DEF Exclusive, SeenLapsed, FreshInUse, Working, AtWork
<1> QED  BY <1>3, <1>4, TypeInit DEF IInv

\* Workers that go on, rest or die work on nothing they did not work on.
LEMMA NoNewWork ==
    ASSUME Exclusive, rec' = rec, over' = over, last' = last,
           \A w \in Worker, j \in Job : Working(w, j)' => Working(w, j)
    PROVE  Exclusive'
    BY DEF Exclusive

LEMMA ConcludeKeeps ==
    ASSUME IInv, NEW w \in Worker, work[w].pc \in AtWork,
           NEW pc \in {"succeeded", "unsuccessful"},
           NEW r \in Record, r.owner = NoWorker, Conclude(w, pc, r),
           pc = "succeeded" => work[w].pc = "sent"
    PROVE  Owned' /\ Exclusive' /\ SeenLapsed' /\ FreshInUse'
<1> DEFINE j == work[w].job
<1>a. TypeOK /\ j \in Job
    BY Fields DEF IInv
<1>1. Owned'
    BY <1>a DEF IInv, Owned, Conclude, TypeOK
<1>2. SeenLapsed'
    BY DEF IInv, SeenLapsed, Conclude
<1>3. /\ \A v \in Worker \ {w} : work'[v] = work[v]
      /\ \/ work'[w] = [work[w] EXCEPT !.pc = pc]
         \/ work'[w] = Resting(j)
    BY <1>a DEF Conclude, TypeOK
<1>4. work[w] \in Activity
    BY <1>a, Fields
<1>5. FreshInUse'
    <2>1. work'[w].fresh /\ work'[w].pc \in {"working", "sent", "succeeded"}
          => work[w].fresh /\ work[w].pc = "sent"
        BY <1>3, <1>4 DEF Resting, Activity
    <2>2. conn' = conn
        BY DEF Conclude
    <2> QED  BY <1>3, <2>1, <2>2 DEF IInv, FreshInUse, Usable
<1>6. \A v \in Worker, i \in Job : Working(v, i)' => v # w /\ Working(v, i)
    BY <1>3, <1>4 DEF Working, AtWork, Resting, Activity
<1>o. over' = over /\ last' = last
    BY DEF Conclude
<1>7. ASSUME UNCHANGED rec PROVE Exclusive'
    <2>1. \A v \in Worker, i \in Job : Working(v, i)' => Working(v, i)
        BY <1>6
    <2> QED  BY <1>o, <1>7, <2>1, NoNewWork DEF IInv
<1>8. ASSUME Mine(w), rec' = [rec EXCEPT ![j] = r] PROVE Exclusive'
    <2> SUFFICES ASSUME NEW i \in Job, NEW v \in Worker, ~over'[i], Working(v, i)'
                 PROVE  /\ rec'[i].status = "processing" /\ last'[i] = v
                        /\ rec'[i].left > 0
        BY DEF Exclusive
    <2>1. /\ rec[i].status = "processing" /\ last[i] = v /\ rec[i].left > 0
          /\ v # w
        BY <1>o, <1>6 DEF IInv, Exclusive
    <2>2. i # j
        <3>1. ~over[j] => last[j] = w
            BY <1>a DEF IInv, Exclusive, Working
        <3> QED  BY <1>o, <2>1, <3>1
    <2> QED  BY <1>8, <1>a, <1>o, <2>1, <2>2 DEF TypeOK
<1> QED  BY <1>1, <1>2, <1>5, <1>7, <1>8 DEF Conclude

LEMMA StaleSame ==
    ASSUME NEW W \in [Worker -> Activity], NEW w \in Worker
    PROVE  /\ Stale(W)[w].pc = W[w].pc /\ Stale(W)[w].job = W[w].job
           /\ Stale(W)[w].fresh = FALSE
    BY DEF Stale, Activity

LEMMA SaveOwner ==
    ASSUME TypeOK, NEW s \in Ask, Save(s)
    PROVE  rec'[ask[s].job].owner \in {NoWorker, rec[ask[s].job].owner}
<1> DEFINE j  == ask[s].job
           st == IF ask[s].what = "retry" THEN "pending" ELSE "cancelled"
           a  == IF ask[s].what = "retry"
                 THEN AttemptsAfterRetry(kind[j], rec[j].attempts)
                 ELSE rec[j].attempts
           o  == IF ask[s].seen.owner # NoWorker \/ OwnerHidden(kind[j])
                 THEN NoWorker ELSE rec[j].owner
           t  == IF ask[s].seen.owner # NoWorker \/ ask[s].seen.left > 0
                 THEN 0 ELSE rec[j].left
           n  == IF Versioned(kind[j]) THEN rec[j].saves + 1 ELSE rec[j].saves
           r  == [rec[j] EXCEPT !.status = st, !.attempts = a, !.wait = 0,
                                !.owner = o, !.left = t, !.saves = n]
<1>1. j \in Job /\ rec[j] \in Record
    BY Fields
<1>2. rec' = rec \/ rec' = [rec EXCEPT ![j] = r]
    BY DEF Save
<1>3. o \in {NoWorker, rec[j].owner}
    OBVIOUS
<1> HIDE DEF j, st, a, o, t, n
<1>4. r.owner = o
    BY <1>1 DEF Record
<1> HIDE DEF r
<1>5. rec'[j].owner \in {NoWorker, rec[j].owner}
    BY <1>1, <1>2, <1>3, <1>4 DEF TypeOK
<1> QED  BY <1>5 DEF j

\* Each operation of workers and staff, and the clock, keep ownership.
THEOREM IInvStep == IInv /\ [Next]_vars => IInv'
<1> SUFFICES ASSUME IInv, [Next]_vars PROVE IInv'
    OBVIOUS
<1>t. TypeOK /\ TypeOK'
    BY TypeStep DEF IInv
<1> DEFINE Rest == Owned' /\ Exclusive' /\ SeenLapsed' /\ FreshInUse'
<1>1. ASSUME NEW j \in Job, Enqueue(j) PROVE Rest
    <2>1. /\ rec[j].status = "absent"
          /\ \A i \in Job : rec'[i].owner = rec[i].owner
          /\ \A i \in Job \ {j} : rec'[i] = rec[i]
        BY <1>1, <1>t DEF Enqueue, TypeOK, Record
    <2>2. Owned' /\ SeenLapsed' /\ FreshInUse'
        BY <1>1, <2>1 DEF Enqueue, IInv, Owned, SeenLapsed, FreshInUse, Usable
    <2>3. Exclusive'
        BY <1>1, <2>1 DEF Enqueue, IInv, Exclusive, Working
    <2> QED  BY <2>2, <2>3
<1>2. ASSUME NEW w \in Worker, NEW j \in Job, Claim(w, j) PROVE Rest
    <2>1. /\ rec'[j].status = "processing" /\ rec'[j].owner = IdOf[w]
          /\ rec'[j].left = Ttl /\ last'[j] = w
          /\ \A i \in Job \ {j} : rec'[i] = rec[i] /\ last'[i] = last[i]
        BY <1>2, <1>t DEF Claim, TypeOK, Record
    <2>2. /\ work'[w].pc = "claimed" /\ work'[w].job = j
          /\ \A v \in Worker \ {w} : work'[v] = work[v]
        BY <1>2, <1>t DEF Claim, TypeOK
    <2>3. Owned' /\ SeenLapsed' /\ FreshInUse'
        BY <1>2, <2>1, <2>2 DEF Claim, IInv, Owned, SeenLapsed, FreshInUse, Usable
    <2>4. \A v \in Worker : ~over[j] => ~Working(v, j)
        BY <1>2 DEF Claim, Claimable, Waiting, IInv, Exclusive
    <2>5. Exclusive'
        <3> SUFFICES ASSUME NEW i \in Job, NEW v \in Worker, ~over'[i],
                            Working(v, i)'
                     PROVE  /\ rec'[i].status = "processing" /\ last'[i] = v
                            /\ rec'[i].left > 0
            BY DEF Exclusive
        <3>0. over' = over
            BY <1>2 DEF Claim
        <3>1. CASE v = w
            BY <2>1, <2>2, <3>1, Bounds DEF Working
        <3>2. CASE v # w
            <4>1. Working(v, i)
                BY <2>2, <3>2 DEF Working
            <4>2. i # j
                BY <2>4, <3>0, <4>1
            <4> QED  BY <2>1, <3>0, <4>1, <4>2 DEF IInv, Exclusive
        <3> QED  BY <3>1, <3>2
    <2> QED  BY <2>3, <2>5
<1>3. ASSUME NEW w \in Worker, Prepare(w) PROVE Rest
    <2>1. /\ work[w].pc = "claimed" /\ work'[w].job = work[w].job
          /\ work'[w].fresh /\ work'[w].pc = "working" => Usable
          /\ work'[w].pc \in {"working", "refused"}
          /\ \A v \in Worker \ {w} : work'[v] = work[v]
        BY <1>3, <1>t DEF Prepare, TypeOK, Activity
    <2>2. Owned' /\ SeenLapsed' /\ FreshInUse'
        BY <1>3, <2>1 DEF Prepare, IInv, Owned, SeenLapsed, FreshInUse, Usable
    <2>3. \A v \in Worker, i \in Job : Working(v, i)' => Working(v, i)
        BY <2>1 DEF Working, AtWork
    <2>4. Exclusive'
        BY <1>3, <2>3, NoNewWork DEF Prepare, IInv
    <2> QED  BY <2>2, <2>4
<1>4. ASSUME NEW w \in Worker, Deliver(w) PROVE Rest
    <2>1. /\ work[w].pc = "working" /\ work'[w].job = work[w].job
          /\ work'[w].fresh = work[w].fresh
          /\ work'[w].pc \in {"sent", "refused"}
          /\ \A v \in Worker \ {w} : work'[v] = work[v]
        BY <1>4, <1>t DEF Deliver, TypeOK, Activity
    <2>2. Owned' /\ SeenLapsed' /\ FreshInUse'
        BY <1>4, <2>1 DEF Deliver, IInv, Owned, SeenLapsed, FreshInUse, Usable
    <2>3. \A v \in Worker, i \in Job : Working(v, i)' => Working(v, i)
        BY <2>1 DEF Working, AtWork
    <2>4. Exclusive'
        BY <1>4, <2>3, NoNewWork DEF Deliver, IInv
    <2> QED  BY <2>2, <2>4
<1>5. ASSUME NEW w \in Worker, RecordSuccess(w) PROVE Rest
    <2> DEFINE r == [rec[work[w].job] EXCEPT !.status = "done", !.wait = 0,
                                             !.owner = NoWorker, !.left = 0]
    <2>1. rec[work[w].job] \in Record /\ 0 \in 0 .. MaxDelay
        BY <1>t, Fields, Bounds
    <2>2. r \in Record /\ r.owner = NoWorker
        BY <2>1, RecordConcluded DEF Record
    <2>3. Conclude(w, "succeeded", r) /\ work[w].pc = "sent"
        BY <1>5 DEF RecordSuccess
    <2> HIDE DEF r
    <2> QED  BY <2>2, <2>3, ConcludeKeeps DEF AtWork
<1>6. ASSUME NEW w \in Worker, RecordFailure(w) PROVE Rest
    <2> DEFINE j        == work[w].job
               terminal == Limited(kind[j]) /\ work[w].attempt >= MaxAttempts
               d        == IF terminal THEN 0 ELSE Backoff(work[w].attempt)
               st       == AfterFailure(kind[j], terminal)
               r        == [rec[j] EXCEPT !.status = st, !.wait = d,
                                          !.owner = NoWorker, !.left = 0]
    <2>1. d \in 0 .. MaxDelay
        BY Bounds DEF Backoff
    <2>2. st \in {"dead_letter", "pending", "failed"}
        BY DEF AfterFailure
    <2>3. Conclude(w, "unsuccessful", r) /\ work[w].pc = "refused"
        BY <1>6 DEF RecordFailure
    <2>4. rec[j] \in Record
        BY <1>t, Fields
    <2> HIDE DEF d, st, j
    <2>5. r \in Record /\ r.owner = NoWorker
        BY <2>1, <2>2, <2>4, RecordConcluded DEF Record
    <2> HIDE DEF r
    <2> QED  BY <2>3, <2>5, ConcludeKeeps DEF AtWork
<1>7. ASSUME NEW w \in Worker, Report(w) PROVE Rest
    <2> DEFINE W == [work EXCEPT ![w] = Resting(@.job)]
    <2>1. W \in [Worker -> Activity]
        BY <1>t, Fields, RestType DEF TypeOK
    <2>2. /\ W[w].pc = "idle" /\ W[w].fresh = FALSE
          /\ \A v \in Worker \ {w} : W[v] = work[v]
        BY <1>t DEF Resting, TypeOK
    <2>3. \/ work' = W /\ conn' = conn
          \/ work' = Stale(W)
        BY <1>7 DEF Report
    <2> HIDE DEF W
    <2>4. \A v \in Worker, i \in Job : Working(v, i)' => Working(v, i)
        BY <2>1, <2>2, <2>3, StaleSame DEF Working, AtWork
    <2>5. FreshInUse'
        BY <2>1, <2>2, <2>3, StaleSame DEF IInv, FreshInUse, Usable
    <2>6. Exclusive'
        BY <1>7, <2>4, NoNewWork DEF Report, IInv
    <2> QED  BY <1>7, <2>5, <2>6 DEF Report, IInv, Owned, SeenLapsed
<1>8. ASSUME NEW w \in Worker, Heartbeat(w) PROVE Rest
    <2>1. /\ \A v \in Worker : /\ work'[v].pc = work[v].pc
                               /\ work'[v].job = work[v].job
                               /\ work'[v].fresh = work[v].fresh
        BY <1>8, <1>t DEF Heartbeat, TypeOK, Activity
    <2>2. \A j \in Job : /\ rec'[j].status = rec[j].status
                         /\ rec'[j].owner = rec[j].owner
                         /\ rec[j].left > 0 => rec'[j].left > 0
        BY <1>8, <1>t, Bounds DEF Heartbeat, TypeOK, Record
    <2>3. Owned' /\ SeenLapsed' /\ FreshInUse'
        BY <1>8, <2>1, <2>2
        DEF Heartbeat, IInv, Owned, SeenLapsed, FreshInUse, Usable
    <2>4. Exclusive'
        BY <1>8, <2>1, <2>2 DEF Heartbeat, IInv, Exclusive, Working
    <2> QED  BY <2>3, <2>4
<1>9. ASSUME NEW p \in WorkerId, Die(p) PROVE Rest
    <2>1. \A v \in Worker : work'[v].pc = "dead" \/ work'[v] = work[v]
        BY <1>9 DEF Die, Dead, Resting
    <2>2. Owned' /\ SeenLapsed' /\ FreshInUse'
        BY <1>9, <2>1 DEF Die, IInv, Owned, SeenLapsed, FreshInUse, Usable
    <2>3. \A v \in Worker, i \in Job : Working(v, i)' => Working(v, i)
        BY <2>1 DEF Working, AtWork
    <2>4. Exclusive'
        BY <1>9, <2>3, NoNewWork DEF Die, IInv
    <2> QED  BY <2>2, <2>4
<1>10. ASSUME NEW s \in Ask, NEW j \in Job, NEW what \in {"retry", "cancel"},
              Read(s, j, what)
       PROVE  Rest
    <2>1. rec[j].status # "processing" \/ rec[j].left = 0
        BY <1>10 DEF Read, Retryable, Cancellable
    <2>2. SeenLapsed'
        BY <1>10, <1>t, <2>1 DEF Read, IInv, SeenLapsed, TypeOK
    <2> QED  BY <1>10, <2>2 DEF Read, IInv, Owned, Exclusive, Working, FreshInUse,
                                Usable
<1>11. ASSUME NEW s \in Ask, Save(s) PROVE Rest
    <2> DEFINE j == ask[s].job
    <2>1. j \in Job
        BY <1>t, Fields
    <2>2. /\ \A i \in Job \ {j} : rec'[i] = rec[i] /\ over'[i] = over[i]
        BY <1>11, <1>t DEF Save, TypeOK
    <2>c. rec'[j].owner \in {NoWorker, rec[j].owner}
        BY <1>11, <1>t, SaveOwner
    <2>a. \/ rec' = rec /\ over' = over
          \/ over' = [over EXCEPT ![j] = over[j] \/ rec[j] # ask[s].seen]
        BY <1>11 DEF Save
    <2>b. ask[s].pc = "read" /\ UNCHANGED <<work, last>>
        BY <1>11 DEF Save
    <2>3. Owned'
        BY <1>11, <2>1, <2>2, <2>c DEF Save, IInv, Owned
    <2>4. SeenLapsed'
        BY <1>11, <1>t DEF Save, IInv, SeenLapsed, TypeOK, Unasked, Request
    <2>5. FreshInUse'
        BY <1>11 DEF Save, IInv, FreshInUse, Usable
    <2>6. \A w \in Worker : ~over'[j] /\ Working(w, j) => rec' = rec /\ over' = over
        <3> SUFFICES ASSUME NEW w \in Worker, ~over'[j], Working(w, j),
                            ~(rec' = rec /\ over' = over)
                     PROVE  FALSE
            OBVIOUS
        <3>1. ~over[j] /\ rec[j] = ask[s].seen
            BY <1>t, <2>1, <2>a DEF TypeOK
        <3>2. rec[j].status = "processing" /\ rec[j].left > 0
            BY <2>1, <3>1 DEF IInv, Exclusive
        <3>3. rec[j].status # "processing" \/ rec[j].left = 0
            BY <2>b, <3>1 DEF IInv, SeenLapsed
        <3> QED  BY <3>2, <3>3
    <2>7. Exclusive'
        <3> SUFFICES ASSUME NEW i \in Job, NEW w \in Worker, ~over'[i],
                            Working(w, i)'
                     PROVE  /\ rec'[i].status = "processing" /\ last'[i] = w
                            /\ rec'[i].left > 0
            BY DEF Exclusive
        <3>1. Working(w, i)
            BY <2>b DEF Working
        <3>2. rec'[i] = rec[i] /\ over'[i] = over[i]
            BY <2>1, <2>2, <2>6, <3>1
        <3> QED  BY <2>b, <3>1, <3>2 DEF IInv, Exclusive
    <2> QED  BY <2>3, <2>4, <2>5, <2>7
<1>12. ASSUME NEW status \in {"active", "disabled", "revoked"},
              SetConnector(status)
       PROVE  Rest
    <2>1. \A v \in Worker : /\ work'[v].pc = work[v].pc /\ work'[v].fresh = FALSE
                            /\ work'[v].job = work[v].job
        BY <1>12, <1>t, StaleSame DEF SetConnector, TypeOK
    <2> QED  BY <1>12, <2>1 DEF SetConnector, IInv, Owned, Exclusive, Working,
                                SeenLapsed, FreshInUse
<1>13. ASSUME UpdateConnector PROVE Rest
    <2>1. \A v \in Worker : /\ work'[v].pc = work[v].pc /\ work'[v].fresh = FALSE
                            /\ work'[v].job = work[v].job
        BY <1>13, <1>t, StaleSame DEF UpdateConnector, TypeOK
    <2> QED  BY <1>13, <2>1 DEF UpdateConnector, IInv, Owned, Exclusive, Working,
                                SeenLapsed, FreshInUse
<1>14. ASSUME Tick PROVE Rest
    <2>1. \A j \in Job : /\ rec'[j].status = rec[j].status
                         /\ rec'[j].owner = rec[j].owner
                         /\ rec'[j].left = Minus1(rec[j].left)
        BY ZenonT(40), <1>14, <1>t DEF Tick, TypeOK, Record
    <2>2. \A j \in Job : ~over'[j] =>
             ~over[j] /\ \A w \in Worker : Working(w, j) => rec[j].left # 1
        BY <1>14 DEF Tick
    <2>3. UNCHANGED <<kind, work, ask, conn, last>>
        BY <1>14 DEF Tick
    <2>4. Owned' /\ SeenLapsed' /\ FreshInUse'
        BY <2>1, <2>3 DEF IInv, Owned, SeenLapsed, FreshInUse, Usable
    <2>5. Exclusive'
        <3> SUFFICES ASSUME NEW j \in Job, NEW w \in Worker, ~over'[j],
                            Working(w, j)'
                     PROVE  /\ rec'[j].status = "processing" /\ last'[j] = w
                            /\ rec'[j].left > 0
            BY DEF Exclusive
        <3>1. Working(w, j)
            BY <2>3 DEF Working
        <3>2. /\ rec[j].status = "processing" /\ last[j] = w
              /\ rec[j].left > 0 /\ rec[j].left # 1
            BY <2>2, <3>1 DEF IInv, Exclusive
        <3>3. rec[j].left \in Nat
            BY <1>t, Fields
        <3>4. Minus1(rec[j].left) > 0
            BY <3>2, <3>3 DEF Minus1
        <3> QED  BY <2>1, <2>3, <3>2, <3>4
    <2> QED  BY <2>4, <2>5
<1>15. CASE UNCHANGED vars
    <2>1. Owned' /\ SeenLapsed' /\ FreshInUse'
        BY <1>15 DEF vars, IInv, Owned, SeenLapsed, FreshInUse, Usable
    <2>2. Exclusive'
        <3>1. rec' = rec /\ over' = over /\ last' = last
            BY <1>15 DEF vars
        <3>2. \A w \in Worker, j \in Job : Working(w, j)' => Working(w, j)
            BY <1>15 DEF vars, Working
        <3> QED  BY <3>1, <3>2, NoNewWork DEF IInv
    <2> QED  BY <1>t, <2>1, <2>2 DEF IInv
<1> QED  BY <1>t, <1>1, <1>2, <1>3, <1>4, <1>5, <1>6, <1>7, <1>8, <1>9, <1>10,
            <1>11, <1>12, <1>13, <1>14, <1>15 DEF Next, WorkStep, IInv

THEOREM Ownership == Spec => []IInv
    BY IInvInit, IInvStep, PTL DEF Spec

\* Two workers are at work on one record only after a claim lapsed at work or
\* staff overwrote news, for every queue and any number of workers.
THEOREM OneWorker == Spec => []OneWorkerAtATime
<1>1. IInv => OneWorkerAtATime
    BY DEF IInv, Exclusive, OneWorkerAtATime
<1> QED  BY <1>1, Ownership, PTL

\* A worker that finds the record in the name of its process is the last that
\* claimed it, or another pass of the same process is, over a lapsed claim.
LEMMA MineIsLast ==
    ASSUME IInv, NEW w \in Worker, Mine(w), work[w].pc \in AtWork
    PROVE  LET j == work[w].job
           IN  \/ last[j] = w
               \/ over[j] /\ IdOf[last[j]] = IdOf[w]
<1>1. work[w].job \in Job
    BY Fields DEF IInv
<1>2. IdOf[last[work[w].job]] = IdOf[w]
    BY <1>1, QueueAssumption DEF IInv, Owned, Mine
<1>3. ~over[work[w].job] => last[work[w].job] = w
    BY <1>1 DEF IInv, Exclusive, Working
<1> QED  BY <1>1, <1>2, <1>3 DEF IInv, TypeOK

\* What changes a record while the worker that has its outcome goes on.
LEMMA OnlyConclude ==
    ASSUME TypeOK, Next, NEW w \in Worker, work[w].pc \in {"sent", "refused"},
           work'[w].pc # work[w].pc, rec'[work[w].job] # rec[work[w].job]
    PROVE  Mine(w)
<1>1. ASSUME NEW v \in Worker, v # w, work' = [work EXCEPT ![v] = work'[v]]
      PROVE  FALSE
    BY <1>1 DEF TypeOK
<1>2. ASSUME NEW v \in Worker, NEW pc \in {"succeeded", "unsuccessful"},
             NEW r, Conclude(v, pc, r)
      PROVE  Mine(w)
    BY <1>2 DEF Conclude, TypeOK
<1>3. CASE UNCHANGED rec
    BY <1>3
<1>4. CASE UNCHANGED work
    BY <1>4
<1>5. ASSUME NEW v \in Worker, NEW j \in Job, Claim(v, j) PROVE FALSE
    BY <1>5 DEF Claim, TypeOK
<1>6. ASSUME NEW v \in Worker, RecordSuccess(v) PROVE Mine(w)
    BY <1>2, <1>6 DEF RecordSuccess
<1>7. ASSUME NEW v \in Worker, RecordFailure(v) PROVE Mine(w)
    BY <1>2, <1>7 DEF RecordFailure
<1>8. ASSUME NEW v \in Worker, Heartbeat(v) PROVE FALSE
    BY <1>8 DEF Heartbeat, TypeOK
<1> QED  BY <1>3, <1>4, <1>5, <1>6, <1>7, <1>8
         DEF Next, WorkStep, Enqueue, Prepare, Deliver, Report, Die, Read, Save,
             SetConnector, UpdateConnector, Tick

\* A worker that has lost its record to another process never writes its
\* outcome, however many passes each process has, and to another pass of its
\* own process only over a claim that lapsed at work or stale news of staff.
THEOREM StaleOwners == Spec => StaleOwnersRejected
<1> DEFINE A == \A w \in Worker : WritesOutcome(w) =>
                   LET j == work[w].job
                   IN  \/ last[j] = w
                       \/ over[j] /\ IdOf[last[j]] = IdOf[w]
<1>1. IInv /\ [Next]_vars => [A]_vars
    <2> SUFFICES ASSUME IInv, Next, NEW w \in Worker, WritesOutcome(w)
                 PROVE  LET j == work[w].job
                        IN  \/ last[j] = w
                            \/ over[j] /\ IdOf[last[j]] = IdOf[w]
        OBVIOUS
    <2>1. Mine(w)
        BY OnlyConclude DEF IInv, WritesOutcome
    <2> QED  BY <2>1, MineIsLast DEF WritesOutcome, AtWork
<1> QED  BY <1>1, Ownership, PTL DEF Spec, StaleOwnersRejected

\* The report of a job never switches a connector on again.
THEOREM SwitchedOff == Spec => SwitchedOffStaysOff
<1> DEFINE A == \A w \in Worker :
                   /\ work[w].pc \in {"succeeded", "unsuccessful"}
                   /\ work'[w].pc = "idle"
                   /\ ~Usable
                   => conn'.status = conn.status
<1>1. IInv /\ [Next]_vars => [A]_vars
    <2> SUFFICES ASSUME IInv, Next, NEW w \in Worker,
                        work[w].pc \in {"succeeded", "unsuccessful"},
                        work'[w].pc = "idle", ~Usable
                 PROVE  conn'.status = conn.status
        OBVIOUS
    <2>t. TypeOK
        BY DEF IInv
    <2>1. CASE UNCHANGED conn
        BY <2>1
    <2>2. ASSUME NEW v \in Worker, Report(v) PROVE conn'.status = conn.status
        <3>1. v = w
            <4> DEFINE W == [work EXCEPT ![v] = Resting(@.job)]
            <4>1. W \in [Worker -> Activity]
                BY <2>t, Fields, RestType DEF TypeOK
            <4>2. \A u \in Worker \ {v} : W[u] = work[u]
                BY <2>t DEF TypeOK
            <4>3. work' = W \/ work' = Stale(W)
                BY <2>2 DEF Report
            <4> HIDE DEF W
            <4> QED  BY <4>1, <4>2, <4>3, StaleSame
        <3>2. CASE conn' = conn
            BY <3>2
        <3>3. CASE work[w].pc = "succeeded" /\ work[w].fresh
            BY <3>3 DEF IInv, FreshInUse
        <3>4. CASE work[w].pc = "unsuccessful"
            BY <2>2, <3>1, <3>4, <2>t DEF Report, Usable, TypeOK, Connector
        <3> QED  BY <2>2, <3>1, <3>2, <3>3, <3>4 DEF Report, Savable
    <2>3. ASSUME work' = Stale(work) PROVE FALSE
        BY <2>t, <2>3, StaleSame DEF TypeOK
    <2> QED  BY <2>1, <2>2, <2>3
             DEF Next, WorkStep, Enqueue, Claim, Prepare, Deliver, RecordSuccess,
                 RecordFailure, Conclude, Heartbeat, Die, Read, Save,
                 SetConnector, UpdateConnector, Tick
<1> QED  BY <1>1, Ownership, PTL DEF Spec, SwitchedOffStaysOff
=============================================================================
